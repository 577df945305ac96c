------------------------- MODULE HareHarnessProofs -------------------------
(***************************************************************************)
(* Proofs about HareHarness, for every set of harnesses, inputs and names, *)
(* every suffix relation and every choice of faults, and that it is an     *)
(* implementation of HareTestCase.                                         *)
(***************************************************************************)
EXTENDS HareHarness, TLAPS

-----------------------------------------------------------------------------
(* Type correctness.                                                       *)

LEMMA InitType == Init => TypeOK
  <1>1. 0 \in Second
    BY ClockAssumption DEF Second
  <1> QED
    BY <1>1 DEF Init, TypeOK, MainPC

LEMMA MainType ==
  ASSUME TypeOK, NEW h \in Harness, Main(h)
  PROVE  TypeOK'
  <1>1. CASE ReadTestInput(h)
    BY <1>1 DEF TypeOK, ReadTestInput, Fail, Goto, MainPC, envVars, mainVars, daemonVars,
        dirVars, fileVars
  <1>2. CASE CheckWatchDir(h)
    BY <1>2 DEF TypeOK, CheckWatchDir, Goto, MainPC, envVars, mainVars, daemonVars,
        dirVars, fileVars
  <1>3. CASE MakeWatchDir(h)
    <2>1. pc' \in [Harness -> MainPC] /\ success' \in [Harness -> {0, 1}]
      BY <1>3 DEF TypeOK, MakeWatchDir, Fail, Goto, MainPC
    <2>2. watch_dir' \in BOOLEAN
      BY <1>3 DEF TypeOK, MakeWatchDir
    <2> QED
      BY <1>3, <2>1, <2>2 DEF TypeOK, MakeWatchDir, envVars, daemonVars, fileVars
  <1>4. CASE CheckProcessDir(h)
    BY <1>4 DEF TypeOK, CheckProcessDir, Goto, MainPC, envVars, mainVars, daemonVars,
        dirVars, fileVars
  <1>5. CASE MakeProcessDir(h)
    <2>1. pc' \in [Harness -> MainPC] /\ success' \in [Harness -> {0, 1}]
      BY <1>5 DEF TypeOK, MakeProcessDir, Fail, Goto, MainPC
    <2>2. process_dir' \in BOOLEAN
      BY <1>5 DEF TypeOK, MakeProcessDir
    <2> QED
      BY <1>5, <2>1, <2>2 DEF TypeOK, MakeProcessDir, envVars, daemonVars, fileVars
  <1>6. CASE MakePipes(h)
    BY <1>6 DEF TypeOK, MakePipes, Fail, Goto, MainPC, envVars, mainVars, daemonVars,
        dirVars, fileVars
  <1>7. CASE CreateTestFile(h)
    <2> DEFINE e == Leaf[input[h]]
    <2>1. CASE e # NoEntry /\ watch' = [watch EXCEPT ![e] = @ \cup {h}]
               /\ file_exists' = [file_exists EXCEPT ![h] = TRUE]
               /\ Goto(h, "open", "write") /\ UNCHANGED success
      <3>1. e \in Entry
        BY <2>1, LeafAssumption DEF TypeOK
      <3>2. watch' \in [Entry -> SUBSET Harness]
        BY <2>1, <3>1 DEF TypeOK
      <3> HIDE DEF e
      <3> QED
        BY <1>7, <2>1, <3>2 DEF TypeOK, CreateTestFile, Goto, MainPC, envVars,
            daemonVars, dirVars
    <2>2. CASE Fail(h, "open", "cleanup") /\ UNCHANGED <<watch, file_exists>>
      BY <1>7, <2>2 DEF TypeOK, CreateTestFile, Fail, Goto, MainPC, envVars,
          daemonVars, dirVars
    <2> QED
      BY <1>7, <2>1, <2>2 DEF CreateTestFile
  <1>8. CASE WriteTestFile(h)
    BY <1>8 DEF TypeOK, WriteTestFile, Fail, Goto, MainPC, envVars, mainVars, daemonVars,
        dirVars, fileVars
  <1>9. CASE VerifyEdgeCase(h)
    BY <1>9 DEF TypeOK, VerifyEdgeCase, Goto, MainPC, envVars, mainVars, daemonVars,
        dirVars, fileVars, GiveUp
  <1>10. CASE RemoveEdgeCase(h)
    BY <1>10 DEF TypeOK, RemoveEdgeCase, Goto, MainPC, envVars, mainVars, daemonVars,
        dirVars, fileVars, RemoveTestCase, GiveUp
  <1>11. CASE TellDaemon(h)
    BY <1>11 DEF TypeOK, TellDaemon, Fail, Goto, MainPC, envVars, mainVars, daemonVars,
        dirVars, fileVars, GiveUp
  <1>12. CASE ForkDaemon(h)
    BY <1>12 DEF TypeOK, ForkDaemon, Goto, MainPC, envVars, mainVars, daemonVars,
        dirVars, fileVars, Working
  <1>13. CASE RefuseUser(h)
    BY <1>13 DEF TypeOK, RefuseUser, Fail, Goto, MainPC, envVars, mainVars, daemonVars,
        dirVars, fileVars, GiveUp
  <1>14. CASE ForkFails(h)
    BY <1>14 DEF TypeOK, ForkFails, Fail, Goto, MainPC, envVars, mainVars, daemonVars,
        dirVars, fileVars, GiveUp
  <1>15. CASE WaitDaemon(h)
    BY <1>15 DEF TypeOK, WaitDaemon, Goto, MainPC, envVars, mainVars, daemonVars,
        dirVars, fileVars
  <1>16. CASE WaitFails(h)
    BY <1>16 DEF TypeOK, WaitFails, Goto, MainPC, envVars, mainVars, daemonVars,
        dirVars, fileVars
  <1>17. CASE VerifyTestFile(h)
    BY <1>17 DEF TypeOK, VerifyTestFile, Goto, MainPC, envVars, mainVars, daemonVars,
        dirVars, fileVars, GiveUp
  <1>18. CASE RemoveTestFile(h)
    BY <1>18 DEF TypeOK, RemoveTestFile, Goto, MainPC, envVars, mainVars, daemonVars,
        dirVars, fileVars, RemoveTestCase, GiveUp
  <1>19. CASE SearchProcessed(h)
    <2>1. victim' \in [Harness -> Stamped \cup {NoFile}]
      BY <1>19 DEF TypeOK, SearchProcessed, Matching, GiveUp
    <2>2. pc' \in [Harness -> MainPC]
      BY <1>19 DEF TypeOK, SearchProcessed, Goto, MainPC, GiveUp
    <2> QED
      BY <1>19, <2>1, <2>2 DEF TypeOK, SearchProcessed, envVars, daemonVars,
          dirVars, fileVars, GiveUp
  <1>20. CASE DeleteMatch(h)
    BY <1>20 DEF TypeOK, DeleteMatch, Goto, MainPC, envVars, mainVars, daemonVars,
        dirVars, fileVars, GiveUp
  <1>21. CASE Cleanup(h)
    BY <1>21 DEF TypeOK, Cleanup, Goto, MainPC, envVars, mainVars, daemonVars,
        dirVars, fileVars
  <1> QED
    BY <1>1, <1>2, <1>3, <1>4, <1>5, <1>6, <1>7, <1>8, <1>9, <1>10, <1>11, <1>12,
        <1>13, <1>14, <1>15, <1>16, <1>17, <1>18, <1>19, <1>20, <1>21 DEF Main

LEMMA DaemonType ==
  ASSUME TypeOK, NEW h \in Harness,
         Daemon(h) \/ Environment(h)
  PROVE  TypeOK'
  <1>1. CASE GetINotifyData(h)
    BY <1>1 DEF TypeOK, GetINotifyData, DaemonStep, Working, Over, envVars, mainVars,
        daemonVars, dirVars, fileVars
  <1>2. CASE SearchAFile(h)
    BY <1>2 DEF TypeOK, SearchAFile, DaemonStep, Working, Over, envVars, mainVars,
        daemonVars, dirVars, fileVars
  <1>3. CASE StampVerify(h)
    BY <1>3 DEF TypeOK, StampVerify, DaemonStep, Working, Over, envVars, mainVars,
        daemonVars, dirVars, fileVars, Found
  <1>4. CASE GetDatetimeStamp(h)
    BY <1>4 DEF TypeOK, GetDatetimeStamp, DaemonStep, Working, Over, envVars, mainVars,
        daemonVars, dirVars, fileVars
  <1>5. CASE MoveFile(h)
    <2>1. Found(h) => Told[input[h]] \in Entry /\ dstamp[h] \in Second
      BY ToldAssumption DEF TypeOK, Found
    <2>2. watch' \in [Entry -> SUBSET Harness] /\ processed' \in [Stamped -> SUBSET Harness]
      BY <1>5, <2>1 DEF TypeOK, MoveFile, fileVars, Stamped
    <2>3. dpc' \in [Harness -> {"none"} \cup Working \cup Over]
      BY <1>5 DEF TypeOK, MoveFile, DaemonStep, Working, Over
    <2> QED
      BY <1>5, <2>2, <2>3 DEF TypeOK, MoveFile, envVars, mainVars, dirVars
  <1>6. CASE LeaveDaemon(h)
    BY <1>6 DEF TypeOK, LeaveDaemon, DaemonStep, Working, Over, envVars, mainVars,
        daemonVars, dirVars, fileVars
  <1>7. CASE EndDaemon(h)
    BY <1>7 DEF TypeOK, EndDaemon, Working, Over, envVars, mainVars,
        daemonVars, dirVars, fileVars
  <1>8. CASE StopDaemon(h)
    BY <1>8 DEF TypeOK, StopDaemon, Working, Over, envVars, mainVars,
        daemonVars, dirVars, fileVars
  <1>9. CASE ContinueDaemon(h)
    BY <1>9 DEF TypeOK, ContinueDaemon, Working, Over, envVars, mainVars,
        daemonVars, dirVars, fileVars
  <1>10. CASE GetINotifyDataFails(h)
    BY <1>10 DEF TypeOK, GetINotifyDataFails, DaemonStep, Working, Over, envVars,
        mainVars,
        daemonVars, dirVars, fileVars
  <1> QED
    BY <1>1, <1>2, <1>3, <1>4, <1>5, <1>6, <1>7, <1>8, <1>9, <1>10 DEF Daemon, Environment

LEMMA NextType == TypeOK /\ [Next]_vars => TypeOK'
  <1> SUFFICES ASSUME TypeOK, [Next]_vars PROVE TypeOK'
    OBVIOUS
  <1>1. CASE Tick
    BY <1>1, ClockAssumption DEF TypeOK, Tick, Second, mainVars, daemonVars, dirVars,
        fileVars
  <1>2. CASE UNCHANGED vars
    BY <1>2 DEF TypeOK, vars, envVars, mainVars, daemonVars, dirVars, fileVars
  <1>3. CASE \E h \in Harness : Main(h)
    BY <1>3, MainType
  <1>4. CASE \E h \in Harness : Daemon(h) \/ Environment(h)
    BY <1>4, DaemonType
  <1> QED
    BY <1>1, <1>2, <1>3, <1>4 DEF Next, AllDone

\* Every variable of the harnesses, their daemons and the two directories
\* keeps its type.
THEOREM TypeCorrect == Spec => []TypeOK
  <1> QED
    BY InitType, NextType, PTL DEF Spec

-----------------------------------------------------------------------------
(* The inductive invariant.                                                *)

LEMMA InitIInv == Init => IInv
  <1> SUFFICES ASSUME Init PROVE IInv
    OBVIOUS
  <1>1. TypeOK
    BY InitType
  <1>2. ASSUME NEW h \in Harness
        PROVE  /\ Placed(h) /\ Unique(h) /\ Opened(h)
               /\ Forked(h) /\ Deleting(h) /\ Reported(h)
    BY DEF Init, Placed, Unique, Opened, Forked, Deleting, Reported, Stamped,
        BeforeOpen, BeforeFork, Waiting, AfterWait
  <1> QED
    BY <1>1, <1>2 DEF IInv

\* The steps that neither create, move nor delete a file.
Quiet == UNCHANGED <<input, file_exists, watch, processed>>

\* Only four steps of main() and one of the daemon touch the files.
LEMMA MainFiles ==
  ASSUME NEW h \in Harness, Main(h)
  PROVE  Quiet \/ CreateTestFile(h) \/ RemoveEdgeCase(h) \/ RemoveTestFile(h)
           \/ DeleteMatch(h)
  BY DEF Main, Quiet, envVars, mainVars, fileVars, ReadTestInput, CheckWatchDir,
      MakeWatchDir, CheckProcessDir, MakeProcessDir, MakePipes, WriteTestFile,
      VerifyEdgeCase, TellDaemon, ForkDaemon, RefuseUser, ForkFails, WaitDaemon,
      WaitFails, VerifyTestFile, SearchProcessed, Cleanup

\* A step of h's daemon, or of the environment on it.
DaemonMoves(h) == Daemon(h) \/ Environment(h)

LEMMA DaemonFiles ==
  ASSUME NEW h \in Harness, DaemonMoves(h)
  PROVE  Quiet \/ MoveFile(h)
  BY DEF DaemonMoves, Daemon, Quiet, envVars, mainVars, fileVars, GetINotifyData,
      SearchAFile, StampVerify, GetDatetimeStamp, LeaveDaemon, Environment,
      EndDaemon, StopDaemon, ContinueDaemon, GetINotifyDataFails

LEMMA FileSteps ==
  ASSUME Next
  PROVE  \/ Quiet
         \/ \E h \in Harness :
               \/ CreateTestFile(h) \/ RemoveEdgeCase(h) \/ RemoveTestFile(h)
               \/ DeleteMatch(h) \/ MoveFile(h)
  <1>1. Tick \/ AllDone => Quiet
    BY DEF Tick, AllDone, Quiet, vars, envVars, mainVars, fileVars
  <1> QED
    BY <1>1, MainFiles, DaemonFiles DEF Next, DaemonMoves

\* The file with a name is at most the one it was, and then it is where it was.
LEMMA PlacedStep ==
  ASSUME IInv, TypeOK', Next, NEW k \in Harness
  PROVE  Placed(k)' /\ Unique(k)'
  <1> USE DEF IInv
  <1>1. CASE Quiet
    BY <1>1 DEF Quiet, Placed, Unique
  <1>2. ASSUME NEW h \in Harness, CreateTestFile(h)
        PROVE  Placed(k)' /\ Unique(k)'
    <2>1. CASE Leaf[input[h]] # NoEntry
        /\ watch' = [watch EXCEPT ![Leaf[input[h]]] = @ \cup {h}]
               /\ file_exists' = [file_exists EXCEPT ![h] = TRUE] /\ pc[h] = "open"
      <3>1. input' = input /\ processed' = processed /\ ~file_exists[h]
        BY <1>2, <2>1 DEF CreateTestFile, envVars, Opened, BeforeOpen
      <3>2. \A f \in Stamped : h \notin processed[f]
        BY <3>1 DEF Placed
      <3>3. \A e \in Entry : k \in watch'[e] => k \in watch[e] \/ (k = h
          /\ e = Leaf[input[h]])
        BY <2>1 DEF TypeOK
      <3>4. file_exists[k] => file_exists'[k]
        BY <2>1 DEF TypeOK
      <3>5. file_exists'[h]
        BY <2>1 DEF TypeOK
      <3> QED
        BY <3>1, <3>2, <3>3, <3>4, <3>5 DEF Placed, Unique
    <2>2. CASE UNCHANGED <<watch, file_exists>>
      BY <1>2, <2>2 DEF CreateTestFile, envVars, Placed, Unique
    <2> QED
      BY <1>2, <2>1, <2>2 DEF CreateTestFile, Goto
  <1>3. ASSUME NEW h \in Harness, RemoveEdgeCase(h) \/ RemoveTestFile(h)
        PROVE  Placed(k)' /\ Unique(k)'
    <2>1. UNCHANGED <<input, file_exists, processed>>
      BY <1>3 DEF RemoveEdgeCase, RemoveTestFile, envVars, mainVars, RemoveTestCase
    <2>2. \A e \in Entry : k \in watch'[e] => k \in watch[e]
      BY <1>3 DEF RemoveEdgeCase, RemoveTestFile, TypeOK, RemoveTestCase
    <2> QED
      BY <2>1, <2>2 DEF Placed, Unique
  <1>4. ASSUME NEW h \in Harness, DeleteMatch(h)
        PROVE  Placed(k)' /\ Unique(k)'
    <2>1. UNCHANGED <<input, file_exists, watch>>
      BY <1>4 DEF DeleteMatch, envVars, mainVars
    <2>2. \A f \in Stamped : k \in processed'[f] => k \in processed[f]
      BY <1>4 DEF DeleteMatch, TypeOK
    <2> QED
      BY <2>1, <2>2 DEF Placed, Unique
  <1>5. ASSUME NEW h \in Harness, MoveFile(h)
        PROVE  Placed(k)' /\ Unique(k)'
    <2> DEFINE e == Told[input[h]]
               f == [stamp |-> dstamp[h], entry |-> e]
    <2>1. UNCHANGED <<input, file_exists>>
      BY <1>5 DEF MoveFile, envVars, mainVars
    <2>2. CASE ~UNCHANGED fileVars
      <3>1. e \in Entry /\ f \in Stamped
        BY <1>5, <2>2, ToldAssumption DEF MoveFile, Found, TypeOK, Stamped
      <3>2. processed' = [processed EXCEPT ![f] = watch[e]]
          /\ watch' = [watch EXCEPT ![e] = {}]
        BY <1>5, <2>2 DEF MoveFile
      <3>3. \A d \in Entry : k \in watch'[d] => k \in watch[d] /\ d # e
        BY <3>1, <3>2 DEF TypeOK
      <3>4. \A g \in Stamped : k \in processed'[g] => (g = f /\ k \in watch[e])
          \/ (g # f /\ k \in processed[g])
        BY <3>1, <3>2 DEF TypeOK
      <3>5. f.entry = e
        OBVIOUS
      <3> HIDE DEF e, f
      <3>6. Placed(k)'
        BY <2>1, <3>1, <3>3, <3>4, <3>5 DEF Placed
      <3>7. \A d \in Entry : k \in watch[d] /\ k \in watch[e] => d = e
        BY <3>1 DEF Placed
      <3>8. Unique(k)'
        BY <2>1, <3>1, <3>3, <3>4, <3>7 DEF Unique
      <3> QED
        BY <3>6, <3>8
    <2>3. CASE UNCHANGED fileVars
      BY <2>1, <2>3 DEF fileVars, Placed, Unique
    <2> QED
      BY <2>2, <2>3
  <1> QED
    BY <1>1, <1>2, <1>3, <1>4, <1>5, FileSteps

\* Main(h) leaves the local variables of the others alone.
Untouched(k) ==
    /\ input'[k] = input[k] /\ pc'[k] = pc[k] /\ file_exists'[k] = file_exists[k]
    /\ daemon'[k] = daemon[k] /\ victim'[k] = victim[k] /\ gave_up'[k] = gave_up[k]
    /\ dpc'[k] = dpc[k] /\ event'[k] = event[k]

LEMMA MainLocal ==
  ASSUME TypeOK, NEW h \in Harness, Main(h), NEW k \in Harness, k # h
  PROVE  Untouched(k)
  <1> USE DEF Untouched, TypeOK, Goto, envVars, mainVars, daemonVars
  <1>1. CASE ReadTestInput(h) \/ CheckWatchDir(h) \/ MakeWatchDir(h)
      \/ CheckProcessDir(h) \/ MakeProcessDir(h) \/ MakePipes(h)
    BY <1>1 DEF Fail, ReadTestInput, CheckWatchDir, MakeWatchDir, CheckProcessDir,
        MakeProcessDir, MakePipes
  <1>2. CASE CreateTestFile(h) \/ WriteTestFile(h) \/ VerifyEdgeCase(h)
      \/ RemoveEdgeCase(h)
    BY <1>2 DEF Fail, CreateTestFile, WriteTestFile, VerifyEdgeCase, RemoveEdgeCase,
        RemoveTestCase, GiveUp
  <1>3. CASE TellDaemon(h) \/ ForkDaemon(h) \/ RefuseUser(h) \/ ForkFails(h)
    BY <1>3 DEF Fail, TellDaemon, ForkDaemon, RefuseUser, ForkFails, GiveUp
  <1>4. CASE WaitDaemon(h) \/ WaitFails(h) \/ VerifyTestFile(h) \/ RemoveTestFile(h)
    BY <1>4 DEF WaitDaemon, WaitFails, VerifyTestFile, RemoveTestFile, RemoveTestCase,
        GiveUp
  <1>5. CASE SearchProcessed(h) \/ DeleteMatch(h) \/ Cleanup(h)
    BY <1>5 DEF SearchProcessed, DeleteMatch, Cleanup, GiveUp
  <1> QED
    BY <1>1, <1>2, <1>3, <1>4, <1>5 DEF Main

\* The steps of h's daemon, and those of the environment on it, leave
\* everything of main() but the pipe alone.
LEMMA DaemonLocal ==
  ASSUME TypeOK, NEW h \in Harness,
         DaemonMoves(h)
  PROVE  /\ UNCHANGED <<input, pc, file_exists, daemon, victim, gave_up>>
         /\ \A k \in Harness \ {h} : dpc'[k] = dpc[k] /\ event'[k] = event[k]
  <1> USE DEF TypeOK, envVars, mainVars, DaemonStep
  <1>1. CASE Daemon(h)
    BY <1>1 DEF Daemon, GetINotifyData, SearchAFile, StampVerify, GetDatetimeStamp,
        MoveFile, LeaveDaemon
  <1>2. CASE Environment(h)
    BY <1>2 DEF Environment, EndDaemon, StopDaemon, ContinueDaemon, GetINotifyDataFails
  <1> QED
    BY <1>1, <1>2 DEF DaemonMoves

\* main()'s success is its own.
LEMMA MainSuccess ==
  ASSUME TypeOK, NEW h \in Harness, Main(h), NEW k \in Harness, k # h
  PROVE  success'[k] = success[k]
  <1> USE DEF TypeOK, Fail, mainVars
  <1>1. CASE \/ ReadTestInput(h) \/ CheckWatchDir(h) \/ MakeWatchDir(h)
             \/ CheckProcessDir(h) \/ MakeProcessDir(h) \/ MakePipes(h)
             \/ CreateTestFile(h) \/ WriteTestFile(h) \/ VerifyEdgeCase(h)
             \/ RemoveEdgeCase(h) \/ TellDaemon(h)
    BY <1>1 DEF ReadTestInput, CheckWatchDir, MakeWatchDir, CheckProcessDir,
        MakeProcessDir, MakePipes, CreateTestFile, WriteTestFile, VerifyEdgeCase,
        RemoveEdgeCase, TellDaemon, RemoveTestCase
  <1>2. CASE \/ ForkDaemon(h) \/ RefuseUser(h) \/ ForkFails(h) \/ WaitDaemon(h)
             \/ WaitFails(h) \/ VerifyTestFile(h) \/ RemoveTestFile(h)
             \/ SearchProcessed(h) \/ DeleteMatch(h) \/ Cleanup(h)
    BY <1>2 DEF ForkDaemon, RefuseUser, ForkFails, WaitDaemon, WaitFails,
        VerifyTestFile, RemoveTestFile, SearchProcessed, DeleteMatch, Cleanup,
        RemoveTestCase
  <1> QED
    BY <1>1, <1>2 DEF Main

LEMMA DaemonSuccess ==
  ASSUME NEW h \in Harness, DaemonMoves(h)
  PROVE  success' = success
  BY DEF DaemonMoves, Daemon, Environment, mainVars, GetINotifyData, SearchAFile,
      StampVerify, GetDatetimeStamp, MoveFile, LeaveDaemon, EndDaemon, StopDaemon,
      ContinueDaemon, GetINotifyDataFails

LEMMA OpenedStep ==
  ASSUME IInv, TypeOK', Next, NEW k \in Harness
  PROVE  Opened(k)'
  <1> USE DEF IInv, Opened
  <1>1. ASSUME NEW h \in Harness, Main(h), h # k
        PROVE  Opened(k)'
    BY <1>1, MainLocal DEF Untouched
  <1>2. ASSUME Main(k)
        PROVE  Opened(k)'
    <2> USE DEF TypeOK, Goto, BeforeOpen, BeforeFork, Waiting, envVars, mainVars
    <2>1. CASE ReadTestInput(k)
      BY <2>1 DEF ReadTestInput, Fail
    <2>2. CASE CheckWatchDir(k)
      BY <2>2 DEF CheckWatchDir
    <2>3. CASE MakeWatchDir(k)
      BY <2>3 DEF MakeWatchDir, Fail
    <2>4. CASE CheckProcessDir(k)
      BY <2>4 DEF CheckProcessDir
    <2>5. CASE MakeProcessDir(k)
      BY <2>5 DEF MakeProcessDir, Fail
    <2>6. CASE MakePipes(k)
      BY <2>6 DEF MakePipes, Fail
    <2>7. CASE CreateTestFile(k)
      <3>1. Leaf[input[k]] \in Entry \cup {NoEntry}
        BY LeafAssumption
      <3>2. ~file_exists[k] /\ input' = input
        BY <2>7 DEF CreateTestFile, Fail
      <3> QED
        BY <2>7, <3>1, <3>2 DEF CreateTestFile, Fail
    <2>8. CASE WriteTestFile(k)
      BY <2>8 DEF WriteTestFile, Fail
    <2>9. CASE VerifyEdgeCase(k)
      BY <2>9 DEF VerifyEdgeCase
    <2>10. CASE RemoveEdgeCase(k)
      BY <2>10 DEF RemoveEdgeCase, RemoveTestCase
    <2>11. CASE TellDaemon(k)
      BY <2>11 DEF TellDaemon, Fail
    <2>12. CASE ForkDaemon(k)
      BY <2>12 DEF ForkDaemon
    <2>13. CASE RefuseUser(k)
      BY <2>13 DEF RefuseUser, Fail
    <2>14. CASE ForkFails(k)
      BY <2>14 DEF ForkFails, Fail
    <2>15. CASE WaitDaemon(k)
      BY <2>15 DEF WaitDaemon
    <2>16. CASE WaitFails(k)
      BY <2>16 DEF WaitFails
    <2>17. CASE VerifyTestFile(k)
      BY <2>17 DEF VerifyTestFile
    <2>18. CASE RemoveTestFile(k)
      BY <2>18 DEF RemoveTestFile, RemoveTestCase
    <2>19. CASE SearchProcessed(k)
      BY <2>19 DEF SearchProcessed
    <2>20. CASE DeleteMatch(k)
      BY <2>20 DEF DeleteMatch
    <2>21. CASE Cleanup(k)
      BY <2>21 DEF Cleanup
    <2> QED
      BY <1>2, <2>1, <2>2, <2>3, <2>4, <2>5, <2>6, <2>7, <2>8, <2>9, <2>10, <2>11,
          <2>12, <2>13, <2>14, <2>15, <2>16, <2>17, <2>18, <2>19, <2>20, <2>21 DEF Main
  <1>3. ASSUME NEW h \in Harness,
               Daemon(h) \/ Environment(h)
        PROVE  Opened(k)'
    BY <1>3, DaemonLocal DEF DaemonMoves
  <1>4. CASE Tick \/ AllDone
    BY <1>4 DEF Tick, AllDone, vars, envVars, mainVars
  <1> QED
    BY <1>1, <1>2, <1>3, <1>4 DEF Next

LEMMA ForkedStep ==
  ASSUME IInv, TypeOK', Next, NEW k \in Harness
  PROVE  Forked(k)'
  <1> USE DEF IInv, Forked
  <1>1. ASSUME NEW h \in Harness, Main(h), h # k
        PROVE  Forked(k)'
    BY <1>1, MainLocal DEF Untouched
  <1>2. ASSUME Main(k)
        PROVE  Forked(k)'
    <2> USE DEF TypeOK, Goto, BeforeOpen, BeforeFork, Waiting, AfterWait, Over,
        mainVars, daemonVars
    <2>1. CASE ReadTestInput(k)
      BY <2>1 DEF ReadTestInput, Fail
    <2>2. CASE CheckWatchDir(k)
      BY <2>2 DEF CheckWatchDir
    <2>3. CASE MakeWatchDir(k)
      BY <2>3 DEF MakeWatchDir, Fail
    <2>4. CASE CheckProcessDir(k)
      BY <2>4 DEF CheckProcessDir
    <2>5. CASE MakeProcessDir(k)
      BY <2>5 DEF MakeProcessDir, Fail
    <2>6. CASE MakePipes(k)
      BY <2>6 DEF MakePipes, Fail
    <2>7. CASE CreateTestFile(k)
      BY <2>7 DEF CreateTestFile, Fail
    <2>8. CASE WriteTestFile(k)
      BY <2>8 DEF WriteTestFile, Fail
    <2>9. CASE VerifyEdgeCase(k)
      BY <2>9 DEF VerifyEdgeCase
    <2>10. CASE RemoveEdgeCase(k)
      BY <2>10 DEF RemoveEdgeCase, RemoveTestCase
    <2>11. CASE TellDaemon(k)
      BY <2>11 DEF TellDaemon, Fail
    <2>12. CASE ForkDaemon(k)
      BY <2>12 DEF ForkDaemon
    <2>13. CASE RefuseUser(k)
      BY <2>13 DEF RefuseUser, Fail
    <2>14. CASE ForkFails(k)
      BY <2>14 DEF ForkFails, Fail
    <2>15. CASE WaitDaemon(k)
      BY <2>15 DEF WaitDaemon
    <2>16. CASE WaitFails(k)
      BY <2>16 DEF WaitFails
    <2>17. CASE VerifyTestFile(k)
      BY <2>17 DEF VerifyTestFile
    <2>18. CASE RemoveTestFile(k)
      BY <2>18 DEF RemoveTestFile, RemoveTestCase
    <2>19. CASE SearchProcessed(k)
      BY <2>19 DEF SearchProcessed
    <2>20. CASE DeleteMatch(k)
      BY <2>20 DEF DeleteMatch
    <2>21. CASE Cleanup(k)
      BY <2>21 DEF Cleanup
    <2> QED
      BY <1>2, <2>1, <2>2, <2>3, <2>4, <2>5, <2>6, <2>7, <2>8, <2>9, <2>10, <2>11,
          <2>12, <2>13, <2>14, <2>15, <2>16, <2>17, <2>18, <2>19, <2>20, <2>21 DEF Main
  <1>3. ASSUME NEW h \in Harness, h # k,
               Daemon(h) \/ Environment(h)
        PROVE  Forked(k)'
    BY <1>3, DaemonLocal DEF DaemonMoves
  <1>4. ASSUME Daemon(k) \/ Environment(k)
        PROVE  Forked(k)'
    <2> USE DEF TypeOK, Working, Over, DaemonStep
    <2>1. UNCHANGED <<pc, daemon>>
      BY <1>4, DaemonLocal DEF DaemonMoves
    <2>2. CASE GetINotifyData(k)
      BY <2>1, <2>2 DEF GetINotifyData
    <2>3. CASE SearchAFile(k)
      BY <2>1, <2>3 DEF SearchAFile
    <2>4. CASE StampVerify(k)
      BY <2>1, <2>4 DEF StampVerify
    <2>5. CASE GetDatetimeStamp(k)
      BY <2>1, <2>5 DEF GetDatetimeStamp
    <2>6. CASE MoveFile(k)
      BY <2>1, <2>6 DEF MoveFile
    <2>7. CASE LeaveDaemon(k)
      BY <2>1, <2>7 DEF LeaveDaemon
    <2>8. CASE EndDaemon(k)
      BY <2>1, <2>8 DEF EndDaemon
    <2>9. CASE StopDaemon(k)
      BY <2>1, <2>9 DEF StopDaemon
    <2>10. CASE ContinueDaemon(k)
      BY <2>1, <2>10 DEF ContinueDaemon
    <2>11. CASE GetINotifyDataFails(k)
      BY <2>1, <2>11 DEF GetINotifyDataFails
    <2> QED
      BY <1>4, <2>2, <2>3, <2>4, <2>5, <2>6, <2>7, <2>8, <2>9, <2>10, <2>11
      DEF Daemon, Environment
  <1>5. CASE Tick \/ AllDone
    BY <1>5 DEF Tick, AllDone, vars, mainVars, daemonVars
  <1> QED
    BY <1>1, <1>2, <1>3, <1>4, <1>5 DEF Next

\* The input of an execution never changes.
LEMMA InputConstant == Next => input' = input
  BY FileSteps DEF Quiet, CreateTestFile, RemoveEdgeCase, RemoveTestFile, DeleteMatch,
      MoveFile, envVars, RemoveTestCase

\* No step of another harness or of its daemon creates, moves, replaces or
\* deletes the file of a harness whose name is distinct.
LEMMA OthersSpare ==
  ASSUME IInv, NEW k \in Harness, NEW h \in Harness, h # k, Distinct(k),
         Main(h) \/ DaemonMoves(h)
  PROVE  /\ InWatch(k)' <=> InWatch(k)
         /\ \A f \in Stamped : k \in processed'[f] <=> k \in processed[f]
  <1>1. /\ Leaf[input[h]] # Leaf[input[k]]
        /\ <<input[h], Leaf[input[k]]>> \notin Ends
    BY DEF Distinct, Apart
  <1>2. /\ \A e \in Entry : k \in watch[e] => e = Leaf[input[k]]
        /\ \A f \in Stamped : k \in processed[f] => f.entry = Leaf[input[k]]
    BY DEF IInv, Placed
  <1> USE DEF InWatch
  <1>3. CASE Quiet
    BY <1>3 DEF Quiet
  <1>4. CASE CreateTestFile(h)
    <2>1. processed' = processed
      BY <1>4 DEF CreateTestFile
    <2>2. \A e \in Entry : k \in watch'[e] <=> k \in watch[e]
      BY <1>4 DEF CreateTestFile, IInv, TypeOK
    <2> QED
      BY <2>1, <2>2
  <1>5. CASE RemoveEdgeCase(h) \/ RemoveTestFile(h)
    <2>1. processed' = processed
      BY <1>5 DEF RemoveEdgeCase, RemoveTestFile, RemoveTestCase
    <2>2. \A e \in Entry : k \in watch'[e] <=> k \in watch[e]
      BY <1>1, <1>2, <1>5 DEF RemoveEdgeCase, RemoveTestFile, IInv, TypeOK, RemoveTestCase
    <2> QED
      BY <2>1, <2>2
  <1>6. CASE DeleteMatch(h)
    <2>1. watch' = watch
      BY <1>6 DEF DeleteMatch
    <2>2. victim[h] \in Stamped /\ <<input[h], victim[h].entry>> \in Ends
      BY <1>6 DEF DeleteMatch, Goto, IInv, Deleting
    <2>3. \A f \in Stamped : k \in processed'[f] <=> k \in processed[f]
      BY <1>1, <1>2, <1>6, <2>2 DEF DeleteMatch, IInv, TypeOK
    <2> QED
      BY <2>1, <2>3
  <1>7. CASE MoveFile(h)
    <2> DEFINE e == Told[input[h]]
               f == [stamp |-> dstamp[h], entry |-> e]
    <2>1. CASE ~UNCHANGED fileVars
      <3>1. e \in Entry /\ f \in Stamped /\ f.entry = e /\ e # Leaf[input[k]]
        BY <1>1, <1>7, <2>1, ToldAssumption DEF MoveFile, Found, IInv, TypeOK, Stamped
      <3>2. processed' = [processed EXCEPT ![f] = watch[e]]
          /\ watch' = [watch EXCEPT ![e] = {}]
        BY <1>7, <2>1 DEF MoveFile
      <3> HIDE DEF e, f
      <3>3. k \notin watch[e] /\ k \notin processed[f]
        BY <1>2, <3>1
      <3> QED
        BY <3>1, <3>2, <3>3 DEF IInv, TypeOK
    <2>2. CASE UNCHANGED fileVars
      BY <2>2 DEF fileVars
    <2> QED
      BY <2>1, <2>2
  <1> QED
    BY <1>3, <1>4, <1>5, <1>6, <1>7, MainFiles, DaemonFiles

\* A daemon's move keeps the file of a harness with a distinct name.
LEMMA MoveKeeps ==
  ASSUME IInv, NEW k \in Harness, Distinct(k), Present(k), MoveFile(k)
  PROVE  Present(k)'
  <1> DEFINE e == Told[input[k]]
             f == [stamp |-> dstamp[k], entry |-> e]
  <1>1. CASE ~UNCHANGED fileVars
    <2>1. e \in Entry /\ f \in Stamped /\ watch[e] # {}
      BY <1>1, ToldAssumption DEF MoveFile, Found, IInv, TypeOK, Stamped
    <2>2. processed' = [processed EXCEPT ![f] = watch[e]]
      BY <1>1 DEF MoveFile
    <2>3. k \in watch[e]
      <3>1. PICK g \in Harness : g \in watch[e]
        BY <2>1 DEF IInv, TypeOK
      <3>2. e = Leaf[input[k]]
        BY <2>1, <1>1, ToldAssumption DEF MoveFile, Found, IInv, TypeOK
      <3>3. e = Leaf[input[g]]
        BY <2>1, <3>1 DEF IInv, Placed
      <3> QED
        BY <3>1, <3>2, <3>3 DEF Distinct, Apart
    <2> HIDE DEF e, f
    <2> QED
      BY <2>1, <2>2, <2>3 DEF IInv, TypeOK, Present, InProcessed
  <1>2. CASE UNCHANGED fileVars
    BY <1>2 DEF fileVars, Present, InWatch, InProcessed
  <1> QED
    BY <1>1, <1>2

\* What has the name of a distinct test case is that test case, in the watch
\* directory and among the files that match it in the processed one.
LEMMA AloneWithName ==
  ASSUME IInv, NEW k \in Harness, Distinct(k), file_exists[k]
  PROVE  /\ Exists(k) <=> InWatch(k)
         /\ \A f \in Matching(k) : k \in processed[f]
         /\ InProcessed(k) => Matching(k) # {}
         /\ InWatch(k) => ~InProcessed(k)
  <1> USE DEF IInv, TypeOK
  <1>1. Leaf[input[k]] \in Entry /\ Placed(k)
    BY DEF Opened
  <1>2. ASSUME Exists(k)
        PROVE  InWatch(k)
    <2>1. PICK g \in Harness : g \in watch[Leaf[input[k]]]
      BY <1>1, <1>2 DEF Exists
    <2>2. Leaf[input[k]] = Leaf[input[g]]
      BY <1>1, <2>1 DEF Placed
    <2>3. g = k
      BY <2>2 DEF Distinct, Apart
    <2> QED
      BY <1>1, <2>1, <2>3 DEF InWatch
  <1>3. InWatch(k) => Exists(k)
    BY <1>1 DEF InWatch, Exists, Placed
  <1>4. ASSUME NEW f \in Matching(k)
        PROVE  k \in processed[f]
    <2>1. f \in Stamped /\ processed[f] # {} /\ <<input[k], f.entry>> \in Ends
      BY DEF Matching
    <2>2. PICK g \in Harness : g \in processed[f]
      BY <2>1
    <2>3. f.entry = Leaf[input[g]]
      BY <2>1, <2>2 DEF Placed
    <2> QED
      BY <2>1, <2>2, <2>3 DEF Distinct, Apart
  <1>5. ASSUME InProcessed(k)
        PROVE  Matching(k) # {}
    <2>1. PICK f \in Stamped : k \in processed[f]
      BY <1>5 DEF InProcessed
    <2>2. <<input[k], f.entry>> \in Ends
      BY <1>1, <2>1 DEF Placed, Distinct
    <2> QED
      BY <2>1, <2>2 DEF Matching
  <1>6. InWatch(k) => ~InProcessed(k)
    BY DEF Unique, InWatch, InProcessed
  <1> QED
    BY <1>2, <1>3, <1>4, <1>5, <1>6

\* What Deleting says of a distinct test case that was opened.
Followed(k) ==
    /\ pc[k] \in BeforeFork \cup {"remove"} => InWatch(k)
    /\ pc[k] \in {"wait", "verify"} => Present(k)
    /\ pc[k] = "search" => /\ InWatch(k) <=> gave_up[k] = "watched"
                           /\ InProcessed(k) <=> gave_up[k] = "no"
                           /\ gave_up[k] # "processed"
    /\ pc[k] = "delete" => k \in processed[victim[k]] /\ gave_up[k] = "no"
    /\ pc[k] \in {"cleanup", "done"} =>
          /\ InWatch(k) <=> gave_up[k] = "watched"
          /\ InProcessed(k) <=> gave_up[k] = "processed"

LEMMA QuietPlace ==
  ASSUME Quiet, NEW k \in Harness
  PROVE  InWatch(k)' = InWatch(k) /\ InProcessed(k)' = InProcessed(k)
  BY DEF Quiet, InWatch, InProcessed

\* main() follows its own test case from open() to the end.
LEMMA FollowedStep ==
  ASSUME IInv, NEW k \in Harness, Distinct(k), file_exists'[k], Main(k)
  PROVE  Followed(k)'
  <1> USE DEF IInv, Goto, GiveUp
  <1>1. TypeOK /\ Deleting(k) /\ Unique(k)
    OBVIOUS
  <1>2. file_exists[k] => Followed(k)
    BY DEF Deleting, Followed
  <1>3. pc[k] \notin {"search", "delete", "cleanup", "done"} => gave_up[k] = "no"
    BY DEF Deleting
  <1>4. InWatch(k) => ~InProcessed(k)
    BY DEF Unique, InWatch, InProcessed
  <1>5. CASE \/ ReadTestInput(k) \/ CheckWatchDir(k) \/ MakeWatchDir(k)
             \/ CheckProcessDir(k) \/ MakeProcessDir(k) \/ MakePipes(k)
    <2>1. pc[k] \in BeforeOpen /\ file_exists' = file_exists
      BY <1>5 DEF ReadTestInput, CheckWatchDir, MakeWatchDir, CheckProcessDir,
          MakeProcessDir, MakePipes, Fail, BeforeOpen, mainVars
    <2> QED
      BY <2>1 DEF Opened
  <1>6. CASE CreateTestFile(k)
    <2>1. ~file_exists[k]
      BY <1>6 DEF CreateTestFile, Fail, Opened, BeforeOpen
    <2>2. /\ pc'[k] = "write" /\ Leaf[input[k]] \in Entry
          /\ watch' = [watch EXCEPT ![Leaf[input[k]]] = @ \cup {k}]
      BY <1>1, <1>6, <2>1, LeafAssumption DEF CreateTestFile, TypeOK
    <2>3. InWatch(k)'
      BY <1>1, <2>2 DEF InWatch, TypeOK
    <2> QED
      BY <2>2, <2>3 DEF Followed
  <1>7. CASE WriteTestFile(k)
    <2>1. /\ pc[k] \in BeforeFork /\ pc'[k] \in {"tell", "edge_verify"} /\ Quiet
          /\ file_exists' = file_exists
      BY <1>1, <1>7 DEF WriteTestFile, Fail, BeforeFork, TypeOK, Quiet, envVars, fileVars
    <2> QED
      BY <1>2, <2>1, QuietPlace DEF Followed
  <1>8. CASE VerifyEdgeCase(k)
    <2>1. pc[k] \in BeforeFork /\ Quiet /\ file_exists' = file_exists
      BY <1>8 DEF VerifyEdgeCase, BeforeFork, Quiet, envVars, fileVars
    <2>2. InWatch(k) /\ gave_up[k] = "no"
      BY <1>2, <1>3, <1>8, <2>1 DEF Followed, VerifyEdgeCase
    <2>3. Exists(k)
      BY <2>1, <2>2, AloneWithName
    <2>4. pc'[k] = "edge_remove" \/ (pc'[k] = "cleanup" /\ gave_up'[k] = "watched")
      BY <1>1, <1>8, <2>3 DEF VerifyEdgeCase, TypeOK
    <2> QED
      BY <1>4, <2>1, <2>2, <2>4, QuietPlace DEF Followed, BeforeFork, BeforeOpen
  <1>9. CASE RemoveEdgeCase(k) \/ RemoveTestFile(k)
    <2>1. /\ pc[k] \in BeforeFork \cup {"remove"} /\ pc'[k] = "cleanup"
          /\ UNCHANGED <<file_exists, processed>> /\ gave_up[k] = "no"
      BY <1>1, <1>3, <1>9 DEF RemoveEdgeCase, RemoveTestFile, RemoveTestCase, BeforeFork,
          TypeOK
    <2>2. InWatch(k) /\ ~InProcessed(k)
      BY <1>2, <1>4, <2>1 DEF Followed
    <2>3. ~InProcessed(k)'
      BY <2>1, <2>2 DEF InProcessed
    <2>4. CASE watch' = [watch EXCEPT ![Leaf[input[k]]] = {}] /\ UNCHANGED gave_up
      <3>1. ~InWatch(k)'
        BY <1>1, <2>4 DEF InWatch, Placed, TypeOK
      <3> QED
        BY <2>1, <2>3, <2>4, <3>1 DEF Followed, BeforeFork, BeforeOpen
    <2>5. CASE gave_up' = [gave_up EXCEPT ![k] = "watched"] /\ UNCHANGED watch
      <3>1. InWatch(k)' /\ gave_up'[k] = "watched"
        BY <1>1, <2>2, <2>5 DEF InWatch, TypeOK
      <3> QED
        BY <2>1, <2>3, <3>1 DEF Followed, BeforeFork, BeforeOpen
    <2> QED
      BY <1>9, <2>4, <2>5 DEF RemoveEdgeCase, RemoveTestFile, RemoveTestCase
  <1>10. CASE TellDaemon(k) \/ RefuseUser(k) \/ ForkFails(k)
    <2>1. /\ pc[k] \in BeforeFork /\ Quiet /\ file_exists' = file_exists
          /\ \/ pc'[k] = "sure"
             \/ pc'[k] \in {"cleanup", "done"} /\ gave_up'[k] = "watched"
      BY <1>1, <1>10 DEF TellDaemon, RefuseUser, ForkFails, Fail, BeforeFork, TypeOK,
          Quiet,
          envVars, fileVars
    <2>2. InWatch(k) /\ ~InProcessed(k)
      BY <1>2, <1>4, <2>1 DEF Followed
    <2> QED
      BY <2>1, <2>2, QuietPlace DEF Followed, BeforeFork, BeforeOpen
  <1>11. CASE ForkDaemon(k) \/ WaitDaemon(k) \/ WaitFails(k)
    <2>1. /\ pc[k] \in {"sure", "wait"} /\ pc'[k] \in {"wait", "verify"}
          /\ Quiet /\ file_exists' = file_exists
      BY <1>1, <1>11 DEF ForkDaemon, WaitDaemon, WaitFails, TypeOK, Quiet, envVars,
          fileVars
    <2>2. Present(k)
      BY <1>2, <2>1 DEF Followed, BeforeFork, Present
    <2> QED
      BY <2>1, <2>2, QuietPlace DEF Followed, BeforeFork, BeforeOpen, Present
  <1>12. CASE VerifyTestFile(k)
    <2>1. /\ pc[k] = "verify" /\ Quiet /\ file_exists' = file_exists
      BY <1>12 DEF VerifyTestFile, Quiet, envVars, fileVars
    <2>2. Present(k) /\ gave_up[k] = "no"
      BY <1>2, <1>3, <2>1 DEF Followed
    <2>3. Exists(k) <=> InWatch(k)
      BY <2>1, AloneWithName
    <2>4. \/ pc'[k] = "remove" /\ InWatch(k)
          \/ pc'[k] = "search" /\ ~InWatch(k) /\ gave_up'[k] = "no"
          \/ pc'[k] = "search" /\ InWatch(k) /\ gave_up'[k] = "watched"
      BY <1>1, <1>12, <2>2, <2>3 DEF VerifyTestFile, TypeOK
    <2>5. InProcessed(k) <=> ~InWatch(k)
      BY <1>4, <2>2 DEF Present
    <2> QED
      BY <2>1, <2>4, <2>5, QuietPlace DEF Followed, BeforeFork, BeforeOpen
  <1>13. CASE SearchProcessed(k)
    <2>1. /\ pc[k] = "search" /\ Quiet /\ file_exists' = file_exists
      BY <1>13 DEF SearchProcessed, Quiet, envVars, fileVars
    <2>2. /\ InWatch(k) <=> gave_up[k] = "watched"
          /\ InProcessed(k) <=> gave_up[k] = "no"
          /\ gave_up[k] # "processed"
      BY <1>2, <2>1 DEF Followed
    <2>3. Matching(k) # {} <=> InProcessed(k)
      BY <2>1, AloneWithName DEF InProcessed, Matching
    <2>4. \/ /\ pc'[k] = "delete" /\ gave_up' = gave_up /\ InProcessed(k)
             /\ \E f \in Matching(k) : victim'[k] = f
          \/ pc'[k] = "cleanup" /\ gave_up' = gave_up /\ ~InProcessed(k)
          \/ pc'[k] = "cleanup" /\ gave_up'[k] = "processed" /\ InProcessed(k)
      BY <1>1, <1>13, <2>3 DEF SearchProcessed, TypeOK
    <2>5. \A f \in Matching(k) : k \in processed'[f]
      BY <2>1, AloneWithName DEF Quiet
    <2>6. gave_up[k] \in {"no", "watched", "processed"}
      BY <1>1 DEF TypeOK
    <2>7. InWatch(k)' = InWatch(k) /\ InProcessed(k)' = InProcessed(k)
      BY <2>1, QuietPlace
    <2>8. CASE pc'[k] = "delete"
      <3>1. gave_up'[k] = "no" /\ k \in processed'[victim'[k]]
        BY <2>2, <2>4, <2>5, <2>8
      <3> QED
        BY <2>8, <3>1 DEF Followed, BeforeFork, BeforeOpen
    <2>9. CASE pc'[k] = "cleanup"
      BY <1>4, <2>2, <2>4, <2>6, <2>7, <2>9 DEF Followed, BeforeFork, BeforeOpen
    <2> QED
      BY <2>4, <2>8, <2>9
  <1>14. CASE DeleteMatch(k)
    <2>1. /\ pc[k] = "delete" /\ pc'[k] = "cleanup" /\ UNCHANGED <<watch, file_exists>>
      BY <1>1, <1>14 DEF DeleteMatch, TypeOK
    <2>2. /\ k \in processed[victim[k]] /\ gave_up[k] = "no" /\ victim[k] \in Stamped
      BY <1>1, <1>2, <2>1 DEF Followed, Deleting
    <2>3. ~InWatch(k)'
      BY <1>4, <2>1, <2>2 DEF InWatch, InProcessed
    <2>4. CASE processed' = [processed EXCEPT ![victim[k]] = {}] /\ UNCHANGED gave_up
      <3>1. ~InProcessed(k)'
        BY <1>1, <2>2, <2>4 DEF InProcessed, Unique, TypeOK
      <3> QED
        BY <2>1, <2>2, <2>3, <2>4, <3>1 DEF Followed, BeforeFork, BeforeOpen
    <2>5. CASE gave_up' = [gave_up EXCEPT ![k] = "processed"] /\ UNCHANGED processed
      <3>1. InProcessed(k)' /\ gave_up'[k] = "processed"
        BY <1>1, <2>2, <2>5 DEF InProcessed, TypeOK
      <3> QED
        BY <2>1, <2>3, <3>1 DEF Followed, BeforeFork, BeforeOpen
    <2> QED
      BY <1>14, <2>4, <2>5 DEF DeleteMatch
  <1>15. CASE Cleanup(k)
    <2>1. /\ pc[k] = "cleanup" /\ pc'[k] = "done" /\ Quiet
          /\ UNCHANGED <<file_exists, gave_up>>
      BY <1>1, <1>15 DEF Cleanup, TypeOK, Quiet, envVars, fileVars
    <2> QED
      BY <1>2, <2>1, QuietPlace DEF Followed, BeforeFork, BeforeOpen
  <1> QED
    BY <1>5, <1>6, <1>7, <1>8, <1>9, <1>10, <1>11, <1>12, <1>13, <1>14, <1>15 DEF Main

\* What Deleting says of any test case.
Blamed(k) ==
    /\ pc[k] = "delete" => /\ victim[k] \in Stamped
                           /\ <<input[k], victim[k].entry>> \in Ends
    /\ pc[k] \notin {"search", "delete", "cleanup", "done"} => gave_up[k] = "no"
    /\ daemon[k] = 1 /\ gave_up[k] # "no" => \E d \in DeletionFaults : Fault(d)

LEMMA BlamedStep ==
  ASSUME IInv, NEW k \in Harness, Main(k)
  PROVE  Blamed(k)'
  <1> USE DEF IInv, Goto, GiveUp, Blamed
  <1>1. TypeOK /\ Blamed(k)
    BY DEF Deleting
  <1>2. pc[k] \in BeforeFork => daemon[k] = 0
    BY DEF Forked
  <1>3. CASE \/ ReadTestInput(k) \/ CheckWatchDir(k) \/ MakeWatchDir(k)
             \/ CheckProcessDir(k) \/ MakeProcessDir(k) \/ MakePipes(k)
             \/ CreateTestFile(k) \/ WriteTestFile(k) \/ ForkDaemon(k)
             \/ WaitDaemon(k) \/ WaitFails(k)
    <2>1. gave_up' = gave_up
      BY <1>3 DEF ReadTestInput, CheckWatchDir, MakeWatchDir, CheckProcessDir,
          MakeProcessDir, MakePipes, CreateTestFile, WriteTestFile, ForkDaemon,
          WaitDaemon, WaitFails, mainVars
    <2>2. pc[k] \notin {"search", "delete", "cleanup", "done"} /\ pc'[k] # "delete"
      BY <1>1, <1>3 DEF ReadTestInput, CheckWatchDir, MakeWatchDir, CheckProcessDir,
          MakeProcessDir, MakePipes, CreateTestFile, WriteTestFile, ForkDaemon,
          WaitDaemon, WaitFails, Fail, TypeOK
    <2> QED
      BY <1>1, <2>1, <2>2
  <1>4. CASE \/ VerifyEdgeCase(k) \/ RemoveEdgeCase(k) \/ TellDaemon(k)
             \/ RefuseUser(k) \/ ForkFails(k)
    <2>1. pc[k] \in BeforeFork /\ daemon'[k] # 1 /\ pc'[k] # "delete"
      BY <1>1, <1>2, <1>4 DEF VerifyEdgeCase, RemoveEdgeCase, RemoveTestCase, TellDaemon,
          RefuseUser, ForkFails, Fail, BeforeFork, TypeOK
    <2>2. \/ pc'[k] \in {"cleanup", "done"}
          \/ gave_up' = gave_up /\ pc[k] \in {"edge_verify", "tell"}
      BY <1>1, <1>4 DEF VerifyEdgeCase, RemoveEdgeCase, RemoveTestCase, TellDaemon,
          RefuseUser, ForkFails, Fail, TypeOK
    <2> QED
      BY <1>1, <2>1, <2>2
  <1>5. CASE VerifyTestFile(k) \/ RemoveTestFile(k)
    BY <1>1, <1>5 DEF VerifyTestFile, RemoveTestFile, RemoveTestCase, TypeOK,
        DeletionFaults
  <1>6. CASE SearchProcessed(k)
    BY <1>1, <1>6 DEF SearchProcessed, Matching, TypeOK, DeletionFaults, envVars
  <1>7. CASE DeleteMatch(k) \/ Cleanup(k)
    BY <1>1, <1>7 DEF DeleteMatch, Cleanup, TypeOK, DeletionFaults
  <1> QED
    BY <1>3, <1>4, <1>5, <1>6, <1>7 DEF Main

LEMMA DeletingStep ==
  ASSUME IInv, TypeOK', Next, NEW k \in Harness
  PROVE  Deleting(k)'
  <1>1. input' = input /\ (Distinct(k)' <=> Distinct(k))
    BY InputConstant DEF Distinct, Apart
  <1>2. Deleting(k) <=> Blamed(k) /\ (Distinct(k) /\ file_exists[k] => Followed(k))
    BY DEF Deleting, Blamed, Followed
  <1>3. Deleting(k)' <=> Blamed(k)' /\ (Distinct(k)' /\ file_exists'[k] => Followed(k)')
    BY DEF Deleting, Blamed, Followed
  <1>4. Deleting(k)
    BY DEF IInv
  <1>5. ASSUME NEW h \in Harness, h # k, Main(h) \/ DaemonMoves(h)
        PROVE  Deleting(k)'
    <2>1. /\ pc'[k] = pc[k] /\ victim'[k] = victim[k] /\ daemon'[k] = daemon[k]
          /\ gave_up'[k] = gave_up[k] /\ file_exists'[k] = file_exists[k]
      BY <1>5, MainLocal, DaemonLocal DEF Untouched, IInv
    <2>2. Blamed(k)'
      BY <1>1, <1>2, <1>4, <2>1 DEF Blamed
    <2>3. ASSUME Distinct(k), file_exists[k]
          PROVE  Followed(k)'
      <3>1. /\ InWatch(k)' <=> InWatch(k)
            /\ \A f \in Stamped : k \in processed'[f] <=> k \in processed[f]
        BY <1>5, <2>3, OthersSpare
      <3>2. InProcessed(k)' <=> InProcessed(k)
        BY <3>1 DEF InProcessed
      <3>3. pc[k] = "delete" => victim[k] \in Stamped
        BY <1>4 DEF Deleting
      <3> QED
        BY <1>2, <1>4, <2>1, <2>3, <3>1, <3>2, <3>3 DEF Followed, Present
    <2> QED
      BY <1>1, <1>3, <2>1, <2>2, <2>3
  <1>6. CASE DaemonMoves(k)
    <2>1. UNCHANGED <<pc, daemon, victim, gave_up, file_exists>>
      BY <1>6, DaemonLocal DEF IInv
    <2>2. Blamed(k)'
      BY <1>1, <1>2, <1>4, <2>1 DEF Blamed
    <2>3. CASE Quiet
      BY <1>1, <1>2, <1>3, <1>4, <2>1, <2>2, <2>3, QuietPlace DEF Followed, Present, Quiet
    <2>4. CASE MoveFile(k)
      <3>1. dpc[k] \notin {"none"} \cup Over
        BY <2>4 DEF MoveFile, DaemonStep, Over
      <3>2. pc[k] = "wait" \/ ~file_exists[k] \/ pc[k] \notin MainPC
        BY <3>1 DEF IInv, Forked, AfterWait, BeforeFork, BeforeOpen, MainPC
      <3>3. ASSUME Distinct(k), file_exists[k]
            PROVE  Followed(k)'
        <4>1. pc[k] = "wait"
          BY <3>2, <3>3 DEF IInv, TypeOK
        <4>2. Present(k)
          BY <1>2, <1>4, <3>3, <4>1 DEF Followed
        <4>3. Present(k)'
          BY <2>4, <3>3, <4>2, MoveKeeps
        <4> QED
          BY <2>1, <4>1, <4>3 DEF Followed, BeforeFork, BeforeOpen
      <3> QED
        BY <1>1, <1>3, <2>1, <2>2, <3>3
    <2> QED
      BY <1>6, <2>3, <2>4, DaemonFiles
  <1>7. CASE Main(k)
    BY <1>1, <1>3, <1>7, FollowedStep, BlamedStep
  <1>8. CASE Tick \/ AllDone
    BY <1>8, <1>4 DEF Tick, AllDone, vars, envVars, mainVars, fileVars, Deleting,
        Distinct, Apart, Present, InWatch, InProcessed
  <1> QED
    BY <1>5, <1>6, <1>7, <1>8 DEF Next, DaemonMoves

\* What main() reports is settled by the step that leaves the fork or the wait
\* behind: its daemon is over by then, or there is none.
LEMMA ReportedStep ==
  ASSUME IInv, TypeOK', Next, NEW k \in Harness
  PROVE  Reported(k)'
  <1> USE DEF IInv
  <1>1. TypeOK /\ Forked(k) /\ Reported(k)
    OBVIOUS
  <1>2. ASSUME NEW h \in Harness, h # k, Main(h) \/ DaemonMoves(h)
        PROVE  Reported(k)'
    <2>1. success'[k] = success[k]
      <3>1. CASE Main(h)
        BY <1>2, <3>1, MainSuccess
      <3>2. CASE DaemonMoves(h)
        BY <3>2, DaemonSuccess
      <3> QED
        BY <1>2, <3>1, <3>2
    <2>2. pc'[k] = pc[k] /\ daemon'[k] = daemon[k] /\ dpc'[k] = dpc[k]
      BY <1>2, MainLocal, DaemonLocal DEF Untouched
    <2> QED
      BY <1>1, <2>1, <2>2 DEF Reported
  <1>3. CASE DaemonMoves(k)
    <2>1. success' = success /\ pc' = pc /\ daemon' = daemon
      BY <1>1, <1>3, DaemonSuccess, DaemonLocal
    <2>2. dpc'[k] = dpc[k] \/ dpc[k] \in Working
      BY <1>3 DEF DaemonMoves, Daemon, Environment, DaemonStep, GetINotifyData,
          SearchAFile, StampVerify, GetDatetimeStamp, MoveFile, LeaveDaemon, EndDaemon,
          StopDaemon, ContinueDaemon, GetINotifyDataFails, Working
    <2>3. dpc[k] \in Working => pc[k] \notin AfterWait
      BY <1>1 DEF Forked, Working, Over
    <2> QED
      BY <1>1, <2>1, <2>2, <2>3 DEF Reported
  <1>4. CASE Main(k)
    <2> USE DEF BeforeFork, BeforeOpen, AfterWait, Goto
    <2>1. CASE \/ ReadTestInput(k) \/ CheckWatchDir(k) \/ MakeWatchDir(k)
               \/ CheckProcessDir(k) \/ MakeProcessDir(k) \/ MakePipes(k)
               \/ CreateTestFile(k) \/ WriteTestFile(k) \/ TellDaemon(k)
      BY <1>1, <2>1 DEF TypeOK, Reported, Forked, Fail, ReadTestInput, CheckWatchDir,
          MakeWatchDir, CheckProcessDir, MakeProcessDir, MakePipes, CreateTestFile,
          WriteTestFile, TellDaemon, mainVars, daemonVars
    <2>2. CASE VerifyEdgeCase(k) \/ RemoveEdgeCase(k)
      BY <1>1, <2>2 DEF TypeOK, Reported, Forked, VerifyEdgeCase, RemoveEdgeCase,
          mainVars, daemonVars, RemoveTestCase
    <2>3. CASE ForkDaemon(k) \/ RefuseUser(k) \/ ForkFails(k)
      BY <1>1, <2>3 DEF TypeOK, Reported, Forked, Fail, ForkDaemon, RefuseUser,
          ForkFails, mainVars, daemonVars
    <2>4. CASE WaitDaemon(k) \/ WaitFails(k)
      BY <1>1, <2>4 DEF TypeOK, Reported, Forked, Waiting, WaitDaemon, WaitFails
    <2>5. CASE \/ VerifyTestFile(k) \/ RemoveTestFile(k) \/ SearchProcessed(k)
               \/ DeleteMatch(k) \/ Cleanup(k)
      BY <1>1, <2>5 DEF TypeOK, Reported, VerifyTestFile, RemoveTestFile,
          SearchProcessed, DeleteMatch, Cleanup, mainVars, daemonVars, RemoveTestCase
    <2> QED
      BY <1>4, <2>1, <2>2, <2>3, <2>4, <2>5 DEF Main
  <1>5. CASE Tick \/ AllDone
    BY <1>1, <1>5 DEF Tick, AllDone, vars, mainVars, daemonVars, Reported
  <1> QED
    BY <1>2, <1>3, <1>4, <1>5 DEF Next, DaemonMoves

LEMMA IInvStep == IInv /\ [Next]_vars => IInv'
  <1>1. ASSUME IInv, Next
        PROVE  IInv'
    <2>1. TypeOK'
      BY <1>1, NextType DEF IInv
    <2> QED
      BY <1>1, <2>1, PlacedStep, OpenedStep, ForkedStep, DeletingStep,
          ReportedStep DEF IInv
  <1>2. ASSUME IInv, UNCHANGED vars
        PROVE  IInv'
    BY <1>2 DEF vars, envVars, mainVars, daemonVars, dirVars, fileVars, IInv, TypeOK,
        Placed, Unique, Opened, Forked, Deleting, Reported, Distinct, Apart, Present,
        InWatch, InProcessed
  <1> QED
    BY <1>1, <1>2

THEOREM Inductive == Spec => []IInv
  BY InitIInv, IInvStep, PTL DEF Spec

-----------------------------------------------------------------------------
(* What follows from it.                                                   *)

\* main() looks for its file only when its daemon has terminated.
THEOREM DaemonIsOver == Spec => []DaemonOverFirst
  <1>1. IInv => DaemonOverFirst
    BY DEF IInv, Forked, DaemonOverFirst
  <1> QED
    BY <1>1, Inductive, PTL

\* A test case has one name at a time.
THEOREM OneName == Spec => []OnePlace
  <1>1. ASSUME IInv, NEW h \in Harness
        PROVE  /\ \A d, e \in Entry : h \in watch[d] /\ h \in watch[e] => d = e
               /\ \A f, g \in Stamped : h \in processed[f] /\ h \in processed[g] => f = g
               /\ ~(InWatch(h) /\ InProcessed(h))
    <2>1. Placed(h) /\ Unique(h)
      BY <1>1 DEF IInv
    <2>2. \A d, e \in Entry : h \in watch[d] /\ h \in watch[e] => d = e
      BY <2>1 DEF Placed
    <2>3. ~(InWatch(h) /\ InProcessed(h))
      BY <2>1 DEF Unique, InWatch, InProcessed
    <2> QED
      BY <2>1, <2>2, <2>3 DEF Unique
  <1>2. IInv => OnePlace
    BY <1>1 DEF OnePlace
  <1> QED
    BY <1>2, Inductive, PTL

\* However many harnesses there are, a test case with a distinct name stays
\* behind only where a call of its main() failed, and there it does.
THEOREM KeptWhereItFailed == Spec => []KeptOnlyByFailure
  <1>1. ASSUME IInv, NEW h \in Harness, pc[h] = "done", file_exists[h], Distinct(h)
        PROVE  /\ InWatch(h) <=> gave_up[h] = "watched"
               /\ InProcessed(h) <=> gave_up[h] = "processed"
               /\ daemon[h] = 1 /\ Present(h) => \E k \in DeletionFaults : Fault(k)
    BY <1>1 DEF IInv, Deleting, Present
  <1>2. IInv => KeptOnlyByFailure
    BY <1>1 DEF KeptOnlyByFailure
  <1> QED
    BY <1>2, Inductive, PTL

\* main() returns 0 only with a daemon that did not abort (unless waitpid()
\* failed), and another value only without a daemon or when it aborted.
THEOREM StatusTold == Spec => []ExitStatus
  <1>1. IInv => ExitStatus
    BY DEF IInv, Reported, AfterWait, ExitStatus
  <1> QED
    BY <1>1, Inductive, PTL

\* A test case with a distinct name is deleted by its own main() only.
THEOREM OthersSpared == Spec => SparesOthers
  <1>1. ASSUME IInv, Next, NEW k \in Harness, Distinct(k), Present(k), ~Present(k)'
        PROVE  pc'[k] # pc[k]
    <2>1. CASE Tick \/ AllDone
      BY <1>1, <2>1 DEF Tick, AllDone, vars, fileVars, Present, InWatch, InProcessed
    <2>2. ASSUME NEW h \in Harness, h # k, Main(h) \/ DaemonMoves(h)
          PROVE  FALSE
      BY <1>1, <2>2, OthersSpare DEF Present, InProcessed
    <2>3. CASE DaemonMoves(k)
      BY <1>1, <2>3, DaemonFiles, MoveKeeps DEF Quiet, Present, InWatch, InProcessed
    <2>4. CASE Main(k)
      <3>1. CASE Quiet
        BY <1>1, <3>1 DEF Quiet, Present, InWatch, InProcessed
      <3>2. CASE CreateTestFile(k) \/ RemoveEdgeCase(k) \/ RemoveTestFile(k)
          \/ DeleteMatch(k)
        BY <3>2, <1>1 DEF IInv, TypeOK, CreateTestFile, RemoveEdgeCase, RemoveTestFile,
            DeleteMatch, Fail, Goto, RemoveTestCase
      <3> QED
        BY <2>4, <3>1, <3>2, MainFiles
    <2> QED
      BY <1>1, <2>1, <2>2, <2>3, <2>4 DEF Next, DaemonMoves
  <1>2. IInv /\ [Next]_vars =>
          [\A h \in Harness :
             Distinct(h) /\ Present(h) /\ ~Present(h)' => pc[h]' # pc[h]]_vars
    BY <1>1
  <1> QED
    BY <1>2, Inductive, PTL DEF Spec, SparesOthers

-----------------------------------------------------------------------------
(* HareHarness implements HareTestCase: every step of a harness, of its    *)
(* daemon or of the environment moves the test case of that harness one    *)
(* stage forward, ends its execution, or changes nothing the abstract      *)
(* specification can see.                                                  *)

\* The values of stageBar and overBar at one harness.
S(h) == IF Distinct(h) THEN StageOf(h) ELSE "absent"
O(h) == IF ~Distinct(h) \/ pc[h] # "done" THEN "running"
        ELSE IF daemon[h] = 1 /\ gave_up[h] = "no" THEN "clean" ELSE "failed"

LEMMA BarInit == Init => TestCase!Init
  <1> SUFFICES ASSUME Init PROVE TestCase!Init
    OBVIOUS
  <1>1. \A h \in Harness : stageBar[h] = "absent" /\ overBar[h] = "running"
    BY DEF Init, stageBar, overBar, StageOf, InWatch, InProcessed
  <1> QED
    BY <1>1 DEF TestCase!Init, stageBar, overBar

LEMMA DistinctConstant ==
  ASSUME input' = input, NEW h \in Harness
  PROVE  Distinct(h)' <=> Distinct(h)
  BY DEF Distinct, Apart

\* The other harnesses do not move.
LEMMA OthersStutter ==
  ASSUME IInv, input' = input, NEW h \in Harness, NEW k \in Harness, k # h,
         Main(h) \/ DaemonMoves(h)
  PROVE  S(k)' = S(k) /\ O(k)' = O(k)
  <1>1. Distinct(k)' <=> Distinct(k)
    BY DistinctConstant
  <1>2. /\ pc'[k] = pc[k] /\ daemon'[k] = daemon[k] /\ file_exists'[k] = file_exists[k]
        /\ gave_up'[k] = gave_up[k]
    BY MainLocal, DaemonLocal DEF Untouched, IInv
  <1>3. Distinct(k) => /\ InWatch(k)' <=> InWatch(k)
                       /\ InProcessed(k)' <=> InProcessed(k)
    BY OthersSpare DEF InProcessed
  <1> QED
    BY <1>1, <1>2, <1>3 DEF S, O, StageOf

\* What a step of main() or of the daemon does to its own test case.
Moves(h) ==
    /\ O(h) = "running" /\ O(h)' = "running"
    /\ \/ S(h) = "absent" /\ S(h)' = "watched"
       \/ S(h) = "watched" /\ S(h)' = "processed"
       \/ S(h) \in {"watched", "processed"} /\ S(h)' = "gone"

Finishes(h) ==
    /\ S(h)' = S(h)
    /\ O(h) = "running"
    /\ O(h)' = "failed" \/ (O(h)' = "clean" /\ S(h) = "gone")

Stays(h) == S(h)' = S(h) /\ O(h)' = O(h)

LEMMA QuietStage ==
  ASSUME NEW h \in Harness, Quiet
  PROVE  S(h)' = S(h)
  BY DistinctConstant DEF Quiet, S, StageOf, InWatch, InProcessed

LEMMA OwnMain ==
  ASSUME IInv, NEW h \in Harness, Distinct(h), input' = input, Main(h)
  PROVE  Moves(h) \/ Finishes(h) \/ Stays(h)
  <1> USE DEF IInv, TypeOK, Goto
  <1>1. Distinct(h)'
    BY DistinctConstant
  <1>2. pc[h] # "done" /\ O(h) = "running"
    BY DEF Main, O, ReadTestInput, CheckWatchDir, MakeWatchDir, CheckProcessDir,
        MakeProcessDir, MakePipes, CreateTestFile, WriteTestFile, VerifyEdgeCase,
        RemoveEdgeCase, TellDaemon, ForkDaemon, RefuseUser, ForkFails, WaitDaemon,
        WaitFails, VerifyTestFile, RemoveTestFile, SearchProcessed, DeleteMatch, Cleanup,
        Fail, RemoveTestCase
  <1>3. ASSUME pc'[h] # "done"
        PROVE  O(h)' = "running"
    BY <1>3 DEF O
  <1>4. CASE Quiet
    <2>1. CASE Cleanup(h)
      <3>1. /\ daemon'[h] = daemon[h] /\ gave_up'[h] = gave_up[h]
            /\ pc[h] = "cleanup" /\ pc'[h] = "done"
        BY <2>1 DEF Cleanup
      <3>2. daemon[h] = 1 /\ gave_up[h] = "no" => S(h) = "gone"
        BY <3>1 DEF Deleting, Opened, S, StageOf
      <3> QED
        BY <1>1, <1>2, <1>4, <3>1, <3>2, QuietStage DEF Finishes, O
    <2>2. CASE ForkFails(h)
      <3>1. daemon'[h] = daemon[h] /\ pc'[h] = "done" /\ daemon[h] = 0
        BY <2>2 DEF ForkFails, Fail, Forked, BeforeFork
      <3> QED
        BY <1>1, <1>2, <1>4, <3>1, QuietStage DEF Finishes, O
    <2>3. CASE ~Cleanup(h) /\ ~ForkFails(h)
      <3>1. pc'[h] # "done"
        BY <1>2, <2>3 DEF Main, ReadTestInput, CheckWatchDir, MakeWatchDir,
            CheckProcessDir, MakeProcessDir, MakePipes, CreateTestFile, WriteTestFile,
            VerifyEdgeCase, RemoveEdgeCase, TellDaemon, ForkDaemon, RefuseUser,
            WaitDaemon, WaitFails, VerifyTestFile, RemoveTestFile, SearchProcessed,
            DeleteMatch, Fail, RemoveTestCase
      <3> QED
        BY <1>2, <1>3, <1>4, <3>1, QuietStage DEF Stays
    <2> QED
      BY <2>1, <2>2, <2>3
  <1>5. CASE CreateTestFile(h) /\ ~Quiet
    <2>1. /\ pc[h] = "open" /\ pc'[h] = "write" /\ Leaf[input[h]] \in Entry
          /\ watch' = [watch EXCEPT ![Leaf[input[h]]] = @ \cup {h}]
      BY <1>5, LeafAssumption DEF CreateTestFile, Fail, Quiet
    <2>2. ~file_exists[h]
      BY <2>1 DEF Opened, BeforeOpen
    <2>3. S(h) = "absent"
      BY <2>2 DEF S, StageOf, InWatch, InProcessed, Placed
    <2>4. InWatch(h)'
      BY <2>1 DEF InWatch
    <2> QED
      BY <1>1, <1>2, <1>3, <2>1, <2>3, <2>4 DEF Moves, S, StageOf
  <1>6. CASE RemoveEdgeCase(h) \/ RemoveTestFile(h)
    <2>1. /\ pc'[h] = "cleanup" /\ UNCHANGED <<processed, file_exists>>
          /\ watch' = [watch EXCEPT ![Leaf[input[h]]] = {}] \/ UNCHANGED watch
          /\ pc[h] \in {"edge_remove", "remove"}
      BY <1>6 DEF RemoveEdgeCase, RemoveTestFile, mainVars, RemoveTestCase
    <2>2. file_exists[h]
      BY <2>1 DEF Opened, BeforeFork, BeforeOpen, Waiting
    <2>3. ~InWatch(h)' \/ (InWatch(h)' = InWatch(h))
      BY <2>1 DEF InWatch, Placed
    <2>4. InProcessed(h)' <=> InProcessed(h)
      BY <2>1 DEF InProcessed
    <2>5. InWatch(h) => ~InProcessed(h)
      BY DEF Unique, InWatch, InProcessed
    <2>6. CASE InWatch(h)
      BY <1>1, <1>2, <1>3, <2>1, <2>2, <2>3, <2>4, <2>5, <2>6 DEF Moves, Stays, S, StageOf
    <2>7. CASE ~InWatch(h)
      BY <1>1, <1>2, <1>3, <2>1, <2>3, <2>4, <2>7 DEF Stays, S, StageOf
    <2> QED
      BY <2>6, <2>7
  <1>7. CASE DeleteMatch(h)
    <2>1. /\ pc[h] = "delete" /\ pc'[h] = "cleanup" /\ UNCHANGED <<watch, file_exists>>
          /\ processed' = [processed EXCEPT ![victim[h]] = {}] \/ UNCHANGED processed
      BY <1>7 DEF DeleteMatch
    <2>2. /\ file_exists[h] /\ ~InWatch(h) /\ InProcessed(h)
          /\ \A f \in Stamped : h \in processed[f] => f = victim[h]
      BY <2>1 DEF Opened, Deleting, Unique, InWatch, InProcessed, BeforeFork, BeforeOpen,
          Waiting
    <2>3. ~InWatch(h)' /\ (~InProcessed(h)' \/ UNCHANGED processed)
      BY <2>1, <2>2 DEF InWatch, InProcessed
    <2>4. S(h) = "processed" /\ (S(h)' = "gone" \/ S(h)' = S(h))
      BY <1>1, <2>1, <2>2, <2>3 DEF S, StageOf, InProcessed
    <2> QED
      BY <1>2, <1>3, <2>1, <2>4 DEF Moves, Stays
  <1> QED
    BY <1>4, <1>5, <1>6, <1>7, MainFiles

LEMMA OwnDaemon ==
  ASSUME IInv, NEW h \in Harness, Distinct(h), input' = input, DaemonMoves(h)
  PROVE  Moves(h) \/ Stays(h)
  <1> USE DEF IInv, TypeOK
  <1>1. Distinct(h)'
    BY DistinctConstant
  <1>2. UNCHANGED <<pc, file_exists, daemon, gave_up>>
    BY DaemonLocal
  <1>3. O(h)' = O(h)
    BY <1>1, <1>2 DEF O
  <1>4. CASE Quiet
    BY <1>3, <1>4, QuietStage DEF Stays
  <1>5. CASE MoveFile(h) /\ UNCHANGED fileVars
    BY <1>1, <1>2, <1>3, <1>5 DEF fileVars, Stays, S, StageOf, InWatch, InProcessed
  <1>6. CASE MoveFile(h) /\ ~UNCHANGED fileVars
    <2> DEFINE e == Told[input[h]]
               f == [stamp |-> dstamp[h], entry |-> e]
    <2>1. O(h) = "running"
      <3>1. dpc[h] \notin {"none"} \cup Over
        BY <1>6 DEF MoveFile, DaemonStep, Over
      <3> QED
        BY <3>1 DEF Forked, AfterWait, O
    <2>2. e \in Entry /\ f \in Stamped /\ e = Leaf[input[h]] /\ watch[e] # {}
      BY <1>6, ToldAssumption DEF MoveFile, Found, Stamped
    <2>3. /\ processed' = [processed EXCEPT ![f] = watch[e]]
          /\ watch' = [watch EXCEPT ![e] = {}]
      BY <1>6 DEF MoveFile
    <2>4. h \in watch[e]
      <3>1. PICK g \in Harness : g \in watch[e]
        BY <2>2
      <3>2. e = Leaf[input[g]]
        BY <2>2, <3>1 DEF Placed
      <3> QED
        BY <2>2, <3>1, <3>2 DEF Distinct, Apart
    <2> HIDE DEF e, f
    <2>5. S(h) = "watched"
      BY <2>2, <2>4 DEF S, StageOf, InWatch
    <2>6. ~InWatch(h)'
      BY <2>2, <2>3 DEF InWatch, Placed
    <2>7. InProcessed(h)'
      BY <2>2, <2>3, <2>4 DEF InProcessed
    <2> QED
      BY <1>1, <1>3, <2>1, <2>5, <2>6, <2>7 DEF Moves, S, StageOf
  <1> QED
    BY <1>4, <1>5, <1>6, DaemonFiles

\* Every step is a step of the abstract specification or a stutter.
LEMMA BarStep ==
  ASSUME IInv, Next
  PROVE  [TestCase!Next]_<<stageBar, overBar>>
  <1>1. input' = input
    BY InputConstant
  <1>2. stageBar = [k \in Harness |-> S(k)] /\ overBar = [k \in Harness |-> O(k)]
    BY DEF stageBar, overBar, S, O
  <1>3. stageBar' = [k \in Harness |-> S(k)'] /\ overBar' = [k \in Harness |-> O(k)']
    BY DEF stageBar, overBar, S, O
  <1>4. CASE Tick \/ AllDone
    <2>1. \A k \in Harness : S(k)' = S(k) /\ O(k)' = O(k)
      BY <1>4 DEF Tick, AllDone, vars, envVars, mainVars, fileVars, S, O, StageOf,
          Distinct,
          Apart, InWatch, InProcessed
    <2> QED
      BY <1>2, <1>3, <2>1
  <1>5. ASSUME NEW h \in Harness, Main(h) \/ DaemonMoves(h)
        PROVE  [TestCase!Next]_<<stageBar, overBar>>
    <2>1. \A k \in Harness \ {h} : S(k)' = S(k) /\ O(k)' = O(k)
      BY <1>1, <1>5, OthersStutter
    <2>2. Moves(h) \/ Finishes(h) \/ Stays(h)
      <3>1. CASE Distinct(h)
        BY <1>1, <1>5, <3>1, OwnMain, OwnDaemon
      <3>2. CASE ~Distinct(h)
        BY <1>1, <3>2, DistinctConstant DEF Stays, S, O
      <3> QED
        BY <3>1, <3>2
    <2>3. stageBar[h] = S(h) /\ overBar[h] = O(h)
      BY <1>2
    <2>4. CASE Stays(h)
      BY <1>2, <1>3, <2>1, <2>4 DEF Stays
    <2>5. CASE Finishes(h)
      <3>1. stageBar' = stageBar
        BY <1>2, <1>3, <2>1, <2>5 DEF Finishes
      <3>2. overBar' = [overBar EXCEPT ![h] = O(h)']
        BY <1>2, <1>3, <2>1
      <3> QED
        BY <2>3, <2>5, <3>1, <3>2 DEF Finishes, TestCase!Next, TestCase!Finish
    <2>6. CASE Moves(h)
      <3>1. overBar' = overBar
        BY <1>2, <1>3, <2>1, <2>6 DEF Moves
      <3>2. stageBar' = [stageBar EXCEPT ![h] = S(h)']
        BY <1>2, <1>3, <2>1
      <3> QED
        BY <2>3, <2>6, <3>1, <3>2 DEF Moves, TestCase!Next, TestCase!Create,
            TestCase!Process, TestCase!Delete, TestCase!Advance
    <2> QED
      BY <2>2, <2>4, <2>5, <2>6
  <1> QED
    BY <1>4, <1>5 DEF Next, DaemonMoves

\* The harness, its daemon and the shared directories implement the life of
\* a test case that HareTestCase states, for every distinct name.
THEOREM Implements == Spec => ImplementsTestCase
  <1>1. IInv /\ [Next]_vars => [TestCase!Next]_<<stageBar, overBar>>
    <2>1. ASSUME UNCHANGED vars
          PROVE  UNCHANGED <<stageBar, overBar>>
      BY <2>1 DEF vars, envVars, mainVars, fileVars, stageBar, overBar, StageOf, Distinct,
          Apart, InWatch, InProcessed
    <2> QED
      BY <2>1, BarStep
  <1> QED
    BY <1>1, BarInit, Inductive, PTL DEF Spec, ImplementsTestCase, TestCase!Spec

=============================================================================
