------------------------- MODULE HareCampaignProofs -------------------------
(***************************************************************************)
(* Proofs about HareCampaign for any names and their words, any number of  *)
(* campaigns of any scripts and sizes, and any calls that fail.            *)
(***************************************************************************)
EXTENDS HareCampaign, FiniteSetTheorems, TLAPS

\* Nothing has been made, saved or logged at the beginning.
LEMMA InitCampaign == Init => CampaignInv
<1> SUFFICES ASSUME Init PROVE CampaignInv
  OBVIOUS
<1>1. TypeOK
  <2>1. [made : {0}, bad : BOOLEAN] \subseteq Content
    BY DEF Content
  <2>2. testdir \in [Name -> Content \cup {NULL}]
    BY <2>1 DEF Init
  <2>3. crashes \in [Name -> Content \cup {NULL}]
    BY DEF Init
  <2>4. memwatch_log = NULL \/ memwatch_log \subseteq 0..execution
    BY DEF Init
  <2> QED
    BY <2>2, <2>3, <2>4, CampaignAssumption DEF Init, TypeOK
<1>2. Counted /\ Made /\ Own /\ Reasons /\ Logged
  BY NameAssumption DEF Init, Counted, Made, Own, Reasons, Logged, Early, Content
<1>3. OwnFinding /\ SavedWasWanting
  BY DEF Init, OwnFinding, SavedWasWanting
<1>4. SavesCounted
  <2>1. {n \in Name : crashes[n] # NULL} = {}
    BY DEF Init
  <2>2. /\ IsFiniteSet({n \in Name : crashes[n] # NULL})
        /\ Cardinality({n \in Name : crashes[n] # NULL}) = 0
    BY <2>1, FS_EmptySet
  <2> QED
    BY <2>2 DEF Init, SavesCounted
<1> QED
  BY <1>1, <1>2, <1>3, <1>4 DEF CampaignInv

\* A step that saves nothing keeps count of what was saved.
LEMMA SameCrashes ==
    ASSUME CampaignInv, crashes' = crashes,
           saves' + CRASH_FILES_SAVED' = saves + CRASH_FILES_SAVED
    PROVE  SavesCounted'
  BY DEF CampaignInv, SavesCounted

\* A reason counts once.
LEMMA CountType == \A b : Count(b) \in 0..1
  BY DEF Count

\* The argument is validated.
LEMMA ValidateInputsStep ==
    ASSUME CampaignInv, ValidateInputs
    PROVE  CampaignInv'
<1> USE DEF ValidateInputs, Goto, counters, log, dirs, history
<1>1. TypeOK'
  BY DEF CampaignInv, TypeOK
<1>2. (Counted /\ Made /\ Own /\ Reasons /\ Logged)'
  BY DEF CampaignInv, TypeOK, Counted, Made, Own, Reasons, Logged, Early, Memwatch, Wanted,
         Executed, FileOf
<1>3. (OwnFinding /\ SavedWasWanting)'
  BY DEF CampaignInv, OwnFinding, SavedWasWanting
<1>4. SavesCounted'
  BY SameCrashes
<1> QED
  BY <1>1, <1>2, <1>3, <1>4 DEF CampaignInv

\* The log is deleted before an execution: what is left of it in two deletions
\* that failed.
LEMMA BeforeExecutionStep ==
    ASSUME CampaignInv, BeforeExecution
    PROVE  CampaignInv'
<1> USE DEF BeforeExecution, Goto, counters, log, dirs, history
<1>1. TypeOK'
  BY DEF CampaignInv, TypeOK, ClearLog, DeleteLog
<1>2. (Counted /\ Made /\ Own /\ Reasons)'
  BY DEF CampaignInv, TypeOK, Counted, Made, Own, Reasons, Early, Memwatch, Wanted,
         Executed, FileOf
<1>3. Logged'
  BY DEF CampaignInv, TypeOK, Logged, Memwatch, ClearLog, DeleteLog
<1>4. (OwnFinding /\ SavedWasWanting)'
  BY DEF CampaignInv, OwnFinding, SavedWasWanting
<1>5. SavesCounted'
  BY SameCrashes
<1> QED
  BY <1>1, <1>2, <1>3, <1>4, <1>5 DEF CampaignInv

\* The file that is created is new, or is left as it was.
LEMMA CreateTestFileStep ==
    ASSUME CampaignInv, CreateTestFile
    PROVE  CampaignInv'
<1> USE DEF CreateTestFile, Goto, log
<1>1. TypeOK'
  <2>1. \A b \in BOOLEAN : [made |-> execution', bad |-> b] \in Content
    BY DEF CampaignInv, TypeOK, Content
  <2>2. testdir' \in [Name -> Content \cup {NULL}]
    BY <2>1 DEF CampaignInv, TypeOK
  <2>3. memwatch_log' = NULL \/ memwatch_log' \subseteq 0..execution'
    BY DEF CampaignInv, TypeOK
  <2> QED
    BY <2>2, <2>3 DEF CampaignInv, TypeOK
<1>2. Counted'
  BY DEF CampaignInv, TypeOK, Counted, Early
<1>3. (Made /\ Own)'
  BY DEF CampaignInv, TypeOK, Counted, Made, Own, Early, Content
<1>4. (Reasons /\ Logged)'
  BY DEF CampaignInv, TypeOK, Reasons, Logged, Memwatch
<1>5. (OwnFinding /\ SavedWasWanting)'
  BY DEF CampaignInv, OwnFinding, SavedWasWanting
<1>6. SavesCounted'
  BY SameCrashes
<1> QED
  BY <1>1, <1>2, <1>3, <1>4, <1>5, <1>6 DEF CampaignInv

\* Whatever is seen of an execution, the file it is seen for is wanted.
LEMMA ExecuteStep ==
    ASSUME CampaignInv, Execute
    PROVE  CampaignInv'
<1> USE DEF Execute, Goto, dirs
<1>1. SAVE_IT' \in 0..2 /\ CRASH_NUM' \in 0..INPUT_NUM
  BY CountType DEF CampaignInv, TypeOK, Counted
<1>2. TypeOK' /\ Counted'
  <2>1. memwatch_log' = NULL \/ memwatch_log' \subseteq 0..execution'
    BY DEF CampaignInv, TypeOK
  <2> QED
    BY <1>1, <2>1 DEF CampaignInv, TypeOK, Counted, Early
<1>3. (Made /\ Own)'
  BY DEF CampaignInv, TypeOK, Counted, Made, Own, Early
<1>4. Reasons'
  <2>1. PICK n \in Executed(INPUT), seen \in Outcome :
            /\ FileOf(n) = NULL \/ ~FileOf(n).bad => seen = {}
            /\ SAVE_IT' = SAVE_IT + Count("status" \in seen)
                          + Count("stderr" \in seen /\ Script[campaign] # "source05")
            /\ wanting' = IF seen = {} THEN wanting ELSE wanting \cup {<<n, FileOf(n)>>}
            /\ memwatch_log' =
                  IF ~Memwatch THEN memwatch_log
                  ELSE (IF memwatch_log = NULL THEN {} ELSE memwatch_log)
                       \cup (IF "log" \in seen THEN {execution} ELSE {})
    OBVIOUS
  <2>2. /\ pc = "execute" /\ pc' = IF Memwatch THEN "check" ELSE "save"
        /\ execution' = execution /\ stale' = stale
        /\ INPUT' = INPUT /\ testdir' = testdir
    OBVIOUS
  <2>3. CASE seen = {}
    <3>1. SAVE_IT' = 0
      BY <2>1, <2>2, <2>3 DEF CampaignInv, Counted, Count
    <3>2. Memwatch => execution' \notin memwatch_log'
      BY <2>1, <2>2, <2>3 DEF CampaignInv, Logged
    <3> QED
      BY <2>2, <3>1, <3>2 DEF Reasons
  <2>4. CASE seen # {}
    <3>1. FileOf(n) # NULL /\ <<n, FileOf(n)>> \in wanting'
      BY <2>1, <2>4
    <3>2. Executed(INPUT)' = Executed(INPUT)
      BY <2>2 DEF Executed
    <3>3. FileOf(n)' = FileOf(n)
      BY <2>2 DEF FileOf
    <3>4. Wanted'
      BY <2>1, <3>1, <3>2, <3>3 DEF Wanted
    <3> QED
      BY <3>4 DEF Reasons
  <2> QED
    BY <2>3, <2>4
<1>5. Logged'
  <2>1. CASE Memwatch
    BY <2>1 DEF CampaignInv, TypeOK, Logged, Memwatch
  <2>2. CASE ~Memwatch
    BY <2>2 DEF CampaignInv, TypeOK, Logged, Memwatch
  <2> QED
    BY <2>1, <2>2
<1>6. (OwnFinding /\ SavedWasWanting)'
  BY DEF CampaignInv, Logged, OwnFinding, SavedWasWanting
<1>7. SavesCounted'
  BY SameCrashes
<1> QED
  BY <1>2, <1>3, <1>4, <1>5, <1>6, <1>7 DEF CampaignInv

\* A log with errors is a reason, and stale if none of them is of this execution.
LEMMA CheckMemwatchStep ==
    ASSUME CampaignInv, CheckMemwatch
    PROVE  CampaignInv'
<1> USE DEF CheckMemwatch, Goto, counters, log, dirs
<1>1. TypeOK'
  <2>1. SAVE_IT' \in 0..3
    BY CountType DEF CampaignInv, TypeOK, Counted
  <2>2. stale' \in {0, 1}
    BY CountType
  <2> QED
    BY <2>1, <2>2 DEF CampaignInv, TypeOK
<1>2. (Counted /\ Made /\ Own)'
  BY DEF CampaignInv, TypeOK, Counted, Made, Own, Early
<1>3. Reasons'
  <2>1. Wanted' <=> Wanted
    BY DEF Wanted, Executed, FileOf
  <2>2. CASE SAVE_IT # 0 \/ execution \in memwatch_log
    BY <2>1, <2>2 DEF CampaignInv, Reasons
  <2>3. CASE SAVE_IT = 0 /\ execution \notin memwatch_log
    <3>1. memwatch_log # {} => stale' = 1
      BY <2>3 DEF Count
    <3>2. memwatch_log = {} => SAVE_IT' = 0
      BY <2>3 DEF Count
    <3> QED
      BY <3>1, <3>2 DEF Reasons
  <2> QED
    BY <2>2, <2>3
<1>4. Logged'
  BY DEF CampaignInv, TypeOK, Logged, Memwatch
<1>5. OwnFinding'
  BY DEF CampaignInv, Logged, OwnFinding, Count
<1>6. SavedWasWanting'
  BY DEF CampaignInv, SavedWasWanting
<1>7. SavesCounted'
  BY SameCrashes
<1> QED
  BY <1>1, <1>2, <1>3, <1>4, <1>5, <1>6, <1>7 DEF CampaignInv

\* What is saved is wanted, and adds one file at most to those that were.
LEMMA SaveCrashFileStep ==
    ASSUME CampaignInv, SaveCrashFile
    PROVE  CampaignInv'
<1> USE DEF SaveCrashFile, SavedName, Goto, log
<1>1. TypeOK'
  <2>1. crashes' \in [Name -> Content \cup {NULL}]
    BY DEF CampaignInv, TypeOK
  <2>2. CRASH_FILES_SAVED' \in 0..INPUT_NUM
    BY DEF CampaignInv, TypeOK, Counted
  <2>3. memwatch_log' = NULL \/ memwatch_log' \subseteq 0..execution'
    BY DEF CampaignInv, TypeOK
  <2> QED
    BY <2>1, <2>2, <2>3 DEF CampaignInv, TypeOK
<1>2. (Counted /\ Made /\ Own)'
  BY DEF CampaignInv, TypeOK, Counted, Made, Own, Early
<1>3. (Reasons /\ Logged /\ OwnFinding)'
  BY DEF CampaignInv, TypeOK, Reasons, Logged, OwnFinding, Memwatch
<1>4. SavedWasWanting'
  <2> SUFFICES ASSUME NEW n \in Name \ Astray, crashes'[n] # NULL
               PROVE  <<n, crashes'[n]>> \in wanting' \/ n \in misled'
    BY DEF SavedWasWanting
  <2>1. CASE crashes'[n] = crashes[n]
    BY <2>1 DEF CampaignInv, SavedWasWanting
  <2>2. CASE crashes'[n] # crashes[n]
    <3>1. /\ SAVE_IT # 0
          /\ n = Saved[INPUT] /\ crashes'[n] = testdir[n]
          /\ stale = 1 => n \in misled'
      BY <2>2 DEF CampaignInv, TypeOK
    <3>2. CASE stale = 1
      BY <3>1, <3>2
    <3>3. CASE Wanted
      <4>0. INPUT \in Name
        BY DEF CampaignInv, Counted, Early
      <4>1. CASE Matched[INPUT] \cup {Word[INPUT]} # {Saved[INPUT]}
        BY <3>1, <4>0, <4>1 DEF Astray
      <4>2. CASE Matched[INPUT] \cup {Word[INPUT]} = {Saved[INPUT]}
        <5>1. \A m \in Executed(INPUT) : m = n
          BY <3>1, <4>2 DEF Executed
        <5> QED
          BY <3>1, <3>3, <5>1, NameAssumption DEF Wanted, FileOf
      <4> QED
        BY <4>1, <4>2
    <3> QED
      BY <3>1, <3>2, <3>3 DEF CampaignInv, Reasons
  <2> QED
    BY <2>1, <2>2
<1>5. SavesCounted'
  <2> DEFINE held == {n \in Name : crashes[n] # NULL}
  <2>1. IsFiniteSet(held) /\ Cardinality(held) <= saves + CRASH_FILES_SAVED
    BY DEF CampaignInv, SavesCounted
  <2>2. CASE UNCHANGED <<crashes, CRASH_FILES_SAVED>>
    BY <2>2, SameCrashes
  <2>3. CASE ~UNCHANGED <<crashes, CRASH_FILES_SAVED>>
    <3> DEFINE n == Saved[INPUT]
    <3>1. /\ crashes' = [crashes EXCEPT ![n] = IF @ = NULL THEN testdir[n] ELSE @]
          /\ CRASH_FILES_SAVED' = CRASH_FILES_SAVED + 1
      BY <2>3
    <3>2. held' \subseteq held \cup {n}
      BY <3>1 DEF CampaignInv, TypeOK
    <3> HIDE DEF held, n
    <3>3. /\ IsFiniteSet(held \cup {n})
          /\ Cardinality(held \cup {n}) =
                IF n \in held THEN Cardinality(held) ELSE Cardinality(held) + 1
      BY <2>1, FS_AddElement
    <3>4. /\ IsFiniteSet(held')
          /\ Cardinality(held') <= Cardinality(held \cup {n})
      BY <3>2, <3>3, FS_Subset
    <3>5. Cardinality(held) \in Nat /\ Cardinality(held') \in Nat
      BY <2>1, <3>4, FS_CardinalityType
    <3>6. Cardinality(held \cup {n}) \in Nat
      BY <3>3, FS_CardinalityType
    <3>7. Cardinality(held') <= saves' + CRASH_FILES_SAVED'
      BY <2>1, <3>1, <3>3, <3>4, <3>5, <3>6 DEF CampaignInv, TypeOK
    <3> QED
      BY <3>4, <3>7 DEF SavesCounted, held
  <2> QED
    BY <2>2, <2>3
<1> QED
  BY <1>1, <1>2, <1>3, <1>4, <1>5 DEF CampaignInv

\* What this execution created is deleted, or left behind by a failed rm.
LEMMA DeleteTestFileStep ==
    ASSUME CampaignInv, DeleteTestFile
    PROVE  CampaignInv'
<1> USE DEF DeleteTestFile, ToDelete, Goto, counters, log
<1>1. TypeOK'
  <2>1. testdir' \in [Name -> Content \cup {NULL}] /\ left' \subseteq Name
    BY DEF CampaignInv, TypeOK, Counted, Early
  <2>2. memwatch_log' = NULL \/ memwatch_log' \subseteq 0..execution'
    BY DEF CampaignInv, TypeOK
  <2> QED
    BY <2>1, <2>2 DEF CampaignInv, TypeOK
<1>2. (Counted /\ Own)'
  BY DEF CampaignInv, TypeOK, Counted, Own, Early
<1>3. Made'
  BY DEF CampaignInv, TypeOK, Counted, Made, Early
<1>4. (Reasons /\ Logged)'
  BY DEF CampaignInv, TypeOK, Reasons, Logged, Memwatch
<1>5. (OwnFinding /\ SavedWasWanting)'
  BY DEF CampaignInv, OwnFinding, SavedWasWanting
<1>6. SavesCounted'
  BY SameCrashes
<1> QED
  BY <1>1, <1>2, <1>3, <1>4, <1>5, <1>6 DEF CampaignInv

\* The log is deleted after an execution: what is left of it in one that failed.
LEMMA AfterExecutionStep ==
    ASSUME CampaignInv, AfterExecution
    PROVE  CampaignInv'
<1> USE DEF AfterExecution, Goto, counters, log, dirs, history
<1>1. TypeOK'
  BY DEF CampaignInv, TypeOK, DeleteLog
<1>2. (Counted /\ Made /\ Own /\ Reasons)'
  BY DEF CampaignInv, TypeOK, Counted, Made, Own, Reasons, Early
<1>3. Logged'
  BY DEF CampaignInv, TypeOK, Logged, Memwatch, DeleteLog
<1>4. (OwnFinding /\ SavedWasWanting)'
  BY DEF CampaignInv, OwnFinding, SavedWasWanting
<1>5. SavesCounted'
  BY SameCrashes
<1> QED
  BY <1>1, <1>2, <1>3, <1>4, <1>5 DEF CampaignInv

\* The temporary variables are reset for the next input.
LEMMA CheckLoopStep ==
    ASSUME CampaignInv, CheckLoop
    PROVE  CampaignInv'
<1> USE DEF CheckLoop, Reset, Goto, log, dirs, history
<1>1. TypeOK'
  BY DEF CampaignInv, TypeOK
<1>2. (Counted /\ Made /\ Own /\ Reasons)'
  BY DEF CampaignInv, TypeOK, Counted, Made, Own, Reasons, Early
<1>3. Logged'
  BY DEF CampaignInv, TypeOK, Logged, Memwatch
<1>4. (OwnFinding /\ SavedWasWanting)'
  BY DEF CampaignInv, OwnFinding, SavedWasWanting
<1>5. SavesCounted'
  BY SameCrashes
<1> QED
  BY <1>1, <1>2, <1>3, <1>4, <1>5 DEF CampaignInv

\* The next campaign takes over the directories and the log.
LEMMA NextCampaignStep ==
    ASSUME CampaignInv, NextCampaign
    PROVE  CampaignInv'
<1> USE DEF NextCampaign, Goto, log, dirs
<1>1. TypeOK'
  BY DEF CampaignInv, TypeOK
<1>2. (Counted /\ Made /\ Own /\ Reasons)'
  BY DEF CampaignInv, TypeOK, Counted, Made, Own, Reasons, Early
<1>3. Logged'
  BY DEF CampaignInv, TypeOK, Logged, Memwatch
<1>4. (OwnFinding /\ SavedWasWanting)'
  BY DEF CampaignInv, OwnFinding, SavedWasWanting
<1>5. SavesCounted'
  BY SameCrashes DEF CampaignInv, TypeOK
<1> QED
  BY <1>1, <1>2, <1>3, <1>4, <1>5 DEF CampaignInv

\* Nothing changes.
LEMMA StutterCampaign ==
    ASSUME CampaignInv, UNCHANGED vars
    PROVE  CampaignInv'
<1> USE DEF vars, counters, dirs, log, history
<1>1. TypeOK'
  BY DEF CampaignInv, TypeOK
<1>2. (Counted /\ Made /\ Own /\ Reasons /\ Logged)'
  BY DEF CampaignInv, TypeOK, Counted, Made, Own, Reasons, Logged, Early, Memwatch, Wanted,
         Executed, FileOf
<1>3. (OwnFinding /\ SavedWasWanting)'
  BY DEF CampaignInv, OwnFinding, SavedWasWanting
<1>4. SavesCounted'
  BY SameCrashes
<1> QED
  BY <1>1, <1>2, <1>3, <1>4 DEF CampaignInv

\* The invariant of the campaigns holds in every reachable state.
THEOREM CampaignInvariant == Spec => []CampaignInv
<1>1. Init => CampaignInv
  BY InitCampaign
<1>2. CampaignInv /\ [Next]_vars => CampaignInv'
  BY ValidateInputsStep, BeforeExecutionStep, CreateTestFileStep, ExecuteStep,
     CheckMemwatchStep, SaveCrashFileStep, DeleteTestFileStep, AfterExecutionStep,
     CheckLoopStep, NextCampaignStep, StutterCampaign DEF Next, Over
<1> QED
  BY <1>1, <1>2, PTL DEF Spec

\* The variables of the scripts keep their types.
THEOREM TypeCorrect == Spec => []TypeOK
<1>1. CampaignInv => TypeOK
  BY DEF CampaignInv
<1> QED
  BY <1>1, CampaignInvariant, PTL

\* A finding of another execution is taken for one of this only after failed deletions
\* of the log.
THEOREM FindingIsOwn == Spec => []OwnFinding
<1>1. CampaignInv => OwnFinding
  BY DEF CampaignInv
<1> QED
  BY <1>1, CampaignInvariant, PTL

\* What is saved under a name that nothing leads astray is what a binary failed on.
THEOREM SavedIsWanted == Spec => []SavedWasWanting
<1>1. CampaignInv => SavedWasWanting
  BY DEF CampaignInv
<1> QED
  BY <1>1, CampaignInvariant, PTL

\* The campaigns report at least as many crash files as there are.
THEOREM SavesReported == Spec => []SavesCounted
<1>1. CampaignInv => SavesCounted
  BY DEF CampaignInv
<1> QED
  BY <1>1, CampaignInvariant, PTL

\* The test directory is left as it was found, but for files whose call failed.
THEOREM DirectoryLeft == Spec => []LeavesDirectory
<1>1. CampaignInv => LeavesDirectory
  BY DEF CampaignInv, Counted, Made, LeavesDirectory, Early
<1> QED
  BY <1>1, CampaignInvariant, PTL

\* No campaign removes or replaces a file that it has found.
THEOREM FoundSpared == Spec => SparesFound
<1> DEFINE Spared == \A n \in Name : testdir[n] # NULL /\ testdir'[n] # testdir[n]
                                       => testdir[n].made = execution
<1>1. CampaignInv /\ [Next]_vars => [Spared]_vars
  <2> SUFFICES ASSUME CampaignInv, Next, NEW n \in Name, testdir[n] # NULL,
                      testdir'[n] # testdir[n]
               PROVE  testdir[n].made = execution
    OBVIOUS
  <2>1. CreateTestFile \/ DeleteTestFile
    BY DEF Next, ValidateInputs, BeforeExecution, Execute, CheckMemwatch, SaveCrashFile,
           AfterExecution, CheckLoop, NextCampaign, Over, vars, dirs
  <2>2. CASE CreateTestFile
    BY <2>2 DEF CreateTestFile, CampaignInv, TypeOK
  <2>3. CASE DeleteTestFile
    BY <2>3 DEF DeleteTestFile, ToDelete, Goto, CampaignInv, TypeOK, Own, Early
  <2> QED
    BY <2>1, <2>2, <2>3
<1> QED
  BY <1>1, CampaignInvariant, PTL DEF Spec, SparesFound
=============================================================================
