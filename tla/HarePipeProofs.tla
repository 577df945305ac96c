--------------------------- MODULE HarePipeProofs ---------------------------
(***************************************************************************)
(* Proofs about HarePipe for every size of the buffer and every length of  *)
(* the message: the daemon gets the message cut to the buffer, and the     *)
(* variables of the processes agree with the kernel about the descriptors. *)
(***************************************************************************)
EXTENDS HarePipe, TLAPS

\* The initial states satisfy the invariant.
LEMMA InitPipe == Init => PipeInv
<1> SUFFICES ASSUME Init PROVE PipeInv
  OBVIOUS
<1> USE PipeAssumption DEF Init
<1>1. TypeOK
  BY DEF TypeOK, Proc, End
<1>2. DescriptorsAgree
  BY DEF DescriptorsAgree, Proc, End
<1> QED
  BY <1>1, <1>2 DEF PipeInv, Prepared, Reading, MessageArrives

\* The steps of the harness up to the write: the daemon is not there yet.
LEMMA MakeSteps ==
    ASSUME PipeInv,
           \/ MakePipes
           \/ AddFlagsToFd("PIPE_READ", "flag_read", "flag_write")
           \/ AddFlagsToFd("PIPE_WRITE", "flag_write", "tell")
           \/ CleanUp
    PROVE  PipeInv'
<1> USE PipeAssumption DEF PipeInv
<1>1. /\ pc \in {"make", "flag_read", "flag_write", "clean"}
      /\ pc' \in {"flag_read", "flag_write", "tell", "clean", "failed"}
      /\ UNCHANGED <<total_size, pipe, dpc, local_buff, message, errnum>>
  BY DEF MakePipes, AddFlagsToFd, CleanUp, daemonVars
<1>2. dpc = "none" /\ pipe = <<>>
  BY <1>1 DEF Prepared, BeforeFork
<1>3. CASE MakePipes
  <2>1. /\ pipe_fds' \in [Proc -> [End -> BOOLEAN]]
        /\ holders' \in [End -> SUBSET Proc]
    <3>1. [e \in End |-> TRUE] \in [End -> BOOLEAN]
      OBVIOUS
    <3>2. [e \in End |-> {"harness"}] \in [End -> SUBSET Proc]
      BY DEF Proc
    <3>3. pipe_fds \in [Proc -> [End -> BOOLEAN]] /\ holders \in [End -> SUBSET Proc]
      BY DEF TypeOK
    <3> QED
      BY <1>3, <3>1, <3>2, <3>3 DEF MakePipes
  <2>2. TypeOK'
    BY <1>1, <1>3, <2>1 DEF MakePipes, TypeOK
  <2>3. DescriptorsAgree' /\ Prepared'
    BY <1>1, <1>2, <1>3
    DEF MakePipes, DescriptorsAgree, Prepared, BeforeFork, TypeOK, Proc, End
  <2>4. Reading'
    BY <1>1, <1>2, <1>3 DEF MakePipes, Reading, End
  <2> QED
    BY <1>1, <1>2, <2>2, <2>3, <2>4 DEF MessageArrives, Reading
<1>4. CASE \/ AddFlagsToFd("PIPE_READ", "flag_read", "flag_write")
           \/ AddFlagsToFd("PIPE_WRITE", "flag_write", "tell")
  <2>1. nonblock' \in [End -> BOOLEAN] /\ UNCHANGED <<pipe_fds, holders>>
    BY <1>4 DEF AddFlagsToFd, TypeOK, End
  <2>2. TypeOK'
    BY <1>1, <2>1 DEF TypeOK
  <2>3. DescriptorsAgree' /\ Prepared'
    BY <1>1, <1>2, <1>4, <2>1
    DEF AddFlagsToFd, DescriptorsAgree, Prepared, BeforeFork
  <2>4. Reading'
    BY <1>1, <1>2, <2>1 DEF Reading
  <2> QED
    BY <1>1, <1>2, <2>2, <2>3, <2>4 DEF MessageArrives, Reading
<1>5. CASE CleanUp
  <2>1. /\ pc' = "failed"
        /\ holders' = [e \in End |-> IF pipe_fds["harness"][e]
                                       THEN holders[e] \ {"harness"} ELSE holders[e]]
        /\ pipe_fds' = [pipe_fds EXCEPT !["harness"] = [e \in End |-> FALSE]]
        /\ UNCHANGED nonblock
    BY <1>5 DEF CleanUp
  <2>2. /\ pipe_fds' \in [Proc -> [End -> BOOLEAN]]
        /\ holders' \in [End -> SUBSET Proc]
    BY <2>1 DEF TypeOK
  <2>3. TypeOK'
    BY <1>1, <2>1, <2>2 DEF TypeOK
  <2>4. \A e \in End : holders[e] \subseteq {"harness"}
    BY <1>2 DEF Reading, TypeOK, Proc
  <2>5. \A e \in End : holders'[e] = {}
    BY <1>1, <2>1, <2>4 DEF DescriptorsAgree
  <2>6. \A e \in End : ~pipe_fds'["harness"][e]
    BY <2>1 DEF TypeOK, Proc
  <2>7. DescriptorsAgree' /\ Prepared'
    BY <1>1, <1>2, <2>1, <2>5, <2>6 DEF DescriptorsAgree, Prepared, BeforeFork
  <2>8. Reading'
    BY <1>1, <1>2, <2>5 DEF Reading
  <2> QED
    BY <1>1, <1>2, <2>3, <2>7, <2>8 DEF MessageArrives, Reading
<1> QED
  BY <1>3, <1>4, <1>5

\* The message is written before the fork, which hands over both ends.
LEMMA TellSteps ==
    ASSUME PipeInv, WriteAPipe \/ Fork
    PROVE  PipeInv'
<1> USE PipeAssumption DEF PipeInv
<1>1. CASE WriteAPipe
  <2>1. /\ pc = "tell" /\ dpc = "none" /\ pipe = <<>>
        /\ \/ pc' = "fork" /\ pipe' = pipe \o Written
           \/ pc' = "exit" /\ pipe' = pipe
        /\ UNCHANGED <<total_size, pipe_fds, holders, nonblock, dpc, local_buff,
                       message, errnum>>
    BY <1>1 DEF WriteAPipe, Prepared, BeforeFork, daemonVars
  <2>2. Written \in Seq(1..MaxMessage)
    BY DEF Written, TypeOK
  <2>3. pipe \o Written = Written
    BY <2>1, <2>2
  <2>4. TypeOK'
    BY <2>1, <2>2, <2>3 DEF TypeOK
  <2>5. Written' = Written
    BY <2>1 DEF Written
  <2>6. Prepared'
    BY <2>1, <2>3, <2>5 DEF Prepared, BeforeFork
  <2> QED
    BY <2>1, <2>4, <2>6 DEF DescriptorsAgree, Reading, MessageArrives
<1>2. CASE Fork
  <2>1. /\ pc = "fork" /\ dpc = "none" /\ pipe = Written /\ pc' = "wait" /\ dpc' = "read"
        /\ holders' = [e \in End |-> holders[e] \cup {"daemon"}]
        /\ pipe_fds' = [pipe_fds EXCEPT !["daemon"] = pipe_fds["harness"]]
        /\ UNCHANGED <<total_size, nonblock, pipe, local_buff, message, errnum>>
    BY <1>2 DEF Fork, Prepared, BeforeFork
  <2>2. /\ pipe_fds' \in [Proc -> [End -> BOOLEAN]]
        /\ holders' \in [End -> SUBSET Proc]
    BY <2>1 DEF TypeOK, Proc
  <2>3. TypeOK'
    BY <2>1, <2>2 DEF TypeOK
  <2>4. /\ pipe_fds'["harness"] = pipe_fds["harness"]
        /\ pipe_fds'["daemon"] = pipe_fds["harness"]
    BY <2>1 DEF TypeOK, Proc
  <2>5. \A e \in End : pipe_fds["harness"][e] /\ "harness" \in holders[e]
    BY <2>1 DEF Prepared, DescriptorsAgree
  <2>6. DescriptorsAgree'
    BY <2>1, <2>4, <2>5 DEF DescriptorsAgree
  <2>7. Prepared'
    BY <2>1 DEF Prepared, BeforeFork
  <2>8. /\ local_buff = <<>> /\ message = <<>> /\ errnum = "ENOERR"
        /\ Len(pipe) = total_size /\ \A i \in 1..Len(pipe) : pipe[i] = i
    BY <2>1 DEF Reading, Written, TypeOK
  <2>9. Reading'
    BY <2>1, <2>4, <2>5, <2>8 DEF Reading, TypeOK
  <2> QED
    BY <2>1, <2>3, <2>6, <2>7, <2>8, <2>9 DEF MessageArrives
<1> QED
  BY <1>1, <1>2

\* The end of the harness leaves the daemon's ends alone.
LEMMA EndSteps ==
    ASSUME PipeInv, WaitDaemon \/ ClosePipes \/ ExitHarness
    PROVE  PipeInv'
<1> USE PipeAssumption DEF PipeInv
<1>1. CASE WaitDaemon
  <2>1. TypeOK'
    BY <1>1 DEF WaitDaemon, kernelVars, daemonVars, TypeOK
  <2> QED
    BY <1>1, <2>1 DEF WaitDaemon, kernelVars, daemonVars, DescriptorsAgree, Prepared,
                      BeforeFork, Reading, MessageArrives, Received, Written
<1>2. CASE ClosePipes
  <2>1. /\ pc = "close" /\ pc' = "exit"
        /\ holders' = [e \in End |-> IF pipe_fds["harness"][e]
                                       THEN holders[e] \ {"harness"} ELSE holders[e]]
        /\ pipe_fds' = [pipe_fds EXCEPT !["harness"] = [e \in End |-> FALSE]]
        /\ UNCHANGED <<total_size, nonblock, pipe, dpc, local_buff, message, errnum>>
    BY <1>2 DEF ClosePipes, daemonVars
  <2>2. /\ pipe_fds' \in [Proc -> [End -> BOOLEAN]]
        /\ holders' \in [End -> SUBSET Proc]
    BY <2>1 DEF TypeOK
  <2>3. TypeOK'
    BY <2>1, <2>2 DEF TypeOK
  <2>4. pipe_fds'["daemon"] = pipe_fds["daemon"]
    BY <2>1 DEF TypeOK, Proc
  <2>5. \A e \in End : ~pipe_fds'["harness"][e]
    BY <2>1 DEF TypeOK, Proc
  <2>6. \A e \in End : /\ "harness" \notin holders'[e]
                       /\ "daemon" \in holders'[e] <=> "daemon" \in holders[e]
    BY <2>1 DEF DescriptorsAgree
  <2>7. DescriptorsAgree'
    BY <2>1, <2>4, <2>5, <2>6 DEF DescriptorsAgree
  <2> QED
    BY <2>1, <2>3, <2>4, <2>6, <2>7 DEF Prepared, BeforeFork, Reading, MessageArrives,
                                        Received, Written
<1>3. CASE ExitHarness
  <2>1. /\ pc' = "gone"
        /\ holders' = [e \in End |-> holders[e] \ {"harness"}]
        /\ UNCHANGED <<total_size, pipe_fds, nonblock, pipe, dpc, local_buff, message,
                       errnum>>
    BY <1>3 DEF ExitHarness, daemonVars
  <2>2. TypeOK'
    BY <2>1 DEF TypeOK
  <2>3. \A e \in End : "daemon" \in holders'[e] <=> "daemon" \in holders[e]
    BY <2>1
  <2> QED
    BY <2>1, <2>2, <2>3 DEF DescriptorsAgree, Prepared, BeforeFork, Reading,
                            MessageArrives, Received, Written
<1> QED
  BY <1>1, <1>2, <1>3

\* One byte moves from the pipe to the buffer.
LEMMA ReadAByteStep ==
    ASSUME PipeInv, ReadAByte
    PROVE  PipeInv'
<1> USE PipeAssumption DEF PipeInv
<1>1. /\ dpc = "read" /\ Len(local_buff) < PIPE_BUFF_SIZE /\ pipe # <<>>
      /\ local_buff' = Append(local_buff, Head(pipe)) /\ pipe' = Tail(pipe)
      /\ UNCHANGED <<total_size, pc, pipe_fds, holders, nonblock, dpc, message, errnum>>
  BY DEF ReadAByte, harnessVars
<1>2. pipe \in Seq(1..MaxMessage) /\ local_buff \in Seq(1..MaxMessage)
  BY DEF TypeOK
<1>3. /\ Len(pipe') = Len(pipe) - 1
      /\ \A i \in 1..Len(pipe') : pipe'[i] = pipe[i + 1]
      /\ pipe' \in Seq(1..MaxMessage)
  BY <1>1, <1>2
<1>4. Head(pipe) = pipe[1] /\ Len(pipe) >= 1
  BY <1>1, <1>2
<1>5. /\ Len(local_buff') = Len(local_buff) + 1
      /\ \A i \in 1..Len(local_buff) : local_buff'[i] = local_buff[i]
      /\ local_buff'[Len(local_buff) + 1] = pipe[1]
      /\ local_buff' \in Seq(1..MaxMessage)
  BY <1>1, <1>2, <1>4
<1>6. TypeOK'
  BY <1>1, <1>3, <1>5 DEF TypeOK
<1>7. Reading'
  <2>1. Len(local_buff) + Len(pipe) = total_size /\ Len(local_buff) \in Nat
        /\ Len(pipe) \in Nat /\ total_size \in Nat
    BY <1>1, <1>2 DEF Reading, TypeOK
  <2>2. pipe[1] = Len(local_buff) + 1
    BY <1>1, <1>4, <2>1 DEF Reading
  <2>3. \A i \in 1..Len(local_buff') : local_buff'[i] = i
    BY <1>1, <1>5, <2>1, <2>2 DEF Reading
  <2>4. \A i \in 1..Len(pipe') : pipe'[i] = Len(local_buff') + i
    <3> SUFFICES ASSUME NEW i \in 1..Len(pipe')
                 PROVE  pipe'[i] = Len(local_buff') + i
      OBVIOUS
    <3>1. i + 1 \in 1..Len(pipe)
      BY <1>3, <2>1
    <3>2. pipe[i + 1] = Len(local_buff) + (i + 1)
      BY <1>1, <3>1 DEF Reading
    <3> QED
      BY <1>3, <1>5, <2>1, <3>2
  <2>5. Len(local_buff') + Len(pipe') = total_size
    <3>1. Len(local_buff') = Len(local_buff) + 1 /\ Len(pipe') = Len(pipe) - 1
      BY <1>3, <1>5
    <3> QED
      BY <2>1, <3>1
  <2>6. Len(local_buff') <= PIPE_BUFF_SIZE
    <3>1. Len(local_buff') = Len(local_buff) + 1
      BY <1>5
    <3>2. PIPE_BUFF_SIZE \in Nat /\ Len(local_buff) < PIPE_BUFF_SIZE
      BY <1>1
    <3> QED
      BY <2>1, <3>1, <3>2
  <2> QED
    BY <1>1, <2>3, <2>4, <2>5, <2>6 DEF Reading
<1>8. pc \notin BeforeFork
  BY <1>1 DEF Prepared
<1>9. DescriptorsAgree' /\ Prepared' /\ MessageArrives'
  BY <1>1, <1>8 DEF DescriptorsAgree, Prepared, BeforeFork, MessageArrives, Reading
<1> QED
  BY <1>6, <1>7, <1>9

\* The loop ends: with the whole message, or with a full buffer.
LEMMA LoopSteps ==
    ASSUME PipeInv, ReadAgain \/ ReadEnds
    PROVE  PipeInv'
<1> USE PipeAssumption DEF PipeInv
<1>1. /\ dpc = "read" /\ dpc' \in {"read", "copy"}
      /\ UNCHANGED <<total_size, pc, pipe_fds, holders, nonblock, pipe, local_buff,
                     message, errnum>>
  BY DEF ReadAgain, ReadEnds, harnessVars, kernelVars
<1>2. TypeOK'
  BY <1>1 DEF TypeOK
<1>3. "daemon" \in holders["PIPE_WRITE"]
  BY <1>1 DEF Reading, DescriptorsAgree, End
<1>4. pipe = <<>> \/ Len(local_buff) >= PIPE_BUFF_SIZE
  BY <1>3 DEF ReadAgain, ReadEnds
<1>5. /\ Len(local_buff) \in Nat /\ Len(pipe) \in Nat /\ total_size \in Nat
      /\ pipe = <<>> => Len(pipe) = 0
  BY DEF TypeOK
<1>6. Len(local_buff) = Received
  BY <1>1, <1>4, <1>5 DEF Reading, Received
<1>7. Received' = Received
  BY <1>1 DEF Received
<1>8. Reading'
  BY <1>1, <1>6, <1>7 DEF Reading
<1>9. pc \notin BeforeFork
  BY <1>1 DEF Prepared
<1> QED
  BY <1>1, <1>2, <1>8, <1>9 DEF DescriptorsAgree, Prepared, BeforeFork, MessageArrives,
                               Reading

\* What getINotifyData() hands over is the message, up to the buffer's size.
LEMMA CopyStep ==
    ASSUME PipeInv, CopyData
    PROVE  PipeInv'
<1> USE PipeAssumption DEF PipeInv
<1>1. /\ dpc = "copy" /\ dpc' = "over"
      /\ UNCHANGED <<total_size, pc, pipe_fds, holders, nonblock, pipe, local_buff>>
  BY DEF CopyData, harnessVars, kernelVars
<1>2. /\ Len(local_buff) = Received /\ local_buff \in Seq(1..MaxMessage)
      /\ total_size \in 1..MaxMessage
      /\ \A i \in 1..Len(local_buff) : local_buff[i] = i
  BY <1>1 DEF Reading, TypeOK
<1>3. Received \in 1..total_size
  BY <1>2 DEF Received
<1>4. local_buff # <<>>
  BY <1>2, <1>3
<1>5. local_buff = SubSeq(Written, 1, Received)
  <2>1. /\ Written \in Seq(1..MaxMessage) /\ Len(Written) = total_size
        /\ \A i \in 1..total_size : Written[i] = i
    BY <1>2 DEF Written
  <2> QED
    BY <1>2, <1>3, <2>1
<1>6. \/ errnum' = "ENOMEM" /\ message' = message
      \/ errnum' = errnum /\ message' = local_buff
  BY <1>4 DEF CopyData
<1>7. TypeOK'
  BY <1>1, <1>2, <1>6 DEF TypeOK
<1>8. (Received = Received') /\ (Written = Written')
  BY <1>1 DEF Received, Written
<1>9. MessageArrives'
  BY <1>1, <1>5, <1>6, <1>8 DEF MessageArrives
<1>10. pc \notin BeforeFork
  BY <1>1 DEF Prepared
<1> QED
  BY <1>1, <1>7, <1>9, <1>10 DEF DescriptorsAgree, Prepared, BeforeFork, Reading

\* The daemon ends.
LEMMA ExitDaemonStep ==
    ASSUME PipeInv, ExitDaemon
    PROVE  PipeInv'
<1> USE PipeAssumption DEF PipeInv
<1>1. /\ dpc # "none" /\ dpc' = "gone"
      /\ holders' = [e \in End |-> holders[e] \ {"daemon"}]
      /\ UNCHANGED <<total_size, pc, pipe_fds, nonblock, pipe, local_buff, message, errnum>>
  BY DEF ExitDaemon, harnessVars
<1>2. TypeOK'
  BY <1>1 DEF TypeOK
<1>3. pc \notin BeforeFork
  BY <1>1 DEF Prepared
<1>4. \A e \in End : "harness" \in holders'[e] <=> "harness" \in holders[e]
  BY <1>1
<1> QED
  BY <1>1, <1>2, <1>3, <1>4 DEF DescriptorsAgree, Prepared, BeforeFork, Reading,
                               MessageArrives

\* Nothing moves.
LEMMA StutterPipe ==
    ASSUME PipeInv, UNCHANGED vars
    PROVE  PipeInv'
  BY DEF PipeInv, TypeOK, DescriptorsAgree, Prepared, Reading, MessageArrives, Received,
         Written, vars

\* The invariant of the pipe holds in every reachable state, for every size of
\* the buffer and length of the message.
THEOREM PipeInvariant == Spec => []PipeInv
<1>1. Init => PipeInv
  BY InitPipe
<1>2. PipeInv /\ [Next]_vars => PipeInv'
  <2> SUFFICES ASSUME PipeInv, [Next]_vars PROVE PipeInv'
    OBVIOUS
  <2>1. CASE \/ MakePipes
             \/ AddFlagsToFd("PIPE_READ", "flag_read", "flag_write")
             \/ AddFlagsToFd("PIPE_WRITE", "flag_write", "tell")
             \/ CleanUp
    BY <2>1, MakeSteps
  <2>2. CASE WriteAPipe \/ Fork
    BY <2>2, TellSteps
  <2>3. CASE WaitDaemon \/ ClosePipes \/ ExitHarness
    BY <2>3, EndSteps
  <2>4. CASE ReadAByte
    BY <2>4, ReadAByteStep
  <2>5. CASE ReadAgain \/ ReadEnds
    BY <2>5, LoopSteps
  <2>6. CASE CopyData
    BY <2>6, CopyStep
  <2>7. CASE ExitDaemon
    BY <2>7, ExitDaemonStep
  <2>8. CASE Done \/ UNCHANGED vars
    BY <2>8, StutterPipe DEF Done
  <2> QED
    BY <2>1, <2>2, <2>3, <2>4, <2>5, <2>6, <2>7, <2>8 DEF Next, Harness, Daemon
<1> QED
  BY <1>1, <1>2, PTL DEF Spec

\* The daemon gets the message, cut to the size of the buffer.
THEOREM DaemonReceives == Spec => []MessageArrives
<1>1. PipeInv => MessageArrives
  BY DEF PipeInv
<1> QED
  BY <1>1, PipeInvariant, PTL

\* The processes and the kernel agree about the descriptors.
THEOREM DescriptorsKnown == Spec => []DescriptorsAgree
<1>1. PipeInv => DescriptorsAgree
  BY DEF PipeInv
<1> QED
  BY <1>1, PipeInvariant, PTL

\* The descriptors, the pipe and the buffers keep their types.
THEOREM TypeCorrect == Spec => []TypeOK
<1>1. PipeInv => TypeOK
  BY DEF PipeInv
<1> QED
  BY <1>1, PipeInvariant, PTL
=============================================================================
