------------------------------ MODULE HarePipe ------------------------------
(***************************************************************************)
(* The pipe between the harness and its daemon: make_pipes() and           *)
(* add_flags_to_fd(), the write before the fork, the copies of the         *)
(* descriptors that fork() makes, the daemon's loop over read_a_pipe() and *)
(* getINotifyData(), and the closing of the descriptors.  Either process   *)
(* may be killed, and any call may fail.                                   *)
(*                                                                         *)
(* A byte of the message is its position.  A name that opens is shorter    *)
(* than PATH_MAX, which is PIPE_BUF: write() puts all of it or nothing.    *)
(***************************************************************************)
EXTENDS Integers, Sequences

CONSTANTS
    PIPE_BUFF_SIZE, \* size of the local buffer of read_a_pipe(): 2048
    MaxMessage      \* bound on the length of the message: PIPE_BUF

ASSUME PipeAssumption == PIPE_BUFF_SIZE \in Nat \ {0} /\ MaxMessage \in Nat \ {0}

Proc == {"harness", "daemon"}
End == {"PIPE_READ", "PIPE_WRITE"}

VARIABLES
    total_size, \* length of the message
    pc,         \* of the harness
    dpc,        \* of the daemon
    pipe_fds,   \* each process' variable: whether a descriptor is not INVALID_FD
    holders,    \* the kernel's: the processes that have an end open
    nonblock,   \* the kernel's: O_NONBLOCK of each end, shared by the processes
    pipe,       \* the bytes in the pipe
    local_buff, \* the buffer of read_a_pipe(), its length is read_count
    message,    \* config->inotify_message
    errnum      \* what getINotifyData() returns

vars == <<total_size, pc, dpc, pipe_fds, holders, nonblock, pipe,
          local_buff, message, errnum>>

harnessVars == <<total_size, pc>>
kernelVars == <<holders, nonblock, pipe>>
daemonVars == <<dpc, local_buff, message, errnum>>

\* The bytes of the harness' message.
Written == [i \in 1..total_size |-> i]

Init ==
    /\ total_size \in 1..MaxMessage
    /\ pc = "make"
    /\ dpc = "none"
    /\ pipe_fds = [p \in Proc |-> [e \in End |-> FALSE]]
    /\ holders = [e \in End |-> {}]
    /\ nonblock = [e \in End |-> FALSE]
    /\ pipe = <<>>
    /\ local_buff = <<>>
    /\ message = <<>>
    /\ errnum = "ENOERR"

-----------------------------------------------------------------------------
(* The harness.                                                            *)

\* pipe(): without _GNU_SOURCE the flags are added afterwards.
MakePipes ==
    /\ pc = "make"
    /\ \/ /\ pc' = "flag_read"
          /\ pipe_fds' = [pipe_fds EXCEPT !["harness"] = [e \in End |-> TRUE]]
          /\ holders' = [e \in End |-> {"harness"}]
       \/ /\ pc' = "clean"
          /\ UNCHANGED <<pipe_fds, holders>>
    /\ UNCHANGED <<total_size, nonblock, pipe, daemonVars>>

\* Variant: the flags always go to the write end.
AddFlagsToFdSwapped(e, from, to) ==
    /\ pc = from
    /\ \/ /\ pc' = to
          /\ nonblock' = [nonblock EXCEPT !["PIPE_WRITE"] = TRUE]
       \/ /\ pc' = "clean"
          /\ UNCHANGED nonblock
    /\ UNCHANGED <<total_size, pipe_fds, holders, pipe, daemonVars>>

\* add_flags_to_fd() with O_NONBLOCK: fcntl() may fail.
AddFlagsToFd(e, from, to) ==
    /\ pc = from
    /\ \/ /\ pc' = to
          /\ nonblock' = [nonblock EXCEPT ![e] = TRUE]
       \/ /\ pc' = "clean"
          /\ UNCHANGED nonblock
    /\ UNCHANGED <<total_size, pipe_fds, holders, pipe, daemonVars>>

\* Variant: the variable is overwritten first, and then there is nothing to close.
CleanUpForgetting ==
    /\ pc = "clean"
    /\ pc' = "failed"
    /\ pipe_fds' = [pipe_fds EXCEPT !["harness"] = [e \in End |-> FALSE]]
    /\ UNCHANGED <<total_size, kernelVars, daemonVars>>

\* The end of make_pipes() after an error: whatever is open is closed.
CleanUp ==
    /\ pc = "clean"
    /\ pc' = "failed"
    /\ holders' = [e \in End |-> IF pipe_fds["harness"][e]
                                   THEN holders[e] \ {"harness"} ELSE holders[e]]
    /\ pipe_fds' = [pipe_fds EXCEPT !["harness"] = [e \in End |-> FALSE]]
    /\ UNCHANGED <<total_size, nonblock, pipe, daemonVars>>

\* write_a_pipe(): after an error main() ends without closing anything.
WriteAPipe ==
    /\ pc = "tell"
    /\ \/ /\ pc' = "fork"
          /\ pipe' = pipe \o Written
       \/ /\ pc' = "exit"
          /\ UNCHANGED pipe
    /\ UNCHANGED <<total_size, pipe_fds, holders, nonblock, daemonVars>>

\* fork() copies the variable and the descriptors; the open ends are shared.
Fork ==
    /\ pc = "fork"
    /\ pc' = "wait"
    /\ dpc' = "read"
    /\ holders' = [e \in End |-> holders[e] \cup {"daemon"}]
    /\ pipe_fds' = [pipe_fds EXCEPT !["daemon"] = pipe_fds["harness"]]
    /\ UNCHANGED <<total_size, nonblock, pipe, local_buff, message, errnum>>

\* wait_daemon() returns when the daemon has ended, or on an error at once.
WaitDaemon ==
    /\ pc = "wait"
    /\ pc' = "close"
    /\ UNCHANGED <<total_size, pipe_fds, kernelVars, daemonVars>>

\* Parent cleanup.
ClosePipes ==
    /\ pc = "close"
    /\ pc' = "exit"
    /\ holders' = [e \in End |-> IF pipe_fds["harness"][e]
                                   THEN holders[e] \ {"harness"} ELSE holders[e]]
    /\ pipe_fds' = [pipe_fds EXCEPT !["harness"] = [e \in End |-> FALSE]]
    /\ UNCHANGED <<total_size, nonblock, pipe, daemonVars>>

\* The process ends, by itself or killed, and the kernel closes the rest.
ExitHarness ==
    /\ pc # "gone"
    /\ pc' = "gone"
    /\ holders' = [e \in End |-> holders[e] \ {"harness"}]
    /\ UNCHANGED <<total_size, pipe_fds, nonblock, pipe, daemonVars>>

-----------------------------------------------------------------------------
(* The daemon.                                                             *)

\* Variant: one byte more than the buffer has room for.
ReadAByteBeyond ==
    /\ dpc = "read"
    /\ Len(local_buff) <= PIPE_BUFF_SIZE
    /\ pipe # <<>>
    /\ local_buff' = Append(local_buff, Head(pipe))
    /\ pipe' = Tail(pipe)
    /\ UNCHANGED <<harnessVars, pipe_fds, holders, nonblock, dpc, message, errnum>>

\* One byte at a time, as long as the local buffer has room.
ReadAByte ==
    /\ dpc = "read"
    /\ Len(local_buff) < PIPE_BUFF_SIZE
    /\ pipe # <<>>
    /\ local_buff' = Append(local_buff, Head(pipe))
    /\ pipe' = Tail(pipe)
    /\ UNCHANGED <<harnessVars, pipe_fds, holders, nonblock, dpc, message, errnum>>

\* EAGAIN: no data yet, when execute_order() sleeps and tries again, or the end
\* of the message.  Without O_NONBLOCK the daemon would stay in read().
ReadAgain ==
    /\ dpc = "read"
    /\ Len(local_buff) < PIPE_BUFF_SIZE
    /\ pipe = <<>> /\ holders["PIPE_WRITE"] # {} /\ nonblock["PIPE_READ"]
    /\ dpc' = IF local_buff = <<>> THEN "read" ELSE "copy"
    /\ UNCHANGED <<harnessVars, pipe_fds, kernelVars, local_buff, message, errnum>>

\* The loop ends at a full buffer and at the end of file.
ReadEnds ==
    /\ dpc = "read"
    /\ \/ Len(local_buff) >= PIPE_BUFF_SIZE
       \/ pipe = <<>> /\ holders["PIPE_WRITE"] = {}
    /\ dpc' = "copy"
    /\ UNCHANGED <<harnessVars, pipe_fds, kernelVars, local_buff, message, errnum>>

\* The copy, and what getINotifyData() makes of it.
CopyData ==
    /\ dpc = "copy"
    /\ dpc' = "over"
    /\ \/ errnum' = "ENOMEM" /\ UNCHANGED message
       \/ local_buff = <<>> /\ errnum' = "ENODATA" /\ UNCHANGED message
       \/ local_buff # <<>> /\ message' = local_buff /\ UNCHANGED errnum
    /\ UNCHANGED <<harnessVars, pipe_fds, kernelVars, local_buff>>

\* The daemon ends, by itself or killed, and the kernel closes its ends.
ExitDaemon ==
    /\ dpc \notin {"none", "gone"}
    /\ dpc' = "gone"
    /\ holders' = [e \in End |-> holders[e] \ {"daemon"}]
    /\ UNCHANGED <<harnessVars, pipe_fds, nonblock, pipe, local_buff, message, errnum>>

Harness ==
    \/ MakePipes
    \/ AddFlagsToFd("PIPE_READ", "flag_read", "flag_write")
    \/ AddFlagsToFd("PIPE_WRITE", "flag_write", "tell")
    \/ CleanUp \/ WriteAPipe \/ Fork \/ WaitDaemon \/ ClosePipes

Daemon == ReadAByte \/ ReadAgain \/ ReadEnds \/ CopyData

Done == pc = "gone" /\ dpc \in {"none", "gone"} /\ UNCHANGED vars

Next == Harness \/ Daemon \/ ExitHarness \/ ExitDaemon \/ Done

Spec == Init /\ [][Next]_vars

\* The daemon is scheduled as long as it lives.
FairSpec == Spec /\ WF_vars(Daemon)

-----------------------------------------------------------------------------
(* Properties.                                                             *)

TypeOK ==
    /\ total_size \in 1..MaxMessage
    /\ pc \in {"make", "flag_read", "flag_write", "clean", "tell", "fork", "wait",
               "close", "exit", "failed", "gone"}
    /\ dpc \in {"none", "read", "copy", "over", "gone"}
    /\ pipe_fds \in [Proc -> [End -> BOOLEAN]]
    /\ holders \in [End -> SUBSET Proc]
    /\ nonblock \in [End -> BOOLEAN]
    /\ pipe \in Seq(1..MaxMessage)
    /\ local_buff \in Seq(1..MaxMessage)
    /\ message \in Seq(1..MaxMessage)
    /\ errnum \in {"ENOERR", "ENODATA", "ENOMEM"}

\* How much of the message one call of read_a_pipe() returns.
Received == IF total_size < PIPE_BUFF_SIZE THEN total_size ELSE PIPE_BUFF_SIZE

\* What the daemon gets is the message, cut to the size of the buffer: as
\* main() writes before it forks, no read comes too early or in between, and
\* as the daemon holds a write end of its own, no death of the harness makes
\* it end without data.
MessageArrives ==
    /\ errnum # "ENODATA"
    /\ dpc = "over" /\ errnum = "ENOERR" => message = SubSeq(Written, 1, Received)

\* A process' variable says what the kernel knows, so that no descriptor of a
\* living process is lost or closed twice; a failed make_pipes() leaves none.
DescriptorsAgree ==
    /\ pc # "gone" => \A e \in End : pipe_fds["harness"][e] <=> "harness" \in holders[e]
    /\ dpc \notin {"none", "gone"} =>
          \A e \in End : pipe_fds["daemon"][e] <=> "daemon" \in holders[e]
    /\ pc = "failed" => \A e \in End : "harness" \notin holders[e]

\* The daemon does not wait for ever, whoever dies: it gets the message, runs
\* out of memory or is killed.
DaemonGetsMessage == dpc = "read" ~> dpc \in {"over", "gone"}
-----------------------------------------------------------------------------
(* The inductive invariant.                                                *)

BeforeFork == {"make", "flag_read", "flag_write", "clean", "failed", "tell", "fork"}

\* The ends of the pipe and the message, up to the fork.
Prepared ==
    /\ pc \in BeforeFork => dpc = "none"
    /\ pc \in {"make", "failed"} => \A e \in End : holders[e] = {}
    /\ pc \in {"make", "flag_read", "flag_write", "clean", "tell"} => pipe = <<>>
    /\ pc \in {"flag_read", "flag_write", "tell", "fork"} =>
          \A e \in End : pipe_fds["harness"][e]
    /\ pc = "fork" => pipe = Written

\* What the daemon has read and what is left in the pipe make up the message;
\* its own write end keeps it from an end of file.
Reading ==
    /\ dpc = "none" =>
          /\ local_buff = <<>> /\ message = <<>> /\ errnum = "ENOERR"
          /\ \A e \in End : "daemon" \notin holders[e]
    /\ dpc \in {"read", "copy"} =>
          /\ errnum = "ENOERR"
          /\ \A e \in End : pipe_fds["daemon"][e]
          /\ Len(local_buff) + Len(pipe) = total_size
          /\ Len(local_buff) <= PIPE_BUFF_SIZE
          /\ \A i \in 1..Len(local_buff) : local_buff[i] = i
          /\ \A i \in 1..Len(pipe) : pipe[i] = Len(local_buff) + i
    /\ dpc = "copy" => Len(local_buff) = Received

\* The invariant relates the buffer of the reader to what the writer wrote.
PipeInv ==
    /\ TypeOK
    /\ DescriptorsAgree
    /\ Prepared
    /\ Reading
    /\ MessageArrives
=============================================================================
