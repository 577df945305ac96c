---------------------------- MODULE HareHarness ----------------------------
(***************************************************************************)
(* The source08 test harness and the "lite Linux daemon" it forks.         *)
(*                                                                         *)
(* One harness is one execution of main() in source08_test_harness.c.      *)
(* Several of them may run side by side (AFL instances share the RAM       *)
(* disk) or one after another; both are interleavings here.  Each one      *)
(* creates a test case in the watch directory, writes its name into a      *)
(* pipe, forks a daemon that moves the file to the processed directory     *)
(* under a datetime stamp, waits for the daemon and deletes the file.      *)
(*                                                                         *)
(* What is shared is the file system: the two directories and the files    *)
(* in them.  A file is represented by the set of the harnesses that        *)
(* opened it, so {} is "no such file", and a file that two harnesses       *)
(* opened under one name (open() has neither O_EXCL nor O_TRUNC) carries   *)
(* both.                                                                   *)
(***************************************************************************)
EXTENDS Integers

CONSTANTS
    Harness,   \* the executions of the test harness
    Input,     \* the contents a test input file (argv[1]) can have
    Entry,     \* the names a file of the watch directory can have
    NoEntry,   \* stands for: no file has this name
    Leaf,      \* Leaf[i]: the entry that open(watched ++ i) creates, or NoEntry
    Told,      \* Told[i]: the entry the daemon finds under the name it reads
               \* from the pipe: NoEntry when that name was cut at
               \* PIPE_BUFF_SIZE, or is relative and the daemon has left for /
    Ends,      \* <<i, e>> \in Ends: _file_match() takes "<stamp>e" for a match
               \* of the base_filename i
    MaxClock,  \* bound on the seconds that pass in a behaviour
    Faults     \* what the environment may do wrong, see FaultKind

FaultKind ==
    {"setup",   \* the input, a sanitizer log, mkdir() or pipe() fails
     "create",  \* open(O_CREAT) fails for a name that could be opened
     "write",   \* write(), fsync() or close() of the test case fails
     "tell",    \* write_a_pipe() fails
     "user",    \* not run by root (checked by the "best" be_sure() only)
     "fork",    \* fork() fails
     "read",    \* read(), calloc() or time fails in the daemon
     "kill",    \* a signal ends the daemon
     "abort",   \* the sanitizer ends the daemon with exit status 1
     "stop",    \* a signal stops the daemon; another may continue it
     "stat",    \* stat() fails for a file or a directory that is there
     "move",    \* rename() fails in the daemon
     "search",  \* nftw(), or calloc() in its callback, fails
     "remove",  \* remove() fails for a file that is there
     "wait"}    \* waitpid() fails with ECHILD once the daemon is gone

ASSUME NoEntryAssumption == NoEntry \notin Entry
ASSUME LeafAssumption == Leaf \in [Input -> Entry \cup {NoEntry}]
ASSUME ToldAssumption ==
    /\ Told \in [Input -> Entry \cup {NoEntry}]
    /\ \A i \in Input : Told[i] \in {Leaf[i], NoEntry}
ASSUME EndsAssumption == Ends \subseteq Input \X Entry
ASSUME ClockAssumption == MaxClock \in Nat
ASSUME FaultsAssumption == Faults \subseteq FaultKind

Second == 0..MaxClock

\* The names of the processed directory: "<datetime stamp><entry>".
Stamped == [stamp : Second, entry : Entry]

NoFile == [stamp |-> 0, entry |-> NoEntry]

VARIABLES
    \* the harness, one entry per execution of main()
    input,       \* contents of the file argv[1] names
    pc,          \* what main() does next
    success,     \* main()'s return value: 0, or 1 for any other
    file_exists, \* main()'s file_exists
    daemon,      \* what be_sure() returned: 1 stands for a PID, -1, 0 not called
    pipe,        \* pipe_fds: "closed", or open and "empty" or "full"
    victim,      \* the processed file search_dir() found
    gave_up,     \* history: the directory of the test case that main() left
                 \* there because a call failed, or "no"
    \* its daemon
    dpc,         \* what the daemon does next, or how it ended
    dstamp,      \* the datetime stamp stamp_a_file() obtained
    stopped,     \* the daemon is stopped by a signal
    event,       \* the state change waitpid() has not reported yet
    \* the file system and the clock
    watch,       \* watch directory: the harnesses that opened each entry's file
    processed,   \* processed directory: the same for each stamped name
    watch_dir,   \* the watch directory exists
    process_dir, \* the processed directory exists
    clock        \* time(NULL), in seconds

mainVars == <<success, file_exists, daemon, pipe, victim, gave_up>>
daemonVars == <<dpc, dstamp, stopped, event>>
dirVars == <<watch_dir, process_dir>>
fileVars == <<watch, processed>>
envVars == <<input, clock>>

vars == <<envVars, pc, mainVars, daemonVars, dirVars, fileVars>>

-----------------------------------------------------------------------------
MainPC == {"read", "check_watch", "make_watch", "check_process",
           "make_process", "pipes", "open", "write", "edge_verify",
           "edge_remove", "tell", "sure", "wait", "verify", "remove",
           "search", "delete", "cleanup", "done"}

\* The daemon has terminated: it returned from main(), the sanitizer
\* exited for it, or a signal ended it.
Over == {"exited", "aborted", "killed"}

Working == {"poll", "haystack", "stamp_verify", "stamp_time", "move", "leave"}

Init ==
    /\ input \in [Harness -> Input]
    /\ pc = [h \in Harness |-> "read"]
    /\ success = [h \in Harness |-> 0]
    /\ file_exists = [h \in Harness |-> FALSE]
    /\ daemon = [h \in Harness |-> 0]
    /\ pipe = [h \in Harness |-> "closed"]
    /\ victim = [h \in Harness |-> NoFile]
    /\ gave_up = [h \in Harness |-> "no"]
    /\ dpc = [h \in Harness |-> "none"]
    /\ dstamp = [h \in Harness |-> 0]
    /\ stopped = [h \in Harness |-> FALSE]
    /\ event = [h \in Harness |-> "none"]
    /\ watch = [e \in Entry |-> {}]
    /\ processed = [f \in Stamped |-> {}]
    /\ watch_dir \in BOOLEAN
    /\ process_dir \in BOOLEAN
    /\ process_dir => watch_dir
    /\ clock = 0

Fault(k) == k \in Faults

\* main() moves on from one step to another.
Goto(h, from, to) ==
    /\ pc[h] = from
    /\ pc' = [pc EXCEPT ![h] = to]

\* main() records an error: every later step tests success, so it falls
\* through to the step named to.
Fail(h, from, to) ==
    /\ Goto(h, from, to)
    /\ success' = [success EXCEPT ![h] = 1]

-----------------------------------------------------------------------------
(* 1. and 2.: the test input and the environment.                          *)

\* prepend_test_input() and fill_sanitizer_logs().
ReadTestInput(h) ==
    /\ \/ /\ Goto(h, "read", "check_watch")
          /\ UNCHANGED success
       \/ Fault("setup") /\ Fail(h, "read", "cleanup")
    /\ UNCHANGED <<envVars, file_exists, daemon, pipe, victim, gave_up,
                   daemonVars, dirVars, fileVars>>

\* check_dir(watched): the answer may be stale when mkdir() is called, and a
\* failed stat() means "no such directory".
CheckWatchDir(h) ==
    /\ \/ watch_dir /\ Goto(h, "check_watch", "check_process")
       \/ (~watch_dir \/ Fault("stat")) /\ Goto(h, "check_watch", "make_watch")
    /\ UNCHANGED <<envVars, mainVars, daemonVars, dirVars, fileVars>>

\* mkdir(watched): EEXIST when another harness was faster.
MakeWatchDir(h) ==
    /\ \/ /\ ~watch_dir
          /\ Goto(h, "make_watch", "check_process")
          /\ watch_dir' = TRUE
          /\ UNCHANGED success
       \/ /\ watch_dir \/ Fault("setup")
          /\ Fail(h, "make_watch", "cleanup")
          /\ UNCHANGED watch_dir
    /\ UNCHANGED <<envVars, file_exists, daemon, pipe, victim, gave_up, daemonVars,
                   process_dir, fileVars>>

CheckProcessDir(h) ==
    /\ \/ process_dir /\ Goto(h, "check_process", "pipes")
       \/ (~process_dir \/ Fault("stat")) /\ Goto(h, "check_process", "make_process")
    /\ UNCHANGED <<envVars, mainVars, daemonVars, dirVars, fileVars>>

MakeProcessDir(h) ==
    /\ \/ /\ ~process_dir
          /\ Goto(h, "make_process", "pipes")
          /\ process_dir' = TRUE
          /\ UNCHANGED success
       \/ /\ process_dir \/ Fault("setup")
          /\ Fail(h, "make_process", "cleanup")
          /\ UNCHANGED process_dir
    /\ UNCHANGED <<envVars, file_exists, daemon, pipe, victim, gave_up, daemonVars,
                   watch_dir, fileVars>>

(* 3. The "hook".                                                          *)

\* prepare_log_dirs() and make_pipes(pipe_fds, O_NONBLOCK).
MakePipes(h) ==
    /\ \/ /\ Goto(h, "pipes", "open")
          /\ pipe' = [pipe EXCEPT ![h] = "empty"]
          /\ UNCHANGED success
       \/ /\ Fault("setup")
          /\ Fail(h, "pipes", "cleanup")
          /\ UNCHANGED pipe
    /\ UNCHANGED <<envVars, file_exists, daemon, victim, gave_up, daemonVars,
                   dirVars, fileVars>>

-----------------------------------------------------------------------------
(* 4. The test case.                                                       *)

\* open(test_filename, O_RDWR | O_CREAT): creates the file, or opens the
\* one another harness has created under the same name.
CreateTestFile(h) ==
    LET e == Leaf[input[h]] IN
    /\ \/ /\ e # NoEntry
          /\ Goto(h, "open", "write")
          /\ watch' = [watch EXCEPT ![e] = @ \cup {h}]
          /\ file_exists' = [file_exists EXCEPT ![h] = TRUE]
          /\ UNCHANGED success
       \/ /\ e = NoEntry \/ Fault("create")
          /\ Fail(h, "open", "cleanup")
          /\ UNCHANGED <<watch, file_exists>>
    /\ UNCHANGED <<envVars, daemon, pipe, victim, gave_up, daemonVars, dirVars,
                   processed>>

\* get_fuzzed_contents(), whose failure leaves the file empty and is only
\* logged, then write(), fsync() and close().
WriteTestFile(h) ==
    /\ \/ /\ Goto(h, "write", "tell")
          /\ UNCHANGED success
       \/ Fault("write") /\ Fail(h, "write", "edge_verify")
    /\ UNCHANGED <<envVars, file_exists, daemon, pipe, victim, gave_up, daemonVars,
                   dirVars, fileVars>>

\* h's test case, or what else has its name, is in the watch directory.
Exists(h) == watch[Leaf[input[h]]] # {}

\* main() goes on, after a failed call, without the file it has in dir.
GiveUp(h, dir) == gave_up' = [gave_up EXCEPT ![h] = dir]

\* The edge cases: the file was created but not written.
VerifyEdgeCase(h) ==
    /\ \/ Goto(h, "edge_verify", "edge_remove") /\ Exists(h) /\ UNCHANGED gave_up
       \/ Goto(h, "edge_verify", "cleanup") /\ ~Exists(h) /\ UNCHANGED gave_up
       \/ /\ Goto(h, "edge_verify", "cleanup")
          /\ Exists(h) /\ Fault("stat")
          /\ GiveUp(h, "watched")
    /\ UNCHANGED <<envVars, success, file_exists, daemon, pipe, victim,
                   daemonVars, dirVars, fileVars>>

\* remove(test_filename): whatever file has the name by now, or ENOENT.  A
\* failure is only logged, and the file stays.
RemoveTestCase(h, from) ==
    /\ Goto(h, from, "cleanup")
    /\ \/ /\ watch' = [watch EXCEPT ![Leaf[input[h]]] = {}]
          /\ UNCHANGED gave_up
       \/ /\ Exists(h) /\ Fault("remove")
          /\ GiveUp(h, "watched")
          /\ UNCHANGED watch
    /\ UNCHANGED <<envVars, success, file_exists, daemon, pipe, victim,
                   daemonVars, dirVars, processed>>

RemoveEdgeCase(h) == RemoveTestCase(h, "edge_remove")

\* Variant: an error of write_a_pipe() is logged but not kept in success.
TellDaemonIgnoringErrors(h) ==
    /\ Goto(h, "tell", "sure")
    /\ \/ pipe' = [pipe EXCEPT ![h] = "full"]
       \/ Fault("tell") /\ UNCHANGED pipe
    /\ UNCHANGED <<envVars, success, file_exists, daemon, victim, gave_up, daemonVars,
                   dirVars, fileVars>>

(* 5. Tell the daemon: its name goes into the pipe before the fork.        *)
(* Nothing removes the test case when this fails.                          *)
TellDaemon(h) ==
    /\ \/ /\ Goto(h, "tell", "sure")
          /\ pipe' = [pipe EXCEPT ![h] = "full"]
          /\ UNCHANGED <<success, gave_up>>
       \/ /\ Fault("tell")
          /\ Fail(h, "tell", "cleanup")
          /\ GiveUp(h, "watched")
          /\ UNCHANGED pipe
    /\ UNCHANGED <<envVars, file_exists, daemon, victim, daemonVars,
                   dirVars, fileVars>>

-----------------------------------------------------------------------------
(* 6. Start the daemon.                                                    *)

\* be_sure() and daemonize(): the child begins at execute_order().
ForkDaemon(h) ==
    /\ Goto(h, "sure", "wait")
    /\ daemon' = [daemon EXCEPT ![h] = 1]
    /\ dpc' = [dpc EXCEPT ![h] = "poll"]
    /\ UNCHANGED <<envVars, success, file_exists, pipe, victim, gave_up, dstamp,
                   stopped, event, dirVars, fileVars>>

\* Variant: main() does not compare be_sure()'s value with -1.
RefuseUserUnnoticed(h) ==
    /\ Fault("user")
    /\ Goto(h, "sure", "cleanup")
    /\ daemon' = [daemon EXCEPT ![h] = -1]
    /\ GiveUp(h, "watched")
    /\ UNCHANGED <<envVars, success, file_exists, pipe, victim, daemonVars,
                   dirVars, fileVars>>

\* The "best" be_sure() refuses to fork for anyone but root.
RefuseUser(h) ==
    /\ Fault("user")
    /\ Fail(h, "sure", "cleanup")
    /\ daemon' = [daemon EXCEPT ![h] = -1]
    /\ GiveUp(h, "watched")
    /\ UNCHANGED <<envVars, file_exists, pipe, victim, daemonVars, dirVars,
                   fileVars>>

\* daemonize() answers a failed fork() with exit(EXIT_FAILURE): main() does
\* not get control back.
ForkFails(h) ==
    /\ Fault("fork")
    /\ Fail(h, "sure", "done")
    /\ GiveUp(h, "watched")
    /\ UNCHANGED <<envVars, file_exists, daemon, pipe, victim, daemonVars, dirVars,
                   fileVars>>

(* 7. Test results.                                                        *)

\* Variant: waitpid() is called once instead of until WIFEXITED() or
\* WIFSIGNALED().
WaitDaemonOnce(h) ==
    /\ event[h] # "none"
    /\ Goto(h, "wait", "verify")
    /\ event' = [event EXCEPT ![h] = "none"]
    /\ success' = [success EXCEPT ![h] = IF dpc[h] = "aborted" THEN 1 ELSE 0]
    /\ UNCHANGED <<envVars, file_exists, daemon, pipe, victim, gave_up, dpc, dstamp,
                   stopped, dirVars, fileVars>>

\* wait_daemon(): stop and continue reports go round the loop.  A daemon
\* that was killed has no exit status: *daemon_exit stays 0.  The status is
\* copied to main()'s success.
WaitDaemon(h) ==
    /\ pc[h] = "wait"
    /\ event[h] # "none"
    /\ event' = [event EXCEPT ![h] = "none"]
    /\ IF event[h] = "ended"
         THEN /\ Goto(h, "wait", "verify")
              /\ success' = [success EXCEPT ![h] = IF dpc[h] = "aborted" THEN 1 ELSE 0]
         ELSE UNCHANGED <<pc, success>>
    /\ UNCHANGED <<envVars, file_exists, daemon, pipe, victim, gave_up, dpc, dstamp,
                   stopped, dirVars, fileVars>>

\* waitpid() fails with ECHILD when SIGCHLD is ignored: it does so only once
\* the daemon has terminated, and main() logs it and goes on.
WaitFails(h) ==
    /\ Fault("wait")
    /\ event[h] = "ended"
    /\ Goto(h, "wait", "verify")
    /\ event' = [event EXCEPT ![h] = "none"]
    /\ success' = [success EXCEPT ![h] = 0]
    /\ UNCHANGED <<envVars, file_exists, daemon, pipe, victim, gave_up, dpc, dstamp,
                   stopped, dirVars, fileVars>>

-----------------------------------------------------------------------------
(* 8. Delete files, and the parent's cleanup.                              *)

\* Variant: step 8 looks in the watch directory only.
VerifyTestFileOnly(h) ==
    /\ \/ Goto(h, "verify", "remove") /\ Exists(h)
       \/ Goto(h, "verify", "cleanup") /\ ~Exists(h)
    /\ UNCHANGED <<envVars, mainVars, daemonVars, dirVars, fileVars>>

\* verify_filename(test_filename): is it still in the watch directory?  A
\* failed stat() means that it is not.
VerifyTestFile(h) ==
    /\ \/ Goto(h, "verify", "remove") /\ Exists(h) /\ UNCHANGED gave_up
       \/ Goto(h, "verify", "search") /\ ~Exists(h) /\ UNCHANGED gave_up
       \/ /\ Goto(h, "verify", "search")
          /\ Exists(h) /\ Fault("stat")
          /\ GiveUp(h, "watched")
    /\ UNCHANGED <<envVars, success, file_exists, daemon, pipe, victim,
                   daemonVars, dirVars, fileVars>>

\* Variant: step 8 does not remove what it verified in the watch directory.
RemoveTestFileForgotten(h) ==
    /\ Goto(h, "remove", "cleanup")
    /\ UNCHANGED <<envVars, mainVars, daemonVars, dirVars, fileVars>>

RemoveTestFile(h) == RemoveTestCase(h, "remove")

\* Variant: a memcmp() over no bytes: every processed file matches.
MatchingAny(h) == {f \in Stamped : processed[f] # {}}

\* The processed files _file_match() accepts for h's base_filename.
Matching(h) ==
    {f \in Stamped : processed[f] # {} /\ <<input[h], f.entry>> \in Ends}

\* search_dir(): nftw() stops at the first match, in directory order.  When
\* it fails, or its callback does, there is no answer, as without a match.
SearchProcessed(h) ==
    /\ \/ /\ Matching(h) # {}
          /\ Goto(h, "search", "delete")
          /\ \E f \in Matching(h) : victim' = [victim EXCEPT ![h] = f]
          /\ UNCHANGED gave_up
       \/ /\ Matching(h) = {}
          /\ Goto(h, "search", "cleanup")
          /\ UNCHANGED <<victim, gave_up>>
       \/ /\ Matching(h) # {} /\ Fault("search")
          /\ Goto(h, "search", "cleanup")
          /\ GiveUp(h, "processed")
          /\ UNCHANGED victim
    /\ UNCHANGED <<envVars, success, file_exists, daemon, pipe, daemonVars,
                   dirVars, fileVars>>

\* delete_file() of the match: verify_filename() and remove(), whose failures
\* are only logged.
DeleteMatch(h) ==
    /\ Goto(h, "delete", "cleanup")
    /\ \/ /\ processed' = [processed EXCEPT ![victim[h]] = {}]
          /\ UNCHANGED gave_up
       \/ /\ processed[victim[h]] # {}
          /\ Fault("stat") \/ Fault("remove")
          /\ GiveUp(h, "processed")
          /\ UNCHANGED processed
    /\ UNCHANGED <<envVars, success, file_exists, daemon, pipe, victim,
                   daemonVars, dirVars, watch>>

\* The pipes are closed by a parent that forked; the others leave that to
\* their own exit.
Cleanup(h) ==
    /\ Goto(h, "cleanup", "done")
    /\ pipe' = [pipe EXCEPT ![h] = IF daemon[h] = 1 THEN "closed" ELSE @]
    /\ UNCHANGED <<envVars, success, file_exists, daemon, victim, gave_up, daemonVars,
                   dirVars, fileVars>>

Main(h) ==
    \/ ReadTestInput(h)   \/ CheckWatchDir(h)   \/ MakeWatchDir(h)
    \/ CheckProcessDir(h) \/ MakeProcessDir(h)  \/ MakePipes(h)
    \/ CreateTestFile(h)  \/ WriteTestFile(h)   \/ VerifyEdgeCase(h)
    \/ RemoveEdgeCase(h)  \/ TellDaemon(h)      \/ ForkDaemon(h)
    \/ RefuseUser(h)      \/ ForkFails(h)       \/ WaitDaemon(h)
    \/ WaitFails(h)       \/ VerifyTestFile(h)  \/ RemoveTestFile(h)
    \/ SearchProcessed(h) \/ DeleteMatch(h)     \/ Cleanup(h)

-----------------------------------------------------------------------------
(* The daemon.                                                             *)

DaemonStep(h, from, to) ==
    /\ ~stopped[h]
    /\ dpc[h] = from
    /\ dpc' = [dpc EXCEPT ![h] = to]

\* execute_order() and getINotifyData(): one message is taken.  An empty
\* non-blocking pipe is no error: the daemon sleeps and polls again.  It
\* holds the write end itself, so it never sees the end of the file.
GetINotifyData(h) ==
    /\ pipe[h] = "full"
    /\ DaemonStep(h, "poll", "haystack")
    /\ pipe' = [pipe EXCEPT ![h] = "empty"]
    /\ UNCHANGED <<envVars, pc, success, file_exists, daemon, victim, gave_up, dstamp,
                   stopped, event, dirVars, fileVars>>

\* Any error but EAGAIN ends the loop.
GetINotifyDataFails(h) ==
    /\ Fault("read")
    /\ DaemonStep(h, "poll", "leave")
    /\ UNCHANGED <<envVars, pc, mainVars, dstamp, stopped, event, dirVars,
                   fileVars>>

\* search_a_file(): read_file() changes nothing, but it is where the "bad"
\* library overruns its buffer (see EndDaemon).
SearchAFile(h) ==
    /\ DaemonStep(h, "haystack", "stamp_verify")
    /\ UNCHANGED <<envVars, pc, mainVars, dstamp, stopped, event, dirVars,
                   fileVars>>

\* The entry the daemon was told about, if there is such a file now.
Found(h) ==
    /\ Told[input[h]] # NoEntry
    /\ watch[Told[input[h]]] # {}

\* Variant: verify_directory(dest) is expected to return 0, as in move_file().
StampVerifyNoDirectory(h) ==
    /\ DaemonStep(h, "stamp_verify",
                  IF Found(h) /\ ~process_dir THEN "stamp_time" ELSE "leave")
    /\ UNCHANGED <<envVars, pc, mainVars, dstamp, stopped, event, dirVars,
                   fileVars>>

\* stamp_a_file(): verify_filename(source) and verify_directory(dest).
StampVerify(h) ==
    /\ \/ /\ Found(h) /\ process_dir
          /\ DaemonStep(h, "stamp_verify", "stamp_time")
       \/ /\ ~Found(h) \/ ~process_dir \/ Fault("stat")
          /\ DaemonStep(h, "stamp_verify", "leave")
    /\ UNCHANGED <<envVars, pc, mainVars, dstamp, stopped, event, dirVars,
                   fileVars>>

\* get_datetime_stamp() has a resolution of one second.  It may fail, and so
\* may the calloc() of the new name.
GetDatetimeStamp(h) ==
    /\ \/ /\ DaemonStep(h, "stamp_time", "move")
          /\ dstamp' = [dstamp EXCEPT ![h] = clock]
       \/ /\ Fault("read")
          /\ DaemonStep(h, "stamp_time", "leave")
          /\ UNCHANGED dstamp
    /\ UNCHANGED <<envVars, pc, mainVars, stopped, event, dirVars, fileVars>>

\* Variant: link() without unlink() instead of rename().
MoveFileLink(h) ==
    LET e == Told[input[h]]
        f == [stamp |-> dstamp[h], entry |-> e] IN
    /\ DaemonStep(h, "move", "leave")
    /\ IF Found(h)
         THEN processed' = [processed EXCEPT ![f] = watch[e]]
         ELSE UNCHANGED processed
    /\ UNCHANGED <<envVars, pc, mainVars, dstamp, stopped, event, dirVars, watch>>

\* move_file(): rename() replaces a file that has the stamped name already.
\* It may fail, and so may the verify_filename() before it.
MoveFile(h) ==
    LET e == Told[input[h]]
        f == [stamp |-> dstamp[h], entry |-> e] IN
    /\ DaemonStep(h, "move", "leave")
    /\ \/ /\ Found(h)
          /\ processed' = [processed EXCEPT ![f] = watch[e]]
          /\ watch' = [watch EXCEPT ![e] = {}]
       \/ /\ ~Found(h) \/ Fault("stat") \/ Fault("move")
          /\ UNCHANGED fileVars
    /\ UNCHANGED <<envVars, pc, mainVars, dstamp, stopped, event, dirVars>>

\* cleanupDaemon() and the child's own way through the rest of main(): with
\* daemon = 0 it skips the steps 7 and 8 and returns success = 0.
LeaveDaemon(h) ==
    /\ DaemonStep(h, "leave", "exited")
    /\ event' = [event EXCEPT ![h] = "ended"]
    /\ UNCHANGED <<envVars, pc, mainVars, dstamp, stopped, dirVars, fileVars>>

Daemon(h) ==
    \/ GetINotifyData(h) \/ SearchAFile(h) \/ StampVerify(h)
    \/ GetDatetimeStamp(h) \/ MoveFile(h) \/ LeaveDaemon(h)

-----------------------------------------------------------------------------
(* The environment.                                                        *)

\* The daemon ends before its time: a signal (SIGKILL, the SIGSEGV of an
\* overrun buffer) or a sanitizer report.  A sanitizer needs it to run.
EndDaemon(h) ==
    /\ dpc[h] \in Working
    /\ \/ Fault("kill") /\ dpc' = [dpc EXCEPT ![h] = "killed"]
       \/ Fault("abort") /\ ~stopped[h] /\ dpc' = [dpc EXCEPT ![h] = "aborted"]
    /\ stopped' = [stopped EXCEPT ![h] = FALSE]
    /\ event' = [event EXCEPT ![h] = "ended"]
    /\ UNCHANGED <<envVars, pc, mainVars, dstamp, dirVars, fileVars>>

StopDaemon(h) ==
    /\ Fault("stop")
    /\ dpc[h] \in Working
    /\ ~stopped[h]
    /\ stopped' = [stopped EXCEPT ![h] = TRUE]
    /\ event' = [event EXCEPT ![h] = "stopped"]
    /\ UNCHANGED <<envVars, pc, mainVars, dpc, dstamp, dirVars, fileVars>>

ContinueDaemon(h) ==
    /\ stopped[h]
    /\ stopped' = [stopped EXCEPT ![h] = FALSE]
    /\ event' = [event EXCEPT ![h] = "continued"]
    /\ UNCHANGED <<envVars, pc, mainVars, dpc, dstamp, dirVars, fileVars>>

\* What may happen to a daemon; nothing of it has to.
Environment(h) ==
    \/ EndDaemon(h) \/ StopDaemon(h) \/ ContinueDaemon(h)
    \/ GetINotifyDataFails(h)

Tick ==
    /\ clock < MaxClock
    /\ clock' = clock + 1
    /\ UNCHANGED <<input, pc, mainVars, daemonVars, dirVars, fileVars>>

\* Every execution has ended.
AllDone ==
    /\ \A h \in Harness : pc[h] = "done"
    /\ UNCHANGED vars

Next ==
    \/ \E h \in Harness :
          \/ Main(h)
          \/ Daemon(h)
          \/ Environment(h)
    \/ Tick
    \/ AllDone

Spec == Init /\ [][Next]_vars

\* The kernel schedules every process that can run: the harness and its
\* daemon.  Nobody has to continue a stopped daemon, and no fault or tick of
\* the clock has to happen.
Fairness == \A h \in Harness : WF_vars(Main(h)) /\ WF_vars(Daemon(h))

FairSpec == Spec /\ Fairness

-----------------------------------------------------------------------------
(* Properties.                                                             *)

TypeOK ==
    /\ input \in [Harness -> Input]
    /\ pc \in [Harness -> MainPC]
    /\ success \in [Harness -> {0, 1}]
    /\ file_exists \in [Harness -> BOOLEAN]
    /\ daemon \in [Harness -> {-1, 0, 1}]
    /\ pipe \in [Harness -> {"closed", "empty", "full"}]
    /\ victim \in [Harness -> Stamped \cup {NoFile}]
    /\ gave_up \in [Harness -> {"no", "watched", "processed"}]
    /\ dpc \in [Harness -> {"none"} \cup Working \cup Over]
    /\ dstamp \in [Harness -> Second]
    /\ stopped \in [Harness -> BOOLEAN]
    /\ event \in [Harness -> {"none", "stopped", "continued", "ended"}]
    /\ watch \in [Entry -> SUBSET Harness]
    /\ processed \in [Stamped -> SUBSET Harness]
    /\ watch_dir \in BOOLEAN
    /\ process_dir \in BOOLEAN
    /\ clock \in Second

InWatch(h) == \E e \in Entry : h \in watch[e]
InProcessed(h) == \E f \in Stamped : h \in processed[f]

\* The test case of h is still somewhere.
Present(h) == InWatch(h) \/ InProcessed(h)

\* g's name is neither h's nor one whose ending h would take for its own.
Apart(g, h) ==
    /\ Leaf[input[g]] # Leaf[input[h]]
    /\ <<input[h], Leaf[input[g]]>> \notin Ends

\* h finds its own processed file, and mixes it up with nobody else's.
Distinct(h) ==
    /\ <<input[h], Leaf[input[h]]>> \in Ends
    /\ \A g \in Harness \ {h} : Apart(g, h) /\ Apart(h, g)

\* A test case has one name at a time: the daemon's rename moves it, and
\* nothing a harness does makes a second copy.
OnePlace ==
    \A h \in Harness :
        /\ \A d, e \in Entry : h \in watch[d] /\ h \in watch[e] => d = e
        /\ \A f, g \in Stamped : h \in processed[f] /\ h \in processed[g] => f = g
        /\ ~(InWatch(h) /\ InProcessed(h))

\* What may keep step 8 from deleting the test case.
DeletionFaults == {"stat", "search", "remove"}

AfterWait == {"verify", "remove", "search", "delete", "cleanup", "done"}

\* main() looks for the file only when its daemon has terminated, whatever
\* stops and continues wait_daemon() was told of: a daemon that still ran
\* could move the file behind main()'s back.
DaemonOverFirst ==
    \A h \in Harness :
        daemon[h] = 1 /\ pc[h] \in AfterWait => dpc[h] \in Over

\* Step 8 of main(), and its edge cases: however the daemon ended and whatever
\* the other harnesses do, a test case with a distinct name stays behind when
\* main() could not be sure of the daemon, or one of the calls that are to
\* delete it failed, and in no other run; and it stays where that call was to
\* act, not where the daemon may have moved it since.
KeptOnlyByFailure ==
    \A h \in Harness :
        pc[h] = "done" /\ file_exists[h] /\ Distinct(h) =>
            /\ InWatch(h) <=> gave_up[h] = "watched"
            /\ InProcessed(h) <=> gave_up[h] = "processed"
            /\ daemon[h] = 1 /\ Present(h) => \E k \in DeletionFaults : Fault(k)

\* A test case with a distinct name disappears only in a step of its own
\* harness: no other remove(), rename() or delete_matching_file() takes it.
SparesOthers ==
    [][\A h \in Harness :
          Distinct(h) /\ Present(h) /\ ~Present(h)' => pc[h]' # pc[h]]_vars

\* What main()'s return value says of the run: 0 is never returned by a run
\* that did not get its daemon, and another value never by one whose daemon
\* did not fail.  A daemon that a signal ended counts as a success.
ExitStatus ==
    \A h \in Harness :
        pc[h] = "done" =>
            /\ success[h] = 0 =>
                  daemon[h] = 1 /\ (dpc[h] = "aborted" => Fault("wait"))
            /\ success[h] = 1 => daemon[h] # 1 \/ dpc[h] = "aborted"

\* Every execution ends, with any fault except a stopped daemon: in
\* particular no daemon polls an empty pipe for ever, because the name was
\* written before the fork.
Terminates == \A h \in Harness : <>(pc[h] = "done")

\* A daemon that was told about a distinct test case moves it to the processed
\* directory, and main() does not delete it first, unless the daemon is killed
\* or aborted: where no call of the daemon fails and nobody stops it.
GetsProcessed ==
    \A h \in Harness :
        (dpc[h] = "poll" /\ Distinct(h) /\ Told[input[h]] # NoEntry)
            ~> (InProcessed(h) \/ dpc[h] \in {"killed", "aborted"})

-----------------------------------------------------------------------------
(* The abstract specification this one implements.                         *)

StageOf(h) ==
    IF InWatch(h) THEN "watched"
    ELSE IF InProcessed(h) THEN "processed"
    ELSE IF file_exists[h] THEN "gone"
    ELSE "absent"

\* An execution whose name is not distinct promises nothing: it is mapped to
\* one that never moves.
stageBar == [h \in Harness |-> IF Distinct(h) THEN StageOf(h) ELSE "absent"]

overBar ==
    [h \in Harness |->
        IF ~Distinct(h) \/ pc[h] # "done" THEN "running"
        ELSE IF daemon[h] = 1 /\ gave_up[h] = "no" THEN "clean" ELSE "failed"]

TestCase == INSTANCE HareTestCase WITH stage <- stageBar, over <- overBar

\* The harness and its daemon keep the promise of HareTestCase: a distinct
\* test case moves forward only, by one execution's doing, and never after
\* that execution has ended.
ImplementsTestCase == TestCase!Spec

-----------------------------------------------------------------------------
(* The inductive invariant behind OnePlace, DaemonOverFirst,               *)
(* KeptOnlyByFailure, ExitStatus and SparesOthers: each of its parts is    *)
(* about one harness.                                                      *)

BeforeOpen == {"read", "check_watch", "make_watch", "check_process",
               "make_process", "pipes", "open"}
BeforeFork == BeforeOpen \cup {"write", "edge_verify", "edge_remove", "tell", "sure"}
Waiting == {"wait", "verify", "remove", "search", "delete"}

\* A file is where the name its harness opened puts it.
Placed(h) ==
    /\ \A e \in Entry : h \in watch[e] => file_exists[h] /\ e = Leaf[input[h]]
    /\ \A f \in Stamped :
          h \in processed[f] => file_exists[h] /\ f.entry = Leaf[input[h]]

\* OnePlace, of one harness.
Unique(h) ==
    /\ \A f, g \in Stamped : h \in processed[f] /\ h \in processed[g] => f = g
    /\ \A e \in Entry : h \in watch[e] => \A f \in Stamped : h \notin processed[f]

\* file_exists says whether open() has succeeded.
Opened(h) ==
    /\ pc[h] \in BeforeOpen => ~file_exists[h]
    /\ pc[h] \in (BeforeFork \ BeforeOpen) \cup Waiting => file_exists[h]
    /\ daemon[h] = 1 => file_exists[h]
    /\ file_exists[h] => Leaf[input[h]] \in Entry

\* main() has a daemon from the fork on, and passes "wait" only when it is over.
Forked(h) ==
    /\ daemon[h] = 1 <=> dpc[h] # "none"
    /\ pc[h] \in BeforeFork => daemon[h] = 0
    /\ pc[h] \in Waiting => daemon[h] = 1
    /\ event[h] = "ended" => dpc[h] \in Over
    /\ daemon[h] = 1 /\ pc[h] \in AfterWait => dpc[h] \in Over

\* How far the deletion has got: a distinct test case is in the watch
\* directory until the fork, in one of the two directories while its daemon
\* runs, and in the end where main() gave it up, if it did.
Deleting(h) ==
    /\ pc[h] = "delete" => /\ victim[h] \in Stamped
                           /\ <<input[h], victim[h].entry>> \in Ends
    /\ pc[h] \notin {"search", "delete", "cleanup", "done"} => gave_up[h] = "no"
    /\ daemon[h] = 1 /\ gave_up[h] # "no" => \E k \in DeletionFaults : Fault(k)
    /\ Distinct(h) /\ file_exists[h] =>
        /\ pc[h] \in BeforeFork \cup {"remove"} => InWatch(h)
        /\ pc[h] \in {"wait", "verify"} => Present(h)
        /\ pc[h] = "search" => /\ InWatch(h) <=> gave_up[h] = "watched"
                               /\ InProcessed(h) <=> gave_up[h] = "no"
                               /\ gave_up[h] # "processed"
        /\ pc[h] = "delete" => h \in processed[victim[h]] /\ gave_up[h] = "no"
        /\ pc[h] \in {"cleanup", "done"} =>
              /\ InWatch(h) <=> gave_up[h] = "watched"
              /\ InProcessed(h) <=> gave_up[h] = "processed"

\* ExitStatus, from the error that main() keeps to the end it comes to.
Reported(h) ==
    /\ pc[h] \in {"edge_verify", "edge_remove"} => success[h] = 1
    /\ pc[h] \in (BeforeFork \ {"edge_verify", "edge_remove"}) \cup {"wait"} =>
          success[h] = 0
    /\ pc[h] \in AfterWait =>
          /\ success[h] = 0 => daemon[h] = 1 /\ (dpc[h] = "aborted" => Fault("wait"))
          /\ success[h] = 1 => daemon[h] # 1 \/ dpc[h] = "aborted"

IInv ==
    /\ TypeOK
    /\ \A h \in Harness :
          /\ Placed(h) /\ Unique(h) /\ Opened(h)
          /\ Forked(h) /\ Deleting(h) /\ Reported(h)

-----------------------------------------------------------------------------
(* What the repository's comments say and the code does not keep to.       *)


\* Step 8 again, of the directories: once every harness has ended, and each
\* one had its daemon and a file its base_filename matches, both are empty.
LeavesNoLitter ==
    (\A h \in Harness : /\ pc[h] = "done" /\ daemon[h] = 1
                       /\ <<input[h], Leaf[input[h]]>> \in Ends) =>
        \A h \in Harness : ~Present(h)
=============================================================================
