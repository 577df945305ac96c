---------------------------- MODULE HarePrograms ----------------------------
(***************************************************************************)
(* The programs that read a file and print it: source04 to source07, in    *)
(* their "best" and their "bad" versions, and the source07 test harness,   *)
(* which creates a test case, reads and prints it like source07 and        *)
(* removes it again.  Several of them run side by side on one directory.   *)
(*                                                                         *)
(* The best programs verify the file, measure it, open it and read as many *)
(* bytes as they measured; the bad ones store what getc() returns in a     *)
(* block of fixed size.  These calls are separate steps, between which     *)
(* another program may create, write or remove the file.                   *)
(*                                                                         *)
(* Files are inodes, which outlive their names while a program has them    *)
(* open.  The content of a file is a sequence of bytes of three kinds: nul *)
(* characters, 0xFF, which compares equal to EOF as a char, and others.    *)
(***************************************************************************)
EXTENDS Integers, Sequences, HareStrings

CONSTANTS
    Proc,       \* the processes
    Runs,       \* Runs[p]: the programs process p may be started as
    Name,       \* the names of regular files
    Subdir,     \* the names of directories
    Inode,      \* the files themselves
    Argv0,      \* under which paths a program may be started
    Arg,        \* what argv[1] of a program may be
    TestName,   \* what prepend_test_input() may return in the test harness
    Line,       \* what a user may enter
    Output,     \* what radamsa may print
    Present,    \* the directories the processes may find
    Content,    \* what is in a file they find
    Byte,       \* the kinds of bytes, and of characters a user enters
    BINARY_NAME, Option, PASSWORD,
    Nul, HighByte, NewLine,
    BUF_LEN,    \* size of the block for a password
    BAD_MAX,    \* size of the block of the bad read_file(), less one
    Faults,     \* the calls that may fail, see FaultKind
    NULL

Best == {"source04_best", "source05_best", "source07_best", "harness07_best"}
Bad == {"source04_bad", "source05_bad", "source06_bad", "source07_bad", "harness07_bad"}
Harness == {"harness07_best", "harness07_bad"}
Program == Best \cup Bad

FaultKind == {"calloc", "open", "read", "create", "write", "remove"}

ASSUME RunsAssumption == Runs \in [Proc -> SUBSET Program]
ASSUME NameAssumption ==
    /\ Name \cap Subdir = {}
    /\ <<>> \notin Name \cup Subdir
    /\ NULL \notin Name \cup Subdir \cup Inode \cup Arg \cup Line \cup {<<>>}
ASSUME PresentAssumption ==
    /\ Present \subseteq [Name -> Inode \cup {NULL}]
    /\ \A d \in Present : \A m, n \in Name : m # n => d[m] = NULL \/ d[m] # d[n]
ASSUME ContentAssumption == Content \cup Output \subseteq Seq(Byte) /\ Nul \in Byte
ASSUME PasswordAssumption ==
    /\ Line \cup {PASSWORD} \subseteq Seq(Byte)
    /\ Len(PASSWORD) < BUF_LEN - 1
ASSUME SizeAssumption == BAD_MAX \in Nat /\ BUF_LEN \in Nat \ {0}
ASSUME FaultsAssumption == Faults \subseteq FaultKind

VARIABLES
    \* fixed when a process is started
    prog,        \* the program it runs
    argv0,       \* its argv[0]
    argOne,      \* its argv[1], or what the harness makes of it; NULL for none
    line,        \* its standard input
    \* the process
    pc,          \* the call it does next, or how it ended
    filename,    \* the file to read, or NULL
    file_exists, \* the harness opened a test case
    fd,          \* the file it has open, or NULL
    block,       \* bytes allocated for file_contents
    contents,    \* bytes stored there, before the zeros of calloc()
    printed,     \* what it printed
    success,     \* its exit status: 0, -1 or -2
    \* history
    written,     \* content of the test case once the harness has written it
    has_read,    \* the process has read the file it opened
    failed,      \* the calls that failed
    \* the file system
    dir,         \* the inode of each name, or NULL
    data         \* the bytes of each inode

start == <<prog, argv0, argOne, line>>
reader == <<block, contents, has_read>>
files == <<dir, data>>
local == <<filename, file_exists, fd, reader, printed, success, written, failed>>
vars == <<start, pc, local, files>>

Parses(p) == prog[p] \in Best \ Harness

Asks(p) == prog[p] \in {"source04_best", "source04_bad"}

Init ==
    /\ prog \in [Proc -> Program]
    /\ \A p \in Proc : prog[p] \in Runs[p]
    /\ argv0 \in [Proc -> Argv0 \cup {BINARY_NAME}]
    /\ \A p \in Proc : ~Parses(p) => argv0[p] = BINARY_NAME
    /\ argOne \in [Proc -> Arg \cup TestName \cup {NULL}]
    /\ \A p \in Proc : argOne[p] \in {NULL} \cup
                          (IF prog[p] \in Harness THEN TestName ELSE Arg)
    /\ line \in [Proc -> Line \cup {<<>>}]
    /\ \A p \in Proc : ~Asks(p) => line[p] = <<>>
    /\ pc = [p \in Proc |-> "start"]
    /\ filename = [p \in Proc |-> NULL]
    /\ file_exists = [p \in Proc |-> FALSE]
    /\ fd = [p \in Proc |-> NULL]
    /\ block = [p \in Proc |-> 0]
    /\ contents = [p \in Proc |-> <<>>]
    /\ printed = [p \in Proc |-> <<>>]
    /\ success = [p \in Proc |-> 0]
    /\ written = [p \in Proc |-> <<>>]
    /\ has_read = [p \in Proc |-> FALSE]
    /\ failed = [p \in Proc |-> {}]
    /\ dir \in Present
    /\ data \in [Inode -> Content \cup {<<>>}]
    /\ \A i \in Inode : (\A n \in Name : dir[n] # i) => data[i] = <<>>

Goto(p, from, to) ==
    /\ pc[p] = from
    /\ pc' = [pc EXCEPT ![p] = to]

\* main() of a program returns status; the harness has a file to remove first.
Finish(p, from, status) ==
    /\ Goto(p, from, IF prog[p] \in Harness THEN "remove" ELSE "exited")
    /\ success' = [success EXCEPT ![p] = status]

\* The call k of process p fails, though nothing in this model makes it.
Fails(p, k) ==
    /\ k \in Faults
    /\ failed' = [failed EXCEPT ![p] = @ \cup {k}]

\* stat() succeeds.
Exists(name) == name \in Subdir \/ (name \in Name /\ dir[name] # NULL)

-----------------------------------------------------------------------------
(* The arguments.                                                          *)

\* argv[1], if there is one and argv[0] ends with the name of the binary, at
\* its first occurrence.
ParseArgs(p) ==
    LET at == StrStr(argv0[p], BINARY_NAME)
        end == Len(argv0[p]) - Len(BINARY_NAME) + 1 IN
    IF argOne[p] # NULL /\ at # 0 /\ at = end THEN argOne[p] ELSE NULL

\* An argument that begins like an option is none of a file.
ValidateArg(arg) == IF \E o \in Option : StrStr(arg, o) = 1 THEN NULL ELSE arg

\* get_filename() of the best programs: validate_arg() is called even when
\* parse_args() returned NULL, and strstr() then reads address 0.
GetFilename(p) ==
    /\ Parses(p)
    /\ \/ /\ ParseArgs(p) = NULL
          /\ Goto(p, "start", "killed")
          /\ UNCHANGED filename
       \/ /\ ParseArgs(p) # NULL
          /\ Goto(p, "start", "verify")
          /\ filename' = [filename EXCEPT ![p] = ValidateArg(argOne[p])]
    /\ UNCHANGED <<start, file_exists, fd, reader, printed, success, written, failed,
                   files>>

\* main() of the bad programs takes argv[1] as it is.
TakeArgument(p) ==
    /\ prog[p] \in Bad \ Harness
    /\ Goto(p, "start",
            IF Asks(p) /\ argOne[p] # NULL THEN "authenticate" ELSE "bad_open")
    /\ filename' = [filename EXCEPT ![p] = argOne[p]]
    /\ UNCHANGED <<start, file_exists, fd, reader, printed, success, written, failed,
                   files>>

-----------------------------------------------------------------------------
(* source04: the password.                                                 *)

\* fgets(): the first line with its newline, as far as it fits.
FirstLine(l) ==
    LET text == Before(l, {NewLine}) IN Cut(l, IF Len(text) < BUF_LEN - 1
                                               THEN Len(text) + 1 ELSE BUF_LEN - 1)

\* The string up to its newline.
TruncateNewlines(text) == Before(Before(text, {Nul}), {NewLine})

\* Variant: the password is a beginning of what was entered.
AuthenticatePrefix(p) ==
    line[p] # <<>> /\ Cut(TruncateNewlines(FirstLine(line[p])), Len(PASSWORD)) = PASSWORD

\* What get_password() returns is the secret; fgets() returns NULL at the end
\* of the input.
Authenticate(p) == line[p] # <<>> /\ TruncateNewlines(FirstLine(line[p])) = PASSWORD

\* The rest of main() of source04, which only prints the name of the file.
CheckPassword(p) ==
    /\ \/ /\ UNCHANGED failed
          /\ Finish(p, "authenticate", IF Authenticate(p) THEN 0 ELSE -1)
       \/ /\ Fails(p, "calloc")
          /\ Finish(p, "authenticate", -1)
    /\ UNCHANGED <<start, filename, file_exists, fd, reader, printed, written, files>>

-----------------------------------------------------------------------------
(* do_it() and read_file(), the best.                                      *)

\* verify_filename(): a name is missing, empty or there.  The one of the
\* library wants a regular file.
VerifyFilename(p) ==
    LET name == filename[p]
        there == Exists(name) /\ (prog[p] \in {"source07_best", "harness07_best"}
                                     => name \notin Subdir) IN
    /\ pc[p] = "verify"
    /\ \/ name = NULL /\ Finish(p, "verify", 0)
       \/ name = <<>> /\ Finish(p, "verify", -2)
       \/ name \notin {NULL, <<>>} /\ ~there /\ Finish(p, "verify", -1)
       \/ /\ name \notin {NULL, <<>>} /\ there
          /\ Goto(p, "verify", IF Asks(p) THEN "authenticate" ELSE "size")
          /\ UNCHANGED success
    /\ UNCHANGED <<start, filename, file_exists, fd, reader, printed, written, failed,
                   files>>

\* Variant: no byte is allocated for the terminator.
RoomForSize(size) == size

\* Variant: and one less than that.
RoomForLess(size) == size - 1

\* The block read_file() allocates for a file of that size.
RoomFor(size) == size + 1

\* What stat() says of a directory.
DirectorySize == 1

\* size_file() and the calloc() that follows.
SizeFile(p) ==
    LET size == IF filename[p] \in Subdir THEN DirectorySize
                ELSE Len(data[dir[filename[p]]]) IN
    /\ pc[p] = "size"
    /\ \/ /\ ~Exists(filename[p])
          /\ Finish(p, "size", -2)
          /\ UNCHANGED <<block, failed>>
       \/ /\ Exists(filename[p])
          /\ Fails(p, "calloc")
          /\ Finish(p, "size", -2)
          /\ UNCHANGED block
       \/ /\ Exists(filename[p])
          /\ Goto(p, "size", "open")
          /\ block' = [block EXCEPT ![p] = RoomFor(size)]
          /\ UNCHANGED <<success, failed>>
    /\ UNCHANGED <<start, filename, file_exists, fd, contents, has_read, printed, written,
                   files>>

\* open(O_RDONLY): when it fails the block of zeros is returned all the same.
OpenFile(p) ==
    /\ \/ /\ Exists(filename[p])
          /\ Goto(p, "open", "read")
          /\ fd' = [fd EXCEPT ![p] = IF filename[p] \in Name THEN dir[filename[p]] ELSE @]
          /\ UNCHANGED failed
       \/ /\ ~Exists(filename[p])
          /\ Goto(p, "open", "print")
          /\ UNCHANGED <<fd, failed>>
       \/ /\ Exists(filename[p])
          /\ Fails(p, "open")
          /\ Goto(p, "open", "print")
          /\ UNCHANGED fd
    /\ UNCHANGED <<start, filename, file_exists, reader, printed, success, written, files>>

\* Variant: the file is measured again, after the block was allocated.
ToReadNow(p) == Len(data[fd[p]])

\* How many bytes read() is asked for.
ToRead(p) == block[p] - 1

\* read(), which fails on a directory, and close().
ReadFile(p) ==
    /\ pc[p] = "read"
    /\ \/ /\ fd[p] = NULL
          /\ Finish(p, "read", -2)
          /\ UNCHANGED <<contents, has_read, failed>>
       \/ /\ fd[p] # NULL
          /\ Fails(p, "read")
          /\ Finish(p, "read", -2)
          /\ UNCHANGED <<contents, has_read>>
       \/ /\ fd[p] # NULL
          /\ Goto(p, "read", "print")
          /\ contents' = [contents EXCEPT ![p] = Cut(data[fd[p]], ToRead(p))]
          /\ has_read' = [has_read EXCEPT ![p] = TRUE]
          /\ UNCHANGED <<success, failed>>
    /\ fd' = [fd EXCEPT ![p] = NULL]
    /\ UNCHANGED <<start, filename, file_exists, block, printed, written, files>>

-----------------------------------------------------------------------------
(* do_it() and read_file(), the bad.                                       *)

\* Nothing is verified: calloc() and fopen(), which may fail unnoticed.  A
\* directory can be opened and has no bytes.
BadOpenFile(p) ==
    LET name == filename[p] IN
    /\ pc[p] = "bad_open"
    /\ \/ /\ name = NULL
          /\ Finish(p, "bad_open", 0)
          /\ UNCHANGED <<fd, block, failed>>
       \/ /\ name = <<>>
          /\ Finish(p, "bad_open", -2)
          /\ UNCHANGED <<fd, block, failed>>
       \/ /\ name \notin {NULL, <<>>}
          /\ Fails(p, "calloc")
          /\ Finish(p, "bad_open", -2)
          /\ UNCHANGED <<fd, block>>
       \/ /\ name \notin {NULL, <<>>}
          /\ block' = [block EXCEPT ![p] = BAD_MAX + 1]
          /\ UNCHANGED success
          /\ \/ /\ name \in Name /\ Exists(name)
                /\ Goto(p, "bad_open", "getc")
                /\ fd' = [fd EXCEPT ![p] = dir[name]]
                /\ UNCHANGED failed
             \/ /\ name \notin Name \/ ~Exists(name)
                /\ Goto(p, "bad_open", "print")
                /\ UNCHANGED <<fd, failed>>
             \/ /\ name \in Name /\ Exists(name)
                /\ Fails(p, "open")
                /\ Goto(p, "bad_open", "print")
                /\ UNCHANGED fd
    /\ UNCHANGED <<start, filename, file_exists, contents, has_read, printed, written,
                   files>>

\* What the loop around getc() stores of some bytes: it ends at a 0xFF, which
\* is not stored, and at a nul character, which is.
Characters(bytes) ==
    LET text == Before(bytes, {Nul, HighByte}) IN
    IF Len(text) < Len(bytes) /\ bytes[Len(text) + 1] = Nul THEN Append(text, Nul) ELSE text

\* The loop, over what was in the file when its buffer was filled.  A store
\* beyond the block may end the program, at once or later.
GetCharacters(p) ==
    /\ pc[p] = "getc"
    /\ contents' = [contents EXCEPT ![p] = Characters(data[fd[p]])]
    /\ \/ Goto(p, "getc", "print")
       \/ Len(contents'[p]) > block[p] /\ Goto(p, "getc", "killed")
    /\ fd' = [fd EXCEPT ![p] = NULL]
    /\ has_read' = [has_read EXCEPT ![p] = TRUE]
    /\ UNCHANGED <<start, filename, file_exists, block, printed, success, written, failed,
                   files>>

\* do_it() prints the string in the block.  One that fills it has no end
\* there: what is printed beyond is not modelled, the end of the program is.
PrintContents(p) ==
    LET text == Before(contents[p], {Nul}) IN
    /\ pc[p] = "print"
    /\ \/ /\ Finish(p, "print", 0)
          /\ printed' = [printed EXCEPT ![p] = text]
       \/ /\ Len(text) >= block[p]
          /\ Goto(p, "print", "killed")
          /\ UNCHANGED <<success, printed>>
    /\ UNCHANGED <<start, filename, file_exists, fd, reader, written, failed, files>>

-----------------------------------------------------------------------------
(* The source07 test harness.                                              *)

DoIt(p) == IF prog[p] \in Best THEN "verify" ELSE "bad_open"

\* The name of the test case; argv[1] may be missing or unreadable.
ReadTestInput(p) ==
    /\ prog[p] \in Harness
    /\ Goto(p, "start", "create")
    /\ filename' = [filename EXCEPT ![p] = argOne[p]]
    /\ UNCHANGED <<start, file_exists, fd, reader, printed, success, written, failed,
                   files>>

\* open(O_RDWR | O_CREAT): a file that is there is opened and not truncated.
\* Without a file main() goes on to do_it().
CreateFile(p) ==
    /\ pc[p] = "create"
    /\ \/ /\ filename[p] \in Name /\ Exists(filename[p])
          /\ fd' = [fd EXCEPT ![p] = dir[filename[p]]]
          /\ UNCHANGED <<files, failed>>
          /\ Goto(p, "create", "write")
          /\ file_exists' = [file_exists EXCEPT ![p] = TRUE]
       \/ /\ filename[p] \in Name /\ ~Exists(filename[p])
          /\ \E i \in Inode :
                /\ \A n \in Name : dir[n] # i
                /\ \A q \in Proc : fd[q] # i
                /\ fd' = [fd EXCEPT ![p] = i]
                /\ dir' = [dir EXCEPT ![filename[p]] = i]
                /\ data' = [data EXCEPT ![i] = <<>>]
          /\ UNCHANGED failed
          /\ Goto(p, "create", "write")
          /\ file_exists' = [file_exists EXCEPT ![p] = TRUE]
       \/ /\ \/ filename[p] \notin Name /\ UNCHANGED failed
             \/ filename[p] \in Name /\ Fails(p, "create")
          /\ Goto(p, "create", DoIt(p))
          /\ UNCHANGED <<file_exists, fd, files>>
    /\ UNCHANGED <<start, filename, reader, printed, success, written>>

\* read_from_process(): what is stored ends at a 0xFF, and one byte less is reported.
ReadFromProcess(output) ==
    LET text == Before(output, {HighByte}) IN [buff |-> text, size |-> Len(text) - 1]

\* get_fuzzed_contents(): of fewer than two bytes it reports nothing that write()
\* would take.
GetFuzzedContents(output) ==
    LET fuzz == ReadFromProcess(output) IN Cut(fuzz.buff, fuzz.size)

\* write() over what is there.
Overwritten(old, new) == new \o SubSeq(old, Len(new) + 1, Len(old))

\* Variant: the program ends after a failed write() as if it had no file.
WriteFileOrForget(p) ==
    /\ pc[p] = "write"
    /\ \/ /\ \E output \in Output :
                data' = [data EXCEPT ![fd[p]] = Overwritten(@, GetFuzzedContents(output))]
          /\ UNCHANGED <<failed, file_exists>>
       \/ /\ Fails(p, "write")
          /\ file_exists' = [file_exists EXCEPT ![p] = FALSE]
          /\ UNCHANGED data
    /\ written' = [written EXCEPT ![p] = data'[fd[p]]]
    /\ fd' = [fd EXCEPT ![p] = NULL]
    /\ Goto(p, "write", DoIt(p))
    /\ UNCHANGED <<start, filename, reader, printed, success, dir>>

\* get_fuzzed_contents(), write(), fsync() and close(), whose failures are only
\* logged.
WriteFile(p) ==
    /\ pc[p] = "write"
    /\ \/ /\ \E output \in Output :
                data' = [data EXCEPT ![fd[p]] = Overwritten(@, GetFuzzedContents(output))]
          /\ UNCHANGED failed
       \/ /\ Fails(p, "write")
          /\ UNCHANGED data
    /\ written' = [written EXCEPT ![p] = data'[fd[p]]]
    /\ fd' = [fd EXCEPT ![p] = NULL]
    /\ Goto(p, "write", DoIt(p))
    /\ UNCHANGED <<start, filename, file_exists, reader, printed, success, dir>>

\* remove() of the name, whatever file it leads to by now.
RemoveFile(p) ==
    /\ Goto(p, "remove", "exited")
    /\ \/ /\ file_exists[p] /\ Exists(filename[p])
          /\ dir' = [dir EXCEPT ![filename[p]] = NULL]
          /\ UNCHANGED failed
       \/ /\ file_exists[p] => ~Exists(filename[p])
          /\ UNCHANGED <<dir, failed>>
       \/ /\ file_exists[p] /\ Exists(filename[p])
          /\ Fails(p, "remove")
          /\ UNCHANGED dir
    /\ UNCHANGED <<start, filename, file_exists, fd, reader, printed, success, written, data>>

-----------------------------------------------------------------------------
Step(p) ==
    \/ GetFilename(p) \/ TakeArgument(p) \/ CheckPassword(p)
    \/ VerifyFilename(p) \/ SizeFile(p) \/ OpenFile(p) \/ ReadFile(p)
    \/ BadOpenFile(p) \/ GetCharacters(p) \/ PrintContents(p)
    \/ ReadTestInput(p) \/ CreateFile(p) \/ WriteFile(p) \/ RemoveFile(p)

Over == {"exited", "killed"}

AllOver == (\A p \in Proc : pc[p] \in Over) /\ UNCHANGED vars

Next == (\E p \in Proc : Step(p)) \/ AllOver

Spec == Init /\ [][Next]_vars

-----------------------------------------------------------------------------
(* Properties.                                                             *)

PC == {"start", "verify", "authenticate", "size", "open", "read", "bad_open", "getc",
       "print", "create", "write", "remove"} \cup Over

\* Type invariant.
TypeOK ==
    /\ prog \in [Proc -> Program]
    /\ argOne \in [Proc -> Arg \cup TestName \cup {NULL}]
    /\ pc \in [Proc -> PC]
    /\ filename \in [Proc -> Arg \cup TestName \cup {NULL}]
    /\ file_exists \in [Proc -> BOOLEAN]
    /\ fd \in [Proc -> Inode \cup {NULL}]
    /\ block \in [Proc -> Nat]
    /\ contents \in [Proc -> Seq(Byte)]
    /\ printed \in [Proc -> Seq(Byte)]
    /\ written \in [Proc -> Seq(Byte)]
    /\ success \in [Proc -> {0, -1, -2}]
    /\ failed \in [Proc -> SUBSET Faults]
    /\ dir \in [Name -> Inode \cup {NULL}]
    /\ data \in [Inode -> Seq(Byte)]

\* The best read_file() stores no more than the block can hold with a nul
\* character behind it, whatever becomes of the file between stat() and read().
InBounds == \A p \in Proc : prog[p] \in Best /\ block[p] > 0 => Len(contents[p]) < block[p]

\* A best program is killed by nothing but a missing or misnamed argument, which
\* does kill it (see BestSurvives), and a bad one by nothing but a text that fills
\* its block: no sequence of calls, and no other program on the same file, does
\* more harm than that.
KilledForCause ==
    \A p \in Proc : pc[p] = "killed" =>
        IF prog[p] \in Best THEN Parses(p) /\ ParseArgs(p) = NULL
        ELSE Len(Before(contents[p], {Nul})) > BAD_MAX

\* source04 accepts the password and nothing else: it is all of the first line,
\* or of what precedes a nul character in it.
OnlyPassword ==
    \A p \in Proc :
        Asks(p) /\ pc[p] = "exited" /\ success[p] = 0 /\ filename[p] # NULL =>
            /\ Cut(line[p], Len(PASSWORD)) = PASSWORD
            /\ Len(line[p]) > Len(PASSWORD) => line[p][Len(PASSWORD) + 1] \in {NewLine, Nul}

Opened(p) == prog[p] \in Harness /\ file_exists[p]

\* No other process may touch the test case of p.
Alone(p) == \A q \in Proc \ {p} : argOne[q] # argOne[p]

\* The best source07 harness prints the test case it has written and reports
\* success, if no other process uses its name and no call fails: the steps of
\* create, write, verify, measure, open and read fit together.
PrintsTestCase ==
    \A p \in Proc :
        /\ prog[p] = "harness07_best" /\ pc[p] = "exited" /\ Opened(p)
        /\ Alone(p) /\ failed[p] = {}
        => success[p] = 0 /\ printed[p] = Before(written[p], {Nul})

\* A test case that is left when its harness has ended belongs to another harness
\* that opened it and has not ended, was killed, or could not remove it: none is
\* forgotten, however the harnesses that share a name take their turns.
NoLitter ==
    \A p \in Proc :
        Opened(p) /\ pc[p] = "exited" /\ dir[filename[p]] # NULL =>
            \E q \in Proc :
                /\ Opened(q) /\ filename[q] = filename[p]
                /\ pc[q] # "exited" \/ "remove" \in failed[q]

-----------------------------------------------------------------------------
(* The inductive invariant.                                                *)

\* Which program does which steps.
Ordered(p) ==
    /\ pc[p] \in {"verify", "size", "open", "read"} => prog[p] \in Best
    /\ pc[p] \in {"bad_open", "getc"} => prog[p] \in Bad
    /\ pc[p] \in {"create", "write", "remove"} => prog[p] \in Harness
    /\ Asks(p) => /\ pc[p] \in {"start", "verify", "authenticate", "bad_open"} \cup Over
                  /\ pc[p] = "bad_open" => filename[p] = NULL
    /\ pc[p] = "authenticate" => Asks(p)

\* The block is there when something is stored, and is of the size it has to be.
Allocated(p) ==
    /\ pc[p] \in {"start", "verify", "authenticate", "size", "bad_open", "create", "write"}
          => block[p] = 0
    /\ pc[p] \notin {"getc", "print", "remove"} \cup Over => contents[p] = <<>>
    /\ pc[p] \in {"open", "read", "print"} /\ prog[p] \in Best => block[p] > 0
    /\ pc[p] \in {"getc", "print"} /\ prog[p] \in Bad => block[p] = BAD_MAX + 1
    /\ pc[p] = "getc" => fd[p] # NULL

\* The harness opens the test case once, by the name it was given.
Named(p) ==
    /\ pc[p] = "create" => filename[p] = argOne[p]
    /\ pc[p] \in {"start", "create"} => ~file_exists[p]
    /\ pc[p] = "write" => file_exists[p]
    /\ file_exists[p] => filename[p] = argOne[p] /\ filename[p] \in Name /\ prog[p] \in Harness

\* Only the password makes source04 succeed.
Admitted(p) ==
    Asks(p) /\ pc[p] = "exited" /\ success[p] = 0 /\ filename[p] # NULL => Authenticate(p)

\* A file has one name at most, and one that is being written has no other.
Linked ==
    /\ \A m, n \in Name : m # n => dir[m] = NULL \/ dir[m] # dir[n]
    /\ \A p \in Proc : pc[p] = "write" =>
          fd[p] # NULL /\ \A n \in Name \ {filename[p]} : dir[n] # fd[p]

\* The test case of a harness, from its creation to its end.
Intact(p) ==
    /\ pc[p] # "exited" => dir[filename[p]] # NULL
    /\ pc[p] \in {"write", "read"} => fd[p] = dir[filename[p]]
    /\ pc[p] \in {"verify", "size", "open", "read"} => data[dir[filename[p]]] = written[p]
    /\ pc[p] \in {"open", "read"} => block[p] = Len(written[p]) + 1
    /\ pc[p] = "print" => contents[p] = written[p]
    /\ pc[p] \in {"remove", "exited"} =>
          success[p] = 0 /\ printed[p] = Before(written[p], {Nul})

\* Nothing happens to it while the best harness is alone with it and no call fails.
Kept(p) ==
    prog[p] = "harness07_best" /\ Opened(p) /\ Alone(p) /\ failed[p] = {} => Intact(p)

\* The invariant orders the steps of each process, and follows the block of its
\* reader and the name of its test case.
ProgramsInv ==
    /\ TypeOK /\ Linked
    /\ \A p \in Proc : Ordered(p) /\ Allocated(p) /\ Named(p) /\ Admitted(p) /\ Kept(p)
    /\ InBounds /\ KilledForCause /\ NoLitter

-----------------------------------------------------------------------------
(* What the repository's comments say and the code does not keep to.       *)

\* "0 Success, -1 Bad input, -2 Error" (source05_best.c and HARE_library_best.c, of
\* the status): a best program that reports success has read the file it was told
\* to read.
ReadsWhatItReports ==
    \A p \in Proc :
        /\ prog[p] \in Best /\ ~Asks(p) /\ pc[p] = "exited" /\ filename[p] # NULL
        => (success[p] = 0 => has_read[p])

\* "The best binaries should be error/crash/BUG free" (README.md): no best program
\* is killed, whatever its arguments.
BestSurvives == \A p \in Proc : prog[p] \in Best => pc[p] # "killed"
=============================================================================
