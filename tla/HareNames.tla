------------------------------ MODULE HareNames ------------------------------
(***************************************************************************)
(* What becomes of a name.  AFL puts it into a file, the first step of     *)
(* both test harnesses reads it and puts a directory before it, open()     *)
(* creates the file it leads to, the pipe carries it to the daemon, which  *)
(* moves the file under a datetime stamp, and the harness looks for it by  *)
(* the end of its name.  Each of these makes a different string of the     *)
(* same bytes.  The sanitizer's log, whose name the harness takes from     *)
(* ASAN_OPTIONS, is here as well.                                          *)
(*                                                                         *)
(* One harness executes again and again, as under AFL, while the file with *)
(* the name may change under its hands.  An input may lead out of the      *)
(* watch directory, through "..", or further into it.  HareHarness takes   *)
(* from here that an input leads to one entry, for those that stay in the  *)
(* watch directory, and what the daemon is told of it.                     *)
(***************************************************************************)
EXTENDS Integers, Sequences, HareStrings

LOCAL INSTANCE FiniteSetsExt
LOCAL INSTANCE SequencesExt

CONSTANTS
    Byte,           \* the values of a char
    Content,        \* what the test input file may hold when main() begins
    Rewritten,      \* and what it may be overwritten with
    MaxContents,    \* bound on what it holds during one execution
    Directory,      \* the directories main() tries, the last one unseen
    Watch,          \* what source08 adds to them
    Directories,    \* those a path may lead through, each by its names from the root
    Cwd,            \* the one the harness is started in
    Destination,    \* what stamp_a_file() may be given as a directory
    Options,        \* values of ASAN_OPTIONS
    Time,           \* what localtime() may return, see TimeType
    LogPath,        \* "log_path="
    Blank,
    PATH_MAX, NAME_MAX,
    PIPE_BUFF_SIZE, \* size of the buffer of read_a_pipe()
    NULL

Nul == "nul"
Slash == "/"
Dot == "."
Underscore == "_"
Digit == <<"0", "1", "2", "3", "4", "5", "6", "7", "8", "9">>

\* struct tm, up to the last year that four digits are enough for.
TimeType == [tm_year: 0..8099, tm_mon: 0..11, tm_mday: 1..31,
             tm_hour: 0..23, tm_min: 0..59, tm_sec: 0..60]

\* A string of the program's own, or of the file system, without its nul character.
IsPath(path) == path \in Seq(Byte) \ {<<>>} /\ ~Contains(path, Nul)

IsDirectory(path) == IsPath(path) /\ Last(path) = Slash

ASSUME ByteAssumption ==
    {Nul, Slash, Dot, Underscore, Blank} \cup {Digit[i] : i \in 1..10} \subseteq Byte
ASSUME ContentAssumption ==
    Content \cup Rewritten \cup Options \subseteq Seq(Byte) /\ NULL \notin Seq(Byte)
ASSUME DirectoryAssumption ==
    /\ Directory \in Seq(Seq(Byte))
    /\ \A i \in DOMAIN Directory : IsDirectory(Directory[i])
    /\ IsDirectory(Watch)
    /\ \A d \in Destination : IsPath(d)
ASSUME TreeAssumption ==
    /\ Directories \subseteq Seq(Seq(Byte)) /\ NULL \notin Directories
    /\ {<<>>, Cwd} \subseteq Directories
    /\ \A d \in Directories : d # <<>> => Front(d) \in Directories
ASSUME OptionAssumption == LogPath \in Seq(Byte) \ {<<>>}
ASSUME SizeAssumption == PIPE_BUFF_SIZE \in Nat \ {0}
ASSUME TimeAssumption == Time \subseteq TimeType

VARIABLES
    program,           \* "source07" or "source08"
    pc,
    file,              \* the test input file, or NULL
    seen,              \* history: what it held since main() began
    watched,           \* the directory main() chose
    file_size,         \* what stat() said
    old_test_input,    \* the block read_test_file() returns, or NULL
    buff_size,         \* and its readable size
    base_filename,     \* global of source08: the block, or NULL
    base_filename_len,
    test_filename,     \* the block prepend_test_input() returns, or NULL
    total_size,
    options,           \* ASAN_OPTIONS, or NULL
    asan_log,          \* what get_asan_log() makes of it, or NULL
    entry,             \* the file that open() created, or NULL
    message,           \* the string the daemon has read
    dest_dir,
    now,               \* the local time of the last stamp
    datetime_stamp,
    new_abs_filename,  \* the block of stamp_a_file()
    moved,             \* the name of the file after move_file(), or NULL
    earlier            \* history: local time and stamp of the last execution

base == <<base_filename, base_filename_len>>
input == <<old_test_input, buff_size, base, test_filename, total_size>>
logs == <<options, asan_log>>
stamping == <<dest_dir, now, datetime_stamp, new_abs_filename, moved>>
vars == <<program, pc, file, seen, watched, file_size, input, logs, entry,
          message, stamping, earlier>>

\* The string that begins with a block.
String(block) == Before(block, {Nul})

Zeros(n) == [i \in 1..n |-> Nul]

Fields(t) == <<t.tm_year, t.tm_mon, t.tm_mday, t.tm_hour, t.tm_min, t.tm_sec>>

\* One sequence of numbers comes before another.
Precedes(s, t) ==
    \E i \in DOMAIN s : s[i] < t[i] /\ \A j \in 1..(i - 1) : s[j] = t[j]

\* A main() that has just begun.
Fresh(content) ==
    /\ pc = "check_dir"
    /\ file = content
    /\ seen = {content}
    /\ watched = <<>>
    /\ file_size = 0
    /\ old_test_input = NULL
    /\ buff_size = 0
    /\ base_filename = NULL
    /\ base_filename_len = 0
    /\ test_filename = NULL
    /\ total_size = 0
    /\ options = NULL
    /\ asan_log = NULL
    /\ entry = NULL
    /\ message = <<>>
    /\ dest_dir = <<>>
    /\ datetime_stamp = <<>>
    /\ new_abs_filename = <<>>
    /\ moved = NULL

Init ==
    /\ program \in {"source07", "source08"}
    /\ \E content \in Content \cup {NULL} : Fresh(content)
    /\ now \in Time
    /\ \A t \in Time : ~Precedes(Fields(t), Fields(now))
    /\ earlier = [time |-> now, stamp |-> <<>>]

Goto(from, to) == pc = from /\ pc' = to

-----------------------------------------------------------------------------
(* The test input.                                                         *)

\* Another process writes the file or, before it is open, removes it.
WriteTestInput ==
    /\ Cardinality(seen) < MaxContents
    /\ pc \in {"size", "open", "read"}
    /\ \/ file # NULL /\ file' \in Rewritten
       \/ pc # "read" /\ file # NULL /\ file' = NULL
    /\ seen' = seen \cup {file'}
    /\ UNCHANGED <<program, pc, watched, file_size, input, logs, entry, message,
                   stamping, earlier>>

\* check_dir() finds the first of the directories that are there.
CheckDir ==
    /\ Goto("check_dir", "size")
    /\ \E found \in {f \in SUBSET DOMAIN Directory : Len(Directory) \in f} :
          watched' = Directory[Min(found)] \o (IF program = "source08" THEN Watch ELSE <<>>)
    /\ UNCHANGED <<program, file, seen, file_size, input, logs, entry, message,
                   stamping, earlier>>

\* size_test_file() and the calloc() of that many bytes and one.
SizeTestFile ==
    /\ \/ file = NULL /\ Goto("size", "prepend") /\ UNCHANGED file_size
       \/ file # NULL /\ Goto("size", "open") /\ file_size' = Len(file)
    /\ UNCHANGED <<program, file, seen, watched, input, logs, entry, message,
                   stamping, earlier>>

\* open() of the input: without it, a block of zeros is returned.
OpenTestFile ==
    /\ pc = "open"
    /\ \/ /\ file = NULL
          /\ pc' = "prepend"
          /\ old_test_input' = Zeros(file_size)
       \/ /\ file # NULL
          /\ pc' = "read"
          /\ UNCHANGED old_test_input
    /\ UNCHANGED <<program, file, seen, watched, file_size, buff_size, base,
                   test_filename, total_size, logs, entry, message, stamping, earlier>>

\* Variant: the block is not cleared.
BlockUncleared(content) ==
    Cut(content, file_size) \o [i \in 1..(file_size - Len(Cut(content, file_size))) |-> Dot]

\* What read() leaves of a file in the block, which calloc() filled with zeros.
Block(content) ==
    Cut(content, file_size) \o Zeros(file_size - Len(Cut(content, file_size)))

\* read(), which may fail; however little it read, all of the block counts.
ReadTestFile ==
    /\ Goto("read", "prepend")
    /\ \/ old_test_input' = NULL /\ UNCHANGED buff_size
       \/ old_test_input' = Block(file) /\ buff_size' = file_size
    /\ UNCHANGED <<program, file, seen, watched, file_size, base, test_filename,
                   total_size, logs, entry, message, stamping, earlier>>

\* prepend_test_input(): an input that is empty, or begins with a nul
\* character, is the name itself.  Only source08 keeps the input and its size.
PrependTestInput ==
    /\ \/ /\ old_test_input = NULL
          /\ Goto("prepend", "over")
          /\ UNCHANGED <<test_filename, total_size, base>>
       \/ /\ old_test_input # NULL
          /\ String(old_test_input) = <<>>
          /\ Goto("prepend", "logs")
          /\ test_filename' = old_test_input
          /\ UNCHANGED <<total_size, base>>
       \/ /\ old_test_input # NULL
          /\ String(old_test_input) # <<>>
          /\ Goto("prepend", "logs")
          /\ test_filename' = watched \o old_test_input
          /\ \/ program = "source07" /\ UNCHANGED <<total_size, base>>
             \/ /\ program = "source08"
                /\ total_size' = Len(watched) + buff_size
                /\ base_filename' = old_test_input
                /\ base_filename_len' = buff_size
    /\ UNCHANGED <<program, file, seen, watched, file_size, old_test_input,
                   buff_size, logs, entry, message, stamping, earlier>>

-----------------------------------------------------------------------------
(* The sanitizer's log.                                                    *)

\* Variant: a blank is skipped over.
GetAsanLogBeyond(value) ==
    LET at == StrStr(value, LogPath)
        log == SubSeq(value, at + Len(LogPath), Len(value)) IN
    IF at = 0 \/ log = <<>> THEN NULL ELSE log

\* get_asan_log(): what follows the first "log_path=", as far as a blank.
GetAsanLog(value) ==
    LET at == StrStr(value, LogPath)
        log == Before(SubSeq(value, at + Len(LogPath), Len(value)), {Blank}) IN
    IF at = 0 \/ log = <<>> THEN NULL ELSE log

\* fill_sanitizer_logs(), of source08; that it finds none is no error.
FillSanitizerLogs ==
    /\ Goto("logs", "create")
    /\ \/ options' = NULL /\ asan_log' = NULL
       \/ /\ program = "source08"
          /\ options' \in Options
          /\ asan_log' = GetAsanLog(options')
    /\ UNCHANGED <<program, file, seen, watched, file_size, input, entry, message,
                   stamping, earlier>>

-----------------------------------------------------------------------------
(* The file and its name.                                                  *)

\* The directory that a name in a directory leads to; the parent of the root is the
\* root.
Enter(dir, name) ==
    CASE dir = NULL \/ name \in {<<>>, <<Dot>>} -> dir
      [] dir # NULL /\ name = <<Dot, Dot>> -> SubSeq(dir, 1, Len(dir) - 1)
      [] OTHER -> IF Append(dir, name) \in Directories THEN Append(dir, name) ELSE NULL

\* The directory that a path leads to up to its last slash, when it is not absolute
\* from another one.
DirOf(from, path) ==
    LET Pass(way, c) ==
            IF c = Slash THEN [dir |-> Enter(way.dir, way.name), name |-> <<>>]
            ELSE [way EXCEPT !.name = Append(@, c)]
        start == IF Head(path) = Slash THEN <<>> ELSE from IN
    FoldLeft(Pass, [dir |-> start, name |-> <<>>], path).dir

\* The file a path leads to, or NULL if the kernel gives or finds none.
Leaf(from, path) ==
    LET name == BaseName(path, Slash)
        dir == DirOf(from, path) IN
    IF /\ Len(path) < PATH_MAX /\ Len(name) <= NAME_MAX
       /\ name \notin {<<>>, <<Dot>>, <<Dot, Dot>>}
       /\ dir \in Directories /\ Append(dir, name) \notin Directories
    THEN [dir |-> dir, name |-> name] ELSE NULL

\* open(O_CREAT).
CreateTestFile ==
    LET created == Leaf(Cwd, String(test_filename)) IN
    /\ Goto("create", IF created # NULL /\ program = "source08" THEN "tell" ELSE "over")
    /\ entry' = created
    /\ UNCHANGED <<program, file, seen, watched, file_size, input, logs, message,
                   stamping, earlier>>

\* Variant: the size of the input alone.
SentInput == Cut(test_filename, buff_size)

Sent == Cut(test_filename, total_size)

\* write_a_pipe() of total_size bytes and read_a_pipe() of what fits.  The daemon
\* takes it for a string.
TellDaemon ==
    /\ Goto("tell", "stamp")
    /\ message' = String(Cut(Sent, PIPE_BUFF_SIZE))
    /\ UNCHANGED <<program, file, seen, watched, file_size, input, logs, entry,
                   stamping, earlier>>

\* The file the daemon finds under the name it was told: be_sure() has made the root
\* its working directory.
Told == Leaf(<<>>, message)

-----------------------------------------------------------------------------
(* The datetime stamp.                                                     *)

Power == <<1, 10, 100, 1000>>

\* Variant: %d in place of %02d.
NumberPlain(n, width) ==
    IF n < 10 THEN <<Digit[n + 1]>>
    ELSE [i \in 1..width |-> Digit[((n \div Power[width - i + 1]) % 10) + 1]]

\* The decimal digits of n, with leading zeros.
Number(n, width) == [i \in 1..width |-> Digit[((n \div Power[width - i + 1]) % 10) + 1]]

Year(t) == t.tm_year + 1900

\* snprintf() with "%04d%02d%02d_%02d%02d%02d_": tm_mon counts from 0.
Stamp(t) ==
    Number(Year(t), 4) \o Number(t.tm_mon, 2) \o Number(t.tm_mday, 2) \o <<Underscore>>
    \o Number(t.tm_hour, 2) \o Number(t.tm_min, 2) \o Number(t.tm_sec, 2) \o <<Underscore>>

\* get_datetime_stamp(), once both the file and the directory are verified.  What
\* there is of files is the test case.
GetDatetimeStamp ==
    /\ Goto("stamp", IF Told = NULL \/ Told # entry THEN "over" ELSE "move")
    /\ now' \in Time
    /\ ~Precedes(Fields(now'), Fields(now))
    /\ datetime_stamp' = Stamp(now')
    /\ dest_dir' \in Destination
    /\ UNCHANGED <<program, file, seen, watched, file_size, input, logs, entry,
                   message, new_abs_filename, moved, earlier>>

\* Variant: the end of the directory is left alone.
NewAbsFilenameJoined == dest_dir \o datetime_stamp \o BaseName(message, Slash)

\* The new name.  In place of a missing slash at its end the last character of the
\* directory is overwritten, and the nul character behind it stays.
NewAbsFilename ==
    LET n == Len(dest_dir)
        rest == datetime_stamp \o BaseName(message, Slash) IN
    IF dest_dir[n] = Slash THEN dest_dir \o rest
    ELSE SubSeq(dest_dir, 1, n - 1) \o <<Slash, Nul>> \o rest

\* The last part of stamp_a_file() and rename().  What there is of directories is
\* the destination and those above it.
MoveFile ==
    LET path == String(NewAbsFilename)
        name == BaseName(path, Slash)
        dir == SubSeq(path, 1, Len(path) - Len(name)) IN
    /\ Goto("move", "over")
    /\ new_abs_filename' = NewAbsFilename
    /\ moved' = IF name # <<>> /\ Len(name) <= NAME_MAX /\ IsPrefix(dir, dest_dir)
                THEN [dir |-> dir, name |-> name] ELSE NULL
    /\ UNCHANGED <<program, file, seen, watched, file_size, input, logs, entry,
                   message, dest_dir, now, datetime_stamp, earlier>>

\* The next execution.
Again ==
    /\ pc = "over"
    /\ \E content \in Rewritten \cup {NULL} :
          /\ pc' = "check_dir" /\ file' = content /\ seen' = {content}
    /\ watched' = <<>>
    /\ file_size' = 0
    /\ old_test_input' = NULL /\ buff_size' = 0
    /\ base_filename' = NULL /\ base_filename_len' = 0
    /\ test_filename' = NULL /\ total_size' = 0
    /\ options' = NULL /\ asan_log' = NULL
    /\ entry' = NULL /\ message' = <<>>
    /\ dest_dir' = <<>> /\ datetime_stamp' = <<>>
    /\ new_abs_filename' = <<>> /\ moved' = NULL
    /\ earlier' = [time |-> now, stamp |-> datetime_stamp]
    /\ UNCHANGED <<program, now>>

Next ==
    \/ WriteTestInput \/ CheckDir \/ SizeTestFile \/ OpenTestFile \/ ReadTestFile
    \/ PrependTestInput \/ FillSanitizerLogs \/ CreateTestFile \/ TellDaemon
    \/ GetDatetimeStamp \/ MoveFile \/ Again

Spec == Init /\ [][Next]_vars

-----------------------------------------------------------------------------
(* The matching of processed files: the function in use and the two that   *)
(* came before it, which are still in the library.                         *)

\* Variant: one slash is trimmed.
TrimmedOnce(name) == IF name # <<>> /\ Head(name) = Slash THEN Tail(name) ELSE name

\* Without leading slashes.
Trimmed(name) ==
    LET i == SelectInSeq(name, LAMBDA c : c # Slash) IN
    IF i = 0 THEN <<>> ELSE SubSeq(name, i, Len(name))

\* _file_match().
FileMatch(name) == IsSuffix(Trimmed(String(base_filename)), name)

\* Variant: memcmp() goes beyond the nul character, as it once did.
NulFileMatchAll(name) == IsSuffix(base_filename, name)

\* _nul_file_match().
NulFileMatch(name) == IsSuffix(String(base_filename), name)

\* _non_nul_file_match() wants room for all of the block.
NonNulFileMatch(name) ==
    Len(name) >= base_filename_len /\ IsSuffix(String(base_filename), name)

-----------------------------------------------------------------------------
(* Properties.                                                             *)

\* Type invariant.
TypeOK ==
    /\ program \in {"source07", "source08"}
    /\ pc \in {"check_dir", "size", "open", "read", "prepend", "logs", "create", "tell",
               "stamp", "move", "over"}
    /\ \A s \in {file, old_test_input, base_filename, test_filename, options, asan_log} :
          s = NULL \/ s \in Seq(Byte)
    /\ entry = NULL \/ (entry.dir \in Directories /\ entry.name \in Seq(Byte))
    /\ {file_size, buff_size, base_filename_len, total_size} \subseteq Nat
    /\ {watched, message, dest_dir, new_abs_filename} \subseteq Seq(Byte)
    /\ Len(datetime_stamp) \in {0, 16}
    /\ now \in Time

\* The inductive invariant of the proofs: what each variable has become of, and
\* when it is there at all.
Chosen == pc # "check_dir" => IsDirectory(watched)

Measured ==
    /\ file \in seen
    /\ pc = "read" => file # NULL
    /\ pc \in {"open", "read"} => \E c \in seen \ {NULL} : file_size = Len(c)

InputRead ==
    old_test_input # NULL =>
        /\ \E c \in seen \ {NULL} : \E k \in 0..Len(c) :
              String(old_test_input) = String(Cut(c, k)) /\ (seen = {c} => k = Len(c))
        /\ String(old_test_input) # <<>> => buff_size = Len(old_test_input)

Prepended ==
    test_filename # NULL =>
        /\ old_test_input # NULL
        /\ IF String(old_test_input) = <<>> THEN test_filename = old_test_input
           ELSE /\ test_filename = watched \o old_test_input
                /\ program = "source08" =>
                       /\ total_size = Len(test_filename)
                       /\ base_filename = old_test_input
                       /\ base_filename_len = Len(old_test_input)

Created ==
    /\ entry # NULL => test_filename # NULL /\ entry = Leaf(Cwd, String(test_filename))
    /\ pc = "tell" => entry # NULL /\ program = "source08"

Informed ==
    /\ message # <<>> => /\ entry # NULL /\ program = "source08"
                         /\ message = String(Cut(test_filename, PIPE_BUFF_SIZE))
    /\ pc \in {"stamp", "move"} => message # <<>>

Stamped ==
    /\ datetime_stamp # <<>> => datetime_stamp = Stamp(now)
    /\ earlier.time \in Time
    /\ earlier.stamp # <<>> => earlier.stamp = Stamp(earlier.time)
    /\ pc = "move" \/ moved # NULL =>
           datetime_stamp # <<>> /\ dest_dir \in Destination /\ message # <<>> /\ Told = entry
    /\ moved # NULL => /\ Last(dest_dir) = Slash /\ moved.dir = dest_dir
                       /\ moved.name = datetime_stamp \o entry.name

Logged == options # NULL => options \in Options /\ asan_log = GetAsanLog(options)

InOrder ==
    /\ old_test_input # NULL => pc \notin {"check_dir", "size", "open", "read"}
    /\ test_filename # NULL =>
           pc \notin {"check_dir", "size", "open", "read", "prepend"}
    /\ pc \in {"logs", "create"} => test_filename # NULL
    /\ options # NULL => pc \in {"create", "tell", "stamp", "move", "over"}
    /\ entry # NULL => pc \in {"tell", "stamp", "move", "over"}
    /\ message # <<>> => pc \in {"stamp", "move", "over"}
    /\ datetime_stamp # <<>> => pc \in {"move", "over"}
    /\ moved # NULL => pc = "over"

NamesInv ==
    /\ TypeOK /\ seen \subseteq Seq(Byte) \cup {NULL}
    /\ Chosen /\ Measured /\ InputRead /\ Prepended /\ Created /\ Informed
    /\ Stamped /\ Logged /\ InOrder

\* The file open() creates is the one that a content of the test input leads to,
\* or the beginning of one that has grown since it was measured: bytes of two
\* contents, or of none, never make a name together.
NamesInput ==
    entry # NULL =>
        \E c \in seen \ {NULL} : \E k \in 0..Len(c) :
            /\ entry = Leaf(Cwd, watched \o String(Cut(c, k)))
            /\ seen = {c} => k = Len(c)

\* The daemon finds the test case under the name it reads from the pipe if this name is
\* absolute and fits into its buffer; a name that is cut within its last part leads it
\* to another file or to none.  (One that is cut before may lead it to the same file,
\* through a directory whose name goes on behind the cut.)
ToldIsOpened ==
    LET path == String(test_filename) IN
    message # <<>> =>
        /\ Head(watched) = Slash /\ Len(path) <= PIPE_BUFF_SIZE => Told = entry
        /\ Len(path) > PIPE_BUFF_SIZE /\ Told = entry =>
               \E i \in (PIPE_BUFF_SIZE + 1)..Len(path) : path[i] = Slash

\* The processed file is in the directory it was meant for and is named for the test
\* case; one that is meant for a directory given without its slash stays where it is.
StaysInPlace ==
    moved # NULL =>
        Last(dest_dir) = Slash /\ moved.dir = dest_dir
        /\ moved.name = datetime_stamp \o entry.name

\* The harness takes the file its own daemon has processed for a match if and only
\* if the input has no slash behind its leading ones.
FindsOwn ==
    moved # NULL =>
        (FileMatch(moved.name) <=>
            \A i, j \in DOMAIN String(base_filename) :
                i < j /\ base_filename[j] = Slash => base_filename[i] = Slash)

\* The matching in use finds what the earlier ones would have found, and they differ
\* only over a leading slash or an input with a nul character.
MatchersAgree ==
    moved # NULL =>
        /\ NonNulFileMatch(moved.name) => NulFileMatch(moved.name)
        /\ NulFileMatch(moved.name) => FileMatch(moved.name)
        /\ FileMatch(moved.name) /\ ~NonNulFileMatch(moved.name) =>
               Head(base_filename) = Slash \/ Contains(base_filename, Nul)

Ordinal(stamp) ==
    [i \in DOMAIN stamp |-> SelectInSeq(Digit, LAMBDA d : d = stamp[i])]

\* Files processed one after the other sort by their names in this order: a month
\* that begins at 00 is wrong, and the order holds all the same.
StampOrder ==
    datetime_stamp # <<>> /\ earlier.stamp # <<>> =>
        (Precedes(Ordinal(earlier.stamp), Ordinal(datetime_stamp))
            <=> Precedes(Fields(earlier.time), Fields(now)))

\* The value of log_path is log in these options.
Assigns(value, log) ==
    \E i \in 1..Len(value) :
        LET setting == LogPath \o log
            end == i + Len(setting) IN
        /\ Cut(SubSeq(value, i, Len(value)), Len(setting)) = setting
        /\ end = Len(value) + 1 \/ value[end] = Blank

\* The sanitizer's log is a whole value of log_path and ends before a blank; it is
\* missing only if log_path is, or is empty.
LogOfOptions ==
    options # NULL =>
        IF asan_log # NULL
        THEN Assigns(options, asan_log) /\ ~Contains(asan_log, Blank)
        ELSE \/ Assigns(options, <<>>)
             \/ \A i, j \in 1..Len(options) : ~Assigns(options, SubSeq(options, i, j))
=============================================================================
