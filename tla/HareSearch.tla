----------------------------- MODULE HareSearch -----------------------------
(***************************************************************************)
(* search_dir() and delete_matching_file(): one process walks the          *)
(* processed directory with nftw() for a file whose name ends with         *)
(* base_filename, while other processes add, rename and delete files in it *)
(* and calloc() may fail.                                                  *)
(*                                                                         *)
(* Names are sequences of characters, for what matters here is where a     *)
(* name begins and ends.  The walk visits in any order what was in the     *)
(* directory when it began and, or not, what was added since.              *)
(***************************************************************************)
EXTENDS Integers, Sequences, FiniteSets

CONSTANTS
    Char,     \* the characters of names
    Slash,    \* '/', which no file name holds
    FileName, \* names of the entries of the directory
    Subdir,   \* those among them that are directories
    Input,    \* test inputs: what base_filename or needle_file may be
    NULL

ASSUME CharAssumption == Slash \in Char /\ NULL \notin Seq(Char)
ASSUME NameAssumption == FileName \subseteq Seq(Char \ {Slash}) /\ Subdir \subseteq FileName
ASSUME InputAssumption == Input \subseteq Seq(Char) /\ <<>> \notin Input

VARIABLES
    base_filename,      \* global: the name of the test case, or NULL
    processed_filename, \* global: the name of the last match, or NULL
    files,              \* what the directory holds
    call,               \* where the call in progress is
    deleting,           \* the call is delete_matching_file()
    needle_file,        \* its argument
    unseen,             \* what nftw() has not visited
    results,            \* the local of that name
    matching_file,      \* what search_dir() returns
    steady,             \* history: files there since the walk began
    offered             \* history: files there at any time since then

vars == <<base_filename, processed_filename, files, call, deleting, needle_file,
          unseen, results, matching_file, steady, offered>>

globals == <<base_filename, processed_filename>>
arguments == <<deleting, needle_file>>
history == <<steady, offered>>

NoMatch == -2
ENOENT == 2

Init ==
    /\ base_filename = NULL
    /\ processed_filename = NULL
    /\ files \in SUBSET FileName
    /\ call = "idle"
    /\ deleting = FALSE
    /\ needle_file = NULL
    /\ unseen = {}
    /\ results = 0
    /\ matching_file = NULL
    /\ steady = {}
    /\ offered = {}

\* Trim leading '/' characters.
Trimmed(name) ==
    LET slashes == {i \in 1..Len(name) : \A j \in 1..i : name[j] = Slash} IN
    SubSeq(name, Cardinality(slashes) + 1, Len(name))

\* Variant: a name as long as the ending is taken for too short.
RoomBeyond(name, ending) == Len(name) > Len(ending)

Room(name, ending) == Len(name) >= Len(ending)

\* Variant: the comparison starts where the name does.
SameStart(name, ending) == \A i \in 1..Len(ending) : name[i] = ending[i]

\* memcmp() of the last bytes of a name that has room for the ending.
SameEnd(name, ending) ==
    \A i \in 1..Len(ending) : name[Len(name) - Len(ending) + i] = ending[i]

\* A regular file whose name ends with the trimmed base_filename.
Matches(f) ==
    /\ f \notin Subdir
    /\ Room(f, Trimmed(base_filename))
    /\ SameEnd(f, Trimmed(base_filename))

-----------------------------------------------------------------------------
(* The calls of the process.                                               *)

\* prepend_test_input() reads a test input, or fails and forgets the last.
PrependTestInput(name) ==
    /\ call = "idle"
    /\ base_filename' = name
    /\ UNCHANGED <<processed_filename, files, call, arguments, unseen, results,
                   matching_file, history>>

\* Both functions validate their arguments and begin the walk; a directory
\* that cannot be verified is an error of the one and no match of the other.
SearchDir(name) ==
    /\ call = "idle"
    /\ needle_file' = name
    /\ deleting' \in BOOLEAN
    /\ matching_file' = NULL
    /\ unseen' = files
    /\ steady' = files
    /\ offered' = files
    /\ \/ call' = "walk" /\ results' = 0
       \/ call' = "done" /\ results' = -1
    /\ UNCHANGED <<globals, files>>

\* _file_match() on one entry: an entry that has gone is no regular file, and
\* without a base_filename every visit is an error.
FileMatch(f) ==
    /\ call = "walk"
    /\ f \in unseen
    /\ unseen' = unseen \ {f}
    /\ \/ /\ base_filename # NULL
          /\ ~(f \in files /\ Matches(f))
          /\ UNCHANGED <<call, results, processed_filename>>
       \/ /\ base_filename # NULL
          /\ f \in files /\ Matches(f)
          /\ call' = "judge"
          /\ \/ results' = 1 /\ processed_filename' = f
             \/ results' = -1 /\ processed_filename' = NULL  \* calloc() failed
       \/ /\ base_filename = NULL
          /\ call' = "judge"
          /\ results' = -1
          /\ processed_filename' = NULL
    /\ UNCHANGED <<base_filename, files, arguments, matching_file, history>>

\* The last visit is to the directory itself, which is not a regular file.
WalkEnds ==
    /\ call = "walk"
    /\ unseen = {}
    /\ call' = "judge"
    /\ IF base_filename = NULL
         THEN results' = -1 /\ processed_filename' = NULL
         ELSE UNCHANGED <<results, processed_filename>>
    /\ UNCHANGED <<base_filename, files, arguments, unseen, matching_file, history>>

\* Variant: whatever processed_filename holds is the match.
JudgeStale ==
    /\ call = "judge"
    /\ unseen' = {}
    /\ matching_file' = processed_filename
    /\ IF deleting /\ matching_file' # NULL
         THEN call' = "verify" /\ UNCHANGED results
         ELSE /\ call' = "done"
              /\ results' = IF deleting THEN NoMatch ELSE results
    /\ UNCHANGED <<globals, files, arguments, history>>

\* _file_matching() and search_dir() turn the walk's result into a name, and
\* delete_matching_file() goes on with that name.
Judge ==
    /\ call = "judge"
    /\ unseen' = {}
    /\ matching_file' = IF results = 1 THEN processed_filename ELSE NULL
    /\ IF deleting /\ matching_file' # NULL
         THEN call' = "verify" /\ UNCHANGED results
         ELSE /\ call' = "done"
              /\ results' = IF deleting THEN NoMatch ELSE results
    /\ UNCHANGED <<globals, files, arguments, history>>

\* delete_file(): the match may have gone, or be another file by now.
VerifyFilename ==
    /\ call = "verify"
    /\ IF matching_file \in files \ Subdir
         THEN call' = "remove" /\ UNCHANGED results
         ELSE call' = "done" /\ results' = -1
    /\ UNCHANGED <<globals, files, arguments, unseen, matching_file, history>>

Remove ==
    /\ call = "remove"
    /\ call' = "done"
    /\ files' = files \ {matching_file}
    /\ results' = IF matching_file \in files THEN 0 ELSE ENOENT
    /\ steady' = steady \ {matching_file}
    /\ UNCHANGED <<globals, arguments, unseen, matching_file, offered>>

\* The caller takes the result, the locals end; main() also frees processed_filename.
Return ==
    /\ call = "done"
    /\ call' = "idle"
    /\ processed_filename' \in {processed_filename, NULL}
    /\ deleting' = FALSE
    /\ needle_file' = NULL
    /\ results' = 0
    /\ matching_file' = NULL
    /\ steady' = {}
    /\ offered' = {}
    /\ UNCHANGED <<base_filename, files, unseen>>

-----------------------------------------------------------------------------
(* The other harnesses and their daemons.                                  *)

AddFile(f) ==
    /\ f \notin files
    /\ files' = files \cup {f}
    /\ unseen' \in IF call = "walk" THEN {unseen, unseen \cup {f}} ELSE {unseen}
    /\ offered' = IF call = "walk" THEN offered \cup {f} ELSE offered
    /\ UNCHANGED <<globals, call, arguments, results, matching_file, steady>>

DeleteFile(f) ==
    /\ f \in files
    /\ files' = files \ {f}
    /\ steady' = steady \ {f}
    /\ UNCHANGED <<globals, call, arguments, unseen, results, matching_file, offered>>

Process ==
    \/ \E name \in Input \cup {NULL} : PrependTestInput(name)
    \/ \E name \in Input : SearchDir(name)
    \/ \E f \in unseen : FileMatch(f)
    \/ WalkEnds \/ Judge \/ VerifyFilename \/ Remove \/ Return

Others == \E f \in FileName : AddFile(f) \/ DeleteFile(f)

Next == Process \/ Others

Spec == Init /\ [][Next]_vars

-----------------------------------------------------------------------------
(* Properties.                                                             *)

TypeOK ==
    /\ base_filename \in Input \cup {NULL}
    /\ processed_filename \in FileName \cup {NULL}
    /\ files \in SUBSET FileName
    /\ call \in {"idle", "walk", "judge", "verify", "remove", "done"}
    /\ deleting \in BOOLEAN
    /\ needle_file \in Input \cup {NULL}
    /\ unseen \in SUBSET FileName
    /\ results \in {NoMatch, -1, 0, 1, ENOENT}
    /\ matching_file \in FileName \cup {NULL}
    /\ steady \in SUBSET FileName
    /\ offered \in SUBSET FileName

\* A name ends with another one: something before it makes up the name.
EndsWith(name, ending) == \E n \in 0..Len(name) : SubSeq(name, n + 1, Len(name)) = ending

\* The file is regular and its name ends with the test input.
Fits(f) == f \notin Subdir /\ EndsWith(f, Trimmed(base_filename))

\* Where the call has its answer.
Answered == call \in {"verify", "remove", "done"}

\* What search_dir() finds fits, and was in the directory at some moment of
\* the walk: processed_filename never hands over the match of another call.
AnswerFits ==
    Answered /\ matching_file # NULL =>
        matching_file \in offered /\ Fits(matching_file)

\* "No match" is the truth about every file that was there all along, however
\* the directory changed during the walk.
NothingMissed ==
    call = "done" /\ results = 0 /\ ~deleting /\ matching_file = NULL =>
        \A f \in steady : ~Fits(f)

\* delete_matching_file() deletes no file but the one it found, and that one
\* ends with the test input.
DeletesFittingFile ==
    [][call = "remove" /\ call' = "done" =>
          \A f \in files \ files' : Fits(f) /\ f = processed_filename]_vars

-----------------------------------------------------------------------------
(* The inductive invariant.                                                *)

\* What the walk has passed and was there all along did not match.
Passed(visited) == base_filename # NULL /\ \A f \in visited : ~Matches(f)

Walked ==
    /\ steady \subseteq files
    /\ call = "walk" =>
          /\ results = 0 /\ matching_file = NULL
          /\ files \subseteq offered
          /\ steady \ unseen # {} => Passed(steady \ unseen)

Judged ==
    call = "judge" =>
        /\ results \in {-1, 0, 1}
        /\ results = 0 => Passed(steady)
        /\ results = 1 =>
              /\ base_filename # NULL
              /\ processed_filename \in offered /\ Matches(processed_filename)

Found ==
    Answered =>
        /\ matching_file # NULL =>
              /\ base_filename # NULL
              /\ matching_file = processed_filename
              /\ matching_file \in offered /\ Matches(matching_file)
        /\ call \in {"verify", "remove"} => deleting /\ matching_file # NULL
        /\ results = 0 /\ ~deleting /\ matching_file = NULL => Passed(steady)

\* The invariant follows the walk: what it passed, what it found, and what
\* became of that.
SearchInv == TypeOK /\ Walked /\ Judged /\ Found
=============================================================================
