---------------------------- MODULE HareCampaign ----------------------------
(***************************************************************************)
(* Fuzzing campaigns: the loops of radamsa_test_harness.sh (source05) and  *)
(* source06_radamsa_test_harness.sh, the latter once for each sanitizer as *)
(* source06_radamsa_all.sh does.  A campaign makes a file with a fuzzed    *)
(* name and content, executes a "bad" binary on it, saves what made it     *)
(* fail and deletes the file; one campaign follows the other in the same   *)
(* directories.  Any cp, rm or printf may fail; the scripts go on.         *)
(*                                                                         *)
(* Where the shell does not quote a name it falls into words, and each     *)
(* word is a pattern that the names of files may replace: of the test      *)
(* directory where the path is executed, of the working directory where    *)
(* the name is saved.                                                      *)
(***************************************************************************)
EXTENDS Integers, FiniteSets

CONSTANTS
    Name,        \* what radamsa may print for a name
    Word,        \* Word[n]: the first word of $TEST_FILE_DIR/$INPUT, a name or NULL
    Matched,     \* Matched[n]: what that word matches in TEST_FILE_DIR if it is there,
                 \* names, and NULL for the directory of crashes
    Saved,       \* Saved[n]: what the first word of $INPUT alone becomes, a name or NULL
    Campaign,    \* the campaigns, in their order: 1..n
    Script,      \* Script[c]: "source05", "base", "ASAN" or "Memwatch"
    NUM_INPUTS,  \* NUM_INPUTS[c]: its argument
    Present,     \* names the test directory may hold at the beginning
    Faults,      \* what may fail: SUBSET FaultKind
    NULL

FaultKind == {"rm_log", "rm", "printf", "cp"}

ASSUME NameAssumption ==
    /\ NULL \notin Name
    /\ Word \in [Name -> Name \cup {NULL}]
    /\ Matched \in [Name -> SUBSET (Name \cup {NULL})]
    /\ Saved \in [Name -> Name \cup {NULL}]
    /\ Present \subseteq Name
ASSUME CampaignAssumption ==
    /\ 1 \in Campaign /\ Campaign \subseteq Nat
    /\ Script \in [Campaign -> {"source05", "base", "ASAN", "Memwatch"}]
    /\ NUM_INPUTS \in [Campaign -> Int]
ASSUME FaultsAssumption == Faults \subseteq FaultKind

VARIABLES
    campaign,          \* the one that runs
    pc,
    INPUT,             \* fuzzed name
    INPUT_NUM,
    FILE_EXISTS,
    CRASH_NUM,
    SAVE_IT,           \* reasons to save the input
    CRASH_FILES_SAVED,
    memwatch_log,      \* executions whose errors memwatch.log holds, NULL without it
    testdir,           \* TEST_FILE_DIR: the content of each name, or NULL
    crashes,           \* CRASHES_FILE_DIR: likewise
    \* history
    execution,         \* how many there were, of all campaigns
    wanting,           \* names and contents that a binary has failed on
    stale,             \* 1 when the log checked has errors, and of others alone
    kept,              \* failed deletions of the log since an execution wrote it
    misled,            \* names saved while it had
    left,              \* names whose file a call that failed has left behind
    saves              \* sum of CRASH_FILES_SAVED over the campaigns before

counters == <<INPUT_NUM, CRASH_NUM, CRASH_FILES_SAVED>>
dirs == <<testdir, crashes>>
log == <<memwatch_log, kept>>
history == <<execution, wanting, stale, misled, left, saves>>
vars == <<campaign, pc, INPUT, FILE_EXISTS, SAVE_IT, counters, log, dirs, history>>

\* A file is told by the execution it was made for, 0 for one that was found, and
\* by whether a "bad" binary fails on it.
Content == [made : Nat, bad : BOOLEAN]

Memwatch == Script[campaign] = "Memwatch"

Init ==
    /\ campaign = 1
    /\ pc = "validate"
    /\ INPUT = NULL
    /\ FILE_EXISTS = 0
    /\ SAVE_IT = 0
    /\ INPUT_NUM = 0 /\ CRASH_NUM = 0 /\ CRASH_FILES_SAVED = 0
    /\ memwatch_log \in {NULL, {}, {0}}
    /\ kept = 0
    /\ testdir \in [Name -> {NULL} \cup [made : {0}, bad : BOOLEAN]]
    /\ \A n \in Name \ Present : testdir[n] = NULL
    /\ crashes = [n \in Name |-> NULL]
    /\ execution = 0
    /\ wanting = {}
    /\ stale = 0
    /\ misled = {}
    /\ left = {}
    /\ saves = 0

Goto(from, to) == pc = from /\ pc' = to

\* Only source06 has a look at its argument: without inputs it exits.
ValidateInputs ==
    /\ Goto("validate", IF Script[campaign] # "source05" /\ NUM_INPUTS[campaign] <= 0
                        THEN "finale" ELSE "clear")
    /\ UNCHANGED <<campaign, INPUT, FILE_EXISTS, SAVE_IT, counters, log, dirs, history>>

\* delete_file "./" "memwatch.log": a missing log is no error, a failure no obstacle.
DeleteLog ==
    \/ memwatch_log' = NULL /\ kept' = 0
    \/ /\ "rm_log" \in Faults
       /\ memwatch_log # NULL
       /\ kept' = kept + 1
       /\ UNCHANGED memwatch_log

\* Variant: only what the execution left is deleted.
ClearLogNever == UNCHANGED log

\* The deletion before an execution.
ClearLog == IF Memwatch THEN DeleteLog ELSE UNCHANGED log

BeforeExecution ==
    /\ Goto("clear", "create")
    /\ ClearLog
    /\ UNCHANGED <<campaign, INPUT, FILE_EXISTS, SAVE_IT, counters, dirs, history>>

\* create_test_file: a file that is there is left as it is, and not every name is
\* one a file can have.  When printf itself fails the file is there all the same,
\* with as much of its content as was written, and counts as not created.
CreateTestFile ==
    /\ Goto("create", "execute")
    /\ INPUT_NUM' = INPUT_NUM + 1
    /\ execution' = execution + 1
    /\ stale' = 0
    /\ \E n \in Name, b \in BOOLEAN :
          /\ INPUT' = n
          /\ \/ /\ testdir[n] = NULL
                /\ testdir' = [testdir EXCEPT ![n] = [made |-> execution', bad |-> b]]
                /\ FILE_EXISTS' = 1
                /\ UNCHANGED left
             \/ /\ testdir[n] = NULL
                /\ "printf" \in Faults
                /\ testdir' = [testdir EXCEPT ![n] = [made |-> execution', bad |-> b]]
                /\ left' = left \cup {n}
                /\ UNCHANGED FILE_EXISTS
             \/ UNCHANGED <<testdir, FILE_EXISTS, left>>
    /\ UNCHANGED <<campaign, CRASH_NUM, CRASH_FILES_SAVED, SAVE_IT, log, crashes, wanting,
                   misled, saves>>

\* What can be seen of an execution on a file that makes the binary fail.
Outcome == SUBSET ({"stderr", "status"} \cup (IF Memwatch THEN {"log"} ELSE {}))

Count(b) == IF b THEN 1 ELSE 0

\* The first word of the path: a pattern becomes the first of the files that match
\* it, in the order of the locale, and stays as it is without one.
Executed(n) ==
    LET found == {m \in Matched[n] : m = NULL \/ testdir[m] # NULL} IN
    IF found = {} THEN {Word[n]} ELSE found

\* The content of a name, NULL for what is no test file.
FileOf(m) == IF m = NULL THEN NULL ELSE testdir[m]

\* The execution of the binary on the first word of the path, the tests of what it
\* printed and returned, and those reasons to save the input that they are.
Execute ==
    /\ Goto("execute", IF Memwatch THEN "check" ELSE "save")
    /\ \E n \in Executed(INPUT), seen \in Outcome :
          LET file == FileOf(n) IN
          /\ file = NULL \/ ~file.bad => seen = {}
          /\ CRASH_NUM' = CRASH_NUM + Count(seen \cap {"stderr", "status"} # {})
          /\ SAVE_IT' = SAVE_IT + Count("status" \in seen)
                        + Count("stderr" \in seen /\ Script[campaign] # "source05")
          /\ wanting' = IF seen = {} THEN wanting ELSE wanting \cup {<<n, file>>}
          /\ memwatch_log' =
                IF ~Memwatch THEN memwatch_log
                ELSE (IF memwatch_log = NULL THEN {} ELSE memwatch_log)
                     \cup (IF "log" \in seen THEN {execution} ELSE {})
    /\ UNCHANGED <<campaign, INPUT, FILE_EXISTS, INPUT_NUM, CRASH_FILES_SAVED, kept, dirs,
                   execution, stale, misled, left, saves>>

\* check_memwatch.py exits with 1 for a log with errors.
CheckMemwatch ==
    /\ Goto("check", "save")
    /\ SAVE_IT' = SAVE_IT + Count(memwatch_log # {})
    /\ stale' = Count(memwatch_log # {} /\ execution \notin memwatch_log)
    /\ UNCHANGED <<campaign, INPUT, FILE_EXISTS, counters, log, dirs, execution, wanting,
                   misled, left, saves>>

\* Variant: the name is quoted here and not where the binary is executed.
SavedNameQuoted(n) == n

\* What save_crash_file copies.
SavedName(n) == Saved[n]

\* save_crash_file: cp -n of a missing file fails, on a name that is taken it
\* succeeds without a copy.  The script of source05 only logs that it did.
SaveCrashFile ==
    LET n == SavedName(INPUT) IN
    /\ Goto("save", "delete")
    /\ \/ SAVE_IT = 0 /\ UNCHANGED <<crashes, CRASH_FILES_SAVED, misled>>
       \/ /\ SAVE_IT # 0
          /\ n # NULL
          /\ testdir[n] # NULL
          /\ crashes' = [crashes EXCEPT ![n] = IF @ = NULL THEN testdir[n] ELSE @]
          /\ CRASH_FILES_SAVED' = CRASH_FILES_SAVED + 1
          /\ misled' = IF stale = 1 THEN misled \cup {n} ELSE misled
       \/ /\ SAVE_IT # 0
          /\ n = NULL \/ testdir[n] = NULL \/ "cp" \in Faults
          /\ UNCHANGED <<crashes, CRASH_FILES_SAVED, misled>>
    /\ UNCHANGED <<campaign, INPUT, FILE_EXISTS, SAVE_IT, INPUT_NUM, CRASH_NUM, log,
                   testdir, execution, wanting, stale, left, saves>>

\* Variant: what was saved is not deleted.
ToDeleteUnsaved == FILE_EXISTS = 1 /\ SAVE_IT = 0

ToDelete == FILE_EXISTS = 1

\* delete_test_file, of a file this iteration has created.
DeleteTestFile ==
    /\ Goto("delete", "clear_again")
    /\ \/ ~ToDelete /\ UNCHANGED <<testdir, FILE_EXISTS, left>>
       \/ /\ ToDelete
          /\ testdir' = [testdir EXCEPT ![INPUT] = NULL]
          /\ FILE_EXISTS' = 0
          /\ UNCHANGED left
       \/ /\ ToDelete
          /\ "rm" \in Faults
          /\ left' = left \cup {INPUT}
          /\ UNCHANGED <<testdir, FILE_EXISTS>>
    /\ UNCHANGED <<campaign, INPUT, SAVE_IT, counters, log, crashes, execution, wanting,
                   stale, misled, saves>>

\* The deletion after an execution.
AfterExecution ==
    /\ Goto("clear_again", "loop")
    /\ IF Memwatch THEN DeleteLog ELSE UNCHANGED log
    /\ UNCHANGED <<campaign, INPUT, FILE_EXISTS, SAVE_IT, counters, dirs, history>>

\* Variant: FILE_EXISTS keeps its value.
ResetForgetting ==
    /\ SAVE_IT' = 0
    /\ UNCHANGED <<FILE_EXISTS, CRASH_FILES_SAVED>>

\* Variant: the count of saved files is reset as well.
ResetAll ==
    /\ FILE_EXISTS' = 0
    /\ SAVE_IT' = 0
    /\ CRASH_FILES_SAVED' = 0

\* Variant: the reasons are not.
ResetButReasons ==
    /\ FILE_EXISTS' = 0
    /\ UNCHANGED <<SAVE_IT, CRASH_FILES_SAVED>>

\* The temporary variables.
Reset ==
    /\ FILE_EXISTS' = 0
    /\ SAVE_IT' = 0
    /\ UNCHANGED CRASH_FILES_SAVED

\* Check Loop.
CheckLoop ==
    /\ \/ /\ INPUT_NUM >= NUM_INPUTS[campaign]
          /\ Goto("loop", "finale")
          /\ UNCHANGED <<FILE_EXISTS, SAVE_IT, CRASH_FILES_SAVED>>
       \/ /\ INPUT_NUM < NUM_INPUTS[campaign]
          /\ Goto("loop", "clear")
          /\ Reset
    /\ UNCHANGED <<campaign, INPUT, INPUT_NUM, CRASH_NUM, log, dirs, history>>

\* The next campaign is a new process in the same directories.
NextCampaign ==
    /\ Goto("finale", "validate")
    /\ campaign + 1 \in Campaign
    /\ campaign' = campaign + 1
    /\ INPUT' = NULL
    /\ FILE_EXISTS' = 0
    /\ SAVE_IT' = 0
    /\ INPUT_NUM' = 0 /\ CRASH_NUM' = 0 /\ CRASH_FILES_SAVED' = 0
    /\ saves' = saves + CRASH_FILES_SAVED
    /\ UNCHANGED <<log, dirs, execution, wanting, stale, misled, left>>

Over == pc = "finale" /\ campaign + 1 \notin Campaign /\ UNCHANGED vars

Next ==
    \/ ValidateInputs \/ BeforeExecution \/ CreateTestFile \/ Execute \/ CheckMemwatch
    \/ SaveCrashFile \/ DeleteTestFile \/ AfterExecution \/ CheckLoop \/ NextCampaign
    \/ Over

Spec == Init /\ [][Next]_vars

-----------------------------------------------------------------------------
(* Properties.                                                             *)

\* Type invariant.
TypeOK ==
    /\ campaign \in Campaign
    /\ pc \in {"validate", "clear", "create", "execute", "check", "save", "delete",
               "clear_again", "loop", "finale"}
    /\ INPUT \in Name \cup {NULL}
    /\ FILE_EXISTS \in {0, 1}
    /\ SAVE_IT \in 0..3
    /\ INPUT_NUM \in Nat
    /\ CRASH_NUM \in 0..INPUT_NUM
    /\ CRASH_FILES_SAVED \in 0..INPUT_NUM
    /\ memwatch_log = NULL \/ memwatch_log \subseteq 0..execution
    /\ testdir \in [Name -> Content \cup {NULL}]
    /\ crashes \in [Name -> Content \cup {NULL}]
    /\ execution \in Nat /\ kept \in Nat /\ saves \in Nat
    /\ stale \in {0, 1}
    /\ left \subseteq Name

\* The errors of another execution are taken for those of this one only if the
\* deletion of the log has failed before it and, unless they were there from the
\* beginning, after the execution that made them.
OwnFinding ==
    stale = 1 /\ pc = "save" => kept >= 1 /\ (memwatch_log # {0} => kept >= 2)

\* Names that are saved for inputs which may have been executed as another name:
\* their word is a pattern, or begins with a blank.
Astray == {Saved[n] : n \in {m \in Name : Matched[m] \cup {Word[m]} # {Saved[m]}}}

\* What is in the directory of crashes is the content, under its name, that a binary
\* has failed on, unless a log that could not be deleted, or a name that becomes one
\* word when it is executed and another when it is saved, leads astray.
SavedWasWanting ==
    \A n \in Name \ Astray :
        crashes[n] # NULL => <<n, crashes[n]>> \in wanting \/ n \in misled

\* A file that was there before is never removed or replaced, and one that a
\* campaign made is gone before the next input, unless a call failed for it.
LeavesDirectory ==
    pc = "clear" =>
        \A n \in Name \ left : testdir[n] # NULL => testdir[n].made = 0

\* No campaign takes a file away that it has found.
SparesFound ==
    [][\A n \in Name : testdir[n] # NULL /\ testdir'[n] # testdir[n]
            => testdir[n].made = execution]_vars

\* The campaigns report no fewer crash files than they have saved.
SavesCounted ==
    LET held == {n \in Name : crashes[n] # NULL} IN
    IsFiniteSet(held) /\ Cardinality(held) <= saves + CRASH_FILES_SAVED

-----------------------------------------------------------------------------
(* The inductive invariant.                                                *)

\* Before a file is created there is none and no reason to save it.
Early == {"validate", "clear", "create"}

\* Executions, files and reasons to save them are counted once for each input.
Counted ==
    /\ pc \in Early => FILE_EXISTS = 0 /\ SAVE_IT = 0
    /\ pc = "execute" => SAVE_IT = 0 /\ CRASH_NUM < INPUT_NUM
    /\ pc = "check" => SAVE_IT <= 2
    /\ pc \in {"execute", "check", "save"} => CRASH_FILES_SAVED < INPUT_NUM
    /\ pc \notin Early \cup {"finale"} => INPUT \in Name

\* A file that a campaign made is the one of this execution, or was left behind.
Made ==
    \A n \in Name \ left :
        testdir[n] # NULL /\ testdir[n].made # 0 =>
            /\ n = INPUT /\ FILE_EXISTS = 1
            /\ pc \in {"execute", "check", "save", "delete"}

\* The file that is going to be deleted.
Own ==
    pc \notin Early \cup {"finale"} /\ FILE_EXISTS = 1 /\ testdir[INPUT] # NULL =>
        testdir[INPUT].made = execution

\* The binary has failed on what the input was executed as.
Wanted ==
    \E n \in Executed(INPUT) : FileOf(n) # NULL /\ <<n, FileOf(n)>> \in wanting

\* A file is saved for what the binary did, or for a stale log.
Reasons ==
    /\ pc = "check" /\ (SAVE_IT # 0 \/ execution \in memwatch_log) => Wanted
    /\ pc = "save" /\ SAVE_IT # 0 => Wanted \/ stale = 1

\* What a log may hold that is not of this execution.
Logged ==
    /\ pc = "execute" => stale = 0 /\ (memwatch_log = NULL \/ execution \notin memwatch_log)
    /\ pc = "check" => Memwatch
    /\ pc \in {"create", "execute"} /\ Memwatch /\ memwatch_log \notin {NULL, {}} =>
          kept >= 1 /\ (memwatch_log # {0} => kept >= 2)
    /\ pc = "check" /\ execution \notin memwatch_log /\ memwatch_log # {} =>
          kept >= 1 /\ (memwatch_log # {0} => kept >= 2)
    /\ /\ pc \in {"validate", "clear", "loop", "finale"} \/ ~Memwatch
       /\ memwatch_log \notin {NULL, {}, {0}}
       => kept >= 1

\* The invariant follows one input from its creation to its deletion, and the log
\* from one execution to the next.
CampaignInv ==
    /\ TypeOK /\ Counted /\ Made /\ Own /\ Reasons /\ Logged
    /\ OwnFinding /\ SavedWasWanting /\ SavesCounted
=============================================================================
