--------------------------- MODULE HareFuzzOutput ---------------------------
(***************************************************************************)
(* How the harness collects the fuzzer's output and fills the test case    *)
(* with it: get_fuzzed_contents(), read_from_process() with its growing    *)
(* buffer, reallocate(), and the write(), fsync() and close() of main().   *)
(*                                                                         *)
(* The output is a sequence of bytes of which only one value matters: 0xFF *)
(* is EOF once fgetc()'s int is stored in a char.  The buffer is its size, *)
(* and how many of its leading bytes are the leading bytes of the output.  *)
(* size_t arithmetic is modulo SizeMax + 1.  Any number of reallocations   *)
(* may fail, in a row too; once a byte has been stored outside the block   *)
(* the process may be killed at any step, and the bytes out there may be   *)
(* changed by whoever owns them.                                           *)
(***************************************************************************)
EXTENDS Integers, Sequences, SequencesExt, FiniteSetsExt

CONSTANTS
    BaseSize,  \* base_size: 512
    SizeMax,   \* SIZE_MAX
    MaxBlock,  \* the largest block calloc() can return (PTRDIFF_MAX)
    MaxOutput  \* bound on the length of the fuzzer's output

ASSUME SizeAssumption ==
    SizeMax \in Nat /\ MaxBlock \in Nat /\ 2 * MaxBlock < SizeMax

ASSUME BaseAssumption == BaseSize \in Nat /\ 2 <= BaseSize /\ BaseSize < MaxBlock

ASSUME OutputAssumption == MaxOutput \in Nat

Byte == {"byte", "0xFF"}

VARIABLES
    pc,
    output,    \* what the process writes
    pos,       \* how much of it fgetc() has returned
    curr_size, \* bytes stored in curr_buff
    base_size, \* the next size to grow at
    space,     \* size of the block curr_buff points to, 0 for NULL
    kept,      \* leading bytes of curr_buff that equal those of the output
    overrun,   \* a byte was stored beyond the block
    failed,    \* calls of reallocate() that failed since it last succeeded
    worst,     \* the largest value of failed so far
    buff_size, \* *buff_size of read_from_process()
    error,     \* read_from_process()'s error
    success,   \* main()'s success
    written,   \* bytes of the test case
    faults     \* the calls on the test file that went wrong

vars == <<pc, output, pos, curr_size, base_size, space, kept, overrun, failed,
          worst, buff_size, error, success, written, faults>>

bufferVars == <<curr_size, base_size, space, kept, overrun, failed, worst>>
resultVars == <<buff_size, error>>
fileVars == <<success, written, faults>>

Init ==
    /\ pc = "alloc"
    /\ output \in BoundedSeq(Byte, MaxOutput)
    /\ pos = 0
    /\ curr_size = 0
    /\ base_size = BaseSize
    /\ space = 0
    /\ kept = 0
    /\ overrun = FALSE
    /\ failed = 0
    /\ worst = 0
    /\ buff_size = 0
    /\ error = FALSE
    /\ success = 0
    /\ written = 0
    /\ faults = {}

SizeT(n) == n % (SizeMax + 1)

\* The command's calloc() and snprintf(), calloc(base_size + 1) and popen():
\* each may fail.
Start ==
    /\ pc = "alloc"
    /\ \/ /\ pc' = "read"
          /\ space' = BaseSize + 1
          /\ UNCHANGED error
       \/ /\ pc' = "return"
          /\ error' = TRUE
          /\ UNCHANGED space
    /\ UNCHANGED <<output, pos, curr_size, base_size, kept, overrun, failed,
                   worst, buff_size, fileVars>>

\* letter = fgetc() is neither EOF nor the byte that compares equal to it.
HasByte == pos < Len(output) /\ output[pos + 1] # "0xFF"

\* Variant: the size is that of the stored bytes, the last one included.
ReadEOFAll ==
    /\ pc = "read"
    /\ ~HasByte
    /\ buff_size' = curr_size
    /\ pc' = "return"
    /\ UNCHANGED <<output, pos, bufferVars, error, fileVars>>

\* Variant: the break is missing.
ReadEOFForEver ==
    /\ pc = "read"
    /\ ~HasByte
    /\ buff_size' = SizeT(curr_size - 1)
    /\ UNCHANGED <<pc, output, pos, bufferVars, error, fileVars>>

\* *buff_size = curr_size - 1: the last character is not counted.
ReadEOF ==
    /\ pc = "read"
    /\ ~HasByte
    /\ buff_size' = SizeT(curr_size - 1)
    /\ pc' = "return"
    /\ UNCHANGED <<output, pos, bufferVars, error, fileVars>>

\* The block ends before the next byte.
Full == curr_size >= space

\* Store the character, increment safely.
ReadByte ==
    /\ pc = "read"
    /\ HasByte
    /\ pos' = pos + 1
    /\ overrun' = (overrun \/ Full)
    /\ \/ kept' = IF kept = curr_size THEN kept + 1 ELSE kept
       \/ Full /\ kept' = kept
    /\ IF SizeMax - 1 > curr_size
         THEN /\ curr_size' = curr_size + 1
              /\ pc' = "grow"
              /\ UNCHANGED error
         ELSE /\ error' = TRUE
              /\ pc' = "return"
              /\ UNCHANGED curr_size
    /\ UNCHANGED <<output, base_size, space, failed, worst, buff_size, fileVars>>

\* Variant: the length is compared after the buffer is full.
LargeEnoughLate == curr_size < base_size + 2

LargeEnough == curr_size < base_size

NoGrowth ==
    /\ pc = "grow"
    /\ LargeEnough
    /\ pc' = "read"
    /\ UNCHANGED <<output, pos, bufferVars, resultVars, fileVars>>

\* Variant: reallocate() copies base_size / 2 bytes only.
GrowForgetting ==
    LET block == SizeT(curr_size + base_size + 1) IN
    /\ pc = "grow"
    /\ ~LargeEnough
    /\ block <= MaxBlock
    /\ space' = block
    /\ kept' = Min({kept, base_size \div 2})
    /\ base_size' = SizeT(base_size + base_size)
    /\ failed' = 0
    /\ pc' = "read"
    /\ UNCHANGED <<output, pos, curr_size, overrun, worst, resultVars, fileVars>>

\* reallocate() returns a block of curr_size + base_size + 1 bytes that
\* begins with the first curr_size ones of the old block.
Grow ==
    LET block == SizeT(curr_size + base_size + 1) IN
    /\ pc = "grow"
    /\ ~LargeEnough
    /\ block <= MaxBlock
    /\ space' = block
    /\ kept' = Min({kept, curr_size})
    /\ base_size' = SizeT(base_size + base_size)
    /\ failed' = 0
    /\ pc' = "read"
    /\ UNCHANGED <<output, pos, curr_size, overrun, worst, resultVars, fileVars>>

\* reallocate() returns NULL: the loop goes on with the old block.
GrowFails ==
    /\ pc = "grow"
    /\ ~LargeEnough
    /\ failed' = failed + 1
    /\ worst' = Max({worst, failed'})
    /\ pc' = "read"
    /\ UNCHANGED <<output, pos, curr_size, base_size, space, kept, overrun,
                   resultVars, fileVars>>

\* get_fuzzed_contents() gives no content, and frees the buffer, when
\* read_from_process() failed or reported a size of 0.
NoContent == error \/ buff_size = 0

\* The end of read_from_process(), where an error frees the buffer, and of
\* get_fuzzed_contents().
Return ==
    /\ pc = "return"
    /\ pc' = "write"
    /\ space' = IF NoContent THEN 0 ELSE space
    /\ UNCHANGED <<output, pos, curr_size, base_size, kept, overrun, failed,
                   worst, resultVars, fileVars>>

\* main(): no content is logged and the file stays empty; a size beyond the
\* address space makes write() fail with EFAULT; and any write() may fail, or
\* write less, of which main() takes no notice.
WriteTestFile ==
    /\ pc = "write"
    /\ pc' = "close"
    /\ \/ /\ space = 0
          /\ UNCHANGED fileVars
       \/ /\ space # 0
          /\ buff_size <= MaxBlock
          /\ written' = buff_size
          /\ UNCHANGED <<success, faults>>
       \/ /\ space # 0
          /\ buff_size <= MaxBlock
          /\ written' \in 1..(buff_size - 1)
          /\ faults' = {"short"}
          /\ UNCHANGED success
       \/ /\ space # 0
          /\ buff_size <= MaxBlock
          /\ success' = 1
          /\ faults' = {"write"}
          /\ UNCHANGED written
       \/ /\ space # 0
          /\ buff_size > MaxBlock
          /\ success' = 1
          /\ UNCHANGED <<written, faults>>
    /\ UNCHANGED <<output, pos, bufferVars, resultVars>>

\* main(): fsync() and close(), the failure of either is an error.
CloseTestFile ==
    /\ pc = "close"
    /\ pc' = "done"
    /\ \E failing \in SUBSET {"fsync", "close"} :
          /\ faults' = faults \cup failing
          /\ success' = IF failing = {} THEN success ELSE 1
    /\ UNCHANGED <<output, pos, bufferVars, resultVars, written>>

Over == pc \in {"done", "killed"}

\* What a store outside the block has overwritten makes a later call of the
\* allocator abort, or the process segfault.
Killed ==
    /\ overrun
    /\ ~Over
    /\ pc' = "killed"
    /\ UNCHANGED <<output, pos, bufferVars, resultVars, fileVars>>

Done == Over /\ UNCHANGED vars

Next ==
    \/ Start \/ ReadEOF \/ ReadByte \/ NoGrowth \/ Grow \/ GrowFails \/ Return
    \/ WriteTestFile \/ CloseTestFile \/ Killed \/ Done

Spec == Init /\ [][Next]_vars

\* The fuzzer's process writes its output and ends, and the harness runs.
FairSpec == Spec /\ WF_vars(Next)

-----------------------------------------------------------------------------
(* Properties.                                                             *)

TypeOK ==
    /\ pc \in {"alloc", "read", "grow", "return", "write", "close", "done", "killed"}
    /\ output \in Seq(Byte)
    /\ pos \in 0..Len(output)
    /\ curr_size \in Nat
    /\ base_size \in Nat
    /\ space \in Nat
    /\ kept \in Nat
    /\ overrun \in BOOLEAN
    /\ failed \in 0..worst
    /\ worst \in Nat
    /\ buff_size \in 0..SizeMax
    /\ error \in BOOLEAN
    /\ success \in {0, 1}
    /\ written \in Nat
    /\ faults \in SUBSET {"short", "write", "fsync", "close"}

\* The terminating check of the loop keeps every store inside the block until
\* two calls of reallocate() fail in a row: one failure is survived because
\* the block has one byte more than base_size.  The code goes on after any
\* number of failures, and then stores outside.
InBounds == overrun => worst >= 2

\* Growing loses nothing: every character that was read is counted, and while
\* no store was outside the block the buffer holds them all.
NothingLost ==
    pc \in {"read", "grow"} =>
        /\ curr_size = pos
        /\ ~overrun => kept = curr_size

\* The bytes before the first 0xFF.
Readable ==
    LET ends == {i \in 1..Len(output) : output[i] = "0xFF"} IN
    IF ends = {} THEN Len(output) ELSE Min(ends) - 1

\* Unless a byte was stored outside the block, the test case is a beginning of
\* the readable output: all of it but its last byte when every call worked,
\* and nothing when an allocation or popen() failed.  main() sees an error
\* when there was no byte at all or a call on the file failed, and no other:
\* neither a short write nor a fuzzer that gave nothing to read.
TestCaseContent ==
    pc = "done" /\ ~overrun =>
        /\ written <= kept
        /\ error \/ Readable = 0 => written = 0
        /\ ~error /\ Readable # 0 =>
               /\ written <= Readable - 1
               /\ faults \cap {"short", "write"} = {} => written = Readable - 1
        /\ success = 1 <=>
               \/ ~error /\ Readable = 0
               \/ faults \cap {"write", "fsync", "close"} # {}

\* The output is read to its end and the test case is written, or the process
\* is killed for what it stored outside the block.
Terminates == <>Over

-----------------------------------------------------------------------------
(* The inductive invariant.                                                *)

Fresh ==
    pc = "alloc" =>
        /\ curr_size = 0 /\ pos = 0 /\ kept = 0 /\ failed = 0 /\ worst = 0
        /\ base_size = BaseSize /\ ~overrun

\* Until a store outside the block, the block's size stays between base_size
\* and its double, and curr_size exceeds base_size by no more than the
\* failures in a row.
Room ==
    pc \in {"read", "grow"} /\ ~overrun =>
        /\ 2 <= base_size /\ base_size < space /\ space < 2 * base_size
        /\ space <= MaxBlock /\ curr_size <= space
        /\ curr_size <= base_size + failed
        /\ pc = "read" => curr_size < base_size + failed

NoEnd == \A i \in 1..pos : output[i] # "0xFF"

Pending ==
    /\ pc \notin {"close", "done", "killed"} => written = 0 /\ success = 0 /\ faults = {}
    /\ pc \in {"alloc", "read", "grow"} => ~error

\* What read_from_process() and then get_fuzzed_contents() leave.
Result ==
    pc \in {"return", "write"} /\ ~overrun =>
        IF error THEN pc = "write" => space = 0
        ELSE /\ Readable \in 0..MaxBlock
             /\ kept = Readable
             /\ buff_size = SizeT(Readable - 1)
             /\ pc = "return" => space # 0
             /\ pc = "write" => (space = 0 <=> buff_size = 0)

\* What write() leaves.
Filled ==
    pc = "close" /\ ~overrun =>
        /\ written <= kept
        /\ error \/ Readable = 0 => written = 0
        /\ ~error /\ Readable # 0 =>
               /\ written <= Readable - 1
               /\ faults = {} => written = Readable - 1
        /\ faults \in {{}, {"short"}, {"write"}}
        /\ success = 1 <=> (~error /\ Readable = 0) \/ faults = {"write"}

\* The invariant ties the loop's counters to the block, the result to the
\* output and the file to the result.
FillInv ==
    /\ TypeOK
    /\ Fresh
    /\ Room
    /\ InBounds
    /\ NothingLost
    /\ NoEnd
    /\ Pending
    /\ Result
    /\ Filled
    /\ TestCaseContent
=============================================================================
