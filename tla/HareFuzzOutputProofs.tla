------------------------ MODULE HareFuzzOutputProofs ------------------------
(***************************************************************************)
(* Proofs about HareFuzzOutput for every BaseSize, SizeMax, MaxBlock and   *)
(* length of the output, whatever calls fail: a store outside the block    *)
(* takes two failed reallocations in a row; without one the loop loses     *)
(* nothing, and the test case is a beginning of the readable output.       *)
(***************************************************************************)
EXTENDS HareFuzzOutput, TLAPS

\* Min of a pair of sizes: the smaller one.
LEMMA MinPair ==
    ASSUME NEW a \in Nat, NEW b \in Nat
    PROVE  Min({a, b}) = IF a <= b THEN a ELSE b
<1> DEFINE m == IF a <= b THEN a ELSE b
<1>1. m \in {a, b} /\ \A y \in {a, b} : m <= y
  OBVIOUS
<1>2. \A x \in {a, b} : (\A y \in {a, b} : x <= y) => x = m
  OBVIOUS
<1> QED
  BY <1>1, <1>2 DEF Min

\* Max of a pair of sizes: the larger one.
LEMMA MaxPair ==
    ASSUME NEW a \in Nat, NEW b \in Nat
    PROVE  Max({a, b}) = IF a >= b THEN a ELSE b
<1> DEFINE m == IF a >= b THEN a ELSE b
<1>1. m \in {a, b} /\ \A y \in {a, b} : m >= y
  OBVIOUS
<1>2. \A x \in {a, b} : (\A y \in {a, b} : x >= y) => x = m
  OBVIOUS
<1> QED
  BY <1>1, <1>2 DEF Max

\* size_t arithmetic does not wrap below SIZE_MAX.
LEMMA SizeTSmall ==
    ASSUME NEW n \in Nat, n <= SizeMax
    PROVE  SizeT(n) = n
  BY SizeAssumption DEF SizeT

\* size_t arithmetic wraps 0 - 1 to SIZE_MAX, and stays a size_t.
LEMMA SizeTBelowZero ==
    SizeT(0 - 1) = SizeMax
  BY SizeAssumption DEF SizeT

\* ... and every result is a size_t.
LEMMA SizeTRange ==
    ASSUME NEW n \in Int
    PROVE  SizeT(n) \in 0..SizeMax
  BY SizeAssumption DEF SizeT

\* The readable part ends where the loop stops: at position p, when no 0xFF
\* comes before and either the output ends there or a 0xFF follows.
LEMMA ReadableStop ==
    ASSUME output \in Seq(Byte), NEW p \in 0..Len(output),
           \A i \in 1..p : output[i] # "0xFF",
           ~(p < Len(output) /\ output[p + 1] # "0xFF")
    PROVE  Readable = p
<1> DEFINE ends == {i \in 1..Len(output) : output[i] = "0xFF"}
<1>0. Len(output) \in Nat
  OBVIOUS
<1>1. CASE p = Len(output)
  <2>1. ends = {}
    BY <1>1
  <2> QED
    BY <1>1, <2>1 DEF Readable
<1>2. CASE p # Len(output)
  <2>1. p + 1 \in ends
    BY <1>0, <1>2
  <2>2. \A i \in ends : p + 1 <= i
    BY <1>0
  <2>3. \A x \in ends : (\A y \in ends : x <= y) => x = p + 1
    BY <1>0, <2>1, <2>2
  <2>4. Min(ends) = p + 1
    BY <2>1, <2>2, <2>3 DEF Min
  <2>5. ends # {}
    BY <2>1
  <2> HIDE DEF ends
  <2>6. Readable = IF ends = {} THEN Len(output) ELSE Min(ends) - 1
    BY DEF Readable, ends
  <2> QED
    BY <2>4, <2>5, <2>6
<1> QED
  BY <1>1, <1>2

\* The initial states satisfy the invariant.
LEMMA InitFill == Init => FillInv
<1> SUFFICES ASSUME Init PROVE FillInv
  OBVIOUS
<1>1. output \in Seq(Byte)
  BY OutputAssumption DEF Init, BoundedSeq, SeqOf
<1>2. TypeOK
  <2>1. overrun \in BOOLEAN /\ error \in BOOLEAN
    BY DEF Init
  <2>2. Len(output) \in Nat
    BY <1>1
  <2> QED
    BY <1>1, <2>1, <2>2, SizeAssumption, BaseAssumption, OutputAssumption
    DEF Init, TypeOK
<1>3. ~overrun
  BY DEF Init
<1> QED
  BY <1>2, <1>3 DEF Init, FillInv, Fresh, Room, InBounds, NothingLost, NoEnd,
              Pending, Result, Filled, TestCaseContent

\* A stored character: without two failures in a row the block has room for it.
LEMMA ReadByteFill ==
    ASSUME FillInv, ReadByte
    PROVE  FillInv'
<1> USE SizeAssumption, BaseAssumption, OutputAssumption DEF FillInv
<1>1. Len(output) \in Nat /\ pos \in Nat /\ pos < Len(output)
  BY DEF TypeOK, ReadByte, HasByte
<1>2. /\ pc = "read" /\ pc' \in {"grow", "return"}
      /\ pos' = pos + 1 /\ curr_size = pos
      /\ curr_size' \in Nat
      /\ pc' = "grow" => curr_size' = curr_size + 1 /\ error' = error
      /\ pc' = "return" => error' = TRUE
      /\ kept' \in {kept, kept + 1}
      /\ UNCHANGED <<output, base_size, space, failed, worst, buff_size, success,
                     written, faults>>
  BY DEF ReadByte, NothingLost, fileVars, TypeOK
<1>3. error' \in BOOLEAN /\ overrun' \in BOOLEAN
  BY DEF ReadByte, TypeOK
<1>4. TypeOK'
  BY <1>1, <1>2, <1>3 DEF TypeOK
<1>5. NoEnd'
  <2>1. output[pos + 1] # "0xFF"
    BY DEF ReadByte, HasByte
  <2> QED
    BY <1>1, <1>2, <2>1 DEF NoEnd
<1>6. CASE overrun
  <2>1. overrun'
    BY <1>6 DEF ReadByte
  <2> QED
    BY <1>2, <1>4, <1>5, <1>6, <2>1
    DEF Fresh, Room, InBounds, NothingLost, Pending, Result, Filled, TestCaseContent
<1>7. CASE ~overrun /\ Full
  <2>1. overrun'
    BY <1>7 DEF ReadByte
  <2>2. worst >= 2
    BY <1>2, <1>7 DEF Room, Full, TypeOK
  <2> QED
    BY <1>2, <1>4, <1>5, <2>1, <2>2
    DEF Fresh, Room, InBounds, NothingLost, Pending, Result, Filled, TestCaseContent
<1>8. CASE ~overrun /\ ~Full
  <2>1. ~overrun'
    BY <1>8 DEF ReadByte
  <2>2. /\ curr_size < space /\ curr_size < SizeMax - 1
        /\ curr_size < base_size + failed
    BY <1>2, <1>8 DEF Room, Full, TypeOK
  <2>3. pc' = "grow"
    BY <2>2 DEF ReadByte, TypeOK
  <2>4. kept = curr_size /\ kept' = kept + 1
    BY <1>8 DEF ReadByte, NothingLost
  <2>5. Room'
    BY <1>2, <1>8, <2>2, <2>3 DEF Room, TypeOK
  <2> QED
    BY <1>2, <1>4, <1>5, <2>1, <2>3, <2>4, <2>5
    DEF Fresh, InBounds, NothingLost, Pending, Result, Filled, TestCaseContent
<1> QED
  BY <1>6, <1>7, <1>8

\* A reallocation: while no store was outside the block no size wraps, and the
\* new block has room again.
LEMMA GrowFill ==
    ASSUME FillInv, Grow
    PROVE  FillInv'
<1> USE SizeAssumption, BaseAssumption, OutputAssumption DEF FillInv
<1>1. /\ curr_size \in Nat /\ base_size \in Nat /\ space \in Nat /\ kept \in Nat
      /\ base_size <= curr_size
  BY DEF Grow, LargeEnough, TypeOK
<1>2. /\ SizeT(curr_size + base_size + 1) \in Nat
      /\ SizeT(base_size + base_size) \in Nat
  BY <1>1, SizeTRange
<1>3. Min({kept, curr_size}) = IF kept <= curr_size THEN kept ELSE curr_size
  BY <1>1, MinPair
<1>4. /\ pc = "grow" /\ pc' = "read"
      /\ space' = SizeT(curr_size + base_size + 1) /\ space' <= MaxBlock
      /\ base_size' = SizeT(base_size + base_size)
      /\ kept' = Min({kept, curr_size}) /\ failed' = 0
      /\ UNCHANGED <<output, pos, curr_size, overrun, worst, buff_size, error,
                     success, written, faults>>
  BY DEF Grow, resultVars, fileVars
<1>5. TypeOK'
  BY <1>1, <1>2, <1>3, <1>4 DEF TypeOK
<1>6. Room' /\ NothingLost'
  <2>1. CASE overrun
    BY <1>4, <2>1 DEF Room, NothingLost
  <2>2. CASE ~overrun
    <3>1. /\ 2 <= base_size /\ base_size < space /\ space < 2 * base_size
          /\ space <= MaxBlock /\ curr_size <= space /\ kept = curr_size /\ curr_size = pos
      BY <1>4, <2>2 DEF Room, NothingLost
    <3>2. SizeT(base_size + base_size) = base_size + base_size
      BY <1>1, <3>1, SizeTSmall
    <3>3. SizeT(curr_size + base_size + 1) = curr_size + base_size + 1
      BY <1>1, <3>1, SizeTSmall
    <3>4. /\ space' = curr_size + base_size + 1
          /\ base_size' = base_size + base_size
          /\ kept' = curr_size
      BY <1>3, <1>4, <3>1, <3>2, <3>3
    <3>5. Room'
      BY <1>1, <1>4, <3>1, <3>4 DEF Room
    <3>6. NothingLost'
      BY <1>1, <1>4, <3>1, <3>4 DEF NothingLost
    <3> QED
      BY <3>5, <3>6
  <2> QED
    BY <2>1, <2>2
<1> QED
  BY <1>4, <1>5, <1>6
  DEF Fresh, InBounds, NoEnd, Pending, Result, Filled, TestCaseContent

\* A failed reallocation: one more in a row.
LEMMA GrowFailsFill ==
    ASSUME FillInv, GrowFails
    PROVE  FillInv'
<1> USE SizeAssumption, BaseAssumption, OutputAssumption DEF FillInv
<1>1. /\ pc = "grow" /\ pc' = "read" /\ failed' = failed + 1
      /\ worst' = Max({worst, failed'})
      /\ UNCHANGED <<output, pos, curr_size, base_size, space, kept, overrun,
                     buff_size, error, success, written, faults>>
  BY DEF GrowFails, resultVars, fileVars
<1>2. worst \in Nat /\ failed \in Nat /\ failed <= worst
  BY DEF TypeOK
<1>3. Max({worst, failed'}) = IF worst >= failed' THEN worst ELSE failed'
  BY <1>1, <1>2, MaxPair
<1>4. worst' \in Nat /\ worst' >= worst /\ failed' \in 0..worst'
  BY <1>1, <1>2, <1>3
<1>5. TypeOK'
  BY <1>1, <1>4 DEF TypeOK
<1>6. Room'
  BY <1>1, <1>2 DEF Room, TypeOK
<1>7. InBounds'
  BY <1>1, <1>2, <1>4 DEF InBounds
<1> QED
  BY <1>1, <1>5, <1>6, <1>7
  DEF Fresh, NothingLost, NoEnd, Pending, Result, Filled, TestCaseContent

\* The end of the output, or a byte taken for it: the reported size.
LEMMA ReadEOFFill ==
    ASSUME FillInv, ReadEOF
    PROVE  FillInv'
<1> USE SizeAssumption, BaseAssumption, OutputAssumption DEF FillInv
<1>1. /\ pc = "read" /\ pc' = "return" /\ buff_size' = SizeT(curr_size - 1)
      /\ UNCHANGED <<output, pos, curr_size, base_size, space, kept, overrun,
                     failed, worst, error, success, written, faults>>
  BY DEF ReadEOF, bufferVars, fileVars
<1>2. Readable = pos
  BY ReadableStop DEF ReadEOF, HasByte, NoEnd, TypeOK
<1>3. Readable' = Readable
  BY <1>1 DEF Readable
<1>4. buff_size' \in 0..SizeMax
  BY <1>1, SizeTRange DEF TypeOK
<1>5. TypeOK'
  BY <1>1, <1>4 DEF TypeOK
<1>6. Result'
  <2> SUFFICES ASSUME ~overrun PROVE Result'
    BY <1>1 DEF Result
  <2>1. /\ ~error /\ curr_size = pos /\ kept = curr_size
        /\ curr_size <= MaxBlock /\ space # 0
    BY <1>1 DEF Pending, NothingLost, Room, TypeOK
  <2>2. Readable' \in 0..MaxBlock /\ (kept = Readable)'
    BY <1>1, <1>2, <1>3, <2>1, <1>5 DEF TypeOK
  <2>3. (buff_size = SizeT(Readable - 1))'
    BY <1>1, <1>2, <1>3, <2>1 DEF SizeT
  <2> QED
    BY <1>1, <2>1, <2>2, <2>3 DEF Result
<1> QED
  BY <1>1, <1>5, <1>6
  DEF Fresh, Room, InBounds, NothingLost, NoEnd, Pending, Filled, TestCaseContent

\* A readable output of n bytes is reported as n - 1 bytes, which is 0 for one
\* byte and beyond every block for none.
LEMMA ReportedSize ==
    ASSUME NEW n \in Nat, n <= MaxBlock
    PROVE  /\ n = 0 => SizeT(n - 1) > MaxBlock
           /\ n # 0 => SizeT(n - 1) = n - 1
<1>1. CASE n = 0
  BY <1>1, SizeTBelowZero, SizeAssumption
<1>2. CASE n # 0
  BY <1>2, SizeTSmall, SizeAssumption
<1> QED
  BY <1>1, <1>2

\* The end of read_from_process() and of get_fuzzed_contents().
LEMMA ReturnFill ==
    ASSUME FillInv, Return
    PROVE  FillInv'
<1> USE SizeAssumption, BaseAssumption, OutputAssumption DEF FillInv
<1>1. /\ pc = "return" /\ pc' = "write"
      /\ space' = IF error \/ buff_size = 0 THEN 0 ELSE space
      /\ UNCHANGED <<output, pos, curr_size, base_size, kept, overrun, failed,
                     worst, buff_size, error, success, written, faults>>
  BY DEF Return, NoContent, resultVars, fileVars
<1>2. Readable' = Readable
  BY <1>1 DEF Readable
<1>3. TypeOK'
  BY <1>1 DEF TypeOK
<1>4. Result'
  BY <1>1, <1>2 DEF Result, SizeT
<1> QED
  BY <1>1, <1>3, <1>4
  DEF Fresh, Room, InBounds, NothingLost, NoEnd, Pending, Filled, TestCaseContent

\* main()'s write(): the file gets the reported bytes, fewer, or none.
LEMMA WriteTestFileFill ==
    ASSUME FillInv, WriteTestFile
    PROVE  FillInv'
<1> USE SizeAssumption, BaseAssumption, OutputAssumption DEF FillInv
<1>1. /\ pc = "write" /\ pc' = "close"
      /\ UNCHANGED <<output, pos, curr_size, base_size, space, kept, overrun,
                     failed, worst, buff_size, error>>
  BY DEF WriteTestFile, bufferVars, resultVars
<1>2. written = 0 /\ success = 0 /\ faults = {}
  BY <1>1 DEF Pending
<1>3. buff_size \in Nat
  BY DEF TypeOK
<1>4. \/ space = 0 /\ written' = 0 /\ success' = 0 /\ faults' = {}
      \/ /\ space # 0 /\ buff_size <= MaxBlock
         /\ \/ written' = buff_size /\ success' = 0 /\ faults' = {}
            \/ written' \in 1..(buff_size - 1) /\ success' = 0 /\ faults' = {"short"}
            \/ written' = 0 /\ success' = 1 /\ faults' = {"write"}
      \/ /\ space # 0 /\ buff_size > MaxBlock
         /\ written' = 0 /\ success' = 1 /\ faults' = {}
  BY <1>2 DEF WriteTestFile, fileVars
<1>5. Readable' = Readable
  BY <1>1 DEF Readable
<1>6. TypeOK'
  <2>1. written' \in Nat
    BY <1>3, <1>4
  <2>2. success' \in {0, 1} /\ faults' \in SUBSET {"short", "write", "fsync", "close"}
    BY <1>4
  <2> QED
    BY <1>1, <2>1, <2>2 DEF TypeOK
<1>7. Filled'
  <2> SUFFICES ASSUME ~overrun PROVE Filled'
    BY <1>1 DEF Filled
  <2>1. CASE error
    <3>1. space = 0 /\ kept \in Nat
      BY <1>1, <2>1 DEF Result, TypeOK
    <3> QED
      BY <1>1, <1>4, <2>1, <3>1 DEF Filled
  <2>2. CASE ~error
    <3>1. /\ Readable \in Nat /\ Readable <= MaxBlock /\ kept = Readable
          /\ buff_size = SizeT(Readable - 1)
          /\ space = 0 <=> buff_size = 0
      BY <1>1, <2>2 DEF Result
    <3>2. /\ Readable = 0 => buff_size > MaxBlock
          /\ Readable # 0 => buff_size = Readable - 1
      BY <3>1, ReportedSize
    <3>3. CASE Readable = 0
      <4>1. written' = 0 /\ success' = 1 /\ faults' = {}
        BY <1>3, <1>4, <3>1, <3>2, <3>3
      <4> QED
        BY <1>1, <1>5, <2>2, <3>1, <3>3, <4>1 DEF Filled
    <3>4. CASE Readable # 0
      <4>0. buff_size = Readable - 1 /\ ~(buff_size > MaxBlock)
        BY <3>1, <3>2, <3>4
      <4>1. /\ written' \in Nat /\ written' <= Readable - 1
            /\ faults' = {} => written' = Readable - 1
            /\ faults' \in {{}, {"short"}, {"write"}}
        <5>1. {"short"} # {} /\ {"write"} # {}
          OBVIOUS
        <5>2. space = 0 => buff_size = 0
          BY <3>1
        <5> QED
          BY <1>3, <1>4, <4>0, <5>1, <5>2
      <4>2. success' = 1 <=> faults' = {"write"}
        <5>1. {"short"} # {"write"} /\ {} # {"write"}
          OBVIOUS
        <5> QED
          BY <1>4, <4>0, <5>1
      <4> QED
        BY <1>1, <1>5, <2>2, <3>1, <3>4, <4>1, <4>2 DEF Filled
    <3> QED
      BY <3>3, <3>4
  <2> QED
    BY <2>1, <2>2
<1> QED
  BY <1>1, <1>6, <1>7
  DEF Fresh, Room, InBounds, NothingLost, NoEnd, Pending, Result, TestCaseContent

\* main()'s fsync() and close(): they change no byte of the file.
LEMMA CloseTestFileFill ==
    ASSUME FillInv, CloseTestFile
    PROVE  FillInv'
<1> USE SizeAssumption, BaseAssumption, OutputAssumption DEF FillInv
<1>1. /\ pc = "close" /\ pc' = "done"
      /\ UNCHANGED <<output, pos, curr_size, base_size, space, kept, overrun,
                     failed, worst, buff_size, error, written>>
  BY DEF CloseTestFile, bufferVars, resultVars
<1>2. PICK failing \in SUBSET {"fsync", "close"} :
          /\ faults' = faults \cup failing
          /\ success' = IF failing = {} THEN success ELSE 1
  BY DEF CloseTestFile
<1>3. Readable' = Readable
  BY <1>1 DEF Readable
<1>4. TypeOK'
  <2>1. success' \in {0, 1}
    BY <1>2 DEF TypeOK
  <2>2. faults' \in SUBSET {"short", "write", "fsync", "close"}
    BY <1>2 DEF TypeOK
  <2> QED
    BY <1>1, <2>1, <2>2 DEF TypeOK
<1>5. TestCaseContent'
  <2> SUFFICES ASSUME ~overrun PROVE TestCaseContent'
    BY <1>1 DEF TestCaseContent
  <2>1. /\ written <= kept
        /\ error \/ Readable = 0 => written = 0
        /\ ~error /\ Readable # 0 =>
               /\ written <= Readable - 1
               /\ faults = {} => written = Readable - 1
        /\ faults \in {{}, {"short"}, {"write"}}
        /\ success = 1 <=> (~error /\ Readable = 0) \/ faults = {"write"}
    BY <1>1 DEF Filled
  <2>2. faults' \cap {"short", "write"} = faults
    BY <1>2, <2>1
  <2>3. faults' \cap {"write", "fsync", "close"} # {} <=>
            failing # {} \/ faults = {"write"}
    BY <1>2, <2>1
  <2>4. success' = 1 <=> failing # {} \/ success = 1
    BY <1>2
  <2>5. success' = 1 <=> \/ ~error /\ Readable = 0
                         \/ faults' \cap {"write", "fsync", "close"} # {}
    BY <2>1, <2>3, <2>4
  <2> QED
    BY <1>1, <1>3, <2>1, <2>2, <2>5 DEF TestCaseContent
<1> QED
  BY <1>1, <1>4, <1>5
  DEF Fresh, Room, InBounds, NothingLost, NoEnd, Pending, Result, Filled

\* The steps that move pc and little else.
LEMMA SmallStepsFill ==
    ASSUME FillInv, Start \/ NoGrowth \/ Killed
    PROVE  FillInv'
<1> USE SizeAssumption, BaseAssumption, OutputAssumption DEF FillInv
<1>1. CASE Start
  <2>1. TypeOK'
    <3>1. error' \in BOOLEAN
      BY <1>1 DEF Start, TypeOK
    <3> QED
      BY <1>1, <3>1 DEF Start, TypeOK, fileVars
  <2>2. /\ pc = "alloc" /\ pc' \in {"read", "return"}
        /\ pc' = "read" => space' = BaseSize + 1 /\ error' = error
        /\ pc' = "return" => error' = TRUE
        /\ UNCHANGED <<output, pos, curr_size, base_size, kept, overrun, failed,
                       worst, buff_size, success, written, faults>>
    BY <1>1 DEF Start, fileVars
  <2> QED
    BY <2>1, <2>2 DEF TypeOK, Fresh, Room, InBounds, NothingLost, NoEnd, Pending,
                      Result, Filled, TestCaseContent
<1>2. CASE NoGrowth
  <2>1. /\ pc = "grow" /\ pc' = "read" /\ curr_size < base_size
        /\ UNCHANGED <<output, pos, curr_size, base_size, space, kept, overrun,
                       failed, worst, buff_size, error, success, written, faults>>
    BY <1>2 DEF NoGrowth, LargeEnough, bufferVars, resultVars, fileVars
  <2>2. TypeOK'
    BY <2>1 DEF TypeOK
  <2> QED
    BY <2>1, <2>2 DEF TypeOK, Fresh, Room, InBounds, NothingLost, NoEnd, Pending,
                      Result, Filled, TestCaseContent
<1>3. CASE Killed
  <2>1. /\ pc' = "killed" /\ overrun
        /\ UNCHANGED <<output, pos, curr_size, base_size, space, kept, overrun,
                       failed, worst, buff_size, error, success, written, faults>>
    BY <1>3 DEF Killed, bufferVars, resultVars, fileVars
  <2>2. TypeOK'
    BY <2>1 DEF TypeOK
  <2> QED
    BY <2>1, <2>2 DEF Fresh, Room, InBounds, NothingLost, NoEnd, Pending, Result,
                      Filled, TestCaseContent
<1> QED
  BY <1>1, <1>2, <1>3

\* Nothing moves.
LEMMA StutterFill ==
    ASSUME FillInv, UNCHANGED vars
    PROVE  FillInv'
  BY DEF FillInv, TypeOK, Fresh, Room, InBounds, NothingLost, NoEnd, Pending, Result,
         Filled, TestCaseContent, Readable, SizeT, vars

\* The invariant of the loop holds in every reachable state, for every size
\* and output, whatever calls fail.
THEOREM FillInvariant == Spec => []FillInv
<1>1. Init => FillInv
  BY InitFill
<1>2. FillInv /\ [Next]_vars => FillInv'
  <2> SUFFICES ASSUME FillInv, [Next]_vars PROVE FillInv'
    OBVIOUS
  <2>1. CASE Start \/ NoGrowth \/ Killed
    BY <2>1, SmallStepsFill
  <2>2. CASE ReadEOF
    BY <2>2, ReadEOFFill
  <2>3. CASE ReadByte
    BY <2>3, ReadByteFill
  <2>4. CASE Grow
    BY <2>4, GrowFill
  <2>5. CASE GrowFails
    BY <2>5, GrowFailsFill
  <2>6. CASE Return
    BY <2>6, ReturnFill
  <2>7. CASE WriteTestFile
    BY <2>7, WriteTestFileFill
  <2>8. CASE CloseTestFile
    BY <2>8, CloseTestFileFill
  <2>9. CASE Done \/ UNCHANGED vars
    BY <2>9, StutterFill DEF Done
  <2> QED
    BY <2>1, <2>2, <2>3, <2>4, <2>5, <2>6, <2>7, <2>8, <2>9 DEF Next
<1> QED
  BY <1>1, <1>2, PTL DEF Spec

\* A character is stored outside the block only after two reallocations have
\* failed in a row.
THEOREM StoresInBounds == Spec => []InBounds
<1>1. FillInv => InBounds
  BY DEF FillInv
<1> QED
  BY <1>1, FillInvariant, PTL

\* The test case is a beginning of the readable output, all of it but the last
\* byte when every call worked, and what main() sees as an error is exact, as
\* long as no byte was stored outside the block.
THEOREM ContentOfTestCase == Spec => []TestCaseContent
<1>1. FillInv => TestCaseContent
  BY DEF FillInv
<1> QED
  BY <1>1, FillInvariant, PTL

\* The counters of the reading loop keep their types: the reported size stays a
\* size_t, whatever the output.
THEOREM TypeCorrect == Spec => []TypeOK
<1>1. FillInv => TypeOK
  BY DEF FillInv
<1> QED
  BY <1>1, FillInvariant, PTL

\* No character that was read is lost while the block grows, unless it was
\* stored outside the block.
THEOREM NoneLost == Spec => []NothingLost
<1>1. FillInv => NothingLost
  BY DEF FillInv
<1> QED
  BY <1>1, FillInvariant, PTL
=============================================================================
