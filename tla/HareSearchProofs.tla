-------------------------- MODULE HareSearchProofs --------------------------
(***************************************************************************)
(* Proofs about HareSearch for every alphabet, directory and test input:   *)
(* the memcmp() of the code decides whether one name ends with another,    *)
(* and a walk under concurrent changes neither finds what does not fit nor *)
(* misses what was there all along.                                        *)
(***************************************************************************)
EXTENDS HareSearch, SequenceTheorems, FiniteSetTheorems, TLAPS

\* A trimmed name is a name.
LEMMA TrimmedIsName ==
    ASSUME NEW name \in Seq(Char)
    PROVE  Trimmed(name) \in Seq(Char)
<1> DEFINE slashes == {i \in 1..Len(name) : \A j \in 1..i : name[j] = Slash}
<1>1. Len(name) \in Nat
  OBVIOUS
<1>2. IsFiniteSet(1..Len(name))
  BY <1>1, FS_Interval
<1>3. slashes \subseteq 1..Len(name)
  OBVIOUS
<1>4. Cardinality(slashes) \in Nat
  BY <1>2, <1>3, FS_Subset, FS_CardinalityType
<1> DEFINE k == Cardinality(slashes)
<1>5. Trimmed(name) = SubSeq(name, k + 1, Len(name))
  BY DEF Trimmed
<1> HIDE DEF k
<1>6. k \in Nat
  BY <1>4 DEF k
<1>7. \A i \in (k + 1)..Len(name) : name[i] \in Char
  BY <1>1, <1>6
<1>8. SubSeq(name, k + 1, Len(name)) \in Seq(Char)
  BY <1>1, <1>6, <1>7, SubSeqProperties
<1> QED
  BY <1>5, <1>8

\* The comparison of the code, on a name with room for the ending, is whether
\* the name ends with it.
LEMMA SameEndIsEndsWith ==
    ASSUME NEW name \in Seq(Char), NEW ending \in Seq(Char)
    PROVE  Room(name, ending) /\ SameEnd(name, ending) <=> EndsWith(name, ending)
<1>1. Len(name) \in Nat /\ Len(ending) \in Nat
  OBVIOUS
<1>2. \A n \in 0..Len(name) :
         /\ SubSeq(name, n + 1, Len(name)) \in Seq(Char)
         /\ Len(SubSeq(name, n + 1, Len(name))) = Len(name) - n
         /\ \A i \in 1..(Len(name) - n) : SubSeq(name, n + 1, Len(name))[i] = name[n + i]
  <2> SUFFICES ASSUME NEW n \in 0..Len(name)
               PROVE  /\ SubSeq(name, n + 1, Len(name)) \in Seq(Char)
                      /\ Len(SubSeq(name, n + 1, Len(name))) = Len(name) - n
                      /\ \A i \in 1..(Len(name) - n) :
                            SubSeq(name, n + 1, Len(name))[i] = name[n + i]
    OBVIOUS
  <2>1. \A i \in (n + 1)..Len(name) : name[i] \in Char
    BY <1>1
  <2>2. n + 1 \in Int /\ Len(name) \in Int
    BY <1>1
  <2>3. /\ SubSeq(name, n + 1, Len(name)) \in Seq(Char)
        /\ Len(SubSeq(name, n + 1, Len(name))) =
               IF n + 1 <= Len(name) THEN Len(name) - (n + 1) + 1 ELSE 0
        /\ \A i \in 1..(Len(name) - (n + 1) + 1) :
               SubSeq(name, n + 1, Len(name))[i] = name[n + 1 + i - 1]
    BY <2>1, <2>2, SubSeqProperties
  <2> QED
    BY <1>1, <2>3
<1>3. ASSUME Room(name, ending), SameEnd(name, ending)
      PROVE  EndsWith(name, ending)
  <2> DEFINE n == Len(name) - Len(ending)
             tail == SubSeq(name, n + 1, Len(name))
  <2>1. n \in 0..Len(name)
    BY <1>1, <1>3 DEF Room
  <2>2. tail \in Seq(Char) /\ Len(tail) = Len(ending)
    BY <1>1, <1>2, <2>1
  <2>3. \A i \in 1..Len(tail) : tail[i] = ending[i]
    <3> SUFFICES ASSUME NEW i \in 1..Len(tail) PROVE tail[i] = ending[i]
      OBVIOUS
    <3>1. i \in 1..Len(ending) /\ i \in 1..(Len(name) - n)
      BY <1>1, <2>2
    <3>2. tail[i] = name[n + i]
      BY <1>2, <2>1, <3>1
    <3>3. name[Len(name) - Len(ending) + i] = ending[i]
      BY <1>3, <3>1 DEF SameEnd
    <3> QED
      BY <3>2, <3>3
  <2>4. tail = ending
    BY <2>2, <2>3, SeqEqual
  <2> QED
    BY <2>1, <2>4 DEF EndsWith
<1>4. ASSUME EndsWith(name, ending)
      PROVE  Room(name, ending) /\ SameEnd(name, ending)
  <2>1. PICK n \in 0..Len(name) : SubSeq(name, n + 1, Len(name)) = ending
    BY <1>4 DEF EndsWith
  <2>2. Len(ending) = Len(name) - n
    BY <1>2, <2>1
  <2>3. Room(name, ending)
    BY <1>1, <2>1, <2>2 DEF Room
  <2>4. \A i \in 1..Len(ending) : ending[i] = name[n + i]
    BY <1>2, <2>1, <2>2
  <2>5. n = Len(name) - Len(ending)
    BY <1>1, <2>1, <2>2
  <2>6. SameEnd(name, ending)
    BY <2>4, <2>5 DEF SameEnd
  <2> QED
    BY <2>3, <2>6
<1> QED
  BY <1>3, <1>4

\* Therefore a match fits, and what does not match does not fit.
LEMMA MatchesFits ==
    ASSUME TypeOK, base_filename # NULL, NEW f \in FileName
    PROVE  Matches(f) <=> Fits(f)
<1>1. base_filename \in Seq(Char)
  BY InputAssumption DEF TypeOK
<1>2. Trimmed(base_filename) \in Seq(Char)
  BY <1>1, TrimmedIsName
<1>3. f \in Seq(Char)
  <2>1. Seq(Char \ {Slash}) \subseteq Seq(Char)
    OBVIOUS
  <2> QED
    BY <2>1, NameAssumption
<1> QED
  BY <1>2, <1>3, SameEndIsEndsWith DEF Matches, Fits

\* The initial states satisfy the invariant.
LEMMA InitSearch == Init => SearchInv
  BY DEF Init, SearchInv, TypeOK, Walked, Judged, Found, Answered

\* NULL is no file name.
LEMMA NullIsNoFile == NULL \notin FileName /\ NULL \notin Input
<1>1. Seq(Char \ {Slash}) \subseteq Seq(Char)
  OBVIOUS
<1> QED
  BY <1>1, CharAssumption, NameAssumption, InputAssumption

\* One visit of the walk.
LEMMA FileMatchSearch ==
    ASSUME SearchInv, NEW f \in unseen, FileMatch(f)
    PROVE  SearchInv'
<1> USE DEF SearchInv
<1>1. /\ call = "walk" /\ unseen' = unseen \ {f}
      /\ results = 0 /\ matching_file = NULL /\ f \in FileName
      /\ UNCHANGED <<base_filename, files, deleting, needle_file, matching_file,
                     steady, offered>>
  BY DEF FileMatch, Walked, TypeOK, arguments, history
<1>2. \A x : Matches(x)' = Matches(x)
  BY <1>1 DEF Matches, Trimmed
<1>3. CASE base_filename # NULL /\ ~(f \in files /\ Matches(f))
           /\ UNCHANGED <<call, results, processed_filename>>
  <2>1. TypeOK'
    BY <1>1, <1>3 DEF TypeOK
  <2>2. Walked'
    <3>1. \A x \in steady \ unseen' : ~Matches(x)
      BY <1>1, <1>3 DEF Walked, Passed
    <3> QED
      BY <1>1, <1>2, <1>3, <3>1 DEF Walked, Passed
  <2> QED
    BY <1>1, <1>3, <2>1, <2>2 DEF Judged, Found, Answered
<1>4. CASE /\ base_filename # NULL /\ f \in files /\ Matches(f) /\ call' = "judge"
           /\ results' = 1 /\ processed_filename' = f
  <2>1. TypeOK'
    BY <1>1, <1>4 DEF TypeOK
  <2> QED
    BY <1>1, <1>2, <1>4, <2>1 DEF Walked, Judged, Found, Answered
<1>5. CASE call' = "judge" /\ results' = -1 /\ processed_filename' = NULL
  <2>1. TypeOK'
    BY <1>1, <1>5 DEF TypeOK
  <2> QED
    BY <1>1, <1>5, <2>1 DEF Walked, Judged, Found, Answered
<1> QED
  BY <1>3, <1>4, <1>5 DEF FileMatch

\* The walk ends with everything passed.
LEMMA WalkEndsSearch ==
    ASSUME SearchInv, WalkEnds
    PROVE  SearchInv'
<1> USE DEF SearchInv
<1>1. /\ call = "walk" /\ call' = "judge" /\ unseen = {}
      /\ results = 0 /\ matching_file = NULL
      /\ UNCHANGED <<base_filename, files, deleting, needle_file, unseen,
                     matching_file, steady, offered>>
  BY DEF WalkEnds, Walked, arguments, history
<1>2. \A x : Matches(x)' = Matches(x)
  BY <1>1 DEF Matches, Trimmed
<1>3. /\ base_filename = NULL => results' = -1 /\ processed_filename' = NULL
      /\ base_filename # NULL => UNCHANGED <<results, processed_filename>>
  BY DEF WalkEnds
<1>4. TypeOK'
  BY <1>1, <1>3 DEF TypeOK
<1>5. base_filename # NULL => Passed(steady)
  BY <1>1 DEF Walked, Passed
<1>6. base_filename # NULL => Passed(steady)'
  BY <1>1, <1>2, <1>5 DEF Passed
<1>7. Judged'
  BY <1>1, <1>3, <1>6 DEF Judged
<1> QED
  BY <1>1, <1>4, <1>7 DEF Walked, Found, Answered

\* The walk's result becomes the answer.
LEMMA JudgeSearch ==
    ASSUME SearchInv, Judge
    PROVE  SearchInv'
<1> USE DEF SearchInv
<1>1. /\ call = "judge" /\ unseen' = {}
      /\ matching_file' = IF results = 1 THEN processed_filename ELSE NULL
      /\ UNCHANGED <<base_filename, processed_filename, files, deleting, needle_file,
                     steady, offered>>
  BY DEF Judge, globals, arguments, history
<1>2. \A x : Matches(x)' = Matches(x)
  BY <1>1 DEF Matches, Trimmed
<1>3. \/ /\ deleting /\ matching_file' # NULL /\ call' = "verify" /\ results' = results
      \/ /\ ~(deleting /\ matching_file' # NULL) /\ call' = "done"
         /\ results' = IF deleting THEN NoMatch ELSE results
  BY DEF Judge
<1>4. results \in {-1, 0, 1}
  BY <1>1 DEF Judged
<1>5. TypeOK'
  BY <1>1, <1>3, <1>4 DEF TypeOK
<1>6. matching_file' # NULL =>
          /\ base_filename # NULL
          /\ matching_file' = processed_filename
          /\ matching_file' \in offered /\ Matches(matching_file')
  BY <1>1 DEF Judged
<1>7. results = 0 => Passed(steady)'
  BY <1>1, <1>2 DEF Judged, Passed
<1>8. Found'
  BY <1>1, <1>2, <1>3, <1>6, <1>7 DEF Found, Answered, NoMatch
<1> QED
  BY <1>1, <1>3, <1>5, <1>8 DEF Walked, Judged

\* delete_file() looks at the file and removes it.
LEMMA DeleteSearch ==
    ASSUME SearchInv, VerifyFilename \/ Remove
    PROVE  SearchInv'
<1> USE DEF SearchInv
<1>1. /\ call \in {"verify", "remove"} /\ call' \in {"remove", "done"}
      /\ deleting /\ matching_file # NULL
      /\ UNCHANGED <<base_filename, processed_filename, deleting, needle_file, unseen,
                     matching_file, offered>>
  BY DEF VerifyFilename, Remove, globals, arguments, history, Found, Answered
<1>2. steady' \subseteq files' /\ files' \subseteq files /\ steady' \subseteq steady
  BY DEF VerifyFilename, Remove, Walked, history
<1>3. results' \in {NoMatch, -1, 0, 1, ENOENT}
  BY DEF VerifyFilename, Remove, TypeOK
<1>4. TypeOK'
  BY <1>1, <1>2, <1>3 DEF TypeOK
<1>5. \A x : Matches(x)' = Matches(x)
  BY <1>1 DEF Matches, Trimmed
<1>6. Found'
  BY <1>1, <1>5 DEF Found, Answered
<1> QED
  BY <1>1, <1>2, <1>4, <1>6 DEF Walked, Judged

\* Calls begin and end.
LEMMA CallSearch ==
    ASSUME SearchInv,
           \/ \E name \in Input \cup {NULL} : PrependTestInput(name)
           \/ \E name \in Input : SearchDir(name)
           \/ Return
    PROVE  SearchInv'
<1> USE DEF SearchInv
<1>1. CASE \E name \in Input \cup {NULL} : PrependTestInput(name)
  <2>1. TypeOK'
    BY <1>1 DEF PrependTestInput, arguments, history, TypeOK
  <2> QED
    BY <1>1, <2>1 DEF PrependTestInput, arguments, history, Walked, Judged, Found, Answered
<1>2. CASE \E name \in Input : SearchDir(name)
  <2>1. TypeOK'
    BY <1>2 DEF SearchDir, globals, TypeOK
  <2> QED
    BY <1>2, <2>1 DEF SearchDir, globals, Walked, Judged, Found, Answered
<1>3. CASE Return
  <2>1. TypeOK'
    BY <1>3 DEF Return, TypeOK
  <2> QED
    BY <1>3, <2>1 DEF Return, Walked, Judged, Found, Answered
<1> QED
  BY <1>1, <1>2, <1>3

\* The other processes change the directory under the walk.
LEMMA OthersSearch ==
    ASSUME SearchInv, NEW f \in FileName, AddFile(f) \/ DeleteFile(f)
    PROVE  SearchInv'
<1> USE DEF SearchInv
<1>1. /\ files' \in SUBSET FileName /\ unseen' \in SUBSET FileName
      /\ unseen \subseteq unseen' /\ steady' \subseteq steady
      /\ steady' \subseteq files' /\ offered \subseteq offered'
      /\ offered' \in SUBSET FileName
      /\ call = "walk" /\ files \subseteq offered => files' \subseteq offered'
      /\ UNCHANGED <<base_filename, processed_filename, call, deleting, needle_file,
                     results, matching_file>>
  BY DEF AddFile, DeleteFile, globals, arguments, Walked, TypeOK
<1>2. TypeOK'
  BY <1>1 DEF TypeOK
<1>3. \A x : Matches(x)' = Matches(x)
  BY <1>1 DEF Matches, Trimmed
<1>4. Passed(steady) => Passed(steady)'
  BY <1>1, <1>3 DEF Passed
<1>5. Passed(steady \ unseen) => Passed(steady \ unseen)'
  BY <1>1, <1>3 DEF Passed
<1>6. Walked'
  <2>1. steady' \ unseen' # {} => steady \ unseen # {}
    BY <1>1
  <2> QED
    BY <1>1, <1>5, <2>1 DEF Walked
<1>7. Judged'
  BY <1>1, <1>3, <1>4 DEF Judged
<1>8. Found'
  BY <1>1, <1>3, <1>4 DEF Found, Answered
<1> QED
  BY <1>2, <1>6, <1>7, <1>8

\* Nothing moves.
LEMMA StutterSearch ==
    ASSUME SearchInv, UNCHANGED vars
    PROVE  SearchInv'
<1>1. \A x : Matches(x)' = Matches(x)
  BY DEF Matches, Trimmed, vars
<1> QED
  BY <1>1 DEF SearchInv, TypeOK, Walked, Judged, Found, Answered, Passed, vars

\* The invariant of the walk holds in every reachable state.
THEOREM SearchInvariant == Spec => []SearchInv
<1>1. Init => SearchInv
  BY InitSearch
<1>2. SearchInv /\ [Next]_vars => SearchInv'
  <2> SUFFICES ASSUME SearchInv, [Next]_vars PROVE SearchInv'
    OBVIOUS
  <2>1. ASSUME NEW f \in unseen, FileMatch(f) PROVE SearchInv'
    BY <2>1, FileMatchSearch
  <2>2. CASE WalkEnds
    BY <2>2, WalkEndsSearch
  <2>3. CASE Judge
    BY <2>3, JudgeSearch
  <2>4. CASE VerifyFilename \/ Remove
    BY <2>4, DeleteSearch
  <2>5. CASE \/ \E name \in Input \cup {NULL} : PrependTestInput(name)
             \/ \E name \in Input : SearchDir(name)
             \/ Return
    BY <2>5, CallSearch
  <2>6. ASSUME NEW f \in FileName, AddFile(f) \/ DeleteFile(f) PROVE SearchInv'
    BY <2>6, OthersSearch
  <2>7. CASE UNCHANGED vars
    BY <2>7, StutterSearch
  <2> QED
    BY <2>1, <2>2, <2>3, <2>4, <2>5, <2>6, <2>7 DEF Next, Process, Others
<1> QED
  BY <1>1, <1>2, PTL DEF Spec

\* What search_dir() finds fits the test input and was there during the walk.
THEOREM FoundFits == Spec => []AnswerFits
<1>1. SearchInv => AnswerFits
  <2> SUFFICES ASSUME SearchInv, Answered, matching_file # NULL
               PROVE  matching_file \in offered /\ Fits(matching_file)
    BY DEF AnswerFits
  <2>1. /\ base_filename # NULL /\ matching_file \in offered /\ Matches(matching_file)
        /\ TypeOK
    BY DEF SearchInv, Found
  <2>2. matching_file \in FileName
    BY <2>1 DEF TypeOK
  <2> QED
    BY <2>1, <2>2, MatchesFits
<1> QED
  BY <1>1, SearchInvariant, PTL

\* "No match" means that no file that was there all along fits.
THEOREM NoneMissed == Spec => []NothingMissed
<1>1. SearchInv => NothingMissed
  <2> SUFFICES ASSUME SearchInv, call = "done", results = 0, ~deleting,
                      matching_file = NULL, NEW f \in steady
               PROVE  ~Fits(f)
    BY DEF NothingMissed
  <2>1. Passed(steady) /\ TypeOK
    BY DEF SearchInv, Found, Answered
  <2>2. base_filename # NULL /\ ~Matches(f) /\ f \in FileName
    BY <2>1 DEF Passed, TypeOK
  <2> QED
    BY <2>1, <2>2, MatchesFits
<1> QED
  BY <1>1, SearchInvariant, PTL

\* delete_matching_file() deletes at most the fitting file that it found.
THEOREM DeletedFits == Spec => DeletesFittingFile
<1> DEFINE OnlyFitting ==
        call = "remove" /\ call' = "done" =>
            \A f \in files \ files' : Fits(f) /\ f = processed_filename
<1>1. SearchInv /\ [Next]_vars => [OnlyFitting]_vars
  <2> SUFFICES ASSUME SearchInv, Next, call = "remove", call' = "done",
                      NEW f \in files, f \notin files'
               PROVE  Fits(f) /\ f = processed_filename
    OBVIOUS
  <2>1. Remove
    BY DEF Next, Process, Others, PrependTestInput, SearchDir, FileMatch, WalkEnds,
           Judge, VerifyFilename, Return, AddFile, DeleteFile
  <2>2. f = matching_file
    BY <2>1 DEF Remove
  <2>3. /\ base_filename # NULL /\ matching_file = processed_filename
        /\ Matches(matching_file) /\ TypeOK
    BY DEF SearchInv, Found, Answered
  <2>4. f \in FileName
    BY <2>3 DEF TypeOK
  <2> QED
    BY <2>2, <2>3, <2>4, MatchesFits
<1> QED
  BY <1>1, SearchInvariant, PTL DEF Spec, DeletesFittingFile

\* The globals and the directory keep their types: a match is NULL or the name of a
\* file, through any sequence of searches and deletions.
THEOREM TypeCorrect == Spec => []TypeOK
<1>1. SearchInv => TypeOK
  BY DEF SearchInv
<1> QED
  BY <1>1, SearchInvariant, PTL
=============================================================================
