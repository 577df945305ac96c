------------------------- MODULE HareProgramsProofs -------------------------
(***************************************************************************)
(* Proofs about HarePrograms for any number of processes, any files and    *)
(* contents, any block sizes and any calls that fail.                      *)
(***************************************************************************)
EXTENDS HarePrograms, HareStringsProofs

-----------------------------------------------------------------------------
(* Strings.                                                                *)

\* The loop around getc() stores one nul character at most, and at the end.
LEMMA CharactersProperties ==
    ASSUME NEW bytes \in Seq(Byte)
    PROVE  /\ Characters(bytes) \in Seq(Byte)
           /\ Len(Before(Characters(bytes), {Nul})) + 1 >= Len(Characters(bytes))
<1> DEFINE text == Before(bytes, {Nul, HighByte})
           all == Characters(bytes)
<1>1. /\ text \in Seq(Byte) /\ Len(text) \in Nat
      /\ \A i \in 1..Len(text) : bytes[i] = text[i] /\ bytes[i] \notin {Nul, HighByte}
  BY BeforeProperties
<1> HIDE DEF text
<1>2. \A i \in 1..Len(text) : text[i] # Nul
  BY <1>1
<1>3. Nul \in Byte
  BY ContentAssumption
<1>4. all \in Seq(Byte) /\ (all = text \/ all = Append(text, Nul))
  BY <1>1, <1>3 DEF Characters, text
<1>5. Len(all) <= Len(text) + 1 /\ \A i \in 1..Len(text) : all[i] # Nul
  BY <1>1, <1>2, <1>3, <1>4
<1> HIDE DEF all
<1> DEFINE before == Before(all, {Nul})
<1>6. /\ before \in Seq(Byte) /\ Len(before) \in Nat /\ Len(all) \in Nat
      /\ Len(before) < Len(all) => all[Len(before) + 1] = Nul
  BY <1>4, BeforeProperties
<1> HIDE DEF before
<1>7. Len(before) + 1 >= Len(all)
  BY <1>1, <1>5, <1>6
<1> QED
  BY <1>4, <1>7 DEF all, before

\* The bytes of a test case.
LEMMA FuzzedType ==
    ASSUME NEW output \in Output, NEW old \in Seq(Byte)
    PROVE  Overwritten(old, GetFuzzedContents(output)) \in Seq(Byte)
<1>1. output \in Seq(Byte)
  BY ContentAssumption
<1> DEFINE text == Before(output, {HighByte})
           new == GetFuzzedContents(output)
<1>2. text \in Seq(Byte)
  BY <1>1, BeforeProperties
<1>3. new \in Seq(Byte)
  <2> HIDE DEF text
  <2>1. Len(text) - 1 \in Int
    BY <1>2
  <2> QED
    BY <1>2, <2>1, CutProperties DEF GetFuzzedContents, ReadFromProcess, text
<1> HIDE DEF new
<1>4. SubSeq(old, Len(new) + 1, Len(old)) \in Seq(Byte)
  <2>1. Len(new) \in Nat /\ Len(old) \in Nat
    BY <1>3
  <2>2. \A i \in (Len(new) + 1)..Len(old) : old[i] \in Byte
    BY <2>1
  <2> QED
    BY <2>1, <2>2, SubSeqProperties
<1> QED
  BY <1>3, <1>4 DEF Overwritten, new

-----------------------------------------------------------------------------
(* The invariant.                                                          *)

\* Everything begins without a block, a file or a message.
LEMMA InitPrograms == Init => ProgramsInv
<1> SUFFICES ASSUME Init PROVE ProgramsInv
  OBVIOUS
<1>1. TypeOK
  <2>0. <<>> \in Seq(Byte)
    OBVIOUS
  <2>1. Content \cup {<<>>} \subseteq Seq(Byte)
    BY <2>0, ContentAssumption
  <2>2. /\ data \in [Inode -> Seq(Byte)] /\ dir \in [Name -> Inode \cup {NULL}]
    BY <2>1, PresentAssumption DEF Init
  <2>3. /\ contents \in [Proc -> Seq(Byte)] /\ printed \in [Proc -> Seq(Byte)]
        /\ written \in [Proc -> Seq(Byte)]
    BY <2>0 DEF Init
  <2> QED
    BY <2>2, <2>3 DEF Init, TypeOK, PC
<1>2. Linked
  BY PresentAssumption DEF Init, Linked
<1>3. \A p \in Proc : Ordered(p) /\ Allocated(p) /\ Named(p) /\ Admitted(p) /\ Kept(p)
  BY DEF Init, Ordered, Allocated, Named, Admitted, Kept, Opened, Over
<1>4. InBounds /\ KilledForCause /\ NoLitter
  BY DEF Init, InBounds, KilledForCause, NoLitter, Opened
<1> QED
  BY <1>1, <1>2, <1>3, <1>4 DEF ProgramsInv

\* A process whose variables a step leaves alone.
Same(q) ==
    /\ pc'[q] = pc[q]
    /\ filename'[q] = filename[q]
    /\ file_exists'[q] = file_exists[q]
    /\ fd'[q] = fd[q]
    /\ block'[q] = block[q]
    /\ contents'[q] = contents[q]
    /\ printed'[q] = printed[q]
    /\ success'[q] = success[q]
    /\ written'[q] = written[q]
    /\ failed'[q] = failed[q]

\* A step is one of a single process.
LEMMA StepIsLocal ==
    ASSUME TypeOK, NEW p \in Proc, Step(p), NEW q \in Proc \ {p}
    PROVE  Same(q) /\ UNCHANGED start
<1> USE DEF Same, start, reader, files, Goto, Finish, Fails, TypeOK
<1>1. CASE GetFilename(p) \/ TakeArgument(p) \/ CheckPassword(p)
  BY <1>1 DEF GetFilename, TakeArgument, CheckPassword
<1>2. CASE VerifyFilename(p)
  BY <1>2 DEF VerifyFilename
<1>3. CASE SizeFile(p)
  BY <1>3 DEF SizeFile
<1>4. CASE OpenFile(p)
  BY <1>4 DEF OpenFile
<1>5. CASE ReadFile(p)
  BY <1>5 DEF ReadFile
<1>6. CASE BadOpenFile(p)
  BY <1>6 DEF BadOpenFile
<1>7. CASE GetCharacters(p) \/ PrintContents(p)
  BY <1>7 DEF GetCharacters, PrintContents
<1>8. CASE ReadTestInput(p)
  BY <1>8 DEF ReadTestInput
<1>9. CASE CreateFile(p)
  BY <1>9 DEF CreateFile
<1>10. CASE WriteFile(p) \/ RemoveFile(p)
  BY <1>10 DEF WriteFile, RemoveFile
<1> QED
  BY <1>1, <1>2, <1>3, <1>4, <1>5, <1>6, <1>7, <1>8, <1>9, <1>10 DEF Step

\* What a process keeps is kept in the steps of others that leave its file alone.
LEMMA OthersKeep ==
    ASSUME ProgramsInv, NEW p \in Proc, Step(p), NEW q \in Proc \ {p},
           /\ Opened(q) /\ Alone(q) /\ filename[q] \in Name /\ Intact(q)
           /\ pc[q] # "exited"
           =>
              /\ dir'[filename[q]] = dir[filename[q]]
              /\ data'[dir[filename[q]]] = data[dir[filename[q]]]
    PROVE  Kept(q)'
<1> SUFFICES ASSUME prog'[q] = "harness07_best", Opened(q)', Alone(q)', failed'[q] = {}
             PROVE  Intact(q)'
  BY DEF Kept
<1>1. Same(q) /\ UNCHANGED start
  BY StepIsLocal DEF ProgramsInv
<1>2. Alone(q)
  BY <1>1 DEF Alone, start
<1>3. Opened(q) /\ failed[q] = {} /\ prog[q] = "harness07_best"
  BY <1>1 DEF Same, start, Opened
<1>4. Intact(q) /\ filename[q] \in Name
  BY <1>2, <1>3 DEF ProgramsInv, Opened, Named, Kept
<1> QED
  BY <1>1, <1>2, <1>3, <1>4 DEF Same, Intact

\* No file is forgotten in a step that makes none, and that neither ends a harness
\* nor gives one its name.
LEMMA QuietLitter ==
    ASSUME NoLitter, UNCHANGED <<prog, file_exists, dir>>,
           \A q \in Proc : Opened(q) =>
              /\ filename'[q] = filename[q]
              /\ pc'[q] = "exited" <=> pc[q] = "exited"
              /\ failed[q] \subseteq failed'[q]
    PROVE  NoLitter'
<1> SUFFICES ASSUME NEW q \in Proc, Opened(q)', pc'[q] = "exited", dir'[filename'[q]] # NULL
             PROVE  \E r \in Proc :
                        /\ Opened(r)' /\ filename'[r] = filename'[q]
                        /\ pc'[r] # "exited" \/ "remove" \in failed'[r]
  BY DEF NoLitter
<1>1. \A r \in Proc : Opened(r)' <=> Opened(r)
  BY DEF Opened
<1>2. Opened(q) /\ pc[q] = "exited" /\ dir[filename[q]] # NULL
  BY <1>1
<1>3. PICK r \in Proc : /\ Opened(r) /\ filename[r] = filename[q]
                        /\ pc[r] # "exited" \/ "remove" \in failed[r]
  BY <1>2 DEF NoLitter
<1> QED
  BY <1>1, <1>2, <1>3

\* A step keeps what a harness keeps if it keeps its test case intact.
LEMMA KeepsOwn ==
    ASSUME ProgramsInv, NEW p \in Proc, UNCHANGED start,
           file_exists'[p] = file_exists[p], failed[p] \subseteq failed'[p],
           ASSUME prog[p] = "harness07_best", filename[p] \in Name, file_exists[p],
                  failed'[p] = {}, Intact(p)
           PROVE  Intact(p)'
    PROVE  Kept(p)'
<1> SUFFICES ASSUME prog'[p] = "harness07_best", Opened(p)', Alone(p)', failed'[p] = {}
             PROVE  Intact(p)'
  BY DEF Kept
<1>1. prog[p] = "harness07_best" /\ Alone(p)
  BY DEF Alone, start
<1>2. file_exists[p] /\ Opened(p)
  BY <1>1 DEF Opened
<1>3. failed[p] = {}
  OBVIOUS
<1>4. Intact(p) /\ filename[p] \in Name
  BY <1>1, <1>2, <1>3 DEF ProgramsInv, Kept, Named
<1> QED
  BY <1>1, <1>2, <1>4

\* A step does no harm to others: what it stores and how it ends are its own.
LEMMA OthersUnharmed ==
    ASSUME ProgramsInv, NEW p \in Proc, Step(p),
           prog[p] \in Best /\ block'[p] > 0 => Len(contents'[p]) < block'[p],
           pc'[p] = "killed" =>
              IF prog[p] \in Best THEN Parses(p) /\ ParseArgs(p) = NULL
              ELSE Len(Before(contents'[p], {Nul})) > BAD_MAX
    PROVE  InBounds' /\ KilledForCause'
<1>1. \A q \in Proc \ {p} : Same(q)
  BY StepIsLocal DEF ProgramsInv
<1>2. UNCHANGED start
  BY DEF Step, GetFilename, TakeArgument, CheckPassword, VerifyFilename, SizeFile,
         OpenFile,
         ReadFile, BadOpenFile, GetCharacters, PrintContents, ReadTestInput, CreateFile, WriteFile,
         RemoveFile
<1>3. InBounds'
  BY <1>1, <1>2 DEF ProgramsInv, InBounds, Same, start
<1>4. \A q \in Proc : (Parses(q) <=> Parses(q)') /\ ParseArgs(q)' = ParseArgs(q)
  BY <1>2 DEF start, Parses, ParseArgs
<1>5. KilledForCause'
  <2> SUFFICES ASSUME NEW q \in Proc, pc'[q] = "killed"
               PROVE  IF prog'[q] \in Best THEN Parses(q)' /\ ParseArgs(q)' = NULL
                      ELSE Len(Before(contents'[q], {Nul})) > BAD_MAX
    BY DEF KilledForCause
  <2>1. CASE q = p
    BY <2>1, <1>2, <1>4 DEF start
  <2>2. CASE q # p
    <3>1. pc[q] = "killed" /\ contents'[q] = contents[q]
      BY <1>1, <2>2 DEF Same
    <3> QED
      BY <3>1, <1>2, <1>4 DEF ProgramsInv, KilledForCause, start
  <2> QED
    BY <2>1, <2>2
<1> QED
  BY <1>3, <1>5

\* get_filename() of a best program.
LEMMA GetFilenameStep ==
    ASSUME ProgramsInv, NEW p \in Proc, GetFilename(p)
    PROVE  ProgramsInv'
<1> USE DEF GetFilename, Goto, start, reader, files
<1>1. TypeOK'
  BY DEF ProgramsInv, TypeOK, PC, Over, ParseArgs, ValidateArg
<1>2. Linked'
  BY DEF ProgramsInv, TypeOK, Linked
<1>3. \A q \in Proc : Ordered(q)' /\ Allocated(q)' /\ Named(q)' /\ Admitted(q)'
  BY NameAssumption DEF ProgramsInv, TypeOK, Ordered, Allocated, Named, Admitted,
         Authenticate, Over, Asks, Best, Bad, Harness, Parses
<1>4. Kept(p)'
  BY KeepsOwn, NameAssumption DEF ProgramsInv, TypeOK, Named, Ordered, Intact, Over,
         Asks, Best, Harness
<1>5. \A q \in Proc : Kept(q)'
  BY <1>4, OthersKeep DEF Step
<1>6. InBounds' /\ KilledForCause'
  BY OthersUnharmed DEF Step, ProgramsInv, TypeOK, InBounds, KilledForCause, Allocated,
         Ordered, Over, Parses
<1>7. NoLitter'
  BY QuietLitter DEF ProgramsInv, TypeOK, Opened, Named, Ordered, Asks, Harness, Over,
         Parses
<1> QED
  BY <1>1, <1>2, <1>3, <1>5, <1>6, <1>7 DEF ProgramsInv

\* argv[1] of a bad program.
LEMMA TakeArgumentStep ==
    ASSUME ProgramsInv, NEW p \in Proc, TakeArgument(p)
    PROVE  ProgramsInv'
<1> USE DEF TakeArgument, Goto, start, reader, files
<1>1. TypeOK'
  BY DEF ProgramsInv, TypeOK, PC, Over, Asks
<1>2. Linked'
  BY DEF ProgramsInv, TypeOK, Linked
<1>3. \A q \in Proc : Ordered(q)' /\ Allocated(q)' /\ Named(q)' /\ Admitted(q)'
  BY NameAssumption DEF ProgramsInv, TypeOK, Ordered, Allocated, Named, Admitted,
         Authenticate, Over, Asks, Best, Bad, Harness
<1>4. Kept(p)'
  BY KeepsOwn, NameAssumption DEF ProgramsInv, TypeOK, Named, Ordered, Intact, Over,
         Asks, Best, Harness
<1>5. \A q \in Proc : Kept(q)'
  BY <1>4, OthersKeep DEF Step
<1>6. InBounds' /\ KilledForCause'
  BY OthersUnharmed DEF Step, ProgramsInv, TypeOK, InBounds, KilledForCause, Allocated,
         Ordered, Over, Best, Bad, Harness
<1>7. NoLitter'
  BY QuietLitter DEF ProgramsInv, TypeOK, Opened, Named, Ordered, Asks, Harness, Over
<1> QED
  BY <1>1, <1>2, <1>3, <1>5, <1>6, <1>7 DEF ProgramsInv

\* source04 ends with its answer to the password.
LEMMA CheckPasswordStep ==
    ASSUME ProgramsInv, NEW p \in Proc, CheckPassword(p)
    PROVE  ProgramsInv'
<1> USE DEF CheckPassword, Goto, start, reader, files, Finish, Fails
<1>1. TypeOK'
  <2>1. failed' \in [Proc -> SUBSET Faults]
    <3>1. CASE UNCHANGED failed
      BY <3>1 DEF ProgramsInv, TypeOK
    <3>2. CASE Fails(p, "calloc")
      BY <3>2 DEF ProgramsInv, TypeOK
    <3> QED
      BY <3>1, <3>2
  <2>2. pc' \in [Proc -> PC] /\ success' \in [Proc -> {0, -1, -2}]
    BY DEF ProgramsInv, TypeOK, PC, Over
  <2>3. /\ block' \in [Proc -> Nat] /\ contents' \in [Proc -> Seq(Byte)]
        /\ fd' \in [Proc -> Inode \cup {NULL}] /\ printed' \in [Proc -> Seq(Byte)]
    BY DEF ProgramsInv, TypeOK
  <2> QED
    BY <2>1, <2>2, <2>3 DEF ProgramsInv, TypeOK
<1>2. Linked'
  BY DEF ProgramsInv, TypeOK, Linked
<1>3. \A q \in Proc : Ordered(q)' /\ Allocated(q)' /\ Named(q)' /\ Admitted(q)'
  BY NameAssumption DEF ProgramsInv, TypeOK, Ordered, Allocated, Named, Admitted,
         Authenticate, Over, Asks, Best, Bad, Harness
<1>4. Kept(p)'
  <2>1. UNCHANGED start /\ file_exists'[p] = file_exists[p] /\ failed[p] \subseteq failed'[p]
    BY DEF ProgramsInv, TypeOK
  <2>2. ASSUME prog[p] = "harness07_best", filename[p] \in Name, file_exists[p],
               failed'[p] = {}, Intact(p)
        PROVE  Intact(p)'
    BY <2>2, NameAssumption DEF ProgramsInv, TypeOK, Ordered, Intact, Over, Asks, Best,
           Harness
  <2> QED
    BY <2>1, <2>2, KeepsOwn
<1>5. \A q \in Proc : Kept(q)'
  BY <1>4, OthersKeep DEF Step
<1>6. InBounds' /\ KilledForCause'
  BY OthersUnharmed DEF Step, ProgramsInv, TypeOK, InBounds, KilledForCause, Allocated,
         Ordered, Over, Best, Bad, Harness
<1>7. NoLitter'
  BY QuietLitter DEF ProgramsInv, TypeOK, Opened, Named, Ordered, Asks, Harness, Over
<1> QED
  BY <1>1, <1>2, <1>3, <1>5, <1>6, <1>7 DEF ProgramsInv

\* A missing file ends the program, but not that of a harness alone with its test case.
LEMMA VerifyFilenameStep ==
    ASSUME ProgramsInv, NEW p \in Proc, VerifyFilename(p)
    PROVE  ProgramsInv'
<1> USE DEF VerifyFilename, Goto, start, reader, files, Finish, Exists
<1>1. TypeOK'
  <2>1. failed' \in [Proc -> SUBSET Faults]
    BY DEF ProgramsInv, TypeOK
  <2>2. pc' \in [Proc -> PC] /\ success' \in [Proc -> {0, -1, -2}]
    BY DEF ProgramsInv, TypeOK, PC, Over
  <2>3. /\ block' \in [Proc -> Nat] /\ contents' \in [Proc -> Seq(Byte)]
        /\ fd' \in [Proc -> Inode \cup {NULL}] /\ printed' \in [Proc -> Seq(Byte)]
    BY DEF ProgramsInv, TypeOK
  <2> QED
    BY <2>1, <2>2, <2>3 DEF ProgramsInv, TypeOK
<1>2. Linked'
  BY DEF ProgramsInv, TypeOK, Linked
<1>3. \A q \in Proc : Ordered(q)' /\ Allocated(q)' /\ Named(q)' /\ Admitted(q)'
  BY NameAssumption DEF ProgramsInv, TypeOK, Ordered, Allocated, Named, Admitted,
         Authenticate, Over, Asks, Best, Bad, Harness
<1>4. Kept(p)'
  <2>1. UNCHANGED start /\ file_exists'[p] = file_exists[p] /\ failed[p] \subseteq failed'[p]
    BY DEF ProgramsInv, TypeOK
  <2>2. ASSUME prog[p] = "harness07_best", filename[p] \in Name, file_exists[p],
               failed'[p] = {}, Intact(p)
        PROVE  Intact(p)'
    BY <2>2, NameAssumption DEF ProgramsInv, TypeOK, Ordered, Intact, Over, Asks, Best,
           Harness
  <2> QED
    BY <2>1, <2>2, KeepsOwn
<1>5. \A q \in Proc : Kept(q)'
  BY <1>4, OthersKeep DEF Step
<1>6. InBounds' /\ KilledForCause'
  BY OthersUnharmed DEF Step, ProgramsInv, TypeOK, InBounds, KilledForCause, Allocated,
         Ordered, Over, Best, Bad, Harness
<1>7. NoLitter'
  BY QuietLitter DEF ProgramsInv, TypeOK, Opened, Named, Ordered, Asks, Harness, Over
<1> QED
  BY <1>1, <1>2, <1>3, <1>5, <1>6, <1>7 DEF ProgramsInv

\* The block is allocated for the size the file has now.
LEMMA SizeFileStep ==
    ASSUME ProgramsInv, NEW p \in Proc, SizeFile(p)
    PROVE  ProgramsInv'
<1> USE DEF SizeFile, Goto, start, reader, files, Finish, Fails, Exists, RoomFor, DirectorySize
<1>1. TypeOK'
  <2>1. failed' \in [Proc -> SUBSET Faults]
    <3>1. failed' = failed \/ Fails(p, "calloc")
      OBVIOUS
    <3>2. failed \in [Proc -> SUBSET Faults]
      BY DEF ProgramsInv, TypeOK
    <3> HIDE DEF SizeFile
    <3> QED
      BY <3>1, <3>2
  <2>2. pc' \in [Proc -> PC] /\ success' \in [Proc -> {0, -1, -2}]
    BY DEF ProgramsInv, TypeOK, PC, Over
  <2>3. block' \in [Proc -> Nat]
    <3>1. pc[p] = "size" /\ Exists(filename[p]) /\ filename[p] \notin Subdir =>
             Len(data[dir[filename[p]]]) \in Nat
      BY DEF ProgramsInv, TypeOK
    <3>2. \/ block' = block
          \/ /\ pc[p] = "size" /\ Exists(filename[p])
             /\ block' = [block EXCEPT ![p] = (IF filename[p] \in Subdir THEN 1
                                              ELSE Len(data[dir[filename[p]]])) + 1]
      OBVIOUS
    <3>3. block \in [Proc -> Nat]
      BY DEF ProgramsInv, TypeOK
    <3>4. pc[p] = "size" /\ Exists(filename[p]) =>
             (IF filename[p] \in Subdir THEN 1 ELSE Len(data[dir[filename[p]]])) + 1 \in Nat
      BY <3>1
    <3> HIDE DEF SizeFile, Exists
    <3> QED
      BY <3>2, <3>3, <3>4
  <2> QED
    BY <2>1, <2>2, <2>3 DEF ProgramsInv, TypeOK
<1>2. Linked'
  BY DEF ProgramsInv, TypeOK, Linked
<1>3. \A q \in Proc : Ordered(q)' /\ Allocated(q)' /\ Named(q)' /\ Admitted(q)'
  BY NameAssumption DEF ProgramsInv, TypeOK, Ordered, Allocated, Named, Admitted,
         Authenticate, Over, Asks, Best, Bad, Harness
<1>4. Kept(p)'
  <2>1. UNCHANGED start /\ file_exists'[p] = file_exists[p] /\ failed[p] \subseteq failed'[p]
    BY DEF ProgramsInv, TypeOK
  <2>2. ASSUME prog[p] = "harness07_best", filename[p] \in Name, file_exists[p],
               failed'[p] = {}, Intact(p)
        PROVE  Intact(p)'
    <3>1. pc[p] = "size" /\ filename[p] \notin Subdir /\ Exists(filename[p])
      BY <2>2, NameAssumption DEF ProgramsInv, TypeOK, Intact
    <3>2. failed' # [failed EXCEPT ![p] = @ \cup {"calloc"}]
      <4> HIDE DEF SizeFile
      <4> QED
        BY <2>2 DEF ProgramsInv, TypeOK
    <3>3. pc'[p] = "open" /\ block'[p] = Len(data[dir[filename[p]]]) + 1
      BY <3>1, <3>2 DEF ProgramsInv, TypeOK
    <3> QED
      BY <2>2, <3>1, <3>3 DEF Intact
  <2> QED
    BY <2>1, <2>2, KeepsOwn
<1>5. \A q \in Proc : Kept(q)'
  BY <1>4, OthersKeep DEF Step
<1>6. InBounds' /\ KilledForCause'
  BY OthersUnharmed DEF Step, ProgramsInv, TypeOK, InBounds, KilledForCause, Allocated,
         Ordered, Over, Best, Bad, Harness
<1>7. NoLitter'
  BY QuietLitter DEF ProgramsInv, TypeOK, Opened, Named, Ordered, Asks, Harness, Over
<1> QED
  BY <1>1, <1>2, <1>3, <1>5, <1>6, <1>7 DEF ProgramsInv

\* The file is opened, or the block stays empty.
LEMMA OpenFileStep ==
    ASSUME ProgramsInv, NEW p \in Proc, OpenFile(p)
    PROVE  ProgramsInv'
<1> USE DEF OpenFile, Goto, start, reader, files, Fails, Exists
<1>1. TypeOK'
  <2>1. failed' \in [Proc -> SUBSET Faults]
    BY DEF ProgramsInv, TypeOK
  <2>2. pc' \in [Proc -> PC] /\ success' \in [Proc -> {0, -1, -2}]
    BY DEF ProgramsInv, TypeOK, PC, Over
  <2>3. /\ block' \in [Proc -> Nat] /\ contents' \in [Proc -> Seq(Byte)]
        /\ fd' \in [Proc -> Inode \cup {NULL}] /\ printed' \in [Proc -> Seq(Byte)]
    BY DEF ProgramsInv, TypeOK
  <2> QED
    BY <2>1, <2>2, <2>3 DEF ProgramsInv, TypeOK
<1>2. Linked'
  BY DEF ProgramsInv, TypeOK, Linked
<1>3. \A q \in Proc : Ordered(q)' /\ Allocated(q)' /\ Named(q)' /\ Admitted(q)'
  BY NameAssumption DEF ProgramsInv, TypeOK, Ordered, Allocated, Named, Admitted,
         Authenticate, Over, Asks, Best, Bad, Harness
<1>4. Kept(p)'
  <2>1. UNCHANGED start /\ file_exists'[p] = file_exists[p] /\ failed[p] \subseteq failed'[p]
    BY DEF ProgramsInv, TypeOK
  <2>2. ASSUME prog[p] = "harness07_best", filename[p] \in Name, file_exists[p],
               failed'[p] = {}, Intact(p)
        PROVE  Intact(p)'
    <3>1. pc[p] = "open" /\ filename[p] \notin Subdir /\ Exists(filename[p])
      BY <2>2, NameAssumption DEF ProgramsInv, TypeOK, Intact
    <3>2. failed' # [failed EXCEPT ![p] = @ \cup {"open"}]
      <4>1. failed \in [Proc -> SUBSET Faults]
        BY DEF ProgramsInv, TypeOK
      <4> HIDE DEF OpenFile
      <4> QED
        BY <2>2, <4>1
    <3>3. pc'[p] = "read" /\ fd'[p] = dir[filename[p]]
      BY <2>2, <3>1, <3>2 DEF ProgramsInv, TypeOK
    <3> QED
      BY <2>2, <3>1, <3>3 DEF Intact
  <2> QED
    BY <2>1, <2>2, KeepsOwn
<1>5. \A q \in Proc : Kept(q)'
  BY <1>4, OthersKeep DEF Step
<1>6. InBounds' /\ KilledForCause'
  BY OthersUnharmed DEF Step, ProgramsInv, TypeOK, InBounds, KilledForCause, Allocated,
         Ordered, Over, Best, Bad, Harness
<1>7. NoLitter'
  BY QuietLitter DEF ProgramsInv, TypeOK, Opened, Named, Ordered, Asks, Harness, Over
<1> QED
  BY <1>1, <1>2, <1>3, <1>5, <1>6, <1>7 DEF ProgramsInv

\* As much is read as the block has room for.
LEMMA ReadFileStep ==
    ASSUME ProgramsInv, NEW p \in Proc, ReadFile(p)
    PROVE  ProgramsInv'
<1> USE DEF ReadFile, Goto, start, reader, files, Finish, Fails, ToRead
<1>1. TypeOK'
  <2>1. failed' \in [Proc -> SUBSET Faults]
    BY DEF ProgramsInv, TypeOK
  <2>2. pc' \in [Proc -> PC] /\ success' \in [Proc -> {0, -1, -2}]
    BY DEF ProgramsInv, TypeOK, PC, Over
  <2>3. contents' \in [Proc -> Seq(Byte)]
    <3>1. ASSUME pc[p] = "read", fd[p] # NULL
          PROVE  Cut(data[fd[p]], block[p] - 1) \in Seq(Byte)
      <4>1. data[fd[p]] \in Seq(Byte) /\ block[p] - 1 \in Int
        BY <3>1 DEF ProgramsInv, TypeOK
      <4> QED
        BY <4>1, CutProperties
    <3> QED
      BY <3>1 DEF ProgramsInv, TypeOK
  <2> QED
    BY <2>1, <2>2, <2>3 DEF ProgramsInv, TypeOK
<1>2. Linked'
  BY DEF ProgramsInv, TypeOK, Linked
<1>3. \A q \in Proc : Ordered(q)' /\ Allocated(q)' /\ Named(q)' /\ Admitted(q)'
  BY NameAssumption DEF ProgramsInv, TypeOK, Ordered, Allocated, Named, Admitted,
         Authenticate, Over, Asks, Best, Bad, Harness
<1>4. Kept(p)'
  <2>1. UNCHANGED start /\ file_exists'[p] = file_exists[p] /\ failed[p] \subseteq failed'[p]
    BY DEF ProgramsInv, TypeOK
  <2>2. ASSUME prog[p] = "harness07_best", filename[p] \in Name, file_exists[p],
               failed'[p] = {}, Intact(p)
        PROVE  Intact(p)'
    <3>1. /\ pc[p] = "read" /\ fd[p] = dir[filename[p]] /\ fd[p] # NULL
          /\ data[fd[p]] = written[p] /\ block[p] = Len(written[p]) + 1
      BY <2>2 DEF Intact
    <3>2. written[p] \in Seq(Byte) /\ Len(written[p]) \in Nat
      BY DEF ProgramsInv, TypeOK
    <3>3. Cut(data[fd[p]], block[p] - 1) = written[p]
      <4>1. block[p] - 1 = Len(written[p])
        BY <3>1, <3>2
      <4> QED
        BY <3>1, <3>2, <4>1, CutAll
    <3>4. pc'[p] = "print" /\ contents'[p] = written[p]
      <4>1. /\ failed \in [Proc -> SUBSET Faults] /\ pc \in [Proc -> PC]
            /\ contents \in [Proc -> Seq(Byte)]
        BY DEF ProgramsInv, TypeOK
      <4>2. failed' # [failed EXCEPT ![p] = @ \cup {"read"}]
        BY <2>2, <4>1
      <4>3. /\ pc' = [pc EXCEPT ![p] = "print"]
            /\ contents' = [contents EXCEPT ![p] = Cut(data[fd[p]], block[p] - 1)]
        BY <3>1, <4>2
      <4> QED
        BY <3>3, <4>1, <4>3
    <3> QED
      BY <2>2, <3>1, <3>4 DEF Intact
  <2> QED
    BY <2>1, <2>2, KeepsOwn
<1>5. \A q \in Proc : Kept(q)'
  BY <1>4, OthersKeep DEF Step
<1>6. InBounds' /\ KilledForCause'
  <2>1. /\ pc[p] = "read" /\ prog[p] \in Best
        /\ block[p] \in Nat /\ block[p] > 0 /\ contents[p] = <<>>
    BY DEF ProgramsInv, TypeOK, Ordered, Allocated, Over
  <2>2. Len(contents'[p]) < block'[p]
    <3>1. CASE contents'[p] = contents[p]
      BY <2>1, <3>1
    <3>2. CASE fd[p] # NULL /\ contents'[p] = Cut(data[fd[p]], block[p] - 1)
      <4>1. data[fd[p]] \in Seq(Byte) /\ block[p] - 1 \in Int
        BY <2>1, <3>2 DEF ProgramsInv, TypeOK
      <4>2. Len(Cut(data[fd[p]], block[p] - 1)) <= block[p] - 1
        BY <2>1, <4>1, CutProperties
      <4> QED
        BY <2>1, <3>2, <4>2
    <3> QED
      BY <3>1, <3>2 DEF ProgramsInv, TypeOK
  <2>3. pc'[p] # "killed"
    BY DEF ProgramsInv, TypeOK
  <2> QED
    BY <2>2, <2>3, OthersUnharmed DEF Step
<1>7. NoLitter'
  BY QuietLitter DEF ProgramsInv, TypeOK, Opened, Named, Ordered, Asks, Harness, Over
<1> QED
  BY <1>1, <1>2, <1>3, <1>5, <1>6, <1>7 DEF ProgramsInv

\* A block of fixed size, and the file.
LEMMA BadOpenFileStep ==
    ASSUME ProgramsInv, NEW p \in Proc, BadOpenFile(p)
    PROVE  ProgramsInv'
<1> USE DEF BadOpenFile, Goto, start, reader, files, Finish, Fails, Exists
<1>1. TypeOK'
  <2>1. failed' \in [Proc -> SUBSET Faults]
    BY DEF ProgramsInv, TypeOK
  <2>2. pc' \in [Proc -> PC] /\ success' \in [Proc -> {0, -1, -2}]
    BY DEF ProgramsInv, TypeOK, PC, Over
  <2>3. block' \in [Proc -> Nat]
    <3>1. block' = block \/ block' = [block EXCEPT ![p] = BAD_MAX + 1]
      OBVIOUS
    <3> HIDE DEF BadOpenFile
    <3> QED
      BY <3>1, SizeAssumption DEF ProgramsInv, TypeOK
  <2>4. fd' \in [Proc -> Inode \cup {NULL}]
    BY DEF ProgramsInv, TypeOK
  <2> QED
    BY <2>1, <2>2, <2>3, <2>4 DEF ProgramsInv, TypeOK
<1>2. Linked'
  BY DEF ProgramsInv, TypeOK, Linked
<1>3. \A q \in Proc : Ordered(q)' /\ Allocated(q)' /\ Named(q)' /\ Admitted(q)'
  BY NameAssumption DEF ProgramsInv, TypeOK, Ordered, Allocated, Named, Admitted,
         Authenticate, Over, Asks, Best, Bad, Harness
<1>4. Kept(p)'
  <2>1. UNCHANGED start /\ file_exists'[p] = file_exists[p] /\ failed[p] \subseteq failed'[p]
    BY DEF ProgramsInv, TypeOK
  <2>2. ASSUME prog[p] = "harness07_best", filename[p] \in Name, file_exists[p],
               failed'[p] = {}, Intact(p)
        PROVE  FALSE
    BY <2>2 DEF ProgramsInv, Ordered, Bad
  <2> QED
    BY <2>1, <2>2, KeepsOwn
<1>5. \A q \in Proc : Kept(q)'
  BY <1>4, OthersKeep DEF Step
<1>6. InBounds' /\ KilledForCause'
  BY OthersUnharmed DEF Step, ProgramsInv, TypeOK, InBounds, KilledForCause, Allocated,
         Ordered, Over, Best, Bad, Harness
<1>7. NoLitter'
  BY QuietLitter DEF ProgramsInv, TypeOK, Opened, Named, Ordered, Asks, Harness, Over
<1> QED
  BY <1>1, <1>2, <1>3, <1>5, <1>6, <1>7 DEF ProgramsInv

\* Characters are stored whatever the size of the block.
LEMMA GetCharactersStep ==
    ASSUME ProgramsInv, NEW p \in Proc, GetCharacters(p)
    PROVE  ProgramsInv'
<1> USE DEF GetCharacters, Goto, start, reader, files
<1>1. TypeOK'
  <2>1. failed' \in [Proc -> SUBSET Faults]
    BY DEF ProgramsInv, TypeOK
  <2>2. pc' \in [Proc -> PC] /\ success' \in [Proc -> {0, -1, -2}]
    BY DEF ProgramsInv, TypeOK, PC, Over
  <2>3. contents' \in [Proc -> Seq(Byte)]
    <3>1. data[fd[p]] \in Seq(Byte)
      BY DEF ProgramsInv, TypeOK, Allocated
    <3>2. Characters(data[fd[p]]) \in Seq(Byte)
      BY <3>1, CharactersProperties
    <3> QED
      BY <3>2 DEF ProgramsInv, TypeOK
  <2> QED
    BY <2>1, <2>2, <2>3 DEF ProgramsInv, TypeOK
<1>2. Linked'
  BY DEF ProgramsInv, TypeOK, Linked
<1>3. \A q \in Proc : Ordered(q)' /\ Allocated(q)' /\ Named(q)' /\ Admitted(q)'
  BY NameAssumption DEF ProgramsInv, TypeOK, Ordered, Allocated, Named, Admitted,
         Authenticate, Over, Asks, Best, Bad, Harness
<1>4. Kept(p)'
  <2>1. UNCHANGED start /\ file_exists'[p] = file_exists[p] /\ failed[p] \subseteq failed'[p]
    BY DEF ProgramsInv, TypeOK
  <2>2. ASSUME prog[p] = "harness07_best", filename[p] \in Name, file_exists[p],
               failed'[p] = {}, Intact(p)
        PROVE  FALSE
    BY <2>2 DEF ProgramsInv, Ordered, Bad
  <2> QED
    BY <2>1, <2>2, KeepsOwn
<1>5. \A q \in Proc : Kept(q)'
  BY <1>4, OthersKeep DEF Step
<1>6. InBounds' /\ KilledForCause'
  <2>1. prog[p] \notin Best /\ block[p] = BAD_MAX + 1 /\ data[fd[p]] \in Seq(Byte)
    BY DEF ProgramsInv, TypeOK, Ordered, Allocated, Best, Bad
  <2>2. contents'[p] = Characters(data[fd[p]])
    BY DEF ProgramsInv, TypeOK
  <2>3. ASSUME pc'[p] = "killed" PROVE Len(Before(contents'[p], {Nul})) > BAD_MAX
    <3>1. Len(contents'[p]) > BAD_MAX + 1
      BY <2>1, <2>3 DEF ProgramsInv, TypeOK
    <3>2. /\ contents'[p] \in Seq(Byte)
          /\ Len(Before(contents'[p], {Nul})) + 1 >= Len(contents'[p])
      BY <2>1, <2>2, CharactersProperties
    <3>3. Before(contents'[p], {Nul}) \in Seq(Byte)
      BY <3>2, BeforeProperties
    <3> QED
      BY <3>1, <3>2, <3>3, SizeAssumption
  <2> QED
    BY <2>1, <2>3, OthersUnharmed DEF Step
<1>7. NoLitter'
  BY QuietLitter DEF ProgramsInv, TypeOK, Opened, Named, Ordered, Asks, Harness, Over
<1> QED
  BY <1>1, <1>2, <1>3, <1>5, <1>6, <1>7 DEF ProgramsInv

\* The contents of the block are printed.
LEMMA PrintStep ==
    ASSUME ProgramsInv, NEW p \in Proc, PrintContents(p)
    PROVE  ProgramsInv'
<1> USE DEF PrintContents, Goto, start, reader, files, Finish
<1>1. TypeOK'
  <2>1. failed' \in [Proc -> SUBSET Faults]
    BY DEF ProgramsInv, TypeOK
  <2>2. pc' \in [Proc -> PC] /\ success' \in [Proc -> {0, -1, -2}]
    BY DEF ProgramsInv, TypeOK, PC, Over
  <2>3. printed' \in [Proc -> Seq(Byte)]
    <3>1. Before(contents[p], {Nul}) \in Seq(Byte)
      BY BeforeProperties DEF ProgramsInv, TypeOK
    <3> QED
      BY <3>1 DEF ProgramsInv, TypeOK
  <2> QED
    BY <2>1, <2>2, <2>3 DEF ProgramsInv, TypeOK
<1>2. Linked'
  BY DEF ProgramsInv, TypeOK, Linked
<1>3. \A q \in Proc : Ordered(q)' /\ Allocated(q)' /\ Named(q)' /\ Admitted(q)'
  BY NameAssumption DEF ProgramsInv, TypeOK, Ordered, Allocated, Named, Admitted,
         Authenticate, Over, Asks, Best, Bad, Harness
<1>4. Kept(p)'
  <2>1. UNCHANGED start /\ file_exists'[p] = file_exists[p] /\ failed[p] \subseteq failed'[p]
    BY DEF ProgramsInv, TypeOK
  <2>2. ASSUME prog[p] = "harness07_best", filename[p] \in Name, file_exists[p],
               failed'[p] = {}, Intact(p)
        PROVE  Intact(p)'
    BY <2>2, NameAssumption DEF ProgramsInv, TypeOK, Ordered, Intact, Over, Asks, Best,
           Harness
  <2> QED
    BY <2>1, <2>2, KeepsOwn
<1>5. \A q \in Proc : Kept(q)'
  BY <1>4, OthersKeep DEF Step
<1>6. InBounds' /\ KilledForCause'
  <2>1. /\ contents[p] \in Seq(Byte) /\ block[p] \in Nat /\ Len(contents[p]) \in Nat
        /\ Len(Before(contents[p], {Nul})) <= Len(contents[p])
        /\ Before(contents[p], {Nul}) \in Seq(Byte)
    BY BeforeProperties DEF ProgramsInv, TypeOK
  <2>2. pc[p] = "print" /\ prog[p] \in Program
    BY DEF ProgramsInv, TypeOK
  <2>3. prog[p] \in Best /\ block[p] > 0 => Len(contents[p]) < block[p]
    BY DEF ProgramsInv, InBounds
  <2>4. ASSUME pc'[p] = "killed"
        PROVE  prog[p] \notin Best /\ Len(Before(contents[p], {Nul})) > BAD_MAX
    <3>1. Len(Before(contents[p], {Nul})) >= block[p]
      BY <2>2, <2>4 DEF ProgramsInv, TypeOK
    <3>2. prog[p] \notin Best
      BY <2>1, <2>2, <2>3, <3>1 DEF ProgramsInv, Allocated
    <3>3. block[p] = BAD_MAX + 1
      BY <2>2, <3>2 DEF ProgramsInv, Allocated, Program
    <3> QED
      BY <2>1, <3>1, <3>2, <3>3, SizeAssumption
  <2> QED
    BY <2>3, <2>4, OthersUnharmed DEF Step
<1>7. NoLitter'
  BY QuietLitter DEF ProgramsInv, TypeOK, Opened, Named, Ordered, Asks, Harness, Over
<1> QED
  BY <1>1, <1>2, <1>3, <1>5, <1>6, <1>7 DEF ProgramsInv

\* The harness gets its name.
LEMMA ReadTestInputStep ==
    ASSUME ProgramsInv, NEW p \in Proc, ReadTestInput(p)
    PROVE  ProgramsInv'
<1> USE DEF ReadTestInput, Goto, start, reader, files
<1>1. TypeOK'
  BY DEF ProgramsInv, TypeOK, PC, Over
<1>2. Linked'
  BY DEF ProgramsInv, TypeOK, Linked
<1>3. \A q \in Proc : Ordered(q)' /\ Allocated(q)' /\ Named(q)' /\ Admitted(q)'
  BY NameAssumption DEF ProgramsInv, TypeOK, Ordered, Allocated, Named, Admitted,
         Authenticate, Over, Asks, Best, Bad, Harness
<1>4. Kept(p)'
  BY KeepsOwn, NameAssumption DEF ProgramsInv, TypeOK, Named, Ordered, Intact, Over,
         Asks, Best, Harness
<1>5. \A q \in Proc : Kept(q)'
  BY <1>4, OthersKeep DEF Step
<1>6. InBounds' /\ KilledForCause'
  BY OthersUnharmed DEF Step, ProgramsInv, TypeOK, InBounds, KilledForCause, Allocated,
         Ordered, Over, Best, Bad, Harness
<1>7. NoLitter'
  BY QuietLitter DEF ProgramsInv, TypeOK, Opened, Named, Ordered, Asks, Harness, Over
<1> QED
  BY <1>1, <1>2, <1>3, <1>5, <1>6, <1>7 DEF ProgramsInv

\* The test case is opened or made under its own name alone.
LEMMA CreateFileStep ==
    ASSUME ProgramsInv, NEW p \in Proc, CreateFile(p)
    PROVE  ProgramsInv'
<1> USE DEF CreateFile, Goto, Fails, start, reader, files
<1>1. TypeOK'
  <2>1. failed' \in [Proc -> SUBSET Faults]
    <3>1. UNCHANGED failed \/ Fails(p, "create")
      OBVIOUS
    <3>2. CASE UNCHANGED failed
      BY <3>2 DEF ProgramsInv, TypeOK
    <3>3. CASE Fails(p, "create")
      <4> HIDE DEF CreateFile
      <4> QED
        BY <3>3 DEF ProgramsInv, TypeOK
    <3> QED
      BY <3>1, <3>2, <3>3
  <2>2. pc' \in [Proc -> PC]
    BY DEF ProgramsInv, TypeOK, PC, DoIt
  <2>3. file_exists' \in [Proc -> BOOLEAN]
    BY DEF ProgramsInv, TypeOK
  <2>4. /\ dir' \in [Name -> Inode \cup {NULL}] /\ fd' \in [Proc -> Inode \cup {NULL}]
    <3>1. \/ UNCHANGED dir /\ (fd' = fd \/ fd' = [fd EXCEPT ![p] = dir[filename[p]]])
             /\ (fd' # fd => filename[p] \in Name)
          \/ \E i \in Inode : fd' = [fd EXCEPT ![p] = i] /\ dir' = [dir EXCEPT ![filename[p]] = i]
      OBVIOUS
    <3> HIDE DEF CreateFile
    <3>2. dir \in [Name -> Inode \cup {NULL}] /\ fd \in [Proc -> Inode \cup {NULL}]
      BY DEF ProgramsInv, TypeOK
    <3> QED
      BY <3>1, <3>2
  <2>5. data' \in [Inode -> Seq(Byte)]
    <3>1. <<>> \in Seq(Byte)
      OBVIOUS
    <3>2. data' = data \/ \E i \in Inode : data' = [data EXCEPT ![i] = <<>>]
      OBVIOUS
    <3> HIDE DEF CreateFile
    <3> QED
      BY <3>1, <3>2 DEF ProgramsInv, TypeOK
  <2> QED
    BY <2>1, <2>2, <2>3, <2>4, <2>5 DEF ProgramsInv, TypeOK
<1> DEFINE found == filename[p] \in Name /\ dir[filename[p]] # NULL
           made == filename[p] \in Name /\ dir[filename[p]] = NULL
<1>2. /\ pc[p] = "create" /\ filename[p] = argOne[p] /\ prog[p] \in Harness /\ ~Asks(p)
      /\ ~file_exists[p]
  BY DEF ProgramsInv, TypeOK, Ordered, Named, Harness, Asks
<1>3. \/ /\ found /\ UNCHANGED files /\ pc'[p] = "write"
         /\ fd' = [fd EXCEPT ![p] = dir[filename[p]]]
         /\ file_exists' = [file_exists EXCEPT ![p] = TRUE]
      \/ /\ made /\ pc'[p] = "write"
         /\ file_exists' = [file_exists EXCEPT ![p] = TRUE]
         /\ \E i \in Inode :
               /\ \A n \in Name : dir[n] # i
               /\ \A q \in Proc : fd[q] # i
               /\ fd' = [fd EXCEPT ![p] = i]
               /\ dir' = [dir EXCEPT ![filename[p]] = i]
               /\ data' = [data EXCEPT ![i] = <<>>]
      \/ pc'[p] = DoIt(p) /\ UNCHANGED <<files, fd, file_exists>>
  BY NameAssumption DEF ProgramsInv, TypeOK, Exists
<1>4. /\ UNCHANGED start
      /\ \A q \in Proc : q # p => Same(q)
      /\ filename' = filename /\ block' = block /\ contents' = contents
      /\ success' = success /\ written' = written /\ printed' = printed
  BY StepIsLocal DEF ProgramsInv, Step
<1> HIDE DEF CreateFile, Fails
<1>5. Linked'
  <2>1. CASE found /\ UNCHANGED files /\ fd' = [fd EXCEPT ![p] = dir[filename[p]]]
    BY <1>4, <2>1 DEF ProgramsInv, TypeOK, Linked, Same
  <2>2. CASE UNCHANGED <<files, fd>> /\ pc'[p] # "write"
    BY <1>4, <2>2 DEF ProgramsInv, TypeOK, Linked, Same
  <2>3. CASE made /\ \E i \in Inode :
               /\ \A n \in Name : dir[n] # i
               /\ \A q \in Proc : fd[q] # i
               /\ fd' = [fd EXCEPT ![p] = i]
               /\ dir' = [dir EXCEPT ![filename[p]] = i]
    <3>1. PICK i \in Inode :
               /\ \A n \in Name : dir[n] # i
               /\ \A q \in Proc : fd[q] # i
               /\ fd' = [fd EXCEPT ![p] = i]
               /\ dir' = [dir EXCEPT ![filename[p]] = i]
      BY <2>3
    <3>2. \A m, n \in Name : m # n => dir'[m] = NULL \/ dir'[m] # dir'[n]
      BY <3>1 DEF ProgramsInv, TypeOK, Linked
    <3>3. i # NULL
      BY NameAssumption
    <3>4. ASSUME NEW q \in Proc, pc'[q] = "write"
          PROVE  fd'[q] # NULL /\ \A n \in Name \ {filename'[q]} : dir'[n] # fd'[q]
      <4>1. CASE q = p
        BY <1>4, <3>1, <3>3, <4>1 DEF ProgramsInv, TypeOK
      <4>2. CASE q # p
        BY <1>4, <3>1, <3>4, <4>2 DEF ProgramsInv, TypeOK, Linked, Same
      <4> QED
        BY <4>1, <4>2
    <3> QED
      BY <3>2, <3>4 DEF Linked
  <2> QED
    BY <1>3, <2>1, <2>2, <2>3 DEF DoIt
<1>6. \A q \in Proc : Ordered(q)' /\ Allocated(q)' /\ Named(q)' /\ Admitted(q)'
  <2> SUFFICES ASSUME NEW q \in Proc
               PROVE  Ordered(q)' /\ Allocated(q)' /\ Named(q)' /\ Admitted(q)'
    OBVIOUS
  <2>1. CASE q # p
    BY <1>4, <2>1 DEF ProgramsInv, Ordered, Allocated, Named, Admitted, Authenticate,
           Asks, Same
  <2>2. CASE q = p
    BY <1>2, <1>3, <1>4, <2>2 DEF ProgramsInv, TypeOK, Ordered, Allocated, Named,
           Admitted,
           Asks, DoIt, Over, Best, Bad, Harness
  <2> QED
    BY <2>1, <2>2
<1>7. Kept(p)'
  <2>2. CASE pc'[p] # "write"
    BY <1>2, <1>3, <2>2 DEF Kept, Opened
  <2> SUFFICES ASSUME pc'[p] = "write" PROVE Intact(p)'
    BY <2>2 DEF Kept
  <2>1. dir'[filename[p]] # NULL /\ fd'[p] = dir'[filename[p]]
    <3>1. CASE found /\ UNCHANGED files /\ fd' = [fd EXCEPT ![p] = dir[filename[p]]]
      BY <3>1 DEF ProgramsInv, TypeOK
    <3>2. CASE made /\ \E i \in Inode : /\ fd' = [fd EXCEPT ![p] = i]
                                         /\ dir' = [dir EXCEPT ![filename[p]] = i]
      BY <3>2, NameAssumption DEF ProgramsInv, TypeOK
    <3> QED
      BY <1>3, <3>1, <3>2 DEF DoIt
  <2> QED
    BY <1>4, <2>1 DEF Intact
<1>8. \A q \in Proc : Kept(q)'
  <2> SUFFICES ASSUME NEW q \in Proc \ {p} PROVE Kept(q)'
    BY <1>7
  <2>1. ASSUME Opened(q), Alone(q), filename[q] \in Name, Intact(q),
               pc[q] # "exited"
        PROVE  /\ dir'[filename[q]] = dir[filename[q]]
               /\ data'[dir[filename[q]]] = data[dir[filename[q]]]
    <3>1. filename[q] # filename[p]
      BY <1>2, <2>1 DEF ProgramsInv, Named, Opened, Alone
    <3>2. dir[filename[q]] \in Inode
      BY <2>1 DEF ProgramsInv, TypeOK, Intact
    <3>3. CASE UNCHANGED files
      BY <3>3
    <3>4. CASE \E i \in Inode : /\ \A n \in Name : dir[n] # i
                                /\ dir' = [dir EXCEPT ![filename[p]] = i]
                                /\ data' = [data EXCEPT ![i] = <<>>]
      BY <2>1, <3>1, <3>2, <3>4 DEF ProgramsInv, TypeOK
    <3> QED
      BY <1>3, <3>3, <3>4
  <2> QED
    BY <2>1, OthersKeep DEF Step
<1>9. InBounds' /\ KilledForCause'
  BY <1>2, <1>3, <1>4, OthersUnharmed DEF Step, ProgramsInv, InBounds, DoIt
<1>10. NoLitter'
  <2> SUFFICES ASSUME NEW q \in Proc, Opened(q)', pc'[q] = "exited", dir'[filename'[q]] # NULL
               PROVE  \E r \in Proc :
                          /\ Opened(r)' /\ filename'[r] = filename'[q]
                          /\ pc'[r] # "exited" \/ "remove" \in failed'[r]
    BY DEF NoLitter
  <2>1. q # p /\ Opened(q) /\ pc[q] = "exited" /\ filename[q] \in Name
    BY <1>3, <1>4 DEF DoIt, Same, Opened, ProgramsInv, Named
  <2>2. CASE filename[q] = filename[p]
    <3>1. dir'[filename[p]] # NULL
      BY <1>4, <2>2
    <3>2. CASE UNCHANGED <<files, file_exists>>
      <4>1. PICK r \in Proc : /\ Opened(r) /\ filename[r] = filename[q]
                              /\ pc[r] # "exited" \/ "remove" \in failed[r]
        BY <1>4, <2>1, <3>1, <3>2, <2>2 DEF ProgramsInv, NoLitter
      <4>2. r # p
        BY <1>2, <4>1 DEF Opened
      <4> QED
        BY <1>4, <4>1, <4>2 DEF Opened, Same
    <3>3. CASE pc'[p] = "write" /\ file_exists' = [file_exists EXCEPT ![p] = TRUE]
      <4>1. file_exists'[p]
        BY <3>3 DEF ProgramsInv, TypeOK
      <4> QED
        BY <1>2, <1>4, <2>2, <3>3, <4>1 DEF Opened
    <3> QED
      BY <1>3, <3>2, <3>3
  <2>3. CASE filename[q] # filename[p]
    <3>1. dir[filename[q]] # NULL
      BY <1>3, <1>4, <2>1, <2>3 DEF ProgramsInv, TypeOK
    <3>2. PICK r \in Proc : /\ Opened(r) /\ filename[r] = filename[q]
                            /\ pc[r] # "exited" \/ "remove" \in failed[r]
      BY <2>1, <3>1 DEF ProgramsInv, NoLitter
    <3>3. r # p
      BY <1>2, <3>2 DEF Opened
    <3> QED
      BY <1>4, <3>2, <3>3 DEF Opened, Same
  <2> QED
    BY <2>2, <2>3
<1> QED
  BY <1>1, <1>5, <1>6, <1>8, <1>9, <1>10 DEF ProgramsInv


\* A write reaches the file of this name and no other.
LEMMA WriteFileStep ==
    ASSUME ProgramsInv, NEW p \in Proc, WriteFile(p)
    PROVE  ProgramsInv'
<1>1. /\ pc[p] = "write" /\ prog[p] \in Harness /\ ~Asks(p)
      /\ file_exists[p] /\ filename[p] \in Name /\ filename[p] = argOne[p]
      /\ fd[p] \in Inode /\ \A n \in Name \ {filename[p]} : dir[n] # fd[p]
  <2>1. pc[p] = "write"
    BY DEF WriteFile
  <2> QED
    BY <2>1, NameAssumption DEF ProgramsInv, TypeOK, Ordered, Named, Linked, Asks, Harness
<1>2. /\ UNCHANGED start /\ UNCHANGED dir
      /\ \A q \in Proc : q # p => Same(q)
      /\ filename' = filename /\ block' = block /\ contents' = contents
      /\ success' = success /\ printed' = printed /\ file_exists' = file_exists
      /\ fd' = [fd EXCEPT ![p] = NULL] /\ pc' = [pc EXCEPT ![p] = DoIt(p)]
      /\ written' = [written EXCEPT ![p] = data'[fd[p]]]
  BY StepIsLocal DEF ProgramsInv, Step, WriteFile, Goto, start, reader
<1>3. failed' \in [Proc -> SUBSET Faults] /\ failed[p] \subseteq failed'[p]
  <2>1. UNCHANGED failed \/ Fails(p, "write")
    BY DEF WriteFile
  <2>2. CASE UNCHANGED failed
    BY <2>2 DEF ProgramsInv, TypeOK
  <2>3. CASE Fails(p, "write")
    BY <2>3 DEF ProgramsInv, TypeOK, Fails
  <2> QED
    BY <2>1, <2>2, <2>3
<1>4. data' \in [Inode -> Seq(Byte)] /\ \A i \in Inode \ {fd[p]} : data'[i] = data[i]
  <2>1. data' = data \/ \E output \in Output :
           data' = [data EXCEPT ![fd[p]] = Overwritten(data[fd[p]], GetFuzzedContents(output))]
    BY <1>1 DEF WriteFile, ProgramsInv, TypeOK
  <2>2. CASE data' = data
    BY <2>2 DEF ProgramsInv, TypeOK
  <2>3. CASE data' # data
    <3>1. PICK output \in Output :
             data' = [data EXCEPT ![fd[p]] = Overwritten(data[fd[p]], GetFuzzedContents(output))]
      BY <2>1, <2>3
    <3>2. data[fd[p]] \in Seq(Byte)
      BY <1>1 DEF ProgramsInv, TypeOK
    <3>3. Overwritten(data[fd[p]], GetFuzzedContents(output)) \in Seq(Byte)
      BY <3>2, FuzzedType
    <3> QED
      BY <1>1, <3>1, <3>3 DEF ProgramsInv, TypeOK
  <2> QED
    BY <2>2, <2>3
<1>5. TypeOK'
  <2>1. written' \in [Proc -> Seq(Byte)]
    BY <1>1, <1>2, <1>4 DEF ProgramsInv, TypeOK
  <2>2. fd' \in [Proc -> Inode \cup {NULL}] /\ pc' \in [Proc -> PC]
    BY <1>2 DEF ProgramsInv, TypeOK, PC, DoIt
  <2> QED
    BY <1>2, <1>3, <1>4, <2>1, <2>2 DEF ProgramsInv, TypeOK, start
<1>6. Linked'
  BY <1>2 DEF ProgramsInv, TypeOK, Linked, Same, DoIt
<1>7. \A q \in Proc : Ordered(q)' /\ Allocated(q)' /\ Named(q)' /\ Admitted(q)'
  <2> SUFFICES ASSUME NEW q \in Proc
               PROVE  Ordered(q)' /\ Allocated(q)' /\ Named(q)' /\ Admitted(q)'
    OBVIOUS
  <2>1. CASE q # p
    BY <1>2, <2>1 DEF ProgramsInv, Ordered, Allocated, Named, Admitted, Authenticate,
           Asks,
           Same, start
  <2>2. CASE q = p
    BY <1>1, <1>2, <2>2 DEF ProgramsInv, TypeOK, Ordered, Allocated, Named, Admitted,
           Asks, DoIt, Over, Best, Bad, Harness, start
  <2> QED
    BY <2>1, <2>2
<1>8. Kept(p)'
  <2>1. ASSUME prog[p] = "harness07_best", filename[p] \in Name, file_exists[p],
               failed'[p] = {}, Intact(p)
        PROVE  Intact(p)'
    <3>1. pc'[p] = "verify"
      BY <1>2, <2>1 DEF ProgramsInv, TypeOK, DoIt, Best
    <3>2. dir'[filename[p]] # NULL /\ dir'[filename[p]] = fd[p]
      BY <1>1, <1>2, <2>1 DEF Intact
    <3>3. data'[dir'[filename[p]]] = written'[p]
      BY <1>2, <3>2 DEF ProgramsInv, TypeOK
    <3> QED
      BY <1>2, <3>1, <3>2, <3>3 DEF Intact
  <2> QED
    BY <1>2, <1>3, <2>1, KeepsOwn
<1>9. \A q \in Proc : Kept(q)'
  <2> SUFFICES ASSUME NEW q \in Proc \ {p} PROVE Kept(q)'
    BY <1>8
  <2>1. ASSUME Opened(q), Alone(q), filename[q] \in Name, Intact(q), pc[q] # "exited"
        PROVE  /\ dir'[filename[q]] = dir[filename[q]]
               /\ data'[dir[filename[q]]] = data[dir[filename[q]]]
    <3>1. filename[q] # filename[p]
      BY <1>1, <2>1 DEF ProgramsInv, Named, Opened, Alone
    <3>2. dir[filename[q]] \in Inode \ {fd[p]}
      BY <1>1, <2>1, <3>1 DEF ProgramsInv, TypeOK, Intact
    <3> QED
      BY <1>2, <1>4, <3>2
  <2> QED
    BY <2>1, OthersKeep DEF Step
<1>10. InBounds' /\ KilledForCause'
  BY <1>2, OthersUnharmed DEF Step, ProgramsInv, TypeOK, InBounds, DoIt
<1>11. NoLitter'
  <2>1. \A q \in Proc : Opened(q) =>
              /\ filename'[q] = filename[q]
              /\ pc'[q] = "exited" <=> pc[q] = "exited"
              /\ failed[q] \subseteq failed'[q]
    BY <1>1, <1>2, <1>3 DEF ProgramsInv, TypeOK, Same, DoIt
  <2> QED
    BY <1>2, <2>1, QuietLitter DEF ProgramsInv, start
<1> QED
  BY <1>5, <1>6, <1>7, <1>9, <1>10, <1>11 DEF ProgramsInv

\* The harness removes what it opened, or what has its name by now.
LEMMA RemoveFileStep ==
    ASSUME ProgramsInv, NEW p \in Proc, RemoveFile(p)
    PROVE  ProgramsInv'
<1>1. pc[p] = "remove" /\ prog[p] \in Harness /\ ~Asks(p)
  <2>1. pc[p] = "remove"
    BY DEF RemoveFile, Goto
  <2> QED
    BY <2>1 DEF ProgramsInv, Ordered, Asks, Harness
<1>2. /\ UNCHANGED start /\ UNCHANGED data
      /\ \A q \in Proc : q # p => Same(q)
      /\ filename' = filename /\ block' = block /\ contents' = contents /\ fd' = fd
      /\ success' = success /\ printed' = printed /\ file_exists' = file_exists
      /\ written' = written /\ pc' = [pc EXCEPT ![p] = "exited"]
  BY StepIsLocal DEF ProgramsInv, Step, RemoveFile, Goto, start, reader
<1>3. \/ /\ file_exists[p] /\ dir' = [dir EXCEPT ![filename[p]] = NULL] /\ failed' = failed
      \/ /\ file_exists[p] => dir[filename[p]] = NULL
         /\ dir' = dir /\ failed' = failed
      \/ file_exists[p] /\ dir' = dir /\ Fails(p, "remove")
  BY DEF RemoveFile, Exists, ProgramsInv, Named
<1>4. failed' \in [Proc -> SUBSET Faults] /\ failed[p] \subseteq failed'[p]
  <2>1. UNCHANGED failed \/ Fails(p, "remove")
    BY <1>3
  <2>2. CASE UNCHANGED failed
    BY <2>2 DEF ProgramsInv, TypeOK
  <2>3. CASE Fails(p, "remove")
    BY <2>3 DEF ProgramsInv, TypeOK, Fails
  <2> QED
    BY <2>1, <2>2, <2>3
<1>5. file_exists[p] => filename[p] \in Name /\ filename[p] = argOne[p]
  BY DEF ProgramsInv, Named
<1>6. /\ dir' \in [Name -> Inode \cup {NULL}]
      /\ \A n \in Name : dir'[n] = dir[n] \/ (dir'[n] = NULL /\ n = filename[p])
  BY <1>3, <1>5 DEF ProgramsInv, TypeOK
<1>7. TypeOK'
  <2>1. pc' \in [Proc -> PC]
    BY <1>2 DEF ProgramsInv, TypeOK, PC, Over
  <2> QED
    BY <1>2, <1>4, <1>6, <2>1 DEF ProgramsInv, TypeOK, start
<1>8. Linked'
  <2>1. \A m, n \in Name : m # n => dir'[m] = NULL \/ dir'[m] # dir'[n]
    BY <1>6 DEF ProgramsInv, Linked
  <2>2. ASSUME NEW q \in Proc, pc'[q] = "write"
        PROVE  fd'[q] # NULL /\ \A n \in Name \ {filename'[q]} : dir'[n] # fd'[q]
    <3>1. pc[q] = "write"
      BY <1>2, <2>2 DEF ProgramsInv, TypeOK
    <3> QED
      BY <1>2, <1>6, <3>1 DEF ProgramsInv, Linked
  <2> QED
    BY <2>1, <2>2 DEF Linked
<1>9. \A q \in Proc : Ordered(q)' /\ Allocated(q)' /\ Named(q)' /\ Admitted(q)'
  <2> SUFFICES ASSUME NEW q \in Proc
               PROVE  Ordered(q)' /\ Allocated(q)' /\ Named(q)' /\ Admitted(q)'
    OBVIOUS
  <2>1. CASE q # p
    BY <1>2, <2>1 DEF ProgramsInv, Ordered, Allocated, Named, Admitted, Authenticate,
           Asks,
           Same, start
  <2>2. CASE q = p
    BY <1>1, <1>2, <2>2 DEF ProgramsInv, TypeOK, Ordered, Allocated, Named, Admitted,
           Asks, Over, Best, Bad, Harness, start
  <2> QED
    BY <2>1, <2>2
<1>10. Kept(p)'
  <2>1. ASSUME prog[p] = "harness07_best", filename[p] \in Name, file_exists[p],
               failed'[p] = {}, Intact(p)
        PROVE  Intact(p)'
    BY <1>1, <1>2, <2>1 DEF ProgramsInv, TypeOK, Intact
  <2> QED
    BY <1>2, <1>4, <2>1, KeepsOwn
<1>11. \A q \in Proc : Kept(q)'
  <2> SUFFICES ASSUME NEW q \in Proc \ {p} PROVE Kept(q)'
    BY <1>10
  <2>1. ASSUME Opened(q), Alone(q), filename[q] \in Name, Intact(q), pc[q] # "exited"
        PROVE  /\ dir'[filename[q]] = dir[filename[q]]
               /\ data'[dir[filename[q]]] = data[dir[filename[q]]]
    <3>1. file_exists[p] => filename[q] # filename[p]
      BY <1>5, <2>1 DEF ProgramsInv, Named, Opened, Alone
    <3> QED
      BY <1>2, <1>3, <2>1, <3>1 DEF ProgramsInv, TypeOK
  <2> QED
    BY <2>1, OthersKeep DEF Step
<1>12. InBounds' /\ KilledForCause'
  <2>1. pc'[p] # "killed"
    BY <1>2 DEF ProgramsInv, TypeOK
  <2> QED
    BY <1>2, <2>1, OthersUnharmed DEF Step, ProgramsInv, InBounds
<1>13. NoLitter'
  <2> SUFFICES ASSUME NEW q \in Proc, Opened(q)', pc'[q] = "exited", dir'[filename'[q]] # NULL
               PROVE  \E r \in Proc :
                          /\ Opened(r)' /\ filename'[r] = filename'[q]
                          /\ pc'[r] # "exited" \/ "remove" \in failed'[r]
    BY DEF NoLitter
  <2>1. Opened(q) /\ filename[q] \in Name /\ dir[filename[q]] # NULL
    <3>1. Opened(q)
      BY <1>2 DEF Opened, start
    <3>2. filename[q] \in Name
      BY <3>1 DEF ProgramsInv, Named, Opened
    <3> QED
      BY <1>2, <1>6, <3>1, <3>2
  <2>2. \/ file_exists[p] /\ filename[p] = filename[q] /\ Fails(p, "remove")
        \/ ~file_exists[p] \/ filename[p] # filename[q]
    BY <1>2, <1>3, <2>1 DEF ProgramsInv, TypeOK
  <2>3. CASE file_exists[p] /\ filename[p] = filename[q] /\ Fails(p, "remove")
    BY <1>1, <1>2, <2>3 DEF Opened, Fails, ProgramsInv, TypeOK, start
  <2>4. CASE ~file_exists[p] \/ filename[p] # filename[q]
    <3>1. q # p /\ pc[q] = "exited"
      BY <1>2, <2>1, <2>4 DEF Opened, ProgramsInv, TypeOK
    <3>2. PICK r \in Proc : /\ Opened(r) /\ filename[r] = filename[q]
                            /\ pc[r] # "exited" \/ "remove" \in failed[r]
      BY <2>1, <3>1 DEF ProgramsInv, NoLitter
    <3>3. r # p
      BY <2>4, <3>2 DEF Opened
    <3> QED
      BY <1>2, <3>2, <3>3 DEF Opened, Same, start
  <2> QED
    BY <2>2, <2>3, <2>4
<1> QED
  BY <1>7, <1>8, <1>9, <1>11, <1>12, <1>13 DEF ProgramsInv

\* Nothing changes when nothing does.
LEMMA StutterPrograms == ProgramsInv /\ UNCHANGED vars => ProgramsInv'
<1> SUFFICES ASSUME ProgramsInv, UNCHANGED vars PROVE ProgramsInv'
  OBVIOUS
<1> USE DEF vars, local, start, reader, files
<1>1. TypeOK' /\ Linked'
  BY DEF ProgramsInv, TypeOK, Linked
<1>2. \A p \in Proc : Ordered(p)' /\ Allocated(p)' /\ Named(p)'
  BY DEF ProgramsInv, Ordered, Allocated, Named, Asks
<1>3. \A p \in Proc : Admitted(p)' /\ Kept(p)'
  BY DEF ProgramsInv, Admitted, Kept, Intact, Asks, Authenticate, Opened, Alone
<1>4. InBounds' /\ NoLitter'
  BY DEF ProgramsInv, InBounds, NoLitter, Opened
<1>5. KilledForCause'
  BY DEF ProgramsInv, KilledForCause, Parses, ParseArgs
<1> QED
  BY <1>1, <1>2, <1>3, <1>4, <1>5 DEF ProgramsInv

-----------------------------------------------------------------------------
(* The theorems.                                                           *)

\* The inductive invariant of the programs, of which the others are parts.
THEOREM ProgramsInvariant == Spec => []ProgramsInv
<1>1. Init => ProgramsInv
  BY InitPrograms
<1>2. ProgramsInv /\ [Next]_vars => ProgramsInv'
  <2> SUFFICES ASSUME ProgramsInv, [Next]_vars PROVE ProgramsInv'
    OBVIOUS
  <2>1. CASE \E p \in Proc : Step(p)
    <3>1. PICK p \in Proc : Step(p)
      BY <2>1
    <3> QED
      BY <3>1, GetFilenameStep, TakeArgumentStep, CheckPasswordStep, VerifyFilenameStep,
         SizeFileStep, OpenFileStep, ReadFileStep, BadOpenFileStep, GetCharactersStep,
         PrintStep, ReadTestInputStep, CreateFileStep, WriteFileStep, RemoveFileStep
         DEF Step
  <2>2. CASE UNCHANGED vars
    BY <2>2, StutterPrograms
  <2> QED
    BY <2>1, <2>2 DEF Next, AllOver
<1> QED
  BY <1>1, <1>2, PTL DEF Spec

\* Every variable keeps its type: a block is never of a negative size, and what is
\* stored, printed and written are bytes.
THEOREM TypeCorrect == Spec => []TypeOK
<1>1. ProgramsInv => TypeOK
  BY DEF ProgramsInv
<1> QED
  BY <1>1, ProgramsInvariant, PTL

\* The best read_file() stays inside its block, however long the file has become
\* since it was measured.
THEOREM StaysInBounds == Spec => []InBounds
<1>1. ProgramsInv => InBounds
  BY DEF ProgramsInv
<1> QED
  BY <1>1, ProgramsInvariant, PTL

\* A best program is killed for its arguments alone, and a bad one for a text that
\* fills its block.
THEOREM KillsExplained == Spec => []KilledForCause
<1>1. ProgramsInv => KilledForCause
  BY DEF ProgramsInv
<1> QED
  BY <1>1, ProgramsInvariant, PTL

\* A test case that outlives its harness has another one, or could not be removed.
THEOREM NoneForgotten == Spec => []NoLitter
<1>1. ProgramsInv => NoLitter
  BY DEF ProgramsInv
<1> QED
  BY <1>1, ProgramsInvariant, PTL

\* The best source07 harness prints what it wrote, when nothing interferes.
THEOREM PrintsOwn == Spec => []PrintsTestCase
<1>1. ProgramsInv => PrintsTestCase
  BY DEF ProgramsInv, PrintsTestCase, Kept, Intact
<1> QED
  BY <1>1, ProgramsInvariant, PTL

\* What is accepted begins with the password, and only a newline or a nul character
\* may follow it.
LEMMA AcceptedLine ==
    ASSUME NEW p \in Proc, line[p] \in Line \cup {<<>>}, Authenticate(p)
    PROVE  /\ Cut(line[p], Len(PASSWORD)) = PASSWORD
           /\ Len(line[p]) > Len(PASSWORD) => line[p][Len(PASSWORD) + 1] \in {NewLine, Nul}
<1> DEFINE l == line[p]
           first == FirstLine(l)
           untilNul == Before(first, {Nul})
           text == Before(l, {NewLine})
           n == Len(PASSWORD)
<1>1. /\ l \in Seq(Byte) /\ PASSWORD \in Seq(Byte) /\ n \in Nat /\ n < BUF_LEN - 1
      /\ BUF_LEN \in Nat
  BY PasswordAssumption, SizeAssumption DEF Authenticate
<1>2. Before(untilNul, {NewLine}) = PASSWORD
  BY DEF Authenticate, TruncateNewlines
<1>3. /\ text \in Seq(Byte) /\ Len(text) \in Nat /\ Len(l) \in Nat /\ Len(text) <= Len(l)
      /\ Len(text) < Len(l) => l[Len(text) + 1] = NewLine
  BY <1>1, BeforeProperties
<1> DEFINE size == IF Len(text) < BUF_LEN - 1 THEN Len(text) + 1 ELSE BUF_LEN - 1
<1>4. size \in Nat
  BY <1>1, <1>3
<1>5. first = Cut(l, size)
  BY DEF FirstLine
<1> HIDE DEF text, size, first, l, untilNul, n
<1>6. /\ first \in Seq(Byte) /\ Len(first) = (IF size < Len(l) THEN size ELSE Len(l))
      /\ \A i \in 1..Len(first) : first[i] = l[i]
  BY <1>1, <1>3, <1>4, <1>5, CutProperties
<1>7. /\ untilNul \in Seq(Byte) /\ Len(untilNul) \in Nat /\ Len(untilNul) <= Len(first)
      /\ \A i \in 1..Len(untilNul) : untilNul[i] = first[i]
      /\ Len(untilNul) < Len(first) => first[Len(untilNul) + 1] = Nul
  BY <1>6, BeforeProperties DEF untilNul
<1>8. /\ n <= Len(untilNul)
      /\ \A i \in 1..n : PASSWORD[i] = untilNul[i] /\ PASSWORD[i] # NewLine
      /\ n < Len(untilNul) => untilNul[n + 1] = NewLine
  <2>1. /\ n = Len(Before(untilNul, {NewLine})) /\ n <= Len(untilNul)
        /\ \A i \in 1..n : /\ Before(untilNul, {NewLine})[i] = untilNul[i]
                            /\ untilNul[i] \notin {NewLine}
        /\ n < Len(untilNul) => untilNul[n + 1] \in {NewLine}
    BY <1>2, <1>7, BeforeProperties DEF n
  <2> QED
    BY <1>2, <2>1
<1>9. n <= Len(first) /\ n <= Len(l) /\ \A i \in 1..n : PASSWORD[i] = l[i]
  <2>1. n <= Len(first) /\ Len(first) \in Nat /\ n <= Len(l)
    BY <1>1, <1>3, <1>4, <1>6, <1>7, <1>8
  <2>2. \A i \in 1..n : i \in 1..Len(untilNul) /\ i \in 1..Len(first)
    BY <1>1, <1>7, <1>8, <2>1
  <2> QED
    BY <1>6, <1>7, <1>8, <2>1, <2>2
<1>10. Cut(l, n) = PASSWORD
  <2>1. /\ Cut(l, n) \in Seq(Byte) /\ Len(Cut(l, n)) = n
        /\ \A i \in 1..n : Cut(l, n)[i] = l[i]
    BY <1>1, <1>3, <1>9, CutProperties
  <2> QED
    BY <1>1, <1>9, <2>1, SeqEqual DEF n
<1>11. ASSUME n < Len(l) PROVE l[n + 1] \in {NewLine, Nul}
  <2>1. CASE n < Len(untilNul)
    <3>1. n + 1 \in 1..Len(untilNul) /\ n + 1 \in 1..Len(first)
      BY <1>1, <1>3, <1>4, <1>6, <1>7, <2>1
    <3> QED
      BY <1>6, <1>7, <1>8, <2>1, <3>1
  <2>2. CASE n = Len(untilNul) /\ n < Len(first)
    BY <1>1, <1>6, <1>7, <2>2
  <2>3. CASE n = Len(first)
    <3>1. n = size
      BY <1>1, <1>4, <1>6, <1>11, <2>3
    <3>2. n = Len(text) + 1
      BY <1>1, <1>3, <3>1 DEF size
    <3>3. l[n] = NewLine
      BY <1>3, <1>11, <3>2
    <3>4. PASSWORD[n] = NewLine
      BY <1>3, <1>9, <3>2, <3>3
    <3>5. n \in 1..n
      BY <1>1, <1>3, <3>2
    <3> QED
      BY <1>8, <3>4, <3>5
  <2> QED
    BY <1>1, <1>3, <1>6, <1>7, <1>8, <1>9, <2>1, <2>2, <2>3
<1> QED
  BY <1>1, <1>3, <1>10, <1>11 DEF l, n

\* source04 accepts its password and nothing else.
THEOREM PasswordNeeded == Spec => []OnlyPassword
<1> DEFINE LineOK == line \in [Proc -> Line \cup {<<>>}]
<1>1. Init => LineOK
  BY DEF Init
<1>2. LineOK /\ [Next]_vars => LineOK'
  <2>1. [Next]_vars => UNCHANGED line
    BY DEF Next, AllOver, vars, start, Step, GetFilename, TakeArgument, CheckPassword,
           VerifyFilename, SizeFile, OpenFile, ReadFile, BadOpenFile, GetCharacters, PrintContents,
           ReadTestInput, CreateFile, WriteFile, RemoveFile
  <2> QED
    BY <2>1
<1>3. ProgramsInv /\ LineOK => OnlyPassword
  BY AcceptedLine DEF ProgramsInv, OnlyPassword, Admitted
<1> HIDE DEF LineOK
<1> QED
  BY <1>1, <1>2, <1>3, ProgramsInvariant, PTL DEF Spec
=============================================================================
