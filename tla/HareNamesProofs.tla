--------------------------- MODULE HareNamesProofs ---------------------------
(***************************************************************************)
(* Proofs about HareNames for any contents of the test input, any          *)
(* directories, destinations and options, any limits and any local times.  *)
(***************************************************************************)
EXTENDS HareNames, HareStringsProofs

LOCAL INSTANCE FiniteSetsExt
LOCAL INSTANCE SequencesExt

-----------------------------------------------------------------------------
(* Blocks and the strings that begin with them.                            *)

LEMMA Bytes ==
    /\ Nul \in Byte /\ Slash \in Byte /\ Dot \in Byte /\ Underscore \in Byte /\ Blank \in Byte
    /\ \A i \in 1..10 : Digit[i] \in Byte
    /\ NULL # <<>> /\ <<>> \in Seq(Byte)
<1>1. <<>> \in Seq(Byte)
  OBVIOUS
<1> QED
  BY <1>1, ByteAssumption, ContentAssumption

\* The string of a block ends before the first nul character.
LEMMA StringProperties ==
    ASSUME NEW b \in Seq(Byte)
    PROVE  /\ String(b) \in Seq(Byte) /\ Len(String(b)) \in 0..Len(b)
           /\ \A i \in 1..Len(String(b)) : String(b)[i] = b[i] /\ b[i] # Nul
           /\ Len(String(b)) < Len(b) => b[Len(String(b)) + 1] = Nul
  BY BeforeProperties DEF String

\* What has the length and the characters of a string's block is its string.
LEMMA StringIs ==
    ASSUME NEW b \in Seq(Byte), NEW k \in 0..Len(b),
           \A i \in 1..k : b[i] # Nul,
           k < Len(b) => b[k + 1] = Nul
    PROVE  Len(String(b)) = k /\ String(b) = SubSeq(b, 1, k)
  BY BeforeIs DEF String

\* The string of two blocks, the first of which is a string.
LEMMA StringOfConcat ==
    ASSUME NEW a \in Seq(Byte), NEW b \in Seq(Byte), ~Contains(a, Nul)
    PROVE  String(a \o b) = a \o String(b)
<1> DEFINE c == a \o b
           s == String(b)
           k == Len(a) + Len(s)
<1>1. /\ c \in Seq(Byte) /\ Len(c) = Len(a) + Len(b)
      /\ \A i \in 1..(Len(a) + Len(b)) : c[i] = IF i <= Len(a) THEN a[i] ELSE b[i - Len(a)]
  BY ConcatProperties
<1>2. /\ s \in Seq(Byte) /\ Len(s) \in 0..Len(b)
      /\ \A i \in 1..Len(s) : s[i] = b[i] /\ b[i] # Nul
      /\ Len(s) < Len(b) => b[Len(s) + 1] = Nul
  BY StringProperties
<1>3. Len(a) \in Nat /\ Len(b) \in Nat /\ \A i \in 1..Len(a) : a[i] # Nul
  BY DEF Contains
<1>4. /\ a \o s \in Seq(Byte) /\ Len(a \o s) = k
      /\ \A i \in 1..k : (a \o s)[i] = IF i <= Len(a) THEN a[i] ELSE s[i - Len(a)]
  BY <1>2, ConcatProperties
<1> HIDE DEF c, s
<1>5. k \in 0..Len(c) /\ \A i \in 1..k : c[i] = (a \o s)[i] /\ c[i] # Nul
  <2>1. k \in 0..Len(c)
    BY <1>1, <1>2, <1>3
  <2>2. ASSUME NEW i \in 1..k, i <= Len(a)
        PROVE  c[i] = (a \o s)[i] /\ c[i] # Nul
    BY <1>1, <1>2, <1>3, <1>4, <2>2
  <2>3. ASSUME NEW i \in 1..k, ~(i <= Len(a))
        PROVE  c[i] = (a \o s)[i] /\ c[i] # Nul
    <3>1. i - Len(a) \in 1..Len(s) /\ i \in 1..(Len(a) + Len(b))
      BY <1>2, <1>3, <2>3
    <3>2. c[i] = b[i - Len(a)] /\ (a \o s)[i] = s[i - Len(a)]
      BY <1>1, <1>4, <2>3, <3>1
    <3> QED
      BY <1>2, <3>1, <3>2
  <2> QED
    BY <2>1, <2>2, <2>3
<1>6. k < Len(c) => c[k + 1] = Nul
  BY <1>1, <1>2, <1>3
<1>7. Len(String(c)) = k /\ String(c) = SubSeq(c, 1, k)
  BY <1>1, <1>5, <1>6, StringIs
<1>8. /\ String(c) \in Seq(Byte)
      /\ \A i \in 1..Len(String(c)) : String(c)[i] = c[i]
  BY <1>1, StringProperties
<1>9. String(c) = a \o s
  BY <1>4, <1>5, <1>7, <1>8, SeqEqual
<1> QED
  BY <1>9 DEF c, s

\* A string cut is the string of the block cut.
LEMMA StringOfCut ==
    ASSUME NEW b \in Seq(Byte), NEW n \in Nat
    PROVE  String(Cut(b, n)) = Cut(String(b), n)
<1> DEFINE s == String(b)
           c == Cut(b, n)
           d == Cut(s, n)
<1>1. /\ s \in Seq(Byte) /\ Len(s) \in 0..Len(b) /\ Len(b) \in Nat
      /\ \A i \in 1..Len(s) : s[i] = b[i] /\ b[i] # Nul
      /\ Len(s) < Len(b) => b[Len(s) + 1] = Nul
  BY StringProperties
<1>2. /\ c \in Seq(Byte) /\ Len(c) = IF n < Len(b) THEN n ELSE Len(b)
      /\ \A i \in 1..Len(c) : c[i] = b[i]
  BY CutProperties
<1>3. /\ d \in Seq(Byte) /\ Len(d) = IF n < Len(s) THEN n ELSE Len(s)
      /\ \A i \in 1..Len(d) : d[i] = s[i]
  BY <1>1, CutProperties
<1> HIDE DEF s, c, d
<1>4. /\ Len(d) \in 0..Len(c) /\ \A i \in 1..Len(d) : c[i] = d[i] /\ c[i] # Nul
      /\ Len(d) < Len(c) => c[Len(d) + 1] = Nul
  <2>1. Len(d) \in 0..Len(c)
    BY <1>1, <1>2, <1>3
  <2>2. \A i \in 1..Len(d) : c[i] = d[i] /\ c[i] # Nul
    BY <1>1, <1>2, <1>3, <2>1
  <2>3. ASSUME Len(d) < Len(c) PROVE c[Len(d) + 1] = Nul
    <3>1. Len(d) = Len(s) /\ Len(s) < Len(b)
      BY <1>1, <1>2, <1>3, <2>3
    <3> QED
      BY <1>1, <1>2, <2>1, <2>3, <3>1
  <2> QED
    BY <2>1, <2>2, <2>3
<1>5. /\ Len(String(c)) = Len(d) /\ String(c) \in Seq(Byte)
      /\ \A i \in 1..Len(String(c)) : String(c)[i] = c[i]
  BY <1>2, <1>4, StringIs, StringProperties
<1>6. String(c) = d
  BY <1>3, <1>4, <1>5, SeqEqual
<1> QED
  BY <1>6 DEF c, d, s

LEMMA ZerosProperties ==
    ASSUME NEW n \in Nat
    PROVE  /\ Zeros(n) \in Seq(Byte) /\ Len(Zeros(n)) = n
           /\ \A i \in 1..n : Zeros(n)[i] = Nul
           /\ String(Zeros(n)) = <<>>
<1>1. /\ Zeros(n) \in Seq(Byte) /\ Len(Zeros(n)) = n
      /\ \A i \in 1..n : Zeros(n)[i] = Nul
  <2>1. Zeros(n) \in [1..n -> Byte] /\ \A i \in 1..n : Zeros(n)[i] = Nul
    BY Bytes DEF Zeros
  <2>2. Zeros(n) \in Seq(Byte)
    BY <2>1, SeqDef
  <2> QED
    BY <2>1, <2>2, LenProperties
<1>2. /\ String(Zeros(n)) \in Seq(Byte) /\ Len(String(Zeros(n))) \in 0..n
      /\ \A i \in 1..Len(String(Zeros(n))) : Zeros(n)[i] # Nul
  BY <1>1, StringProperties
<1>3. Len(String(Zeros(n))) = 0
  BY <1>1, <1>2
<1> QED
  BY <1>1, <1>2, <1>3, EmptySeq

\* What read() stores is the beginning of the file, and its string does not go
\* beyond.
LEMMA BlockProperties ==
    ASSUME NEW c \in Seq(Byte), file_size \in Nat
    PROVE  /\ Block(c) \in Seq(Byte) /\ Len(Block(c)) = file_size
           /\ String(Block(c)) = String(Cut(c, file_size))
<1> DEFINE a == Cut(c, file_size)
           n == file_size - Len(a)
           z == Zeros(n)
           s == String(a)
           b == a \o z
<1>1. a \in Seq(Byte) /\ Len(a) \in 0..file_size /\ n \in Nat
  <2>1. Len(c) \in Nat
    OBVIOUS
  <2> QED
    BY <2>1, CutProperties
<1>2. /\ z \in Seq(Byte) /\ Len(z) = n /\ \A i \in 1..n : z[i] = Nul
  BY <1>1, ZerosProperties
<1>3. Block(c) = b
  BY DEF Block
<1>4. /\ s \in Seq(Byte) /\ Len(s) \in 0..Len(a)
      /\ \A i \in 1..Len(s) : s[i] = a[i] /\ a[i] # Nul
      /\ Len(s) < Len(a) => a[Len(s) + 1] = Nul
  BY <1>1, StringProperties
<1>5. /\ b \in Seq(Byte) /\ Len(b) = Len(a) + n
      /\ \A i \in 1..(Len(a) + n) : b[i] = IF i <= Len(a) THEN a[i] ELSE z[i - Len(a)]
  BY <1>1, <1>2, ConcatProperties
<1>6. Len(b) = file_size
  BY <1>1, <1>5
<1> HIDE DEF a, n, z, s, b
<1>7. /\ Len(s) \in 0..Len(b) /\ \A i \in 1..Len(s) : b[i] = s[i] /\ b[i] # Nul
      /\ Len(s) < Len(b) => b[Len(s) + 1] = Nul
  BY <1>1, <1>2, <1>4, <1>5
<1>8. /\ Len(String(b)) = Len(s) /\ String(b) \in Seq(Byte)
      /\ \A i \in 1..Len(String(b)) : String(b)[i] = b[i]
  BY <1>5, <1>7, StringIs, StringProperties
<1>9. String(b) = s
  BY <1>4, <1>7, <1>8, SeqEqual
<1> QED
  BY <1>3, <1>5, <1>6, <1>9 DEF a, s

-----------------------------------------------------------------------------
(* Directories and the files in them.                                      *)

\* One directory in another.
LEMMA DirectoryInDirectory ==
    ASSUME NEW a, NEW b, IsDirectory(a), IsDirectory(b)
    PROVE  IsDirectory(a \o b)
<1>1. /\ a \in Seq(Byte) /\ Len(a) \in Nat /\ \A i \in 1..Len(a) : a[i] # Nul
      /\ b \in Seq(Byte) /\ Len(b) \in Nat /\ \A i \in 1..Len(b) : b[i] # Nul
      /\ b # <<>> /\ b[Len(b)] = Slash
  BY DEF IsDirectory, IsPath, Contains, Last
<1>2. Len(b) > 0
  BY <1>1, EmptySeq
<1> DEFINE c == a \o b
<1>3. /\ c \in Seq(Byte) /\ Len(c) = Len(a) + Len(b)
      /\ \A i \in 1..(Len(a) + Len(b)) : c[i] = IF i <= Len(a) THEN a[i] ELSE b[i - Len(a)]
  BY <1>1, ConcatProperties
<1> HIDE DEF c
<1>4. c # <<>> /\ c[Len(c)] = Slash
  BY <1>1, <1>2, <1>3, EmptySeq
<1>5. \A i \in 1..Len(c) : c[i] # Nul
  BY <1>1, <1>3
<1> QED
  BY <1>3, <1>4, <1>5 DEF IsDirectory, IsPath, Contains, Last, c

\* A directory, character by character.
LEMMA DirectoryProperties ==
    ASSUME NEW d, IsDirectory(d)
    PROVE  /\ d \in Seq(Byte) /\ Len(d) \in Nat /\ Len(d) > 0 /\ d # <<>>
           /\ d[Len(d)] = Slash /\ ~Contains(d, Nul)
           /\ \A i \in 1..Len(d) : d[i] # Nul
<1>1. /\ d \in Seq(Byte) /\ d # <<>> /\ ~Contains(d, Nul) /\ d[Len(d)] = Slash
  BY DEF IsDirectory, IsPath, Last
<1>2. Len(d) \in Nat \ {0}
  BY <1>1, EmptySeq
<1> QED
  BY <1>1, <1>2 DEF Contains

\* The file a path leads to is named for what follows its last slash.
LEMMA LeafProperties ==
    ASSUME NEW from, NEW path \in Seq(Byte), Leaf(from, path) # NULL
    PROVE  LET name == Leaf(from, path).name IN
           /\ name = BaseName(path, Slash)
           /\ name \in Seq(Byte) \ {<<>>, <<Dot>>} /\ Len(name) \in 1..Len(path)
           /\ \A i \in 1..Len(name) : name[i] # Slash
<1> DEFINE name == BaseName(path, Slash)
<1>1. Leaf(from, path).name = name /\ name \notin {<<>>, <<Dot>>}
  <2> HIDE DEF name
  <2>1. \/ Leaf(from, path) = NULL
        \/ /\ name \notin {<<>>, <<Dot>>, <<Dot, Dot>>}
           /\ Leaf(from, path) = [dir |-> DirOf(from, path), name |-> name]
    BY DEF Leaf, name
  <2> QED
    BY <2>1
<1>2. /\ name \in Seq(Byte) /\ Len(name) \in Nat /\ Len(name) <= Len(path)
      /\ \A i \in 1..Len(name) : name[i] # Slash
  BY BaseNameProperties
<1> HIDE DEF name
<1>3. Len(name) \in 1..Len(path)
  BY <1>1, <1>2, EmptySeq
<1> QED
  BY <1>1, <1>2, <1>3 DEF name

\* The path of a directory, with its slash, leads to no file.
LEMMA LeafInDirectory ==
    ASSUME NEW from, NEW d, IsDirectory(d), Leaf(from, d) # NULL
    PROVE  FALSE
<1>1. /\ d \in Seq(Byte) /\ Len(d) \in Nat /\ Len(d) > 0 /\ d[Len(d)] = Slash
  BY DirectoryProperties
<1>2. Len(BaseName(d, Slash)) = Len(d) - Len(d)
  <2>1. Len(d) \in 0..Len(d) /\ \A i \in (Len(d) + 1)..Len(d) : d[i] # Slash
    BY <1>1
  <2> QED
    BY <1>1, <2>1, BaseNameIs
<1>3. Len(BaseName(d, Slash)) \in 1..Len(d)
  BY <1>1, LeafProperties
<1> QED
  BY <1>1, <1>2, <1>3

LEMMA LeafType ==
    ASSUME NEW from, NEW path \in Seq(Byte)
    PROVE  LET leaf == Leaf(from, path) IN
           leaf = NULL \/ (leaf.dir \in Directories /\ leaf.name \in Seq(Byte))
<1> DEFINE name == BaseName(path, Slash)
           dir == DirOf(from, path)
<1>1. name \in Seq(Byte)
  BY BaseNameProperties
<1> HIDE DEF name, dir
<1>2. \/ Leaf(from, path) = NULL
      \/ dir \in Directories /\ Leaf(from, path) = [dir |-> dir, name |-> name]
  BY DEF Leaf, name, dir
<1> QED
  BY <1>1, <1>2

-----------------------------------------------------------------------------
(* Stamps and logs.                                                        *)

\* A number has as many digits as it is wide.
LEMMA NumberProperties ==
    ASSUME NEW n \in Nat, NEW width \in 1..4
    PROVE  /\ Number(n, width) \in Seq(Byte) /\ Len(Number(n, width)) = width
           /\ \A i \in 1..width :
                 Number(n, width)[i] = Digit[((n \div Power[width - i + 1]) % 10) + 1]
           /\ \A i \in 1..width : \E d \in 1..10 : Number(n, width)[i] = Digit[d]
<1>1. \A j \in 1..4 : Power[j] \in {1, 10, 100, 1000}
  BY DEF Power
<1>2. \A p \in {1, 10, 100, 1000} : ((n \div p) % 10) + 1 \in 1..10
  OBVIOUS
<1>3. ASSUME NEW i \in 1..width
      PROVE  ((n \div Power[width - i + 1]) % 10) + 1 \in 1..10
  <2>1. width - i + 1 \in 1..4
    OBVIOUS
  <2> QED
    BY <1>1, <1>2, <2>1
<1>4. /\ Number(n, width) \in [1..width -> Byte]
      /\ \A i \in 1..width :
            Number(n, width)[i] = Digit[((n \div Power[width - i + 1]) % 10) + 1]
  BY <1>3, Bytes DEF Number
<1>5. Number(n, width) \in Seq(Byte)
  BY <1>4, SeqDef
<1>6. Len(Number(n, width)) = width
  BY <1>4, <1>5, LenProperties
<1> QED
  BY <1>3, <1>4, <1>5, <1>6

\* The log is a string, if there is one.
LEMMA AsanLogType ==
    ASSUME NEW value \in Seq(Byte)
    PROVE  GetAsanLog(value) = NULL \/ GetAsanLog(value) \in Seq(Byte)
<1> DEFINE at == StrStr(value, LogPath)
           rest == SubSeq(value, at + Len(LogPath), Len(value))
           log == Before(rest, {Blank})
<1>1. LogPath \in Seq(Byte) /\ Len(LogPath) \in Nat /\ Len(value) \in Nat
  BY OptionAssumption
<1>2. CASE at = 0
  BY <1>2 DEF GetAsanLog
<1>3. CASE at # 0
  <2>1. at \in 1..(Len(value) - Len(LogPath) + 1)
    BY <1>1, <1>3, StrStrProperties
  <2> HIDE DEF at
  <2>2. rest \in Seq(Byte)
    <3>1. at + Len(LogPath) \in Int /\ Len(value) \in Int
      BY <1>1, <2>1
    <3>2. \A i \in (at + Len(LogPath))..Len(value) : value[i] \in Byte
      BY <1>1, <2>1
    <3> QED
      BY <3>1, <3>2, SubSeqProperties
  <2> HIDE DEF rest
  <2>3. log \in Seq(Byte)
    BY <2>2, BeforeProperties
  <2> QED
    BY <2>3 DEF GetAsanLog, at, rest
<1> QED
  BY <1>2, <1>3

FourDigits == 0..9999

\* tm_year counts from 1900.
LEMMA YearField ==
    ASSUME NEW t \in TimeType
    PROVE  t.tm_year \in 0..8099
BY SMTT(30) DEF TimeType

\* The year has four digits at most.
LEMMA YearRange ==
    ASSUME NEW t \in TimeType
    PROVE  Year(t) \in FourDigits
<1> DEFINE y == t.tm_year
<1>1. y \in 0..8099
  BY YearField
<1>2. Year(t) = y + 1900
  BY DEF Year
<1> HIDE DEF y
<1>3. y + 1900 \in 0..9999
  BY <1>1
<1> QED
  BY <1>2, <1>3 DEF FourDigits

\* No field is negative.
LEMMA TimeNat ==
    ASSUME NEW t \in TimeType
    PROVE  /\ Year(t) \in Nat /\ t.tm_mon \in Nat /\ t.tm_mday \in Nat
           /\ t.tm_hour \in Nat /\ t.tm_min \in Nat /\ t.tm_sec \in Nat
<1>1. Year(t) \in Nat
  <2>1. \A n \in FourDigits : n \in Nat
    BY DEF FourDigits
  <2> QED
    BY <2>1, YearRange
<1>2. t.tm_mon \in Nat /\ t.tm_mday \in Nat
  BY DEF TimeType
<1>3. t.tm_hour \in Nat /\ t.tm_min \in Nat
  BY DEF TimeType
<1>4. t.tm_sec \in Nat
  BY DEF TimeType
<1> QED
  BY <1>1, <1>2, <1>3, <1>4

\* One part of m characters, and one of n after it.
PartAfterPart(whole, a, b, m, n) ==
    /\ whole \in Seq(Byte) /\ Len(whole) = m + n
    /\ \A i \in 1..m : whole[i] = a[i]
    /\ \A i \in 1..n : whole[m + i] = b[i]

LEMMA PartsConcatenated ==
    \A a, b \in Seq(Byte) : \A m, n \in Nat :
        Len(a) = m /\ Len(b) = n => PartAfterPart(a \o b, a, b, m, n)
<1> SUFFICES ASSUME NEW a \in Seq(Byte), NEW b \in Seq(Byte), NEW m \in Nat, NEW n \in Nat,
                    Len(a) = m, Len(b) = n
             PROVE  PartAfterPart(a \o b, a, b, m, n)
  OBVIOUS
<1>1. /\ a \o b \in Seq(Byte) /\ Len(a \o b) = m + n
      /\ \A i \in 1..(m + n) : (a \o b)[i] = IF i <= m THEN a[i] ELSE b[i - m]
  BY ConcatProperties
<1>2. \A i \in 1..n : m + i \in 1..(m + n) /\ ~(m + i <= m) /\ (m + i) - m = i
  OBVIOUS
<1> QED
  BY <1>1, <1>2 DEF PartAfterPart

\* Where the parts of a stamp are.
LEMMA StampParts ==
    ASSUME NEW t \in TimeType
    PROVE  LET s == Stamp(t) IN
           /\ s \in Seq(Byte) /\ Len(s) = 16
           /\ \A i \in 1..4 : s[i] = Number(Year(t), 4)[i]
           /\ \A i \in 1..2 : /\ s[4 + i] = Number(t.tm_mon, 2)[i]
                              /\ s[6 + i] = Number(t.tm_mday, 2)[i]
                              /\ s[9 + i] = Number(t.tm_hour, 2)[i]
                              /\ s[11 + i] = Number(t.tm_min, 2)[i]
                              /\ s[13 + i] = Number(t.tm_sec, 2)[i]
           /\ s[9] = Underscore /\ s[16] = Underscore
<1> DEFINE year == Number(Year(t), 4)
           mon == Number(t.tm_mon, 2)
           mday == Number(t.tm_mday, 2)
           hour == Number(t.tm_hour, 2)
           min == Number(t.tm_min, 2)
           sec == Number(t.tm_sec, 2)
           bar == <<Underscore>>
           s2 == year \o mon
           s3 == s2 \o mday
           s4 == s3 \o bar
           s5 == s4 \o hour
           s6 == s5 \o min
           s7 == s6 \o sec
           s8 == s7 \o bar
<1>1. /\ Year(t) \in Nat /\ t.tm_mon \in Nat /\ t.tm_mday \in Nat
      /\ t.tm_hour \in Nat /\ t.tm_min \in Nat /\ t.tm_sec \in Nat
  BY TimeNat
<1>2. year \in Seq(Byte) /\ Len(year) = 4
  BY <1>1, NumberProperties
<1>3. /\ mon \in Seq(Byte) /\ Len(mon) = 2 /\ mday \in Seq(Byte) /\ Len(mday) = 2
      /\ hour \in Seq(Byte) /\ Len(hour) = 2 /\ min \in Seq(Byte) /\ Len(min) = 2
      /\ sec \in Seq(Byte) /\ Len(sec) = 2
  <2>1. \A n \in Nat : Number(n, 2) \in Seq(Byte) /\ Len(Number(n, 2)) = 2
    BY NumberProperties
  <2> QED
    BY <1>1, <2>1
<1>4. bar \in Seq(Byte) /\ Len(bar) = 1 /\ bar[1] = Underscore
  BY Bytes
<1>5. Stamp(t) = s8
  BY DEF Stamp
<1> HIDE DEF year, mon, mday, hour, min, sec, bar, s2, s3, s4, s5, s6, s7, s8
<1>6. /\ s2 \in Seq(Byte) /\ Len(s2) = 6 /\ \A i \in 1..4 : s2[i] = year[i]
      /\ \A i \in 1..2 : s2[4 + i] = mon[i]
  <2>1. PartAfterPart(s2, year, mon, 4, 2)
    BY <1>2, <1>3, PartsConcatenated DEF s2
  <2> QED
    BY <2>1 DEF PartAfterPart
<1>7. /\ s3 \in Seq(Byte) /\ Len(s3) = 8 /\ \A i \in 1..6 : s3[i] = s2[i]
      /\ \A i \in 1..2 : s3[6 + i] = mday[i]
  <2>1. PartAfterPart(s3, s2, mday, 6, 2)
    BY <1>3, <1>6, PartsConcatenated DEF s3
  <2> QED
    BY <2>1 DEF PartAfterPart
<1>8. /\ s4 \in Seq(Byte) /\ Len(s4) = 9 /\ \A i \in 1..8 : s4[i] = s3[i]
      /\ \A i \in 1..1 : s4[8 + i] = bar[i]
  <2>1. PartAfterPart(s4, s3, bar, 8, 1)
    BY <1>4, <1>7, PartsConcatenated DEF s4
  <2> QED
    BY <2>1 DEF PartAfterPart
<1>9. /\ s5 \in Seq(Byte) /\ Len(s5) = 11 /\ \A i \in 1..9 : s5[i] = s4[i]
      /\ \A i \in 1..2 : s5[9 + i] = hour[i]
  <2>1. PartAfterPart(s5, s4, hour, 9, 2)
    BY <1>3, <1>8, PartsConcatenated DEF s5
  <2> QED
    BY <2>1 DEF PartAfterPart
<1>10. /\ s6 \in Seq(Byte) /\ Len(s6) = 13 /\ \A i \in 1..11 : s6[i] = s5[i]
      /\ \A i \in 1..2 : s6[11 + i] = min[i]
  <2>1. PartAfterPart(s6, s5, min, 11, 2)
    BY <1>3, <1>9, PartsConcatenated DEF s6
  <2> QED
    BY <2>1 DEF PartAfterPart
<1>11. /\ s7 \in Seq(Byte) /\ Len(s7) = 15 /\ \A i \in 1..13 : s7[i] = s6[i]
      /\ \A i \in 1..2 : s7[13 + i] = sec[i]
  <2>1. PartAfterPart(s7, s6, sec, 13, 2)
    BY <1>3, <1>10, PartsConcatenated DEF s7
  <2> QED
    BY <2>1 DEF PartAfterPart
<1>12. /\ s8 \in Seq(Byte) /\ Len(s8) = 16 /\ \A i \in 1..15 : s8[i] = s7[i]
      /\ \A i \in 1..1 : s8[15 + i] = bar[i]
  <2>1. PartAfterPart(s8, s7, bar, 15, 1)
    BY <1>4, <1>11, PartsConcatenated DEF s8
  <2> QED
    BY <2>1 DEF PartAfterPart
<1>13. \A i \in 1..13 : s8[i] = s6[i]
  BY <1>11, <1>12
<1>14. \A i \in 1..11 : s8[i] = s5[i]
  BY <1>10, <1>13
<1>15. \A i \in 1..9 : s8[i] = s4[i]
  BY <1>9, <1>14
<1>16. \A i \in 1..8 : s8[i] = s3[i]
  BY <1>8, <1>15
<1>17. \A i \in 1..6 : s8[i] = s2[i]
  BY <1>7, <1>16
<1>18. \A i \in 1..4 : s8[i] = year[i]
  BY <1>6, <1>17
<1>19. \A i \in 1..2 : /\ s8[4 + i] = mon[i] /\ s8[6 + i] = mday[i]
                       /\ s8[9 + i] = hour[i] /\ s8[11 + i] = min[i]
                       /\ s8[13 + i] = sec[i]
  <2> TAKE i \in 1..2
  <2>1. /\ 4 + i \in 1..6 /\ 6 + i \in 1..8 /\ 9 + i \in 1..11
        /\ 11 + i \in 1..13 /\ 13 + i \in 1..15
    OBVIOUS
  <2>2. s8[4 + i] = mon[i]
    BY <1>6, <1>17, <2>1
  <2>3. s8[6 + i] = mday[i]
    BY <1>7, <1>16, <2>1
  <2>4. s8[9 + i] = hour[i]
    BY <1>9, <1>14, <2>1
  <2>5. s8[11 + i] = min[i]
    BY <1>10, <1>13, <2>1
  <2>6. s8[13 + i] = sec[i]
    BY <1>11, <1>12, <2>1
  <2> QED
    BY <2>2, <2>3, <2>4, <2>5, <2>6
<1>20. s8[9] = Underscore /\ s8[16] = Underscore
  <2>1. s4[8 + 1] = bar[1] /\ s8[15 + 1] = bar[1]
    BY <1>8, <1>12
  <2> QED
    BY <1>4, <1>15, <2>1
<1> QED
  BY <1>5, <1>12, <1>18, <1>19, <1>20 DEF year, mon, mday, hour, min, sec

\* A stamp is sixteen characters, and neither a slash nor a nul character is one.
LEMMA StampProperties ==
    ASSUME NEW t \in Time
    PROVE  /\ Stamp(t) \in Seq(Byte) /\ Len(Stamp(t)) = 16 /\ Stamp(t) # <<>>
           /\ \A i \in 1..16 : Stamp(t)[i] # Slash /\ Stamp(t)[i] # Nul
<1> DEFINE s == Stamp(t)
           Plain(c) == c # Slash /\ c # Nul
<1>1. t \in TimeType
  BY TimeAssumption
<1>2. \A d \in 1..10 : Plain(Digit[d])
  BY DEF Digit, Slash, Nul
<1>3. \A n \in Nat : \A w \in 1..4 : \A i \in 1..w : Plain(Number(n, w)[i])
  <2> SUFFICES ASSUME NEW n \in Nat, NEW w \in 1..4, NEW i \in 1..w
               PROVE  Plain(Number(n, w)[i])
    OBVIOUS
  <2>1. PICK d \in 1..10 : Number(n, w)[i] = Digit[d]
    BY NumberProperties
  <2> QED
    BY <1>2, <2>1
<1>4. Plain(Underscore)
  BY Zenon DEF Slash, Nul, Underscore
<1>5. /\ Year(t) \in Nat /\ t.tm_mon \in Nat /\ t.tm_mday \in Nat
      /\ t.tm_hour \in Nat /\ t.tm_min \in Nat /\ t.tm_sec \in Nat
  BY <1>1, TimeNat
<1>6. /\ s \in Seq(Byte) /\ Len(s) = 16
      /\ \A i \in 1..4 : s[i] = Number(Year(t), 4)[i]
      /\ \A i \in 1..2 : /\ s[4 + i] = Number(t.tm_mon, 2)[i]
                         /\ s[6 + i] = Number(t.tm_mday, 2)[i]
                         /\ s[9 + i] = Number(t.tm_hour, 2)[i]
                         /\ s[11 + i] = Number(t.tm_min, 2)[i]
                         /\ s[13 + i] = Number(t.tm_sec, 2)[i]
      /\ s[9] = Underscore /\ s[16] = Underscore
  BY <1>1, StampParts
<1> HIDE DEF s, Plain
<1>7. \A i \in 1..4 : Plain(s[i])
  <2>1. \A n \in Nat : \A i \in 1..4 : Plain(Number(n, 4)[i])
    BY <1>3
  <2> QED
    BY <1>5, <1>6, <2>1
<1>8. \A i \in 1..2 : /\ Plain(s[4 + i]) /\ Plain(s[6 + i]) /\ Plain(s[9 + i])
                      /\ Plain(s[11 + i]) /\ Plain(s[13 + i])
  <2>1. \A n \in Nat : \A i \in 1..2 : Plain(Number(n, 2)[i])
    BY <1>3
  <2>2. \A i \in 1..2 : Plain(s[4 + i]) /\ Plain(s[6 + i])
    BY <1>5, <1>6, <2>1
  <2>3. \A i \in 1..2 : Plain(s[9 + i]) /\ Plain(s[11 + i])
    BY <1>5, <1>6, <2>1
  <2>4. \A i \in 1..2 : Plain(s[13 + i])
    BY <1>5, <1>6, <2>1
  <2> QED
    BY <2>2, <2>3, <2>4
<1>9. Plain(s[9]) /\ Plain(s[16])
  BY <1>4, <1>6
<1>10. /\ Plain(s[4 + 1]) /\ Plain(s[6 + 1]) /\ Plain(s[9 + 1])
       /\ Plain(s[11 + 1]) /\ Plain(s[13 + 1])
       /\ Plain(s[4 + 2]) /\ Plain(s[6 + 2]) /\ Plain(s[9 + 2])
       /\ Plain(s[11 + 2]) /\ Plain(s[13 + 2])
  BY <1>8
<1>11. \A i \in 1..16 : Plain(s[i])
  BY <1>7, <1>9, <1>10
<1>12. s # <<>>
  <2>1. Len(s) # Len(<<>>)
    BY <1>6
  <2> QED
    BY <2>1, Zenon
<1> QED
  BY <1>6, <1>11, <1>12 DEF s, Plain

-----------------------------------------------------------------------------
(* The new name of the file.                                               *)

\* The daemon has found a file: it is named for the end of what it was told.
LEMMA ToldLeaf ==
    ASSUME Told # NULL, message \in Seq(Byte)
    PROVE  /\ Told.name = BaseName(message, Slash)
           /\ Told.name \in Seq(Byte) \ {<<>>, <<Dot>>}
           /\ \A i \in 1..Len(Told.name) : Told.name[i] # Slash
  BY LeafProperties DEF Told

\* What the stamp and the name of the file make together.
LEMMA StampedName ==
    ASSUME NEW t \in Time, message \in Seq(Byte), NEW b \in Seq(Byte), message = String(b)
    PROVE  LET rest == Stamp(t) \o BaseName(message, Slash) IN
           /\ rest \in Seq(Byte) /\ Len(rest) \in Nat /\ Len(rest) > 0
           /\ \A i \in 1..Len(rest) : rest[i] # Slash /\ rest[i] # Nul
<1> DEFINE s == Stamp(t)
           e == BaseName(message, Slash)
           rest == s \o e
           n == Len(message) - Len(e)
<1>1. /\ s \in Seq(Byte) /\ Len(s) = 16 /\ \A i \in 1..16 : s[i] # Slash /\ s[i] # Nul
  BY StampProperties
<1>2. /\ e \in Seq(Byte) /\ Len(e) \in Nat /\ Len(e) <= Len(message)
      /\ \A i \in 1..Len(e) : e[i] = message[n + i] /\ e[i] # Slash
  BY BaseNameProperties
<1>3. Len(message) \in Nat /\ \A i \in 1..Len(message) : message[i] # Nul
  BY StringProperties
<1> HIDE DEF s, e
<1>4. \A i \in 1..Len(e) : e[i] # Slash /\ e[i] # Nul
  <2> TAKE i \in 1..Len(e)
  <2>1. n + i \in 1..Len(message)
    BY <1>2, <1>3
  <2> QED
    BY <1>2, <1>3, <2>1
<1> HIDE DEF rest
<1>5. /\ rest \in Seq(Byte) /\ Len(rest) = 16 + Len(e)
      /\ \A i \in 1..16 : rest[i] = s[i]
      /\ \A i \in 1..Len(e) : rest[16 + i] = e[i]
  <2>1. PartAfterPart(rest, s, e, 16, Len(e))
    BY <1>1, <1>2, PartsConcatenated DEF rest
  <2> QED
    BY <2>1 DEF PartAfterPart
<1>6. ASSUME NEW i \in 1..Len(rest) PROVE rest[i] # Slash /\ rest[i] # Nul
  <2>1. CASE i <= 16
    <3>1. i \in 1..16
      BY <1>2, <1>5, <2>1
    <3> QED
      BY <1>1, <1>5, <3>1
  <2>2. CASE ~(i <= 16)
    <3>1. i - 16 \in 1..Len(e) /\ 16 + (i - 16) = i
      BY <1>2, <1>5, <2>2
    <3>2. rest[i] = e[i - 16]
      BY <1>5, <3>1
    <3> QED
      BY <1>4, <3>1, <3>2
  <2> QED
    BY <2>1, <2>2
<1>7. Len(rest) \in Nat /\ Len(rest) > 0
  BY <1>1, <1>2, <1>5
<1> QED
  BY <1>5, <1>6, <1>7 DEF rest, s, e

\* A new name that leads to a file leads into the directory that was given, with its
\* slash.
LEMMA NewNameProperties ==
    ASSUME IsPath(dest_dir), NEW rest \in Seq(Byte),
           \A i \in 1..Len(rest) : rest[i] # Slash /\ rest[i] # Nul,
           rest = datetime_stamp \o BaseName(message, Slash),
           BaseName(String(NewAbsFilename), Slash) # <<>>
    PROVE  LET path == String(NewAbsFilename)
               name == BaseName(path, Slash) IN
           /\ name = rest /\ dest_dir[Len(dest_dir)] = Slash
           /\ SubSeq(path, 1, Len(path) - Len(name)) = dest_dir
<1> DEFINE n == Len(dest_dir)
           path == String(NewAbsFilename)
           name == BaseName(path, Slash)
<1>1. /\ dest_dir \in Seq(Byte) /\ dest_dir # <<>> /\ ~Contains(dest_dir, Nul)
      /\ \A i \in 1..n : dest_dir[i] # Nul
  BY DEF IsPath, Contains
<1>2. n \in Nat /\ n > 0
  BY <1>1, EmptySeq
<1>3. Len(rest) \in Nat
  OBVIOUS
<1>4. CASE dest_dir[n] = Slash
  <2>1. NewAbsFilename = dest_dir \o rest
    BY <1>4 DEF NewAbsFilename
  <2>2. String(rest) = rest
    BY BeforeAll DEF String
  <2>3. path = dest_dir \o rest
    BY <1>1, <2>1, <2>2, StringOfConcat
  <2> HIDE DEF path, n
  <2>4. /\ path \in Seq(Byte) /\ Len(path) = n + Len(rest)
        /\ \A i \in 1..(n + Len(rest)) :
              path[i] = IF i <= n THEN dest_dir[i] ELSE rest[i - n]
    BY <1>1, <2>3, ConcatProperties DEF n
  <2>5. Len(name) = Len(path) - n
    <3>1. n \in 0..Len(path) /\ path[n] = Slash
      BY <1>2, <1>3, <1>4, <2>4
    <3>2. \A i \in (n + 1)..Len(path) : path[i] # Slash
      <4> TAKE i \in (n + 1)..Len(path)
      <4>1. i - n \in 1..Len(rest) /\ path[i] = rest[i - n]
        BY <1>2, <1>3, <2>4
      <4> QED
        BY <4>1
    <3> QED
      BY <2>4, <3>1, <3>2, BaseNameIs
  <2>6. /\ name \in Seq(Byte)
        /\ \A i \in 1..Len(name) : name[i] = path[Len(path) - Len(name) + i]
    BY <2>4, BaseNameProperties
  <2> HIDE DEF name
  <2>7. name = rest
    <3>1. Len(name) = Len(rest) /\ Len(path) - Len(name) = n
      <4>1. Len(path) = n + Len(rest) /\ Len(name) = Len(path) - n
        BY <2>4, <2>5
      <4> QED
        BY <1>2, <1>3, <4>1
    <3>2. \A i \in 1..Len(name) : name[i] = rest[i]
      <4> TAKE i \in 1..Len(name)
      <4>1. i \in 1..Len(rest)
        BY <3>1
      <4>2. n + i \in 1..(n + Len(rest)) /\ ~(n + i <= n) /\ (n + i) - n = i
        BY <1>2, <1>3, <4>1
      <4>3. name[i] = path[n + i]
        BY <2>6, <3>1
      <4> QED
        BY <2>4, <4>2, <4>3
    <3> QED
      BY <2>6, <3>1, <3>2, SeqEqual
  <2>8. SubSeq(path, 1, n) = dest_dir
    <3>1. \A i \in 1..n : path[i] = dest_dir[i] /\ path[i] \in Byte
      BY <1>1, <1>2, <1>3, <2>4 DEF n
    <3>2. /\ SubSeq(path, 1, n) \in Seq(Byte) /\ Len(SubSeq(path, 1, n)) = n
          /\ \A i \in 1..n : SubSeq(path, 1, n)[i] = path[i]
      <4>1. /\ SubSeq(path, 1, n) \in Seq(Byte)
            /\ Len(SubSeq(path, 1, n)) = IF 1 <= n THEN n - 1 + 1 ELSE 0
            /\ \A i \in 1..(n - 1 + 1) : SubSeq(path, 1, n)[i] = path[1 + i - 1]
        BY <1>2, <3>1, SubSeqProperties
      <4> QED
        BY <1>2, <4>1
    <3>3. Len(dest_dir) = n
      BY DEF n
    <3> QED
      BY <1>1, <3>1, <3>2, <3>3, SeqEqual
  <2>9. Len(path) - Len(name) = n
    BY <1>2, <1>3, <2>4, <2>5
  <2> QED
    BY <1>4, <2>7, <2>8, <2>9 DEF path, name, n
<1>5. CASE dest_dir[n] # Slash
  <2> DEFINE f == SubSeq(dest_dir, 1, n - 1)
             g == f \o <<Slash, Nul>>
             h == g \o rest
  <2>1. NewAbsFilename = h
    BY <1>5 DEF NewAbsFilename
  <2> HIDE DEF n
  <2>2. /\ f \in Seq(Byte) /\ Len(f) = n - 1
        /\ \A i \in 1..(n - 1) : f[i] # Nul
    <3>1. \A i \in 1..(n - 1) : dest_dir[i] \in Byte /\ dest_dir[i] # Nul
      BY <1>1, <1>2 DEF n
    <3>2. /\ f \in Seq(Byte)
          /\ Len(f) = IF 1 <= n - 1 THEN (n - 1) - 1 + 1 ELSE 0
          /\ \A i \in 1..((n - 1) - 1 + 1) : f[i] = dest_dir[1 + i - 1]
      BY <1>2, <3>1, SubSeqProperties
    <3> HIDE DEF f
    <3>3. Len(f) = n - 1
      BY <1>2, <3>2
    <3>4. \A i \in 1..(n - 1) : f[i] = dest_dir[i]
      <4> TAKE i \in 1..(n - 1)
      <4>1. (n - 1) - 1 + 1 = n - 1 /\ 1 + i - 1 = i
        BY <1>2
      <4> QED
        BY <3>2, <4>1
    <3> QED
      BY <3>1, <3>2, <3>3, <3>4
  <2>3. /\ <<Slash, Nul>> \in Seq(Byte) /\ Len(<<Slash, Nul>>) = 2
        /\ <<Slash, Nul>>[1] = Slash /\ <<Slash, Nul>>[2] = Nul
    BY Bytes
  <2> HIDE DEF f
  <2>4. /\ g \in Seq(Byte) /\ Len(g) = n + 1
        /\ \A i \in 1..(n - 1) : g[i] # Nul
        /\ g[n] = Slash /\ g[n + 1] = Nul
    <3> HIDE DEF g
    <3>1. PartAfterPart(g, f, <<Slash, Nul>>, n - 1, 2)
      <4> DEFINE u == <<Slash, Nul>>
      <4>1. u \in Seq(Byte) /\ Len(u) = 2 /\ n - 1 \in Nat /\ 2 \in Nat
        BY <1>2, <2>3
      <4>2. g = f \o u
        BY DEF g
      <4> HIDE DEF u
      <4>3. PartAfterPart(f \o u, f, u, n - 1, 2)
        BY <2>2, <4>1, PartsConcatenated
      <4> QED
        BY <4>2, <4>3 DEF u
    <3>2. /\ g \in Seq(Byte) /\ Len(g) = (n - 1) + 2
          /\ \A i \in 1..(n - 1) : g[i] = f[i]
          /\ \A i \in 1..2 : g[(n - 1) + i] = <<Slash, Nul>>[i]
      BY <3>1 DEF PartAfterPart
    <3>3. g[(n - 1) + 1] = Slash /\ g[(n - 1) + 2] = Nul
      BY <2>3, <3>2
    <3>4. (n - 1) + 1 = n /\ (n - 1) + 2 = n + 1
      BY <1>2
    <3> QED
      BY <2>2, <3>2, <3>3, <3>4
  <2> HIDE DEF g
  <2>5. /\ h \in Seq(Byte) /\ Len(h) = n + 1 + Len(rest)
        /\ \A i \in 1..(n + 1) : h[i] = g[i]
    <3> HIDE DEF h
    <3>1. PartAfterPart(h, g, rest, n + 1, Len(rest))
      <4>1. n + 1 \in Nat
        BY <1>2
      <4>2. h = g \o rest
        BY DEF h
      <4> QED
        BY <1>3, <2>4, <4>1, <4>2, PartsConcatenated
    <3> QED
      BY <3>1 DEF PartAfterPart
  <2> HIDE DEF h
  <2>6. /\ n \in 0..Len(h) /\ h[n] = Slash /\ h[n + 1] = Nul
        /\ \A i \in 1..n : h[i] # Nul
    <3>1. Slash # Nul
      BY DEF Slash, Nul
    <3> QED
      BY <1>2, <1>3, <2>4, <2>5, <3>1
  <2>7. Len(path) = n /\ path \in Seq(Byte) /\ path[n] = Slash
    <3>1. Len(String(h)) = n
      BY <2>5, <2>6, StringIs
    <3>2. /\ String(h) \in Seq(Byte)
          /\ \A i \in 1..Len(String(h)) : String(h)[i] = h[i]
      BY <2>5, StringProperties
    <3> QED
      BY <1>2, <2>1, <2>6, <3>1, <3>2
  <2> HIDE DEF path
  <2>8. Len(name) = 0 /\ name \in Seq(Byte)
    <3>1. n \in 0..Len(path) /\ \A i \in (n + 1)..Len(path) : path[i] # Slash
      BY <1>2, <2>7
    <3>2. Len(name) = Len(path) - n
      BY <2>7, <3>1, BaseNameIs
    <3>3. name \in Seq(Byte)
      BY <2>7, BaseNameProperties
    <3> QED
      BY <1>2, <2>7, <3>2, <3>3
  <2>9. name = <<>>
    <3> HIDE DEF name
    <3> QED
      BY <2>8, EmptySeq
  <2> QED
    BY <2>9 DEF name, path
<1> QED
  BY <1>4, <1>5

-----------------------------------------------------------------------------
(* The inductive invariant.  Each part of it stays as it is when nothing of *)
(* what it speaks about changes.                                           *)

LEMMA ChosenStays ==
    ASSUME Chosen, pc # "check_dir", watched' = watched
    PROVE  Chosen'
  BY DEF Chosen

LEMMA MeasuredStays ==
    ASSUME Measured, file' = file, seen' = seen, pc' \notin {"open", "read"}
    PROVE  Measured'
  BY DEF Measured

LEMMA InputReadStays ==
    ASSUME InputRead, old_test_input' = old_test_input, buff_size' = buff_size, seen' = seen
    PROVE  InputRead'
  BY DEF InputRead

LEMMA PrependedStays ==
    ASSUME Prepended, program' = program, watched' = watched,
           old_test_input' = old_test_input, test_filename' = test_filename,
           total_size' = total_size, base' = base
    PROVE  Prepended'
  BY DEF Prepended, base

LEMMA ToldStays ==
    ASSUME message' = message
    PROVE  Told' = Told
  BY DEF Told

LEMMA CreatedStays ==
    ASSUME Created, test_filename' = test_filename, entry' = entry, pc' # "tell"
    PROVE  Created'
  BY DEF Created

LEMMA InformedStays ==
    ASSUME Informed, program' = program, test_filename' = test_filename, entry' = entry,
           message' = message, pc' \in {"stamp", "move"} => message # <<>>
    PROVE  Informed'
  BY DEF Informed

LEMMA StampedStays ==
    ASSUME Stamped, stamping' = stamping, earlier' = earlier,
           message' = message, entry' = entry, pc' # "move"
    PROVE  Stamped'
  BY ToldStays DEF Stamped, stamping

LEMMA LoggedStays ==
    ASSUME Logged, logs' = logs
    PROVE  Logged'
  BY DEF Logged, logs

LEMMA InitNames ==
    ASSUME Init
    PROVE  NamesInv
<1>1. PICK content \in Content \cup {NULL} : Fresh(content)
  BY DEF Init
<1>2. content = NULL \/ content \in Seq(Byte)
  BY ContentAssumption
<1>3. TypeOK /\ seen \subseteq Seq(Byte) \cup {NULL}
  BY <1>1, <1>2, Bytes DEF Init, Fresh, TypeOK
<1>4. Chosen /\ Measured /\ InputRead /\ Prepended /\ Created /\ Informed /\ Logged /\ InOrder
  BY <1>1 DEF Fresh, Chosen, Measured, InputRead, Prepended, Created, Informed, Logged, InOrder
<1>5. Stamped
  BY <1>1 DEF Init, Fresh, Stamped
<1> QED
  BY <1>3, <1>4, <1>5 DEF NamesInv

LEMMA WriteTestInputNames ==
    ASSUME NamesInv, WriteTestInput
    PROVE  NamesInv'
<1> USE DEF NamesInv
<1>1. /\ pc \in {"size", "open", "read"} /\ pc' = pc
      /\ \/ file' \in Rewritten
         \/ pc # "read" /\ file' = NULL
      /\ seen' = seen \cup {file'}
      /\ UNCHANGED <<program, watched, file_size, old_test_input, buff_size,
                     base_filename, base_filename_len, test_filename, total_size,
                     options, asan_log, entry, message, dest_dir, now,
                     datetime_stamp, new_abs_filename, moved, earlier>>
  BY DEF WriteTestInput, input, base, logs, stamping
<1>2. file' = NULL \/ (file' \in Seq(Byte) /\ file' # NULL)
  BY <1>1, ContentAssumption
<1>3. TypeOK' /\ (seen \subseteq Seq(Byte) \cup {NULL})'
  BY <1>1, <1>2 DEF TypeOK
<1>4. /\ old_test_input = NULL /\ test_filename = NULL /\ entry = NULL
      /\ message = <<>> /\ moved = NULL
  BY <1>1 DEF InOrder
<1>5. Chosen'
  BY <1>1, ChosenStays
<1>6. Measured'
  BY <1>1, <1>2, ContentAssumption DEF Measured
<1>7. InputRead' /\ Prepended' /\ Created' /\ Informed' /\ InOrder'
  BY <1>1, <1>4 DEF InputRead, Prepended, Created, Informed, InOrder
<1>8. Stamped' /\ Logged'
  BY <1>1, <1>4, StampedStays, LoggedStays DEF stamping, logs
<1> QED
  BY <1>3, <1>5, <1>6, <1>7, <1>8

LEMMA CheckDirNames ==
    ASSUME NamesInv, CheckDir
    PROVE  NamesInv'
<1> USE DEF NamesInv
<1>1. /\ pc = "check_dir" /\ pc' = "size"
      /\ UNCHANGED <<program, file, seen, file_size, old_test_input, buff_size,
                     base_filename, base_filename_len, test_filename, total_size,
                     options, asan_log, entry, message, dest_dir, now,
                     datetime_stamp, new_abs_filename, moved, earlier>>
  BY DEF CheckDir, Goto, input, base, logs, stamping
<1>2. IsDirectory(watched')
  <2>1. PICK found \in {f \in SUBSET DOMAIN Directory : Len(Directory) \in f} :
           watched' = Directory[Min(found)]
                      \o (IF program = "source08" THEN Watch ELSE <<>>)
    BY DEF CheckDir
  <2>2. Directory \in Seq(Seq(Byte)) /\ found \in SUBSET (1..Len(Directory)) /\ found # {}
    BY <2>1, DirectoryAssumption
  <2>3. Min(found) \in found
    <3> DEFINE n == Len(Directory)
    <3>1. n \in Nat /\ found \in SUBSET (1..n)
      BY <2>2
    <3> HIDE DEF n
    <3> QED
      BY <2>2, <3>1, FirstPosition
  <2>4. IsDirectory(Directory[Min(found)])
    BY <2>2, <2>3, DirectoryAssumption
  <2>5. CASE program = "source08"
    BY <2>1, <2>4, <2>5, DirectoryInDirectory, DirectoryAssumption
  <2>6. CASE program # "source08"
    <3>1. Directory[Min(found)] \in Seq(Byte)
      BY <2>4, DirectoryProperties
    <3>2. watched' = Directory[Min(found)] \o <<>>
      BY <2>1, <2>6
    <3>3. watched' = Directory[Min(found)]
      BY <3>1, <3>2, ConcatEmptySeq
    <3> QED
      BY <2>4, <3>3
  <2> QED
    BY <2>5, <2>6
<1>3. watched' \in Seq(Byte)
  BY <1>2 DEF IsDirectory, IsPath
<1>4. TypeOK' /\ (seen \subseteq Seq(Byte) \cup {NULL})'
  BY <1>1, <1>3 DEF TypeOK
<1>5. /\ old_test_input = NULL /\ test_filename = NULL /\ entry = NULL
      /\ message = <<>> /\ moved = NULL
  BY <1>1 DEF InOrder
<1>6. Chosen'
  BY <1>2 DEF Chosen
<1>7. Measured' /\ Logged'
  BY <1>1, MeasuredStays, LoggedStays DEF logs
<1>8. InputRead' /\ Prepended' /\ Created' /\ Informed' /\ InOrder'
  BY <1>1, <1>5 DEF InputRead, Prepended, Created, Informed, InOrder
<1>9. Stamped'
  BY <1>1, <1>5 DEF Stamped
<1> QED
  BY <1>4, <1>6, <1>7, <1>8, <1>9

LEMMA SizeTestFileNames ==
    ASSUME NamesInv, SizeTestFile
    PROVE  NamesInv'
<1> USE DEF NamesInv
<1>1. /\ pc = "size" /\ pc' \in {"prepend", "open"}
      /\ \/ pc' = "prepend" /\ file_size' = file_size
         \/ pc' = "open" /\ file # NULL /\ file_size' = Len(file)
      /\ UNCHANGED <<program, file, seen, watched, old_test_input, buff_size,
                     base_filename, base_filename_len, test_filename, total_size,
                     options, asan_log, entry, message, dest_dir, now,
                     datetime_stamp, new_abs_filename, moved, earlier>>
  BY DEF SizeTestFile, Goto, input, base, logs, stamping
<1>2. file_size' \in Nat
  BY <1>1 DEF TypeOK
<1>3. TypeOK' /\ (seen \subseteq Seq(Byte) \cup {NULL})'
  BY <1>1, <1>2 DEF TypeOK
<1>4. /\ old_test_input = NULL /\ test_filename = NULL /\ entry = NULL
      /\ message = <<>> /\ moved = NULL
  BY <1>1 DEF InOrder
<1>5. Measured'
  BY <1>1 DEF Measured
<1>6. Chosen' /\ Stamped' /\ Logged'
  BY <1>1, ChosenStays, StampedStays, LoggedStays DEF stamping, logs
<1>7. InputRead' /\ Prepended' /\ Created' /\ Informed' /\ InOrder'
  BY <1>1, <1>4 DEF InputRead, Prepended, Created, Informed, InOrder
<1> QED
  BY <1>3, <1>5, <1>6, <1>7

LEMMA OpenTestFileNames ==
    ASSUME NamesInv, OpenTestFile
    PROVE  NamesInv'
<1> USE DEF NamesInv
<1>1. /\ pc = "open" /\ pc' \in {"prepend", "read"}
      /\ \/ file = NULL /\ pc' = "prepend" /\ old_test_input' = Zeros(file_size)
         \/ file # NULL /\ pc' = "read" /\ old_test_input' = old_test_input
      /\ UNCHANGED <<program, file, seen, watched, file_size, buff_size,
                     base_filename, base_filename_len, test_filename, total_size,
                     options, asan_log, entry, message, dest_dir, now,
                     datetime_stamp, new_abs_filename, moved, earlier>>
  BY DEF OpenTestFile, base, logs, stamping
<1>2. PICK c \in seen \ {NULL} : file_size = Len(c)
  BY <1>1 DEF Measured
<1>3. c \in Seq(Byte) /\ Len(c) \in Nat /\ file_size \in Nat
  BY <1>2
<1>4. Zeros(file_size) \in Seq(Byte) /\ String(Zeros(file_size)) = <<>>
  BY <1>3, ZerosProperties
<1>5. old_test_input' = NULL \/ old_test_input' \in Seq(Byte)
  BY <1>1, <1>4 DEF TypeOK
<1>6. TypeOK' /\ (seen \subseteq Seq(Byte) \cup {NULL})'
  BY <1>1, <1>5 DEF TypeOK
<1>7. /\ old_test_input = NULL /\ test_filename = NULL /\ entry = NULL
      /\ message = <<>> /\ moved = NULL
  BY <1>1 DEF InOrder
<1>8. Measured'
  BY <1>1 DEF Measured
<1>9. Chosen' /\ Stamped' /\ Logged'
  BY <1>1, ChosenStays, StampedStays, LoggedStays DEF stamping, logs
<1>10. InputRead'
  <2>1. CASE old_test_input' = NULL
    BY <2>1 DEF InputRead
  <2>2. CASE old_test_input' # NULL
    <3>1. file = NULL /\ old_test_input' = Zeros(file_size)
      BY <1>1, <1>7, <2>2
    <3>2. String(Cut(c, 0)) = <<>>
      <4>1. Cut(c, 0) \in Seq(Byte) /\ Len(Cut(c, 0)) = 0
        BY <1>3, CutProperties
      <4>2. String(Cut(c, 0)) \in Seq(Byte) /\ Len(String(Cut(c, 0))) = 0
        BY <4>1, StringProperties
      <4> QED
        BY <4>2, EmptySeq
    <3>3. String(old_test_input)' = String(Cut(c, 0)) /\ String(old_test_input)' = <<>>
      BY <1>4, <3>1, <3>2
    <3>4. c \in seen' \ {NULL} /\ seen' # {c} /\ 0 \in 0..Len(c)
      BY <1>1, <1>2, <1>3, <3>1 DEF Measured
    <3> QED
      BY <3>3, <3>4 DEF InputRead
  <2> QED
    BY <2>1, <2>2
<1>11. Prepended' /\ Created' /\ Informed' /\ InOrder'
  BY <1>1, <1>7 DEF Prepended, Created, Informed, InOrder
<1> QED
  BY <1>6, <1>8, <1>9, <1>10, <1>11

LEMMA ReadTestFileNames ==
    ASSUME NamesInv, ReadTestFile
    PROVE  NamesInv'
<1> USE DEF NamesInv
<1>1. /\ pc = "read" /\ pc' = "prepend"
      /\ \/ old_test_input' = NULL /\ buff_size' = buff_size
         \/ old_test_input' = Block(file) /\ buff_size' = file_size
      /\ UNCHANGED <<program, file, seen, watched, file_size,
                     base_filename, base_filename_len, test_filename, total_size,
                     options, asan_log, entry, message, dest_dir, now,
                     datetime_stamp, new_abs_filename, moved, earlier>>
  BY DEF ReadTestFile, Goto, base, logs, stamping
<1>2. PICK c \in seen \ {NULL} : file_size = Len(c)
  BY <1>1 DEF Measured
<1>3. file \in seen \ {NULL} /\ file \in Seq(Byte) /\ Len(file) \in Nat /\ file_size \in Nat
  BY <1>1, <1>2 DEF Measured
<1>4. /\ Block(file) \in Seq(Byte) /\ Len(Block(file)) = file_size
      /\ String(Block(file)) = String(Cut(file, file_size))
  BY <1>3, BlockProperties
<1>5. TypeOK' /\ (seen \subseteq Seq(Byte) \cup {NULL})'
  <2>1. old_test_input' = NULL \/ old_test_input' \in Seq(Byte)
    BY <1>1, <1>4
  <2>2. buff_size' \in Nat
    BY <1>1, <1>3 DEF TypeOK
  <2> QED
    BY <1>1, <2>1, <2>2 DEF TypeOK
<1>6. test_filename = NULL /\ entry = NULL /\ message = <<>> /\ moved = NULL
  BY <1>1 DEF InOrder
<1>7. Chosen' /\ Measured' /\ Stamped' /\ Logged'
  BY <1>1, ChosenStays, MeasuredStays, StampedStays, LoggedStays DEF stamping, logs
<1>8. InputRead'
  <2>1. CASE old_test_input' = NULL
    BY <2>1 DEF InputRead
  <2>2. CASE old_test_input' # NULL
    <3> DEFINE k == IF file_size < Len(file) THEN file_size ELSE Len(file)
    <3>1. old_test_input' = Block(file) /\ buff_size' = file_size
      BY <1>1, <2>2
    <3>2. Cut(file, k) = Cut(file, file_size)
      BY <1>3 DEF Cut
    <3>3. k \in 0..Len(file) /\ (seen = {file} => k = Len(file))
      BY <1>2, <1>3
    <3> HIDE DEF k
    <3>4. /\ String(old_test_input)' = String(Cut(file, k))
          /\ buff_size' = Len(old_test_input)'
      BY <1>4, <3>1, <3>2
    <3> QED
      BY <1>1, <1>3, <3>3, <3>4 DEF InputRead
  <2> QED
    BY <2>1, <2>2
<1>9. Prepended' /\ Created' /\ Informed' /\ InOrder'
  BY <1>1, <1>6 DEF Prepended, Created, Informed, InOrder
<1> QED
  BY <1>5, <1>7, <1>8, <1>9

LEMMA PrependTestInputNames ==
    ASSUME NamesInv, PrependTestInput
    PROVE  NamesInv'
<1> USE DEF NamesInv
<1>1. /\ pc = "prepend" /\ pc' \in {"logs", "over"}
      /\ \/ /\ old_test_input = NULL /\ pc' = "over"
            /\ UNCHANGED <<test_filename, total_size, base_filename, base_filename_len>>
         \/ /\ old_test_input # NULL /\ String(old_test_input) = <<>> /\ pc' = "logs"
            /\ test_filename' = old_test_input
            /\ UNCHANGED <<total_size, base_filename, base_filename_len>>
         \/ /\ old_test_input # NULL /\ String(old_test_input) # <<>> /\ pc' = "logs"
            /\ test_filename' = watched \o old_test_input
            /\ \/ program = "source07"
                  /\ UNCHANGED <<total_size, base_filename, base_filename_len>>
               \/ /\ program = "source08"
                  /\ total_size' = Len(watched) + buff_size
                  /\ base_filename' = old_test_input
                  /\ base_filename_len' = buff_size
      /\ UNCHANGED <<program, file, seen, watched, file_size, old_test_input, buff_size,
                     options, asan_log, entry, message, dest_dir, now,
                     datetime_stamp, new_abs_filename, moved, earlier>>
  BY DEF PrependTestInput, Goto, base, logs, stamping
<1>2. watched \in Seq(Byte) /\ Len(watched) \in Nat
  BY <1>1, DirectoryProperties DEF Chosen
<1>3. /\ old_test_input # NULL => old_test_input \in Seq(Byte)
      /\ old_test_input # NULL /\ String(old_test_input) # <<>> =>
             buff_size = Len(old_test_input)
  BY DEF TypeOK, InputRead
<1>4. old_test_input # NULL =>
         /\ watched \o old_test_input \in Seq(Byte)
         /\ Len(watched \o old_test_input) = Len(watched) + Len(old_test_input)
  BY <1>2, <1>3, ConcatProperties
<1>5. test_filename = NULL /\ entry = NULL /\ message = <<>> /\ moved = NULL
  BY <1>1 DEF InOrder
<1>6. TypeOK' /\ (seen \subseteq Seq(Byte) \cup {NULL})'
  <2>1. test_filename' = NULL \/ test_filename' \in Seq(Byte)
    BY <1>1, <1>3, <1>4, <1>5
  <2>2. base_filename' = NULL \/ base_filename' \in Seq(Byte)
    BY <1>1, <1>3 DEF TypeOK
  <2>3. total_size' \in Nat /\ base_filename_len' \in Nat
    BY <1>1, <1>2 DEF TypeOK
  <2> QED
    BY <1>1, <2>1, <2>2, <2>3 DEF TypeOK
<1>7. Chosen' /\ Measured' /\ InputRead' /\ Stamped' /\ Logged'
  BY <1>1, ChosenStays, MeasuredStays, InputReadStays, StampedStays, LoggedStays
  DEF stamping, logs
<1>8. Prepended'
  BY <1>1, <1>3, <1>4, <1>5 DEF Prepended
<1>9. Created' /\ Informed' /\ InOrder'
  <2>1. test_filename' # NULL => pc' = "logs"
    BY <1>1, <1>5
  <2>2. pc' = "logs" => test_filename' # NULL
    BY <1>1, <1>3, <1>4, ContentAssumption
  <2> QED
    BY <1>1, <1>5, <2>1, <2>2 DEF Created, Informed, InOrder
<1> QED
  BY <1>6, <1>7, <1>8, <1>9

LEMMA FillSanitizerLogsNames ==
    ASSUME NamesInv, FillSanitizerLogs
    PROVE  NamesInv'
<1> USE DEF NamesInv
<1>1. /\ pc = "logs" /\ pc' = "create"
      /\ \/ options' = NULL /\ asan_log' = NULL
         \/ options' \in Options /\ asan_log' = GetAsanLog(options')
      /\ UNCHANGED <<program, file, seen, watched, file_size, old_test_input, buff_size,
                     base_filename, base_filename_len, test_filename, total_size,
                     entry, message, dest_dir, now,
                     datetime_stamp, new_abs_filename, moved, earlier>>
  BY DEF FillSanitizerLogs, Goto, input, base, stamping
<1>2. options' = NULL \/ options' \in Seq(Byte)
  BY <1>1, ContentAssumption
<1>3. asan_log' = NULL \/ asan_log' \in Seq(Byte)
  <2>1. \A value \in Seq(Byte) : GetAsanLog(value) = NULL \/ GetAsanLog(value) \in Seq(Byte)
    BY AsanLogType
  <2>2. Options \subseteq Seq(Byte)
    BY ContentAssumption
  <2> QED
    BY <1>1, <2>1, <2>2
<1>4. TypeOK' /\ (seen \subseteq Seq(Byte) \cup {NULL})'
  BY <1>1, <1>2, <1>3 DEF TypeOK
<1>5. Chosen' /\ Measured' /\ InputRead' /\ Prepended' /\ Created' /\ Stamped'
  BY <1>1, ChosenStays, MeasuredStays, InputReadStays, PrependedStays, CreatedStays,
     StampedStays DEF stamping, base
<1>6. Informed'
  BY <1>1, InformedStays
<1>7. Logged'
  BY <1>1 DEF Logged
<1>8. InOrder'
  BY <1>1 DEF InOrder
<1> QED
  BY <1>4, <1>5, <1>6, <1>7, <1>8

LEMMA CreateTestFileNames ==
    ASSUME NamesInv, CreateTestFile
    PROVE  NamesInv'
<1> USE DEF NamesInv
<1>1. /\ pc = "create"
      /\ pc' = IF Leaf(Cwd, String(test_filename)) # NULL /\ program = "source08"
               THEN "tell" ELSE "over"
      /\ entry' = Leaf(Cwd, String(test_filename))
      /\ UNCHANGED <<program, file, seen, watched, file_size, old_test_input, buff_size,
                     base_filename, base_filename_len, test_filename, total_size,
                     options, asan_log, message, dest_dir, now,
                     datetime_stamp, new_abs_filename, moved, earlier>>
  BY DEF CreateTestFile, Goto, input, base, logs, stamping
<1>2. test_filename # NULL /\ test_filename \in Seq(Byte)
  BY <1>1 DEF InOrder, TypeOK
<1>3. String(test_filename) \in Seq(Byte)
  BY <1>2, StringProperties
<1>4. entry' = NULL \/ (entry'.dir \in Directories /\ entry'.name \in Seq(Byte))
  BY <1>1, <1>3, LeafType
<1>5. pc' \in {"tell", "over"} /\ (pc' = "tell" => entry' # NULL /\ program = "source08")
  BY <1>1
<1>6. TypeOK' /\ (seen \subseteq Seq(Byte) \cup {NULL})'
  BY <1>1, <1>4, <1>5 DEF TypeOK
<1>7. message = <<>> /\ moved = NULL
  BY <1>1 DEF InOrder
<1>8. Chosen' /\ Measured' /\ InputRead' /\ Prepended' /\ Logged'
  BY <1>1, <1>5, ChosenStays, MeasuredStays, InputReadStays, PrependedStays, LoggedStays
  DEF logs, base
<1>9. Created'
  BY <1>1, <1>2, <1>5 DEF Created
<1>10. Informed' /\ Stamped' /\ InOrder'
  BY <1>1, <1>5, <1>7 DEF Informed, Stamped, InOrder
<1> QED
  BY <1>6, <1>8, <1>9, <1>10

\* What is told: all of the name of the file, so far as the daemon reads it.
LEMMA WhatIsTold ==
    ASSUME NamesInv, entry # NULL
    PROVE  /\ test_filename \in Seq(Byte) /\ test_filename = watched \o old_test_input
           /\ old_test_input \in Seq(Byte)
           /\ program = "source08" => Sent = test_filename
           /\ String(test_filename) \in Seq(Byte) /\ IsDirectory(watched)
           /\ String(test_filename) = watched \o String(old_test_input)
<1> USE DEF NamesInv
<1>1. /\ test_filename # NULL /\ test_filename \in Seq(Byte)
      /\ old_test_input # NULL /\ old_test_input \in Seq(Byte)
      /\ entry = Leaf(Cwd, String(test_filename)) /\ IsDirectory(watched)
  BY DEF TypeOK, Created, Prepended, Chosen, InOrder
<1>2. String(test_filename) \in Seq(Byte)
  BY <1>1, StringProperties
<1>3. Len(String(test_filename)) > 0
  <2>1. Len(entry.name) \in 1..Len(String(test_filename))
    BY <1>1, <1>2, LeafProperties
  <2>2. Len(String(test_filename)) \in Nat
    BY <1>2
  <2> QED
    BY <2>1, <2>2
<1>4. String(old_test_input) # <<>>
  <2> SUFFICES ASSUME String(old_test_input) = <<>> PROVE FALSE
    OBVIOUS
  <2>1. String(test_filename) = <<>>
    BY <1>1 DEF Prepended
  <2> QED
    BY <1>3, <2>1
<1>5. test_filename = watched \o old_test_input
  BY <1>1, <1>4 DEF Prepended
<1>6. String(test_filename) = watched \o String(old_test_input)
  BY <1>1, <1>5, StringOfConcat, DirectoryProperties
<1>7. ASSUME program = "source08" PROVE Sent = test_filename
  <2>1. total_size = Len(test_filename)
    BY <1>1, <1>4, <1>7 DEF Prepended
  <2> QED
    BY <1>1, <2>1, CutAll DEF Sent
<1> QED
  BY <1>1, <1>2, <1>5, <1>6, <1>7

LEMMA TellDaemonNames ==
    ASSUME NamesInv, TellDaemon
    PROVE  NamesInv'
<1> USE DEF NamesInv
<1>1. /\ pc = "tell" /\ pc' = "stamp"
      /\ message' = String(Cut(Sent, PIPE_BUFF_SIZE))
      /\ UNCHANGED <<program, file, seen, watched, file_size, old_test_input, buff_size,
                     base_filename, base_filename_len, test_filename, total_size,
                     options, asan_log, entry, dest_dir, now,
                     datetime_stamp, new_abs_filename, moved, earlier>>
  BY DEF TellDaemon, Goto, input, base, logs, stamping
<1>2. entry # NULL /\ program = "source08"
  BY <1>1 DEF Created
<1>3. /\ test_filename \in Seq(Byte) /\ Sent = test_filename /\ IsDirectory(watched)
      /\ String(test_filename) = watched \o String(old_test_input)
      /\ old_test_input \in Seq(Byte)
  BY <1>2, WhatIsTold
<1>4. message' = String(Cut(test_filename, PIPE_BUFF_SIZE))
  BY <1>1, <1>3
<1>5. message' \in Seq(Byte) /\ message' # <<>>
  <2>1. PIPE_BUFF_SIZE \in Nat /\ PIPE_BUFF_SIZE > 0
    BY SizeAssumption
  <2>2. message' = Cut(String(test_filename), PIPE_BUFF_SIZE)
    BY <1>3, <1>4, <2>1, StringOfCut
  <2>3. String(test_filename) \in Seq(Byte) /\ Len(String(test_filename)) > 0
    <3>1. watched \in Seq(Byte) /\ Len(watched) \in Nat /\ Len(watched) > 0
      BY <1>3, DirectoryProperties
    <3>2. String(old_test_input) \in Seq(Byte) /\ Len(String(old_test_input)) \in Nat
      BY <1>3, StringProperties
    <3> QED
      BY <1>3, <3>1, <3>2, ConcatProperties
  <2>4. Len(message') > 0 /\ message' \in Seq(Byte)
    BY <2>1, <2>2, <2>3, CutProperties
  <2> QED
    BY <2>4
<1>6. TypeOK' /\ (seen \subseteq Seq(Byte) \cup {NULL})'
  BY <1>1, <1>5 DEF TypeOK
<1>7. moved = NULL
  BY <1>1 DEF InOrder
<1>8. Chosen' /\ Measured' /\ InputRead' /\ Prepended' /\ Created' /\ Logged'
  BY <1>1, ChosenStays, MeasuredStays, InputReadStays, PrependedStays, CreatedStays,
     LoggedStays DEF logs, base
<1>9. Informed'
  BY <1>1, <1>2, <1>4, <1>5 DEF Informed
<1>10. Stamped' /\ InOrder'
  BY <1>1, <1>7 DEF Stamped, InOrder
<1> QED
  BY <1>6, <1>8, <1>9, <1>10

LEMMA GetDatetimeStampNames ==
    ASSUME NamesInv, GetDatetimeStamp
    PROVE  NamesInv'
<1> USE DEF NamesInv
<1>1. /\ pc = "stamp" /\ pc' = IF Told = NULL \/ Told # entry THEN "over" ELSE "move"
      /\ now' \in Time /\ datetime_stamp' = Stamp(now') /\ dest_dir' \in Destination
      /\ UNCHANGED <<program, file, seen, watched, file_size, old_test_input, buff_size,
                     base_filename, base_filename_len, test_filename, total_size,
                     options, asan_log, entry, message, new_abs_filename, moved, earlier>>
  BY DEF GetDatetimeStamp, Goto, input, base, logs
<1>2. Len(datetime_stamp') = 16 /\ datetime_stamp' # <<>>
  BY <1>1, StampProperties
<1>3. dest_dir' \in Seq(Byte)
  BY <1>1, DirectoryAssumption DEF IsPath
<1>4. pc' \in {"over", "move"} /\ (pc' = "move" => Told = entry)
  BY <1>1
<1>5. TypeOK' /\ (seen \subseteq Seq(Byte) \cup {NULL})'
  BY <1>1, <1>2, <1>3, <1>4 DEF TypeOK
<1>6. moved = NULL /\ message # <<>>
  BY <1>1 DEF InOrder, Informed
<1>7. Chosen' /\ Measured' /\ InputRead' /\ Prepended' /\ Created' /\ Logged'
  BY <1>1, <1>4, ChosenStays, MeasuredStays, InputReadStays, PrependedStays, CreatedStays,
     LoggedStays DEF logs, base
<1>8. Informed'
  BY <1>1, <1>6, InformedStays
<1>9. Stamped'
  <2>1. Told' = Told
    BY <1>1, ToldStays
  <2>2. datetime_stamp' = Stamp(now)'
    BY <1>1
  <2> HIDE DEF NamesInv
  <2>3. /\ earlier.time \in Time
        /\ earlier.stamp # <<>> => earlier.stamp = Stamp(earlier.time)
    BY DEF NamesInv, Stamped
  <2>4. /\ earlier'.time \in Time
        /\ earlier'.stamp # <<>> => earlier'.stamp = Stamp(earlier.time)'
    BY <1>1, <2>3
  <2> QED
    BY <1>1, <1>2, <1>4, <1>6, <2>1, <2>2, <2>4 DEF Stamped
<1>10. InOrder'
  BY <1>1, <1>4, <1>6 DEF InOrder
<1> QED
  BY <1>5, <1>7, <1>8, <1>9, <1>10

\* When the daemon has found the file it was told of.
LEMMA WhatIsMoved ==
    ASSUME NamesInv, pc = "move" \/ moved # NULL
    PROVE  LET rest == datetime_stamp \o entry.name IN
           /\ entry # NULL /\ program = "source08" /\ Told = entry
           /\ entry.name = BaseName(message, Slash) /\ entry.name \in Seq(Byte)
           /\ IsPath(dest_dir) /\ rest \in Seq(Byte) /\ Len(rest) \in Nat
           /\ \A i \in 1..Len(rest) : rest[i] # Slash /\ rest[i] # Nul
<1>1. /\ datetime_stamp = Stamp(now) /\ dest_dir \in Destination /\ message # <<>>
      /\ Told = entry /\ now \in Time /\ message \in Seq(Byte)
  BY DEF NamesInv, Stamped, TypeOK
<1>2. /\ entry # NULL /\ program = "source08"
      /\ message = String(Cut(test_filename, PIPE_BUFF_SIZE))
  BY <1>1 DEF NamesInv, Informed
<1>3. test_filename \in Seq(Byte) /\ IsDirectory(watched)
  BY <1>2, WhatIsTold
<1>4. Told.name = BaseName(message, Slash) /\ Told.name \in Seq(Byte)
  BY <1>1, <1>2, ToldLeaf
<1>5. PICK b \in Seq(Byte) : message = String(b)
  <2>1. PIPE_BUFF_SIZE \in Int
    BY SizeAssumption
  <2>2. Cut(test_filename, PIPE_BUFF_SIZE) \in Seq(Byte)
    BY <1>3, <2>1, CutProperties
  <2> QED
    BY <1>2, <2>2
<1> DEFINE made == Stamp(now) \o BaseName(message, Slash)
<1>6. /\ made \in Seq(Byte) /\ Len(made) \in Nat
      /\ \A i \in 1..Len(made) : made[i] # Slash /\ made[i] # Nul
  BY <1>1, <1>5, StampedName
<1> HIDE DEF made
<1>7. made = datetime_stamp \o entry.name
  BY <1>1, <1>4 DEF made
<1>8. IsPath(dest_dir)
  BY <1>1, DirectoryAssumption
<1> QED
  BY <1>1, <1>2, <1>4, <1>6, <1>7, <1>8

LEMMA MoveFileNames ==
    ASSUME NamesInv, MoveFile
    PROVE  NamesInv'
<1> USE DEF NamesInv
<1> DEFINE path == String(NewAbsFilename)
           name == BaseName(path, Slash)
           dir == SubSeq(path, 1, Len(path) - Len(name))
           rest == datetime_stamp \o entry.name
<1>1. /\ pc = "move" /\ pc' = "over"
      /\ new_abs_filename' = NewAbsFilename
      /\ moved' # NULL => name # <<>> /\ moved' = [dir |-> dir, name |-> name]
      /\ UNCHANGED <<program, file, seen, watched, file_size, old_test_input, buff_size,
                     base_filename, base_filename_len, test_filename, total_size,
                     options, asan_log, entry, message, dest_dir, now, datetime_stamp, earlier>>
  BY DEF MoveFile, Goto, input, base, logs
<1>2. /\ Told = entry /\ entry.name = BaseName(message, Slash) /\ IsPath(dest_dir)
      /\ rest \in Seq(Byte) /\ Len(rest) \in Nat
      /\ \A i \in 1..Len(rest) : rest[i] # Slash /\ rest[i] # Nul
  BY <1>1, WhatIsMoved
<1>3. rest = datetime_stamp \o BaseName(message, Slash)
  BY <1>2
<1>4. NewAbsFilename \in Seq(Byte)
  <2> DEFINE n == Len(dest_dir)
             f == SubSeq(dest_dir, 1, n - 1)
  <2>1. dest_dir \in Seq(Byte) /\ n \in Nat
    BY <1>2 DEF IsPath
  <2>2. f \in Seq(Byte)
    <3>1. \A i \in 1..(n - 1) : dest_dir[i] \in Byte
      BY <2>1
    <3> HIDE DEF n
    <3> QED
      BY <2>1, <3>1, SubSeqProperties
  <2>3. <<Slash, Nul>> \in Seq(Byte)
    BY Bytes
  <2>4. NewAbsFilename = dest_dir \o rest \/ NewAbsFilename = f \o <<Slash, Nul>> \o rest
    BY <1>3 DEF NewAbsFilename
  <2> HIDE DEF f, rest
  <2>5. dest_dir \o rest \in Seq(Byte) /\ f \o <<Slash, Nul>> \o rest \in Seq(Byte)
    BY <1>2, <2>1, <2>2, <2>3, ConcatProperties
  <2> QED
    BY <2>4, <2>5
<1>5. TypeOK' /\ (seen \subseteq Seq(Byte) \cup {NULL})'
  BY <1>1, <1>4 DEF TypeOK
<1>6. Chosen' /\ Measured' /\ InputRead' /\ Prepended' /\ Created' /\ Logged'
  BY <1>1, ChosenStays, MeasuredStays, InputReadStays, PrependedStays, CreatedStays,
     LoggedStays DEF logs, base
<1>7. Informed'
  BY <1>1, InformedStays
<1>8. Stamped'
  <2>1. /\ datetime_stamp # <<>> /\ dest_dir \in Destination /\ message # <<>>
        /\ datetime_stamp = Stamp(now) /\ earlier.time \in Time
        /\ earlier.stamp # <<>> => earlier.stamp = Stamp(earlier.time)
    BY <1>1 DEF Stamped
  <2>2. ASSUME moved' # NULL
        PROVE  Last(dest_dir) = Slash /\ moved'.dir = dest_dir /\ moved'.name = rest
    <3>1. name # <<>> /\ moved' = [dir |-> dir, name |-> name]
      BY <1>1, <2>2
    <3>2. name = rest /\ dir = dest_dir /\ dest_dir[Len(dest_dir)] = Slash
      <4> HIDE DEF rest
      <4> QED
        BY <1>2, <1>3, <3>1, NewNameProperties
    <3> HIDE DEF name, dir
    <3> QED
      BY <3>1, <3>2 DEF Last
  <2>3. Told' = Told
    BY <1>1, ToldStays
  <2>4. earlier' = earlier /\ Stamp(now)' = Stamp(now)
        /\ Stamp(earlier.time)' = Stamp(earlier.time)
    BY <1>1
  <2> HIDE DEF NamesInv, path, name, dir
  <2> QED
    BY <1>1, <1>2, <2>1, <2>2, <2>3, <2>4 DEF Stamped
<1>9. InOrder'
  BY <1>1 DEF InOrder
<1> QED
  BY <1>5, <1>6, <1>7, <1>8, <1>9

LEMMA AgainNames ==
    ASSUME NamesInv, Again
    PROVE  NamesInv'
<1> USE DEF NamesInv
<1>1. PICK content \in Rewritten \cup {NULL} :
         pc' = "check_dir" /\ file' = content /\ seen' = {content}
  BY DEF Again
<1>2. content = NULL \/ content \in Seq(Byte)
  BY ContentAssumption
<1>3. /\ watched' = <<>> /\ file_size' = 0
      /\ old_test_input' = NULL /\ buff_size' = 0
      /\ base_filename' = NULL /\ base_filename_len' = 0
      /\ test_filename' = NULL /\ total_size' = 0
      /\ options' = NULL /\ asan_log' = NULL
      /\ entry' = NULL /\ message' = <<>>
      /\ dest_dir' = <<>> /\ datetime_stamp' = <<>>
      /\ new_abs_filename' = <<>> /\ moved' = NULL
      /\ earlier' = [time |-> now, stamp |-> datetime_stamp]
      /\ program' = program /\ now' = now
  BY DEF Again
<1>4. TypeOK' /\ (seen \subseteq Seq(Byte) \cup {NULL})'
  BY <1>1, <1>2, <1>3, Bytes DEF TypeOK
<1>5. /\ Chosen' /\ Measured' /\ InputRead' /\ Prepended' /\ Created' /\ Informed'
      /\ Logged' /\ InOrder'
  BY <1>1, <1>3 DEF Chosen, Measured, InputRead, Prepended, Created, Informed, Logged, InOrder
<1>6. Stamped'
  <2>1. now \in Time /\ (datetime_stamp # <<>> => datetime_stamp = Stamp(now))
    BY DEF TypeOK, Stamped
  <2>2. earlier'.time = now /\ earlier'.stamp = datetime_stamp
    BY <1>3
  <2>3. earlier'.stamp # <<>> => earlier'.stamp = Stamp(earlier.time)'
    BY <2>1, <2>2
  <2> QED
    BY <1>1, <1>3, <2>1, <2>2, <2>3 DEF Stamped
<1> QED
  BY <1>4, <1>5, <1>6

LEMMA StutterNames ==
    ASSUME NamesInv, UNCHANGED vars
    PROVE  NamesInv'
<1> USE DEF NamesInv, vars, input, base, logs, stamping
<1>1. TypeOK' /\ (seen \subseteq Seq(Byte) \cup {NULL})' /\ InOrder'
  BY DEF TypeOK, InOrder
<1>2. Chosen' /\ Measured' /\ InputRead' /\ Prepended' /\ Informed' /\ Logged'
  BY DEF Chosen, Measured, InputRead, Prepended, Informed, Logged
<1>3. Created'
  BY DEF Created
<1>4. Stamped'
  BY ToldStays DEF Stamped
<1> QED
  BY <1>1, <1>2, <1>3, <1>4

\* In every execution of the harnesses, for every content of the test input and every
\* change of it: what each variable is made of, and at which step it is there.
THEOREM NamesInvariant == Spec => []NamesInv
<1>1. Init => NamesInv
  BY InitNames
<1>2. NamesInv /\ [Next]_vars => NamesInv'
  BY WriteTestInputNames, CheckDirNames, SizeTestFileNames, OpenTestFileNames,
     ReadTestFileNames, PrependTestInputNames, FillSanitizerLogsNames,
     CreateTestFileNames, TellDaemonNames, GetDatetimeStampNames, MoveFileNames,
     AgainNames, StutterNames DEF Next
<1> QED
  BY <1>1, <1>2, PTL DEF Spec

\* Each variable holds what its type allows.
THEOREM NamesTypeCorrect == Spec => []TypeOK
<1>1. NamesInv => TypeOK
  BY DEF NamesInv
<1> QED
  BY <1>1, NamesInvariant, PTL

-----------------------------------------------------------------------------
(* The file and its name.                                                  *)

\* The file that open() creates is the one that a content of the test input, or the
\* measured beginning of one, leads to.
THEOREM InputIsNamed == Spec => []NamesInput
<1>1. ASSUME NamesInv, entry # NULL
      PROVE  \E c \in seen \ {NULL} : \E k \in 0..Len(c) :
                /\ entry = Leaf(Cwd, watched \o String(Cut(c, k)))
                /\ seen = {c} => k = Len(c)
  <2>1. String(test_filename) = watched \o String(old_test_input) /\ old_test_input \in Seq(Byte)
    BY <1>1, WhatIsTold
  <2>2. old_test_input # NULL
    BY <2>1, ContentAssumption
  <2>3. PICK c \in seen \ {NULL} : \E k \in 0..Len(c) :
           String(old_test_input) = String(Cut(c, k)) /\ (seen = {c} => k = Len(c))
    BY <1>1, <2>2 DEF NamesInv, InputRead
  <2>4. entry = Leaf(Cwd, watched \o String(old_test_input))
    BY <1>1, <2>1 DEF NamesInv, Created
  <2> QED
    BY <2>3, <2>4
<1>2. NamesInv => NamesInput
  BY <1>1 DEF NamesInput
<1> QED
  BY <1>2, NamesInvariant, PTL

\* The processed file is where it was meant to be, and is named for the test case; a
\* directory given without its slash receives none, for the last character of it is
\* overwritten and rename() finds no name to give.
THEOREM FileStaysInPlace == Spec => []StaysInPlace
<1>1. NamesInv => StaysInPlace
  BY DEF NamesInv, Stamped, StaysInPlace
<1> QED
  BY <1>1, NamesInvariant, PTL

\* A path that is cut within its last part leads to a file of another name.
LEMMA CutLeadsElsewhere ==
    ASSUME NEW from, NEW to, NEW s \in Seq(Byte), NEW n \in Nat, n < Len(s),
           Leaf(from, s) # NULL, Leaf(to, Cut(s, n)) # NULL,
           \A i \in (n + 1)..Len(s) : s[i] # Slash
    PROVE  Leaf(to, Cut(s, n)).name # Leaf(from, s).name
<1> DEFINE told == Cut(s, n)
           l == Len(BaseName(s, Slash))
           k == Len(BaseName(told, Slash))
<1>1. told \in Seq(Byte) /\ Len(told) = n /\ \A i \in 1..n : told[i] = s[i]
  BY CutProperties
<1>2. /\ l \in Nat /\ l <= Len(s) /\ Len(s) \in Nat
      /\ l < Len(s) => s[Len(s) - l] = Slash
  BY BaseNameProperties
<1>3. /\ k \in Nat /\ k <= n
      /\ \A i \in 1..k : told[n - k + i] # Slash
  <2> DEFINE b == BaseName(told, Slash)
  <2>1. /\ Len(b) \in Nat /\ Len(b) <= Len(told)
        /\ \A i \in 1..Len(b) : b[i] = told[Len(told) - Len(b) + i] /\ b[i] # Slash
    <3> HIDE DEF told
    <3> QED
      BY <1>1, BaseNameProperties
  <2> QED
    BY <1>1, <2>1
<1>4. /\ Leaf(from, s).name = BaseName(s, Slash)
      /\ Leaf(to, told).name = BaseName(told, Slash)
  BY <1>1, LeafProperties
<1> SUFFICES ASSUME k = l PROVE FALSE
  BY <1>4
<1> HIDE DEF told, l, k
<1>5. l < Len(s) /\ s[Len(s) - l] = Slash /\ Len(s) - l \in 1..Len(s)
  BY <1>2, <1>3
<1>6. CASE Len(s) - l > n
  BY <1>2, <1>5, <1>6
<1>7. CASE Len(s) - l <= n
  <2> DEFINE i == (Len(s) - l) - (n - k)
  <2>1. i \in 1..k /\ n - k + i = Len(s) - l
    BY <1>2, <1>3, <1>5, <1>7
  <2>2. told[Len(s) - l] = s[Len(s) - l]
    BY <1>1, <1>5, <1>7
  <2> HIDE DEF i
  <2> QED
    BY <1>3, <1>5, <2>1, <2>2
<1> QED
  BY <1>2, <1>6, <1>7

\* What the daemon reads, and what of it is its own to find.
LEMMA WhatIsRead ==
    ASSUME NamesInv, message # <<>>
    PROVE  LET s == String(test_filename) IN
           /\ s \in Seq(Byte) /\ s = watched \o String(old_test_input)
           /\ IsDirectory(watched) /\ old_test_input \in Seq(Byte)
           /\ entry # NULL /\ entry = Leaf(Cwd, s) /\ program = "source08"
           /\ message = Cut(s, PIPE_BUFF_SIZE)
           /\ Head(message) = Head(watched)
<1> DEFINE s == String(test_filename)
<1>1. /\ entry # NULL /\ program = "source08" /\ entry = Leaf(Cwd, s)
      /\ message = String(Cut(test_filename, PIPE_BUFF_SIZE)) /\ message \in Seq(Byte)
  BY DEF NamesInv, Informed, Created, TypeOK
<1>2. /\ test_filename \in Seq(Byte) /\ s \in Seq(Byte) /\ IsDirectory(watched)
      /\ s = watched \o String(old_test_input) /\ old_test_input \in Seq(Byte)
  BY <1>1, WhatIsTold
<1>3. PIPE_BUFF_SIZE \in Nat /\ PIPE_BUFF_SIZE > 0
  BY SizeAssumption
<1>4. message = Cut(s, PIPE_BUFF_SIZE)
  BY <1>1, <1>2, <1>3, StringOfCut
<1>5. message[1] = watched[1]
  <2>1. watched \in Seq(Byte) /\ Len(watched) \in Nat /\ Len(watched) > 0
    BY <1>2, DirectoryProperties
  <2>2. String(old_test_input) \in Seq(Byte) /\ Len(String(old_test_input)) \in Nat
    BY <1>2, StringProperties
  <2>3. Len(s) > 0 /\ Len(s) \in Nat /\ s[1] = watched[1]
    <3> HIDE DEF s
    <3> QED
      BY <1>2, <2>1, <2>2, ConcatProperties
  <2> HIDE DEF s
  <2>4. 1 \in 1..Len(message) /\ \A i \in 1..Len(message) : message[i] = s[i]
    <3> DEFINE n == PIPE_BUFF_SIZE
               c == Cut(s, n)
    <3>1. n \in Int /\ n > 0
      BY <1>3
    <3> HIDE DEF n
    <3>2. s \in Seq(Byte)
      BY <1>2 DEF s
    <3>3. /\ Len(c) = IF n < 0 THEN 0 ELSE IF n < Len(s) THEN n ELSE Len(s)
          /\ \A i \in 1..Len(c) : c[i] = s[i]
      BY <3>1, <3>2, CutProperties
    <3> HIDE DEF c
    <3>4. message = c
      BY <1>4 DEF c, n, s
    <3> QED
      BY <2>3, <3>1, <3>3, <3>4
  <2> QED
    BY <2>3, <2>4
<1> HIDE DEF s
<1>6. Head(message) = message[1] /\ Head(watched) = watched[1]
  <2>1. watched \in Seq(Byte) /\ watched # <<>>
    BY <1>2, DirectoryProperties
  <2> QED
    BY <1>1, <2>1
<1> QED
  BY <1>1, <1>2, <1>4, <1>5, <1>6 DEF s

\* An absolute path leads to the same file from everywhere.
LEMMA AbsoluteLeaf ==
    ASSUME NEW from, NEW to, NEW path, Head(path) = Slash
    PROVE  Leaf(from, path) = Leaf(to, path)
  BY DEF Leaf, DirOf

\* The daemon finds the test case under the name it reads from the pipe if the name is
\* absolute and fits into the buffer, and not if only a beginning of its last part does.
LEMMA WhoFinds ==
    ASSUME NamesInv, message # <<>>
    PROVE  LET path == String(test_filename) IN
           /\ Head(watched) = Slash /\ Len(path) <= PIPE_BUFF_SIZE => Told = entry
           /\ Len(path) > PIPE_BUFF_SIZE /\ Told = entry =>
                  \E i \in (PIPE_BUFF_SIZE + 1)..Len(path) : path[i] = Slash
<1> DEFINE s == String(test_filename)
<1>1. /\ s \in Seq(Byte) /\ entry # NULL /\ entry = Leaf(Cwd, s)
      /\ message = Cut(s, PIPE_BUFF_SIZE) /\ Head(message) = Head(watched)
  BY WhatIsRead
<1> HIDE DEF s
<1>2. PIPE_BUFF_SIZE \in Nat /\ Len(s) \in Nat
  BY <1>1, SizeAssumption
<1>3. ASSUME Head(watched) = Slash, Len(s) <= PIPE_BUFF_SIZE
      PROVE  Told = entry
  <2>1. Cut(s, PIPE_BUFF_SIZE) = Cut(s, Len(s))
    BY <1>2, <1>3 DEF Cut
  <2>2. message = s
    BY <1>1, <2>1, CutAll
  <2>3. Leaf(<<>>, s) = Leaf(Cwd, s)
    BY <1>1, <1>3, <2>2, AbsoluteLeaf
  <2> QED
    BY <1>1, <2>2, <2>3 DEF Told
<1>4. ASSUME Len(s) > PIPE_BUFF_SIZE, Told = entry
      PROVE  \E i \in (PIPE_BUFF_SIZE + 1)..Len(s) : s[i] = Slash
  <2> SUFFICES ASSUME \A i \in (PIPE_BUFF_SIZE + 1)..Len(s) : s[i] # Slash
               PROVE  FALSE
    OBVIOUS
  <2>1. PIPE_BUFF_SIZE < Len(s) /\ Told = Leaf(<<>>, Cut(s, PIPE_BUFF_SIZE))
    BY <1>1, <1>2, <1>4 DEF Told
  <2> QED
    BY <1>1, <1>2, <1>4, <2>1, CutLeadsElsewhere
<1> QED
  BY <1>3, <1>4 DEF s

\* The daemon finds what it was told of if the name is absolute and fits into the buffer
\* of the pipe, and never if it is cut within its last part.
THEOREM ToldIsFound == Spec => []ToldIsOpened
<1>1. NamesInv => ToldIsOpened
  BY WhoFinds DEF ToldIsOpened
<1> QED
  BY <1>1, NamesInvariant, PTL

-----------------------------------------------------------------------------
(* The matching of processed files.                                        *)

\* A string without its leading slashes.
LEMMA TrimmedProperties ==
    ASSUME NEW s \in Seq(Byte)
    PROVE  LET t == Trimmed(s)
               k == Len(s) - Len(t) IN
           /\ t \in Seq(Byte) /\ Len(t) \in 0..Len(s)
           /\ \A i \in 1..k : s[i] = Slash
           /\ \A i \in 1..Len(t) : t[i] = s[k + i]
           /\ Len(t) > 0 => t[1] # Slash
<1> DEFINE I == {i \in 1..Len(s) : s[i] # Slash}
           at == SelectInSeq(s, LAMBDA c : c # Slash)
           t == Trimmed(s)
           n == Len(s)
<1>1. at = IF I # {} THEN Min(I) ELSE 0
  BY DEF SelectInSeq
<1>2. n \in Nat /\ I \in SUBSET (1..n)
  OBVIOUS
<1>3. t = IF at = 0 THEN <<>> ELSE SubSeq(s, at, n)
  BY DEF Trimmed
<1>4. CASE I = {}
  <2>1. t = <<>>
    BY <1>1, <1>3, <1>4
  <2>2. t \in Seq(Byte) /\ Len(t) = 0
    BY <2>1
  <2>3. \A i \in 1..n : s[i] = Slash
    BY <1>4
  <2> HIDE DEF t
  <2>4. \A i \in 1..(n - Len(t)) : s[i] = Slash
    BY <1>2, <2>2, <2>3
  <2>5. \A i \in 1..Len(t) : t[i] = s[(n - Len(t)) + i]
    BY <2>2
  <2>6. Len(t) \in 0..n /\ ~(Len(t) > 0)
    BY <1>2, <2>2
  <2> QED
    BY <2>2, <2>4, <2>5, <2>6 DEF t
<1>5. CASE I # {}
  <2>1. Min(I) \in I /\ \A i \in I : Min(I) <= i
    <3> HIDE DEF I, n
    <3> QED
      BY <1>2, <1>5, FirstPosition
  <2>2. at \in 1..n /\ s[at] # Slash /\ \A i \in 1..n : i < at => s[i] = Slash
    <3> DEFINE m == Min(I)
    <3>1. at = m
      BY <1>1, <1>5
    <3>2. m \in I /\ \A i \in I : m <= i
      BY <2>1
    <3> HIDE DEF m, at
    <3>3. m \in 1..n /\ s[m] # Slash
      BY <3>2
    <3>4. ASSUME NEW i \in 1..n, i < m, s[i] # Slash PROVE FALSE
      <4>1. i \in I
        BY <3>4
      <4> HIDE DEF I
      <4> QED
        BY <1>2, <3>2, <3>3, <3>4, <4>1
    <3> QED
      BY <3>1, <3>3, <3>4
  <2> HIDE DEF at, n
  <2>3. t = SubSeq(s, at, n)
    BY <1>2, <1>3, <2>2
  <2>4. \A i \in at..n : s[i] \in Byte
    BY <1>2, <2>2 DEF n
  <2>5. /\ t \in Seq(Byte) /\ Len(t) = (IF at <= n THEN n - at + 1 ELSE 0)
        /\ \A i \in 1..(n - at + 1) : t[i] = s[at + i - 1]
    <3> HIDE DEF t
    <3> QED
      BY <1>2, <2>2, <2>3, <2>4, SubSeqProperties
  <2> HIDE DEF t
  <2>6. Len(t) = n - at + 1 /\ Len(t) \in 1..n /\ n - Len(t) = at - 1
    BY <1>2, <2>2, <2>5
  <2>7. \A i \in 1..Len(t) : t[i] = s[(n - Len(t)) + i]
    <3> TAKE i \in 1..Len(t)
    <3>1. i \in 1..(n - at + 1) /\ at + i - 1 = (n - Len(t)) + i
      BY <1>2, <2>2, <2>6
    <3> QED
      BY <2>5, <3>1
  <2>8. \A i \in 1..(n - Len(t)) : s[i] = Slash
    BY <1>2, <2>2, <2>6
  <2>9. t[1] # Slash
    <3>1. t[1] = s[at + 1 - 1] /\ at + 1 - 1 = at
      BY <1>2, <2>2, <2>5, <2>6
    <3> QED
      BY <2>2, <3>1
  <2> QED
    BY <2>5, <2>6, <2>7, <2>8, <2>9 DEF n, t
<1> QED
  BY <1>4, <1>5

\* What the input of a moved file is, and its name.
LEMMA WhatIsProcessed ==
    ASSUME NamesInv, moved # NULL
    PROVE  LET b == String(base_filename)
               s == watched \o b IN
           /\ base_filename \in Seq(Byte) /\ base_filename # NULL /\ b \in Seq(Byte)
           /\ base_filename_len = Len(base_filename)
           /\ IsDirectory(watched) /\ s \in Seq(Byte)
           /\ Leaf(Cwd, s) # NULL /\ entry = Leaf(Cwd, s)
           /\ entry.name \in Seq(Byte) /\ moved.name = datetime_stamp \o entry.name
           /\ datetime_stamp \in Seq(Byte) /\ moved.name \in Seq(Byte)
           /\ \A i \in 1..Len(moved.name) : moved.name[i] # Slash
<1>1. /\ message # <<>> /\ moved.name = datetime_stamp \o entry.name
      /\ datetime_stamp = Stamp(now) /\ now \in Time
  BY DEF NamesInv, Stamped, TypeOK
<1>2. /\ String(test_filename) \in Seq(Byte)
      /\ String(test_filename) = watched \o String(old_test_input)
      /\ IsDirectory(watched) /\ old_test_input \in Seq(Byte) /\ program = "source08"
      /\ entry # NULL /\ entry = Leaf(Cwd, String(test_filename))
  BY <1>1, WhatIsRead
<1>3. String(old_test_input) # <<>>
  <2> SUFFICES ASSUME String(old_test_input) = <<>> PROVE FALSE
    OBVIOUS
  <2>1. String(test_filename) = watched
    BY <1>2, DirectoryProperties, ConcatEmptySeq
  <2> QED
    BY <1>2, <2>1, LeafInDirectory
<1>4. base_filename = old_test_input /\ base_filename_len = Len(old_test_input)
  <2>1. test_filename # NULL
    BY <1>2 DEF NamesInv, Created
  <2> QED
    BY <1>2, <1>3, <2>1 DEF NamesInv, Prepended
<1>5. /\ entry.name \in Seq(Byte) /\ moved.name \in Seq(Byte)
      /\ \A i \in 1..Len(moved.name) : moved.name[i] # Slash
  BY <1>1, WhatIsMoved
<1>6. datetime_stamp \in Seq(Byte)
  BY <1>1, StampProperties
<1>7. String(old_test_input) \in Seq(Byte) /\ old_test_input # NULL
  BY <1>2, StringProperties, ContentAssumption
<1> QED
  BY <1>1, <1>2, <1>4, <1>5, <1>6, <1>7

\* The harness finds the file of its own input, once it is processed, if the slashes
\* of the input are all at its beginning.
LEMMA OwnIsFound ==
    ASSUME NamesInv, moved # NULL,
           \A i, j \in DOMAIN String(base_filename) :
               i < j /\ base_filename[j] = Slash => base_filename[i] = Slash
    PROVE  FileMatch(moved.name)
<1> DEFINE b == String(base_filename)
           s == watched \o b
           t == Trimmed(b)
           w == Len(watched)
           name == moved.name
           e == entry.name
<1>1. /\ b \in Seq(Byte) /\ IsDirectory(watched) /\ s \in Seq(Byte)
      /\ Leaf(Cwd, s) # NULL /\ entry = Leaf(Cwd, s) /\ e \in Seq(Byte)
      /\ name = datetime_stamp \o e /\ datetime_stamp \in Seq(Byte)
      /\ name \in Seq(Byte) /\ base_filename \in Seq(Byte)
  BY WhatIsProcessed
<1>2. \A i \in 1..Len(b) : b[i] = base_filename[i]
  BY <1>1, StringProperties
<1>3. \A i, j \in 1..Len(b) : i < j /\ b[j] = Slash => b[i] = Slash
  <2>1. DOMAIN b = 1..Len(b)
    BY <1>1
  <2> QED
    BY <1>2, <2>1
<1>4. /\ t \in Seq(Byte) /\ Len(t) \in 0..Len(b)
      /\ \A i \in 1..(Len(b) - Len(t)) : b[i] = Slash
      /\ \A i \in 1..Len(t) : t[i] = b[(Len(b) - Len(t)) + i]
      /\ Len(t) > 0 => t[1] # Slash
  BY <1>1, TrimmedProperties
<1>5. /\ w \in Nat /\ w > 0 /\ watched \in Seq(Byte) /\ watched[w] = Slash
  BY <1>1, DirectoryProperties
<1>6. /\ Len(s) = w + Len(b) /\ Len(b) \in Nat
      /\ \A i \in 1..w : s[i] = watched[i]
      /\ \A i \in 1..Len(b) : s[w + i] = b[i]
  <2>1. PartAfterPart(s, watched, b, w, Len(b))
    BY <1>1, <1>5, PartsConcatenated
  <2> QED
    BY <1>1, <2>1 DEF PartAfterPart
<1>7. e = BaseName(s, Slash)
  BY <1>1, LeafProperties
<1> HIDE DEF b, s, t, w, name, e
<1> DEFINE k == Len(b) - Len(t)
<1>8. k \in 0..Len(b)
  BY <1>4, <1>6
<1>9. s[w + k] = Slash
  <2>1. CASE k = 0
    <3>1. w + k = w /\ w \in 1..w
      BY <1>5, <2>1
    <3> QED
      BY <1>5, <1>6, <3>1
  <2>2. CASE k # 0
    <3>1. k \in 1..Len(b) /\ k \in 1..k
      BY <1>6, <1>8, <2>2
    <3> QED
      BY <1>4, <1>6, <3>1
  <2> QED
    BY <2>1, <2>2
<1>10. \A i \in 1..Len(t) : t[i] # Slash
  <2> SUFFICES ASSUME NEW i \in 1..Len(t), t[i] = Slash PROVE FALSE
    OBVIOUS
  <2>1. i # 1 /\ 1 \in 1..Len(t)
    BY <1>4, <1>6
  <2>2. k + 1 \in 1..Len(b) /\ k + i \in 1..Len(b) /\ k + 1 < k + i
    BY <1>4, <1>6, <2>1
  <2>3. b[k + i] = Slash /\ b[k + 1] = t[1]
    BY <1>4, <2>1
  <2>4. t[1] # Slash
    <3>1. Len(t) > 0
      BY <1>4, <1>6, <2>1
    <3> QED
      BY <1>4, <3>1
  <2> HIDE DEF k
  <2> QED
    BY <1>3, <2>2, <2>3, <2>4
<1>11. Len(e) = Len(t)
  <2> DEFINE n == w + k
  <2>1. n \in 0..Len(s) /\ s[n] = Slash
    BY <1>5, <1>6, <1>8, <1>9
  <2>2. \A i \in (n + 1)..Len(s) : s[i] # Slash
    <3> TAKE i \in (n + 1)..Len(s)
    <3>1. i - w \in 1..Len(b) /\ w + (i - w) = i
      BY <1>5, <1>6, <1>8
    <3>2. (i - w) - k \in 1..Len(t) /\ k + ((i - w) - k) = i - w
      BY <1>4, <1>5, <1>6, <1>8
    <3>3. s[i] = b[i - w]
      BY <1>6, <3>1
    <3>4. b[i - w] = t[(i - w) - k]
      BY <1>4, <3>2
    <3> QED
      BY <1>10, <3>2, <3>3, <3>4
  <2>3. Len(s) - n = Len(t)
    BY <1>4, <1>5, <1>6
  <2> HIDE DEF n
  <2>4. Len(BaseName(s, Slash)) = Len(s) - n
    BY <1>1, <2>1, <2>2, BaseNameIs DEF s
  <2> QED
    BY <1>7, <2>3, <2>4
<1>12. \A i \in 1..Len(t) : e[i] = t[i]
  <2> TAKE i \in 1..Len(t)
  <2>1. e[i] = s[Len(s) - Len(t) + i]
    <3>1. \A j \in 1..Len(e) : e[j] = s[Len(s) - Len(e) + j]
      BY <1>1, <1>7, BaseNameProperties
    <3> QED
      BY <1>11, <3>1
  <2>2. Len(s) - Len(t) + i = w + (k + i) /\ k + i \in 1..Len(b)
    BY <1>4, <1>5, <1>6
  <2> QED
    BY <1>4, <1>6, <2>1, <2>2
<1>13. Len(t) <= Len(name) /\ \A i \in 1..Len(t) : t[i] = name[Len(name) - Len(t) + i]
  <2> DEFINE d == Len(datetime_stamp)
             n == Len(t)
  <2>1. d \in Nat /\ n \in Nat
    BY <1>1, <1>4, <1>6
  <2>2. PartAfterPart(name, datetime_stamp, e, d, n)
    BY <1>1, <1>11, <2>1, PartsConcatenated DEF name
  <2> HIDE DEF n, d
  <2>3. Len(name) = d + n /\ \A i \in 1..n : name[d + i] = e[i]
    BY <2>2 DEF PartAfterPart
  <2>4. n <= Len(name) /\ Len(name) - n = d
    BY <2>1, <2>3
  <2>5. \A i \in 1..n : e[i] = t[i]
    BY <1>12 DEF n
  <2> QED
    BY <2>3, <2>4, <2>5 DEF n
<1>14. IsSuffix(t, name)
  BY <1>1, <1>4, <1>13, SuffixProperties DEF name
<1> QED
  BY <1>14 DEF FileMatch, t, b, name

\* An input with a slash behind another character is not.
LEMMA FoundIsOwn ==
    ASSUME NamesInv, moved # NULL, FileMatch(moved.name),
           NEW i \in DOMAIN String(base_filename), NEW j \in DOMAIN String(base_filename),
           i < j, base_filename[j] = Slash
    PROVE  base_filename[i] = Slash
<1> DEFINE b == String(base_filename)
           t == Trimmed(b)
           name == moved.name
<1>1. /\ b \in Seq(Byte) /\ name \in Seq(Byte) /\ base_filename \in Seq(Byte)
      /\ \A l \in 1..Len(name) : name[l] # Slash
  BY WhatIsProcessed
<1>2. \A l \in 1..Len(b) : b[l] = base_filename[l]
  BY <1>1, StringProperties
<1>3. i \in 1..Len(b) /\ j \in 1..Len(b)
  BY <1>1
<1>4. /\ t \in Seq(Byte) /\ Len(t) \in 0..Len(b)
      /\ \A l \in 1..(Len(b) - Len(t)) : b[l] = Slash
      /\ \A l \in 1..Len(t) : t[l] = b[(Len(b) - Len(t)) + l]
  BY <1>1, TrimmedProperties
<1> HIDE DEF b, t, name
<1>5. Len(t) <= Len(name) /\ \A l \in 1..Len(t) : t[l] = name[Len(name) - Len(t) + l]
  BY <1>1, <1>4, SuffixProperties DEF FileMatch, t, b, name
<1>6. \A l \in 1..Len(t) : t[l] # Slash
  <2> TAKE l \in 1..Len(t)
  <2>1. Len(name) \in Nat /\ Len(t) \in Nat
    BY <1>1, <1>4
  <2>2. Len(name) - Len(t) + l \in 1..Len(name)
    BY <1>5, <2>1
  <2> QED
    BY <1>1, <1>5, <2>2
<1>7. Len(b) \in Nat /\ Len(t) \in Nat
  BY <1>1, <1>4
<1>8. j <= Len(b) - Len(t)
  <2> SUFFICES ASSUME j > Len(b) - Len(t) PROVE FALSE
    BY <1>3, <1>7
  <2>1. /\ j - (Len(b) - Len(t)) \in 1..Len(t)
        /\ (Len(b) - Len(t)) + (j - (Len(b) - Len(t))) = j
    BY <1>3, <1>4, <1>7
  <2>2. b[j] # Slash
    BY <1>4, <1>6, <2>1
  <2> QED
    BY <1>2, <1>3, <2>2
<1>9. i \in 1..(Len(b) - Len(t))
  BY <1>3, <1>7, <1>8
<1> QED
  BY <1>2, <1>3, <1>4, <1>9

\* The harness takes the file its own daemon has processed for a match if and only if
\* the input has no slash behind its leading ones.
THEOREM OwnFileFound == Spec => []FindsOwn
<1>1. NamesInv => FindsOwn
  BY OwnIsFound, FoundIsOwn DEF FindsOwn
<1> QED
  BY <1>1, NamesInvariant, PTL

\* What ends a string without its leading slashes ends the string as well.
LEMMA TrimmedEnds ==
    ASSUME NEW b \in Seq(Byte), NEW name \in Seq(Byte), IsSuffix(b, name)
    PROVE  IsSuffix(Trimmed(b), name)
<1> DEFINE t == Trimmed(b)
           m == Len(name)
           n == Len(b)
           l == Len(t)
<1>1. t \in Seq(Byte) /\ l \in 0..n /\ \A i \in 1..l : t[i] = b[(n - l) + i]
  BY TrimmedProperties
<1>2. n <= m /\ \A i \in 1..n : b[i] = name[m - n + i]
  BY SuffixProperties
<1>3. m \in Nat /\ n \in Nat
  OBVIOUS
<1> HIDE DEF t, m, n, l
<1>4. l <= m /\ \A i \in 1..l : t[i] = name[m - l + i]
  <2>1. l <= m
    BY <1>1, <1>2, <1>3
  <2>2. ASSUME NEW i \in 1..l PROVE t[i] = name[m - l + i]
    <3>1. (n - l) + i \in 1..n /\ m - n + ((n - l) + i) = m - l + i
      BY <1>1, <1>3
    <3> QED
      BY <1>1, <1>2, <3>1
  <2> QED
    BY <2>1, <2>2
<1>5. IsSuffix(t, name)
  BY <1>1, <1>4, SuffixProperties DEF l, m
<1> QED
  BY <1>5 DEF t

\* The matching in use finds what the earlier ones would have found, and they differ
\* only over a leading slash or an input with a nul character.
THEOREM MatchingIsKept == Spec => []MatchersAgree
<1> DEFINE b == String(base_filename)
           name == moved.name
<1>1. ASSUME NamesInv, moved # NULL
      PROVE  /\ b \in Seq(Byte) /\ name \in Seq(Byte) /\ base_filename \in Seq(Byte)
             /\ base_filename_len = Len(base_filename)
  BY <1>1, WhatIsProcessed
<1>2. ASSUME NamesInv, moved # NULL, NulFileMatch(name) PROVE FileMatch(name)
  BY <1>1, <1>2, TrimmedEnds DEF NulFileMatch, FileMatch
<1>3. ASSUME NamesInv, moved # NULL, FileMatch(name), ~NonNulFileMatch(name),
             ~Contains(base_filename, Nul)
      PROVE  Head(base_filename) = Slash
  <2> SUFFICES ASSUME Head(base_filename) # Slash PROVE FALSE
    OBVIOUS
  <2>1. /\ name \in Seq(Byte) /\ base_filename \in Seq(Byte)
        /\ base_filename_len = Len(base_filename)
    BY <1>1, <1>3
  <2>2. b = base_filename
    <3>1. \A i \in 1..Len(base_filename) : base_filename[i] \notin {Nul}
      BY <1>3, <2>1 DEF Contains
    <3> QED
      BY <2>1, <3>1, BeforeAll DEF String
  <2> DEFINE t == Trimmed(base_filename)
             n == Len(base_filename)
  <2>3. /\ t \in Seq(Byte) /\ Len(t) \in 0..n
        /\ \A i \in 1..(n - Len(t)) : base_filename[i] = Slash
        /\ \A i \in 1..Len(t) : t[i] = base_filename[(n - Len(t)) + i]
    BY <2>1, TrimmedProperties
  <2>4. n \in Nat /\ (n > 0 => base_filename[1] # Slash)
    BY <2>1
  <2>5. IsSuffix(t, name)
    BY <1>3, <2>2 DEF FileMatch
  <2> HIDE DEF t, name, n
  <2>6. Len(t) = n
    <3> SUFFICES ASSUME Len(t) # n PROVE FALSE
      OBVIOUS
    <3>1. 1 \in 1..(n - Len(t)) /\ n > 0
      BY <2>3, <2>4
    <3> QED
      BY <2>3, <2>4, <3>1
  <2>7. t = base_filename
    <3>1. \A i \in 1..n : t[i] = base_filename[i]
      <4> TAKE i \in 1..n
      <4>1. i \in 1..Len(t) /\ (n - Len(t)) + i = i
        BY <2>4, <2>6
      <4> QED
        BY <2>3, <4>1
    <3> QED
      BY <2>1, <2>3, <2>6, <3>1, SeqEqual DEF n
  <2>8. Len(t) <= Len(name)
    BY <2>1, <2>3, <2>5, SuffixProperties
  <2>9. Len(name) >= base_filename_len
    <3>1. Len(name) \in Nat /\ n \in Nat
      BY <2>1, <2>4
    <3>2. base_filename_len = n /\ n <= Len(name)
      BY <2>1, <2>6, <2>8 DEF n
    <3> QED
      BY <3>1, <3>2
  <2> QED
    BY <1>3, <2>2, <2>5, <2>7, <2>9 DEF NonNulFileMatch, name
<1>4. NamesInv => MatchersAgree
  BY <1>2, <1>3 DEF MatchersAgree, NonNulFileMatch, NulFileMatch
<1> QED
  BY <1>4, NamesInvariant, PTL

-----------------------------------------------------------------------------
(* The sanitizer's log.                                                    *)

\* What follows the first "log_path=" as far as a blank is the value of log_path.
LEMMA LogAssigned ==
    ASSUME NEW value \in Seq(Byte), StrStr(value, LogPath) # 0
    PROVE  LET at == StrStr(value, LogPath)
               log == Before(SubSeq(value, at + Len(LogPath), Len(value)), {Blank}) IN
           log \in Seq(Byte) /\ Assigns(value, log) /\ ~Contains(log, Blank)
<1> DEFINE at == StrStr(value, LogPath)
           l == Len(LogPath)
           n == Len(value)
           rest == SubSeq(value, at + l, n)
           log == Before(rest, {Blank})
           setting == LogPath \o log
<1>1. LogPath \in Seq(Byte) /\ LogPath # <<>> /\ l \in Nat /\ n \in Nat
  BY OptionAssumption
<1>2. l > 0
  BY <1>1, EmptySeq
<1>3. at \in 1..(n - l + 1) /\ SubSeq(value, at, at + l - 1) = LogPath
  BY <1>1, StrStrProperties
<1> HIDE DEF at, l, n
<1>4. \A i \in 1..l : value[at - 1 + i] = LogPath[i]
  <2> DEFINE u == SubSeq(value, at, at + l - 1)
  <2>1. at \in Int /\ at + l - 1 \in Int /\ at <= at + l - 1
    BY <1>1, <1>2, <1>3
  <2>2. \A i \in at..(at + l - 1) : value[i] \in Byte
    BY <1>1, <1>3 DEF n
  <2>3. \A i \in 1..((at + l - 1) - at + 1) : u[i] = value[at + i - 1]
    BY <2>1, <2>2, SubSeqProperties
  <2> HIDE DEF u
  <2> TAKE i \in 1..l
  <2>4. i \in 1..((at + l - 1) - at + 1) /\ at + i - 1 = at - 1 + i
    BY <1>1, <1>3
  <2> QED
    BY <1>3, <2>3, <2>4 DEF u
<1>5. /\ rest \in Seq(Byte) /\ Len(rest) = n - (at + l) + 1
      /\ \A i \in 1..Len(rest) : rest[i] = value[at + l - 1 + i]
  <2>1. at + l \in Int /\ n \in Int
    BY <1>1, <1>3
  <2>2. \A i \in (at + l)..n : value[i] \in Byte
    BY <1>1, <1>3 DEF n
  <2>3. /\ rest \in Seq(Byte)
        /\ Len(rest) = (IF at + l <= n THEN n - (at + l) + 1 ELSE 0)
        /\ \A i \in 1..(n - (at + l) + 1) : rest[i] = value[(at + l) + i - 1]
    BY <2>1, <2>2, SubSeqProperties
  <2> HIDE DEF rest
  <2>4. Len(rest) = n - (at + l) + 1
    BY <1>1, <1>3, <2>3
  <2>5. \A i \in 1..Len(rest) : rest[i] = value[at + l - 1 + i]
    <3> TAKE i \in 1..Len(rest)
    <3>1. (at + l) + i - 1 = at + l - 1 + i /\ i \in 1..(n - (at + l) + 1)
      BY <1>1, <1>3, <2>4
    <3> QED
      BY <2>3, <3>1
  <2> QED
    BY <2>3, <2>4, <2>5
<1> HIDE DEF rest
<1>6. /\ log \in Seq(Byte) /\ Len(log) <= Len(rest)
      /\ \A i \in 1..Len(log) : log[i] = rest[i] /\ rest[i] \notin {Blank}
      /\ Len(log) < Len(rest) => rest[Len(log) + 1] \in {Blank}
  BY <1>5, BeforeProperties
<1> HIDE DEF log
<1>7. Len(log) \in Nat /\ Len(rest) \in Nat
  BY <1>5, <1>6
<1>8. /\ setting \in Seq(Byte) /\ Len(setting) = l + Len(log)
      /\ \A i \in 1..l : setting[i] = LogPath[i]
      /\ \A i \in 1..Len(log) : setting[l + i] = log[i]
  <2>1. PartAfterPart(setting, LogPath, log, l, Len(log))
    BY <1>1, <1>6, <1>7, PartsConcatenated DEF l
  <2> QED
    BY <2>1 DEF PartAfterPart
<1> HIDE DEF setting
<1> DEFINE m == l + Len(log)
           tail == SubSeq(value, at, n)
<1>9. /\ tail \in Seq(Byte) /\ Len(tail) = n - at + 1
      /\ \A i \in 1..(n - at + 1) : tail[i] = value[at + i - 1]
  <2>1. at \in Int /\ n \in Int /\ at <= n
    BY <1>1, <1>2, <1>3
  <2>2. \A i \in at..n : value[i] \in Byte
    BY <1>1, <1>3 DEF n
  <2> QED
    BY <2>1, <2>2, SubSeqProperties
<1> HIDE DEF tail
<1>10. m \in Nat /\ m <= n - at + 1 /\ at \in 1..n
  BY <1>1, <1>2, <1>3, <1>5, <1>6, <1>7
<1>11. \A i \in 1..m : value[at + i - 1] = setting[i]
  <2> TAKE i \in 1..m
  <2>1. CASE i <= l
    <3>1. i \in 1..l /\ at + i - 1 = at - 1 + i
      BY <1>1, <1>3, <2>1
    <3> QED
      BY <1>4, <1>8, <3>1
  <2>2. CASE ~(i <= l)
    <3> DEFINE j == i - l
    <3>1. /\ j \in 1..Len(log) /\ j \in 1..Len(rest) /\ l + j = i
          /\ at + i - 1 = at + l - 1 + j
      BY <1>1, <1>3, <1>6, <1>7, <2>2
    <3> HIDE DEF j
    <3> QED
      BY <1>5, <1>6, <1>8, <3>1
  <2> QED
    BY <2>1, <2>2
<1>12. Cut(tail, m) = setting
  <2> DEFINE c == Cut(tail, m)
  <2>1. /\ c \in Seq(Byte)
        /\ Len(c) = IF m < 0 THEN 0 ELSE IF m < Len(tail) THEN m ELSE Len(tail)
        /\ \A i \in 1..Len(c) : c[i] = tail[i]
    <3>1. m \in Int
      BY <1>10
    <3> HIDE DEF m
    <3> QED
      BY <1>9, <3>1, CutProperties
  <2> HIDE DEF c, m
  <2>2. Len(c) = m
    BY <1>1, <1>3, <1>9, <1>10, <2>1
  <2>3. \A i \in 1..m : c[i] = setting[i]
    <3> TAKE i \in 1..m
    <3>1. i \in 1..(n - at + 1)
      BY <1>1, <1>10
    <3> QED
      BY <1>9, <1>11, <2>1, <2>2, <3>1
  <2>4. Len(setting) = m
    BY <1>8 DEF m
  <2>5. c = setting
    BY <1>8, <2>1, <2>2, <2>3, <2>4, SeqEqual
  <2> QED
    BY <2>5 DEF c
<1>13. at + m = n + 1 \/ value[at + m] = Blank
  <2>1. CASE Len(log) = Len(rest)
    <3>1. at + m = n + 1
      BY <1>1, <1>3, <1>5, <2>1
    <3> QED
      BY <3>1
  <2>2. CASE Len(log) < Len(rest)
    <3> DEFINE j == Len(log) + 1
    <3>1. j \in 1..Len(rest) /\ at + l - 1 + j = at + m
      BY <1>1, <1>3, <1>7, <2>2
    <3>2. rest[j] = Blank
      BY <1>6, <2>2
    <3> QED
      BY <1>5, <3>1, <3>2
  <2> QED
    BY <1>6, <1>7, <2>1, <2>2
<1>14. Assigns(value, log)
  <2>1. Len(LogPath \o log) = m /\ setting = LogPath \o log
    BY <1>8 DEF setting, m
  <2> HIDE DEF m
  <2>2. /\ Cut(SubSeq(value, at, Len(value)), Len(LogPath \o log)) = LogPath \o log
        /\ at + Len(LogPath \o log) = Len(value) + 1 \/ value[at + Len(LogPath \o log)] = Blank
    BY <1>12, <1>13, <2>1 DEF tail, n
  <2>3. at \in 1..Len(value)
    BY <1>10 DEF n
  <2> QED
    BY <2>2, <2>3 DEF Assigns
<1>15. ~Contains(log, Blank)
  BY <1>6 DEF Contains
<1> QED
  BY <1>6, <1>14, <1>15 DEF log, rest, at, l, n

\* Nothing is assigned where "log_path=" does not occur.
LEMMA NotAssigned ==
    ASSUME NEW value \in Seq(Byte), StrStr(value, LogPath) = 0, NEW log \in Seq(Byte)
    PROVE  ~Assigns(value, log)
<1> DEFINE l == Len(LogPath)
           n == Len(value)
           setting == LogPath \o log
           m == Len(setting)
<1> SUFFICES ASSUME NEW i \in 1..n, Cut(SubSeq(value, i, n), m) = setting PROVE FALSE
  BY DEF Assigns
<1> DEFINE tail == SubSeq(value, i, n)
<1>1. LogPath \in Seq(Byte) /\ LogPath # <<>> /\ l \in Nat /\ n \in Nat
  BY OptionAssumption
<1>2. l > 0
  BY <1>1, EmptySeq
<1>3. \A j \in 1..(n - l + 1) : SubSeq(value, j, j + l - 1) # LogPath
  BY <1>1, StrStrProperties
<1>4. /\ setting \in Seq(Byte) /\ m \in Nat /\ m >= l
      /\ \A j \in 1..l : setting[j] = LogPath[j]
  <2>1. Len(log) \in Nat
    OBVIOUS
  <2> HIDE DEF setting
  <2>2. PartAfterPart(setting, LogPath, log, l, Len(log))
    BY <1>1, <2>1, PartsConcatenated DEF setting
  <2>3. setting \in Seq(Byte) /\ m = l + Len(log) /\ \A j \in 1..l : setting[j] = LogPath[j]
    BY <2>2 DEF PartAfterPart
  <2> QED
    BY <1>1, <2>1, <2>3
<1> HIDE DEF n
<1>5. /\ tail \in Seq(Byte) /\ Len(tail) = n - i + 1
      /\ \A j \in 1..(n - i + 1) : tail[j] = value[i + j - 1]
  <2>1. i \in Int /\ n \in Int /\ i <= n
    BY <1>1
  <2>2. \A j \in i..n : value[j] \in Byte
    BY <1>1 DEF n
  <2> QED
    BY <2>1, <2>2, SubSeqProperties
<1> HIDE DEF tail, m
<1>6. m <= n - i + 1 /\ \A j \in 1..m : setting[j] = tail[j]
  <2> DEFINE c == Cut(tail, m)
  <2>1. /\ c \in Seq(Byte)
        /\ Len(c) = IF m < 0 THEN 0 ELSE IF m < Len(tail) THEN m ELSE Len(tail)
        /\ \A j \in 1..Len(c) : c[j] = tail[j]
    BY <1>4, <1>5, CutProperties
  <2>2. c = setting
    BY DEF tail
  <2>3. Len(c) = m
    BY <2>2 DEF m
  <2> HIDE DEF c
  <2> QED
    BY <1>1, <1>4, <1>5, <2>1, <2>2, <2>3
<1>7. i \in 1..(n - l + 1)
  BY <1>1, <1>4, <1>6
<1>8. SubSeq(value, i, i + l - 1) = LogPath
  <2> DEFINE u == SubSeq(value, i, i + l - 1)
  <2> HIDE DEF l
  <2>1. i \in Int /\ i + l - 1 \in Int /\ i <= i + l - 1
    BY <1>1, <1>2, <1>7
  <2>2. \A j \in i..(i + l - 1) : value[j] \in Byte
    BY <1>1, <1>7 DEF n
  <2>3. /\ u \in Seq(Byte) /\ Len(u) = (i + l - 1) - i + 1
        /\ \A j \in 1..((i + l - 1) - i + 1) : u[j] = value[i + j - 1]
    BY <2>1, <2>2, SubSeqProperties
  <2> HIDE DEF u
  <2>4. Len(u) = l /\ (i + l - 1) - i + 1 = l
    BY <1>1, <2>1, <2>3
  <2>5. \A j \in 1..l : u[j] = LogPath[j]
    <3> TAKE j \in 1..l
    <3>1. j \in 1..m /\ j \in 1..(n - i + 1)
      BY <1>1, <1>4, <1>6
    <3> QED
      BY <1>4, <1>5, <1>6, <2>3, <2>4, <3>1
  <2>6. u = LogPath
    BY <1>1, <2>3, <2>4, <2>5, SeqEqual DEF l
  <2> QED
    BY <2>6 DEF u
<1> QED
  BY <1>3, <1>7, <1>8 DEF n

\* The sanitizer's log is a whole value of log_path and ends before a blank; it is
\* missing only if log_path is, or is empty.
THEOREM LogIsOfOptions == Spec => []LogOfOptions
<1>1. ASSUME NEW value \in Seq(Byte), NEW log, log = GetAsanLog(value)
      PROVE  IF log # NULL
             THEN Assigns(value, log) /\ ~Contains(log, Blank)
             ELSE \/ Assigns(value, <<>>)
                  \/ \A i, j \in 1..Len(value) : ~Assigns(value, SubSeq(value, i, j))
  <2> DEFINE at == StrStr(value, LogPath)
             made == Before(SubSeq(value, at + Len(LogPath), Len(value)), {Blank})
  <2>1. CASE at = 0
    <3>1. log = NULL
      BY <1>1, <2>1 DEF GetAsanLog
    <3>2. \A i, j \in 1..Len(value) : SubSeq(value, i, j) \in Seq(Byte)
      OBVIOUS
    <3> QED
      BY <2>1, <3>1, <3>2, NotAssigned
  <2>2. CASE at # 0
    <3>1. made \in Seq(Byte) /\ Assigns(value, made) /\ ~Contains(made, Blank)
      BY <2>2, LogAssigned
    <3>2. log = IF made = <<>> THEN NULL ELSE made
      BY <1>1, <2>2 DEF GetAsanLog
    <3>3. made # NULL
      BY <3>1, ContentAssumption
    <3> HIDE DEF made
    <3> QED
      BY <3>1, <3>2, <3>3
  <2> QED
    BY <2>1, <2>2
<1>2. NamesInv => LogOfOptions
  <2>1. NamesInv /\ options # NULL => options \in Seq(Byte) /\ asan_log = GetAsanLog(options)
    BY DEF NamesInv, Logged, TypeOK
  <2> QED
    BY <1>1, <2>1 DEF LogOfOptions
<1> QED
  BY <1>2, NamesInvariant, PTL

-----------------------------------------------------------------------------
(* The order of the stamps.                                                *)

\* Two sequences of numbers between two positions.
LessIn(o, p, a, b) == \E i \in a..b : o[i] < p[i] /\ \A j \in a..(i - 1) : o[j] = p[j]
SameIn(o, p, a, b) == \A i \in a..b : o[i] = p[i]

\* The beginning decides, or what is behind it.
LEMMA LessInParts ==
    ASSUME NEW o, NEW p, NEW a \in Nat, NEW b \in Nat, NEW c \in Nat, a <= b, b < c
    PROVE  LessIn(o, p, a, c) <=>
               LessIn(o, p, a, b) \/ (SameIn(o, p, a, b) /\ LessIn(o, p, b + 1, c))
<1>1. ASSUME LessIn(o, p, a, c), ~LessIn(o, p, a, b)
      PROVE  SameIn(o, p, a, b) /\ LessIn(o, p, b + 1, c)
  <2>1. PICK i \in a..c : o[i] < p[i] /\ \A j \in a..(i - 1) : o[j] = p[j]
    BY <1>1 DEF LessIn
  <2>2. i \in (b + 1)..c
    BY <1>1, <2>1 DEF LessIn
  <2>3. a..b \subseteq a..(i - 1) /\ (b + 1)..(i - 1) \subseteq a..(i - 1)
    BY <2>2
  <2> QED
    BY <2>1, <2>2, <2>3 DEF LessIn, SameIn
<1>2. ASSUME LessIn(o, p, a, b) PROVE LessIn(o, p, a, c)
  <2>1. a..b \subseteq a..c
    OBVIOUS
  <2> QED
    BY <1>2, <2>1 DEF LessIn
<1>3. ASSUME SameIn(o, p, a, b), LessIn(o, p, b + 1, c) PROVE LessIn(o, p, a, c)
  <2>1. PICK i \in (b + 1)..c : o[i] < p[i] /\ \A j \in (b + 1)..(i - 1) : o[j] = p[j]
    BY <1>3 DEF LessIn
  <2>2. \A j \in a..(i - 1) : j \in a..b \/ j \in (b + 1)..(i - 1)
    OBVIOUS
  <2>3. i \in a..c /\ \A j \in a..(i - 1) : o[j] = p[j]
    BY <1>3, <2>1, <2>2 DEF SameIn
  <2> QED
    BY <2>1, <2>3 DEF LessIn
<1> QED
  BY <1>1, <1>2, <1>3

LEMMA SameInParts ==
    ASSUME NEW o, NEW p, NEW a \in Nat, NEW b \in Nat, NEW c \in Nat, a <= b, b < c
    PROVE  SameIn(o, p, a, c) <=> SameIn(o, p, a, b) /\ SameIn(o, p, b + 1, c)
  BY DEF SameIn

\* One position.
LEMMA OnePosition ==
    ASSUME NEW o, NEW p, NEW a \in Nat
    PROVE  /\ LessIn(o, p, a, a) <=> o[a] < p[a]
           /\ SameIn(o, p, a, a) <=> o[a] = p[a]
<1>1. a..a = {a} /\ a..(a - 1) = {}
  OBVIOUS
<1> QED
  BY <1>1 DEF LessIn, SameIn

\* The ordinals of a number's digits, tens before ones.
TwoDigits(o, a, n) == o[a] = ((n \div 10) % 10) + 1 /\ o[a + 1] = (n % 10) + 1

LEMMA Tens ==
    ASSUME NEW n \in Nat, NEW q, q = n \div 10, NEW r, r = n % 10
    PROVE  q \in Nat /\ r \in 0..9 /\ n = 10 * q + r
<1>1. q \in Nat /\ r \in 0..9
  OBVIOUS
<1>2. n = 10 * q + r
  OBVIOUS
<1> QED
  BY <1>1, <1>2

LEMMA Hundreds ==
    ASSUME NEW n \in Nat, NEW q, q = n \div 100, NEW r, r = n % 100
    PROVE  q \in Nat /\ r \in 0..99 /\ n = 100 * q + r
<1>1. q \in Nat /\ r \in 0..99
  OBVIOUS
<1>2. n = 100 * q + r
  OBVIOUS
<1> QED
  BY <1>1, <1>2

\* Two sequences compare from one position to another as two numbers do.
Compares(o, p, a, b, m, n) ==
    /\ LessIn(o, p, a, b) <=> m < n
    /\ SameIn(o, p, a, b) <=> m = n

LEMMA TwoDigitsOrder ==
    ASSUME NEW o, NEW p, NEW a \in Nat, NEW b, b = a + 1, NEW m \in 0..99, NEW n \in 0..99,
           TwoDigits(o, a, m), TwoDigits(p, a, n)
    PROVE  Compares(o, p, a, b, m, n)
<1> DEFINE mt == m \div 10
           mo == m % 10
           nt == n \div 10
           no == n % 10
<1>1. /\ o[a] = (mt % 10) + 1 /\ o[a + 1] = mo + 1
      /\ p[a] = (nt % 10) + 1 /\ p[a + 1] = no + 1
  BY DEF TwoDigits
<1>2. /\ o[a] = mt + 1 /\ o[a + 1] = mo + 1 /\ p[a] = nt + 1 /\ p[a + 1] = no + 1
      /\ mt \in 0..9 /\ mo \in 0..9 /\ nt \in 0..9 /\ no \in 0..9
      /\ m = 10 * mt + mo /\ n = 10 * nt + no
  <2>1. m \in Nat /\ n \in Nat
    OBVIOUS
  <2>2. mt \in Nat /\ mo \in 0..9 /\ m = 10 * mt + mo
    BY <2>1, Tens
  <2>3. nt \in Nat /\ no \in 0..9 /\ n = 10 * nt + no
    BY <2>1, Tens
  <2> HIDE DEF mt, mo, nt, no
  <2>4. mt \in 0..9 /\ nt \in 0..9
    BY <2>2, <2>3
  <2>5. mt % 10 = mt /\ nt % 10 = nt
    BY <2>4
  <2> QED
    BY <1>1, <2>2, <2>3, <2>4, <2>5
<1> HIDE DEF mt, mo, nt, no
<1>3. /\ LessIn(o, p, a, a) <=> o[a] < p[a]
      /\ SameIn(o, p, a, a) <=> o[a] = p[a]
      /\ LessIn(o, p, a + 1, a + 1) <=> o[a + 1] < p[a + 1]
      /\ SameIn(o, p, a + 1, a + 1) <=> o[a + 1] = p[a + 1]
  BY OnePosition
<1>4. /\ LessIn(o, p, a, a + 1) <=>
             LessIn(o, p, a, a) \/ (SameIn(o, p, a, a) /\ LessIn(o, p, a + 1, a + 1))
      /\ SameIn(o, p, a, a + 1) <=> SameIn(o, p, a, a) /\ SameIn(o, p, a + 1, a + 1)
  BY LessInParts, SameInParts
<1>5. /\ m < n <=> mt < nt \/ (mt = nt /\ mo < no)
      /\ m = n <=> mt = nt /\ mo = no
  BY <1>2
<1>6. /\ o[a] < p[a] <=> mt < nt
      /\ o[a] = p[a] <=> mt = nt
      /\ o[a + 1] < p[a + 1] <=> mo < no
      /\ o[a + 1] = p[a + 1] <=> mo = no
  BY <1>2
<1>7. /\ LessIn(o, p, a, a + 1) <=> m < n
      /\ SameIn(o, p, a, a + 1) <=> m = n
  BY <1>3, <1>4, <1>5, <1>6
<1> QED
  BY <1>7 DEF Compares

\* The same of four: hundreds, and what is left.
LEMMA Digits ==
    ASSUME NEW n \in FourDigits
    PROVE  /\ n \in Nat
           /\ (n \div 1000) % 10 = ((n \div 100) \div 10) % 10
           /\ (n \div 10) % 10 = ((n % 100) \div 10) % 10
           /\ n % 10 = (n % 100) % 10
<1>1. n \in 0..9999
  BY DEF FourDigits
<1>2. (n \div 1000) % 10 = ((n \div 100) \div 10) % 10
  BY <1>1
<1>3. (n \div 10) % 10 = ((n % 100) \div 10) % 10
  <2> DEFINE h == n \div 100
             r == n % 100
             q == r \div 10
             e == r % 10
  <2>1. n \in Nat
    BY <1>1
  <2>2. h \in Nat /\ r \in 0..99 /\ n = 100 * h + r
    BY <2>1, Hundreds
  <2> HIDE DEF h, r
  <2>3. q \in Nat /\ e \in 0..9 /\ r = 10 * q + e
    <3>1. r \in Nat
      BY <2>2
    <3> QED
      BY <3>1, Tens
  <2> HIDE DEF q, e
  <2>4. q \in 0..9
    BY <2>2, <2>3
  <2>5. n \div 10 = 10 * h + q
    <3>1. n = 10 * (10 * h + q) + e /\ 10 * h + q \in Nat
      BY <2>2, <2>3
    <3> DEFINE k == 10 * h + q
    <3> HIDE DEF k
    <3>2. k \in Nat /\ e \in 0..9 /\ n = 10 * k + e
      BY <2>3, <3>1 DEF k
    <3>3. (10 * k + e) \div 10 = k
      BY <3>2
    <3> QED
      BY <3>2, <3>3 DEF k
  <2>6. (10 * h + q) % 10 = q /\ q % 10 = q
    BY <2>2, <2>4
  <2> QED
    BY <2>5, <2>6 DEF q, r
<1>4. n % 10 = (n % 100) % 10
  BY <1>1
<1> QED
  BY <1>1, <1>2, <1>3, <1>4

LEMMA HighAndLow ==
    ASSUME NEW n \in FourDigits, NEW q, q = n \div 100, NEW r, r = n % 100
    PROVE  q \in 0..99 /\ r \in 0..99 /\ n = 100 * q + r
<1>1. n \in Nat
  BY Digits
<1>2. q \in Nat /\ r \in 0..99 /\ n = 100 * q + r
  <2>1. q \in Nat /\ r \in 0..99
    BY <1>1
  <2>2. n = 100 * q + r
    BY <1>1
  <2> QED
    BY <2>1, <2>2
<1>3. n <= 9999
  BY DEF FourDigits
<1>4. q <= 99
  BY <1>1, <1>2, <1>3
<1> QED
  BY <1>2, <1>4

LEMMA FourDigitsOrder ==
    ASSUME NEW o, NEW p, NEW m \in FourDigits, NEW n \in FourDigits,
           TwoDigits(o, 1, m \div 100), TwoDigits(o, 3, m % 100),
           TwoDigits(p, 1, n \div 100), TwoDigits(p, 3, n % 100)
    PROVE  /\ LessIn(o, p, 1, 4) <=> m < n
           /\ SameIn(o, p, 1, 4) <=> m = n
<1> DEFINE mh == m \div 100
           mr == m % 100
           nh == n \div 100
           nr == n % 100
<1>1. mh \in 0..99 /\ mr \in 0..99 /\ m = 100 * mh + mr
  BY HighAndLow
<1>2. nh \in 0..99 /\ nr \in 0..99 /\ n = 100 * nh + nr
  BY HighAndLow
<1>3. TwoDigits(o, 1, mh) /\ TwoDigits(o, 3, mr) /\ TwoDigits(p, 1, nh) /\ TwoDigits(p, 3, nr)
  OBVIOUS
<1> HIDE DEF mh, mr, nh, nr
<1>4. /\ LessIn(o, p, 1, 2) <=> mh < nh
      /\ SameIn(o, p, 1, 2) <=> mh = nh
  <2> DEFINE a == 1
             b == 2
  <2>1. /\ a \in Nat /\ b = a + 1 /\ TwoDigits(o, a, mh) /\ TwoDigits(p, a, nh)
        /\ mh \in 0..99 /\ nh \in 0..99
    BY <1>1, <1>2, <1>3
  <2> HIDE DEF a, b
  <2>2. Compares(o, p, a, b, mh, nh)
    BY <2>1, TwoDigitsOrder, Zenon
  <2> QED
    BY <2>2 DEF a, b, Compares
<1>5. /\ LessIn(o, p, 3, 4) <=> mr < nr
      /\ SameIn(o, p, 3, 4) <=> mr = nr
  <2> DEFINE a == 3
             b == 4
  <2>1. /\ a \in Nat /\ b = a + 1 /\ TwoDigits(o, a, mr) /\ TwoDigits(p, a, nr)
        /\ mr \in 0..99 /\ nr \in 0..99
    BY <1>1, <1>2, <1>3
  <2> HIDE DEF a, b
  <2>2. Compares(o, p, a, b, mr, nr)
    BY <2>1, TwoDigitsOrder, Zenon
  <2> QED
    BY <2>2 DEF a, b, Compares
<1>6. /\ LessIn(o, p, 1, 4) <=>
             LessIn(o, p, 1, 2) \/ (SameIn(o, p, 1, 2) /\ LessIn(o, p, 2 + 1, 4))
      /\ SameIn(o, p, 1, 4) <=> SameIn(o, p, 1, 2) /\ SameIn(o, p, 2 + 1, 4)
  BY LessInParts, SameInParts
<1>7. /\ m < n <=> mh < nh \/ (mh = nh /\ mr < nr)
      /\ m = n <=> mh = nh /\ mr = nr
  BY <1>1, <1>2
<1>8. 2 + 1 = 3
  OBVIOUS
<1> QED
  BY <1>4, <1>5, <1>6, <1>7, <1>8

\* The ordinals of the characters of a stamp.
LEMMA OrdinalProperties ==
    ASSUME NEW s \in Seq(Byte)
    PROVE  /\ DOMAIN Ordinal(s) = 1..Len(s)
           /\ \A i \in 1..Len(s) : Ordinal(s)[i] \in 0..10
           /\ \A i \in 1..Len(s) : \A d \in 1..10 : s[i] = Digit[d] => Ordinal(s)[i] = d
           /\ \A r \in Seq(Byte) : \A i \in 1..Len(s), j \in 1..Len(r) :
                 s[i] = r[j] => Ordinal(s)[i] = Ordinal(r)[j]
<1> DEFINE I(c) == {d \in 1..Len(Digit) : Digit[d] = c}
           Place(c) == IF I(c) # {} THEN Min(I(c)) ELSE 0
<1>1. Len(Digit) = 10
  BY DEF Digit
<1>2. \A c, d \in 1..10 : Digit[c] = Digit[d] => c = d
  BY DEF Digit
<1>3. \A r \in Seq(Byte) : /\ DOMAIN Ordinal(r) = 1..Len(r)
                            /\ \A i \in 1..Len(r) : Ordinal(r)[i] = Place(r[i])
  <2> SUFFICES ASSUME NEW r \in Seq(Byte)
               PROVE  /\ DOMAIN Ordinal(r) = 1..Len(r)
                      /\ \A i \in 1..Len(r) : Ordinal(r)[i] = Place(r[i])
    OBVIOUS
  <2>1. DOMAIN r = 1..Len(r)
    OBVIOUS
  <2> QED
    BY <2>1 DEF Ordinal, SelectInSeq
<1>4. ASSUME NEW c PROVE I(c) \in SUBSET (1..10)
  BY <1>1
<1>5. ASSUME NEW c, I(c) # {} PROVE Min(I(c)) \in I(c)
  <2> DEFINE n == 10
             P == I(c)
  <2>1. n \in Nat /\ P \in SUBSET (1..n) /\ P # {}
    BY <1>4, <1>5
  <2> HIDE DEF n, P
  <2>2. Min(P) \in P
    BY <2>1, FirstPosition
  <2> QED
    BY <2>2 DEF P
<1>6. ASSUME NEW c PROVE Place(c) \in 0..10
  <2>1. CASE I(c) = {}
    BY <2>1
  <2>2. CASE I(c) # {}
    <3>1. Place(c) = Min(I(c))
      BY <2>2
    <3>2. Min(I(c)) \in 1..10
      BY <1>4, <1>5, <2>2
    <3> QED
      BY <3>1, <3>2
  <2> QED
    BY <2>1, <2>2
<1>7. ASSUME NEW d \in 1..10 PROVE Place(Digit[d]) = d
  <2> DEFINE c == Digit[d]
  <2>1. d \in I(c)
    BY <1>1
  <2>2. Place(c) = Min(I(c)) /\ Min(I(c)) \in I(c)
    BY <1>5, <2>1
  <2>3. Min(I(c)) \in 1..10 /\ Digit[Min(I(c))] = Digit[d]
    BY <1>1, <2>2
  <2> QED
    BY <1>2, <2>2, <2>3
<1> HIDE DEF Place
<1> QED
  BY <1>3, <1>6, <1>7

\* The fields of a local time are no wider than their digits.
LEMMA TimeFields ==
    ASSUME NEW t \in TimeType
    PROVE  /\ t.tm_mon \in 0..99 /\ t.tm_mday \in 0..99 /\ t.tm_hour \in 0..99
           /\ t.tm_min \in 0..99 /\ t.tm_sec \in 0..99
<1>1. t.tm_mon \in 0..99
  BY DEF TimeType
<1>2. t.tm_mday \in 0..99
  BY DEF TimeType
<1>3. t.tm_hour \in 0..99
  BY DEF TimeType
<1>4. t.tm_min \in 0..99
  BY DEF TimeType
<1>5. t.tm_sec \in 0..99
  BY DEF TimeType
<1> QED
  BY <1>1, <1>2, <1>3, <1>4, <1>5

LEMMA YearOrder ==
    ASSUME NEW t \in TimeType, NEW u \in TimeType
    PROVE  /\ t.tm_year < u.tm_year <=> Year(t) < Year(u)
           /\ t.tm_year = u.tm_year <=> Year(t) = Year(u)
<1> DEFINE x == t.tm_year
           y == u.tm_year
<1>1. x \in 0..8099
  BY YearField
<1>2. y \in 0..8099
  BY YearField
<1>3. Year(t) = x + 1900 /\ Year(u) = y + 1900
  BY DEF Year
<1> HIDE DEF x, y
<1>4. x + 1900 < y + 1900 <=> x < y
  BY <1>1, <1>2
<1>5. x + 1900 = y + 1900 <=> x = y
  BY <1>1, <1>2
<1>6. /\ x < y <=> Year(t) < Year(u)
      /\ x = y <=> Year(t) = Year(u)
  BY <1>3, <1>4, <1>5
<1> QED
  BY <1>6, Zenon DEF x, y

\* The ordinals of a stamp are the digits of the fields.
ShowsTime(o, t) ==
    /\ DOMAIN o = 1..16
    /\ TwoDigits(o, 1, Year(t) \div 100) /\ TwoDigits(o, 3, Year(t) % 100)
    /\ TwoDigits(o, 5, t.tm_mon) /\ TwoDigits(o, 7, t.tm_mday)
    /\ TwoDigits(o, 10, t.tm_hour) /\ TwoDigits(o, 12, t.tm_min)
    /\ TwoDigits(o, 14, t.tm_sec)
    /\ o[9] \in 0..10 /\ o[16] \in 0..10

LEMMA StampDigits ==
    ASSUME NEW t \in TimeType
    PROVE  ShowsTime(Ordinal(Stamp(t)), t)
<1> DEFINE s == Stamp(t)
           o == Ordinal(s)
<1>1. /\ s \in Seq(Byte) /\ Len(s) = 16
      /\ \A i \in 1..4 : s[i] = Number(Year(t), 4)[i]
      /\ \A i \in 1..2 : /\ s[4 + i] = Number(t.tm_mon, 2)[i]
                         /\ s[6 + i] = Number(t.tm_mday, 2)[i]
                         /\ s[9 + i] = Number(t.tm_hour, 2)[i]
                         /\ s[11 + i] = Number(t.tm_min, 2)[i]
                         /\ s[13 + i] = Number(t.tm_sec, 2)[i]
  BY StampParts
<1> HIDE DEF s
<1>2. /\ DOMAIN o = 1..16
      /\ \A i \in 1..16 : o[i] \in 0..10
      /\ \A i \in 1..16 : \A d \in 1..10 : s[i] = Digit[d] => o[i] = d
  <2> DEFINE n == Len(s)
  <2>1. /\ DOMAIN o = 1..n
        /\ \A i \in 1..n : o[i] \in 0..10
        /\ \A i \in 1..n : \A d \in 1..10 : s[i] = Digit[d] => o[i] = d
    BY <1>1, OrdinalProperties
  <2>2. n = 16
    BY <1>1
  <2> HIDE DEF n, o
  <2> QED
    BY <2>1, <2>2
<1> HIDE DEF o
<1>3. /\ Year(t) \in Nat /\ t.tm_mon \in Nat /\ t.tm_mday \in Nat
      /\ t.tm_hour \in Nat /\ t.tm_min \in Nat /\ t.tm_sec \in Nat
  BY TimeNat
<1>4. \A n \in Nat : /\ ((n \div 10) % 10) + 1 \in 1..10 /\ (n % 10) + 1 \in 1..10
                     /\ n \div 1 = n
  OBVIOUS
<1>5. Power[1] = 1 /\ Power[2] = 10 /\ Power[3] = 100 /\ Power[4] = 1000
  BY DEF Power
<1>6. ASSUME NEW n \in Nat, NEW a \in {4, 6, 9, 11, 13},
             \A i \in 1..2 : s[a + i] = Number(n, 2)[i]
      PROVE  TwoDigits(o, a + 1, n)
  <2>1. /\ Number(n, 2)[1] = Digit[((n \div Power[2 - 1 + 1]) % 10) + 1]
        /\ Number(n, 2)[2] = Digit[((n \div Power[2 - 2 + 1]) % 10) + 1]
    BY NumberProperties
  <2>2. 2 - 1 + 1 = 2 /\ 2 - 2 + 1 = 1
    OBVIOUS
  <2>3. /\ Number(n, 2)[1] = Digit[((n \div 10) % 10) + 1]
        /\ Number(n, 2)[2] = Digit[(n % 10) + 1]
    BY <1>4, <1>5, <2>1, <2>2
  <2>4. s[a + 1] = Digit[((n \div 10) % 10) + 1] /\ s[a + 2] = Digit[(n % 10) + 1]
    BY <1>6, <2>3
  <2>5. a + 1 \in 1..16 /\ a + 2 \in 1..16 /\ (a + 1) + 1 = a + 2
    OBVIOUS
  <2>6. o[a + 1] = ((n \div 10) % 10) + 1
    BY <1>2, <1>4, <2>4, <2>5
  <2>7. o[a + 2] = (n % 10) + 1
    BY <1>2, <1>4, <2>4, <2>5
  <2> QED
    BY <2>5, <2>6, <2>7 DEF TwoDigits
<1>7. TwoDigits(o, 4 + 1, t.tm_mon) /\ TwoDigits(o, 6 + 1, t.tm_mday)
  BY <1>1, <1>3, <1>6
<1>8. TwoDigits(o, 9 + 1, t.tm_hour) /\ TwoDigits(o, 11 + 1, t.tm_min)
  BY <1>1, <1>3, <1>6
<1>9. TwoDigits(o, 13 + 1, t.tm_sec)
  BY <1>1, <1>3, <1>6
<1>10. TwoDigits(o, 1, Year(t) \div 100) /\ TwoDigits(o, 3, Year(t) % 100)
  <2> DEFINE n == Year(t)
  <2>1. n \in FourDigits /\ n \in Nat
    BY <1>3, YearRange
  <2> HIDE DEF n
  <2>2. /\ Number(n, 4)[1] = Digit[((n \div Power[4 - 1 + 1]) % 10) + 1]
        /\ Number(n, 4)[2] = Digit[((n \div Power[4 - 2 + 1]) % 10) + 1]
        /\ Number(n, 4)[3] = Digit[((n \div Power[4 - 3 + 1]) % 10) + 1]
        /\ Number(n, 4)[4] = Digit[((n \div Power[4 - 4 + 1]) % 10) + 1]
    BY <2>1, NumberProperties
  <2>3. 4 - 1 + 1 = 4 /\ 4 - 2 + 1 = 3 /\ 4 - 3 + 1 = 2 /\ 4 - 4 + 1 = 1
    OBVIOUS
  <2>4. /\ s[1] = Digit[((n \div 1000) % 10) + 1] /\ s[2] = Digit[((n \div 100) % 10) + 1]
        /\ s[3] = Digit[((n \div 10) % 10) + 1] /\ s[4] = Digit[(n % 10) + 1]
    <3>1. \A i \in 1..4 : s[i] = Number(n, 4)[i]
      BY <1>1 DEF n
    <3> QED
      BY <1>4, <1>5, <2>1, <2>2, <2>3, <3>1
  <2> DEFINE a == (n \div 1000) % 10
             b == (n \div 100) % 10
             c == (n \div 10) % 10
             d == n % 10
  <2>5. a + 1 \in 1..10 /\ b + 1 \in 1..10 /\ c + 1 \in 1..10 /\ d + 1 \in 1..10
    BY <2>1
  <2>6. /\ a = ((n \div 100) \div 10) % 10 /\ b = (n \div 100) % 10
        /\ c = ((n % 100) \div 10) % 10 /\ d = (n % 100) % 10
    BY <2>1, Digits
  <2> HIDE DEF a, b, c, d
  <2>7. s[1] = Digit[a + 1] /\ s[2] = Digit[b + 1] /\ s[3] = Digit[c + 1] /\ s[4] = Digit[d + 1]
    BY <2>4 DEF a, b, c, d
  <2>8. o[1] = a + 1 /\ o[2] = b + 1 /\ o[3] = c + 1 /\ o[4] = d + 1
    BY <1>2, <2>5, <2>7
  <2>9. 1 + 1 = 2 /\ 3 + 1 = 4
    OBVIOUS
  <2> QED
    BY <2>6, <2>8, <2>9 DEF TwoDigits, n
<1>11. 4 + 1 = 5 /\ 6 + 1 = 7 /\ 9 + 1 = 10 /\ 11 + 1 = 12 /\ 13 + 1 = 14
  OBVIOUS
<1>12. TwoDigits(o, 5, t.tm_mon) /\ TwoDigits(o, 7, t.tm_mday) /\ TwoDigits(o, 10, t.tm_hour)
  BY <1>7, <1>8, <1>11
<1>13. TwoDigits(o, 12, t.tm_min) /\ TwoDigits(o, 14, t.tm_sec)
  BY <1>8, <1>9, <1>11
<1> QED
  BY <1>2, <1>10, <1>12, <1>13 DEF ShowsTime, o, s

\* What shows local times is in the order of the local times.
LEMMA ShownInOrder ==
    ASSUME NEW t \in TimeType, NEW u \in TimeType, NEW o, NEW p,
           ShowsTime(o, t), ShowsTime(p, u), o[9] = p[9], o[16] = p[16]
    PROVE  Precedes(o, p) <=> Precedes(Fields(t), Fields(u))
<1> DEFINE f == Fields(t)
           g == Fields(u)
<1>1. /\ DOMAIN o = 1..16
      /\ TwoDigits(o, 1, Year(t) \div 100) /\ TwoDigits(o, 3, Year(t) % 100)
      /\ TwoDigits(o, 5, t.tm_mon) /\ TwoDigits(o, 7, t.tm_mday)
      /\ TwoDigits(o, 10, t.tm_hour) /\ TwoDigits(o, 12, t.tm_min)
      /\ TwoDigits(o, 14, t.tm_sec)
      /\ o[9] \in 0..10 /\ o[16] \in 0..10
  BY DEF ShowsTime
<1>2. /\ TwoDigits(p, 1, Year(u) \div 100) /\ TwoDigits(p, 3, Year(u) % 100)
      /\ TwoDigits(p, 5, u.tm_mon) /\ TwoDigits(p, 7, u.tm_mday)
      /\ TwoDigits(p, 10, u.tm_hour) /\ TwoDigits(p, 12, u.tm_min)
      /\ TwoDigits(p, 14, u.tm_sec)
  BY DEF ShowsTime
<1>3. o[9] = p[9] /\ o[16] = p[16]
  OBVIOUS
<1>4. /\ Year(t) \in FourDigits /\ t.tm_mon \in 0..99 /\ t.tm_mday \in 0..99
      /\ t.tm_hour \in 0..99 /\ t.tm_min \in 0..99 /\ t.tm_sec \in 0..99
  BY YearRange, TimeFields
<1>5. /\ Year(u) \in FourDigits /\ u.tm_mon \in 0..99 /\ u.tm_mday \in 0..99
      /\ u.tm_hour \in 0..99 /\ u.tm_min \in 0..99 /\ u.tm_sec \in 0..99
  BY YearRange, TimeFields
<1>6. /\ DOMAIN f = 1..6
      /\ f[1] = t.tm_year /\ f[2] = t.tm_mon /\ f[3] = t.tm_mday
      /\ f[4] = t.tm_hour /\ f[5] = t.tm_min /\ f[6] = t.tm_sec
      /\ g[1] = u.tm_year /\ g[2] = u.tm_mon /\ g[3] = u.tm_mday
      /\ g[4] = u.tm_hour /\ g[5] = u.tm_min /\ g[6] = u.tm_sec
  BY DEF Fields
<1> HIDE DEF f, g
<1>7. Precedes(o, p) <=> LessIn(o, p, 1, 16)
  BY <1>1 DEF Precedes, LessIn
<1>8. Precedes(f, g) <=> LessIn(f, g, 1, 6)
  BY <1>6 DEF Precedes, LessIn
<1>9. /\ LessIn(o, p, 1, 4) <=> f[1] < g[1]
      /\ SameIn(o, p, 1, 4) <=> f[1] = g[1]
  BY <1>1, <1>2, <1>4, <1>5, <1>6, FourDigitsOrder, YearOrder
<1>10. /\ LessIn(o, p, 5, 6) <=> f[2] < g[2]
       /\ SameIn(o, p, 5, 6) <=> f[2] = g[2]
  <2> DEFINE a == 5
             b == 6
             m == t.tm_mon
             n == u.tm_mon
  <2>1. a \in Nat /\ b = a + 1 /\ TwoDigits(o, a, m) /\ TwoDigits(p, a, n)
    BY <1>1, <1>2
  <2>2. m \in 0..99 /\ n \in 0..99
    BY <1>4, <1>5
  <2>3. f[2] = m /\ g[2] = n
    BY <1>6
  <2> HIDE DEF a, b, m, n
  <2>4. Compares(o, p, a, b, m, n)
    BY <2>1, <2>2, TwoDigitsOrder, Zenon
  <2> QED
    BY <2>3, <2>4 DEF a, b, Compares
<1>11. /\ LessIn(o, p, 7, 8) <=> f[3] < g[3]
       /\ SameIn(o, p, 7, 8) <=> f[3] = g[3]
  <2> DEFINE a == 7
             b == 8
             m == t.tm_mday
             n == u.tm_mday
  <2>1. a \in Nat /\ b = a + 1 /\ TwoDigits(o, a, m) /\ TwoDigits(p, a, n)
    BY <1>1, <1>2
  <2>2. m \in 0..99 /\ n \in 0..99
    BY <1>4, <1>5
  <2>3. f[3] = m /\ g[3] = n
    BY <1>6
  <2> HIDE DEF a, b, m, n
  <2>4. Compares(o, p, a, b, m, n)
    BY <2>1, <2>2, TwoDigitsOrder, Zenon
  <2> QED
    BY <2>3, <2>4 DEF a, b, Compares
<1>12. /\ LessIn(o, p, 10, 11) <=> f[4] < g[4]
       /\ SameIn(o, p, 10, 11) <=> f[4] = g[4]
  <2> DEFINE a == 10
             b == 11
             m == t.tm_hour
             n == u.tm_hour
  <2>1. a \in Nat /\ b = a + 1 /\ TwoDigits(o, a, m) /\ TwoDigits(p, a, n)
    BY <1>1, <1>2
  <2>2. m \in 0..99 /\ n \in 0..99
    BY <1>4, <1>5
  <2>3. f[4] = m /\ g[4] = n
    BY <1>6
  <2> HIDE DEF a, b, m, n
  <2>4. Compares(o, p, a, b, m, n)
    BY <2>1, <2>2, TwoDigitsOrder, Zenon
  <2> QED
    BY <2>3, <2>4 DEF a, b, Compares
<1>13. /\ LessIn(o, p, 12, 13) <=> f[5] < g[5]
       /\ SameIn(o, p, 12, 13) <=> f[5] = g[5]
  <2> DEFINE a == 12
             b == 13
             m == t.tm_min
             n == u.tm_min
  <2>1. a \in Nat /\ b = a + 1 /\ TwoDigits(o, a, m) /\ TwoDigits(p, a, n)
    BY <1>1, <1>2
  <2>2. m \in 0..99 /\ n \in 0..99
    BY <1>4, <1>5
  <2>3. f[5] = m /\ g[5] = n
    BY <1>6
  <2> HIDE DEF a, b, m, n
  <2>4. Compares(o, p, a, b, m, n)
    BY <2>1, <2>2, TwoDigitsOrder, Zenon
  <2> QED
    BY <2>3, <2>4 DEF a, b, Compares
<1>14. /\ LessIn(o, p, 14, 15) <=> f[6] < g[6]
       /\ SameIn(o, p, 14, 15) <=> f[6] = g[6]
  <2> DEFINE a == 14
             b == 15
             m == t.tm_sec
             n == u.tm_sec
  <2>1. a \in Nat /\ b = a + 1 /\ TwoDigits(o, a, m) /\ TwoDigits(p, a, n)
    BY <1>1, <1>2
  <2>2. m \in 0..99 /\ n \in 0..99
    BY <1>4, <1>5
  <2>3. f[6] = m /\ g[6] = n
    BY <1>6
  <2> HIDE DEF a, b, m, n
  <2>4. Compares(o, p, a, b, m, n)
    BY <2>1, <2>2, TwoDigitsOrder, Zenon
  <2> QED
    BY <2>3, <2>4 DEF a, b, Compares
<1>15. /\ ~LessIn(o, p, 9, 9) /\ SameIn(o, p, 9, 9) /\ ~LessIn(o, p, 16, 16)
  BY <1>1, <1>3, OnePosition
<1> DEFINE L(a, c) == LessIn(o, p, a, c)
           S(a, c) == SameIn(o, p, a, c)
<1>16. /\ L(1, 16) <=> L(1, 4) \/ (S(1, 4) /\ L(4 + 1, 16))
       /\ L(5, 16) <=> L(5, 6) \/ (S(5, 6) /\ L(6 + 1, 16))
       /\ L(7, 16) <=> L(7, 8) \/ (S(7, 8) /\ L(8 + 1, 16))
       /\ L(9, 16) <=> L(9, 9) \/ (S(9, 9) /\ L(9 + 1, 16))
  BY LessInParts
<1>17. /\ L(10, 16) <=> L(10, 11) \/ (S(10, 11) /\ L(11 + 1, 16))
       /\ L(12, 16) <=> L(12, 13) \/ (S(12, 13) /\ L(13 + 1, 16))
       /\ L(14, 16) <=> L(14, 15) \/ (S(14, 15) /\ L(15 + 1, 16))
  BY LessInParts
<1>18. /\ LessIn(f, g, 1, 6) <=> LessIn(f, g, 1, 1)
                              \/ (SameIn(f, g, 1, 1) /\ LessIn(f, g, 1 + 1, 6))
       /\ LessIn(f, g, 2, 6) <=> LessIn(f, g, 2, 2)
                              \/ (SameIn(f, g, 2, 2) /\ LessIn(f, g, 2 + 1, 6))
       /\ LessIn(f, g, 3, 6) <=> LessIn(f, g, 3, 3)
                              \/ (SameIn(f, g, 3, 3) /\ LessIn(f, g, 3 + 1, 6))
  BY LessInParts
<1>19. /\ LessIn(f, g, 4, 6) <=> LessIn(f, g, 4, 4)
                              \/ (SameIn(f, g, 4, 4) /\ LessIn(f, g, 4 + 1, 6))
       /\ LessIn(f, g, 5, 6) <=> LessIn(f, g, 5, 5)
                              \/ (SameIn(f, g, 5, 5) /\ LessIn(f, g, 5 + 1, 6))
  BY LessInParts
<1>20. \A k \in {1, 2, 3, 4, 5, 6} : /\ LessIn(f, g, k, k) <=> f[k] < g[k]
                                     /\ SameIn(f, g, k, k) <=> f[k] = g[k]
  BY OnePosition
<1>21. /\ 4 + 1 = 5 /\ 6 + 1 = 7 /\ 8 + 1 = 9 /\ 9 + 1 = 10 /\ 11 + 1 = 12 /\ 13 + 1 = 14
       /\ 15 + 1 = 16 /\ 1 + 1 = 2 /\ 2 + 1 = 3 /\ 3 + 1 = 4 /\ 5 + 1 = 6
  OBVIOUS
<1> DEFINE l(k) == f[k] < g[k]
           s(k) == f[k] = g[k]
<1>22. LessIn(o, p, 1, 16) <=>
          l(1) \/ (s(1) /\ (l(2) \/ (s(2) /\ (l(3) \/ (s(3) /\
              (l(4) \/ (s(4) /\ (l(5) \/ (s(5) /\ l(6))))))))))
  BY <1>9, <1>10, <1>11, <1>12, <1>13, <1>14, <1>15, <1>16, <1>17, <1>21
<1>23. LessIn(f, g, 1, 6) <=>
          l(1) \/ (s(1) /\ (l(2) \/ (s(2) /\ (l(3) \/ (s(3) /\
              (l(4) \/ (s(4) /\ (l(5) \/ (s(5) /\ l(6))))))))))
  BY <1>18, <1>19, <1>20, <1>21
<1> QED
  BY <1>7, <1>8, <1>22, <1>23 DEF f, g

\* Local times and the ordinals of their stamps are in the same order.
LEMMA StampsInOrder ==
    ASSUME NEW t \in TimeType, NEW u \in TimeType
    PROVE  Precedes(Ordinal(Stamp(t)), Ordinal(Stamp(u))) <=> Precedes(Fields(t), Fields(u))
<1> DEFINE o == Ordinal(Stamp(t))
           p == Ordinal(Stamp(u))
<1>1. ShowsTime(o, t) /\ ShowsTime(p, u)
  BY StampDigits
<1>2. o[9] = p[9] /\ o[16] = p[16]
  <2>1. \A v \in TimeType : /\ Stamp(v) \in Seq(Byte) /\ Len(Stamp(v)) = 16
                            /\ Stamp(v)[9] = Underscore /\ Stamp(v)[16] = Underscore
    BY StampParts
  <2>2. \A i \in {9, 16} : Stamp(t)[i] = Stamp(u)[i] /\ i \in 1..16
    BY <2>1
  <2>3. \A r \in Seq(Byte) : \A i \in 1..Len(Stamp(t)), j \in 1..Len(r) :
           Stamp(t)[i] = r[j] => Ordinal(Stamp(t))[i] = Ordinal(r)[j]
    BY <2>1, OrdinalProperties
  <2> QED
    BY <2>1, <2>2, <2>3
<1> HIDE DEF o, p
<1>3. Precedes(o, p) <=> Precedes(Fields(t), Fields(u))
  BY <1>1, <1>2, ShownInOrder
<1> QED
  BY <1>3 DEF o, p

\* Files processed one after the other sort by their names in this order.
THEOREM StampsSort == Spec => []StampOrder
<1>1. ASSUME NamesInv, datetime_stamp # <<>>, earlier.stamp # <<>>
      PROVE  Precedes(Ordinal(earlier.stamp), Ordinal(datetime_stamp))
                 <=> Precedes(Fields(earlier.time), Fields(now))
  <2>1. /\ datetime_stamp = Stamp(now) /\ earlier.stamp = Stamp(earlier.time)
        /\ now \in Time /\ earlier.time \in Time
    BY <1>1 DEF NamesInv, Stamped, TypeOK
  <2>2. now \in TimeType /\ earlier.time \in TimeType
    BY <2>1, TimeAssumption
  <2> QED
    BY <2>1, <2>2, StampsInOrder
<1>2. NamesInv => StampOrder
  BY <1>1 DEF StampOrder
<1> QED
  BY <1>2, NamesInvariant, PTL
=============================================================================
