---------------------------- MODULE HareStrings ----------------------------
(***************************************************************************)
(* The few functions of the C library that HARE's handling of names is     *)
(* built from.  A C string, or a block of bytes, is a sequence of          *)
(* characters; what follows the first nul character of a block is not part *)
(* of the string that begins with it.                                      *)
(***************************************************************************)
EXTENDS Integers, Sequences, FiniteSets

LOCAL INSTANCE FiniteSetsExt
LOCAL INSTANCE SequencesExt

\* What precedes the first of the characters in stops, strcspn() of them long.
Before(s, stops) ==
    SubSeq(s, 1, Cardinality({i \in 1..Len(s) : \A j \in 1..i : s[j] \notin stops}))

\* strstr(): where needle occurs first, 0 for NULL.
StrStr(haystack, needle) ==
    LET at == {i \in 1..(Len(haystack) - Len(needle) + 1) :
                  SubSeq(haystack, i, i + Len(needle) - 1) = needle} IN
    IF at = {} THEN 0 ELSE Min(at)

\* What follows the last slash, basename().
BaseName(path, slash) ==
    LET i == SelectLastInSeq(path, LAMBDA c : c = slash) IN
    SubSeq(path, i + 1, Len(path))

\* The first n bytes, or all of them when there are fewer.
Cut(s, n) == SubSeq(s, 1, IF n < Len(s) THEN n ELSE Len(s))
=============================================================================
