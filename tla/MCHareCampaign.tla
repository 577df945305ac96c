--------------------------- MODULE MCHareCampaign ---------------------------
(* An instance of HareCampaign for TLC: names without, with and after a     *)
(* blank, and a pattern, with a file "b" in the working directory; source05,*)
(* which does not look at its argument and makes one input, ASAN, which is  *)
(* refused, and Memwatch with two inputs.                                   *)
EXTENDS HareCampaign

MCName == {"a", "b", "a b", " b", "?"}
MCWord == [n \in Name |-> CASE n = "a b" -> "a" [] n = " b" -> NULL [] OTHER -> n]
MCMatched == [n \in Name |-> IF n = "?" THEN {"a", "b", "?"} ELSE {}]
MCSaved ==
    [n \in Name |-> CASE n = "a b" -> "a" [] n \in {" b", "?"} -> "b" [] OTHER -> n]
MCPresent == {"b"}
MCScript == <<"source05", "ASAN", "Memwatch">>
MCNumInputs == <<0, 0, 2>>
=============================================================================
