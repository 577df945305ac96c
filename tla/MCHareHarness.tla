--------------------------- MODULE MCHareHarness ---------------------------
(***************************************************************************)
(* Instances of HareHarness for TLC.                                       *)
(*                                                                         *)
(* The inputs are named for what they look like:                           *)
(*   "x"     a plain name                                                  *)
(*   "yx"    a name that ends with the other one                           *)
(*   "z"     a name unrelated to both                                      *)
(*   "/x"    trimmed by _file_match(), and opened as the file x            *)
(*   "./x"   opened as the file x, but no base name ends with it           *)
(*   "//..z" slashes beyond PIPE_BUFF_SIZE: the daemon is told a directory *)
(*   ""      an empty input: no file is opened for it                      *)
(***************************************************************************)
EXTENDS HareHarness, TLC

LeafOf ==
    "x" :> "x" @@ "yx" :> "yx" @@ "z" :> "z" @@ "/x" :> "x" @@ "./x" :> "x"
    @@ "//..z" :> "z" @@ "" :> NoEntry

MCLeaf == [i \in Input |-> LeafOf[i]]

MCTold == [i \in Input |-> IF i = "//..z" THEN NoEntry ELSE LeafOf[i]]

MCEnds ==
    {<<"x", "x">>, <<"x", "yx">>, <<"yx", "yx">>, <<"z", "z">>, <<"/x", "x">>,
     <<"/x", "yx">>, <<"//..z", "z">>} \cap (Input \X Entry)

HarnessSymmetry == Permutations(Harness)
=============================================================================
