---------------------------- MODULE MCHareSearch ----------------------------
(* An instance of HareSearch for TLC: names of up to two letters, one of    *)
(* them a directory's, and test inputs with and without leading slashes.    *)
EXTENDS HareSearch

MCChar == {"a", "b", "/"}
MCFileName == {<<"a">>, <<"b">>, <<"a", "b">>, <<"b", "a">>}
MCSubdir == {<<"b", "a">>}
MCInput == {<<"b">>, <<"/", "a">>, <<"a", "b">>, <<"/">>}
=============================================================================
