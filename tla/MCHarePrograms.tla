--------------------------- MODULE MCHarePrograms ---------------------------
(* An instance of HarePrograms for TLC: any program next to a source07      *)
(* harness, on two names and a directory.                                   *)
EXTENDS HarePrograms

CONSTANTS p1, p2, f1, f2, f3

MCRuns == [p \in Proc |-> IF p = p1 THEN Program ELSE Harness]
\* Only the best, for the violations.
MCReaders == [p \in Proc |-> IF p = p1 THEN {"source05_best", "source07_best"}
                             ELSE {"harness07_best"}]
MCName == {<<"f">>, <<"g">>}
MCSubdir == {<<"d">>}
MCBinary == <<"b", "b">>
MCArgv0 == {<<"/", "b", "b">>, <<"b", "b", "/", "b", "b">>, <<"b">>}
MCOption == {<<"-", "h">>}
MCArg == {<<"f">>, <<"d">>, <<>>, <<"-", "h", "f">>}
MCTestName == {<<"f">>, <<"g">>, <<>>}
MCPassword == <<"w">>
MCLine == {<<"w">>, <<"w", "n">>, <<"w", "c">>, <<"w", "0", "c">>, <<"c", "n", "w">>,
           <<"w", "n", "w">>}
MCByte == {"c", "w", "n", "0", "FF"}
MCAbsent == [n \in MCName |-> NULL]
MCPresent == {MCAbsent, [MCAbsent EXCEPT ![<<"f">>] = f1]}
MCContent == {<<>>, <<"c", "c", "c">>, <<"c", "0">>}
MCOutput == {<<"c">>, <<"c", "c", "c">>, <<"c", "c", "FF", "c">>}
=============================================================================
