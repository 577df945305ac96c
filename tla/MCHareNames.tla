---------------------------- MODULE MCHareNames ----------------------------
(* An instance of HareNames for TLC: every input of up to three characters, *)
(* and longer ones at the limits of the pipe, of names and of paths.        *)
EXTENDS HareNames

MCChar == {"x", "/", ".", "nul"}
MCByte == MCChar \cup {"y", "z", "r", "t", "w", "d", "a", "b", "l", "=", " ", "_",
    "0", "1", "2", "3", "4", "5", "6", "7", "8", "9"}
Repeat(c, n) == [i \in 1..n |-> c]
MCRewritten ==
    {<<"x", "y">>, <<"/", "/", "x">>, <<"x", "nul", "y">>, <<>>,
     Repeat("/", 3) \o <<"x", "y">>}
MCContent == UNION {[1..n -> MCChar] : n \in 0..3} \cup MCRewritten
    \cup {<<"/", "x", "nul">>, <<".", "/", "x">>, <<".", ".", "/", "x">>, <<"x", "/", "y">>,
          Repeat("x", 4), Repeat("x", 5), Repeat("x", 19), Repeat("x", 20),
          <<"z", "z", "/", "x">>, Repeat("/", 3) \o <<"z", "z", "/", ".", ".", "/", "z">>,
          Repeat("/", 22) \o <<"x">>}
MCTop == {<<"a">>, <<"r">>, <<"t">>}
MCDirectory == <<<<"/", "r", "/">>, <<"/", "t", "/">>, <<".", "/">>>>
MCWatch == <<"w", "/">>
MCCwd == <<<<"a">>>>
MCDirectories ==
    {<<>>} \cup {<<d>> : d \in MCTop} \cup {<<d, <<"w">>>> : d \in MCTop}
    \cup {<<<<"r">>, <<"w">>, <<"z", "z">>>>}
MCDestination == {<<"/", "d", "/">>, <<"/", "d">>}
MCOptions ==
    {<<"a", "=", "b">>, <<"l", "=", "x">>, <<"l", "=">>, <<"l", "=", " ", "l", "=", "x">>,
     <<"a", " ", "l", "=", "x", "y", " ", "l", "=", "z">>}
MCLogPath == <<"l", "=">>
T(y, mo, d, h, mi, s) == [tm_year |-> y, tm_mon |-> mo, tm_mday |-> d,
                          tm_hour |-> h, tm_min |-> mi, tm_sec |-> s]
MCTime == {T(125, 0, 31, 23, 59, 59), T(125, 1, 1, 0, 0, 0), T(125, 9, 9, 9, 9, 60),
           T(125, 11, 10, 10, 10, 10), T(126, 0, 1, 0, 0, 0)}
=============================================================================
