------------------------------ MODULE MCShells ------------------------------
(* Shells at work on a small store.  "b" is a block that a user wrote.     *)
EXTENDS Shells, TLC

CONSTANTS s1, s2, root, bin, i, j, k, l

Two    == {"x", "y", "bin"}
Blocks == {"b", "junk"}

(* One shell does the long commands, the other one gets in between.        *)
Worker == {<<"rm", "x">>, <<"rmr", "x">>, <<"cpr", "x", "y">>, <<"cp", "x", "y">>,
           <<"mv", "x", "y">>, <<"mv", "bin", "y">>, <<"mkdir", "x">>,
           <<"echo", "x", <<"b">>>>, <<"cd", <<"x">>>>, <<"cd", <<"..">>>>}
Helper == {<<"mkdir", "x">>}
Pair   == [s \in Shells |-> IF s = s1 THEN Worker ELSE Helper]
Fits   == {<<>>, <<"b">>}
Free   == Permutations({i, j, k, l})

Movers == {<<"mkdir", "x">>, <<"echo", "y", <<"b">>>>, <<"mv", "x", "y">>,
           <<"cd", <<"x">>>>, <<"cd", <<"..">>>>}
Alone  == [s \in Shells |-> Movers]
=============================================================================
