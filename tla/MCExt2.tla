------------------------------- MODULE MCExt2 -------------------------------
(* Instances of the file system: names by the length of their records.     *)
EXTENDS Ext2, TLC

(* "." and ".." take a unit each.  a and b are short, c is long.           *)
Lengths == [n \in {Dot, DotDot, "a", "b", "c"} |-> IF n = "c" THEN 2 ELSE 1]
Mixed   == [n \in {Dot, DotDot, "a", "c"} |-> IF n = "c" THEN 2 ELSE 1]
Sym == Permutations(Datas)
Short   == [n \in {Dot, DotDot, "a", "b"} |-> 1]
=============================================================================
