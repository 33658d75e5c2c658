---------------------------- MODULE MCExt2Crash ----------------------------
(* An instance of the file system that is switched off in its writes.      *)
EXTENDS Ext2Crash, TLC

Short == [n \in Names \cup {Dot, DotDot} |-> 1]
Sym   == Permutations(Names)
=============================================================================
