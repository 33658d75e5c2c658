----------------------------- MODULE MCTerminal -----------------------------
(* The prompt of the instances: one string of two characters, which wraps  *)
(* a line of two columns.                                                  *)
EXTENDS Terminal, TLC

OneString == <<2>>
Sym       == Permutations(Shells)
=============================================================================
