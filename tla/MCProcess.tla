----------------------------- MODULE MCProcess ------------------------------
(* The requests of the instances: kernel_setup starts the shell, or finds  *)
(* it missing; programs execute a program that exists or not, at address 0 *)
(* (what exec.c asks for), on the stack's page, in the kernel's half, and  *)
(* with sizes beyond the limit and beyond 32 bits.                         *)
EXTENDS Process

Request(page, size, exists) == [page |-> page, size |-> size, exists |-> exists]

Shell     == {Request(LowPage, 1, TRUE)}
ShellOrNot == Shell \cup {Request(LowPage, 1, FALSE)}
Programs  == {Request(LowPage, 1, e) : e \in BOOLEAN}
Anything  == Programs \cup
             {Request(StackPage, 1, TRUE), Request("kernel", 1, TRUE),
              Request(LowPage, FrameMax, TRUE), Request(LowPage, SizeSpan - 1, TRUE),
              Request(LowPage, SizeSpan - 1, FALSE)}
=============================================================================
