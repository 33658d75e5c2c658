------------------------------ MODULE MCPaging ------------------------------
(* The page manager on a small machine: four frames of which frame 0 is    *)
(* the kernel's, two directories and two user pages.  Allocation runs out  *)
(* of frames, and creation out of directories, within a few calls.         *)
EXTENDS Paging
=============================================================================
