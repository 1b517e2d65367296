--------------------------- MODULE KernelRefines ---------------------------
(* The kernel with what its paging implements: each fork, exit, store and  *)
(* task switch of Kernel seen through the private memories of              *)
(* MemoryRefines.                                                          *)
EXTENDS Kernel, MemoryRefines
=============================================================================
