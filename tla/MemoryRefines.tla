--------------------------- MODULE MemoryRefines ---------------------------
(* Paging implements private memories.                                     *)
EXTENDS Memory

(* The memory of a process is what its page table leads to.                *)
Images == [t \in Task |-> [p \in IF t \in live THEN Data ELSE {} |->
                             content[pagusr_table[t][p]]]]

Abstract == INSTANCE AddressSpaces WITH
  Slot <- Task, running <- cr3, image <- Images

(* User code sees private memories: fork yields an exact copy whatever the *)
(* TLB did, and a store, a fork, an exit or a recycled frame never changes *)
(* the memory of another process.                                          *)
PrivateMemories == Abstract!SSpec
=============================================================================
