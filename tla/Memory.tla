------------------------------- MODULE Memory -------------------------------
(***************************************************************************)
(* Physical frames, page tables and the TLB: mm.c, and what fork, exit and *)
(* a task switch do to them.  sys_fork copies the parent's data pages one  *)
(* by one through a temporary page mapped in the parent's own page table;  *)
(* one iteration of that loop is one action here, and nothing else runs    *)
(* between two iterations (interrupts are disabled).  Which slot is filled *)
(* and which task runs next is the scheduler's choice, an input here;      *)
(* module Kernel composes the two.                                         *)
(*                                                                         *)
(* Pages are numbered data first, code after them (as in mm_address.h) and *)
(* the temporary page last; entry 0 is "not present", frame 0 being the    *)
(* kernel's.  A page holds one value.                                      *)
(***************************************************************************)
EXTENDS Tasks

CONSTANTS
  NUM_PAG_KERNEL,   \* frames of the kernel
  TOTAL_PAGES,      \* frames of the machine
  NUM_PAG_DATA, NUM_PAG_CODE,   \* pages of a process
  Value             \* what a page may hold, 0 included

ASSUME MemoryAssumption ==
  /\ NUM_PAG_KERNEL \in Nat /\ NUM_PAG_KERNEL >= 1
  /\ NUM_PAG_DATA \in Nat /\ NUM_PAG_DATA >= 1
  /\ NUM_PAG_CODE \in Nat /\ NUM_PAG_CODE >= 1
  /\ TOTAL_PAGES \in Nat
  /\ NUM_PAG_KERNEL + 2 * (NUM_PAG_CODE + NUM_PAG_DATA - 1) < TOTAL_PAGES
  /\ 0 \in Value

Frame == 0 .. TOTAL_PAGES - 1
Data == 0 .. NUM_PAG_DATA - 1
Code == NUM_PAG_DATA .. NUM_PAG_DATA + NUM_PAG_CODE - 1
temp_pag == NUM_PAG_DATA + NUM_PAG_CODE
Page == 0 .. temp_pag

VARIABLES
  phys_mem,       \* frames marked USED_FRAME
  pagusr_table,   \* page table of each slot
  content,        \* what each frame holds
  cr3,            \* slot whose page directory is loaded
  tlb,            \* cached translations, pairs of page and frame
  live,           \* slots with an address space
  child, pag      \* fork in progress: slot being filled and next data page

memVars == <<phys_mem, pagusr_table, content, cr3, tlb, live, child, pag>>

forking == child # NULL

(* Frames handed out at boot by set_user_pages: code first, then data.     *)
boot_frame(p) == IF p \in Code THEN NUM_PAG_KERNEL + 2 * (p - NUM_PAG_DATA)
                               ELSE NUM_PAG_KERNEL + 2 * (NUM_PAG_CODE + p)

(* The frames init_frames marks used: the kernel's.                        *)
init_frames == 0 .. NUM_PAG_KERNEL - 1

MInit ==
  /\ phys_mem = init_frames \cup {boot_frame(p) : p \in Data \cup Code}
  /\ pagusr_table = [t \in Task |-> [p \in Page |->
       IF t = 1 /\ p # temp_pag THEN boot_frame(p) ELSE 0]]
  /\ content = [f \in Frame |-> 0]
  /\ cr3 = 1 /\ tlb = {}
  /\ live = {1}
  /\ child = NULL /\ pag = 0

-----------------------------------------------------------------------------
(* Frames.                                                                 *)

Bug_scan_past_end == {f \in 0 .. TOTAL_PAGES : /\ f >= NUM_PAG_KERNEL
                                              /\ (f - NUM_PAG_KERNEL) % 2 = 0
                                              /\ f \notin phys_mem}

(* The frames alloc_frame looks at: every second one above the kernel's.   *)
free_frames == {f \in Frame : /\ f >= NUM_PAG_KERNEL
                              /\ (f - NUM_PAG_KERNEL) % 2 = 0
                              /\ f \notin phys_mem}

Bug_alloc_not_marked(f) == f \in free_frames /\ phys_mem' = phys_mem

(* alloc_frame returns f: the first free one.                              *)
alloc_frame(f) ==
  /\ f \in free_frames
  /\ \A g \in free_frames : f <= g
  /\ phys_mem' = phys_mem \cup {f}

Bug_free_none(frames) == phys_mem

(* phys_mem after free_frame on each of these: the guard in the code is    *)
(* strict, so the first user frame would not be freed.                     *)
free_frame(frames) ==
  phys_mem \ {f \in frames : f > NUM_PAG_KERNEL /\ f < TOTAL_PAGES}

-----------------------------------------------------------------------------
(* Address translation.  A cached translation may be used, or may have     *)
(* been evicted; writing cr3 drops them all.                               *)

Translations(PT, p) == {PT[p]} \cup {f \in Frame : <<p, f>> \in tlb}

set_cr3(t) == cr3' = t /\ tlb' = {}

(* User code of the running process stores v in a data page.               *)
user_write(p, v) ==
  /\ ~ forking /\ cr3 # idle_task
  /\ \E f \in Translations(pagusr_table[cr3], p) :
       /\ content' = [content EXCEPT ![f] = v]
       /\ tlb' = tlb \cup {<<p, f>>}
  /\ UNCHANGED <<phys_mem, pagusr_table, cr3, live, child, pag>>

-----------------------------------------------------------------------------
(* sys_fork's work on memory.                                              *)

(* The child gets the page directory of its slot and shares the code.      *)
fork_start(new) ==
  /\ ~ forking /\ cr3 # idle_task
  /\ new \notin live \cup {idle_task}
  /\ child' = new /\ pag' = 0
  /\ pagusr_table' = [pagusr_table EXCEPT ![new] =
       [p \in Page |-> IF p \in Code THEN pagusr_table[cr3][p] ELSE @[p]]]
  /\ UNCHANGED <<phys_mem, content, cr3, tlb, live>>

Bug_copy_no_flush(f) ==
  \E src \in Translations(pagusr_table[cr3], pag),
     dst \in {f} \cup {g \in Frame : <<temp_pag, g>> \in tlb} :
       /\ content' = [content EXCEPT ![dst] = content[src]]
       /\ tlb' = tlb \cup {<<pag, src>>, <<temp_pag, dst>>}
       /\ cr3' = cr3

(* set_ss_pag maps the temporary page to f, copy_data reads the parent's   *)
(* page and writes the temporary one, del_ss_pag unmaps it, and set_cr3    *)
(* flushes the TLB.                                                        *)
copy_page(f) ==
  /\ \E src \in Translations(pagusr_table[cr3], pag),
        dst \in {f} \cup {g \in Frame : <<temp_pag, g>> \in tlb} :
          content' = [content EXCEPT ![dst] = content[src]]
  /\ set_cr3(cr3)

(* One data page: a frame for the child, filled from the parent's page.    *)
fork_page ==
  /\ forking /\ pag < NUM_PAG_DATA
  /\ \E f \in free_frames :
       /\ alloc_frame(f)
       /\ pagusr_table' = [pagusr_table EXCEPT ![child][pag] = f,
                                               ![cr3][temp_pag] = 0]
       /\ copy_page(f)
  /\ pag' = pag + 1
  /\ UNCHANGED <<live, child>>

(* alloc_frame returned -1: the frames taken so far are given back.        *)
fork_fail ==
  /\ forking /\ pag < NUM_PAG_DATA /\ free_frames = {}
  /\ phys_mem' = free_frame({pagusr_table[child][p] : p \in 0 .. pag - 1})
  /\ pagusr_table' = [pagusr_table EXCEPT ![child] =
       [p \in Page |-> IF p \in 0 .. pag - 1 THEN 0 ELSE @[p]]]
  /\ child' = NULL /\ pag' = 0
  /\ UNCHANGED <<content, cr3, tlb, live>>

fork_end ==
  /\ forking /\ pag = NUM_PAG_DATA
  /\ live' = live \cup {child}
  /\ set_cr3(cr3)
  /\ child' = NULL /\ pag' = 0
  /\ UNCHANGED <<phys_mem, pagusr_table, content>>

-----------------------------------------------------------------------------
(* exit and task switch.                                                   *)

(* inner_task_switch loads the page directory of the next task.            *)
task_switch(next) ==
  /\ ~ forking /\ cr3 # idle_task
  /\ next \in (live \ {cr3}) \cup {idle_task}
  /\ set_cr3(next)
  /\ UNCHANGED <<phys_mem, pagusr_table, content, live, child, pag>>

(* free_user_pages gives back the data pages (the code is shared), then    *)
(* the next task is switched to.                                           *)
exit(next) ==
  /\ ~ forking /\ cr3 # idle_task
  /\ next \in (live \ {cr3}) \cup {idle_task}
  /\ phys_mem' = free_frame({pagusr_table[cr3][p] : p \in Data})
  /\ pagusr_table' = [pagusr_table EXCEPT ![cr3] =
       [p \in Page |-> IF p \in Data THEN 0 ELSE @[p]]]
  /\ live' = live \ {cr3}
  /\ set_cr3(next)
  /\ UNCHANGED <<content, child, pag>>

MNext ==
  \/ \E p \in Data, v \in Value : user_write(p, v)
  \/ \E new \in Task : fork_start(new)
  \/ fork_page \/ fork_fail \/ fork_end
  \/ \E next \in Task : task_switch(next) \/ exit(next)

MSpec == MInit /\ [][MNext]_memVars

-----------------------------------------------------------------------------
(* Properties.                                                             *)

(* The data frames a slot holds: all of them, or the first ones of a child *)
(* under construction.                                                     *)
DataFrames(t) == {pagusr_table[t][p] : p \in Data} \ {0}

CodeFrames == {boot_frame(p) : p \in Code}

(* The type invariant.                                                     *)
MTypeOK ==
  /\ phys_mem \subseteq Frame
  /\ pagusr_table \in [Task -> [Page -> Frame]]
  /\ content \in [Frame -> Value]
  /\ cr3 \in Task /\ tlb \subseteq Page \X Frame
  /\ live \subseteq Task \ {idle_task}
  /\ child \in (Task \ {idle_task}) \cup {NULL} /\ pag \in 0 .. NUM_PAG_DATA

(* Frames are neither leaked nor freed while mapped: the used frames are   *)
(* exactly the kernel's, the shared code and the data pages in page tables *)
(* (of live processes and of the child a running fork fills), after failed *)
(* forks and exits too, in spite of free_frame's strict lower bound.       *)
FramesAccounted ==
  phys_mem = init_frames \cup CodeFrames \cup UNION {DataFrames(t) : t \in Task}

(* No frame is the data page of two slots, nor of a slot twice, and none   *)
(* is a kernel or code frame; every page of a live process is mapped.      *)
PrivatePages ==
  /\ \A s, t \in Task : \A p, q \in Data :
       pagusr_table[s][p] # 0 /\ pagusr_table[s][p] = pagusr_table[t][q]
         => s = t /\ p = q
  /\ \A t \in Task : DataFrames(t) \cap (init_frames \cup CodeFrames) = {}
  /\ \A t \in live : \A p \in Data : pagusr_table[t][p] # 0

(* The TLB never holds a translation the page table does not: the code     *)
(* never runs on a stale entry of the temporary page or of another task.   *)
NoStaleTLB == \A e \in tlb : pagusr_table[cr3][e[1]] = e[2]
=============================================================================
