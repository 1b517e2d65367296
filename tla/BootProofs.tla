----------------------------- MODULE BootProofs -----------------------------
(***************************************************************************)
(* Proofs about Boot for every size of the image and every number of       *)
(* tasks, pages and frames: what each stage of main has left for the next  *)
(* one, up to the initial state of Kernel.                                 *)
(***************************************************************************)
EXTENDS Boot, DeviceProofs

(* The first n frames of the user, in the order of set_user_pages.         *)
handed_out(n) == {p \in Data \cup Code : boot_frame(p) < NUM_PAG_KERNEL + 2 * n}

table(n) == [t \in Task |-> [p \in Page |->
  IF t = init_task /\ p \in handed_out(n) THEN boot_frame(p) ELSE 0]]

frames(n) == init_frames \cup {boot_frame(p) : p \in handed_out(n)}

all_pages == NUM_PAG_CODE + NUM_PAG_DATA

(* The process manager, as far as main has come.                           *)
Processes ==
  /\ current = IF stage = "usr_main" THEN init_task ELSE boot_slot
  /\ readyq = <<>> /\ blocked = {} /\ last_pid = 1
  /\ freeq = IF stage \in HasQueues THEN [i \in 1 .. NR_TASKS - 2 |-> i + 1] ELSE <<>>
  /\ stage \in HasTask1 => quantum_ticks \in {QUANTUM, 0}
  /\ PID = [t \in Task |-> IF t = init_task /\ stage \in HasTask1 THEN 1 ELSE 0]
  /\ quantum = [t \in Task |->
       IF t = idle_task /\ stage \in HasIdle THEN 1
       ELSE IF t = init_task /\ stage \in HasTask1 THEN QUANTUM ELSE 0]
  /\ parent = [t \in Task |-> NULL] /\ childs = [t \in Task |-> {}]
  /\ pending_unblocks = [t \in Task |-> 0]

(* The memory manager, as far as main has come.                            *)
Spaces ==
  /\ content = [f \in Frame |-> 0] /\ tlb = {} /\ child = NULL /\ halted = FALSE
  /\ stage = "set_user_pages" => pag \in 0 .. all_pages /\ live = {}
  /\ stage # "set_user_pages" => pag = 0
  /\ stage \notin HasTask1 => pagusr_table = table(0) /\ live = {}
  /\ stage \in HasPaging \ HasTask1 => phys_mem = frames(0)
  /\ stage = "set_user_pages" => pagusr_table = table(pag) /\ phys_mem = frames(pag)
  /\ stage \in InUserSpace => /\ pagusr_table = table(all_pages)
                              /\ phys_mem = frames(all_pages)
                              /\ cr3 = init_task /\ live = {init_task}

(* What the handlers rely on is set up before interrupts are enabled.      *)
SetUp ==
  /\ stage \in InMain \ {"main"} => {"gdt", "idt", "tss"} \subseteq set_up
  /\ stage \in HasPaging => "paging" \in set_up
  /\ stage \in HasQueues => "queues" \in set_up

(* A damaged kernel does not get further than its first instruction.       *)
Intact ==
  /\ stage \in InMain \ {"main"} => kernel_loaded
  /\ stage \in {"enable_int", "return_gate", "usr_main"} =>
       user_fits /\ (~ failed => user = unit("user", 0, usr_size))

(* main stops only over files that are too long or an image that the BIOS  *)
(* failed to read.                                                         *)
Stopped ==
  /\ stage = "crashed" => failed \/ ~ loadable
  /\ stage = "segmentation_fault" => ~ user_fits

BTInv == /\ ImageInv /\ SetUp /\ Intact /\ Stopped
         /\ stage \notin {"crashed", "segmentation_fault"} => Processes /\ Spaces

-----------------------------------------------------------------------------
(* What the loader has left.                                               *)

(* So main finds the whole kernel where it runs ...                        *)
LEMMA KernelLoaded ==
  ASSUME ImageInv, loadable, stage \in InMain, ~ failed
  PROVE  kernel_loaded
<1>1. sys_size \in Nat /\ sys_size >= 1 /\ usr_size \in Nat
      /\ SECTOR \in Nat /\ total = sys_size + usr_size
  BY ImageAssumption DEF ImageInv, Sizes, total
<1>2. loaded(0) = header
  <2>1. 0 \in Nat /\ 0 < total
    BY <1>1
  <2> QED  BY <2>1, LoadedUnit
<1>3. ASSUME NEW i \in 1 .. sys_size - 1
      PROVE  loaded(i) = <<"system", i + 1>>
  <2>1. i \in Nat /\ i < total /\ i # 0
    BY <1>1
  <2>2. loaded(i) = unit_at(SECTOR + i + 1)
    BY <2>1, LoadedUnit
  <2>3. unit_at(SECTOR + i + 1) = <<"system", i + 1>>
    <3> DEFINE j == SECTOR + i + 1
    <3>1. ~ (j <= SECTOR) /\ j <= SECTOR + sys_size /\ j - SECTOR = i + 1
      BY <1>1
    <3> HIDE DEF j
    <3>2. unit_at(j) = <<"system", i + 1>>
      BY <3>1 DEF unit_at
    <3> QED  BY <3>2 DEF j
  <2> QED  BY <2>2, <2>3
<1> QED  BY <1>2, <1>3 DEF kernel_loaded

(* ... and the whole user program behind it.                               *)
LEMMA UserLoaded ==
  ASSUME ImageInv, loadable, stage \in InMain, ~ failed
  PROVE  [i \in 1 .. loaded(0)[3] |-> loaded(loaded(0)[2] + i - 1)]
           = unit("user", 0, usr_size)
<1>1. sys_size \in Nat /\ sys_size >= 1 /\ usr_size \in Nat
      /\ SECTOR \in Nat /\ total = sys_size + usr_size
  BY ImageAssumption DEF ImageInv, Sizes, total
<1>2. loaded(0)[2] = sys_size /\ loaded(0)[3] = usr_size
  BY KernelLoaded DEF kernel_loaded, header
<1>3. ASSUME NEW i \in 1 .. usr_size
      PROVE  loaded(sys_size + i - 1) = <<"user", 0 + i>>
  <2>1. sys_size + i - 1 \in Nat /\ sys_size + i - 1 < total /\ sys_size + i - 1 # 0
    BY <1>1
  <2> DEFINE j == SECTOR + (sys_size + i - 1) + 1
  <2>2. loaded(sys_size + i - 1) = unit_at(j)
    BY <2>1, LoadedUnit
  <2>3. ~ (j <= SECTOR) /\ ~ (j <= SECTOR + sys_size) /\ j - SECTOR - sys_size = 0 + i
    BY <1>1
  <2> HIDE DEF j
  <2>4. unit_at(j) = <<"user", 0 + i>>
    BY <2>3 DEF unit_at
  <2> QED  BY <2>2, <2>4
<1> QED  BY <1>2, <1>3 DEF unit

-----------------------------------------------------------------------------
(* The frames of the first process.                                        *)

(* The n-th page mapped gets the n-th frame, and there are no other pages. *)
LEMMA NthPage ==
  /\ all_pages \in Nat /\ all_pages >= 1
  /\ \A n \in 0 .. all_pages - 1 :
       /\ nth_page(n) \in Data \cup Code
       /\ boot_frame(nth_page(n)) = NUM_PAG_KERNEL + 2 * n
  /\ \A p \in Data \cup Code : \E n \in 0 .. all_pages - 1 : p = nth_page(n)
<1> USE MemoryAssumption
<1>1. all_pages \in Nat /\ all_pages >= 1
  BY DEF all_pages
<1>2. ASSUME NEW n \in 0 .. all_pages - 1
      PROVE  /\ nth_page(n) \in Data \cup Code
             /\ boot_frame(nth_page(n)) = NUM_PAG_KERNEL + 2 * n
  BY DEF all_pages, nth_page, boot_frame, Data, Code
<1>3. ASSUME NEW p \in Data \cup Code
      PROVE  \E n \in 0 .. all_pages - 1 : p = nth_page(n)
  <2>1. CASE p \in Code
    <3>1. p - NUM_PAG_DATA \in 0 .. all_pages - 1 /\ p = nth_page(p - NUM_PAG_DATA)
      BY <2>1 DEF all_pages, nth_page, Code
    <3> QED  BY <3>1
  <2>2. CASE p \in Data
    <3>1. p + NUM_PAG_CODE \in 0 .. all_pages - 1 /\ p = nth_page(p + NUM_PAG_CODE)
      BY <2>2 DEF all_pages, nth_page, Data
    <3> QED  BY <3>1
  <2> QED  BY <2>1, <2>2
<1> QED  BY <1>1, <1>2, <1>3

(* What has been handed out before the first page, after one more and at   *)
(* the end.                                                                *)
LEMMA HandedOut ==
  /\ handed_out(0) = {} /\ handed_out(all_pages) = Data \cup Code
  /\ \A n \in 0 .. all_pages - 1 :
       handed_out(n + 1) = handed_out(n) \cup {nth_page(n)}
<1>1. NUM_PAG_KERNEL \in Nat /\ all_pages \in Nat
  BY MemoryAssumption, NthPage
<1>2. \A p \in Data \cup Code : \E m \in 0 .. all_pages - 1 :
        p = nth_page(m) /\ boot_frame(p) = NUM_PAG_KERNEL + 2 * m
  BY NthPage
<1>3. handed_out(0) = {} /\ handed_out(all_pages) = Data \cup Code
  BY <1>1, <1>2 DEF handed_out
<1>4. ASSUME NEW n \in 0 .. all_pages - 1, NEW p
      PROVE  p \in handed_out(n + 1) <=> p \in handed_out(n) \cup {nth_page(n)}
  <2>1. CASE p \in Data \cup Code
    <3>1. PICK m \in 0 .. all_pages - 1 :
            p = nth_page(m) /\ boot_frame(p) = NUM_PAG_KERNEL + 2 * m
      BY <2>1, <1>2
    <3>2. p = nth_page(n) <=> m = n
      BY <3>1, <1>1, NthPage
    <3> QED  BY <3>1, <3>2, <2>1, <1>1 DEF handed_out
  <2>2. CASE p \notin Data \cup Code
    BY <2>2, NthPage DEF handed_out
  <2> QED  BY <2>1, <2>2
<1>5. ASSUME NEW n \in 0 .. all_pages - 1
      PROVE  handed_out(n + 1) = handed_out(n) \cup {nth_page(n)}
  BY <1>4, <1>5
<1> QED  BY <1>3, <1>5

(* alloc_frame, which scans from the kernel's end in steps of two, answers *)
(* with the next frame of the first process.                               *)
LEMMA NextFrame ==
  ASSUME NEW n \in 0 .. all_pages - 1, phys_mem = frames(n),
         NEW f, alloc_frame(f)
  PROVE  f = boot_frame(nth_page(n)) /\ phys_mem' = frames(n + 1)
<1> DEFINE K == NUM_PAG_KERNEL
           next == K + 2 * n
<1>1. /\ K \in Nat /\ K >= 1 /\ all_pages \in Nat /\ TOTAL_PAGES \in Nat
      /\ K + 2 * (all_pages - 1) < TOTAL_PAGES
      /\ boot_frame(nth_page(n)) = next /\ next \in Frame /\ next >= K
  BY MemoryAssumption, NthPage DEF all_pages, Frame
<1>2. (next - K) % 2 = 0
  BY <1>1
<1> HIDE DEF next
<1>3. next \notin phys_mem
  <2>1. next \notin init_frames
    BY <1>1 DEF init_frames
  <2>2. \A p \in handed_out(n) : boot_frame(p) # next
    <3> TAKE p \in handed_out(n)
    <3>1. boot_frame(p) < next
      BY DEF handed_out, next
    <3> QED  BY <3>1, <1>1 DEF Frame
  <2> QED  BY <2>1, <2>2 DEF frames
<1>4. next \in free_frames
  BY <1>1, <1>2, <1>3 DEF free_frames
<1>5. ASSUME NEW g \in free_frames
      PROVE  next <= g
  <2>1. g \in Frame /\ g >= K /\ (g - K) % 2 = 0 /\ g \notin phys_mem
    BY DEF free_frames
  <2>2. PICK m \in Nat : g = K + 2 * m
    <3>1. g - K \in Nat
      BY <2>1, <1>1 DEF Frame
    <3>2. \A x \in Nat : x % 2 = 0 => x \div 2 \in Nat /\ x = 2 * (x \div 2)
      BY SMT
    <3>3. (g - K) \div 2 \in Nat /\ g - K = 2 * ((g - K) \div 2)
      BY <3>1, <3>2, <2>1
    <3> QED  BY <3>1, <3>3, <2>1, <1>1 DEF Frame
  <2> SUFFICES ASSUME m < n
               PROVE  g \in phys_mem
    BY <2>1, <2>2, <1>1 DEF next
  <2>3. m \in 0 .. all_pages - 1
    BY <2>2, <1>1, SMTT(30)
  <2>4. nth_page(m) \in handed_out(n) /\ boot_frame(nth_page(m)) = g
    BY <2>2, <2>3, <1>1, NthPage DEF handed_out
  <2> QED  BY <2>4 DEF frames
<1>6. f = next
  <2>1. f \in Frame /\ f <= next /\ next <= f
    BY <1>4, <1>5 DEF alloc_frame, free_frames
  <2> QED  BY <2>1, <1>1 DEF Frame
<1>7. phys_mem' = frames(n) \cup {next}
  BY <1>6, SMTT(30) DEF alloc_frame
<1>8. frames(n + 1) = frames(n) \cup {next}
  BY <1>1, HandedOut DEF frames
<1> QED  BY <1>1, <1>6, <1>7, <1>8, SMTT(30)

-----------------------------------------------------------------------------
(* The steps of main.                                                      *)

(* What goto(from, to) leaves alone.                                       *)
LEMMA Goto ==
  ASSUME BTInv, NEW from \in InMain, NEW to \in InMain \cup {"crashed", "segmentation_fault"},
         goto(from, to)
  PROVE  /\ stage = from /\ stage' = to /\ ImageInv'
         /\ kernel_loaded' <=> kernel_loaded
         /\ failed' = failed /\ usr_size' = usr_size /\ sys_size' = sys_size
<1>1. /\ stage = from /\ stage' = to
      /\ UNCHANGED <<loaderVars, sys_size, usr_size, left, zeos_bin, a20>>
  BY DEF goto
<1>2. ImageInv'
  BY <1>1, ImageKept, SMTT(30) DEF BTInv
<1>3. (kernel_loaded' <=> kernel_loaded) /\ failed' = failed
  BY <1>1 DEF kernel_loaded, loaded, header, loaderVars
<1> QED  BY <1>1, <1>2, <1>3

(* A step of main between the stages before user mode, after which all but *)
(* what it sets up is as it was.                                           *)
LEMMA SetTables == BTInv /\ set_tables => BTInv'
<1> SUFFICES ASSUME BTInv, set_tables
             PROVE  BTInv'
  OBVIOUS
<1> USE DEF InMain, HasPaging, HasQueues, HasIdle, HasTask1, InUserSpace
<1> DEFINE to == IF kernel_loaded THEN "init_mm" ELSE "crashed"
<1>1. goto("main", to) /\ set_up' = {"gdt", "idt", "tss"}
      /\ UNCHANGED kernelVars
  BY DEF set_tables
<1>2. /\ stage = "main" /\ stage' = to /\ ImageInv'
      /\ (kernel_loaded' <=> kernel_loaded) /\ failed' = failed
      /\ (loadable' <=> loadable)
  <2>1. "main" \in InMain /\ to \in InMain \cup {"crashed", "segmentation_fault"}
    OBVIOUS
  <2> HIDE DEF to
  <2>2. /\ stage = "main" /\ stage' = to /\ ImageInv'
        /\ (kernel_loaded' <=> kernel_loaded) /\ failed' = failed
        /\ usr_size' = usr_size /\ sys_size' = sys_size
    BY <2>1, <1>1, Goto
  <2> QED  BY <2>2 DEF loadable, im_size
<1>3. Stopped' /\ Intact'
  <2>1. ~ failed /\ loadable => kernel_loaded
    BY <1>2, KernelLoaded DEF BTInv
  <2> QED  BY <2>1, <1>2 DEF Stopped, Intact
<1>4. SetUp'
  BY <1>1, <1>2 DEF SetUp
<1>5. ASSUME stage' \notin {"crashed", "segmentation_fault"}
      PROVE  Processes' /\ Spaces'
  <2>1. stage' = "init_mm" /\ Processes /\ Spaces
    BY <1>2, <1>5, SMTT(30) DEF BTInv
  <2>2. Processes'
    BY <2>1, <1>1, <1>2, SMTT(30) DEF Processes, kernelVars, vars
  <2>3. Spaces'
    BY <2>1, <1>1, <1>2 DEF Spaces, kernelVars, memVars, table, handed_out
  <2> QED  BY <2>2, <2>3
<1> QED  BY <1>2, <1>3, <1>4, <1>5 DEF BTInv

(* init_mm marks the kernel frames and leaves the rest free.               *)
LEMMA InitMM == BTInv /\ init_mm => BTInv'
<1> SUFFICES ASSUME BTInv, init_mm
             PROVE  BTInv'
  OBVIOUS
<1> USE DEF InMain, HasPaging, HasQueues, HasIdle, HasTask1, InUserSpace
<1>1. /\ goto("init_mm", "init_sched") /\ UNCHANGED vars
      /\ pagusr_table' = [t \in Task |-> [p \in Page |-> 0]]
      /\ phys_mem' = init_frames /\ tlb' = {}
      /\ set_up' = set_up \cup {"paging"}
      /\ UNCHANGED <<content, live, child, pag, halted, user>>
  BY DEF init_mm, set_cr3
<1>2. /\ stage = "init_mm" /\ stage' = "init_sched" /\ ImageInv'
      /\ (kernel_loaded' <=> kernel_loaded) /\ failed' = failed
  BY <1>1, Goto
<1>3. Processes /\ Spaces
  BY <1>2, SMTT(30) DEF BTInv
<1>4. Processes'
  BY <1>1, <1>2, <1>3, SMTT(30) DEF Processes, vars
<1>5. Spaces'
  <2>1. pagusr_table' = table(0) /\ phys_mem' = frames(0)
    BY <1>1, HandedOut, ZenonT(30) DEF table, frames
  <2> QED  BY <2>1, <1>1, <1>2, <1>3 DEF Spaces
<1>6. SetUp' /\ Intact' /\ Stopped'
  BY <1>1, <1>2 DEF BTInv, SetUp, Intact, Stopped
<1> QED  BY <1>2, <1>4, <1>5, <1>6 DEF BTInv

(* init_sched fills freequeue with the slots left for processes.           *)
LEMMA InitSched == BTInv /\ init_sched => BTInv'
<1> SUFFICES ASSUME BTInv, init_sched
             PROVE  BTInv'
  OBVIOUS
<1> USE DEF InMain, HasPaging, HasQueues, HasIdle, HasTask1, InUserSpace
<1>1. /\ goto("init_sched", "init_idle") /\ readyq' = <<>> /\ blocked' = {}
      /\ freeq' = [i \in 1 .. NR_TASKS - 2 |-> i + 1]
      /\ set_up' = set_up \cup {"queues"}
      /\ UNCHANGED <<current, quantum_ticks, last_pid, PID, quantum, parent,
                     childs, pending_unblocks>>
      /\ UNCHANGED <<memVars, halted, user>>
  BY SMTT(30) DEF init_sched
<1>2. /\ stage = "init_sched" /\ stage' = "init_idle" /\ ImageInv'
      /\ (kernel_loaded' <=> kernel_loaded) /\ failed' = failed
  BY <1>1, Goto
<1>3. Processes /\ Spaces
  BY <1>2, SMTT(30) DEF BTInv
<1>4. Processes'
  BY <1>1, <1>2, <1>3 DEF Processes
<1>5. Spaces'
  BY <1>1, <1>2, <1>3, ZenonT(30) DEF Spaces, memVars, table, frames, handed_out
<1>6. SetUp' /\ Intact' /\ Stopped'
  BY <1>1, <1>2 DEF BTInv, SetUp, Intact, Stopped
<1> QED  BY <1>2, <1>4, <1>5, <1>6 DEF BTInv

(* init_idle fills the task_struct of idle.                                *)
LEMMA InitIdle == BTInv /\ init_idle => BTInv'
<1> SUFFICES ASSUME BTInv, init_idle
             PROVE  BTInv'
  BY SMTT(30)
<1> USE DEF InMain, HasPaging, HasQueues, HasIdle, HasTask1, InUserSpace
<1>1. /\ goto("init_idle", "init_task1")
      /\ PID' = [PID EXCEPT ![idle_task] = 0]
      /\ quantum' = [quantum EXCEPT ![idle_task] = 1]
      /\ childs' = [childs EXCEPT ![idle_task] = {}]
      /\ UNCHANGED <<current, readyq, freeq, blocked, quantum_ticks, last_pid,
                     parent, pending_unblocks>>
      /\ UNCHANGED <<memVars, halted, mainVars>>
  BY SMTT(30) DEF init_idle
<1>2. /\ stage = "init_idle" /\ stage' = "init_task1" /\ ImageInv'
      /\ (kernel_loaded' <=> kernel_loaded) /\ failed' = failed
  BY <1>1, Goto
<1>3. Processes /\ Spaces
  BY <1>2, SMTT(30) DEF BTInv
<1>4. Processes'
  BY <1>1, <1>2, <1>3, Zenon DEF Processes, idle_task, init_task
<1>5. Spaces'
  BY <1>1, <1>2, <1>3, ZenonT(30) DEF Spaces, memVars, table, frames, handed_out
<1>6. SetUp' /\ Intact' /\ Stopped'
  BY <1>1, <1>2 DEF BTInv, SetUp, Intact, Stopped, mainVars
<1> QED  BY <1>2, <1>4, <1>5, <1>6 DEF BTInv

(* init_task1 fills the task_struct of the first process.                  *)
LEMMA InitTask1 == BTInv /\ init_task1 => BTInv'
<1> SUFFICES ASSUME BTInv, init_task1
             PROVE  BTInv'
  OBVIOUS
<1> USE DEF InMain, HasPaging, HasQueues, HasIdle, HasTask1, InUserSpace
<1>1. /\ goto("init_task1", "set_user_pages")
      /\ PID' = [PID EXCEPT ![init_task] = 1]
      /\ quantum' = [quantum EXCEPT ![init_task] = QUANTUM]
      /\ quantum_ticks' = QUANTUM
      /\ childs' = [childs EXCEPT ![init_task] = {}]
      /\ UNCHANGED <<current, readyq, freeq, blocked, last_pid, parent,
                     pending_unblocks>>
      /\ UNCHANGED <<memVars, halted, mainVars>>
  BY SMTT(30) DEF init_task1
<1>2. /\ stage = "init_task1" /\ stage' = "set_user_pages" /\ ImageInv'
      /\ (kernel_loaded' <=> kernel_loaded) /\ failed' = failed
  BY <1>1, Goto
<1>3. Processes /\ Spaces
  BY <1>2, SMTT(30) DEF BTInv
<1>4. Processes'
  <2>1. PID' = [t \in Task |-> IF t = init_task THEN 1 ELSE 0]
    BY <1>1, <1>2, <1>3, SMTT(30) DEF Processes
  <2>2. quantum' = [t \in Task |-> IF t = idle_task THEN 1
                                   ELSE IF t = init_task THEN QUANTUM ELSE 0]
    BY <1>1, <1>2, <1>3 DEF Processes, idle_task, init_task
  <2>3. childs' = [t \in Task |-> {}]
    BY <1>1, <1>3, ZenonT(30) DEF Processes
  <2> QED  BY <2>1, <2>2, <2>3, <1>1, <1>2, <1>3, SMTT(30) DEF Processes
<1>5. Spaces'
  <2>1. pag' = 0 /\ pagusr_table' = table(0) /\ phys_mem' = frames(0)
    BY <1>1, <1>2, <1>3, SMTT(30) DEF Spaces, memVars
  <2> QED  BY <2>1, <1>1, <1>2, <1>3, NthPage, SMTT(30) DEF Spaces, memVars
<1>6. SetUp' /\ Intact' /\ Stopped'
  BY <1>1, <1>2 DEF BTInv, SetUp, Intact, Stopped, mainVars
<1> QED  BY <1>2, <1>4, <1>5, <1>6, SMTT(30) DEF BTInv

(* set_user_pages takes one frame and maps one page.                       *)
LEMMA SetUserPages == BTInv /\ set_user_pages => BTInv'
<1> SUFFICES ASSUME BTInv, set_user_pages
             PROVE  BTInv'
  OBVIOUS
<1> USE DEF InMain, HasPaging, HasQueues, HasIdle, HasTask1, InUserSpace
<1>1. /\ goto("set_user_pages", "set_user_pages")
      /\ pag < NUM_PAG_CODE + NUM_PAG_DATA /\ pag' = pag + 1
      /\ UNCHANGED vars
      /\ UNCHANGED <<content, cr3, tlb, live, child, halted, mainVars>>
  BY DEF set_user_pages
<1>2. /\ stage = "set_user_pages" /\ stage' = "set_user_pages" /\ ImageInv'
      /\ (kernel_loaded' <=> kernel_loaded) /\ failed' = failed
  BY <1>1, Goto
<1>3. Processes /\ Spaces
  BY <1>2 DEF BTInv
<1>4. PICK n \in 0 .. all_pages - 1 : n = pag
  <2>1. pag \in 0 .. all_pages /\ pag < all_pages /\ all_pages \in Nat
    BY <1>1, <1>2, <1>3, NthPage DEF Spaces, all_pages
  <2> QED  BY <2>1, SMTT(30)
<1>5. PICK f \in free_frames :
        /\ alloc_frame(f)
        /\ pagusr_table' = [pagusr_table EXCEPT ![init_task][nth_page(n)] = f]
  BY <1>4, Zenon DEF set_user_pages
<1>6. pagusr_table = table(n) /\ phys_mem = frames(n)
  BY <1>2, <1>3, <1>4 DEF Spaces
<1>7. f = boot_frame(nth_page(n)) /\ phys_mem' = frames(n + 1)
  BY <1>5, <1>6, NextFrame
<1>8. pagusr_table' = table(n + 1)
  <2>1. init_task \in Task /\ nth_page(n) \in Page
    BY NthPage, TasksAssumption, MemoryAssumption
    DEF init_task, Task, Data, Code, Page, temp_pag
  <2>2. handed_out(n + 1) = handed_out(n) \cup {nth_page(n)}
    BY HandedOut, SMTT(30)
  <2>3. ASSUME NEW t \in Task, NEW p \in Page
        PROVE  pagusr_table'[t][p] = table(n + 1)[t][p]
    BY <1>5, <1>6, <1>7, <2>1, <2>2, SMTT(30) DEF table
  <2>4. \A t \in Task : pagusr_table'[t] = table(n + 1)[t]
    <3> TAKE t \in Task
    <3>1. /\ pagusr_table'[t] = [p \in Page |-> pagusr_table'[t][p]]
          /\ table(n + 1)[t] = [p \in Page |-> table(n + 1)[t][p]]
      BY <1>5, <1>6, <2>1, SMTT(30) DEF table
    <3> QED  BY <3>1, <2>3
  <2>5. /\ pagusr_table' = [t \in Task |-> pagusr_table'[t]]
        /\ table(n + 1) = [t \in Task |-> table(n + 1)[t]]
    BY <1>5, <1>6, Zenon DEF table
  <2> QED  BY <2>4, <2>5, SMTT(30)
<1>9. Processes'
  BY <1>1, <1>2, <1>3, SMTT(30) DEF Processes, vars
<1>10. Spaces'
  <2>1. n + 1 \in 0 .. all_pages /\ pag' = n + 1
    BY <1>1, <1>4, NthPage, SMTT(30)
  <2>2. /\ pag' \in 0 .. all_pages /\ pagusr_table' = table(pag)'
        /\ phys_mem' = frames(pag)'
    BY <2>1, <1>7, <1>8, SMTT(30) DEF table, frames, handed_out
  <2> QED  BY <2>2, <1>1, <1>2, <1>3, Zenon DEF Spaces
<1>11. SetUp' /\ Intact' /\ Stopped'
  BY <1>1, <1>2 DEF BTInv, SetUp, Intact, Stopped, mainVars
<1> QED  BY <1>2, <1>9, <1>10, <1>11 DEF BTInv

(* init_task1 loads the first process's address space.                     *)
LEMMA InitTask1Ends == BTInv /\ init_task1_ends => BTInv'
<1> SUFFICES ASSUME BTInv, init_task1_ends
             PROVE  BTInv'
  OBVIOUS
<1> USE DEF InMain, HasPaging, HasQueues, HasIdle, HasTask1, InUserSpace
<1>1. /\ goto("set_user_pages", "copy_data")
      /\ pag = NUM_PAG_CODE + NUM_PAG_DATA /\ pag' = 0
      /\ live' = {init_task} /\ cr3' = init_task /\ tlb' = {}
      /\ UNCHANGED vars
      /\ UNCHANGED <<phys_mem, pagusr_table, content, child, halted, mainVars>>
  BY SMTT(30) DEF init_task1_ends, load_init_space, set_cr3
<1>2. /\ stage = "set_user_pages" /\ stage' = "copy_data" /\ ImageInv'
      /\ (kernel_loaded' <=> kernel_loaded) /\ failed' = failed
  BY <1>1, Goto
<1>3. Processes /\ Spaces
  BY <1>2, SMTT(30) DEF BTInv
<1>4. Processes'
  BY <1>1, <1>2, <1>3, SMTT(30) DEF Processes, vars
<1>5. Spaces'
  <2>1. pagusr_table' = table(all_pages) /\ phys_mem' = frames(all_pages)
    BY <1>1, <1>2, <1>3, SMTT(30) DEF Spaces, all_pages
  <2> QED  BY <2>1, <1>1, <1>2, <1>3, SMTT(30) DEF Spaces
<1>6. SetUp' /\ Intact' /\ Stopped'
  BY <1>1, <1>2 DEF BTInv, SetUp, Intact, Stopped, mainVars
<1> QED  BY <1>2, <1>4, <1>5, <1>6 DEF BTInv

(* The pages that set_user_pages has mapped hold the first units of the    *)
(* copy, and no others.                                                    *)
LEMMA Mapped ==
  ASSUME Spaces, stage = "copy_data", NEW n \in Nat
  PROVE  mapped(n + 1) <=> n < PAGE_SIZE * (NUM_PAG_DATA + NUM_PAG_CODE)
<1> DEFINE c == PAGE_SIZE
           A == NUM_PAG_DATA + NUM_PAG_CODE
<1>1. c \in Nat /\ c >= 1 /\ A \in Nat
  BY BootAssumption, MemoryAssumption
<1>2. PICK q, x \in Nat : x < c /\ n = c * q + x /\ q = n \div c
  BY <1>1, Division
<1>3. mapped(n + 1) <=> q \in Page /\ pagusr_table[cr3][q] # 0
  <2>1. (n + 1) - 1 = n
    OBVIOUS
  <2> QED  BY <2>1, <1>2 DEF mapped
<1>4. q \in Page /\ pagusr_table[cr3][q] # 0 <=> q < A
  <2>1. cr3 = init_task /\ pagusr_table = table(all_pages) /\ init_task \in Task
    BY TasksAssumption DEF Spaces, InUserSpace, init_task, Task
  <2>2. /\ handed_out(all_pages) = Data \cup Code
        /\ \A p \in Data \cup Code : p \in Page /\ boot_frame(p) # 0
    BY HandedOut, MemoryAssumption DEF Data, Code, Page, temp_pag, boot_frame
  <2>3. q \in Data \cup Code <=> q < A
    BY <1>2, MemoryAssumption DEF Data, Code
  <2>4. q \in Page => pagusr_table[cr3][q]
                        = IF q \in Data \cup Code THEN boot_frame(q) ELSE 0
    BY <2>1, <2>2, SMTT(30) DEF table
  <2> QED  BY <2>2, <2>3, <2>4, SMTT(30)
<1> HIDE DEF c, A
<1>5. q < A <=> n < c * A
  <2>1. c * q \in Nat /\ c * A \in Nat
    BY <1>1, <1>2
  <2>2. ASSUME q < A
        PROVE  n < c * A
    <3>1. c * (q + 1) <= c * A /\ c * (q + 1) = c * q + c
      BY <1>1, <1>2, <2>2
    <3> QED  BY <3>1, <2>1, <1>1, <1>2
  <2>3. ASSUME q >= A
        PROVE  ~ (n < c * A)
    <3>1. c * q >= c * A
      BY <1>1, <1>2, <2>3
    <3> QED  BY <3>1, <2>1, <1>1, <1>2
  <2> QED  BY <2>2, <2>3, <1>1, <1>2
<1> QED  BY <1>3, <1>4, <1>5 DEF c, A

(* If the whole kernel is below INITSEG and the user program fits into its *)
(* pages, the length was not cut, and the image was loaded whole.          *)
LEMMA Fits ==
  ASSUME ImageInv, stage \in InMain, kernel_loaded, user_fits
  PROVE  loadable
<1> DEFINE room == ROOM * SEGMENT * SECTOR
           cap == PAGE_SIZE * (NUM_PAG_DATA + NUM_PAG_CODE)
           m == 16 * PARAGRAPHS
<1>1. /\ sys_size \in Nat /\ sys_size >= 1 /\ usr_size \in Nat
      /\ total = sys_size + usr_size /\ SECTOR \in Nat /\ SECTOR >= 1
      /\ ROOM \in Nat /\ SEGMENT \in Nat /\ PARA \in Nat /\ PARA >= 1
      /\ PARAGRAPHS \in Nat /\ im_size \in Nat /\ Sizes
  BY ImageAssumption, LoaderAssumption, Paragraphs DEF ImageInv, Sizes, total
<1>2. (sys_size - 1) \div SECTOR \in Below
  <2>1. loaded(sys_size - 1) # <<"none", 0>>
    <3>1. CASE sys_size = 1
      BY <3>1 DEF kernel_loaded, header
    <3>2. CASE sys_size # 1
      <4>1. sys_size - 1 \in 1 .. sys_size - 1
        BY <3>2, <1>1
      <4> QED  BY <4>1 DEF kernel_loaded
    <3> QED  BY <3>1, <3>2
  <2> QED  BY <2>1 DEF loaded
<1>3. sys_size <= room
  <2> DEFINE R == ROOM * SEGMENT
  <2>1. R \in Nat
    BY <1>1
  <2>2. PICK q, x \in Nat : /\ x < SECTOR /\ sys_size - 1 = SECTOR * q + x
                            /\ q = (sys_size - 1) \div SECTOR
    <3>1. sys_size - 1 \in Nat
      BY <1>1
    <3> QED  BY <3>1, <1>1, Division
  <2>3. q + 1 <= R
    BY <2>1, <2>2, <1>2 DEF Below
  <2> HIDE DEF R
  <2>4. SECTOR * (q + 1) <= R * SECTOR /\ SECTOR * (q + 1) = SECTOR * q + SECTOR
    BY <2>1, <2>2, <2>3, <1>1
  <2>5. SECTOR * q \in Nat /\ R * SECTOR \in Nat
    BY <2>1, <2>2, <1>1
  <2>6. sys_size <= R * SECTOR
    BY <2>2, <2>4, <2>5, <1>1
  <2> QED  BY <2>6 DEF R
<1>4. usr_size <= cap /\ cap + room <= (m - 1) * PARA
  BY BootAssumption DEF user_fits
<1>5. room \in Nat /\ cap \in Nat /\ m \in Nat
  BY <1>1, BootAssumption, MemoryAssumption
<1>6. PARA * im_size <= total + (PARA - 1)
  BY <1>1, Paragraphs
<1> HIDE DEF room, cap, m
<1>7. im_size < m
  <2> SUFFICES ASSUME im_size >= m
               PROVE  FALSE
    BY <1>1, <1>5
  <2>1. PARA * im_size >= PARA * m
    BY <1>1, <1>5
  <2>2. (m - 1) * PARA = PARA * m - PARA /\ PARA * m \in Nat /\ PARA * im_size \in Nat
    BY <1>1, <1>5
  <2> QED  BY <2>1, <2>2, <1>1, <1>3, <1>4, <1>5, <1>6
<1> QED  BY <1>1, <1>5, <1>7, FitsOrCut DEF m

(* main copies the user image to the pages of the first process.           *)
LEMMA CopyUser == BTInv /\ copy_user => BTInv'
<1> SUFFICES ASSUME BTInv, copy_user
             PROVE  BTInv'
  OBVIOUS
<1> USE DEF InMain, HasPaging, HasQueues, HasIdle, HasTask1, InUserSpace
<1>1. /\ goto("copy_data", "enable_int") /\ UNCHANGED kernelVars /\ UNCHANGED set_up
      /\ \A i \in 1 .. loaded(0)[3] : mapped(i)
      /\ user' = copied(loaded(0)[3])
  BY SMTT(30) DEF copy_user
<1>2. /\ stage = "copy_data" /\ stage' = "enable_int" /\ ImageInv'
      /\ (kernel_loaded' <=> kernel_loaded) /\ failed' = failed /\ usr_size' = usr_size
  BY <1>1, Goto
<1>3. Processes /\ Spaces /\ kernel_loaded /\ ImageInv
  BY <1>2, SMTT(30) DEF BTInv, Intact
<1>4. user_fits
  <2>1. usr_size \in Nat /\ loaded(0)[3] = usr_size
    BY <1>3 DEF ImageInv, Sizes, kernel_loaded, header
  <2>2. CASE usr_size = 0
    <3>1. PAGE_SIZE * (NUM_PAG_DATA + NUM_PAG_CODE) \in Nat
      BY BootAssumption, MemoryAssumption
    <3> QED  BY <3>1, <2>2 DEF user_fits
  <2>3. CASE usr_size # 0
    <3>1. PICK n \in Nat : usr_size = n + 1
      <4>1. usr_size - 1 \in Nat /\ usr_size = (usr_size - 1) + 1
        BY <2>1, <2>3
      <4> QED  BY <4>1
    <3>2. mapped(n + 1)
      BY <3>1, <2>1, <1>1
    <3>3. n < PAGE_SIZE * (NUM_PAG_DATA + NUM_PAG_CODE)
      BY <3>2, <1>2, <1>3, Mapped
    <3>4. PAGE_SIZE * (NUM_PAG_DATA + NUM_PAG_CODE) \in Nat
      BY BootAssumption, MemoryAssumption
    <3> QED  BY <3>1, <3>3, <3>4 DEF user_fits
  <2> QED  BY <2>2, <2>3
<1>6. Processes'
  BY <1>1, <1>2, <1>3, Zenon DEF Processes, kernelVars, vars
<1>7. Spaces'
  BY <1>1, <1>2, <1>3, Zenon DEF Spaces, kernelVars, memVars, table, frames, handed_out
<1>8. ASSUME ~ failed
      PROVE  user' = unit("user", 0, usr_size)
  <2>1. stage \in InMain /\ a20 /\ loadable
    BY <1>2, <1>3, <1>4, Fits DEF ImageInv, Loading
  <2> QED  BY <2>1, <1>1, <1>3, <1>8, UserLoaded, SMTT(30) DEF copied
<1>9. Intact'
  BY <1>2, <1>3, <1>4, <1>8 DEF Intact, unit, user_fits
<1>10. SetUp' /\ Stopped'
  BY <1>1, <1>2 DEF BTInv, SetUp, Stopped
<1> QED  BY <1>2, <1>6, <1>7, <1>9, <1>10 DEF BTInv

(* main comes to a page that is not mapped only if the file is too long.   *)
LEMMA CopyFaults == BTInv /\ copy_faults => BTInv'
<1> SUFFICES ASSUME BTInv, copy_faults
             PROVE  BTInv'
  OBVIOUS
<1> USE DEF InMain, HasPaging, HasQueues, HasIdle, HasTask1, InUserSpace
<1>1. /\ goto("copy_data", "segmentation_fault") /\ UNCHANGED set_up
      /\ \E n \in 0 .. loaded(0)[3] - 1 : ~ mapped(n + 1)
  BY SMTT(30) DEF copy_faults
<1>2. /\ stage = "copy_data" /\ stage' = "segmentation_fault" /\ ImageInv'
      /\ usr_size' = usr_size
  BY <1>1, Goto
<1>3. Spaces /\ kernel_loaded /\ ImageInv
  BY <1>2, SMTT(30) DEF BTInv, Intact
<1>4. usr_size \in Nat /\ loaded(0)[3] = usr_size
  BY <1>3 DEF ImageInv, Sizes, kernel_loaded, header
<1>5. PICK n \in 0 .. usr_size - 1 : ~ mapped(n + 1)
  BY <1>1, <1>4
<1>6. ~ user_fits
  <2>1. n \in Nat /\ n < usr_size
    BY <1>4, <1>5
  <2>2. ~ (n < PAGE_SIZE * (NUM_PAG_DATA + NUM_PAG_CODE))
    BY <2>1, <1>2, <1>3, <1>5, Mapped
  <2>3. PAGE_SIZE * (NUM_PAG_DATA + NUM_PAG_CODE) \in Nat
    BY BootAssumption, MemoryAssumption
  <2> QED  BY <2>1, <2>2, <2>3, <1>4 DEF user_fits
<1>7. SetUp' /\ Intact' /\ Stopped'
  BY <1>2, <1>6 DEF SetUp, Intact, Stopped, user_fits
<1> QED  BY <1>2, <1>7 DEF BTInv

(* enable_int opens the interrupts.                                        *)
LEMMA EnableInt == BTInv /\ enable_int => BTInv'
<1> SUFFICES ASSUME BTInv, enable_int
             PROVE  BTInv'
  OBVIOUS
<1> USE DEF InMain, HasPaging, HasQueues, HasIdle, HasTask1, InUserSpace
<1>1. /\ goto("enable_int", "return_gate") /\ UNCHANGED kernelVars
      /\ set_up' = set_up \cup {"interrupts"} /\ UNCHANGED user
  BY SMTT(30) DEF enable_int
<1>2. /\ stage = "enable_int" /\ stage' = "return_gate" /\ ImageInv'
      /\ (kernel_loaded' <=> kernel_loaded) /\ failed' = failed /\ usr_size' = usr_size
  BY <1>1, Goto
<1>3. Processes /\ Spaces
  BY <1>2, SMTT(30) DEF BTInv
<1>4. Processes'
  BY <1>1, <1>2, <1>3, Zenon DEF Processes, kernelVars, vars
<1>5. Spaces'
  BY <1>1, <1>2, <1>3, ZenonT(30) DEF Spaces, kernelVars, memVars, table, frames, handed_out
<1>6. SetUp' /\ Intact' /\ Stopped'
  BY <1>1, <1>2 DEF BTInv, SetUp, Intact, Stopped, user_fits, unit
<1> QED  BY <1>2, <1>4, <1>5, <1>6 DEF BTInv

(* return_gate enters the user program.                                    *)
LEMMA ReturnGate == BTInv /\ return_gate => BTInv'
<1> SUFFICES ASSUME BTInv, return_gate
             PROVE  BTInv'
  OBVIOUS
<1> USE DEF InMain, HasPaging, HasQueues, HasIdle, HasTask1, InUserSpace
<1>1. /\ goto("return_gate", "usr_main") /\ current' = init_task
      /\ UNCHANGED <<readyq, freeq, blocked, quantum_ticks, last_pid, PID, quantum,
                     parent, childs, pending_unblocks>>
      /\ UNCHANGED <<memVars, halted, mainVars>>
  BY SMTT(30) DEF return_gate
<1>2. /\ stage = "return_gate" /\ stage' = "usr_main" /\ ImageInv'
      /\ (kernel_loaded' <=> kernel_loaded) /\ failed' = failed /\ usr_size' = usr_size
  BY <1>1, Goto
<1>3. Processes /\ Spaces
  BY <1>2, SMTT(30) DEF BTInv
<1>4. Processes'
  BY <1>1, <1>2, <1>3, Zenon DEF Processes
<1>5. Spaces'
  BY <1>1, <1>2, <1>3, ZenonT(30) DEF Spaces, memVars, table, frames, handed_out
<1>6. SetUp' /\ Intact' /\ Stopped'
  BY <1>1, <1>2 DEF BTInv, SetUp, Intact, Stopped, user_fits, unit, mainVars
<1> QED  BY <1>2, <1>4, <1>5, <1>6 DEF BTInv

(* A tick before user mode finds nobody ready and reloads the ticks from   *)
(* the unused slot that main's stack lies in.                              *)
LEMMA EarlyTick == BTInv /\ early_tick => BTInv'
<1> SUFFICES ASSUME BTInv, early_tick
             PROVE  BTInv'
  OBVIOUS
<1> USE DEF InMain, HasPaging, HasQueues, HasIdle, HasTask1, InUserSpace
<1>1. /\ stage = "return_gate" /\ scheduler
      /\ stage' = IF /\ current' = current
                     /\ {"gdt", "idt", "tss", "paging", "queues"} \subseteq set_up
                  THEN stage ELSE "crashed"
      /\ UNCHANGED <<loaderVars, sys_size, usr_size, left, zeos_bin, a20>>
      /\ UNCHANGED <<memVars, halted, mainVars>>
  BY DEF early_tick
<1>2. Processes /\ Spaces
  BY <1>1, SMTT(30) DEF BTInv
<1>3. reload(update_sched_data_rr) = 0
  <2>1. /\ readyq = <<>> /\ current = boot_slot /\ boot_slot \in Task
        /\ boot_slot # idle_task /\ boot_slot # init_task
    BY <1>1, <1>2, BootAssumption, SMTT(30) DEF Processes, boot_slot, idle_task, init_task
  <2> QED  BY <2>1, <1>2, SMTT(30) DEF reload, Processes
<1>4. /\ quantum_ticks' = 0 /\ UNCHANGED <<current, readyq, freeq, blocked>>
      /\ UNCHANGED <<last_pid, PID, quantum, parent, childs, pending_unblocks>>
  BY <1>1, <1>3, SMTT(30) DEF scheduler, needs_sched_rr
<1>5. stage' = "return_gate"
  BY <1>1, <1>4, SMTT(30) DEF BTInv, SetUp
<1>6. ImageInv'
  BY <1>1, <1>5, ImageKept, SMTT(30) DEF BTInv
<1>7. (kernel_loaded' <=> kernel_loaded) /\ failed' = failed
  BY <1>1, SMTT(30) DEF kernel_loaded, loaded, header, loaderVars
<1>8. Processes'
  BY <1>1, <1>2, <1>4, <1>5, Zenon DEF Processes
<1>9. Spaces'
  BY <1>1, <1>2, <1>5, ZenonT(30) DEF Spaces, memVars, table, frames, handed_out
<1>10. SetUp' /\ Intact' /\ Stopped'
  BY <1>1, <1>5, <1>7, SMTT(30) DEF BTInv, SetUp, Intact, Stopped, user_fits, unit, mainVars
<1> QED  BY <1>6, <1>8, <1>9, <1>10 DEF BTInv

(* While the image is built and loaded the kernel does not exist yet.      *)
LEMMA LoadImage == BTInv /\ load_image => BTInv'
<1> SUFFICES ASSUME BTInv, load_image
             PROVE  BTInv'
  OBVIOUS
<1>1. INext /\ UNCHANGED kernelVars /\ UNCHANGED mainVars
  BY DEF load_image
<1>2. /\ ImageInv' /\ stage \notin InMain \cup {"crashed", "segmentation_fault"}
      /\ stage' \notin (InMain \cup {"crashed", "segmentation_fault"}) \ {"main"}
  BY <1>1, ImageStep DEF BTInv
<1> USE DEF InMain, HasPaging, HasQueues, HasIdle, HasTask1, InUserSpace
<1>3. Processes /\ Spaces
  BY <1>2, SMTT(30) DEF BTInv
<1>4. Processes'
  BY <1>1, <1>2, <1>3, SMTT(30) DEF Processes, kernelVars, vars
<1>5. Spaces'
  BY <1>1, <1>2, <1>3, ZenonT(30) DEF Spaces, kernelVars, memVars, table, handed_out
<1>6. SetUp' /\ Intact' /\ Stopped'
  BY <1>2, SMTT(30) DEF SetUp, Intact, Stopped
<1> QED  BY <1>2, <1>4, <1>5, <1>6 DEF BTInv

(* Nothing happens.                                                        *)
LEMMA BootStutters == BTInv /\ UNCHANGED bootVars => BTInv'
<1> SUFFICES ASSUME BTInv, UNCHANGED bootVars
             PROVE  BTInv'
  OBVIOUS
<1>1. /\ UNCHANGED kernelVars /\ UNCHANGED imageVars /\ UNCHANGED mainVars
      /\ stage' = stage
  BY SMTT(30) DEF bootVars, imageVars
<1>2. ImageInv'
  BY <1>1, ImageKept, SMTT(30) DEF BTInv, imageVars
<1>3. (kernel_loaded' <=> kernel_loaded) /\ failed' = failed
  BY <1>1, ZenonT(30) DEF kernel_loaded, loaded, header, imageVars, loaderVars
<1>4. Processes => Processes'
  BY <1>1, Zenon DEF Processes, kernelVars, vars
<1>5. Spaces => Spaces'
  BY <1>1, ZenonT(30) DEF Spaces, kernelVars, memVars, table, frames, handed_out
<1>6. (loadable' <=> loadable) /\ (user_fits' <=> user_fits)
      /\ usr_size' = usr_size /\ user' = user /\ set_up' = set_up
  BY <1>1, Zenon DEF loadable, im_size, user_fits, mainVars, imageVars
<1>7. SetUp' /\ Intact' /\ Stopped'
  BY <1>1, <1>3, <1>6 DEF BTInv, SetUp, Intact, Stopped, unit
<1> QED  BY <1>1, <1>2, <1>4, <1>5, <1>7 DEF BTInv

(* Every state of a boot satisfies the invariant.                          *)
LEMMA BootInv == BSpec => []BTInv
<1>1. BInit => BTInv
  <2> SUFFICES ASSUME BInit
               PROVE  BTInv
    BY SMTT(30)
  <2> USE DEF InMain, HasPaging, HasQueues, HasIdle, HasTask1, InUserSpace
  <2>1. IInit /\ stage = "bootsect"
    BY SMTT(30) DEF BInit, IInit
  <2>2. LIInv
    BY <2>1, LoaderAssumption, SMTT(30) DEF IInit, LIInv, InStep, LoadedInOrder,
       nothing_loaded, first_sector, source, destination, Below, NotLoaded
  <2>3. Sizes
    BY <2>1, ImageAssumption DEF IInit, Sizes, total
  <2>4. Building /\ Loading
    <3>1. es < ROOM \/ (es = ROOM /\ bx = 0)
      BY <2>1, LoaderAssumption DEF IInit, nothing_loaded
    <3> QED  BY <3>1, <2>1, ZenonT(30) DEF IInit, Building, Loading
  <2>5. Processes
    BY <2>1, SMTT(30) DEF BInit, Processes
  <2>6. Spaces
    <3>1. pagusr_table = table(0)
      BY HandedOut DEF BInit, table
    <3> QED  BY <3>1, <2>1, SMTT(30) DEF BInit, Spaces
  <2>7. SetUp /\ Intact /\ Stopped
    BY <2>1 DEF SetUp, Intact, Stopped
  <2> QED  BY <2>2, <2>3, <2>4, <2>5, <2>6, <2>7 DEF BTInv, ImageInv
<1>2. BTInv /\ [BNext]_bootVars => BTInv'
  BY SetTables, InitMM, InitSched, InitIdle, InitTask1, SetUserPages, InitTask1Ends,
     CopyUser, CopyFaults, EnableInt, ReturnGate, EarlyTick, LoadImage, BootStutters, SMTT(30)
  DEF BNext, Main
<1> QED  BY <1>1, <1>2, PTL DEF BSpec

(* The first process starts with exactly the user file, if it starts, for  *)
(* all lengths of the two files and all geometries.                        *)
THEOREM UserImageIntactHolds == BSpec => []UserImageIntact
<1>1. BTInv => UserImageIntact
  BY DEF BTInv, Intact, UserImageIntact
<1> QED  BY <1>1, BootInv, PTL

(* What main hands over is exactly an initial state of Kernel, so that all *)
(* that KernelProofs proves of KSpec holds from usr_main on.               *)
THEOREM BootEstablishesKernelHolds == BSpec => []BootEstablishesKernel
<1>1. BTInv => BootEstablishesKernel
  <2> SUFFICES ASSUME BTInv, stage = "usr_main"
               PROVE  KInit
    BY DEF BootEstablishesKernel
  <2> USE DEF HasPaging, HasQueues, HasIdle, HasTask1, InUserSpace
  <2>1. Processes /\ Spaces
    BY SMTT(30) DEF BTInv
  <2>2. Init
    BY <2>1, SMTT(30) DEF Processes, Init, idle_task, init_task
  <2>3. /\ phys_mem = frames(all_pages) /\ pagusr_table = table(all_pages)
        /\ handed_out(all_pages) = Data \cup Code
    BY <2>1, HandedOut DEF Spaces
  <2>4. \A p \in Page : p \in Data \cup Code <=> p # temp_pag
    BY MemoryAssumption DEF Data, Code, Page, temp_pag
  <2>5. pagusr_table = [t \in Task |-> [p \in Page |->
          IF t = 1 /\ p # temp_pag THEN boot_frame(p) ELSE 0]]
    BY <2>3, <2>4 DEF table, init_task
  <2>6. phys_mem = init_frames \cup {boot_frame(p) : p \in Data \cup Code}
    BY <2>3 DEF frames
  <2>7. MInit /\ halted = FALSE
    BY <2>1, <2>5, <2>6, Zenon DEF Spaces, MInit, init_task
  <2> QED  BY <2>2, <2>7 DEF KInit
<1> QED  BY <1>1, BootInv, PTL

(* The safety half of BootReachesUser: user mode is reached only with      *)
(* files that fit; main copies beyond the mapped pages, and the loader     *)
(* beyond INITSEG, only with files that do not; and nothing else stops     *)
(* main, unless the BIOS failed to read.                                   *)
THEOREM BootsOnlyIfFitsHolds == BSpec => []BootsOnlyIfFits
<1>1. BTInv => BootsOnlyIfFits
  <2> SUFFICES ASSUME BTInv
               PROVE  BootsOnlyIfFits
    OBVIOUS
  <2> USE DEF InMain, HasPaging, HasQueues, HasIdle, HasTask1, InUserSpace
  <2>1. ASSUME stage = "usr_main"
        PROVE  loadable /\ user_fits
    <3>1. kernel_loaded /\ user_fits /\ ImageInv /\ stage \in InMain
      BY <2>1 DEF BTInv, Intact
    <3> QED  BY <3>1, Fits
  <2>2. stage = "overwritten" => ~ loadable
    BY DEF BTInv, ImageInv, Loading
  <2> QED  BY <2>1, <2>2 DEF BTInv, Stopped, BootsOnlyIfFits
<1> QED  BY <1>1, BootInv, PTL

(* As part of a boot, with the length the builder wrote into the boot      *)
(* sector, read_it has its two properties too.                             *)
THEOREM BootLoadsInOrder == BSpec => [](LoadedInOrder /\ RequestsServable)
<1>1. BTInv => LoadedInOrder /\ RequestsServable
  BY Servable DEF BTInv, ImageInv, LIInv
<1> QED  BY <1>1, BootInv, PTL
=============================================================================
