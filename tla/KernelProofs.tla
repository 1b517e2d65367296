--------------------------- MODULE KernelProofs ---------------------------
(* Proofs about Kernel, for every number of slots, frames and pages: the   *)
(* kernel's steps are steps of the process manager and of the memory       *)
(* manager, so that what is proved of each of them holds of the kernel,    *)
(* and the two never disagree about who runs and who has a memory.         *)
EXTENDS Kernel, SchedProofs, MemoryProofs, FiniteSetTheorems

(* The inductive invariant: the invariants of the two parts, their         *)
(* agreement, and that a fork fills the slot at the head of the free queue *)
(* for a user process.                                                     *)
ForkFillsHead == forking => /\ current # idle_task
                            /\ freeq # <<>> /\ child = Head(freeq)

KInv == IInv /\ MIInv /\ SpaceOfCurrent /\ ForkFillsHead

(* What a kernel step is to the process manager.                           *)
LEMMA KernelStepIsSchedStep == [KNext]_kernelVars => [Next]_vars
<1>1. ASSUME NEW pid \in 0 .. MAX_PID + 1, unblock(pid)
      PROVE  Next
  BY <1>1 DEF unblock, Next
<1>2. ASSUME fork_no_slot \/ fork_succeeds \/ fork_fails
      PROVE  Next
  BY <1>2, Zenon DEF fork_no_slot, fork_succeeds, fork_fails, Next
<1>3. ASSUME clock_service \/ block \/ exit_process
      PROVE  Next
  BY <1>3 DEF clock_service, block, exit_process, Next
<1>4. ASSUME NEW p \in Data, NEW v \in Value, store(p, v)
      PROVE  UNCHANGED vars
  BY <1>4 DEF store
<1>5. ASSUME \/ fork_begins \/ fork_copies \/ segmentation_fault_service
             \/ UNCHANGED kernelVars
      PROVE  UNCHANGED vars
  BY <1>5 DEF fork_begins, fork_copies, segmentation_fault_service, kernelVars
<1> QED  BY <1>1, <1>2, <1>3, <1>4, <1>5 DEF KNext

(* What a kernel step is to the memory manager.                            *)
LEMMA KernelStepIsMemoryStep ==
  ASSUME IInv, [KNext]_kernelVars
  PROVE  [MNext]_memVars
<1>0. current \in Task /\ current' \in Task
  BY KernelStepIsSchedStep, NextIInv DEF IInv, TypeOK
<1>1. ASSUME clock_service \/ block
      PROVE  MNext \/ UNCHANGED memVars
  BY <1>0, <1>1 DEF clock_service, block, switch_space, MNext
<1>2. ASSUME exit_process
      PROVE  MNext
  BY <1>0, <1>2 DEF exit_process, MNext
<1>3. ASSUME fork_begins
      PROVE  MNext
  <2>1. Head(freeq) \in Task
    BY <1>3, TailQueue DEF fork_begins, IInv, TypeOK, OnePlace
  <2> QED  BY <1>3, <2>1 DEF fork_begins, MNext
<1>4. ASSUME fork_copies \/ fork_succeeds \/ fork_fails
      PROVE  MNext
  BY <1>4, Zenon DEF fork_copies, fork_succeeds, fork_fails, MNext
<1>5. ASSUME NEW p \in Data, NEW v \in Value, store(p, v)
      PROVE  MNext
  BY <1>5 DEF store, MNext
<1>6. ASSUME NEW pid \in 0 .. MAX_PID + 1, unblock(pid)
      PROVE  UNCHANGED memVars
  BY <1>6 DEF unblock
<1>7. ASSUME fork_no_slot \/ segmentation_fault_service \/ UNCHANGED kernelVars
      PROVE  UNCHANGED memVars
  BY <1>7, Zenon DEF fork_no_slot, segmentation_fault_service, kernelVars
<1> QED  BY <1>1, <1>2, <1>3, <1>4, <1>5, <1>6, <1>7 DEF KNext

(* The two parts agree at boot.                                            *)
LEMMA KernelStarts == KInit => KInv
<1> SUFFICES ASSUME KInit PROVE KInv
  OBVIOUS
<1>1. IInv /\ MIInv
  BY InitIInv, MemoryStarts DEF KInit
<1>2. SpaceOfCurrent
  BY EmptyRange DEF KInit, Init, MInit, SpaceOfCurrent, Process, init_task, idle_task
<1>3. ForkFillsHead
  BY DEF KInit, MInit, ForkFillsHead, forking
<1> QED  BY <1>1, <1>2, <1>3 DEF KInv

(* A handler that may switch tasks changes the address space with the task *)
(* and leaves the set of processes alone.                                  *)
LEMMA SwitchAgrees ==
  ASSUME KInv, ready, switch_space, Process' = Process
  PROVE  SpaceOfCurrent' /\ ForkFillsHead'
<1>1. UNCHANGED <<live, child>> /\ cr3' = current'
  BY DEF switch_space, task_switch, set_cr3, memVars, KInv, SpaceOfCurrent
<1> QED  BY <1>1 DEF KInv, SpaceOfCurrent, ForkFillsHead, ready, forking

(* A step that leaves the process manager alone, or memory, or both.       *)
LEMMA NothingMoves ==
  ASSUME SpaceOfCurrent, UNCHANGED vars, UNCHANGED <<cr3, live>>
  PROVE  SpaceOfCurrent'
BY DEF SpaceOfCurrent, vars, Process

(* Every step of the kernel keeps the two parts in agreement.              *)
LEMMA KernelStep == KInv /\ [KNext]_kernelVars => KInv'
<1> SUFFICES ASSUME KInv, [KNext]_kernelVars PROVE KInv'
  OBVIOUS
<1>0. IInv /\ MIInv /\ SpaceOfCurrent /\ ForkFillsHead
  BY DEF KInv
<1>1. IInv' /\ MIInv'
  BY <1>0, KernelStepIsSchedStep, KernelStepIsMemoryStep, NextIInv, MemoryStep
<1>2. ASSUME clock_service
      PROVE  SpaceOfCurrent' /\ ForkFillsHead'
  BY <1>0, <1>2, TickProcess, SwitchAgrees DEF clock_service
<1>3. ASSUME block
      PROVE  SpaceOfCurrent' /\ ForkFillsHead'
  BY <1>0, <1>3, BlockProcess, SwitchAgrees DEF block
<1>4. ASSUME exit_process
      PROVE  SpaceOfCurrent' /\ ForkFillsHead'
  <2>1. Process' = Process \ {current}
    BY <1>0, <1>4, ExitProcess DEF exit_process
  <2>2. cr3' = current' /\ live' = live \ {cr3} /\ child' = child
    BY <1>4 DEF exit_process, exit, set_cr3
  <2> QED  BY <1>0, <1>4, <2>1, <2>2
           DEF SpaceOfCurrent, ForkFillsHead, exit_process, ready, forking
<1>5. ASSUME NEW pid \in 0 .. MAX_PID + 1, unblock(pid)
      PROVE  SpaceOfCurrent' /\ ForkFillsHead'
  <2>1. Process' = Process /\ current' = current
    BY <1>0, <1>5, UnblockProcess DEF unblock
  <2> QED  BY <1>0, <1>5, <2>1
           DEF SpaceOfCurrent, ForkFillsHead, unblock, ready, forking, memVars
<1>6. ASSUME fork_no_slot
      PROVE  SpaceOfCurrent' /\ ForkFillsHead'
  <2>1. UNCHANGED vars /\ UNCHANGED memVars
    BY <1>6 DEF fork_no_slot, sys_fork
  <2> QED  BY <1>0, <1>6, <2>1, NothingMoves
           DEF fork_no_slot, ForkFillsHead, ready, forking, memVars
<1>7. ASSUME fork_begins
      PROVE  SpaceOfCurrent' /\ ForkFillsHead'
  BY <1>0, <1>7, NothingMoves
  DEF fork_begins, fork_start, SpaceOfCurrent, ForkFillsHead, forking, vars
<1>8. ASSUME fork_copies
      PROVE  SpaceOfCurrent' /\ ForkFillsHead'
  <2>1. UNCHANGED <<vars, cr3, live, child>>
    BY <1>8 DEF fork_copies, fork_page, copy_page, set_cr3
  <2> QED  BY <1>0, <2>1, NothingMoves DEF ForkFillsHead, forking, vars
<1>9. ASSUME fork_succeeds
      PROVE  SpaceOfCurrent' /\ ForkFillsHead'
  <2>1. child = Head(freeq) /\ freeq # <<>>
    BY <1>0, <1>9 DEF fork_succeeds, fork_end, ForkFillsHead
  <2>2. Process' = Process \cup {child} /\ current' = current
    BY <1>0, <1>9, <2>1, ForkProcess, Zenon DEF fork_succeeds
  <2>3. cr3' = cr3 /\ live' = live \cup {child} /\ child' = NULL
    BY <1>9 DEF fork_succeeds, fork_end, set_cr3
  <2> QED  BY <1>0, <2>2, <2>3 DEF SpaceOfCurrent, ForkFillsHead, forking
<1>10. ASSUME fork_fails
       PROVE  SpaceOfCurrent' /\ ForkFillsHead'
  <2>1. freeq # <<>>
    BY <1>0, <1>10 DEF fork_fails, fork_fail, ForkFillsHead
  <2>2. Process' = Process /\ current' = current
    BY <1>0, <1>10, <2>1, ForkProcess, Zenon DEF fork_fails
  <2>3. cr3' = cr3 /\ live' = live /\ child' = NULL
    BY <1>10 DEF fork_fails, fork_fail
  <2> QED  BY <1>0, <2>2, <2>3 DEF SpaceOfCurrent, ForkFillsHead, forking
<1>11. ASSUME NEW p \in Data, NEW v \in Value, store(p, v)
       PROVE  SpaceOfCurrent' /\ ForkFillsHead'
  <2>1. UNCHANGED <<vars, cr3, live, child>>
    BY <1>11 DEF store, user_write
  <2> QED  BY <1>0, <2>1, NothingMoves DEF ForkFillsHead, forking, vars
<1>12. ASSUME segmentation_fault_service \/ UNCHANGED kernelVars
       PROVE  SpaceOfCurrent' /\ ForkFillsHead'
  <2>1. UNCHANGED <<vars, cr3, live, child>>
    BY <1>12 DEF segmentation_fault_service, kernelVars, memVars
  <2> QED  BY <1>0, <2>1, NothingMoves DEF ForkFillsHead, forking, vars
<1>13. SpaceOfCurrent' /\ ForkFillsHead'
  BY <1>2, <1>3, <1>4, <1>5, <1>6, <1>7, <1>8, <1>9, <1>10, <1>11, <1>12, SMTT(30) DEF KNext
<1> QED  BY <1>1, <1>13 DEF KInv

(* The kernel keeps its invariant.                                         *)
THEOREM KernelInv == KSpec => []KInv
BY KernelStarts, KernelStep, PTL DEF KSpec

(* The CPU always translates with the page table of the running task, and  *)
(* the processes of the queues are exactly those with an address space,    *)
(* whatever fork, exit, block and the clock do and however forks fail.     *)
THEOREM SpaceOfCurrentHolds == KSpec => []SpaceOfCurrent
<1>1. KInv => SpaceOfCurrent
  BY DEF KInv
<1> QED  BY <1>1, KernelInv, PTL

(* The kernel is a process manager: no handler of the composed kernel      *)
(* moves the queues, quanta or family in a way Sched does not allow.       *)
THEOREM KernelImplementsSched == KSpec => Init /\ [][Next]_vars
<1>1. KInit => Init
  BY DEF KInit
<1> QED  BY <1>1, KernelStepIsSchedStep, PTL DEF KSpec

(* The invariants of the process manager, in the kernel.                   *)
LEMMA KernelFamily == KSpec => [](IInv /\ PInv /\ FamilyTree /\ NoLostWakeup)
<1>1. Init => NoLostWakeup
  BY DEF Init, NoLostWakeup
<1> QED  BY <1>1, KernelImplementsSched, InitIInv, NextIInv, InitPInv, NextPInv,
            InitFamilyTree, NextFamilyTree, NextNoLostWakeup, PTL

(* What is proved of the process manager alone holds in the whole kernel,  *)
(* where a fork takes many steps and fails for lack of memory: PIDs stay   *)
(* unique, the family fields a forest, no wakeup is lost, and only a       *)
(* running parent wakes a task.                                            *)
THEOREM KernelKeepsFamily ==
  KSpec => [](UniquePID /\ FamilyTree /\ NoLostWakeup) /\ WokenByParent
<1>1. PInv => UniquePID
  BY DEF PInv
<1> QED  BY <1>1, KernelFamily, KernelImplementsSched, StepWokenByParent, PTL
            DEF WokenByParent

(* And every handler of the whole kernel is, for the life cycle of a task, *)
(* one of the state changes ProcStates promises or nothing.                *)
THEOREM KernelProcStates == KSpec => RefinesProcStates
BY KernelFamily, KernelImplementsSched, LifeCycleStarts, LifeCycleStep, PTL
   DEF RefinesProcStates, LifeCycle!ASpec

(* The kernel is a memory manager: fork, exit and the task switch, driven  *)
(* by the scheduler's choices, are steps of Memory.                        *)
THEOREM KernelImplementsMemory == KSpec => MSpec
<1>1. KInit => MInit
  BY DEF KInit
<1>2. KInv /\ [KNext]_kernelVars => [MNext]_memVars
  BY KernelStepIsMemoryStep DEF KInv
<1> QED  BY <1>1, <1>2, KernelInv, PTL DEF KSpec, MSpec

(* In the whole kernel, whatever the scheduler chooses, user code sees     *)
(* private memories.                                                       *)
THEOREM KernelPrivateMemories == KSpec => PrivateMemories
BY KernelImplementsMemory, PrivateMemoriesHolds, PTL

-----------------------------------------------------------------------------
(* Slots are never lost when there is memory for all of them.              *)

(* The places that may hold a frame of alloc_frame's while a fork is about *)
(* to fill page pag of the child: the shared code pages and the data pages *)
(* of every slot but idle's, that page excepted.                           *)
Holders == ({idle_task} \X Code) \cup ((Task \ {idle_task}) \X Data)

(* The frame a place holds.                                                *)
Held(h) == IF h[1] = idle_task THEN boot_frame(h[2]) ELSE pagusr_table[h[1]][h[2]]

(* There are as many places as frames that EnoughFrames asks for.          *)
LEMMA HoldersCount ==
  /\ IsFiniteSet(Holders)
  /\ Cardinality(Holders) = NUM_PAG_CODE + (NR_TASKS - 1) * NUM_PAG_DATA
<1>1. /\ NUM_PAG_CODE \in Nat /\ NUM_PAG_CODE >= 1 /\ NUM_PAG_DATA \in Nat
      /\ NR_TASKS \in Nat /\ NR_TASKS >= 2
  BY MemoryAssumption, TasksAssumption
<1>2. IsFiniteSet(Code) /\ Cardinality(Code) = NUM_PAG_CODE
  <2>1. NUM_PAG_DATA \in Int /\ NUM_PAG_DATA + NUM_PAG_CODE - 1 \in Int
    BY <1>1
  <2> QED  BY <1>1, <2>1, FS_Interval DEF Code
<1>3. IsFiniteSet(Data) /\ Cardinality(Data) = NUM_PAG_DATA
  <2>1. 0 \in Int /\ NUM_PAG_DATA - 1 \in Int
    BY <1>1
  <2> QED  BY <1>1, <2>1, FS_Interval DEF Data
<1>4. IsFiniteSet(Task \ {idle_task}) /\ Cardinality(Task \ {idle_task}) = NR_TASKS - 1
  <2>1. 1 \in Int /\ NR_TASKS - 1 \in Int /\ Task \ {idle_task} = 1 .. NR_TASKS - 1
    BY <1>1 DEF Task, idle_task
  <2>2. IsFiniteSet(1 .. NR_TASKS - 1) /\ Cardinality(1 .. NR_TASKS - 1) = NR_TASKS - 1
    BY <1>1, <2>1, FS_Interval
  <2> QED  BY <2>1, <2>2, Zenon
<1>5. IsFiniteSet({idle_task}) /\ Cardinality({idle_task}) = 1
  BY FS_Singleton
<1>6. /\ IsFiniteSet({idle_task} \X Code)
      /\ Cardinality({idle_task} \X Code) = 1 * NUM_PAG_CODE
  BY <1>2, <1>5, FS_Product
<1>7. /\ IsFiniteSet((Task \ {idle_task}) \X Data)
      /\ Cardinality((Task \ {idle_task}) \X Data) = (NR_TASKS - 1) * NUM_PAG_DATA
  BY <1>3, <1>4, FS_Product
<1>8. ({idle_task} \X Code) \cap ((Task \ {idle_task}) \X Data) = {}
  OBVIOUS
<1>9. (NR_TASKS - 1) * NUM_PAG_DATA \in Nat
  BY <1>1
<1>10. Cardinality({}) = 0
  BY FS_EmptySet
<1>11. /\ IsFiniteSet(Holders)
       /\ Cardinality(Holders) = 1 * NUM_PAG_CODE + (NR_TASKS - 1) * NUM_PAG_DATA - 0
  BY <1>6, <1>7, <1>8, <1>10, FS_Union, SMTT(30) DEF Holders
<1> QED  BY <1>1, <1>9, <1>11

(* Pigeonhole: if alloc_frame found nothing, all the frames EnoughFrames   *)
(* promises would be held, and one place, the page the fork is about to    *)
(* fill, holds none.                                                       *)
LEMMA AllocServes ==
  ASSUME MIInv, EnoughFrames, forking, pag < NUM_PAG_DATA
  PROVE  free_frames # {}
<1> DEFINE M == NUM_PAG_CODE + (NR_TASKS - 1) * NUM_PAG_DATA
           H == Holders \ {<<child, pag>>}
           frame(k) == NUM_PAG_KERNEL + 2 * (k - 1)
<1>1. /\ NUM_PAG_CODE \in Nat /\ NUM_PAG_CODE >= 1 /\ NUM_PAG_KERNEL \in Nat
      /\ TOTAL_PAGES \in Nat
  BY MemoryAssumption
<1>2. M \in Nat /\ NUM_PAG_KERNEL + 2 * (M - 1) < TOTAL_PAGES
  <2>1. NR_TASKS - 1 \in Nat /\ NUM_PAG_DATA \in Nat
    BY TasksAssumption, MemoryAssumption
  <2>2. (NR_TASKS - 1) * NUM_PAG_DATA \in Nat
    BY <2>1
  <2> QED  BY <1>1, <2>2 DEF EnoughFrames
<1>3. child \in Task \ {idle_task} /\ pag \in Data /\ <<child, pag>> \in Holders
  BY MemoryAssumption DEF MIInv, MTypeOK, forking, Data, Holders
<1>4. IsFiniteSet(H) /\ Cardinality(H) = M - 1
  BY <1>3, HoldersCount, FS_RemoveElement, Zenon
<1>5. Held(<<child, pag>>) = 0
  <2>1. child \notin live /\ ~ (pag < pag)
    BY <1>3, MemoryAssumption DEF MIInv, Spaces, Data
  <2> QED  BY <1>3, <2>1 DEF MIInv, Spaces, Held
<1> HIDE DEF M
<1>6. SUFFICES ASSUME free_frames = {} PROVE FALSE
  OBVIOUS
<1>7. ASSUME NEW k \in 1 .. M
      PROVE  \E h \in H : Held(h) = frame(k)
  <2>1. frame(k) \in Frame /\ frame(k) >= NUM_PAG_KERNEL /\ frame(k) # 0
        /\ (frame(k) - NUM_PAG_KERNEL) % 2 = 0
    <3>1. frame(k) \in Nat /\ frame(k) >= NUM_PAG_KERNEL
          /\ frame(k) <= TOTAL_PAGES - 1 /\ frame(k) # 0
      BY <1>1, <1>2, MemoryAssumption
    <3>2. frame(k) - NUM_PAG_KERNEL = 2 * (k - 1) /\ k - 1 \in Nat
      BY <1>1, <1>2
    <3>3. (2 * (k - 1)) % 2 = 0
      BY <3>2
    <3> QED  BY <1>1, <3>1, <3>2, <3>3 DEF Frame
  <2> HIDE DEF frame
  <2>2. frame(k) \in phys_mem
    BY <1>6, <2>1 DEF free_frames
  <2>3. frame(k) \notin init_frames
    BY <1>1, <2>1 DEF init_frames, Frame
  <2>4. CASE frame(k) \in CodeFrames
    <3>1. PICK p \in Code : frame(k) = boot_frame(p)
      BY <2>4 DEF CodeFrames
    <3>2. <<idle_task, p>> \in H /\ Held(<<idle_task, p>>) = frame(k)
      BY <1>3, <3>1 DEF Holders, Held
    <3> QED  BY <3>2
  <2>5. CASE frame(k) \notin CodeFrames
    <3>1. PICK t \in Task, p \in Data : pagusr_table[t][p] = frame(k)
      BY <2>2, <2>3, <2>5, Accounted DEF MIInv, Fixed
    <3>2. t # idle_task
      <4>1. idle_task \notin live /\ idle_task # child /\ idle_task \in Task
        BY <1>3, Constants DEF MIInv, MTypeOK
      <4>2. pagusr_table[idle_task][p] = 0
        BY <4>1 DEF MIInv, Spaces
      <4> QED  BY <2>1, <3>1, <4>2
    <3>3. <<t, p>> \in Holders /\ Held(<<t, p>>) = frame(k)
      BY <3>1, <3>2 DEF Holders, Held
    <3> QED  BY <1>5, <2>1, <3>3
  <2> QED  BY <2>4, <2>5
<1> DEFINE g == [k \in 1 .. M |-> CHOOSE h \in H : Held(h) = frame(k)]
<1>8. \A k \in 1 .. M : g[k] \in H /\ Held(g[k]) = frame(k)
  BY <1>7
<1>9. IsFiniteSet(1 .. M) /\ Cardinality(1 .. M) = M
  BY <1>2, FS_Interval
<1> HIDE DEF H
<1>10. g \in [1 .. M -> H]
  BY <1>8
<1>11. PICK j, k \in 1 .. M : j # k /\ g[j] = g[k]
  <2>1. M - 1 < M
    BY <1>2
  <2> HIDE DEF g
  <2> QED  BY <1>4, <1>9, <1>10, <2>1, FS_PigeonHole, Zenon
<1>12. frame(j) = frame(k)
  BY <1>8, <1>11
<1> QED  BY <1>1, <1>2, <1>11, <1>12

(* Each step of the kernel keeps every slot in use or free.                *)
LEMMA SlotsStep == KInv /\ NoSlotLost /\ [KNext]_kernelVars => NoSlotLost'
<1> SUFFICES ASSUME KInv, EnoughFrames, [KNext]_kernelVars,
                    Task = {idle_task} \cup Process \cup Range(freeq)
             PROVE  Task = {idle_task} \cup Process' \cup Range(freeq')
  BY DEF NoSlotLost, EnoughFrames
<1>0. /\ IInv /\ MIInv /\ ForkFillsHead /\ freeq \in Seq(Task) /\ IsInjective(freeq)
      /\ current \in Task
  BY DEF KInv, IInv, TypeOK, OnePlace
<1>1. ASSUME clock_service
      PROVE  Process' = Process /\ freeq' = freeq
  BY <1>0, <1>1, TickProcess, Tick, SMTT(30) DEF clock_service, scheduler
<1>2. ASSUME block
      PROVE  Process' = Process /\ freeq' = freeq
  BY <1>0, <1>2, BlockProcess, SMTT(30) DEF block, sys_block, sched_next_rr
<1>3. ASSUME NEW pid \in 0 .. MAX_PID + 1, unblock(pid)
      PROVE  Process' = Process /\ freeq' = freeq
  BY <1>0, <1>3, UnblockProcess DEF unblock, sys_unblock, vars, wake
<1>4. CASE exit_process
  <2>1. Process' = Process \ {current} /\ current \in Process
    BY <1>0, <1>4, ExitProcess DEF exit_process
  <2>2. Range(freeq') = Range(freeq) \cup {current}
    BY <1>0, <1>4, AppendQueue DEF exit_process, sys_exit, list_add_tail
  <2> QED  BY <2>1, <2>2
<1>5. CASE fork_succeeds
  <2>1. freeq # <<>>
    BY <1>0, <1>5 DEF fork_succeeds, fork_end, ForkFillsHead
  <2>2. Process' = Process \cup {Head(freeq)}
    BY <1>0, <1>5, <2>1, ForkProcess, Zenon DEF fork_succeeds
  <2>3. Range(freeq') = Range(freeq) \ {Head(freeq)} /\ Head(freeq) \in Task
    BY <1>0, <1>5, <2>1, TailQueue, Zenon DEF fork_succeeds, sys_fork
  <2> QED  BY <2>2, <2>3
<1>6. ~ fork_fails
  BY <1>0, AllocServes, Zenon DEF fork_fails, fork_fail
<1>7. ASSUME NEW p \in Data, NEW v \in Value, store(p, v)
      PROVE  UNCHANGED vars
  BY <1>7 DEF store
<1>8. ASSUME \/ fork_no_slot \/ fork_begins \/ fork_copies
             \/ segmentation_fault_service \/ UNCHANGED kernelVars
      PROVE  UNCHANGED vars
  BY <1>8 DEF fork_no_slot, sys_fork, fork_begins, fork_copies,
              segmentation_fault_service, kernelVars
<1>9. ASSUME UNCHANGED vars
      PROVE  Process' = Process /\ freeq' = freeq
  BY <1>9 DEF vars, Process
<1> QED  BY <1>1, <1>2, <1>3, <1>4, <1>5, <1>6, <1>7, <1>8, <1>9 DEF KNext

(* With frames for every slot fork never runs out of them, so that the     *)
(* error path that drops the slot is dead code and no slot is ever lost.   *)
THEOREM NoSlotLostHolds == KSpec => []NoSlotLost
<1>1. ASSUME KInit
      PROVE  NoSlotLost
  <2>1. Process = {init_task}
    BY <1>1, EmptyRange DEF KInit, Init, Process, init_task, idle_task
  <2>2. /\ DOMAIN freeq = 1 .. NR_TASKS - 2
        /\ \A i \in 1 .. NR_TASKS - 2 : freeq[i] = i + 1
    BY <1>1 DEF KInit, Init
  <2>3. \A t \in Task \ {idle_task, init_task} :
          t - 1 \in 1 .. NR_TASKS - 2 /\ freeq[t - 1] = t
    BY <2>2, TasksAssumption DEF Task, idle_task, init_task
  <2>4. Range(freeq) = Task \ {idle_task, init_task}
    <3>1. \A x \in Range(freeq) : x \in Task \ {idle_task, init_task}
      BY <2>2, TasksAssumption DEF Range, Task, idle_task, init_task
    <3>2. \A x \in Task \ {idle_task, init_task} : x \in Range(freeq)
      BY <2>2, <2>3 DEF Range
    <3> QED  BY <3>1, <3>2
  <2> QED  BY <2>1, <2>4, Constants DEF NoSlotLost
<1> QED  BY <1>1, KernelInv, SlotsStep, PTL DEF KSpec
=============================================================================
