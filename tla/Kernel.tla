------------------------------- MODULE Kernel -------------------------------
(***************************************************************************)
(* The kernel: the process manager (Sched) over the memory manager         *)
(* (Memory).  Each handler of Sched is joined with what the same handler   *)
(* does to memory.  A fork is the loop of Memory, at whose end Sched's     *)
(* sys_fork takes effect; nothing else runs in between.  A page fault      *)
(* never returns: its handler ends in an endless loop with interrupts      *)
(* disabled.                                                               *)
(***************************************************************************)
EXTENDS Sched, Memory

VARIABLE halted   \* the page fault handler has been entered

kernelVars == <<vars, memVars, halted>>

KInit == Init /\ MInit /\ halted = FALSE

(* A handler can be entered: no handler is running.                        *)
ready == ~ halted /\ ~ forking

Bug_switch_keeps_cr3 == UNCHANGED memVars

(* The address space follows the task that runs next.                      *)
switch_space == IF current' = current THEN UNCHANGED memVars
                                      ELSE task_switch(current')

clock_service == ready /\ scheduler /\ switch_space /\ UNCHANGED halted

block == ready /\ sys_block /\ switch_space /\ UNCHANGED halted

unblock(pid) == ready /\ sys_unblock(pid) /\ UNCHANGED <<memVars, halted>>

exit_process == ready /\ sys_exit /\ exit(current') /\ UNCHANGED halted

fork_no_slot == /\ ready /\ freeq = <<>> /\ sys_fork(TRUE)
                /\ UNCHANGED <<memVars, halted>>

fork_begins == /\ ready /\ freeq # <<>> /\ last_pid < MAX_PID
               /\ fork_start(Head(freeq))
               /\ UNCHANGED <<vars, halted>>

fork_copies == fork_page /\ UNCHANGED <<vars, halted>>

fork_succeeds == fork_end /\ sys_fork(TRUE) /\ UNCHANGED halted

fork_fails == fork_fail /\ sys_fork(FALSE) /\ UNCHANGED halted

(* User code stores into its data.                                         *)
store(p, v) == ready /\ user_write(p, v) /\ UNCHANGED <<vars, halted>>

(* User code touches a page that is not mapped.                            *)
segmentation_fault_service == /\ ready /\ current # idle_task
                              /\ halted' = TRUE
                              /\ UNCHANGED <<vars, memVars>>

KNext ==
  \/ clock_service \/ block \/ exit_process
  \/ \E pid \in 0 .. MAX_PID + 1 : unblock(pid)
  \/ fork_no_slot \/ fork_begins \/ fork_copies \/ fork_succeeds \/ fork_fails
  \/ \E p \in Data, v \in Value : store(p, v)
  \/ segmentation_fault_service

(* Handlers run to their end; the clock keeps interrupting user code.      *)
KSpec ==
  /\ KInit /\ [][KNext]_kernelVars
  /\ WF_kernelVars(clock_service)
  /\ WF_kernelVars(fork_copies \/ fork_succeeds \/ fork_fails)

-----------------------------------------------------------------------------
(* Properties.                                                             *)

(* The CPU always translates with the page table of the running task, and  *)
(* exactly the processes the scheduler knows have an address space.        *)
SpaceOfCurrent == cr3 = current /\ live = Process

(* Frames for every slot at once.  The shipped sizes give 384 where 8 + 9  *)
(* times 20 are needed.                                                    *)
EnoughFrames ==
  NUM_PAG_KERNEL + 2 * (NUM_PAG_CODE + (NR_TASKS - 1) * NUM_PAG_DATA - 1) < TOTAL_PAGES

(* With frames for every slot no slot is ever lost: each one is free, a    *)
(* process or idle, so that fork fails only when all slots are taken.      *)
NoSlotLost == EnoughFrames => Task = {idle_task} \cup Process \cup Range(freeq)

(* A ready task eventually runs, unless some process hits a page fault:    *)
(* that stops every process.                                               *)
NoStarvationUnlessHalted ==
  \A t \in Task : t \in Range(readyq) ~> (current = t \/ halted)
=============================================================================
