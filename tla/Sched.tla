------------------------------- MODULE Sched -------------------------------
(***************************************************************************)
(* The process manager of the kernel: the round-robin scheduler of sched.c *)
(* and the process system calls of sys.c (fork, exit, block, unblock).     *)
(*                                                                         *)
(* Every handler runs with interrupts disabled (all IDT entries are        *)
(* interrupt gates), so one handler is one action.  The queues threaded    *)
(* through task_struct.anchor are sequences of slots; the orders of        *)
(* `blocked' and of a `childs' list are never read by the code, so these   *)
(* two are sets.  What the frame allocator answers during a fork is an     *)
(* input of sys_fork here; module Kernel connects it to module Memory.     *)
(***************************************************************************)
EXTENDS Tasks, Sequences, Functions

CONSTANTS
  QUANTUM,      \* quantum given to the first user process (100 in the code)
  INT_MAX,      \* largest int: quantum_ticks wraps around below -INT_MAX-1
  MAX_PID,      \* bound: no fork once last_pid has reached it
  MAX_PENDING   \* bound: no unblock of a task with this many pending unblocks

ASSUME SchedAssumption ==
  /\ QUANTUM \in Nat /\ INT_MAX \in Nat /\ QUANTUM <= INT_MAX /\ 1 <= INT_MAX
  /\ MAX_PID \in Nat /\ MAX_PENDING \in Nat

INT_MIN == -INT_MAX - 1

VARIABLES
  current,          \* slot whose kernel stack %esp points into
  readyq, freeq,    \* run queue and queue of unused slots
  blocked,          \* tasks suspended by sys_block
  quantum_ticks,    \* ticks left to the running task
  last_pid,         \* last PID given out
  PID, quantum, parent, childs, pending_unblocks   \* fields of task_struct

vars == <<current, readyq, freeq, blocked, quantum_ticks, last_pid,
          PID, quantum, parent, childs, pending_unblocks>>

(* State left by init_sched, init_idle and init_task1.  main() enables     *)
(* interrupts a few instructions before it drops to user mode while still  *)
(* on the stack of task[3]; a tick there reloads quantum_ticks from that   *)
(* unused slot's zero quantum.                                             *)
Init ==
  /\ current = init_task
  /\ readyq = <<>>
  /\ freeq = [i \in 1 .. NR_TASKS - 2 |-> i + 1]
  /\ blocked = {}
  /\ quantum_ticks \in {QUANTUM, 0}
  /\ last_pid = 1
  /\ PID = [t \in Task |-> IF t = init_task THEN 1 ELSE 0]
  /\ quantum = [t \in Task |-> IF t = idle_task THEN 1
                               ELSE IF t = init_task THEN QUANTUM ELSE 0]
  /\ parent = [t \in Task |-> NULL]
  /\ childs = [t \in Task |-> {}]
  /\ pending_unblocks = [t \in Task |-> 0]

-----------------------------------------------------------------------------
(* Scheduling policy.                                                      *)

list_del(q, t) == IF t \in Range(q) THEN SelectSeq(q, LAMBDA x : x # t) ELSE q

list_add_tail(q, t) == Append(q, t)

(* --quantum_ticks on a two's complement int.                              *)
update_sched_data_rr == IF quantum_ticks = INT_MIN THEN INT_MAX
                                                   ELSE quantum_ticks - 1

Bug_next_not_removed(q) ==
  IF q = <<>> THEN current' = idle_task /\ readyq' = q
              ELSE current' = Head(q) /\ readyq' = q

Bug_next_last_ready_ignored(q) ==
  IF Len(q) <= 1 THEN current' = idle_task /\ readyq' = q
                 ELSE current' = Head(q) /\ readyq' = Tail(q)

(* Dispatches the head of the ready queue q, or idle when q is empty.      *)
sched_next_rr(q) ==
  IF q = <<>> THEN current' = idle_task /\ readyq' = q
              ELSE current' = Head(q) /\ readyq' = Tail(q)

Bug_reload_always(ticks) == quantum[current]

(* needs_sched_rr reloads quantum_ticks when nobody waits for the CPU ...  *)
reload(ticks) == IF readyq = <<>> THEN quantum[current] ELSE ticks

(* ... and asks for a switch when the ticks are used up.                   *)
needs_sched_rr(ticks) == ticks < 0

(* scheduler(), called on every clock interrupt.  The running task is      *)
(* unlinked from whatever queue holds it and appended to the ready queue.  *)
scheduler ==
  LET ticks == reload(update_sched_data_rr)
  IN  /\ quantum_ticks' = ticks
      /\ IF needs_sched_rr(ticks)
         THEN /\ sched_next_rr(list_add_tail(list_del(readyq, current), current))
              /\ freeq' = list_del(freeq, current)
              /\ blocked' = blocked \ {current}
         ELSE UNCHANGED <<current, readyq, freeq, blocked>>
      /\ UNCHANGED <<last_pid, PID, quantum, parent, childs, pending_unblocks>>

-----------------------------------------------------------------------------
(* System calls.  Only user processes make them: cpu_idle just spins.      *)

Bug_pid_reused(pos) == IF last_pid = pos THEN last_pid + 1 ELSE last_pid

(* PIDs are consecutive, skipping one equal to the slot number.            *)
new_pid(pos) == IF last_pid + 1 = pos THEN last_pid + 2 ELSE last_pid + 1

(* sys_fork when every frame of the child could be allocated: the whole    *)
(* task_struct is copied and then PID, parent, childs and anchor are set.  *)
fork_done(new) ==
  /\ last_pid' = new_pid(new)
  /\ PID' = [PID EXCEPT ![new] = new_pid(new)]
  /\ parent' = [parent EXCEPT ![new] = current]
  /\ childs' = [childs EXCEPT ![new] = {}, ![current] = childs[current] \cup {new}]
  /\ readyq' = list_add_tail(readyq, new)

(* sys_fork when alloc_frame fails: the copy of the task_struct has been   *)
(* made, and the slot is not put back on the free queue.                   *)
fork_no_frame(new) ==
  /\ PID' = [PID EXCEPT ![new] = PID[current]]
  /\ parent' = [parent EXCEPT ![new] = parent[current]]
  /\ childs' = [childs EXCEPT ![new] = childs[current]]
  /\ UNCHANGED <<last_pid, readyq>>

(* frames: whether the frame allocator can serve this fork.                *)
sys_fork(frames) ==
  /\ current # idle_task
  /\ last_pid < MAX_PID
  /\ \/ /\ freeq = <<>>                   \* returns -1
        /\ UNCHANGED vars
     \/ /\ freeq # <<>>
        /\ LET new == Head(freeq)
           IN  /\ freeq' = Tail(freeq)
               /\ quantum' = [quantum EXCEPT ![new] = quantum[current]]
               /\ pending_unblocks' =
                    [pending_unblocks EXCEPT ![new] = pending_unblocks[current]]
               /\ IF frames THEN fork_done(new) ELSE fork_no_frame(new)
        /\ UNCHANGED <<current, blocked, quantum_ticks>>

Bug_exit_keeps_children(t) ==
  /\ childs' = IF parent[t] # NULL THEN [p \in Task |-> childs[p] \ {t}]
                                   ELSE childs
  /\ parent' = parent

(* sys_exit's work on the family tree: t leaves its parent's list and its  *)
(* children become children of idle.                                       *)
exit_family(t) ==
  LET left == IF parent[t] # NULL THEN [p \in Task |-> childs[p] \ {t}]
                                  ELSE childs
  IN  /\ childs' = [left EXCEPT ![t] = {}, ![idle_task] = left[idle_task] \cup left[t]]
      /\ parent' = [c \in Task |-> IF c \in left[t] THEN idle_task ELSE parent[c]]

sys_exit ==
  /\ current # idle_task
  /\ exit_family(current)
  /\ freeq' = list_add_tail(freeq, current)
  /\ sched_next_rr(readyq)
  /\ UNCHANGED <<blocked, quantum_ticks, last_pid, PID, quantum, pending_unblocks>>

Bug_block_counts_down == pending_unblocks[current] >= 0

(* An unblock has come before the block.                                   *)
unblock_pending == pending_unblocks[current] # 0

sys_block ==
  /\ current # idle_task
  /\ \/ /\ unblock_pending
        /\ pending_unblocks' = [pending_unblocks EXCEPT ![current] = @ - 1]
        /\ UNCHANGED <<current, readyq, blocked>>
     \/ /\ ~ unblock_pending
        /\ blocked' = blocked \cup {current}
        /\ sched_next_rr(readyq)
        /\ UNCHANGED pending_unblocks
  /\ UNCHANGED <<freeq, quantum_ticks, last_pid, PID, quantum, parent, childs>>

Bug_wake_lost(child) ==
  /\ pending_unblocks' = [pending_unblocks EXCEPT ![child] = @ + 1]
  /\ UNCHANGED <<blocked, readyq>>

(* sys_unblock once the child is found: it is moved from the blocked to    *)
(* the ready queue, or the wake-up is counted for its next sys_block.      *)
wake(child) ==
  IF child \in blocked
  THEN /\ blocked' = blocked \ {child}
       /\ readyq' = list_add_tail(readyq, child)
       /\ UNCHANGED pending_unblocks
  ELSE /\ pending_unblocks' = [pending_unblocks EXCEPT ![child] = @ + 1]
       /\ UNCHANGED <<blocked, readyq>>

Bug_found_anywhere(pid) == {c \in blocked : PID[c] = pid}

(* The children of the caller that carry this PID.                         *)
find_child(pid) == {c \in childs[current] : PID[c] = pid}

sys_unblock(pid) ==
  /\ current # idle_task
  /\ \/ /\ find_child(pid) = {}           \* returns -1
        /\ UNCHANGED vars
     \/ /\ \E child \in find_child(pid) :
             /\ pending_unblocks[child] < MAX_PENDING
             /\ wake(child)
        /\ UNCHANGED <<current, freeq, quantum_ticks, last_pid,
                       PID, quantum, parent, childs>>

Next ==
  \/ scheduler
  \/ \E frames \in BOOLEAN : sys_fork(frames)
  \/ sys_exit
  \/ sys_block
  \/ \E pid \in 0 .. MAX_PID + 1 : sys_unblock(pid)

(* The timer keeps interrupting: handlers end with iret, user processes    *)
(* and cpu_idle run with interrupts enabled.                               *)
Fairness == WF_vars(scheduler)

Spec == Init /\ [][Next]_vars /\ Fairness

-----------------------------------------------------------------------------
(* Properties.                                                             *)

(* The user processes that run or can run again.                           *)
Process == ({current} \cup Range(readyq) \cup blocked) \ {idle_task}

(* The type invariant.                                                     *)
TypeOK ==
  /\ current \in Task
  /\ readyq \in Seq(Task) /\ freeq \in Seq(Task)
  /\ blocked \subseteq Task
  /\ quantum_ticks \in INT_MIN .. INT_MAX
  /\ last_pid \in Nat
  /\ PID \in [Task -> Nat] /\ quantum \in [Task -> 0 .. INT_MAX]
  /\ parent \in [Task -> Task \cup {NULL}]
  /\ childs \in [Task -> SUBSET Task]
  /\ pending_unblocks \in [Task -> Nat]

(* Each slot is in at most one place: running, once in the ready queue,    *)
(* once in the free queue, or blocked; idle is never in a queue.  A slot   *)
(* in two places would be linked twice through its one anchor, or run      *)
(* while sys_fork hands it out again.                                      *)
OnePlace ==
  /\ IsInjective(readyq) /\ IsInjective(freeq)
  /\ current \notin Range(readyq) /\ current \notin Range(freeq)
  /\ current \notin blocked
  /\ Range(readyq) \cap Range(freeq) = {}
  /\ Range(readyq) \cap blocked = {} /\ Range(freeq) \cap blocked = {}
  /\ idle_task \notin Range(readyq) \cup Range(freeq) \cup blocked

(* No wake-up is lost: a task never sleeps in the blocked queue while an   *)
(* unblock addressed to it is still counted in pending_unblocks.           *)
NoLostWakeup == \A t \in blocked : pending_unblocks[t] = 0

(* The two representations of the process tree agree and it is a tree: the *)
(* childs lists hold exactly the processes whose parent field points back, *)
(* no process points at a slot that was freed (and may be someone else by  *)
(* now), and parents are older than their children.                        *)
FamilyTree ==
  /\ \A p \in Process \cup {idle_task} : \A c \in childs[p] :
       c \in Process /\ parent[c] = p /\ PID[p] < PID[c]
  /\ \A c \in Process : parent[c] # NULL =>
       parent[c] \in Process \cup {idle_task} /\ c \in childs[parent[c]]

(* Two user processes never have the same PID, whatever slots are recycled *)
(* and whatever forks fail half way.                                       *)
UniquePID ==
  \A s, t \in Process : PID[s] \in 1 .. last_pid /\ (PID[s] = PID[t] => s = t)

(* idle runs only when nobody is ready and then runs for ever: only a      *)
(* running parent can unblock a task, so once every task is blocked or     *)
(* gone the machine never leaves cpu_idle.                                 *)
IdleIsForever ==
  [][current = idle_task => readyq = <<>> /\ current' = idle_task]_vars

(* A blocked task leaves the blocked queue only for the ready queue, while *)
(* its parent runs; orphans handed over to idle therefore sleep for ever.  *)
WokenByParent ==
  [][\A t \in blocked \ blocked' :
       parent[t] = current /\ current # idle_task /\ t \in Range(readyq')]_vars

(* Round robin: a ready task eventually runs, even if quantum_ticks (which *)
(* sched_next_rr does not reload) runs all the way down and wraps around.  *)
NoStarvation == \A t \in Task : t \in Range(readyq) ~> current = t
=============================================================================
