---------------------------- MODULE SchedProofs ----------------------------
(***************************************************************************)
(* Proofs about Sched for every number of slots, every quantum and every   *)
(* bound.  The inductive invariant is TypeOK /\ OnePlace /\ IdleAlone:     *)
(* that the running task can be appended to the ready queue without being  *)
(* linked twice needs OnePlace, and that idle is never the task appended   *)
(* needs IdleAlone.                                                        *)
(*                                                                         *)
(* With it the process manager implements ProcStates: a slot has one state *)
(* because it is in one place, and the children exit hands over to idle    *)
(* are those whose parent field names the caller because lists and fields  *)
(* agree (FamilyTree).                                                     *)
(***************************************************************************)
EXTENDS SchedRefines, TLAPS

-----------------------------------------------------------------------------
(* Queues.                                                                 *)

(* Appending a new element to a duplicate-free queue.                      *)
LEMMA AppendQueue ==
  ASSUME NEW S, NEW q \in Seq(S), NEW e \in S
  PROVE  /\ Append(q, e) \in Seq(S)
         /\ Append(q, e) # <<>>
         /\ Range(Append(q, e)) = Range(q) \cup {e}
         /\ IsInjective(q) /\ e \notin Range(q) => IsInjective(Append(q, e))
<1> DEFINE a == Append(q, e)
<1>1. /\ a \in Seq(S) /\ DOMAIN q = 1 .. Len(q) /\ Len(q) \in Nat
      /\ DOMAIN a = 1 .. Len(q) + 1
      /\ \A i \in 1 .. Len(q) : a[i] = q[i]
      /\ a[Len(q) + 1] = e
      /\ a # <<>>
  OBVIOUS
<1> HIDE DEF a
<1>2. Range(a) = Range(q) \cup {e}
  <2>1. \A x \in Range(a) : x \in Range(q) \cup {e}
    BY <1>1 DEF Range
  <2>2. \A x \in Range(q) \cup {e} : x \in Range(a)
    BY <1>1 DEF Range
  <2> QED  BY <2>1, <2>2
<1>3. IsInjective(q) /\ e \notin Range(q) => IsInjective(a)
  BY <1>1 DEF Range, IsInjective
<1> QED  BY <1>1, <1>2, <1>3 DEF a

(* Removing the head of a duplicate-free queue.                            *)
LEMMA TailQueue ==
  ASSUME NEW S, NEW q \in Seq(S), q # <<>>, IsInjective(q)
  PROVE  /\ Head(q) \in S /\ Head(q) \in Range(q)
         /\ Tail(q) \in Seq(S)
         /\ Range(Tail(q)) = Range(q) \ {Head(q)}
         /\ IsInjective(Tail(q))
<1> DEFINE t == Tail(q)
           h == Head(q)
<1>1. /\ t \in Seq(S) /\ h \in S
      /\ Len(q) \in Nat /\ Len(q) >= 1
      /\ DOMAIN q = 1 .. Len(q) /\ DOMAIN t = 1 .. Len(q) - 1
      /\ \A i \in 1 .. Len(q) - 1 : t[i] = q[i + 1]
      /\ h = q[1]
  OBVIOUS
<1> HIDE DEF t, h
<1>2. \A i \in 2 .. Len(q) : q[i] = t[i - 1] /\ i - 1 \in 1 .. Len(q) - 1
  BY <1>1
<1>3. h \in Range(q)
  BY <1>1 DEF Range
<1>4. IsInjective(t)
  BY <1>1, SMTT(30) DEF IsInjective
<1>5. Range(t) = Range(q) \ {h}
  <2>1. \A x \in Range(t) : x \in Range(q) /\ x # h
    BY <1>1, SMTT(30) DEF Range, IsInjective
  <2>2. \A x \in Range(q) : x # h => x \in Range(t)
    <3> SUFFICES ASSUME NEW i \in 1 .. Len(q), q[i] # h
                 PROVE  q[i] \in Range(t)
      BY <1>1 DEF Range
    <3>1. i \in 2 .. Len(q)
      BY <1>1
    <3> QED  BY <3>1, <1>1, <1>2 DEF Range
  <2> QED  BY <2>1, <2>2
<1> QED  BY <1>1, <1>3, <1>4, <1>5 DEF t, h

(* The empty queue holds nothing.                                          *)
LEMMA EmptyRange == Range(<<>>) = {}
  BY DEF Range

(* What sched_next_rr does to a duplicate-free queue of user tasks: the    *)
(* task it dispatches leaves the queue, and is idle only if it was empty.  *)
LEMMA Dispatch ==
  ASSUME NEW q \in Seq(Task), IsInjective(q), idle_task \notin Range(q),
         sched_next_rr(q)
  PROVE  /\ current' \in Task /\ readyq' \in Seq(Task)
         /\ IsInjective(readyq')
         /\ current' = idle_task \/ current' \in Range(q)
         /\ Range(readyq') = Range(q) \ {current'}
         /\ current' \notin Range(readyq')
         /\ current' = idle_task => readyq' = <<>>
         /\ q # <<>> => current' # idle_task
<1> idle_task \in Task
  BY TasksAssumption DEF idle_task, Task
<1>1. CASE q = <<>>
  BY <1>1, EmptyRange DEF sched_next_rr
<1>2. CASE q # <<>>
  <2>1. current' = Head(q) /\ readyq' = Tail(q)
    BY <1>2 DEF sched_next_rr
  <2>2. /\ Head(q) \in Task /\ Head(q) \in Range(q)
        /\ Tail(q) \in Seq(Task)
        /\ Range(Tail(q)) = Range(q) \ {Head(q)}
        /\ IsInjective(Tail(q))
    BY <1>2, TailQueue
  <2> QED  BY <2>1, <2>2, <1>2
<1> QED  BY <1>1, <1>2

-----------------------------------------------------------------------------
(* Types and queues.                                                       *)

(* idle runs only when the ready queue is empty.                           *)
IdleAlone == current = idle_task => readyq = <<>>

IInv == TypeOK /\ OnePlace /\ IdleAlone

(* The state left by booting satisfies the inductive invariant.            *)
LEMMA InitIInv == Init => IInv
<1> SUFFICES ASSUME Init PROVE IInv
  OBVIOUS
<1> USE TasksAssumption, SchedAssumption DEF Task, idle_task, init_task, NULL, INT_MIN
<1>1. freeq \in Seq(Task) /\ DOMAIN freeq = 1 .. NR_TASKS - 2
  <2>1. NR_TASKS - 2 \in Nat /\ \A i \in 1 .. NR_TASKS - 2 : i + 1 \in Task
    OBVIOUS
  <2> QED  BY <2>1 DEF Init
<1>2. TypeOK
  BY <1>1 DEF Init, TypeOK
<1>3. Range(freeq) = 2 .. NR_TASKS - 1
  <2>1. \A x \in Range(freeq) : x \in 2 .. NR_TASKS - 1
    BY DEF Init, Range
  <2>2. ASSUME NEW x \in 2 .. NR_TASKS - 1 PROVE x \in Range(freeq)
    <3>1. x - 1 \in DOMAIN freeq /\ freeq[x - 1] = x
      BY DEF Init
    <3> QED  BY <3>1 DEF Range
  <2> QED  BY <2>1, <2>2, Zenon
<1>4. IsInjective(freeq)
  BY DEF Init, IsInjective
<1>5. Range(readyq) = {} /\ IsInjective(readyq)
  BY EmptyRange DEF Init, IsInjective
<1>6. OnePlace
  <2>1. current = 1 /\ blocked = {}
    BY DEF Init
  <2>2. 0 \notin Range(freeq) /\ 1 \notin Range(freeq)
    BY <1>3
  <2> QED  BY <1>4, <1>5, <2>1, <2>2 DEF OnePlace
<1> QED  BY <1>2, <1>6 DEF Init, IInv, IdleAlone

(* A tick: either nothing moves or the running task, which is not idle,    *)
(* goes to the tail of the ready queue and its head is dispatched.         *)
LEMMA Tick ==
  ASSUME IInv, scheduler
  PROVE  /\ quantum_ticks' \in INT_MIN .. INT_MAX
         /\ UNCHANGED <<freeq, blocked>>
         /\ \/ UNCHANGED <<current, readyq>>
            \/ /\ current # idle_task
               /\ readyq # <<>>
               /\ sched_next_rr(Append(readyq, current))
<1> USE DEF IInv, TypeOK
<1> DEFINE ticks == reload(update_sched_data_rr)
<1>1. ticks \in INT_MIN .. INT_MAX
  BY SchedAssumption, SMTT(30) DEF reload, update_sched_data_rr, INT_MIN
<1>2. quantum_ticks' = ticks
  BY DEF scheduler
<1>3. list_del(readyq, current) = readyq /\ list_del(freeq, current) = freeq
  BY DEF list_del, OnePlace
<1>4. CASE ~ needs_sched_rr(ticks)
  BY <1>1, <1>2, <1>4 DEF scheduler
<1>5. CASE needs_sched_rr(ticks)
  <2>1. /\ sched_next_rr(Append(readyq, current))
        /\ freeq' = freeq /\ blocked' = blocked \ {current}
    BY <1>3, <1>5 DEF scheduler, list_add_tail
  <2>2. readyq # <<>>
    BY <1>5, SchedAssumption DEF needs_sched_rr, reload
  <2> QED  BY <1>1, <1>2, <2>1, <2>2 DEF OnePlace, IdleAlone
<1> QED  BY <1>4, <1>5

(* Every handler preserves the inductive invariant.                        *)
LEMMA NextIInv == IInv /\ [Next]_vars => IInv'
<1> SUFFICES ASSUME IInv, [Next]_vars PROVE IInv'
  OBVIOUS
<1> idle_task \in Task /\ NULL \notin Task
  BY TasksAssumption DEF idle_task, Task, NULL
<1> USE DEF IInv
<1>1. CASE scheduler
  <2>1. /\ quantum_ticks' \in INT_MIN .. INT_MAX
        /\ UNCHANGED <<freeq, blocked, last_pid, PID, quantum, parent, childs,
                       pending_unblocks>>
    BY <1>1, Tick DEF scheduler
  <2>2. CASE UNCHANGED <<current, readyq>>
    <3>1. TypeOK'
      BY <2>1, <2>2 DEF TypeOK
    <3>2. OnePlace' /\ IdleAlone'
      BY <2>1, <2>2 DEF OnePlace, IdleAlone
    <3> QED  BY <3>1, <3>2
  <2>3. CASE /\ current # idle_task /\ readyq # <<>>
             /\ sched_next_rr(Append(readyq, current))
    <3> DEFINE q == Append(readyq, current)
    <3>1. /\ q \in Seq(Task) /\ Range(q) = Range(readyq) \cup {current}
          /\ IsInjective(q) /\ idle_task \notin Range(q)
          /\ q # <<>>
      <4>1. /\ readyq \in Seq(Task) /\ current \in Task /\ IsInjective(readyq)
            /\ current \notin Range(readyq) /\ idle_task \notin Range(readyq)
        BY DEF TypeOK, OnePlace
      <4>2. /\ q \in Seq(Task) /\ q # <<>>
            /\ Range(q) = Range(readyq) \cup {current} /\ IsInjective(q)
        BY <4>1, AppendQueue
      <4> QED  BY <2>3, <4>1, <4>2
    <3> HIDE DEF q
    <3>2. sched_next_rr(q)
      BY <2>3 DEF q
    <3>3. /\ current' \in Task /\ readyq' \in Seq(Task)
          /\ IsInjective(readyq')
          /\ current' \in Range(q)
          /\ Range(readyq') = Range(q) \ {current'}
          /\ current' # idle_task
      BY <3>1, <3>2, Dispatch
    <3>4. TypeOK'
      BY <2>1, <3>3, SMTT(30) DEF TypeOK
    <3>5. OnePlace'
      BY <2>1, <3>1, <3>3 DEF OnePlace
    <3> QED  BY <3>3, <3>4, <3>5 DEF IdleAlone
  <2> QED  BY <1>1, <2>2, <2>3, Tick
<1>2. ASSUME NEW frames \in BOOLEAN, sys_fork(frames) PROVE IInv'
  <2>1. CASE UNCHANGED vars
    BY <2>1, Zenon DEF vars, TypeOK, OnePlace, IdleAlone
  <2>2. CASE freeq # <<>> /\ ~ UNCHANGED vars
    <3> DEFINE new == Head(freeq)
    <3>1. /\ new \in Task /\ new \in Range(freeq)
          /\ Tail(freeq) \in Seq(Task)
          /\ Range(Tail(freeq)) = Range(freeq) \ {new}
          /\ IsInjective(Tail(freeq))
      BY <2>2, TailQueue DEF TypeOK, OnePlace
    <3>2. /\ freeq' = Tail(freeq)
          /\ quantum' = [quantum EXCEPT ![new] = quantum[current]]
          /\ pending_unblocks' =
               [pending_unblocks EXCEPT ![new] = pending_unblocks[current]]
          /\ current # idle_task
          /\ UNCHANGED <<current, blocked, quantum_ticks>>
          /\ IF frames THEN fork_done(new) ELSE fork_no_frame(new)
      BY <1>2, <2>2 DEF sys_fork
    <3> HIDE DEF new
    <3>3. CASE frames
      <4>1. fork_done(new)
        BY <3>2, <3>3
      <4>2. /\ readyq' \in Seq(Task) /\ Range(readyq') = Range(readyq) \cup {new}
            /\ IsInjective(readyq')
        BY <3>1, <4>1, AppendQueue DEF fork_done, list_add_tail, TypeOK, OnePlace
      <4>3. last_pid' \in Nat /\ new_pid(new) \in Nat
        BY <4>1, SMTT(30) DEF fork_done, new_pid, TypeOK
      <4>4. TypeOK'
        BY <3>1, <3>2, <4>1, <4>2, <4>3, Zenon DEF TypeOK, fork_done
      <4>5. OnePlace'
        BY <3>1, <3>2, <4>2 DEF OnePlace
      <4> QED  BY <4>4, <4>5, <3>2 DEF IdleAlone
    <3>4. CASE ~ frames
      <4>1. fork_no_frame(new)
        BY <3>2, <3>4
      <4>2. TypeOK'
        BY <3>1, <3>2, <4>1, Zenon DEF TypeOK, fork_no_frame
      <4>3. OnePlace'
        BY <3>1, <3>2, <4>1 DEF OnePlace, fork_no_frame
      <4> QED  BY <4>2, <4>3, <3>2 DEF IdleAlone
    <3> QED  BY <3>3, <3>4
  <2> QED  BY <1>2, <2>1, <2>2 DEF sys_fork
<1>3. CASE sys_exit
  <2>1. /\ current # idle_task /\ exit_family(current)
        /\ freeq' = Append(freeq, current) /\ sched_next_rr(readyq)
        /\ UNCHANGED <<blocked, quantum_ticks, last_pid, PID, quantum,
                       pending_unblocks>>
    BY <1>3 DEF sys_exit, list_add_tail
  <2>2. /\ current' \in Task /\ readyq' \in Seq(Task)
        /\ IsInjective(readyq')
        /\ current' = idle_task \/ current' \in Range(readyq)
        /\ Range(readyq') = Range(readyq) \ {current'}
        /\ current' = idle_task => readyq' = <<>>
    BY <2>1, Dispatch DEF TypeOK, OnePlace
  <2>3. /\ freeq' \in Seq(Task) /\ Range(freeq') = Range(freeq) \cup {current}
        /\ IsInjective(freeq')
    BY <2>1, AppendQueue DEF TypeOK, OnePlace
  <2>4. /\ parent' \in [Task -> Task \cup {NULL}]
        /\ childs' \in [Task -> SUBSET Task]
    BY <2>1, Zenon DEF TypeOK, exit_family
  <2>5. TypeOK'
    BY <2>1, <2>2, <2>3, <2>4, Zenon DEF TypeOK
  <2>6. OnePlace'
    BY <2>1, <2>2, <2>3 DEF OnePlace
  <2> QED  BY <2>2, <2>5, <2>6 DEF IdleAlone
<1>4. CASE sys_block
  <2>1. /\ current # idle_task
        /\ UNCHANGED <<freeq, quantum_ticks, last_pid, PID, quantum, parent, childs>>
    BY <1>4 DEF sys_block
  <2>2. CASE /\ pending_unblocks[current] # 0
             /\ pending_unblocks' = [pending_unblocks EXCEPT ![current] = @ - 1]
             /\ UNCHANGED <<current, readyq, blocked>>
    BY <2>1, <2>2, SMTT(30) DEF TypeOK, OnePlace, IdleAlone
  <2>3. CASE /\ blocked' = blocked \cup {current}
             /\ sched_next_rr(readyq)
             /\ UNCHANGED pending_unblocks
    <3>1. /\ current' \in Task /\ readyq' \in Seq(Task)
          /\ IsInjective(readyq')
          /\ current' = idle_task \/ current' \in Range(readyq)
          /\ Range(readyq') = Range(readyq) \ {current'}
          /\ current' = idle_task => readyq' = <<>>
      BY <2>3, Dispatch DEF TypeOK, OnePlace
    <3>2. TypeOK'
      BY <2>1, <2>3, <3>1, Zenon DEF TypeOK
    <3>3. OnePlace'
      BY <2>1, <2>3, <3>1 DEF OnePlace
    <3> QED  BY <3>1, <3>2, <3>3 DEF IdleAlone
  <2> QED  BY <1>4, <2>2, <2>3 DEF sys_block, unblock_pending
<1>5. ASSUME NEW pid \in 0 .. MAX_PID + 1, sys_unblock(pid) PROVE IInv'
  <2>1. CASE UNCHANGED vars
    BY <2>1, Zenon DEF vars, TypeOK, OnePlace, IdleAlone
  <2>2. ASSUME NEW child \in find_child(pid), wake(child),
               current # idle_task,
               UNCHANGED <<current, freeq, quantum_ticks, last_pid,
                           PID, quantum, parent, childs>>
        PROVE  IInv'
    <3>1. child \in Task
      BY <2>2 DEF find_child, TypeOK
    <3>2. CASE child \in blocked
      <4>1. /\ blocked' = blocked \ {child} /\ readyq' = Append(readyq, child)
            /\ UNCHANGED pending_unblocks
        BY <2>2, <3>2 DEF wake, list_add_tail
      <4>2. /\ readyq' \in Seq(Task) /\ Range(readyq') = Range(readyq) \cup {child}
            /\ IsInjective(readyq')
        BY <3>1, <3>2, <4>1, AppendQueue DEF TypeOK, OnePlace
      <4> QED  BY <2>2, <3>2, <4>1, <4>2, SMTT(30) DEF TypeOK, OnePlace, IdleAlone
    <3>3. CASE child \notin blocked
      <4>1. /\ pending_unblocks' = [pending_unblocks EXCEPT ![child] = @ + 1]
            /\ UNCHANGED <<blocked, readyq>>
        BY <2>2, <3>3 DEF wake
      <4>2. TypeOK'
        BY <2>2, <3>1, <4>1, SMTT(30) DEF TypeOK
      <4>3. OnePlace'
        BY <2>2, <4>1 DEF OnePlace
      <4> QED  BY <2>2, <4>2, <4>3 DEF IdleAlone
    <3> QED  BY <3>2, <3>3
  <2> QED  BY <1>5, <2>1, <2>2 DEF sys_unblock
<1>6. CASE UNCHANGED vars
  BY <1>6, Zenon DEF vars, TypeOK, OnePlace, IdleAlone
<1> QED  BY <1>1, <1>2, <1>3, <1>4, <1>5, <1>6 DEF Next

(* The inductive invariant holds in every reachable state.                 *)
THEOREM IInvHolds == Spec => []IInv
  BY InitIInv, NextIInv, PTL DEF Spec

(* Type correctness of the process manager.                                *)
THEOREM TypeCorrect == Spec => []TypeOK
<1>1. IInv => TypeOK
  BY DEF IInv
<1> QED  BY <1>1, IInvHolds, PTL

(* No slot is ever in two places: the anchor of a task_struct is linked    *)
(* into one queue at most, and sys_fork never hands out a live task.       *)
THEOREM OnePlaceHolds == Spec => []OnePlace
<1>1. IInv => OnePlace
  BY DEF IInv
<1> QED  BY <1>1, IInvHolds, PTL

-----------------------------------------------------------------------------
(* Blocking.                                                               *)

(* Every handler preserves NoLostWakeup; sys_fork because the slot it      *)
(* fills is not blocked, sys_block because it sleeps only on a zero count. *)
LEMMA NextNoLostWakeup == IInv /\ NoLostWakeup /\ [Next]_vars => NoLostWakeup'
<1> SUFFICES ASSUME IInv, NoLostWakeup, [Next]_vars PROVE NoLostWakeup'
  OBVIOUS
<1> USE DEF NoLostWakeup
<1>1. CASE scheduler
  BY <1>1, Tick DEF scheduler
<1>2. ASSUME NEW frames \in BOOLEAN, sys_fork(frames) PROVE NoLostWakeup'
  <2>1. CASE freeq # <<>> /\ ~ UNCHANGED vars
    <3>1. Head(freeq) \in Range(freeq)
      BY <2>1, TailQueue DEF IInv, TypeOK, OnePlace
    <3>2. Head(freeq) \notin blocked /\ blocked \subseteq Task
      BY <3>1 DEF IInv, OnePlace, TypeOK
    <3> QED  BY <1>2, <2>1, <3>2, SMTT(30) DEF sys_fork, IInv, TypeOK
  <2> QED  BY <1>2, <2>1 DEF sys_fork, vars
<1>3. CASE sys_exit
  BY <1>3 DEF sys_exit
<1>4. CASE sys_block
  BY <1>4 DEF sys_block, unblock_pending, IInv, TypeOK, OnePlace
<1>5. ASSUME NEW pid \in 0 .. MAX_PID + 1, sys_unblock(pid) PROVE NoLostWakeup'
  BY <1>5, SMTT(30) DEF sys_unblock, find_child, wake, vars, IInv, TypeOK
<1>6. CASE UNCHANGED vars
  BY <1>6 DEF vars
<1> QED  BY <1>1, <1>2, <1>3, <1>4, <1>5, <1>6 DEF Next

(* A task never sleeps with an unblock pending, for any number of tasks.   *)
THEOREM NoLostWakeupHolds == Spec => []NoLostWakeup
<1>1. Init => NoLostWakeup
  BY DEF Init, NoLostWakeup
<1> QED  BY <1>1, NextNoLostWakeup, IInvHolds, PTL DEF Spec

(* cpu_idle is never left, and runs only when no task is ready.            *)
THEOREM IdleIsForeverHolds == Spec => IdleIsForever
<1>1. IInv /\ [Next]_vars
        => [current = idle_task => readyq = <<>> /\ current' = idle_task]_vars
  <2> SUFFICES ASSUME IInv, Next, current = idle_task
               PROVE  readyq = <<>> /\ current' = idle_task
    OBVIOUS
  <2>1. readyq = <<>>
    BY DEF IInv, IdleAlone
  <2>2. CASE scheduler
    BY <2>1, <2>2, Tick
  <2> QED  BY <2>1, <2>2 DEF Next, sys_fork, sys_exit, sys_block, sys_unblock
<1> QED  BY <1>1, IInvHolds, PTL DEF Spec, IdleIsForever

-----------------------------------------------------------------------------
(* Processes: how each step changes the set of user processes.             *)

(* A tick leaves the set of processes and the family fields alone.         *)
LEMMA TickProcess ==
  ASSUME IInv, scheduler
  PROVE  Process' = Process /\ UNCHANGED <<last_pid, PID, parent, childs>>
<1> USE DEF IInv
<1>1. UNCHANGED <<freeq, blocked, last_pid, PID, parent, childs>>
  BY Tick DEF scheduler
<1>2. CASE UNCHANGED <<current, readyq>>
  BY <1>1, <1>2 DEF Process
<1>3. CASE /\ current # idle_task
           /\ sched_next_rr(Append(readyq, current))
  <2> DEFINE q == Append(readyq, current)
  <2>1. /\ readyq \in Seq(Task) /\ current \in Task /\ IsInjective(readyq)
        /\ current \notin Range(readyq) /\ idle_task \notin Range(readyq)
    BY DEF TypeOK, OnePlace
  <2>2. /\ q \in Seq(Task) /\ q # <<>>
        /\ Range(q) = Range(readyq) \cup {current} /\ IsInjective(q)
    BY <2>1, AppendQueue
  <2> HIDE DEF q
  <2>3. sched_next_rr(q) /\ idle_task \notin Range(q)
    BY <1>3, <2>1, <2>2 DEF q
  <2>4. /\ current' \in Range(q)
        /\ Range(readyq') = Range(q) \ {current'}
    BY <2>2, <2>3, Dispatch
  <2> QED  BY <1>1, <2>2, <2>4 DEF Process
<1> QED  BY <1>2, <1>3, Tick

(* fork adds a slot that was not a process, if it gets its frames.         *)
LEMMA ForkProcess ==
  ASSUME IInv, NEW frames \in BOOLEAN, sys_fork(frames)
  PROVE  \/ freeq = <<>> /\ UNCHANGED vars
         \/ /\ freeq # <<>> /\ Head(freeq) \in Task \ (Process \cup {idle_task})
            /\ current \in Process /\ current' = current
            /\ IF frames
               THEN Process' = Process \cup {Head(freeq)} /\ fork_done(Head(freeq))
               ELSE Process' = Process /\ fork_no_frame(Head(freeq))
<1> USE DEF IInv
<1>1. CASE freeq = <<>>
  BY <1>1 DEF sys_fork
<1>2. CASE freeq # <<>>
  <2> DEFINE new == Head(freeq)
  <2>1. new \in Task /\ new \in Range(freeq)
    BY <1>2, TailQueue DEF TypeOK, OnePlace
  <2>2. /\ IF frames THEN fork_done(new) ELSE fork_no_frame(new)
        /\ current # idle_task /\ UNCHANGED <<current, blocked>>
    BY <1>2 DEF sys_fork
  <2> HIDE DEF new
  <2>3. new \notin Process \cup {idle_task} /\ current \in Process
    BY <2>1, <2>2 DEF Process, OnePlace
  <2>4. CASE frames
    <3>1. fork_done(new)
      BY <2>2, <2>4
    <3>2. Range(readyq') = Range(readyq) \cup {new}
      BY <2>1, <3>1, AppendQueue DEF fork_done, list_add_tail, TypeOK
    <3>3. Process' = Process \cup {new}
      BY <2>2, <2>3, <3>2 DEF Process
    <3> QED  BY <1>2, <2>1, <2>2, <2>3, <2>4, <3>1, <3>3 DEF new
  <2>5. CASE ~ frames
    <3>1. fork_no_frame(new)
      BY <2>2, <2>5
    <3>2. Process' = Process
      BY <2>2, <3>1 DEF Process, fork_no_frame
    <3> QED  BY <1>2, <2>1, <2>2, <2>3, <2>5, <3>1, <3>2 DEF new
  <2> QED  BY <2>4, <2>5
<1> QED  BY <1>1, <1>2

(* exit removes the caller.                                                *)
LEMMA ExitProcess ==
  ASSUME IInv, sys_exit
  PROVE  /\ current \in Process /\ Process' = Process \ {current}
         /\ exit_family(current) /\ UNCHANGED <<last_pid, PID>>
<1> USE DEF IInv
<1>1. /\ current # idle_task /\ exit_family(current) /\ sched_next_rr(readyq)
      /\ UNCHANGED <<blocked, last_pid, PID>>
  BY DEF sys_exit
<1>2. /\ current' = idle_task \/ current' \in Range(readyq)
      /\ Range(readyq') = Range(readyq) \ {current'}
  BY <1>1, Dispatch DEF TypeOK, OnePlace
<1>3. current \in Process /\ Process' = Process \ {current}
  BY <1>1, <1>2 DEF Process, OnePlace
<1> QED  BY <1>1, <1>3

(* A task that blocks is still a process.                                  *)
LEMMA BlockProcess ==
  ASSUME IInv, sys_block
  PROVE  Process' = Process /\ UNCHANGED <<last_pid, PID, parent, childs>>
<1> USE DEF IInv
<1>1. UNCHANGED <<last_pid, PID, parent, childs>> /\ current # idle_task
  BY DEF sys_block
<1>2. CASE UNCHANGED <<current, readyq, blocked>>
  BY <1>1, <1>2 DEF Process
<1>3. CASE blocked' = blocked \cup {current} /\ sched_next_rr(readyq)
  <2>1. /\ current' = idle_task \/ current' \in Range(readyq)
        /\ Range(readyq') = Range(readyq) \ {current'}
    BY <1>3, Dispatch DEF TypeOK, OnePlace
  <2> QED  BY <1>1, <1>3, <2>1 DEF Process
<1> QED  BY <1>2, <1>3 DEF sys_block

(* A task that is woken already was a process.                             *)
LEMMA UnblockProcess ==
  ASSUME IInv, NEW pid \in 0 .. MAX_PID + 1, sys_unblock(pid)
  PROVE  Process' = Process /\ UNCHANGED <<last_pid, PID, parent, childs>>
         /\ current' = current
<1> USE DEF IInv
<1>1. CASE UNCHANGED vars
  BY <1>1 DEF vars, Process
<1>2. ASSUME NEW child \in find_child(pid), wake(child), UNCHANGED current
      PROVE  Process' = Process
  <2>1. child \in Task
    BY <1>2 DEF find_child, TypeOK
  <2>2. CASE child \in blocked
    <3>1. blocked' = blocked \ {child} /\ readyq' = Append(readyq, child)
      BY <1>2, <2>2 DEF wake, list_add_tail
    <3>2. Range(readyq') = Range(readyq) \cup {child}
      BY <2>1, <3>1, AppendQueue DEF TypeOK
    <3> QED  BY <1>2, <2>2, <3>1, <3>2 DEF Process
  <2>3. CASE child \notin blocked
    BY <1>2, <2>3 DEF wake, Process
  <2> QED  BY <2>2, <2>3
<1> QED  BY <1>1, <1>2 DEF sys_unblock, vars

(* fork adds a slot that was not a process, exit removes the caller, and   *)
(* every other step leaves the set and the family fields alone.            *)
LEMMA ProcessStep ==
  ASSUME IInv, [Next]_vars
  PROVE  \/ Process' = Process /\ UNCHANGED <<last_pid, PID, parent, childs>>
         \/ \E new \in Task \ (Process \cup {idle_task}) :
              /\ current \in Process
              /\ \/ Process' = Process \cup {new} /\ fork_done(new)
                 \/ Process' = Process /\ fork_no_frame(new)
         \/ /\ current \in Process /\ Process' = Process \ {current}
            /\ exit_family(current) /\ UNCHANGED <<last_pid, PID>>
<1>1. CASE scheduler
  BY <1>1, TickProcess
<1>2. ASSUME NEW frames \in BOOLEAN, sys_fork(frames)
      PROVE  \/ Process' = Process /\ UNCHANGED <<last_pid, PID, parent, childs>>
             \/ \E new \in Task \ (Process \cup {idle_task}) :
                  /\ current \in Process
                  /\ \/ Process' = Process \cup {new} /\ fork_done(new)
                     \/ Process' = Process /\ fork_no_frame(new)
  <2>1. CASE UNCHANGED vars
    BY <2>1 DEF vars, Process
  <2> QED  BY <1>2, <2>1, ForkProcess
<1>3. CASE sys_exit
  BY <1>3, ExitProcess
<1>4. CASE sys_block
  BY <1>4, BlockProcess
<1>5. ASSUME NEW pid \in 0 .. MAX_PID + 1, sys_unblock(pid)
      PROVE  Process' = Process /\ UNCHANGED <<last_pid, PID, parent, childs>>
  BY <1>5, UnblockProcess
<1>6. CASE UNCHANGED vars
  BY <1>6 DEF vars, Process
<1> QED  BY <1>1, <1>2, <1>3, <1>4, <1>5, <1>6 DEF Next

(* The types of the family fields, over processes.                         *)
LEMMA ProcessTypes ==
  ASSUME IInv
  PROVE  /\ last_pid \in Nat /\ PID \in [Task -> Nat] /\ Process \subseteq Task
         /\ childs \in [Task -> SUBSET Task]
         /\ parent \in [Task -> Task \cup {NULL}]
         /\ idle_task \in Task /\ NULL \notin Task /\ idle_task \notin Process
<1>1. Range(readyq) \subseteq Task
  BY DEF IInv, TypeOK, Range
<1>2. Process \subseteq Task /\ idle_task \notin Process
  BY <1>1 DEF IInv, TypeOK, Process
<1>3. idle_task \in Task /\ NULL \notin Task
  BY TasksAssumption DEF idle_task, Task, NULL
<1> QED  BY <1>2, <1>3 DEF IInv, TypeOK

(* PIDs only grow, and the idle slot keeps PID 0.                          *)
PInv == UniquePID /\ PID[idle_task] = 0 /\ last_pid >= 1

(* new_pid gives a PID above every PID in use.                             *)
LEMMA NextPInv == IInv /\ PInv /\ [Next]_vars => PInv'
<1> SUFFICES ASSUME IInv, PInv, [Next]_vars PROVE PInv'
  OBVIOUS
<1>0. /\ last_pid \in Nat /\ PID \in [Task -> Nat] /\ Process \subseteq Task
      /\ idle_task \in Task
  BY ProcessTypes
<1> USE DEF PInv, UniquePID
<1>1. CASE Process' = Process /\ UNCHANGED <<last_pid, PID, parent, childs>>
  BY <1>1
<1>2. ASSUME NEW new \in Task \ (Process \cup {idle_task}),
             Process' = Process \cup {new}, fork_done(new)
      PROVE  PInv'
  <2>1. /\ last_pid' > last_pid /\ last_pid' \in Nat
        /\ PID' = [PID EXCEPT ![new] = last_pid']
    BY <1>0, <1>2 DEF fork_done, new_pid
  <2> QED  BY <1>0, <1>2, <2>1
<1>3. ASSUME NEW new \in Task \ (Process \cup {idle_task}),
             Process' = Process, fork_no_frame(new)
      PROVE  PInv'
  BY <1>0, <1>3 DEF fork_no_frame
<1>4. CASE Process' = Process \ {current} /\ UNCHANGED <<last_pid, PID>>
  BY <1>4
<1> QED  BY <1>1, <1>2, <1>3, <1>4, ProcessStep

(* After booting the one process is init.                                  *)
LEMMA InitProcess == Init => Process = {init_task} /\ init_task \in Task
  BY EmptyRange, TasksAssumption
     DEF Init, Process, init_task, idle_task, Task

(* At boot the only user process has PID 1.                                *)
LEMMA InitPInv == Init => PInv
<1> SUFFICES ASSUME Init PROVE PInv
  OBVIOUS
<1>1. Process = {1} /\ 0 \in Task /\ 1 \in Task
  BY InitProcess, TasksAssumption DEF init_task, Task
<1>2. PID[0] = 0 /\ PID[1] = 1 /\ last_pid = 1
  BY <1>1 DEF Init, init_task
<1> QED  BY <1>1, <1>2 DEF PInv, UniquePID, idle_task

(* The PID invariant holds in every reachable state.                       *)
THEOREM PInvHolds == Spec => []PInv
  BY InitPInv, NextPInv, IInvHolds, PTL DEF Spec

(* PIDs identify user processes, although the fork of a task_struct copies *)
(* the PID first and failed forks leave such copies behind.                *)
THEOREM UniquePIDHolds == Spec => []UniquePID
<1>1. PInv => UniquePID
  BY DEF PInv
<1> QED  BY <1>1, PInvHolds, PTL

(* fork adds a leaf, exit moves the leaver's children under idle, and      *)
(* nothing else touches the family fields of a process.                    *)
LEMMA NextFamilyTree ==
  IInv /\ PInv /\ FamilyTree /\ [Next]_vars => FamilyTree'
<1> SUFFICES ASSUME IInv, PInv, FamilyTree, [Next]_vars PROVE FamilyTree'
  OBVIOUS
<1>0. /\ last_pid \in Nat /\ PID \in [Task -> Nat] /\ Process \subseteq Task
      /\ childs \in [Task -> SUBSET Task]
      /\ parent \in [Task -> Task \cup {NULL}]
      /\ idle_task \in Task /\ NULL \notin Task /\ idle_task \notin Process
      /\ \A p \in Process : PID[p] \in 1 .. last_pid
      /\ PID[idle_task] = 0
  BY ProcessTypes DEF PInv, UniquePID
<1>1. CASE Process' = Process /\ UNCHANGED <<last_pid, PID, parent, childs>>
  BY <1>1 DEF FamilyTree, idle_task
<1>2. ASSUME NEW new \in Task \ (Process \cup {idle_task}), current \in Process,
             Process' = Process \cup {new}, fork_done(new)
      PROVE  FamilyTree'
  <2>1. /\ last_pid' > last_pid /\ last_pid' \in Nat
        /\ PID' = [PID EXCEPT ![new] = last_pid']
        /\ parent' = [parent EXCEPT ![new] = current]
        /\ childs' = [childs EXCEPT ![new] = {}, ![current] = childs[current] \cup {new}]
    BY <1>0, <1>2 DEF fork_done, new_pid
  <2>2. \A p \in Process' \cup {idle_task} : \A c \in childs'[p] :
          c \in Process' /\ parent'[c] = p /\ PID'[p] < PID'[c]
    <3> SUFFICES ASSUME NEW p \in Process \cup {new, idle_task},
                        NEW c \in childs'[p]
                 PROVE  c \in Process' /\ parent'[c] = p /\ PID'[p] < PID'[c]
      BY <1>2
    <3>1. CASE c = new
      <4>1. p = current
        BY <1>0, <1>2, <2>1, <3>1 DEF FamilyTree
      <4> QED  BY <1>0, <1>2, <2>1, <3>1, <4>1
    <3>2. CASE c # new
      <4>1. p # new /\ c \in childs[p]
        BY <1>0, <1>2, <2>1, <3>2
      <4>2. c \in Process /\ parent[c] = p /\ PID[p] < PID[c]
        BY <4>1 DEF FamilyTree
      <4> QED  BY <1>0, <1>2, <2>1, <3>2, <4>1, <4>2
    <3> QED  BY <3>1, <3>2
  <2>3. \A c \in Process' : parent'[c] # NULL =>
          parent'[c] \in Process' \cup {idle_task} /\ c \in childs'[parent'[c]]
    <3> SUFFICES ASSUME NEW c \in Process \cup {new}, parent'[c] # NULL
                 PROVE  /\ parent'[c] \in Process' \cup {idle_task}
                        /\ c \in childs'[parent'[c]]
      BY <1>2
    <3>1. CASE c = new
      BY <1>0, <1>2, <2>1, <3>1
    <3>2. CASE c # new
      <4>1. /\ parent'[c] = parent[c]
            /\ parent[c] \in Process \cup {idle_task} /\ c \in childs[parent[c]]
        BY <1>0, <1>2, <2>1, <3>2 DEF FamilyTree
      <4> QED  BY <1>0, <1>2, <2>1, <4>1
    <3> QED  BY <3>1, <3>2
  <2> QED  BY <2>2, <2>3 DEF FamilyTree, idle_task, NULL
<1>3. ASSUME NEW new \in Task \ (Process \cup {idle_task}),
             Process' = Process, fork_no_frame(new)
      PROVE  FamilyTree'
  <2>1. \A p \in Process \cup {idle_task} :
          PID'[p] = PID[p] /\ parent'[p] = parent[p] /\ childs'[p] = childs[p]
    BY <1>0, <1>3 DEF fork_no_frame
  <2> QED  BY <1>3, <2>1 DEF FamilyTree, idle_task
<1>4. ASSUME current \in Process, Process' = Process \ {current},
             exit_family(current), UNCHANGED <<last_pid, PID>>
      PROVE  FamilyTree'
  <2> DEFINE t == current
             left == IF parent[t] # NULL THEN [p \in Task |-> childs[p] \ {t}]
                                         ELSE childs
  <2>1. t \notin childs[t]
    BY <1>0, <1>4 DEF FamilyTree
  <2>2. \A p \in Process \cup {idle_task} : left[p] = childs[p] \ {t}
    <3>1. CASE parent[t] # NULL
      BY <1>0, <3>1
    <3>2. CASE parent[t] = NULL
      BY <1>0, <3>2 DEF FamilyTree
    <3> QED  BY <3>1, <3>2
  <2>3. left \in [Task -> SUBSET Task]
    BY <1>0
  <2>4. /\ childs' = [left EXCEPT ![t] = {}, ![idle_task] = left[idle_task] \cup left[t]]
        /\ parent' = [c \in Task |-> IF c \in left[t] THEN idle_task ELSE parent[c]]
    BY <1>4 DEF exit_family
  <2> HIDE DEF left
  <2>5. /\ childs'[idle_task] = (childs[idle_task] \cup childs[t]) \ {t}
        /\ \A p \in Process \ {t} : childs'[p] = childs[p] \ {t}
    BY <1>0, <1>4, <2>1, <2>2, <2>3, <2>4
  <2>6. \A c \in Task : parent'[c] = IF c \in childs[t] THEN idle_task ELSE parent[c]
    BY <1>0, <1>4, <2>1, <2>2, <2>4
  <2> HIDE DEF t
  <2>7. \A p \in Process' \cup {idle_task} : \A c \in childs'[p] :
          c \in Process' /\ parent'[c] = p /\ PID'[p] < PID'[c]
    <3> SUFFICES ASSUME NEW p \in (Process \ {t}) \cup {idle_task},
                        NEW c \in childs'[p]
                 PROVE  c \in Process \ {t} /\ parent'[c] = p /\ PID[p] < PID[c]
      BY <1>4 DEF t
    <3>1. c # t
      BY <2>5
    <3>2. CASE c \in childs[t]
      <4>1. c \in Process /\ parent[c] = t
        BY <1>4, <3>2 DEF FamilyTree, t
      <4>2. p = idle_task
        BY <2>5, <4>1 DEF FamilyTree
      <4> QED  BY <1>0, <2>6, <3>1, <3>2, <4>1, <4>2
    <3>3. CASE c \notin childs[t]
      <4>1. c \in childs[p]
        BY <2>5, <3>3
      <4> QED  BY <1>0, <2>6, <3>1, <3>3, <4>1 DEF FamilyTree
    <3> QED  BY <3>2, <3>3
  <2>8. \A c \in Process' : parent'[c] # NULL =>
          parent'[c] \in Process' \cup {idle_task} /\ c \in childs'[parent'[c]]
    <3> SUFFICES ASSUME NEW c \in Process \ {t}, parent'[c] # NULL
                 PROVE  /\ parent'[c] \in (Process \ {t}) \cup {idle_task}
                        /\ c \in childs'[parent'[c]]
      BY <1>4 DEF t
    <3>1. CASE c \in childs[t]
      BY <1>0, <2>5, <2>6, <3>1
    <3>2. CASE c \notin childs[t]
      <4>1. parent'[c] = parent[c]
        BY <1>0, <2>6, <3>2
      <4>2. parent[c] \in Process \cup {idle_task} /\ c \in childs[parent[c]]
        BY <4>1 DEF FamilyTree
      <4> QED  BY <2>5, <3>2, <4>1, <4>2
    <3> QED  BY <3>1, <3>2
  <2> QED  BY <2>7, <2>8 DEF FamilyTree, idle_task, NULL
<1> QED  BY <1>1, <1>2, <1>3, <1>4, ProcessStep

(* At boot the only user process has neither parent nor children.          *)
LEMMA InitFamilyTree == Init => FamilyTree
<1> SUFFICES ASSUME Init PROVE FamilyTree
  OBVIOUS
<1>1. Process = {1} /\ 0 \in Task /\ 1 \in Task
  BY InitProcess, TasksAssumption DEF init_task, Task
<1>2. childs[0] = {} /\ childs[1] = {} /\ parent[1] = NULL
  BY <1>1 DEF Init
<1> QED  BY <1>1, <1>2 DEF FamilyTree, idle_task

(* Parent fields and childs lists describe one forest of live processes,   *)
(* older processes above younger ones, after any history of forks, failed  *)
(* forks and exits.                                                        *)
THEOREM FamilyTreeHolds == Spec => []FamilyTree
  BY InitFamilyTree, NextFamilyTree, IInvHolds, PInvHolds, PTL DEF Spec

(* Only sys_unblock of a running parent takes a task out of blocked.       *)
LEMMA StepWokenByParent ==
  IInv /\ FamilyTree /\ [Next]_vars
    => [\A t \in blocked \ blocked' :
          parent[t] = current /\ current # idle_task /\ t \in Range(readyq')]_vars
<1> SUFFICES ASSUME IInv, FamilyTree, Next,
                    NEW t \in blocked, t \notin blocked'
             PROVE  /\ parent[t] = current /\ current # idle_task
                    /\ t \in Range(readyq')
  OBVIOUS
<1>1. PICK pid \in 0 .. MAX_PID + 1 : sys_unblock(pid)
  BY Tick DEF Next, sys_fork, sys_exit, sys_block, vars
<1>2. PICK child \in find_child(pid) : wake(child) /\ current # idle_task
  BY <1>1 DEF sys_unblock, vars
<1>3. child = t /\ readyq' = Append(readyq, t)
  BY <1>2 DEF wake, list_add_tail
<1>4. t \in Range(readyq')
  BY <1>3, AppendQueue DEF IInv, TypeOK
<1>5. t \in childs[current] /\ current \in Process
  BY <1>2, <1>3 DEF find_child, Process
<1> QED  BY <1>2, <1>4, <1>5 DEF FamilyTree

(* Only a running parent takes a task out of the blocked queue, for any    *)
(* number of tasks: an orphan, whose parent is idle, is never woken.       *)
THEOREM WokenByParentHolds == Spec => WokenByParent
  BY StepWokenByParent, IInvHolds, FamilyTreeHolds, PTL DEF Spec, WokenByParent

-----------------------------------------------------------------------------
(* The refinement.                                                         *)

(* The state of a slot as a function of where it is.                       *)
PlaceIn(t, run, ready, asleep, free) ==
  IF t = run THEN "RUN" ELSE IF t \in ready THEN "READY"
  ELSE IF t \in asleep THEN "BLOCKED" ELSE IF t \in free THEN "FREE"
  ELSE IF t = idle_task THEN "IDLE" ELSE "LOST"

(* The cases of place exclude each other.                                  *)
LEMMA Places ==
  ASSUME IInv
  PROVE  place = [t \in Task |-> PlaceIn(t, current, Range(readyq), blocked, Range(freeq))]
  BY DEF IInv, OnePlace, place, PlaceIn

(* Where the mapping puts every process after a step. *)
LEMMA PlacesAfter ==
  ASSUME IInv'
  PROVE  place' = [t \in Task |-> PlaceIn(t, current', Range(readyq'), blocked', Range(freeq'))]
  BY DEF IInv, OnePlace, place, PlaceIn

(* Who runs and who is ready, in the abstract state.                       *)
LEMMA Abstraction ==
  ASSUME IInv
  PROVE  /\ current # idle_task => LifeCycle!Runs(current)
         /\ \A t \in Task : place[t] = "READY" <=> t \in Range(readyq)
         /\ \A t \in blocked : place[t] = "BLOCKED"
         /\ \A t \in Range(freeq) : place[t] = "FREE"
         /\ current \in Task /\ idle_task \in Task
         /\ Range(readyq) \subseteq Task /\ Range(freeq) \subseteq Task /\ blocked \subseteq Task
<1>1. /\ current \in Task /\ idle_task \in Task /\ Range(readyq) \subseteq Task
      /\ Range(freeq) \subseteq Task /\ blocked \subseteq Task
  <2>1. Range(readyq) \subseteq Task /\ Range(freeq) \subseteq Task
    BY SMTT(30) DEF IInv, TypeOK, Range
  <2> QED  BY <2>1, ProcessTypes DEF IInv, TypeOK
<1>2. \A t \in Task : place[t] = PlaceIn(t, current, Range(readyq), blocked, Range(freeq))
  BY Places
<1> QED  BY <1>1, <1>2 DEF LifeCycle!Runs, PlaceIn, IInv, OnePlace

-----------------------------------------------------------------------------
(* One lemma per handler.                                                  *)

(* What leaving the CPU for state s is: sched_next_rr dispatches a ready   *)
(* task, and idle only when nobody is ready.                               *)
LEMMA LeaveRefines ==
  ASSUME IInv, IInv', current # idle_task, sched_next_rr(readyq), NEW s,
         \/ s = "FREE" /\ Range(freeq') = Range(freeq) \cup {current} /\ blocked' = blocked
         \/ s = "BLOCKED" /\ blocked' = blocked \cup {current} /\ freeq' = freeq
  PROVE  LifeCycle!Leave(current, s)
<1>1. /\ current' = idle_task \/ current' \in Range(readyq)
      /\ Range(readyq') = Range(readyq) \ {current'}
      /\ current' = idle_task => readyq' = <<>>
      /\ readyq # <<>> => current' # idle_task
  BY Dispatch DEF IInv, TypeOK, OnePlace
<1>2. place' = [place EXCEPT ![current] = s, ![current'] = "RUN"]
  BY <1>1, Places, PlacesAfter, Abstraction DEF PlaceIn, IInv, OnePlace
<1>3. CASE current' = idle_task
  <2>1. \A u \in Task : place[u] # "READY"
    BY <1>1, <1>3, Abstraction, EmptyRange
  <2> QED  BY <1>2, <1>3, <2>1 DEF LifeCycle!Leave
<1>4. CASE current' # idle_task
  BY <1>1, <1>2, <1>4, Abstraction, Zenon DEF LifeCycle!Leave, LifeCycle!HandOver
<1> QED  BY <1>3, <1>4

(* A clock tick is a step of ProcStates or a stutter. *)
LEMMA TickRefines ==
  ASSUME IInv, IInv', scheduler
  PROVE  LifeCycle!ANext \/ UNCHANGED LifeCycle!abstractVars
<1>1. UNCHANGED <<freeq, blocked, parent, pending_unblocks>>
  BY Tick DEF scheduler
<1>2. CASE UNCHANGED <<current, readyq>>
  BY <1>1, <1>2 DEF LifeCycle!abstractVars, place
<1>3. CASE /\ current # idle_task /\ readyq # <<>>
           /\ sched_next_rr(Append(readyq, current))
  <2>1. /\ readyq \in Seq(Task) /\ IsInjective(readyq)
        /\ idle_task \notin Range(readyq) /\ current \in Task
    BY DEF IInv, TypeOK, OnePlace
  <2>2. /\ current' = Head(readyq)
        /\ Append(readyq, current) # <<>>
        /\ Tail(Append(readyq, current)) = Append(Tail(readyq), current)
    BY <1>3, <2>1 DEF sched_next_rr
  <2>3. /\ Head(readyq) \in Range(readyq) /\ Tail(readyq) \in Seq(Task)
        /\ Range(Tail(readyq)) = Range(readyq) \ {Head(readyq)}
    BY <1>3, <2>1, TailQueue
  <2>4. Range(readyq') = (Range(readyq) \ {current'}) \cup {current}
    <3>1. readyq' = Append(Tail(readyq), current)
      BY <1>3, <2>2 DEF sched_next_rr
    <3> DEFINE rest == Tail(readyq)
    <3>2. rest \in Seq(Task) /\ Range(rest) = Range(readyq) \ {current'}
      BY <2>2, <2>3
    <3>3. readyq' = Append(rest, current)
      BY <3>1
    <3> HIDE DEF rest
    <3>4. Range(Append(rest, current)) = Range(rest) \cup {current}
      BY <2>1, <3>2, AppendQueue
    <3> QED  BY <3>2, <3>3, <3>4
  <2>5. place' = [place EXCEPT ![current] = "READY", ![current'] = "RUN"]
    BY <1>1, <2>2, <2>3, <2>4, Places, PlacesAfter, Abstraction DEF PlaceIn, IInv, OnePlace
  <2>6. LifeCycle!Preempt(current, current')
    BY <1>1, <1>3, <2>2, <2>3, <2>5, Abstraction
       DEF LifeCycle!Preempt, LifeCycle!HandOver
  <2> QED  BY <2>2, <2>3, <2>6, Abstraction DEF LifeCycle!ANext
<1> QED  BY <1>2, <1>3, Tick

(* sys_fork is a step of ProcStates or a stutter. *)
LEMMA ForkRefines ==
  ASSUME IInv, IInv', NEW frames \in BOOLEAN, sys_fork(frames)
  PROVE  LifeCycle!ANext \/ UNCHANGED LifeCycle!abstractVars
<1>1. CASE freeq = <<>>
  BY <1>1 DEF sys_fork, vars, LifeCycle!abstractVars, place
<1>2. CASE freeq # <<>>
  <2> DEFINE new == Head(freeq)
  <2>1. /\ new \in Task /\ new \in Range(freeq)
        /\ Range(Tail(freeq)) = Range(freeq) \ {new}
    BY <1>2, TailQueue DEF IInv, TypeOK, OnePlace
  <2>2. /\ current # idle_task /\ UNCHANGED <<current, blocked>>
        /\ freeq' = Tail(freeq)
        /\ pending_unblocks' = [pending_unblocks EXCEPT ![new] = pending_unblocks[current]]
        /\ IF frames THEN fork_done(new) ELSE fork_no_frame(new)
    BY <1>2 DEF sys_fork
  <2> HIDE DEF new
  <2>3. CASE frames
    <3>1. readyq' = Append(readyq, new) /\ parent' = [parent EXCEPT ![new] = current]
      BY <2>2, <2>3 DEF fork_done, list_add_tail
    <3>2. Range(readyq') = Range(readyq) \cup {new}
      <4>1. readyq \in Seq(Task)
        BY SMTT(30) DEF IInv, TypeOK
      <4> QED  BY <2>1, <3>1, <4>1, AppendQueue
    <3>3. place' = [place EXCEPT ![new] = "READY"]
      BY <2>1, <2>2, <3>2, Places, PlacesAfter, Abstraction DEF PlaceIn, IInv, OnePlace
    <3>4. LifeCycle!Fork(current, new)
      BY <2>1, <2>2, <3>1, <3>3, Abstraction DEF LifeCycle!Fork
    <3> QED  BY <2>1, <3>4, Abstraction DEF LifeCycle!ANext
  <2>4. CASE ~ frames
    <3>1. readyq' = readyq /\ parent' = [parent EXCEPT ![new] = parent[current]]
      BY <2>2, <2>4 DEF fork_no_frame
    <3>2. place' = [place EXCEPT ![new] = "LOST"]
      BY <2>1, <2>2, <3>1, Places, PlacesAfter, Abstraction DEF PlaceIn, IInv, OnePlace
    <3>3. LifeCycle!ForkFails(current, new)
      BY <2>1, <2>2, <3>1, <3>2, Abstraction DEF LifeCycle!ForkFails
    <3> QED  BY <2>1, <3>3, Abstraction DEF LifeCycle!ANext
  <2> QED  BY <2>3, <2>4
<1> QED  BY <1>1, <1>2

(* sys_exit is a step of ProcStates. *)
LEMMA SysExitRefines ==
  ASSUME IInv, IInv', FamilyTree, sys_exit
  PROVE  LifeCycle!ANext
<1>1. /\ current # idle_task /\ exit_family(current) /\ sched_next_rr(readyq)
      /\ freeq' = Append(freeq, current) /\ UNCHANGED <<blocked, pending_unblocks>>
  BY DEF sys_exit, list_add_tail
<1>2. /\ current \in Process /\ Process \subseteq Task
      /\ childs \in [Task -> SUBSET Task]
  BY <1>1, ProcessTypes DEF Process
<1>3. Range(freeq') = Range(freeq) \cup {current}
  BY <1>1, <1>2, AppendQueue DEF IInv, TypeOK
<1>4. LifeCycle!Leave(current, "FREE")
  BY <1>1, <1>3, LeaveRefines
<1>5. \A c \in Task : place[c] \in {"READY", "BLOCKED"} <=> c \in Process /\ c # current
  <2>1. \A c \in Task : place[c] = PlaceIn(c, current, Range(readyq), blocked, Range(freeq))
    BY Places
  <2> QED  BY <1>1, <2>1 DEF PlaceIn, Process, IInv, OnePlace
<1>6. current \notin childs[current]
  <2>1. PID[current] \in Nat
    BY <1>2, ProcessTypes
  <2> QED  BY <1>2, <2>1 DEF FamilyTree
<1>7. \A c \in Task : c \in childs[current] <=>
        parent[c] = current /\ c \in Process /\ c # current
  <2>1. current # NULL
    BY <1>2, ProcessTypes, SMTT(30)
  <2> QED  BY <1>2, <1>6, <2>1 DEF FamilyTree
<1>8. parent' = [c \in Task |-> IF c \in childs[current] THEN idle_task ELSE parent[c]]
  BY <1>1, <1>2, <1>6 DEF exit_family
<1>9. parent' = [c \in Task |->
        IF parent[c] = current /\ place[c] \in {"READY", "BLOCKED"}
        THEN idle_task ELSE parent[c]]
  BY <1>5, <1>7, <1>8
<1>10. LifeCycle!Exit(current)
  BY <1>1, <1>4, <1>9, Abstraction DEF LifeCycle!Exit
<1> QED  BY <1>10, Abstraction DEF LifeCycle!ANext

(* sys_block is a step of ProcStates or a stutter. *)
LEMMA BlockRefines ==
  ASSUME IInv, IInv', sys_block
  PROVE  LifeCycle!ANext
<1>1. current # idle_task /\ UNCHANGED <<freeq, parent>> /\ pending_unblocks \in [Task -> Nat]
  BY DEF sys_block, IInv, TypeOK
<1>2. CASE /\ pending_unblocks[current] # 0
           /\ pending_unblocks' = [pending_unblocks EXCEPT ![current] = @ - 1]
           /\ UNCHANGED <<current, readyq, blocked>>
  <2>1. place' = place
    BY <1>1, <1>2 DEF place
  <2>2. pending_unblocks[current] > 0
    BY <1>1, <1>2, Abstraction
  <2>3. LifeCycle!Consume(current)
    BY <1>1, <1>2, <2>1, <2>2, Abstraction DEF LifeCycle!Consume
  <2> QED  BY <2>3, Abstraction DEF LifeCycle!ANext
<1>3. CASE /\ pending_unblocks[current] = 0
           /\ blocked' = blocked \cup {current}
           /\ sched_next_rr(readyq)
           /\ UNCHANGED pending_unblocks
  <2>1. LifeCycle!Sleep(current)
    BY <1>1, <1>3, LeaveRefines, Abstraction DEF LifeCycle!Sleep
  <2> QED  BY <2>1, Abstraction DEF LifeCycle!ANext
<1> QED  BY <1>2, <1>3 DEF sys_block, unblock_pending

(* sys_unblock is a step of ProcStates or a stutter. *)
LEMMA UnblockRefines ==
  ASSUME IInv, IInv', FamilyTree, NEW pid \in 0 .. MAX_PID + 1, sys_unblock(pid)
  PROVE  LifeCycle!ANext \/ UNCHANGED LifeCycle!abstractVars
<1>1. CASE UNCHANGED vars
  BY <1>1 DEF vars, LifeCycle!abstractVars, place
<1>2. ASSUME NEW c \in find_child(pid), wake(c), UNCHANGED <<current, freeq, parent>>,
             current # idle_task
      PROVE  LifeCycle!ANext
  <2>1. /\ current \in Process /\ c \in childs[current] /\ c \in Process
        /\ parent[c] = current /\ c \in Task /\ c # current
    <3>1. current \in Process /\ c \in childs[current]
      BY <1>2 DEF find_child, Process
    <3>2. PID[current] \in Nat /\ Process \subseteq Task
      BY <3>1, ProcessTypes, SMTT(30)
    <3> QED  BY <3>1, <3>2 DEF FamilyTree
  <2>2. CASE c \in blocked
    <3>1. /\ blocked' = blocked \ {c} /\ readyq' = Append(readyq, c)
          /\ UNCHANGED pending_unblocks
      BY <1>2, <2>2 DEF wake, list_add_tail
    <3>2. Range(readyq') = Range(readyq) \cup {c}
      BY <2>1, <3>1, AppendQueue DEF IInv, TypeOK
    <3>3. place' = [place EXCEPT ![c] = "READY"]
      <4>1. /\ place = [t \in Task |->
                   PlaceIn(t, current, Range(readyq), blocked, Range(freeq))]
            /\ place' = [t \in Task |->
                   PlaceIn(t, current, Range(readyq) \cup {c}, blocked \ {c}, Range(freeq))]
        BY <1>2, <3>1, <3>2, Places, PlacesAfter, Zenon
      <4>2. \A t \in Task :
              PlaceIn(t, current, Range(readyq) \cup {c}, blocked \ {c}, Range(freeq))
                = IF t = c THEN "READY"
                  ELSE PlaceIn(t, current, Range(readyq), blocked, Range(freeq))
        BY <2>1 DEF PlaceIn
      <4> QED  BY <2>1, <4>1, <4>2, Zenon
    <3>4. LifeCycle!Wake(current, c)
      BY <1>2, <2>1, <2>2, <3>1, <3>3, Abstraction, SMTT(30) DEF LifeCycle!Wake
    <3> QED  BY <2>1, <3>4, Abstraction DEF LifeCycle!ANext
  <2>3. CASE c \notin blocked
    <3>1. /\ pending_unblocks' = [pending_unblocks EXCEPT ![c] = @ + 1]
          /\ UNCHANGED <<blocked, readyq>>
      BY <1>2, <2>3 DEF wake
    <3>2. place' = place
      BY <1>2, <3>1 DEF place
    <3>3. place[c] = "READY"
      BY <2>1, <2>3, Abstraction, SMTT(30) DEF Process
    <3>4. LifeCycle!Wake(current, c)
      BY <1>2, <2>1, <3>1, <3>2, <3>3, Abstraction DEF LifeCycle!Wake
    <3> QED  BY <2>1, <3>4, Abstraction DEF LifeCycle!ANext
  <2> QED  BY <2>2, <2>3
<1> QED  BY <1>1, <1>2 DEF sys_unblock

-----------------------------------------------------------------------------
(* The refinement.                                                         *)

(* Initial states map to initial states of ProcStates. *)
LEMMA LifeCycleStarts == Init => LifeCycle!AInit
<1> SUFFICES ASSUME Init PROVE LifeCycle!AInit
  OBVIOUS
<1>1. IInv
  BY InitIInv
<1>2. /\ current = init_task /\ blocked = {} /\ Range(readyq) = {}
      /\ init_task \in Task \ {idle_task}
  BY EmptyRange, TasksAssumption DEF Init, Task, init_task, idle_task
<1>3. Range(freeq) = Task \ {idle_task, init_task}
  <2>1. /\ DOMAIN freeq = 1 .. NR_TASKS - 2
        /\ \A i \in 1 .. NR_TASKS - 2 : freeq[i] = i + 1
    BY DEF Init
  <2>2. \A t \in Task \ {idle_task, init_task} :
          t - 1 \in 1 .. NR_TASKS - 2 /\ freeq[t - 1] = t
    BY <2>1, TasksAssumption DEF Task, idle_task, init_task
  <2>3. \A x \in Range(freeq) : x \in Task \ {idle_task, init_task}
    BY <2>1, TasksAssumption DEF Range, Task, idle_task, init_task
  <2>4. \A x \in Task \ {idle_task, init_task} : x \in Range(freeq)
    BY <2>1, <2>2 DEF Range
  <2> QED  BY <2>3, <2>4
<1>4. place = [t \in Task |-> IF t = idle_task THEN "IDLE"
                              ELSE IF t = init_task THEN "RUN" ELSE "FREE"]
  BY <1>1, <1>2, <1>3, Places DEF PlaceIn
<1> QED  BY <1>2, <1>4 DEF Init, LifeCycle!AInit

(* Every step maps to a step of ProcStates or a stutter. *)
LEMMA LifeCycleStep ==
  IInv /\ IInv' /\ FamilyTree /\ [Next]_vars => [LifeCycle!ANext]_(LifeCycle!abstractVars)
<1> SUFFICES ASSUME IInv, IInv', FamilyTree, [Next]_vars
             PROVE  LifeCycle!ANext \/ UNCHANGED LifeCycle!abstractVars
  OBVIOUS
<1>1. CASE UNCHANGED vars
  BY <1>1 DEF vars, LifeCycle!abstractVars, place
<1>2. CASE Next
  BY <1>2, TickRefines, ForkRefines, SysExitRefines, BlockRefines, UnblockRefines DEF Next
<1> QED  BY <1>1, <1>2

(* Every handler is one of the state changes ProcStates promises, for any  *)
(* number of tasks, any quantum and any history of failed forks.           *)
THEOREM RefinesProcStatesHolds == Spec => RefinesProcStates
BY LifeCycleStarts, LifeCycleStep, IInvHolds, FamilyTreeHolds, PTL
   DEF Spec, RefinesProcStates, LifeCycle!ASpec
=============================================================================
