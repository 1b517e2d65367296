------------------------ MODULE ContextSwitchProofs ------------------------
(***************************************************************************)
(* Every process finds itself back, for any number of tasks and any size   *)
(* of the stacks: the inductive invariant says what each word means on the *)
(* stack of every task that is not running, and on that of the running one *)
(* at each place of the kernel code.                                       *)
(***************************************************************************)
EXTENDS ContextSwitch, TLAPS

K == KERNEL_STACK_SIZE

(* The stack pointer with which the processor starts a handler: the end of *)
(* the stack at boot, one word less after a switch.                        *)
Tops(t) == {base(t) + K - 1} \cup (IF t = idle_task THEN {} ELSE {base(t) + K})

(* The part of the invariant about one handler of t, whose frame ends at   *)
(* T: what iret will find.                                                 *)
Trapped(t, T) ==
  /\ mem[T - 1] = IF t = idle_task THEN at("idle_loop") ELSE user[t][1]
  /\ mem[T - 3] = IF t = idle_task THEN K - 1 ELSE user[t][3]
  /\ mem[T - 4] \in {at("clock_fin"), at("keyboard_fin")} \cup
                    (IF t = idle_task THEN {} ELSE {at("system_call_fin")})
  /\ t # idle_task /\ mem[T - 4] # at("system_call_fin") => mem[T - 2] = user[t][2]

(* A call that gives up the CPU returns -1.                                *)
GivesUp(t, T) == mem[T - 4] = at("system_call_fin") => user[t][2] = -1

(* sched_next_rr has been called, and has called task_switch.              *)
InSchedNext(t, T) ==
  /\ mem[T - 6] = at("after_sched_next") /\ mem[T - 7] = T - 5
  /\ GivesUp(t, T)

Scheduled(t, T) == mem[T - 9] = at("after_task_switch") /\ InSchedNext(t, T)

(* keyboard_service has called task_switch.                                *)
Keyed(T) == mem[T - 7] = at("after_key_switch") /\ mem[T - 4] = at("keyboard_fin")

(* task_switch has called inner_task_switch, either way.                   *)
SavedScheduled(t, T) ==
  /\ mem[T - 10] = T - 7 /\ mem[T - 15] = at("after_inner") /\ mem[T - 16] = T - 10
  /\ Scheduled(t, T)

SavedKeyed(T) ==
  /\ mem[T - 8] = T - 5 /\ mem[T - 13] = at("after_inner") /\ mem[T - 14] = T - 8
  /\ Keyed(T)

(* The stack of a forked child that has not run.                           *)
Forked(t, T) ==
  /\ t # idle_task
  /\ mem[T - 5] = at("ret_from_fork") /\ mem[T - 4] = at("system_call_fin")
  /\ user[t][2] = 0

(* A task that is not running can be resumed.                              *)
Suspended(t) ==
  \/ /\ t = idle_task /\ kernel_esp[t] = K - 2
     /\ mem[K - 1] = at("cpu_idle") /\ mem[K - 2] = K - 1
  \/ \E T \in Tops(t) :
       /\ Trapped(t, T)
       /\ \/ kernel_esp[t] = T - 16 /\ SavedScheduled(t, T)
          \/ kernel_esp[t] = T - 14 /\ SavedKeyed(T)
          \/ kernel_esp[t] = T - 6 /\ Forked(t, T)

(* The registers at each place of a handler of t.                          *)
Handling(t, T) ==
  \/ pc = "service" /\ esp = T - 5 /\ ebp = T - 5
  \/ pc = "system_call_fin" /\ esp = T - 3 /\ mem[T - 4] = at(pc)
     /\ eax = user[t][2]
  \/ pc \in {"clock_fin", "keyboard_fin"} /\ esp = T - 3 /\ mem[T - 4] = at(pc)
  \/ pc = "task_switch" /\ esp = T - 9 /\ ebp = T - 7
     /\ mem[T - 8] = base(running) /\ Scheduled(t, T)
  \/ pc = "task_switch" /\ esp = T - 7 /\ ebp = T - 5
     /\ mem[T - 6] = base(running) /\ Keyed(T)
  \/ pc = "inner_task_switch" /\ esp = T - 16 /\ ebp = T - 16
     /\ mem[T - 14] = base(running) /\ SavedScheduled(t, T)
  \/ pc = "inner_task_switch" /\ esp = T - 14 /\ ebp = T - 14
     /\ mem[T - 12] = base(running) /\ SavedKeyed(T)
  \/ pc = "after_inner" /\ esp = T - 14 /\ eax = -1
     /\ mem[T - 10] = T - 7 /\ Scheduled(t, T)
  \/ pc = "after_inner" /\ esp = T - 12 /\ mem[T - 8] = T - 5 /\ Keyed(T)
  \/ pc = "after_task_switch" /\ esp = T - 8 /\ ebp = T - 7 /\ eax = -1
     /\ InSchedNext(t, T)
  \/ pc = "after_sched_next" /\ esp = T - 5 /\ ebp = T - 5 /\ eax = -1
     /\ GivesUp(t, T)
  \/ pc = "after_key_switch" /\ esp = T - 6 /\ ebp = T - 5
     /\ mem[T - 4] = at("keyboard_fin")
  \/ pc = "ret_from_fork" /\ esp = T - 4
     /\ mem[T - 4] = at("system_call_fin") /\ user[t][2] = 0

(* Whose stack the kernel is on: until inner_task_switch, the old task's.  *)
Switching == pc \in {"task_switch", "inner_task_switch"}
Busy == IF Switching THEN current ELSE running

Active ==
  \/ pc = "user" /\ running # idle_task /\ <<eip, eax, ebp>> = user[running]
  \/ pc = "idle_loop" /\ running = idle_task /\ esp = K - 1 /\ ebp = K - 1
  \/ pc = "cpu_idle" /\ running = idle_task /\ esp = K /\ ebp = K - 1
  \/ \E T \in Tops(Busy) : Trapped(Busy, T) /\ Handling(Busy, T)

CTypeOK ==
  /\ mem \in [Addr -> Int]
  /\ esp \in Int /\ ebp \in Int /\ eax \in Int /\ eip \in Int
  /\ kernel_esp \in [Task -> Int]
  /\ user \in [Task -> (UserValue \cup {0}) \X Int \X Int]
  /\ running \in Task /\ Busy \in Task
  /\ waiting \subseteq Task \ {idle_task, running}
  /\ ~ Switching => esp0 \in Tops(running)

Others == \A t \in (waiting \cup {idle_task, running}) \ {Busy} : Suspended(t)

CSInv == CTypeOK /\ Active /\ Others

-----------------------------------------------------------------------------
(* Addresses.                                                              *)

Slot(t) == base(t) .. base(t) + K - 1

(* A product with a natural factor does not decrease in the other one.     *)
LEMMA TimesMonotonic ==
  ASSUME NEW c \in Nat, NEW m \in Nat, NEW n \in Nat, m <= n
  PROVE  m * c \in Nat /\ n * c \in Nat /\ m * c <= n * c
<1>1. (n - m) * c \in Nat
  BY SMT
<1>2. n * c = m * c + (n - m) * c
  BY SMT
<1>3. m * c \in Nat /\ n * c \in Nat
  BY SMT
<1> QED  BY <1>1, <1>2, <1>3

(* The stacks are within the memory and do not overlap.                    *)
LEMMA Slots ==
  /\ K \in Nat /\ K >= 17
  /\ idle_task \in Task /\ init_task \in Task /\ Task \subseteq Nat
  /\ base(idle_task) = 0
  /\ \A t \in Task : base(t) \in Nat /\ Slot(t) \subseteq Addr
  /\ \A s, t \in Task : s # t => Slot(s) \cap Slot(t) = {}
<1>1. K \in Nat /\ K >= 17
  BY ContextSwitchAssumption DEF K
<1>2. idle_task \in Task /\ init_task \in Task /\ Task \subseteq Nat
  BY TasksAssumption DEF idle_task, init_task, Task
<1>3. base(idle_task) = 0
  BY <1>1 DEF base, idle_task, K
<1>4. ASSUME NEW s \in Task, NEW n \in Nat, s < n
      PROVE  base(s) \in Nat /\ n * K \in Nat /\ base(s) + K <= n * K
  <2>1. s \in Nat /\ s + 1 <= n /\ s + 1 \in Nat
    BY <1>2, <1>4
  <2>2. (s + 1) * K <= n * K /\ n * K \in Nat /\ (s + 1) * K \in Nat
    BY <1>1, <2>1, TimesMonotonic
  <2>3. s * K \in Nat /\ (s + 1) * K = s * K + K
    BY <1>1, <2>1
  <2> QED  BY <1>1, <2>2, <2>3 DEF base, K
<1>5. ASSUME NEW t \in Task
      PROVE  base(t) \in Nat /\ Slot(t) \subseteq Addr
  <2>1. t < NR_TASKS /\ NR_TASKS \in Nat
    BY TasksAssumption DEF Task
  <2>2. base(t) \in Nat /\ NR_TASKS * K \in Nat /\ base(t) + K <= NR_TASKS * K
    BY <1>4, <2>1
  <2>3. Addr = 0 .. NR_TASKS * K - 1
    BY DEF Addr, K
  <2> QED  BY <1>1, <2>2, <2>3 DEF Slot
<1>6. ASSUME NEW s \in Task, NEW t \in Task, s < t
      PROVE  Slot(s) \cap Slot(t) = {}
  <2>1. t \in Nat /\ base(t) = t * K
    BY <1>2 DEF base, K
  <2>2. base(s) \in Nat /\ base(t) \in Nat /\ base(s) + K <= base(t)
    BY <1>4, <1>5, <1>6, <2>1
  <2> QED  BY <1>1, <2>2 DEF Slot
<1>7. ASSUME NEW s \in Task, NEW t \in Task, s # t
      PROVE  Slot(s) \cap Slot(t) = {}
  <2>1. s < t \/ t < s
    BY <1>2, <1>7
  <2> QED  BY <1>6, <2>1
<1> QED  BY <1>1, <1>2, <1>3, <1>5, <1>7

(* Which slot an address is in, as current() computes it.                  *)
LEMMA SlotOf ==
  ASSUME NEW t \in Task, NEW a \in Slot(t)
  PROVE  a \in Int /\ a \div KERNEL_STACK_SIZE = t
<1>1. t \in Nat /\ K \in Nat /\ K >= 1 /\ base(t) \in Nat
  BY Slots
<1>2. a - base(t) \in Nat /\ a - base(t) < K /\ a \in Int
  BY <1>1 DEF Slot
<1>3. \A c \in Nat, x \in Nat, r \in Nat : c >= 1 /\ r < c => (c * x + r) \div c = x
  OBVIOUS
<1>4. (K * t + (a - base(t))) \div K = t
  BY <1>1, <1>2, <1>3, Zenon
<1>5. K * t = base(t)
  BY <1>1 DEF base, K
<1>6. base(t) + (a - base(t)) = a
  BY <1>1, <1>2
<1> QED  BY <1>2, <1>4, <1>5, <1>6 DEF K

(* The words a handler uses are in its own task's slot.                    *)
LEMMA TopInSlot ==
  ASSUME NEW t \in Task, NEW T \in Tops(t)
  PROVE  /\ T \in Int
         /\ \A i \in 1 .. 16 : T - i \in Slot(t)
         /\ t # idle_task \/ T = K - 1
<1>1. K \in Nat /\ K >= 17 /\ base(t) \in Nat /\ base(idle_task) = 0
  BY Slots
<1>2. T = base(t) + K - 1 \/ (t # idle_task /\ T = base(t) + K)
  BY DEF Tops
<1> HIDE DEF K
<1> QED  BY <1>1, <1>2 DEF Slot

(* The addresses of code are numbers that return where they should.        *)
Places == {"system_call_fin", "clock_fin", "after_sched_next", "after_task_switch",
           "after_inner", "ret_from_fork", "cpu_idle", "idle_loop", "keyboard_fin",
           "after_key_switch"}

LEMMA Code ==
  ASSUME NEW p \in Places
  PROVE  at(p) \in Nat /\ at(p) >= 5001 /\ at(p) <= 5010 /\ jump(at(p)) = p
<1>1. \E a \in DOMAIN code : code[a] = p
  <2>1. DOMAIN code = 5001 .. 5010
    BY DEF code
  <2>2. /\ code[5001] = "system_call_fin" /\ code[5002] = "clock_fin"
        /\ code[5003] = "after_sched_next" /\ code[5004] = "after_task_switch"
        /\ code[5005] = "after_inner" /\ code[5006] = "ret_from_fork"
        /\ code[5007] = "cpu_idle" /\ code[5008] = "idle_loop"
        /\ code[5009] = "keyboard_fin" /\ code[5010] = "after_key_switch"
    BY DEF code
  <2> QED  BY <2>1, <2>2 DEF Places
<1>2. at(p) \in DOMAIN code /\ code[at(p)] = p
  BY <1>1 DEF at
<1>3. DOMAIN code = 5001 .. 5010
  BY DEF code
<1> QED  BY <1>2, <1>3 DEF jump

-----------------------------------------------------------------------------
(* Pushing, and what it leaves alone.                                      *)

(* A push changes words below top in one slot only.                        *)
LEMMA Push ==
  ASSUME CTypeOK, NEW t \in Task, NEW top \in Int, top - 1 \in Slot(t),
         NEW ws \in Seq(Int), top - Len(ws) >= base(t), mem' = push(top, ws)
  PROVE  /\ mem' \in [Addr -> Int]
         /\ \A i \in 1 .. Len(ws) : mem'[top - i] = ws[i]
         /\ \A a \in Addr : a \notin Slot(t) \/ a >= top => mem'[a] = mem[a]
<1>1. K \in Nat /\ base(t) \in Nat /\ Slot(t) \subseteq Addr /\ Addr \subseteq Int
  BY Slots DEF Addr
<1>2. (top - 1) \div KERNEL_STACK_SIZE = t
  BY SlotOf
<1>3. mem' = [a \in Addr |-> IF a \in top - Len(ws) .. top - 1 THEN ws[top - a]
                            ELSE IF a \in base(t) .. top - 1 THEN 0 ELSE mem[a]]
  BY <1>2 DEF push
<1>4. Len(ws) \in Nat /\ \A i \in 1 .. Len(ws) : ws[i] \in Int
  OBVIOUS
<1>5. top <= base(t) + K /\ base(t) .. top - 1 \subseteq Slot(t)
  BY <1>1 DEF Slot
<1>6. ASSUME NEW i \in 1 .. Len(ws) PROVE mem'[top - i] = ws[i]
  <2>1. top - i \in base(t) .. top - 1 /\ top - i \in top - Len(ws) .. top - 1
    BY <1>1, <1>4
  <2>2. top - (top - i) = i
    BY <1>4
  <2> QED  BY <1>1, <1>3, <1>5, <2>1, <2>2, Zenon
<1>7. ASSUME NEW a \in Addr, a \notin Slot(t) \/ a >= top PROVE mem'[a] = mem[a]
  <2>1. a \notin base(t) .. top - 1
    BY <1>1, <1>5, <1>7
  <2>2. a \notin top - Len(ws) .. top - 1
    BY <1>1, <1>4, <2>1
  <2> QED  BY <1>3, <2>1, <2>2
<1>8. ASSUME NEW a \in Addr PROVE mem'[a] \in Int
  <2>1. CASE a \in top - Len(ws) .. top - 1
    <3>1. top - a \in 1 .. Len(ws)
      BY <1>1, <1>4, <2>1
    <3> QED  BY <1>3, <1>4, <2>1, <3>1
  <2>2. CASE a \notin top - Len(ws) .. top - 1
    BY <1>3, <2>2 DEF CTypeOK
  <2> QED  BY <2>1, <2>2
<1> QED  BY <1>3, <1>6, <1>7, <1>8

(* A handler's frame is not disturbed by what leaves its words alone.      *)
LEMMA TrapKept ==
  ASSUME NEW t \in Task, NEW T \in Tops(t), Trapped(t, T),
         \A i \in 1 .. 4 : mem'[T - i] = mem[T - i],
         user'[t] = user[t] \/ (/\ mem[T - 4] = at("system_call_fin")
                                /\ user'[t][1] = user[t][1] /\ user'[t][3] = user[t][3])
  PROVE  Trapped(t, T)'
<1>1. /\ mem'[T - 1] = mem[T - 1] /\ mem'[T - 2] = mem[T - 2]
      /\ mem'[T - 3] = mem[T - 3] /\ mem'[T - 4] = mem[T - 4]
  OBVIOUS
<1> QED  BY <1>1 DEF Trapped

(* Nor is a suspended task.                                                *)
LEMMA SuspendedKept ==
  ASSUME NEW t \in Task, Suspended(t), \A a \in Slot(t) : mem'[a] = mem[a],
         kernel_esp'[t] = kernel_esp[t], user'[t] = user[t]
  PROVE  Suspended(t)'
<1>1. CASE /\ t = idle_task /\ kernel_esp[t] = K - 2
           /\ mem[K - 1] = at("cpu_idle") /\ mem[K - 2] = K - 1
  <2>1. K - 1 \in Slot(t) /\ K - 2 \in Slot(t)
    BY <1>1, Slots DEF Slot
  <2> QED  BY <1>1, <2>1 DEF Suspended
<1>2. ASSUME NEW T \in Tops(t), Trapped(t, T),
             \/ kernel_esp[t] = T - 16 /\ SavedScheduled(t, T)
             \/ kernel_esp[t] = T - 14 /\ SavedKeyed(T)
             \/ kernel_esp[t] = T - 6 /\ Forked(t, T)
      PROVE  Suspended(t)'
  <2>1. \A i \in 1 .. 16 : mem'[T - i] = mem[T - i]
    BY TopInSlot
  <2>2. Trapped(t, T)'
    BY <1>2, <2>1, TrapKept
  <2>3. /\ mem'[T - 4] = mem[T - 4] /\ mem'[T - 5] = mem[T - 5]
        /\ mem'[T - 6] = mem[T - 6] /\ mem'[T - 7] = mem[T - 7]
        /\ mem'[T - 8] = mem[T - 8] /\ mem'[T - 9] = mem[T - 9]
        /\ mem'[T - 10] = mem[T - 10] /\ mem'[T - 13] = mem[T - 13]
        /\ mem'[T - 14] = mem[T - 14] /\ mem'[T - 15] = mem[T - 15]
        /\ mem'[T - 16] = mem[T - 16]
    BY <2>1
  <2>4. SavedScheduled(t, T) => SavedScheduled(t, T)'
    BY <2>3 DEF SavedScheduled, Scheduled, InSchedNext, GivesUp
  <2>5. SavedKeyed(T) => SavedKeyed(T)'
    BY <2>3 DEF SavedKeyed, Keyed
  <2>6. Forked(t, T) => Forked(t, T)'
    BY <2>3 DEF Forked
  <2>7. /\ Trapped(t, T)'
        /\ \/ kernel_esp'[t] = T - 16 /\ SavedScheduled(t, T)'
           \/ kernel_esp'[t] = T - 14 /\ SavedKeyed(T)'
           \/ kernel_esp'[t] = T - 6 /\ Forked(t, T)'
    BY <1>2, <2>2, <2>4, <2>5, <2>6
  <2> QED  BY <2>7 DEF Suspended
<1> QED  BY <1>1, <1>2 DEF Suspended

(* A step in which the running task goes on, on its own stack, does not    *)
(* disturb the others.                                                     *)
LEMMA OthersKept ==
  ASSUME CTypeOK, Others, ~ Switching, ~ Switching',
         UNCHANGED <<kernel_esp, running, waiting>>,
         \A t \in Task \ {running} :
            user'[t] = user[t] /\ \A a \in Slot(t) : mem'[a] = mem[a]
  PROVE  Others'
<1>1. Busy = running /\ Busy' = running
  BY DEF Busy
<1>2. ASSUME NEW t \in (waiting \cup {idle_task, running}) \ {running}
      PROVE  Suspended(t)'
  <2>1. t \in Task \ {running}
    BY Slots DEF CTypeOK
  <2>2. Suspended(t)
    BY <1>1 DEF Others
  <2> QED  BY <2>1, <2>2, SuspendedKept
<1> QED  BY <1>1, <1>2 DEF Others

-----------------------------------------------------------------------------
(* The invariant holds at boot and after every step.                       *)

(* At boot only idle waits, to start in cpu_idle.                          *)
LEMMA CSInvInit == Init => CSInv
<1> SUFFICES ASSUME Init PROVE CSInv
  OBVIOUS
<1>1. /\ K \in Nat /\ K >= 17 /\ K = KERNEL_STACK_SIZE
      /\ idle_task \in Task /\ init_task \in Task /\ base(idle_task) = 0
      /\ base(init_task) \in Nat /\ Slot(idle_task) \subseteq Addr
      /\ \A t \in Task : base(t) \in Nat
  BY Slots DEF K
<1>2. pc = "user" /\ ~ Switching /\ Busy = init_task /\ running = init_task
      /\ waiting = {} /\ init_task # idle_task
  BY DEF Init, Switching, Busy, idle_task, init_task
<1>3. at("cpu_idle") \in Nat
  BY Code DEF Places
<1>4. mem \in [Addr -> Int]
  BY <1>1, <1>3 DEF Init
<1>5. kernel_esp \in [Task -> Int] /\ kernel_esp[idle_task] = K - 2
  BY <1>1 DEF Init
<1>6. esp0 \in Tops(init_task) /\ esp0 \in Int
  BY <1>1, <1>2 DEF Init, Tops
<1>7. CTypeOK
  BY <1>1, <1>2, <1>4, <1>5, <1>6 DEF Init, CTypeOK
<1>8. Active
  BY <1>1, <1>2 DEF Active, Init
<1>9. mem[K - 1] = at("cpu_idle") /\ mem[K - 2] = K - 1
  <2>1. K - 1 \in Addr /\ K - 2 \in Addr
    BY <1>1 DEF Slot
  <2> QED  BY <1>1, <2>1 DEF Init
<1>10. Suspended(idle_task)
  BY <1>5, <1>9 DEF Suspended
<1>11. Others
  BY <1>2, <1>10 DEF Others
<1> QED  BY <1>7, <1>8, <1>11 DEF CSInv

(* Entering a handler from user mode puts a frame on the process's stack.  *)
LEMMA EnterStep ==
  ASSUME CSInv, NEW u \in UserValue,
         NEW fin \in {"system_call_fin", "clock_fin", "keyboard_fin"}, enter(u, fin)
  PROVE  CSInv'
<1> DEFINE T == esp0
           ws == <<u, u - 1, u - 2, at(fin), u - 2>>
<1>1. CTypeOK /\ Active /\ Others /\ pc = "user" /\ ~ Switching
  BY DEF CSInv, enter, Switching
<1>2. pc' = "service" /\ ~ Switching' /\ Busy' = running
  BY DEF enter, Switching, Busy
<1>3. running # idle_task /\ running \in Task /\ T \in Tops(running)
  <2>1. running # idle_task
    BY <1>1 DEF Active, Handling
  <2> QED  BY <1>1, <2>1 DEF CTypeOK
<1>4. T \in Int /\ \A i \in 1 .. 16 : T - i \in Slot(running)
  BY <1>3, TopInSlot
<1>5. u \in Int /\ fin \in Places /\ at(fin) \in Nat
  BY Code, ContextSwitchAssumption DEF Places
<1>6. ws \in Seq(Int) /\ Len(ws) = 5
  BY <1>5
<1>7. mem' = push(T, ws) /\ T - 1 \in Slot(running) /\ T - 5 >= base(running)
  BY <1>3, <1>4, Slots DEF enter, Slot
<1>8. /\ mem' \in [Addr -> Int]
      /\ \A i \in 1 .. 5 : mem'[T - i] = ws[i]
      /\ \A a \in Addr : a \notin Slot(running) \/ a >= T => mem'[a] = mem[a]
  BY <1>1, <1>3, <1>4, <1>6, <1>7, Push, Zenon
<1>9. mem'[T - 1] = u /\ mem'[T - 2] = u - 1 /\ mem'[T - 3] = u - 2 /\ mem'[T - 4] = at(fin)
  BY <1>8
<1>10. /\ user' \in [Task -> (UserValue \cup {0}) \X Int \X Int]
       /\ user'[running] = <<u, u - 1, u - 2>>
       /\ \A t \in Task \ {running} : user'[t] = user[t]
  BY <1>1, <1>3, <1>5 DEF enter, CTypeOK
<1>11. \A t \in Task \ {running} : \A a \in Slot(t) : mem'[a] = mem[a]
  BY <1>3, <1>8, Slots
<1>12. CTypeOK'
  BY <1>1, <1>2, <1>3, <1>4, <1>5, <1>8, <1>10, SMTT(30) DEF CTypeOK, enter, Tops
<1>13. Others'
  BY <1>1, <1>2, <1>10, <1>11, OthersKept DEF enter
<1>14. Trapped(running, T)'
  BY <1>3, <1>9, <1>10 DEF Trapped, enter
<1>15. Active'
  <2>1. esp' = T - 5 /\ ebp' = T - 5
    BY <1>4 DEF enter
  <2>2. Handling(running, T)'
    BY <1>2, <2>1 DEF Handling, enter
  <2> QED  BY <1>2, <1>3, <1>14, <2>2 DEF Active, Tops, enter
<1> QED  BY <1>12, <1>13, <1>15 DEF CSInv

(* Interrupting idle puts a frame on its stack.                            *)
LEMMA EnterIdleStep ==
  ASSUME CSInv, NEW fin \in {"clock_fin", "keyboard_fin"}, enter_idle(fin)
  PROVE  CSInv'
<1> DEFINE T == K - 1
           ws == <<at("idle_loop"), eax, ebp, at(fin), ebp>>
<1>1. CTypeOK /\ Active /\ Others /\ pc = "idle_loop" /\ ~ Switching
  BY DEF CSInv, enter_idle, Switching
<1>2. pc' = "service" /\ ~ Switching' /\ Busy' = running
  BY DEF enter_idle, Switching, Busy
<1>3. running = idle_task /\ esp = T /\ ebp = T
  BY <1>1 DEF Active, Handling
<1>4. T \in Tops(idle_task) /\ idle_task \in Task
  BY Slots DEF Tops
<1>5. T \in Int /\ \A i \in 1 .. 16 : T - i \in Slot(idle_task)
  BY <1>4, TopInSlot
<1>6. fin \in Places /\ at(fin) \in Nat /\ at("idle_loop") \in Nat
  BY Code DEF Places
<1>7. ws \in Seq(Int) /\ Len(ws) = 5
  BY <1>1, <1>6 DEF CTypeOK
<1>8. mem' = push(T, ws) /\ T - 1 \in Slot(idle_task) /\ T - 5 >= base(idle_task)
  BY <1>3, <1>4, <1>5, Slots DEF enter_idle, Slot
<1>9. /\ mem' \in [Addr -> Int]
      /\ \A i \in 1 .. 5 : mem'[T - i] = ws[i]
      /\ \A a \in Addr : a \notin Slot(idle_task) \/ a >= T => mem'[a] = mem[a]
  BY <1>1, <1>4, <1>5, <1>7, <1>8, Push, Zenon
<1>10. mem'[T - 1] = at("idle_loop") /\ mem'[T - 3] = T /\ mem'[T - 4] = at(fin)
  BY <1>3, <1>9
<1>11. \A t \in Task \ {running} : \A a \in Slot(t) : mem'[a] = mem[a]
  BY <1>3, <1>4, <1>9, Slots
<1>12. esp' = T - 5 /\ ebp' = T - 5
  BY <1>3, <1>5 DEF enter_idle
<1>13. CTypeOK'
  BY <1>1, <1>2, <1>3, <1>4, <1>5, <1>9, <1>12 DEF CTypeOK, enter_idle, Tops
<1>14. Others'
  BY <1>1, <1>2, <1>11, OthersKept DEF enter_idle
<1>15. Trapped(idle_task, T)'
  BY <1>10 DEF Trapped
<1>16. Handling(idle_task, T)'
  BY <1>2, <1>12 DEF Handling
<1>17. Active'
  BY <1>2, <1>3, <1>4, <1>15, <1>16 DEF Active, Tops
<1> QED  BY <1>13, <1>14, <1>17 DEF CSInv

(* Steps of the running task that only read its stack.                     *)
LEMMA GoesOn ==
  ASSUME CSInv, ~ Switching, ~ Switching',
         UNCHANGED <<mem, esp0, kernel_esp, running, waiting>>,
         esp' \in Int, ebp' \in Int, eax' \in Int, eip' \in Int,
         \/ user' = user
         \/ \E v \in Int : user' = [user EXCEPT ![running][2] = v]
  PROVE  CTypeOK' /\ Others'
<1>1. CTypeOK /\ Others /\ Busy' = running /\ running \in Task
  BY DEF CSInv, Busy, CTypeOK
<1>2. /\ user' \in [Task -> (UserValue \cup {0}) \X Int \X Int]
      /\ \A t \in Task \ {running} : user'[t] = user[t]
  <2>1. CASE user' = user
    BY <1>1, <2>1 DEF CTypeOK
  <2>2. ASSUME NEW v \in Int, user' = [user EXCEPT ![running][2] = v]
        PROVE  /\ user' \in [Task -> (UserValue \cup {0}) \X Int \X Int]
               /\ \A t \in Task \ {running} : user'[t] = user[t]
    <3>1. user[running] \in (UserValue \cup {0}) \X Int \X Int
      BY <1>1 DEF CTypeOK
    <3>2. [user[running] EXCEPT ![2] = v] \in (UserValue \cup {0}) \X Int \X Int
      BY <3>1
    <3>3. user' = [user EXCEPT ![running] = [user[running] EXCEPT ![2] = v]]
      BY <2>2
    <3> QED  BY <1>1, <3>2, <3>3 DEF CTypeOK
  <2> QED  BY <2>1, <2>2
<1>3. CTypeOK'
  BY <1>1, <1>2 DEF CTypeOK, Tops
<1>4. Others'
  BY <1>1, <1>2, OthersKept
<1> QED  BY <1>3, <1>4

(* A service that returns goes to the end of its handler, with the result. *)
LEMMA ServiceReturnsStep ==
  ASSUME CSInv, NEW v \in Int, service_returns(v)
  PROVE  CSInv'
<1>1. CTypeOK /\ Active /\ Others /\ pc = "service" /\ ~ Switching /\ Busy = running
  BY DEF CSInv, service_returns, Switching, Busy
<1>2. PICK T \in Tops(running) : Trapped(running, T) /\ esp = T - 5 /\ ebp = T - 5
  BY <1>1 DEF Active, Handling
<1>3. running \in Task /\ T \in Int /\ (\A i \in 1 .. 16 : T - i \in Addr)
      /\ mem \in [Addr -> Int]
  BY <1>1, TopInSlot, Slots DEF CTypeOK
<1>4. ebp + 1 = T - 4 /\ ebp + 2 = T - 3
  BY <1>2, <1>3
<1>5. /\ ebp' = mem[T - 5] /\ pc' = jump(mem[T - 4]) /\ esp' = T - 3 /\ eax' = v
      /\ user' = IF mem[T - 4] = at("system_call_fin")
                 THEN [user EXCEPT ![running][2] = v] ELSE user
      /\ UNCHANGED <<mem, eip, esp0, kernel_esp, running, waiting>>
  BY <1>1, <1>2, <1>4 DEF service_returns, leave_ret, in_system_call
<1>6. PICK fin \in {"system_call_fin", "clock_fin", "keyboard_fin"} : mem[T - 4] = at(fin)
  BY <1>2 DEF Trapped
<1>7. pc' = fin /\ jump(mem[T - 4]) = fin
  BY <1>5, <1>6, Code DEF Places
<1>8. ~ Switching' /\ Busy' = running
  BY <1>5, <1>7 DEF Switching, Busy
<1>9. ebp' \in Int /\ esp' \in Int
  BY <1>3, <1>5
<1>10. CTypeOK' /\ Others'
  <2>1. \/ user' = user
        \/ \E w \in Int : user' = [user EXCEPT ![running][2] = w]
    BY <1>5
  <2> QED  BY <1>1, <1>5, <1>8, <1>9, <2>1, GoesOn, Zenon DEF CTypeOK
<1>11. user[running] \in (UserValue \cup {0}) \X Int \X Int /\ user \in [Task -> (UserValue \cup {0}) \X Int \X Int]
  BY <1>1, <1>3 DEF CTypeOK
<1>12. mem[T - 4] = at("system_call_fin") =>
         /\ user'[running][2] = v
         /\ user'[running][1] = user[running][1] /\ user'[running][3] = user[running][3]
  BY <1>3, <1>5, <1>11
<1>13. Trapped(running, T)'
  <2>1. user'[running] = user[running] \/ mem[T - 4] = at("system_call_fin")
    BY <1>5
  <2> QED  BY <1>2, <1>3, <1>5, <1>12, <2>1, TrapKept
<1>14. Handling(running, T)'
  <2>1. esp' = T - 3 /\ mem'[T - 4] = at(pc')
    BY <1>5, <1>6, <1>7
  <2>2. fin = "system_call_fin" => eax' = user'[running][2]
    BY <1>5, <1>6, <1>12
  <2> QED  BY <1>5, <1>7, <2>1, <2>2 DEF Handling
<1>15. Active'
  BY <1>5, <1>8, <1>13, <1>14 DEF Active, Tops
<1> QED  BY <1>10, <1>15 DEF CSInv

(* The returns out of a switch, down to the service.                       *)
LEMMA AfterInnerStep ==
  ASSUME CSInv, after_inner
  PROVE  CSInv'
<1>1. CTypeOK /\ Active /\ Others /\ pc = "after_inner" /\ ~ Switching /\ Busy = running
  BY SMTT(30) DEF CSInv, after_inner, Switching, Busy
<1>2. PICK T \in Tops(running) :
        /\ Trapped(running, T)
        /\ \/ esp = T - 14 /\ eax = -1 /\ mem[T - 10] = T - 7 /\ Scheduled(running, T)
           \/ esp = T - 12 /\ mem[T - 8] = T - 5 /\ Keyed(T)
  BY <1>1 DEF Active, Handling
<1>3. running \in Task /\ T \in Int /\ mem \in [Addr -> Int]
  BY <1>1, TopInSlot DEF CTypeOK
<1>4. /\ ebp' = mem[esp + 4] /\ pc' = jump(mem[esp + 5]) /\ esp' = esp + 6
      /\ UNCHANGED <<mem, eax, eip, esp0, kernel_esp, running, waiting, user>>
  BY DEF after_inner
<1>5. Trapped(running, T)'
  BY <1>2, <1>3, <1>4, TrapKept
<1>6. \/ pc' = "after_task_switch" /\ esp' = T - 8 /\ ebp' = T - 7 /\ eax' = -1
         /\ InSchedNext(running, T)'
      \/ pc' = "after_key_switch" /\ esp' = T - 6 /\ ebp' = T - 5
         /\ mem'[T - 4] = at("keyboard_fin")
  <2>1. CASE esp = T - 14 /\ eax = -1 /\ mem[T - 10] = T - 7 /\ Scheduled(running, T)
    <3>1. esp + 4 = T - 10 /\ esp + 5 = T - 9 /\ esp + 6 = T - 8
      BY <1>3, <2>1
    <3>2. jump(at("after_task_switch")) = "after_task_switch"
      BY Code DEF Places
    <3> QED  BY <1>4, <2>1, <3>1, <3>2 DEF Scheduled, InSchedNext, GivesUp
  <2>2. CASE esp = T - 12 /\ mem[T - 8] = T - 5 /\ Keyed(T)
    <3>1. esp + 4 = T - 8 /\ esp + 5 = T - 7 /\ esp + 6 = T - 6
      BY <1>3, <2>2
    <3>2. jump(at("after_key_switch")) = "after_key_switch"
      BY Code DEF Places
    <3> QED  BY <1>4, <2>2, <3>1, <3>2 DEF Keyed
  <2> QED  BY <1>2, <2>1, <2>2
<1>7. ~ Switching' /\ Busy' = running
  BY <1>4, <1>6 DEF Switching, Busy
<1>8. CTypeOK' /\ Others'
  BY <1>1, <1>3, <1>4, <1>6, <1>7, GoesOn DEF CTypeOK
<1>9. Handling(running, T)'
  BY <1>4, <1>6, SMTT(30) DEF Handling
<1>10. Active'
  BY <1>4, <1>5, <1>7, <1>9 DEF Active, Tops
<1> QED  BY <1>8, <1>10 DEF CSInv

(* sched_next_rr returns to the service, and the service to its handler.   *)
LEMMA UnwindStep ==
  ASSUME CSInv, unwind
  PROVE  CSInv'
<1>1. /\ CTypeOK /\ Active /\ Others /\ ~ Switching /\ Busy = running
      /\ pc \in {"after_task_switch", "after_sched_next", "after_key_switch"}
  BY DEF CSInv, unwind, Switching, Busy
<1>2. PICK T \in Tops(running) :
        /\ Trapped(running, T)
        /\ \/ ebp = T - 7 /\ eax = -1 /\ InSchedNext(running, T)
           \/ ebp = T - 5 /\ eax = -1 /\ GivesUp(running, T)
           \/ ebp = T - 5 /\ mem[T - 4] = at("keyboard_fin")
  BY <1>1 DEF Active, Handling
<1>3. running \in Task /\ T \in Int /\ (\A i \in 1 .. 16 : T - i \in Addr)
      /\ mem \in [Addr -> Int]
  BY <1>1, TopInSlot, Slots DEF CTypeOK
<1>4. /\ ebp' = mem[ebp] /\ pc' = jump(mem[ebp + 1]) /\ esp' = ebp + 2
      /\ UNCHANGED <<mem, eax, eip, esp0, kernel_esp, running, waiting, user>>
  BY DEF unwind, leave_ret
<1>5. Trapped(running, T)'
  BY <1>2, <1>3, <1>4, TrapKept
<1>6. PICK fin \in {"system_call_fin", "clock_fin", "keyboard_fin"} : mem[T - 4] = at(fin)
  BY <1>2, SMTT(30) DEF Trapped
<1>7. CASE ebp = T - 7 /\ eax = -1 /\ InSchedNext(running, T)
  <2>1. ebp + 1 = T - 6 /\ ebp + 2 = T - 5
    BY <1>3, <1>7
  <2>2. jump(at("after_sched_next")) = "after_sched_next"
    BY Code DEF Places
  <2>3. pc' = "after_sched_next" /\ esp' = T - 5 /\ ebp' = T - 5 /\ eax' = -1
        /\ GivesUp(running, T)'
    BY <1>4, <1>7, <2>1, <2>2 DEF InSchedNext, GivesUp
  <2>4. ~ Switching' /\ Busy' = running
    BY <1>4, <2>3 DEF Switching, Busy
  <2>5. CTypeOK' /\ Others'
    BY <1>1, <1>3, <1>4, <2>3, <2>4, GoesOn DEF CTypeOK
  <2>6. Handling(running, T)'
    BY <1>4, <2>3 DEF Handling
  <2> QED  BY <1>4, <1>5, <2>4, <2>5, <2>6, Zenon DEF Active, Tops, CSInv
<1>8. CASE \/ ebp = T - 5 /\ eax = -1 /\ GivesUp(running, T)
           \/ ebp = T - 5 /\ mem[T - 4] = at("keyboard_fin")
  <2>1. ebp + 1 = T - 4 /\ ebp + 2 = T - 3
    BY <1>3, <1>8
  <2>2. pc' = fin /\ esp' = T - 3 /\ ebp' \in Int /\ mem'[T - 4] = at(pc')
    <3>1. jump(at(fin)) = fin
      BY Code DEF Places
    <3>2. mem[T - 5] \in Int
      BY <1>3
    <3> QED  BY <1>4, <1>6, <1>8, <2>1, <3>1, <3>2
  <2>3. fin = "system_call_fin" => eax' = user'[running][2]
    <3>1. jump(at("keyboard_fin")) = "keyboard_fin" /\ jump(at(fin)) = fin
      BY Code DEF Places
    <3> QED  BY <1>4, <1>6, <1>8, <3>1 DEF GivesUp
  <2>4. ~ Switching' /\ Busy' = running
    BY <1>4, <2>2 DEF Switching, Busy
  <2>5. CTypeOK' /\ Others'
    BY <1>1, <1>3, <1>4, <2>2, <2>4, GoesOn, SMTT(30) DEF CTypeOK
  <2>6. Handling(running, T)'
    BY <1>4, <2>2, <2>3, SMTT(30) DEF Handling
  <2> QED  BY <1>4, <1>5, <2>4, <2>5, <2>6, ZenonT(30) DEF Active, Tops, CSInv
<1> QED  BY <1>2, <1>7, <1>8

(* A child's first step in the kernel.                                     *)
LEMMA RetFromForkStep ==
  ASSUME CSInv, ret_from_fork
  PROVE  CSInv'
<1>1. /\ CTypeOK /\ Active /\ Others /\ pc = "ret_from_fork"
      /\ ~ Switching /\ Busy = running
  BY SMTT(30) DEF CSInv, ret_from_fork, Switching, Busy
<1>2. PICK T \in Tops(running) :
        /\ Trapped(running, T) /\ esp = T - 4
        /\ mem[T - 4] = at("system_call_fin") /\ user[running][2] = 0
  BY <1>1 DEF Active, Handling
<1>3. running \in Task /\ T \in Int
  BY <1>1, TopInSlot DEF CTypeOK
<1>4. /\ eax' = 0 /\ pc' = jump(mem[esp]) /\ esp' = T - 3
      /\ UNCHANGED <<mem, ebp, eip, esp0, kernel_esp, running, waiting, user>>
  BY <1>2, <1>3 DEF ret_from_fork
<1>5. pc' = "system_call_fin"
  <2>1. jump(at("system_call_fin")) = "system_call_fin"
    BY Code DEF Places
  <2> QED  BY <1>2, <1>4, <2>1
<1>6. ~ Switching' /\ Busy' = running
  BY <1>4, <1>5 DEF Switching, Busy
<1>7. CTypeOK' /\ Others'
  BY <1>1, <1>3, <1>4, <1>6, GoesOn, SMTT(30) DEF CTypeOK
<1>8. Trapped(running, T)'
  BY <1>2, <1>3, <1>4, TrapKept, SMTT(30)
<1>9. Handling(running, T)'
  BY <1>2, <1>4, <1>5, Zenon DEF Handling
<1> QED  BY <1>4, <1>6, <1>7, <1>8, <1>9 DEF Active, Tops, CSInv

(* The idle task's first step.                                             *)
LEMMA CpuIdleStep ==
  ASSUME CSInv, cpu_idle
  PROVE  CSInv'
<1>1. CTypeOK /\ Active /\ Others /\ pc = "cpu_idle" /\ ~ Switching
  BY DEF CSInv, cpu_idle, Switching
<1>2. pc' = "idle_loop" /\ ~ Switching' /\ Busy' = running
  BY DEF cpu_idle, Switching, Busy
<1>3. running = idle_task /\ esp = K /\ ebp = K - 1
  BY <1>1 DEF Active, Handling
<1>4. /\ K \in Nat /\ K >= 17 /\ idle_task \in Task /\ base(idle_task) = 0
      /\ K - 1 \in Slot(idle_task)
  BY Slots DEF Slot
<1>5. <<ebp>> \in Seq(Int) /\ Len(<<ebp>>) = 1
  BY <1>1 DEF CTypeOK
<1>6. mem' = push(K, <<ebp>>) /\ K \in Int /\ K - Len(<<ebp>>) >= base(idle_task)
  BY <1>3, <1>4, <1>5 DEF cpu_idle
<1>7. /\ mem' \in [Addr -> Int]
      /\ \A a \in Addr : a \notin Slot(idle_task) \/ a >= K => mem'[a] = mem[a]
  BY <1>1, <1>4, <1>5, <1>6, Push, Zenon
<1>8. \A t \in Task \ {running} : \A a \in Slot(t) : mem'[a] = mem[a]
  BY <1>3, <1>4, <1>7, Slots
<1>9. esp' = K - 1 /\ ebp' = K - 1
  BY <1>3, <1>4 DEF cpu_idle
<1>10. CTypeOK'
  BY <1>1, <1>2, <1>3, <1>4, <1>7, <1>9 DEF CTypeOK, cpu_idle, Tops
<1>11. Others'
  BY <1>1, <1>2, <1>8, OthersKept DEF cpu_idle
<1>12. Active'
  BY <1>2, <1>3, <1>9 DEF Active, cpu_idle
<1> QED  BY <1>10, <1>11, <1>12 DEF CSInv

(* RESTORE_ALL and iret find what the process had, or cpu_idle's registers.*)
LEMMA IretStep ==
  ASSUME CSInv, ~ Switching, NEW T \in Tops(running), Trapped(running, T), esp = T - 3,
         NEW result \in Int, running # idle_task => result = user[running][2],
         iret(result)
  PROVE  CSInv'
<1>1. CTypeOK /\ Others /\ running \in Task /\ mem \in [Addr -> Int]
  BY DEF CSInv, CTypeOK
<1>2. T \in Int /\ (running # idle_task \/ T = K - 1) /\ (\A i \in 1 .. 16 : T - i \in Addr)
  BY <1>1, TopInSlot, Slots
<1>3. esp + 2 = T - 1 /\ esp + 3 = T
  BY <1>2
<1>4. /\ ebp' = mem[T - 3] /\ eax' = result /\ esp' = T
      /\ IF mem[T - 1] = at("idle_loop") THEN pc' = "idle_loop" /\ eip' = 0
                                         ELSE pc' = "user" /\ eip' = mem[T - 1]
      /\ UNCHANGED <<mem, esp0, kernel_esp, running, waiting, user>>
  BY <1>3 DEF iret
<1>5. mem[T - 3] \in Int /\ mem[T - 1] \in Int
  BY <1>1, <1>2
<1>6. ~ Switching' /\ Busy' = running
  BY <1>4 DEF Switching, Busy
<1>7. CTypeOK' /\ Others'
  BY <1>2, <1>4, <1>5, <1>6, GoesOn
<1>8. CASE running = idle_task
  <2>1. pc' = "idle_loop" /\ ebp' = K - 1 /\ esp' = K - 1
    BY <1>2, <1>4, <1>8 DEF Trapped
  <2> QED  BY <1>4, <1>7, <1>8, <2>1 DEF Active, CSInv
<1>9. CASE running # idle_task
  <2>1. user[running] \in (UserValue \cup {0}) \X Int \X Int
    BY <1>1 DEF CTypeOK
  <2>2. user[running][1] \in UserValue \cup {0}
        /\ user[running] = <<user[running][1], user[running][2], user[running][3]>>
    BY <2>1
  <2>3. at("idle_loop") \in Nat /\ at("idle_loop") >= 5001
    BY Code DEF Places
  <2>4. user[running][1] # at("idle_loop")
    BY <2>2, <2>3, ContextSwitchAssumption
  <2>5. mem[T - 1] = user[running][1] /\ mem[T - 3] = user[running][3]
    BY <1>9 DEF Trapped
  <2>6. pc' = "user" /\ <<eip', eax', ebp'>> = user'[running']
    BY <1>4, <1>9, <2>2, <2>4, <2>5
  <2> QED  BY <1>4, <1>7, <1>9, <2>6 DEF Active, CSInv
<1> QED  BY <1>8, <1>9

(* The end of the system call handler.                                     *)
LEMMA SystemCallFinStep ==
  ASSUME CSInv, system_call_fin
  PROVE  CSInv'
<1>1. /\ CTypeOK /\ Active /\ pc = "system_call_fin" /\ ~ Switching /\ Busy = running
      /\ iret(eax) /\ eax \in Int
  BY SMTT(30) DEF CSInv, CTypeOK, system_call_fin, Switching, Busy
<1>2. PICK T \in Tops(running) :
        Trapped(running, T) /\ esp = T - 3 /\ eax = user[running][2]
  BY <1>1, SMTT(30) DEF Active, Handling
<1> QED  BY <1>1, <1>2, IretStep

(* The end of the handlers of clock and keyboard.                          *)
LEMMA ClockFinStep ==
  ASSUME CSInv, clock_fin
  PROVE  CSInv'
<1>1. /\ CTypeOK /\ Active /\ pc \in {"clock_fin", "keyboard_fin"} /\ ~ Switching
      /\ Busy = running /\ iret(mem[esp + 1])
  BY SMTT(30) DEF CSInv, clock_fin, Switching, Busy
<1>2. PICK T \in Tops(running) :
        Trapped(running, T) /\ esp = T - 3 /\ mem[T - 4] = at(pc)
  BY <1>1, Zenon DEF Active, Handling
<1>3. running \in Task /\ T \in Int /\ T - 2 \in Addr /\ mem \in [Addr -> Int]
  BY <1>1, TopInSlot, Slots DEF CTypeOK
<1>4. esp + 1 = T - 2 /\ mem[T - 2] \in Int
  BY <1>2, <1>3
<1>5. mem[T - 4] # at("system_call_fin")
  <2>1. jump(at("system_call_fin")) = "system_call_fin" /\ jump(at(pc)) = pc
    BY <1>1, Code DEF Places
  <2> QED  BY <1>1, <1>2, <2>1
<1>6. running # idle_task => mem[T - 2] = user[running][2]
  BY <1>2, <1>5 DEF Trapped
<1> QED  BY <1>1, <1>2, <1>4, <1>6, IretStep

(* A service that starts a switch stays on its task's stack; all others    *)
(* that are still there, the next one too, are as they were.               *)
LEMMA SwitchBegins ==
  ASSUME CSInv, pc = "service", pc' = "task_switch", esp' \in Slot(running),
         NEW next \in waiting \cup {idle_task, running}, running' = next,
         waiting' \subseteq (waiting \cup {running}) \ {next, idle_task},
         kernel_esp' = kernel_esp, ebp' \in Int, eax' \in Int, eip' \in Int,
         user' \in [Task -> (UserValue \cup {0}) \X Int \X Int],
         mem' \in [Addr -> Int],
         \A t \in Task \ {running} :
            user'[t] = user[t] /\ \A a \in Slot(t) : mem'[a] = mem[a]
  PROVE  CTypeOK' /\ Others' /\ Busy' = running
<1>1. CTypeOK /\ Others /\ ~ Switching /\ Busy = running
  BY DEF CSInv, Switching, Busy
<1>2. running \in Task /\ next \in Task /\ idle_task \in Task /\ waiting \subseteq Task
  BY <1>1, Slots DEF CTypeOK
<1>3. Switching' /\ Busy' = running /\ esp' \in Int
  <2>1. esp' \in Int /\ esp' \div KERNEL_STACK_SIZE = running
    BY <1>2, SlotOf
  <2> QED  BY <2>1 DEF Switching, Busy, current
<1>4. CTypeOK'
  BY <1>1, <1>2, <1>3 DEF CTypeOK
<1>5. ASSUME NEW t \in (waiting' \cup {idle_task, next}) \ {running}
      PROVE  Suspended(t)'
  <2>1. t \in (waiting \cup {idle_task, running}) \ {Busy} /\ t \in Task \ {running}
    BY <1>1, <1>2
  <2>2. Suspended(t)
    BY <1>1, <2>1 DEF Others
  <2> QED  BY <2>1, <2>2, SuspendedKept
<1>6. Others'
  BY <1>3, <1>5 DEF Others
<1> QED  BY <1>3, <1>4, <1>6

(* A tick, sys_block or sys_exit makes the scheduler switch.               *)
LEMMA SchedNextStep ==
  ASSUME CSInv, NEW next \in Task, NEW stays \in BOOLEAN, sched_next_rr(next, stays)
  PROVE  CSInv'
<1> DEFINE ws == <<at("after_sched_next"), ebp, base(next), at("after_task_switch")>>
<1>1. CTypeOK /\ Active /\ pc = "service" /\ ~ Switching /\ Busy = running
  BY SMTT(30) DEF CSInv, sched_next_rr, Switching, Busy
<1>2. PICK T \in Tops(running) : Trapped(running, T) /\ esp = T - 5 /\ ebp = T - 5
  BY <1>1 DEF Active, Handling
<1>3. running \in Task /\ T \in Int /\ (\A i \in 1 .. 16 : T - i \in Slot(running))
  BY <1>1, TopInSlot DEF CTypeOK
<1>4. /\ at("after_sched_next") \in Nat /\ at("after_task_switch") \in Nat
      /\ base(next) \in Nat /\ base(running) \in Nat
      /\ Slot(running) \subseteq Addr /\ Addr \subseteq Int
  BY <1>3, Code, Slots DEF Places, Addr
<1>5. ws \in Seq(Int) /\ Len(ws) = 4
  BY <1>1, <1>4 DEF CTypeOK
<1>6. /\ esp \in Int /\ esp - 1 = T - 6 /\ esp - 2 = T - 7 /\ esp - 3 = T - 8
      /\ esp - 4 = T - 9 /\ esp - Len(ws) >= base(running)
  BY <1>2, <1>3, <1>4, <1>5 DEF Slot
<1>7. /\ mem' \in [Addr -> Int]
      /\ \A i \in 1 .. 4 : mem'[esp - i] = ws[i]
      /\ \A a \in Addr : a \notin Slot(running) \/ a >= esp => mem'[a] = mem[a]
  <2>1. mem' = push(esp, ws) /\ esp - 1 \in Slot(running)
    BY <1>3, <1>6 DEF sched_next_rr
  <2> QED  BY <1>1, <1>3, <1>5, <1>6, <2>1, Push, Zenon
<1>8. /\ mem'[T - 6] = at("after_sched_next") /\ mem'[T - 7] = T - 5
      /\ mem'[T - 8] = base(next) /\ mem'[T - 9] = at("after_task_switch")
  BY <1>2, <1>6, <1>7
<1>9. \A i \in 1 .. 4 : mem'[T - i] = mem[T - i]
  BY <1>2, <1>3, <1>4, <1>7
<1>10. /\ esp' = T - 9 /\ ebp' = T - 7 /\ pc' = "task_switch" /\ running' = next
       /\ waiting' \subseteq (waiting \cup {running}) \ {next, idle_task}
       /\ next \in waiting \cup {idle_task, running}
       /\ UNCHANGED <<eax, eip, esp0, kernel_esp>>
  BY <1>6 DEF sched_next_rr
<1>11. user' = IF mem[T - 4] = at("system_call_fin")
               THEN [user EXCEPT ![running] = [user[running] EXCEPT ![2] = -1]]
               ELSE user
  <2>1. ebp + 1 = T - 4
    BY <1>2, <1>3
  <2> QED  BY <1>1, <2>1 DEF sched_next_rr, in_system_call
<1>12. /\ user \in [Task -> (UserValue \cup {0}) \X Int \X Int]
       /\ user[running] \in (UserValue \cup {0}) \X Int \X Int
  BY <1>1, <1>3 DEF CTypeOK
<1>13. /\ user' \in [Task -> (UserValue \cup {0}) \X Int \X Int]
       /\ \A t \in Task \ {running} : user'[t] = user[t]
       /\ mem[T - 4] # at("system_call_fin") => user'[running] = user[running]
       /\ mem[T - 4] = at("system_call_fin") =>
            /\ user'[running][2] = -1
            /\ user'[running][1] = user[running][1] /\ user'[running][3] = user[running][3]
  <2>1. [user[running] EXCEPT ![2] = -1] \in (UserValue \cup {0}) \X Int \X Int
    BY <1>12
  <2> QED  BY <1>3, <1>11, <1>12, <2>1
<1>14. \A t \in Task \ {running} : \A a \in Slot(t) : mem'[a] = mem[a]
  BY <1>3, <1>7, Slots
<1>15. CTypeOK' /\ Others' /\ Busy' = running
  <2>1. esp' \in Slot(running) /\ ebp' \in Int /\ eax' \in Int /\ eip' \in Int
    BY <1>1, <1>3, <1>10 DEF CTypeOK
  <2> QED  BY <1>1, <1>7, <1>10, <1>13, <1>14, <2>1, SwitchBegins
<1>16. PICK r \in Task : r = running
  BY <1>3, SMTT(30)
<1>17. Trapped(r, T)'
  BY <1>2, <1>9, <1>13, <1>16, TrapKept, SMTT(30)
<1>18. Scheduled(r, T)'
  BY <1>8, <1>9, <1>13, <1>16, SMTT(30) DEF Scheduled, InSchedNext, GivesUp
<1>19. Handling(r, T)'
  BY <1>8, <1>10, <1>18 DEF Handling
<1>20. T \in Tops(r) /\ Busy' = r
  BY <1>15, <1>16
<1>21. Active'
  BY <1>17, <1>19, <1>20 DEF Active, Tops
<1> QED  BY <1>15, <1>21 DEF CSInv

(* A key makes keyboard_service switch.                                    *)
LEMMA KeySwitchStep ==
  ASSUME CSInv, NEW next \in Task, key_switch(next)
  PROVE  CSInv'
<1> DEFINE ws == <<base(next), at("after_key_switch")>>
<1>1. CTypeOK /\ Active /\ pc = "service" /\ ~ Switching /\ Busy = running
  BY SMTT(30) DEF CSInv, key_switch, in_keyboard, Switching, Busy
<1>2. PICK T \in Tops(running) : Trapped(running, T) /\ esp = T - 5 /\ ebp = T - 5
  BY <1>1 DEF Active, Handling
<1>3. running \in Task /\ T \in Int /\ (\A i \in 1 .. 16 : T - i \in Slot(running))
  BY <1>1, TopInSlot DEF CTypeOK
<1>4. /\ at("after_key_switch") \in Nat /\ base(next) \in Nat /\ base(running) \in Nat
      /\ Slot(running) \subseteq Addr /\ Addr \subseteq Int
  BY <1>3, Code, Slots DEF Places, Addr
<1>5. ws \in Seq(Int) /\ Len(ws) = 2
  BY <1>4
<1>6. /\ esp \in Int /\ esp - 1 = T - 6 /\ esp - 2 = T - 7
      /\ esp - Len(ws) >= base(running)
  BY <1>2, <1>3, <1>4, <1>5 DEF Slot
<1>7. /\ mem' \in [Addr -> Int]
      /\ \A i \in 1 .. 2 : mem'[esp - i] = ws[i]
      /\ \A a \in Addr : a \notin Slot(running) \/ a >= esp => mem'[a] = mem[a]
  <2>1. mem' = push(esp, ws) /\ esp - 1 \in Slot(running)
    BY <1>3, <1>6 DEF key_switch
  <2> QED  BY <1>1, <1>3, <1>5, <1>6, <2>1, Push, Zenon
<1>8. mem'[T - 6] = base(next) /\ mem'[T - 7] = at("after_key_switch")
  BY <1>6, <1>7
<1>9. \A i \in 1 .. 4 : mem'[T - i] = mem[T - i]
  BY <1>2, <1>3, <1>4, <1>7
<1>10. /\ esp' = T - 7 /\ ebp' = T - 5 /\ pc' = "task_switch" /\ running' = next
       /\ waiting' \subseteq (waiting \cup {running}) \ {next, idle_task}
       /\ next \in waiting \cup {idle_task, running}
       /\ UNCHANGED <<eax, eip, esp0, kernel_esp, user>>
  BY <1>2, <1>6 DEF key_switch
<1>11. mem[T - 4] = at("keyboard_fin")
  <2>1. ebp + 1 = T - 4
    BY <1>2, <1>3
  <2> QED  BY <2>1 DEF key_switch, in_keyboard
<1>12. \A t \in Task \ {running} : \A a \in Slot(t) : mem'[a] = mem[a]
  BY <1>3, <1>7, Slots
<1>13. CTypeOK' /\ Others' /\ Busy' = running
  <2>1. /\ esp' \in Slot(running) /\ ebp' \in Int /\ eax' \in Int /\ eip' \in Int
        /\ user' \in [Task -> (UserValue \cup {0}) \X Int \X Int]
    BY <1>1, <1>3, <1>10 DEF CTypeOK
  <2> QED  BY <1>1, <1>7, <1>10, <1>12, <2>1, SwitchBegins
<1>14. PICK r \in Task : r = running
  BY <1>3
<1>15. Trapped(r, T)'
  BY <1>2, <1>9, <1>10, <1>14, TrapKept
<1>16. Keyed(T)'
  BY <1>8, <1>9, <1>11 DEF Keyed
<1>17. Handling(r, T)'
  BY <1>8, <1>10, <1>16, Zenon DEF Handling
<1>18. T \in Tops(r) /\ Busy' = r
  BY <1>13, <1>14
<1>19. Active'
  BY <1>15, <1>17, <1>18, Zenon DEF Active, Tops
<1> QED  BY <1>13, <1>19 DEF CSInv

(* task_switch saves its frame pointer on the old task's stack and calls   *)
(* inner_task_switch.                                                      *)
LEMMA TaskSwitchStep ==
  ASSUME CSInv, task_switch
  PROVE  CSInv'
<1> DEFINE ws == <<ebp, 0, 0, 0, mem[esp + 1], at("after_inner"), esp - 1>>
<1>1. CTypeOK /\ Active /\ Others /\ pc = "task_switch" /\ Switching
  BY DEF CSInv, task_switch, Switching
<1>2. PICK b \in Task : b = Busy
  BY <1>1, SMTT(30) DEF CTypeOK
<1>3. PICK T \in Tops(b) :
        /\ Trapped(b, T)
        /\ \/ esp = T - 9 /\ ebp = T - 7 /\ mem[T - 8] = base(running) /\ Scheduled(b, T)
           \/ esp = T - 7 /\ ebp = T - 5 /\ mem[T - 6] = base(running) /\ Keyed(T)
  BY <1>1, <1>2 DEF Active, Handling
<1>4. T \in Int /\ (\A i \in 1 .. 16 : T - i \in Slot(b))
  BY <1>2, TopInSlot
<1>5. /\ at("after_inner") \in Nat /\ base(b) \in Nat
      /\ Slot(b) \subseteq Addr /\ Addr \subseteq Int /\ running \in Task
      /\ base(running) \in Nat
  BY <1>1, <1>2, Code, Slots DEF Places, Addr, CTypeOK
<1>6. /\ esp \in Int /\ esp - 1 \in Slot(b) /\ esp - 7 \in Slot(b)
      /\ mem[esp + 1] = base(running)
  <2>1. CASE esp = T - 9 /\ mem[T - 8] = base(running)
    <3>1. esp + 1 = T - 8 /\ esp - 1 = T - 10 /\ esp - 7 = T - 16
      BY <1>4, <2>1
    <3> QED  BY <1>4, <2>1, <3>1
  <2>2. CASE esp = T - 7 /\ mem[T - 6] = base(running)
    <3>1. esp + 1 = T - 6 /\ esp - 1 = T - 8 /\ esp - 7 = T - 14
      BY <1>4, <2>2
    <3> QED  BY <1>4, <2>2, <3>1
  <2> QED  BY <1>3, <2>1, <2>2
<1>7. ws \in Seq(Int) /\ Len(ws) = 7
  <2>1. ebp \in Int /\ esp - 1 \in Int
    BY <1>1, <1>6 DEF CTypeOK
  <2> QED  BY <1>5, <1>6, <2>1
<1>8. /\ mem' \in [Addr -> Int]
      /\ \A i \in 1 .. 7 : mem'[esp - i] = ws[i]
      /\ \A a \in Addr : a \notin Slot(b) \/ a >= esp => mem'[a] = mem[a]
  <2>1. mem' = push(esp, ws) /\ esp - Len(ws) >= base(b)
    BY <1>5, <1>6, <1>7 DEF task_switch, Slot
  <2> QED  BY <1>1, <1>2, <1>6, <1>7, <2>1, Push, ZenonT(30)
<1>9. /\ mem'[esp - 1] = ebp /\ mem'[esp - 5] = base(running)
      /\ mem'[esp - 6] = at("after_inner") /\ mem'[esp - 7] = esp - 1
  BY <1>6, <1>8
<1>10. /\ esp' = esp - 7 /\ ebp' = esp - 7 /\ pc' = "inner_task_switch"
       /\ UNCHANGED <<eax, eip, esp0, kernel_esp, running, waiting, user>>
  BY DEF task_switch
<1>11. Switching' /\ Busy' = b /\ esp' \in Int
  <2>1. esp' \in Int /\ esp' \div KERNEL_STACK_SIZE = b
    BY <1>6, <1>10, SlotOf
  <2> QED  BY <1>10, <2>1 DEF Switching, Busy, current
<1>12. CTypeOK'
  BY <1>1, <1>8, <1>10, <1>11 DEF CTypeOK
<1>13. Others'
  <2>1. ASSUME NEW t \in (waiting \cup {idle_task, running}) \ {b}
        PROVE  Suspended(t)'
    <3>1. t \in Task /\ t # b /\ Suspended(t)
      BY <1>1, <1>2, Slots DEF CTypeOK, Others
    <3>2. \A a \in Slot(t) : mem'[a] = mem[a]
      BY <1>2, <1>8, <3>1, Slots
    <3> QED  BY <1>10, <3>1, <3>2, SuspendedKept
  <2> QED  BY <1>10, <1>11, <2>1 DEF Others
<1>14. \A i \in 1 .. 7 : mem'[T - i] = mem[T - i]
  <2>1. esp <= T - 7
    BY <1>3, <1>4
  <2>2. \A i \in 1 .. 7 : T - i >= esp /\ T - i \in Addr
    BY <1>4, <1>5, <1>6, <2>1
  <2> QED  BY <1>8, <2>2
<1>15. Trapped(b, T)'
  BY <1>3, <1>10, <1>14, TrapKept
<1>16. Handling(b, T)'
  <2>1. CASE esp = T - 9 /\ ebp = T - 7 /\ Scheduled(b, T)
    <3>1. /\ esp - 1 = T - 10 /\ esp - 5 = T - 14 /\ esp - 6 = T - 15 /\ esp - 7 = T - 16
          /\ T - 9 >= esp /\ T - 9 \in Addr
      BY <1>4, <1>5, <2>1
    <3>2. mem'[T - 9] = mem[T - 9]
      BY <1>8, <3>1, SMTT(30)
    <3>3. SavedScheduled(b, T)'
      BY <1>9, <1>10, <1>14, <2>1, <3>1, <3>2
         DEF SavedScheduled, Scheduled, InSchedNext, GivesUp
    <3>4. esp' = T - 16 /\ ebp' = T - 16 /\ mem'[T - 14] = base(running)
      BY <1>9, <1>10, <3>1, SMTT(30)
    <3> QED  BY <1>10, <3>3, <3>4, Zenon DEF Handling
  <2>2. CASE esp = T - 7 /\ ebp = T - 5 /\ Keyed(T)
    <3>1. esp - 1 = T - 8 /\ esp - 5 = T - 12 /\ esp - 6 = T - 13 /\ esp - 7 = T - 14
      BY <1>4, <2>2
    <3>2. SavedKeyed(T)'
      BY <1>9, <1>14, <2>2, <3>1 DEF SavedKeyed, Keyed
    <3>3. esp' = T - 14 /\ ebp' = T - 14 /\ mem'[T - 12] = base(running)
      BY <1>9, <1>10, <3>1
    <3> QED  BY <1>10, <3>2, <3>3, Zenon DEF Handling
  <2> QED  BY <1>3, <2>1, <2>2, SMTT(30)
<1>17. Active'
  BY <1>11, <1>15, <1>16 DEF Active, Tops
<1> QED  BY <1>12, <1>13, <1>17 DEF CSInv

(* inner_task_switch leaves the old task so that it can be resumed, and    *)
(* resumes the next one, which may be the old one itself.                  *)
LEMMA InnerTaskSwitchStep ==
  ASSUME CSInv, inner_task_switch
  PROVE  CSInv'
<1>1. CTypeOK /\ Active /\ Others /\ pc = "inner_task_switch" /\ Switching
  BY DEF CSInv, inner_task_switch, Switching
<1>2. PICK b \in Task, r \in Task : b = Busy /\ r = running /\ b = current
  BY <1>1, SMTT(30) DEF CTypeOK, Busy
<1>3. PICK T \in Tops(b) :
        /\ Trapped(b, T)
        /\ \/ ebp = T - 16 /\ mem[T - 14] = base(r) /\ SavedScheduled(b, T)
           \/ ebp = T - 14 /\ mem[T - 12] = base(r) /\ SavedKeyed(T)
  BY <1>1, <1>2 DEF Active, Handling
<1>4. T \in Int /\ (\A i \in 1 .. 16 : T - i \in Addr)
  BY <1>2, TopInSlot, Slots
<1>5. mem[ebp + 2] = base(r) /\ ebp \in Int
  <2>1. CASE ebp = T - 16 /\ mem[T - 14] = base(r)
    BY <1>4, <2>1
  <2>2. CASE ebp = T - 14 /\ mem[T - 12] = base(r)
    BY <1>4, <2>2
  <2> QED  BY <1>3, <2>1, <2>2
<1>6. base(r) \div KERNEL_STACK_SIZE = r
  <2>1. base(r) \in Slot(r)
    BY <1>2, Slots DEF Slot
  <2> QED  BY <1>2, <2>1, SlotOf
<1> DEFINE top == kernel_esp'[r]
<1>7. /\ esp0' = base(r) + K - 1 /\ kernel_esp' = [kernel_esp EXCEPT ![b] = ebp]
      /\ ebp' = mem[top] /\ pc' = jump(mem[top + 1]) /\ esp' = top + 2 /\ eax' = -1
      /\ UNCHANGED <<mem, eip, running, waiting, user>>
  BY <1>2, <1>5, <1>6 DEF inner_task_switch, save_context, new_esp0, K
<1>8. kernel_esp' \in [Task -> Int] /\ kernel_esp'[b] = ebp
      /\ \A t \in Task \ {b} : kernel_esp'[t] = kernel_esp[t]
  BY <1>1, <1>2, <1>5, <1>7 DEF CTypeOK
<1>9. Suspended(b)'
  <2>1. Trapped(b, T)'
    BY <1>2, <1>3, <1>7, TrapKept, SMTT(30)
  <2>2. \/ kernel_esp'[b] = T - 16 /\ SavedScheduled(b, T)'
        \/ kernel_esp'[b] = T - 14 /\ SavedKeyed(T)'
    BY <1>3, <1>7, <1>8 DEF SavedScheduled, Scheduled, InSchedNext, GivesUp, SavedKeyed, Keyed
  <2>3. T \in Tops(b)'
    BY DEF Tops
  <2> QED  BY <2>1, <2>2, <2>3, SMTT(30) DEF Suspended
<1>10. ASSUME NEW t \in waiting \cup {idle_task, running}
       PROVE  Suspended(t)'
  <2>1. t \in Task
    BY <1>1, Slots DEF CTypeOK
  <2>2. CASE t # b
    <3>1. Suspended(t)
      BY <1>1, <1>2, <2>2 DEF Others
    <3> QED  BY <1>7, <1>8, <2>1, <2>2, <3>1, SuspendedKept
  <2> QED  BY <1>9, <2>2
<1>11. Suspended(r)'
  BY <1>2, <1>10
<1>12. /\ jump(at("cpu_idle")) = "cpu_idle" /\ jump(at("after_inner")) = "after_inner"
       /\ jump(at("ret_from_fork")) = "ret_from_fork"
  BY Code DEF Places
<1>13. /\ pc' \in {"cpu_idle", "after_inner", "ret_from_fork"} /\ ebp' \in Int /\ Active'
  <2>1. CASE /\ r = idle_task /\ top = K - 2
             /\ mem'[K - 1] = at("cpu_idle") /\ mem'[K - 2] = K - 1
    <3>1. top + 1 = K - 1 /\ top + 2 = K /\ K \in Nat
      BY <2>1, Slots
    <3>2. pc' = "cpu_idle" /\ esp' = K /\ ebp' = K - 1
      BY <1>7, <1>12, <2>1, <3>1
    <3>3. Active'
      BY <1>2, <1>7, <2>1, <3>2 DEF Active
    <3> QED  BY <3>1, <3>2, <3>3
  <2>2. ASSUME NEW U \in Tops(r), Trapped(r, U)',
               \/ top = U - 16 /\ SavedScheduled(r, U)'
               \/ top = U - 14 /\ SavedKeyed(U)'
               \/ top = U - 6 /\ Forked(r, U)'
        PROVE  pc' \in {"cpu_idle", "after_inner", "ret_from_fork"} /\ ebp' \in Int /\ Active'
    <3>1. U \in Int /\ (\A i \in 1 .. 16 : U - i \in Addr)
      BY <1>2, TopInSlot, Slots
    <3>2. /\ Handling(r, U)' /\ ebp' \in Int
          /\ pc' \in {"cpu_idle", "after_inner", "ret_from_fork"}
      <4>1. CASE top = U - 16 /\ SavedScheduled(r, U)'
        <5>1. top + 1 = U - 15 /\ top + 2 = U - 14
          BY <3>1, <4>1
        <5>2. /\ pc' = "after_inner" /\ ebp' = U - 10 /\ esp' = U - 14
              /\ mem'[U - 10] = U - 7 /\ Scheduled(r, U)'
          BY <1>7, <1>12, <4>1, <5>1, SMTT(30) DEF SavedScheduled
        <5> QED  BY <1>7, <3>1, <5>2 DEF Handling
      <4>2. CASE top = U - 14 /\ SavedKeyed(U)'
        <5>1. top + 1 = U - 13 /\ top + 2 = U - 12
          BY <3>1, <4>2
        <5>2. /\ pc' = "after_inner" /\ ebp' = U - 8 /\ esp' = U - 12
              /\ mem'[U - 8] = U - 5 /\ Keyed(U)'
          BY <1>7, <1>12, <4>2, <5>1, SMTT(30) DEF SavedKeyed
        <5> QED  BY <1>7, <3>1, <5>2 DEF Handling
      <4>3. CASE top = U - 6 /\ Forked(r, U)'
        <5>1. top + 1 = U - 5 /\ top + 2 = U - 4 /\ U - 6 \in Addr
          BY <3>1, <4>3
        <5>2. /\ pc' = "ret_from_fork" /\ esp' = U - 4 /\ ebp' \in Int
              /\ mem'[U - 4] = at("system_call_fin") /\ user'[r][2] = 0
          BY <1>1, <1>7, <1>12, <4>3, <5>1 DEF Forked, CTypeOK
        <5> QED  BY <5>2 DEF Handling
      <4> QED  BY <2>2, <4>1, <4>2, <4>3, SMTT(30)
    <3>3. Busy' = r
      BY <1>2, <1>7, <3>2, SMTT(30) DEF Busy, Switching
    <3>4. Active'
      BY <2>2, <3>2, <3>3, Zenon DEF Active, Tops
    <3> QED  BY <3>2, <3>4
  <2> QED  BY <1>11, <2>1, <2>2 DEF Suspended, Tops
<1>14. ~ Switching' /\ Busy' = r
  BY <1>2, <1>7, <1>13 DEF Switching, Busy
<1>15. CTypeOK'
  <2>1. esp0' \in Tops(r)
    BY <1>7 DEF Tops
  <2>2. esp' \in Int
    BY <1>2, <1>7, <1>8
  <2> QED  BY <1>1, <1>2, <1>7, <1>8, <1>13, <1>14, <2>1, <2>2 DEF CTypeOK, Tops
<1>16. Others'
  BY <1>7, <1>10 DEF Others
<1> QED  BY <1>13, <1>15, <1>16 DEF CSInv

(* An address that current() attributes to a slot is in it.                *)
LEMMA SlotBack ==
  ASSUME NEW a \in Addr, NEW t \in Task, a \div KERNEL_STACK_SIZE = t
  PROVE  a \in Slot(t)
<1>1. a \in Nat /\ K \in Nat /\ K >= 1 /\ t \in Nat /\ base(t) \in Nat
  BY Slots DEF Addr
<1>2. \A c \in Nat, n \in Nat : c >= 1 => c * (n \div c) <= n /\ n < c * (n \div c) + c
  BY SMT
<1>3. K * t <= a /\ a < K * t + K
  BY <1>1, <1>2 DEF K
<1>4. K * t = base(t)
  BY <1>1 DEF base, K
<1> QED  BY <1>1, <1>3, <1>4 DEF Slot

(* The child's stack is the parent's, with a way into user mode instead of *)
(* sys_fork's frame; the parent goes on.                                   *)
LEMMA ForkStep ==
  ASSUME CSInv, NEW new \in Task, sys_fork(new)
  PROVE  CSInv'
<1>1. /\ CTypeOK /\ Active /\ Others /\ pc = "service" /\ ~ Switching
      /\ Busy = running /\ new \notin waiting \cup {running, idle_task}
  BY DEF CSInv, sys_fork, in_system_call, Switching, Busy
<1>2. PICK r \in Task : r = running
  BY <1>1, SMTT(30) DEF CTypeOK
<1>3. PICK T \in Tops(r) : Trapped(r, T) /\ esp = T - 5 /\ ebp = T - 5
  BY <1>1, <1>2 DEF Active, Handling
<1>4. T \in Int /\ (\A i \in 1 .. 16 : T - i \in Slot(r))
  BY <1>2, TopInSlot, SMTT(30)
<1>5. mem[T - 4] = at("system_call_fin") /\ r # idle_task
  <2>1. ebp + 1 = T - 4
    BY <1>3, <1>4
  <2>2. mem[T - 4] = at("system_call_fin")
    BY <2>1 DEF sys_fork, in_system_call
  <2>3. /\ jump(at("system_call_fin")) = "system_call_fin"
        /\ jump(at("clock_fin")) = "clock_fin" /\ jump(at("keyboard_fin")) = "keyboard_fin"
    BY Code DEF Places
  <2> QED  BY <1>3, <2>2, <2>3 DEF Trapped
<1>6. /\ K \in Nat /\ K = KERNEL_STACK_SIZE /\ base(r) \in Nat /\ base(new) \in Nat
      /\ Slot(r) \subseteq Addr /\ Slot(new) \subseteq Addr /\ Addr \subseteq Int
  BY <1>2, Slots DEF K, Addr
<1>7. PICK U \in Int : U = base(new) + (T - base(r))
  BY <1>4, <1>6
<1>8. U \in Tops(new) /\ new # idle_task
  BY <1>1, <1>3, <1>5, <1>6, <1>7 DEF Tops
<1>9. \A i \in 1 .. 16 : U - i \in Slot(new)
  BY <1>8, TopInSlot
<1>10. current = r
  <2>1. esp \in Slot(r)
    BY <1>3, <1>4
  <2> QED  BY <1>2, <2>1, SlotOf DEF current
<1>11. base(new) + KERNEL_STACK_SIZE - ebp_diff = U - 5 /\ (U - 5) - 1 = U - 6
  BY <1>3, <1>4, <1>6, <1>7, <1>10 DEF ebp_diff
<1>12. /\ mem' = [a \in Addr |->
           CASE a = U - 5 -> at("ret_from_fork")
             [] a = U - 6 -> 0
             [] a \div KERNEL_STACK_SIZE = new /\ a \notin {U - 6, U - 5}
                          -> mem[a - base(new) + base(r)]
             [] OTHER     -> mem[a]]
       /\ kernel_esp' = [kernel_esp EXCEPT ![new] = U - 6]
       /\ leave_ret /\ eax' = new /\ waiting' = waiting \cup {new}
       /\ user' = [user EXCEPT ![new] = [user[r] EXCEPT ![2] = 0], ![r][2] = new]
       /\ UNCHANGED <<eip, esp0, running>>
  <2> DEFINE frame == base(new) + KERNEL_STACK_SIZE - ebp_diff
  <2>1. /\ mem' = [a \in Addr |->
             CASE a = frame     -> at("ret_from_fork")
               [] a = frame - 1 -> 0
               [] a \div KERNEL_STACK_SIZE = new /\ a \notin {frame - 1, frame}
                                -> mem[a - base(new) + base(current)]
               [] OTHER         -> mem[a]]
        /\ kernel_esp' = [kernel_esp EXCEPT ![new] = frame - 1]
    BY Zenon DEF sys_fork
  <2>2. /\ leave_ret /\ eax' = new /\ waiting' = waiting \cup {new}
        /\ user' = [user EXCEPT ![new] = [user[running] EXCEPT ![2] = 0],
                                ![running][2] = new]
        /\ UNCHANGED <<eip, esp0, running>>
    BY Zenon DEF sys_fork
  <2>3. frame = U - 5 /\ frame - 1 = U - 6
    BY <1>11
  <2> HIDE DEF frame
  <2>4. base(current) = base(r) /\ {frame - 1, frame} = {U - 6, U - 5}
    BY <1>10, <2>3
  <2>5. kernel_esp' = [kernel_esp EXCEPT ![new] = U - 6]
    BY <2>1, <2>3, Zenon
  <2>6. mem' = [a \in Addr |->
           CASE a = U - 5 -> at("ret_from_fork")
             [] a = U - 6 -> 0
             [] a \div KERNEL_STACK_SIZE = new /\ a \notin {U - 6, U - 5}
                          -> mem[a - base(new) + base(r)]
             [] OTHER     -> mem[a]]
    BY <2>1, <2>3, <2>4
  <2> QED  BY <1>2, <2>2, <2>5, <2>6, Zenon
<1>13. \A a \in Addr : a \notin Slot(new) => mem'[a] = mem[a]
  <2>1. \A a \in Addr : a \notin Slot(new) =>
          a # U - 5 /\ a # U - 6 /\ ~ (a \div KERNEL_STACK_SIZE = new)
    BY <1>9, SlotBack
  <2> QED  BY <1>12, <2>1
<1>14. ASSUME NEW i \in 1 .. 4 PROVE mem'[U - i] = mem[T - i]
  <2>1. U - i \in Slot(new) /\ U - i # U - 5 /\ U - i # U - 6
    BY <1>9
  <2>2. (U - i) \div KERNEL_STACK_SIZE = new /\ U - i \in Addr
    BY <1>6, <2>1, SlotOf
  <2>3. U - i - base(new) + base(r) = T - i
    BY <1>4, <1>6, <1>7
  <2> QED  BY <1>12, <2>1, <2>2, <2>3
<1>15. mem'[U - 5] = at("ret_from_fork")
  BY <1>6, <1>9, <1>12
<1>16. mem' \in [Addr -> Int]
  <2>1. at("ret_from_fork") \in Int /\ mem \in [Addr -> Int]
    BY <1>1, Code DEF Places, CTypeOK
  <2>2. ASSUME NEW a \in Addr PROVE mem'[a] \in Int
    <3>1. CASE a \notin Slot(new)
      BY <1>13, <2>1, <3>1
    <3>2. CASE a \in Slot(new)
      <4>1. a - base(new) + base(r) \in Slot(r) /\ a \div KERNEL_STACK_SIZE = new
        BY <1>6, <3>2, SlotOf, SMTT(30) DEF Slot
      <4>2. mem[a - base(new) + base(r)] \in Int
        BY <1>6, <2>1, <4>1
      <4> QED  BY <1>12, <2>1, <4>1, <4>2
    <3> QED  BY <3>1, <3>2
  <2> QED  BY <1>12, <2>2
<1>17. \A a \in Slot(r) : mem'[a] = mem[a]
  BY <1>1, <1>2, <1>6, <1>13, Slots, Zenon
<1>18. user[r] \in (UserValue \cup {0}) \X Int \X Int
       /\ user \in [Task -> (UserValue \cup {0}) \X Int \X Int] /\ new # r
  BY <1>1, <1>2 DEF CTypeOK
<1>19. /\ user' \in [Task -> (UserValue \cup {0}) \X Int \X Int]
       /\ user'[new] = [user[r] EXCEPT ![2] = 0]
       /\ user'[r] = [user[r] EXCEPT ![2] = new]
       /\ \A t \in Task \ {r, new} : user'[t] = user[t]
  <2>1. /\ [user[r] EXCEPT ![2] = 0] \in (UserValue \cup {0}) \X Int \X Int
        /\ [user[r] EXCEPT ![2] = new] \in (UserValue \cup {0}) \X Int \X Int
    BY <1>18, Slots
  <2> QED  BY <1>2, <1>12, <1>18, <2>1, Zenon
<1>20. /\ user'[new][1] = user[r][1] /\ user'[new][2] = 0 /\ user'[new][3] = user[r][3]
       /\ user'[r][1] = user[r][1] /\ user'[r][2] = new /\ user'[r][3] = user[r][3]
  BY <1>18, <1>19
<1>21. pc' = "system_call_fin" /\ esp' = T - 3 /\ ebp' \in Int
  <2>1. ebp + 1 = T - 4 /\ ebp + 2 = T - 3 /\ T - 5 \in Addr
    BY <1>3, <1>4, <1>6
  <2>2. jump(at("system_call_fin")) = "system_call_fin"
    BY Code DEF Places
  <2> QED  BY <1>1, <1>3, <1>5, <1>12, <2>1, <2>2 DEF leave_ret, CTypeOK
<1>22. ~ Switching' /\ Busy' = r
  BY <1>2, <1>12, <1>21 DEF Switching, Busy
<1>23. kernel_esp' \in [Task -> Int] /\ kernel_esp'[new] = U - 6
       /\ \A t \in Task \ {new} : kernel_esp'[t] = kernel_esp[t]
  BY <1>1, <1>12 DEF CTypeOK
<1>24. CTypeOK'
  <2>1. eax' \in Int /\ esp' \in Int
    BY <1>4, <1>12, <1>21, Slots
  <2> QED  BY <1>1, <1>2, <1>12, <1>16, <1>19, <1>21, <1>22, <1>23, <2>1, Zenon
              DEF CTypeOK, Tops
<1>25. Suspended(new)'
  <2>1. Trapped(new, U)'
    <3>1. /\ mem'[U - 1] = mem[T - 1] /\ mem'[U - 3] = mem[T - 3]
          /\ mem'[U - 4] = mem[T - 4]
      BY <1>14
    <3> QED  BY <1>3, <1>5, <1>8, <1>20, <3>1 DEF Trapped
  <2>2. Forked(new, U)'
    BY <1>5, <1>8, <1>14, <1>15, <1>20 DEF Forked
  <2> QED  BY <1>8, <1>23, <2>1, <2>2, SMTT(30) DEF Suspended, Tops
<1>26. Others'
  <2>1. ASSUME NEW t \in (waiting \cup {idle_task}) \ {r}
        PROVE  Suspended(t)'
    <3>1. t \in Task /\ t # new /\ Suspended(t)
      BY <1>1, <1>2, Slots DEF CTypeOK, Others
    <3>2. \A a \in Slot(t) : mem'[a] = mem[a]
      BY <1>13, <3>1, Slots
    <3> QED  BY <1>19, <1>23, <2>1, <3>1, <3>2, SuspendedKept
  <2> QED  BY <1>2, <1>12, <1>22, <1>25, <2>1, SMTT(30) DEF Others
<1>27. Active'
  <2>1. \A i \in 1 .. 4 : mem'[T - i] = mem[T - i]
    BY <1>4, <1>17, SMTT(30)
  <2>2. Trapped(r, T)'
    BY <1>2, <1>3, <1>5, <1>20, <2>1, TrapKept
  <2>3. Handling(r, T)'
    BY <1>5, <1>12, <1>20, <1>21, <2>1 DEF Handling
  <2> QED  BY <1>22, <2>2, <2>3 DEF Active, Tops
<1> QED  BY <1>24, <1>26, <1>27 DEF CSInv

-----------------------------------------------------------------------------
(* The theorems.                                                           *)

(* Every step of the kernel, in any order, keeps the invariant.            *)
LEMMA CSInvStep == CSInv /\ [Next]_vars => CSInv'
<1> SUFFICES ASSUME CSInv, [Next]_vars PROVE CSInv'
  OBVIOUS
<1>1. ASSUME NEW u \in UserValue,
             NEW fin \in {"system_call_fin", "clock_fin", "keyboard_fin"}, enter(u, fin)
      PROVE  CSInv'
  BY <1>1, EnterStep
<1>2. ASSUME NEW fin \in {"clock_fin", "keyboard_fin"}, enter_idle(fin) PROVE CSInv'
  BY <1>2, EnterIdleStep
<1>3. CASE service_returns(0)
  BY <1>3, ServiceReturnsStep
<1>4. ASSUME NEW new \in Task, sys_fork(new) PROVE CSInv'
  BY <1>4, ForkStep
<1>5. ASSUME NEW next \in Task, NEW stays \in BOOLEAN, sched_next_rr(next, stays)
      PROVE  CSInv'
  BY <1>5, SchedNextStep
<1>6. ASSUME NEW next \in Task, key_switch(next) PROVE CSInv'
  BY <1>6, KeySwitchStep
<1>7. CASE task_switch
  BY <1>7, TaskSwitchStep
<1>8. CASE inner_task_switch
  BY <1>8, InnerTaskSwitchStep
<1>9. CASE after_inner
  BY <1>9, AfterInnerStep
<1>10. CASE unwind
  BY <1>10, UnwindStep
<1>11. CASE ret_from_fork
  BY <1>11, RetFromForkStep
<1>12. CASE cpu_idle
  BY <1>12, CpuIdleStep
<1>13. CASE system_call_fin
  BY <1>13, SystemCallFinStep
<1>14. CASE clock_fin
  BY <1>14, ClockFinStep
<1>15. CASE UNCHANGED vars
  <2>1. UNCHANGED <<mem, esp, ebp, eax, eip, pc, esp0, kernel_esp, running, waiting, user>>
    BY <1>15 DEF vars, regs
  <2>2. Busy' = Busy /\ Switching' = Switching
    BY <2>1 DEF Busy, Switching, current
  <2>3. CTypeOK'
    BY <2>1, <2>2 DEF CSInv, CTypeOK, Tops
  <2>4. ASSUME NEW t, NEW T
        PROVE  (Trapped(t, T) => Trapped(t, T)') /\ (Handling(t, T) => Handling(t, T)')
    <3>1. Trapped(t, T) => Trapped(t, T)'
      BY <2>1 DEF Trapped
    <3>2. /\ GivesUp(t, T) => GivesUp(t, T)'
          /\ InSchedNext(t, T) => InSchedNext(t, T)'
          /\ Scheduled(t, T) => Scheduled(t, T)'
      BY <2>1 DEF GivesUp, InSchedNext, Scheduled
    <3>3. SavedScheduled(t, T) => SavedScheduled(t, T)'
      BY <2>1, <3>2 DEF SavedScheduled
    <3>4. (Keyed(T) => Keyed(T)') /\ (SavedKeyed(T) => SavedKeyed(T)')
      BY <2>1 DEF Keyed, SavedKeyed
    <3>5. Handling(t, T) => Handling(t, T)'
      BY <2>1, <3>2, <3>3, <3>4, Zenon DEF Handling
    <3> QED  BY <3>1, <3>5
  <2>5. Active'
    BY <2>1, <2>2, <2>4, Zenon DEF CSInv, Active, Tops
  <2>6. \A t \in Task : Suspended(t) => Suspended(t)'
    BY <2>1, SuspendedKept
  <2>7. Others'
    BY <2>1, <2>2, <2>6, Slots DEF CSInv, CTypeOK, Others
  <2> QED  BY <2>3, <2>5, <2>7 DEF CSInv
<1> QED  BY <1>1, <1>2, <1>3, <1>4, <1>5, <1>6, <1>7, <1>8, <1>9, <1>10, <1>11, <1>12,
            <1>13, <1>14, <1>15 DEF Next, Handler

(* The invariant holds whatever the processes do.                          *)
LEMMA CSInvHolds == Spec => []CSInv
  BY CSInvInit, CSInvStep, PTL DEF Spec

(* A process finds its own registers and its own call's result whenever it *)
(* is back in user mode: RESTORE_ALL, iret and task_switch together.       *)
THEOREM ResumesItselfHolds == Spec => []ResumesItself
<1>1. CSInv => ResumesItself
  BY DEF CSInv, Active, Handling, ResumesItself
<1> QED  BY <1>1, CSInvHolds, PTL

(* In every handler, current() is the task the scheduler runs.             *)
THEOREM CurrentIsRunningHolds == Spec => []CurrentIsRunning
<1>1. ASSUME CSInv, pc \notin {"user", "task_switch", "inner_task_switch", "cpu_idle"}
      PROVE  current = running
  <2>1. CTypeOK /\ Active /\ Busy = running /\ running \in Task
    BY <1>1, ZenonT(30) DEF CSInv, CTypeOK, Busy, Switching
  <2>2. esp \in Slot(running)
    <3>1. CASE running = idle_task /\ esp = K - 1
      BY <3>1, Slots DEF Slot
    <3>2. ASSUME NEW T \in Tops(running), Handling(running, T)
          PROVE  esp \in Slot(running)
      <4>1. \A i \in 1 .. 16 : T - i \in Slot(running)
        BY <2>1, TopInSlot, SMTT(30)
      <4>2. \/ esp = T - 3 \/ esp = T - 4 \/ esp = T - 5 \/ esp = T - 6 \/ esp = T - 7
            \/ esp = T - 8 \/ esp = T - 9 \/ esp = T - 12 \/ esp = T - 14 \/ esp = T - 16
        BY <3>2 DEF Handling
      <4> QED  BY <4>1, <4>2
    <3> QED  BY <1>1, <2>1, <3>1, <3>2 DEF Active
  <2> QED  BY <2>1, <2>2, SlotOf DEF current
<1>2. CSInv => CurrentIsRunning
  BY <1>1 DEF CurrentIsRunning
<1> QED  BY <1>2, CSInvHolds, PTL

(* No return in the kernel pops anything but one of its return addresses:  *)
(* the CPU never goes astray.                                              *)
THEOREM NeverWild == Spec => [](pc # "wild")
<1>1. CSInv => pc # "wild"
  BY Zenon DEF CSInv, Active, Handling
<1> QED  BY <1>1, CSInvHolds, PTL
=============================================================================
