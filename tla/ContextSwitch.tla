--------------------------- MODULE ContextSwitch ---------------------------
(***************************************************************************)
(* Kernel stacks word by word: entering and leaving a handler (entry.S),   *)
(* task_switch and inner_task_switch, the test hooks of the keyboard, and  *)
(* the stack sys_fork prepares for a child.  The stacks are consecutive in *)
(* one memory, as in the vector task[], so that current() can be what the  *)
(* code computes from %esp.                                                *)
(*                                                                         *)
(* The hardware frame is the one word eip and SAVE_ALL pushes eax and ebp  *)
(* only (module Syscall has them all); all C functions keep a frame        *)
(* pointer (-fno-omit-frame-pointer).  Which task runs next is an input.   *)
(***************************************************************************)
EXTENDS Tasks, Sequences

CONSTANTS KERNEL_STACK_SIZE,   \* words of a task_union
          UserValue            \* values user registers may have, below -2

ASSUME ContextSwitchAssumption ==
  /\ KERNEL_STACK_SIZE \in Nat /\ KERNEL_STACK_SIZE >= 17
  /\ \A u \in UserValue : u \in Int /\ u < -2    \* no address in the kernel

Addr == 0 .. NR_TASKS * KERNEL_STACK_SIZE - 1

base(t) == t * KERNEL_STACK_SIZE

VARIABLES
  mem,          \* words of the vector task[]
  esp, ebp, eax, eip,   \* registers; eip only in user mode
  pc,           \* where the CPU is: "user" or a place in the kernel
  esp0,         \* tss.esp0
  kernel_esp,   \* field of task_struct
  running,      \* task chosen by the scheduler
  waiting,      \* tasks that are ready or blocked
  user          \* registers each process is to find back in user mode

regs == <<esp, ebp, eax, eip>>
vars == <<mem, regs, pc, esp0, kernel_esp, running, waiting, user>>

(* Code addresses that are ever on a stack.                                *)
code == [a \in 5001 .. 5010 |->
           CASE a = 5001 -> "system_call_fin" [] a = 5002 -> "clock_fin"
             [] a = 5003 -> "after_sched_next" [] a = 5004 -> "after_task_switch"
             [] a = 5005 -> "after_inner"      [] a = 5006 -> "ret_from_fork"
             [] a = 5007 -> "cpu_idle"         [] a = 5008 -> "idle_loop"
             [] a = 5009 -> "keyboard_fin"     [] a = 5010 -> "after_key_switch"]

at(place) == CHOOSE a \in DOMAIN code : code[a] = place

(* Where the CPU goes when a return pops this word.                        *)
jump(w) == IF w \in DOMAIN code THEN code[w] ELSE "wild"

current == esp \div KERNEL_STACK_SIZE

(* init_idle, init_task1 and setTSS: process 1 is in user mode.            *)
Init ==
  /\ mem = [a \in Addr |-> IF a = KERNEL_STACK_SIZE - 1 THEN at("cpu_idle")
                           ELSE IF a = KERNEL_STACK_SIZE - 2
                                THEN KERNEL_STACK_SIZE - 1 ELSE 0]
  /\ esp0 = base(init_task) + KERNEL_STACK_SIZE
  /\ kernel_esp = [t \in Task |-> IF t \in {idle_task, init_task}
                                  THEN base(t) + KERNEL_STACK_SIZE - 2 ELSE 0]
  /\ pc = "user" /\ esp = esp0 /\ ebp = 0 /\ eax = 0 /\ eip = 0
  /\ running = init_task /\ waiting = {}
  /\ user = [t \in Task |-> <<0, 0, 0>>]

-----------------------------------------------------------------------------
(* Pushes and pops.                                                        *)

(* The memory after pushing these words, first one first, from top down.   *)
(* What is left of that stack below them is dead and becomes 0, so that    *)
(* states do not differ in it and a return through it goes astray.         *)
push(top, ws) ==
  [a \in Addr |-> IF a \in top - Len(ws) .. top - 1 THEN ws[top - a]
                  ELSE IF a \in base((top - 1) \div KERNEL_STACK_SIZE) .. top - 1
                  THEN 0 ELSE mem[a]]

(* leave; ret                                                              *)
leave_ret ==
  /\ ebp' = mem[ebp]
  /\ pc' = jump(mem[ebp + 1])
  /\ esp' = ebp + 2

-----------------------------------------------------------------------------
(* Handlers.                                                               *)

(* User code has computed something and is interrupted, or makes a call:   *)
(* the processor switches to esp0 and SAVE_ALL, the call of the service    *)
(* and its prologue follow.                                                *)
enter(u, fin) ==
  /\ pc = "user"
  /\ mem' = push(esp0, <<u, u - 1, u - 2, at(fin), u - 2>>)
  /\ esp' = esp0 - 5 /\ ebp' = esp' /\ eax' = u - 1 /\ eip' = 0
  /\ pc' = "service"
  /\ user' = [user EXCEPT ![running] = <<u, u - 1, u - 2>>]
  /\ UNCHANGED <<esp0, kernel_esp, running, waiting>>

(* A tick or a key while idle, which is in kernel mode: the stack stays.   *)
enter_idle(fin) ==
  /\ pc = "idle_loop"
  /\ mem' = push(esp, <<at("idle_loop"), eax, ebp, at(fin), ebp>>)
  /\ esp' = esp - 5 /\ ebp' = esp'
  /\ pc' = "service"
  /\ UNCHANGED <<eax, eip, esp0, kernel_esp, running, waiting, user>>

in_system_call == pc = "service" /\ mem[ebp + 1] = at("system_call_fin")

in_keyboard == pc = "service" /\ mem[ebp + 1] = at("keyboard_fin")

(* The service returns v; the handlers of clock and keyboard ignore it.    *)
service_returns(v) ==
  /\ pc = "service"
  /\ leave_ret /\ eax' = v
  /\ user' = IF in_system_call THEN [user EXCEPT ![running][2] = v] ELSE user
  /\ UNCHANGED <<mem, eip, esp0, kernel_esp, running, waiting>>

Bug_ebp_diff == base(current) + KERNEL_STACK_SIZE - 1 - ebp

(* Distance of sys_fork's frame from the end of the stack.                 *)
ebp_diff == base(current) + KERNEL_STACK_SIZE - 1 - (ebp - 1)

(* sys_fork copies its task_union to a free slot, sets kernel_esp there    *)
(* and two words of the stack, and returns the PID.                        *)
sys_fork(new) ==
  LET frame == base(new) + KERNEL_STACK_SIZE - ebp_diff
  IN  /\ in_system_call
      /\ new \notin waiting \cup {running, idle_task}
      /\ mem' = [a \in Addr |->
           CASE a = frame                     -> at("ret_from_fork")
             [] a = frame - 1                 -> 0
             [] a \div KERNEL_STACK_SIZE = new /\ a \notin {frame - 1, frame}
                                              -> mem[a - base(new) + base(current)]
             [] OTHER                         -> mem[a]]
      /\ kernel_esp' = [kernel_esp EXCEPT ![new] = frame - 1]
      /\ leave_ret /\ eax' = new
      /\ waiting' = waiting \cup {new}
      /\ user' = [user EXCEPT ![new] = [user[running] EXCEPT ![2] = 0],
                              ![running][2] = new]
      /\ UNCHANGED <<eip, esp0, running>>

(* The service calls sched_next_rr, which calls task_switch(next).  The    *)
(* running task waits (a tick, sys_block) or is gone (sys_exit); a task    *)
(* that sys_block suspends will return with whatever is in %eax.  After a  *)
(* key has made idle or a ready task run, a tick may find idle in the      *)
(* ready queue, or only the running task itself.                           *)
sched_next_rr(next, stays) ==
  /\ pc = "service" /\ ~ in_keyboard
  /\ stays \/ in_system_call
  /\ next \in waiting \cup {idle_task} \cup (IF stays THEN {running} ELSE {})
  /\ mem' = push(esp, <<at("after_sched_next"), ebp, base(next),
                        at("after_task_switch")>>)
  /\ esp' = esp - 4 /\ ebp' = esp - 2
  /\ pc' = "task_switch"
  /\ running' = next
  /\ waiting' = (IF stays THEN waiting \cup {running} ELSE waiting) \ {next, idle_task}
  /\ user' = IF in_system_call THEN [user EXCEPT ![running][2] = -1] ELSE user
  /\ UNCHANGED <<eax, eip, esp0, kernel_esp>>

(* The keys d, n and c switch to slot 0, 1 or 2 from within                *)
(* keyboard_service, whatever runs.  The code does not ask whether the     *)
(* slot is in use; slots never used, or freed by exit, are left out here.  *)
key_switch(next) ==
  /\ in_keyboard
  /\ next \in {0, 1, 2} \cap (waiting \cup {idle_task, running})
  /\ mem' = push(esp, <<base(next), at("after_key_switch")>>)
  /\ esp' = esp - 2
  /\ pc' = "task_switch"
  /\ running' = next
  /\ waiting' = (waiting \cup {running}) \ {next, idle_task}
  /\ UNCHANGED <<ebp, eax, eip, esp0, kernel_esp, user>>

(* Up to the prologue of inner_task_switch: ebp, edi, esi, ebx (their      *)
(* values do not matter), the parameter again, return address and ebp.     *)
task_switch ==
  /\ pc = "task_switch"
  /\ mem' = push(esp, <<ebp, 0, 0, 0, mem[esp + 1], at("after_inner"), esp - 1>>)
  /\ esp' = esp - 7 /\ ebp' = esp'
  /\ pc' = "inner_task_switch"
  /\ UNCHANGED <<eax, eip, esp0, kernel_esp, running, waiting, user>>

Bug_esp0_kept(t) == esp0

(* The stack traps of the task at t will use.                              *)
new_esp0(t) == t + KERNEL_STACK_SIZE - 1

Bug_save_after(t) == [kernel_esp EXCEPT ![t \div KERNEL_STACK_SIZE] = ebp]

(* current()->kernel_esp = ebp_value()                                     *)
save_context(t) == [kernel_esp EXCEPT ![current] = ebp]

(* The stack of the task at the parameter's address takes over.            *)
inner_task_switch ==
  LET t == mem[ebp + 2]
      top == save_context(t)[t \div KERNEL_STACK_SIZE]
  IN  /\ pc = "inner_task_switch"
      /\ esp0' = new_esp0(t)
      /\ kernel_esp' = save_context(t)
      /\ ebp' = mem[top]
      /\ pc' = jump(mem[top + 1])
      /\ esp' = top + 2
      /\ eax' = -1
      /\ UNCHANGED <<mem, eip, running, waiting, user>>

(* task_switch pops parameter, ebx, esi, edi and ebp and returns.          *)
after_inner ==
  /\ pc = "after_inner"
  /\ ebp' = mem[esp + 4]
  /\ pc' = jump(mem[esp + 5])
  /\ esp' = esp + 6
  /\ UNCHANGED <<mem, eax, eip, esp0, kernel_esp, running, waiting, user>>

(* sched_next_rr, then the service, return; keyboard_service echoes first. *)
unwind ==
  /\ pc \in {"after_task_switch", "after_sched_next", "after_key_switch"}
  /\ leave_ret
  /\ UNCHANGED <<mem, eax, eip, esp0, kernel_esp, running, waiting, user>>

ret_from_fork ==
  /\ pc = "ret_from_fork"
  /\ eax' = 0
  /\ pc' = jump(mem[esp])
  /\ esp' = esp + 1
  /\ UNCHANGED <<mem, ebp, eip, esp0, kernel_esp, running, waiting, user>>

(* cpu_idle saves the frame pointer, enables interrupts and loops.         *)
cpu_idle ==
  /\ pc = "cpu_idle"
  /\ mem' = push(esp, <<ebp>>)
  /\ esp' = esp - 1 /\ ebp' = esp'
  /\ pc' = "idle_loop"
  /\ UNCHANGED <<eax, eip, esp0, kernel_esp, running, waiting, user>>

(* RESTORE_ALL and iret, to user code or to cpu_idle; eax is what the      *)
(* handler put into the frame.                                             *)
iret(result) ==
  /\ ebp' = mem[esp] /\ eax' = result
  /\ IF mem[esp + 2] = at("idle_loop")
     THEN pc' = "idle_loop" /\ eip' = 0
     ELSE pc' = "user" /\ eip' = mem[esp + 2]
  /\ esp' = esp + 3
  /\ UNCHANGED <<mem, esp0, kernel_esp, running, waiting, user>>

system_call_fin == pc = "system_call_fin" /\ iret(eax)

clock_fin == pc \in {"clock_fin", "keyboard_fin"} /\ iret(mem[esp + 1])

Handler ==
  \/ service_returns(0)
  \/ \E new \in Task : sys_fork(new)
  \/ \E next \in Task, stays \in BOOLEAN : sched_next_rr(next, stays)
  \/ \E next \in Task : key_switch(next)
  \/ task_switch \/ inner_task_switch \/ after_inner \/ unwind
  \/ ret_from_fork \/ cpu_idle \/ system_call_fin \/ clock_fin

Next ==
  \/ \E u \in UserValue, fin \in {"system_call_fin", "clock_fin", "keyboard_fin"} :
       enter(u, fin)
  \/ \E fin \in {"clock_fin", "keyboard_fin"} : enter_idle(fin)
  \/ Handler

(* Nothing interrupts a handler, so it goes on.                            *)
Spec == Init /\ [][Next]_vars /\ WF_vars(Handler)

-----------------------------------------------------------------------------
(* Properties.                                                             *)

(* Whenever a process is in user mode it finds its own program counter and *)
(* frame pointer, and in %eax what it had there (after a tick) or its own  *)
(* call's result, which is 0 in a child; however many others ran, forked   *)
(* or exited on the way.                                                   *)
ResumesItself == pc = "user" => <<eip, eax, ebp>> = user[running]

(* current(), which is read off %esp, is the task the scheduler runs, from *)
(* the entry of a handler to the switch and again after it, also when idle *)
(* is interrupted, whose stack starts at the last word of its slot.        *)
CurrentIsRunning ==
  pc \notin {"user", "task_switch", "inner_task_switch", "cpu_idle"}
    => current = running

(* Every handler ends, in user mode or in cpu_idle: no return address that *)
(* a switch or a forked child pops is anything but where it must go on.    *)
HandlersReturn == pc = "service" ~> pc \in {"user", "idle_loop"}
=============================================================================
