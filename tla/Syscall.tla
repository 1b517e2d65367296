------------------------------ MODULE Syscall ------------------------------
(***************************************************************************)
(* One process making system calls: the wrappers of wrappers.S, the trap   *)
(* handler of entry.S, the dispatch table of sys_call_table.S and the      *)
(* error codes of sys.c.  A call is the steps wrapper, trap, service,      *)
(* return and epilogue; registers and the saved frame are explicit, what   *)
(* the services do to the kernel is in Sched and Memory.                   *)
(***************************************************************************)
EXTENDS Integers, Sequences, Functions

CONSTANTS Pid,       \* PIDs a caller may name or fork may return, positive
          Scratch,   \* tick counts, and what a void service may leave in %eax
          STACK_ROOM, \* bytes sys_write may put on its kernel stack
          WriteArgs, \* what a caller may pass to write
          UserRegs   \* registers with which user code may start

(* The frame SAVE_ALL pushes, lowest address first.                        *)
Frame == <<"edx", "ecx", "ebx", "esi", "edi", "ebp", "eax">>

Register == Range(Frame)

offset(r) == CHOOSE i \in 1 .. 7 : Frame[i] = r

ASSUME SyscallAssumption ==
  /\ Pid \subseteq Nat \ {0} /\ Scratch \subseteq Int /\ STACK_ROOM \in Nat
  /\ WriteArgs \subseteq Int \X Int \X Int /\ UserRegs \subseteq [Register -> Int]

VARIABLES
  pc,        \* step of the call in progress, "user" between calls
  call,      \* wrapper in use
  args,      \* C arguments of the wrapper
  regs,      \* registers
  stack,     \* values pushed: by the wrapper, then the frame of SAVE_ALL
  service,   \* routine the handler dispatched to, with the arguments it sees
  ret,       \* what the service returned in %eax
  errno,     \* of the process
  before     \* registers and errno when the call began, registers at the trap

callVars == <<pc, call, args, regs, stack, service, ret, errno, before>>

SInit ==
  /\ pc = "user" /\ call = "none" /\ args = <<>>
  /\ regs \in UserRegs
  /\ stack = <<>> /\ service = <<>> /\ ret = 0 /\ errno = 0
  /\ before = [regs |-> regs, errno |-> 0, trap |-> regs]

-----------------------------------------------------------------------------
(* Wrappers: number and registers for each call.                           *)

number == [write |-> 4, gettime |-> 10, getpid |-> 20, fork |-> 2,
           exit |-> 1, block |-> 5, unblock |-> 6]

Bug_write_args_swapped(c, a) ==
  CASE c = "write"   -> [regs EXCEPT !["eax"] = 4, !["edx"] = a[1],
                                     !["ecx"] = a[3], !["ebx"] = a[2]]
    [] c = "unblock" -> [regs EXCEPT !["eax"] = 6, !["ebx"] = a[1]]
    [] OTHER         -> [regs EXCEPT !["eax"] = number[c]]

(* Registers loaded by wrapper c before int $0x80.                         *)
load(c, a) ==
  CASE c = "write"   -> [regs EXCEPT !["eax"] = 4, !["edx"] = a[1],
                                     !["ecx"] = a[2], !["ebx"] = a[3]]
    [] c = "unblock" -> [regs EXCEPT !["eax"] = 6, !["ebx"] = a[1]]
    [] OTHER         -> [regs EXCEPT !["eax"] = number[c]]

wrapper(c, a) ==
  /\ pc = "user"
  /\ pc' = "trap" /\ call' = c /\ args' = a
  /\ stack' = IF c = "write" THEN <<regs["ebx"]>> ELSE <<>>
  /\ regs' = load(c, a)
  /\ before' = [regs |-> regs, errno |-> errno, trap |-> regs']
  /\ UNCHANGED <<service, ret, errno>>

-----------------------------------------------------------------------------
(* The handler.                                                            *)

sys_call_table ==
  [i \in 0 .. 20 |->
     CASE i = 1 -> "sys_exit" [] i = 2 -> "sys_fork" [] i = 4 -> "sys_write"
       [] i = 5 -> "sys_block" [] i = 6 -> "sys_unblock"
       [] i = 10 -> "sys_gettime" [] i = 20 -> "sys_getpid"
       [] OTHER -> "sys_ni_syscall"]

MAX_SYSCALL == 21
KERNEL_DS == 24

(* The range check of system_call_handler, and the table lookup; "beyond"  *)
(* is the word after the table.  The wrappers pass neither.                *)
dispatch(eax) ==
  IF eax < 0 \/ eax > MAX_SYSCALL THEN "err"
  ELSE IF eax \in DOMAIN sys_call_table THEN sys_call_table[eax] ELSE "beyond"

Bug_save_order == [i \in 1 .. 7 |-> regs[(<<"ebx", "ecx", "edx", "esi", "edi", "ebp", "eax">>)[i]]]

SAVE_ALL == [i \in 1 .. 7 |-> regs[Frame[i]]]

(* SAVE_ALL, then the routine is called with the frame as its arguments.   *)
system_call_handler ==
  /\ pc = "trap"
  /\ pc' = "service"
  /\ stack' = SAVE_ALL \o stack
  /\ service' = <<dispatch(regs["eax"])>> \o SubSeq(SAVE_ALL, 1, 3)
  /\ regs' = [regs EXCEPT !["edx"] = KERNEL_DS]
  /\ UNCHANGED <<call, args, ret, errno, before>>

(* sys_write: fd 1 is the console; buffer 0 is NULL and a buffer below 0   *)
(* stands for one access_ok refuses.                                       *)
sys_write(fd, buffer, size) ==
  IF fd # 1 THEN -9
  ELSE IF size <= 0 \/ buffer = 0 THEN -22
  ELSE IF buffer < 0 THEN -13
  ELSE size

(* What each routine may leave in %eax; ret_from_fork returns 0 in the     *)
(* child, zeos_ticks wraps, and sys_block sets no value.                   *)
results ==
  CASE service[1] = "sys_write" -> {sys_write(service[2], service[3], service[4])}
    [] service[1] = "sys_fork" -> {-1, 0} \cup Pid
    [] service[1] = "sys_unblock" -> {-1, 0}
    [] service[1] = "sys_getpid" -> Pid
    [] service[1] \in {"sys_gettime", "sys_block"} -> Scratch
    [] service[1] \in {"sys_ni_syscall", "err"} -> {-38}
    [] OTHER -> {}

Bug_result_slot(eax) == [stack EXCEPT ![6] = eax]

(* movl %eax, 0x18(%esp)                                                   *)
set_result(eax) == [stack EXCEPT ![7] = eax]

(* The routine returns; its result replaces %eax in the frame, which       *)
(* RESTORE_ALL pops.                                                       *)
fin ==
  /\ pc = "service"
  /\ \E eax \in results :
       /\ ret' = eax
       /\ regs' = [r \in Register |-> set_result(eax)[offset(r)]]
  /\ stack' = SubSeq(stack, 8, Len(stack))
  /\ pc' = "returned"
  /\ UNCHANGED <<call, args, service, errno, before>>

(* sys_write has put an array of as many bytes as its caller asked for on  *)
(* the stack, before any check; if there is no room for it the service may *)
(* overwrite the task_struct and the stacks below, and nothing is said of  *)
(* what follows.                                                           *)
overrun ==
  /\ pc = "service" /\ service[1] = "sys_write" /\ service[4] \notin 0 .. STACK_ROOM
  /\ pc' = "overrun"
  /\ UNCHANGED <<call, args, regs, stack, service, ret, errno, before>>

(* sys_exit does not return.                                               *)
exited ==
  /\ pc = "service" /\ service[1] = "sys_exit"
  /\ pc' = "gone"
  /\ UNCHANGED <<call, args, regs, stack, service, ret, errno, before>>

Bug_errno_not_negated(eax) == errno' = IF eax >= 0 THEN errno ELSE eax

(* cmpl $0, %eax; jge; neg; movl errno: only gettime has no such test.     *)
set_errno(eax) == errno' = IF eax >= 0 THEN errno ELSE 0 - eax

Bug_ebx_not_popped == regs["ebx"]

(* popl %ebx, in the one wrapper that pushed it.                           *)
saved_ebx == IF call = "write" THEN stack[1] ELSE regs["ebx"]

(* The end of a wrapper: errno, result and the register it had pushed.     *)
epilogue ==
  /\ pc = "returned"
  /\ pc' = "user"
  /\ IF call = "gettime" THEN UNCHANGED errno ELSE set_errno(regs["eax"])
  /\ regs' = [regs EXCEPT
       !["eax"] = IF call = "gettime" \/ @ >= 0 THEN @ ELSE -1,
       !["ebx"] = saved_ebx]
  /\ stack' = <<>>
  /\ UNCHANGED <<call, args, service, ret, before>>

SNext ==
  \/ \E a \in WriteArgs : wrapper("write", a)
  \/ \E pid \in Pid : wrapper("unblock", <<pid>>)
  \/ \E c \in {"gettime", "getpid", "fork", "exit", "block"} : wrapper(c, <<>>)
  \/ system_call_handler
  \/ fin
  \/ overrun
  \/ exited
  \/ epilogue

SSpec == SInit /\ [][SNext]_callVars

-----------------------------------------------------------------------------
(* Properties.                                                             *)

(* Each wrapper's number selects its own routine of the table, which is    *)
(* numbered by hand in another file; and write's three arguments reach     *)
(* sys_write in order, through registers and the frame of SAVE_ALL that    *)
(* doubles as its argument list.                                           *)
CallReachesRoutine ==
  pc = "service" =>
    /\ service[1] = [write |-> "sys_write", gettime |-> "sys_gettime",
                     getpid |-> "sys_getpid", fork |-> "sys_fork",
                     exit |-> "sys_exit", block |-> "sys_block",
                     unblock |-> "sys_unblock"][call]
    /\ call = "write" => Tail(service) = args

(* Coming back from the kernel user code finds every register as it was at *)
(* the trap, except %eax, which holds what the routine returned.           *)
OnlyEaxChanges ==
  pc = "returned" => regs = [before.trap EXCEPT !["eax"] = ret]

(* A wrapper whose routine returns a value gives that value and leaves     *)
(* errno alone, or gives -1 and sets errno to the error; gettime gives the *)
(* tick counter even when that has wrapped, and never touches errno.       *)
ErrnoConvention ==
  pc = "user" =>
    /\ call \in {"write", "getpid", "fork", "unblock"} =>
         IF ret < 0 THEN regs["eax"] = -1 /\ errno = 0 - ret
                    ELSE regs["eax"] = ret /\ errno = before.errno
    /\ call = "gettime" => regs["eax"] = ret /\ errno = before.errno

(* Every wrapper but unblock keeps the registers that C callers expect to  *)
(* find unchanged (unblock loads %ebx without saving it).                  *)
CalleeSaved ==
  pc = "user" /\ call # "unblock" =>
    \A r \in {"ebx", "esi", "edi", "ebp"} : regs[r] = before.regs[r]

(* unblock passes its argument to the kernel, as wrappers.S:71 says of     *)
(* %ebx ("pid").                                                           *)
UnblockGetsPid ==
  pc = "service" /\ call = "unblock" => service[2] = args[1]

(* A buffer refused by access_ok is reported with an error of its own, as  *)
(* sys.c:50 says ("EFAULT"; 13 is "EACCES" at sys.c:29).                   *)
FaultHasItsOwnError ==
  pc = "user" /\ call = "write" /\ ret < 0 /\ args[1] = 1 /\ args[2] < 0
    => errno # 13
=============================================================================
