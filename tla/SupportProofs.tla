--------------------------- MODULE SupportProofs ---------------------------
(***************************************************************************)
(* Proofs about Syscall and Utils: a system call and the helpers it uses,  *)
(* for all arguments and register contents and every buffer, page and word *)
(* size.                                                                   *)
(*                                                                         *)
(* Syscall: the inductive invariant follows one call: what the wrapper     *)
(* loaded is what the handler saves, dispatches on and restores, and under *)
(* it lies what the wrapper pushed.  Utils: copy_data needs a loop         *)
(* invariant; access_ok and get_ticks need that division is what it should *)
(* be on numbers too large to check; itoa needs that the digits taken so   *)
(* far and the rest still make the number.                                 *)
(***************************************************************************)
EXTENDS Syscall, Utils, TLAPS, WellFoundedInduction

-----------------------------------------------------------------------------
(* Syscall.                                                                *)

RegisterFile == [Register -> Int]

Plain == {"gettime", "getpid", "fork", "exit", "block"}

STypeOK ==
  /\ regs \in RegisterFile /\ stack \in Seq(Int)
  /\ ret \in Int /\ errno \in Int
  /\ before \in [regs : RegisterFile, errno : Int, trap : RegisterFile]

(* What the wrapper of the call in progress was given.                     *)
Called ==
  \/ call = "write" /\ args \in WriteArgs
  \/ call = "unblock" /\ \E pid \in Pid : args = <<pid>>
  \/ call \in Plain /\ args = <<>>

(* What it loaded: its number, write's arguments; and what it left alone.  *)
Loaded ==
  /\ before.trap["eax"] = number[call]
  /\ call = "write" => <<before.trap["edx"], before.trap["ecx"], before.trap["ebx"]>> = args
  /\ call \in Plain => before.trap["ebx"] = before.regs["ebx"]
  /\ \A r \in {"esi", "edi", "ebp"} : before.trap[r] = before.regs[r]

(* What it pushed.                                                         *)
pushed == IF call = "write" THEN <<before.regs["ebx"]>> ELSE <<>>

SInv ==
  /\ STypeOK
  /\ pc = "user" => ErrnoConvention /\ CalleeSaved
  /\ pc \in {"trap", "service", "returned"} => Called /\ Loaded /\ errno = before.errno
  /\ pc = "trap" => regs = before.trap /\ stack = pushed
  /\ pc = "service" => /\ CallReachesRoutine /\ service[4] \in Int
                       /\ stack = [i \in 1 .. 7 |-> before.trap[Frame[i]]] \o pushed
  /\ pc = "returned" => OnlyEaxChanges /\ stack = pushed

-----------------------------------------------------------------------------
(* Registers and the frame.                                                *)

(* The registers, and that each has one place in the frame.                *)
LEMMA Registers ==
  /\ Register = {"edx", "ecx", "ebx", "esi", "edi", "ebp", "eax"}
  /\ \A i \in 1 .. 7 : Frame[i] \in Register /\ (Frame[i] = "eax" <=> i = 7)
  /\ Frame[1] = "edx" /\ Frame[2] = "ecx" /\ Frame[3] = "ebx"
<1>1. DOMAIN Frame = 1 .. 7
  BY DEF Frame
<1>2. /\ Frame[1] = "edx" /\ Frame[2] = "ecx" /\ Frame[3] = "ebx" /\ Frame[4] = "esi"
      /\ Frame[5] = "edi" /\ Frame[6] = "ebp" /\ Frame[7] = "eax"
  BY DEF Frame
<1>3. 1 .. 7 = {1, 2, 3, 4, 5, 6, 7}
  OBVIOUS
<1>4. Register = {Frame[i] : i \in {1, 2, 3, 4, 5, 6, 7}}
  BY <1>1, <1>3 DEF Register, Range
<1>5. Register = {"edx", "ecx", "ebx", "esi", "edi", "ebp", "eax"}
  BY <1>2, <1>4
<1> QED  BY <1>2, <1>3, <1>5

(* Where RESTORE_ALL finds a register.                                     *)
LEMMA PlaceInFrame ==
  ASSUME NEW r \in Register
  PROVE  offset(r) \in 1 .. 7 /\ Frame[offset(r)] = r
<1>1. \E i \in 1 .. 7 : Frame[i] = r
  BY DEF Register, Range, Frame
<1> QED  BY <1>1 DEF offset

(* Two sequences with the same elements at the same places are equal.      *)
LEMMA SameElements ==
  ASSUME NEW S, NEW s \in Seq(S), NEW t \in Seq(S), Len(s) = Len(t),
         \A i \in 1 .. Len(s) : s[i] = t[i]
  PROVE  s = t
OBVIOUS

(* Putting an element in front of a sequence.                              *)
LEMMA InFront ==
  ASSUME NEW S, NEW d \in S, NEW t \in Seq(S)
  PROVE  /\ (<<d>> \o t)[1] = d /\ Tail(<<d>> \o t) = t
         /\ \A i \in 1 .. Len(t) : (<<d>> \o t)[i + 1] = t[i]
<1> DEFINE c == <<d>> \o t
<1>1. <<d>> \in Seq(S) /\ Len(<<d>>) = 1 /\ Len(t) \in Nat
  OBVIOUS
<1>2. /\ c \in Seq(S) /\ Len(c) = 1 + Len(t)
      /\ \A i \in 1 .. 1 + Len(t) : c[i] = IF i <= 1 THEN <<d>>[i] ELSE t[i - 1]
  BY <1>1
<1> HIDE DEF c
<1>3. c # <<>>
  BY <1>1, <1>2
<1>4. /\ Tail(c) \in Seq(S) /\ Len(Tail(c)) = Len(t)
      /\ \A i \in 1 .. Len(t) : Tail(c)[i] = c[i + 1]
  BY <1>1, <1>2, <1>3
<1>5. \A i \in 1 .. Len(t) : c[i + 1] = t[i]
  BY <1>1, <1>2
<1>6. Tail(c) = t
  BY <1>4, <1>5
<1>7. c[1] = d
  BY <1>1, <1>2
<1> QED  BY <1>5, <1>6, <1>7 DEF c

-----------------------------------------------------------------------------
(* One lemma per step of a call.                                           *)

(* A wrapper starts a call.                                                *)
LEMMA WrapperStep ==
  ASSUME SInv, NEW c, NEW x, wrapper(c, x),
         \/ c = "write" /\ x \in WriteArgs
         \/ c = "unblock" /\ \E pid \in Pid : x = <<pid>>
         \/ c \in Plain /\ x = <<>>
  PROVE  SInv'
<1>1. /\ STypeOK /\ pc' = "trap" /\ call' = c /\ args' = x
      /\ stack' = (IF c = "write" THEN <<regs["ebx"]>> ELSE <<>>)
      /\ regs' = load(c, x)
      /\ before' = [regs |-> regs, errno |-> errno, trap |-> regs']
      /\ UNCHANGED <<service, ret, errno>>
  BY DEF SInv, wrapper
<1>2. regs \in RegisterFile /\ regs["ebx"] \in Int
  BY <1>1, Registers DEF STypeOK, RegisterFile
<1>3. Called'
  BY <1>1 DEF Called
<1>4. /\ regs' \in RegisterFile /\ regs'["eax"] = number[c]
      /\ c = "write" => <<regs'["edx"], regs'["ecx"], regs'["ebx"]>> = x
      /\ c \in Plain => regs'["ebx"] = regs["ebx"]
      /\ \A r \in {"esi", "edi", "ebp"} : regs'[r] = regs[r]
  <2>1. CASE c = "write" /\ x \in WriteArgs
    <3>1. x \in Int \X Int \X Int /\ x = <<x[1], x[2], x[3]>>
      BY <2>1, SyscallAssumption
    <3>2. regs' = [regs EXCEPT !["eax"] = 4, !["edx"] = x[1], !["ecx"] = x[2], !["ebx"] = x[3]]
      BY <1>1, <2>1 DEF load
    <3> QED  BY <1>2, <2>1, <3>1, <3>2, Registers DEF RegisterFile, number, Plain
  <2>2. CASE c = "unblock" /\ \E pid \in Pid : x = <<pid>>
    <3>1. x[1] \in Int
      BY <2>2, SyscallAssumption
    <3>2. regs' = [regs EXCEPT !["eax"] = 6, !["ebx"] = x[1]]
      BY <1>1, <2>2 DEF load
    <3> QED  BY <1>2, <2>2, <3>1, <3>2, Registers DEF RegisterFile, number, Plain
  <2>3. CASE c \in Plain
    <3>1. regs' = [regs EXCEPT !["eax"] = number[c]] /\ number[c] \in Int /\ c # "write"
      BY <1>1, <2>3 DEF load, number, Plain
    <3> QED  BY <1>2, <2>3, <3>1, Registers, SMTT(30) DEF RegisterFile
  <2> QED  BY <2>1, <2>2, <2>3
<1>5. Loaded'
  BY <1>1, <1>4 DEF Loaded
<1>6. STypeOK'
  BY <1>1, <1>2, <1>4 DEF STypeOK
<1>7. stack' = pushed'
  BY <1>1 DEF pushed
<1> QED  BY <1>1, <1>3, <1>5, <1>6, <1>7 DEF SInv

(* SAVE_ALL and the dispatch.                                              *)
LEMMA HandlerStep ==
  ASSUME SInv, system_call_handler
  PROVE  SInv'
<1>1. /\ STypeOK /\ pc = "trap" /\ Called /\ Loaded /\ errno = before.errno
      /\ regs = before.trap /\ stack = pushed
  BY DEF SInv, system_call_handler
<1>2. /\ pc' = "service" /\ stack' = SAVE_ALL \o stack
      /\ service' = <<dispatch(regs["eax"])>> \o SubSeq(SAVE_ALL, 1, 3)
      /\ regs' = [regs EXCEPT !["edx"] = KERNEL_DS]
      /\ UNCHANGED <<call, args, ret, errno, before>>
  BY DEF system_call_handler
<1>3. SAVE_ALL = [i \in 1 .. 7 |-> before.trap[Frame[i]]] /\ before.trap \in RegisterFile
  BY <1>1 DEF SAVE_ALL, STypeOK
<1>4. SAVE_ALL \in Seq(Int) /\ Len(SAVE_ALL) = 7 /\ \A i \in 1 .. 7 : SAVE_ALL[i] \in Int
  BY <1>3, Registers DEF RegisterFile
<1>5. /\ SubSeq(SAVE_ALL, 1, 3) \in Seq(Int) /\ Len(SubSeq(SAVE_ALL, 1, 3)) = 3
      /\ SubSeq(SAVE_ALL, 1, 3)[1] = before.trap["edx"]
      /\ SubSeq(SAVE_ALL, 1, 3)[2] = before.trap["ecx"]
      /\ SubSeq(SAVE_ALL, 1, 3)[3] = before.trap["ebx"]
  <2>1. \A i \in 1 .. 3 : SAVE_ALL[i] \in Int
    BY <1>4
  <2>2. /\ SubSeq(SAVE_ALL, 1, 3) \in Seq(Int) /\ Len(SubSeq(SAVE_ALL, 1, 3)) = 3
        /\ \A i \in 1 .. 3 : SubSeq(SAVE_ALL, 1, 3)[i] = SAVE_ALL[i]
    <3>1. 1 \in Int /\ 3 \in Int
      OBVIOUS
    <3>2. /\ SubSeq(SAVE_ALL, 1, 3) \in Seq(Int)
          /\ Len(SubSeq(SAVE_ALL, 1, 3)) = IF 1 <= 3 THEN 3 - 1 + 1 ELSE 0
          /\ \A i \in 1 .. 3 - 1 + 1 : SubSeq(SAVE_ALL, 1, 3)[i] = SAVE_ALL[1 + i - 1]
      BY <2>1, <3>1
    <3> QED  BY <3>2
  <2>3. /\ SAVE_ALL[1] = before.trap["edx"] /\ SAVE_ALL[2] = before.trap["ecx"]
        /\ SAVE_ALL[3] = before.trap["ebx"]
    BY <1>3, Registers
  <2> QED  BY <2>2, <2>3
<1>6. STypeOK'
  <2>1. regs' \in RegisterFile
    <3>1. regs \in RegisterFile /\ 24 \in Int
      BY <1>1 DEF STypeOK
    <3> QED  BY <1>2, <3>1, Zenon DEF RegisterFile, KERNEL_DS
  <2>2. stack' \in Seq(Int)
    BY <1>1, <1>2, <1>4 DEF STypeOK
  <2> QED  BY <1>1, <1>2, <2>1, <2>2 DEF STypeOK
<1>7. /\ service'[1] = dispatch(number[call])
      /\ call = "write" => Tail(service') = args
      /\ service'[4] \in Int
  <2> DEFINE d == dispatch(number[call])
             t == SubSeq(SAVE_ALL, 1, 3)
  <2>1. service' = <<d>> \o t
    BY <1>1, <1>2 DEF Loaded
  <2>2. d \in Int \cup {d} /\ t \in Seq(Int \cup {d})
    BY <1>5
  <2> HIDE DEF d, t
  <2>3. /\ service'[1] = d /\ Tail(service') = t
        /\ \A i \in 1 .. Len(t) : service'[i + 1] = t[i]
    BY <2>1, <2>2, InFront
  <2>4. ASSUME call = "write" PROVE t = args
    <3>1. args = <<before.trap["edx"], before.trap["ecx"], before.trap["ebx"]>>
          /\ args \in Int \X Int \X Int
      BY <1>1, <2>4, SyscallAssumption DEF Loaded, Called, Plain
    <3>2. args \in Seq(Int) /\ Len(args) = 3
      BY <3>1
    <3>3. t \in Seq(Int) /\ Len(t) = 3 /\ t[1] = args[1] /\ t[2] = args[2] /\ t[3] = args[3]
      BY <1>5, <3>1 DEF t
    <3>4. \A i \in 1 .. 3 : t[i] = args[i]
      BY <3>3
    <3> QED  BY <3>2, <3>3, <3>4, SameElements, Zenon
  <2>5. service'[4] \in Int
    <3>1. 3 \in 1 .. Len(t) /\ t[3] \in Int /\ 3 + 1 = 4
      BY <1>5 DEF t
    <3> QED  BY <2>3, <3>1
  <2> QED  BY <2>3, <2>4, <2>5 DEF d
<1>8. dispatch(number[call])
        = [write |-> "sys_write", gettime |-> "sys_gettime", getpid |-> "sys_getpid",
           fork |-> "sys_fork", exit |-> "sys_exit", block |-> "sys_block",
           unblock |-> "sys_unblock"][call]
  BY <1>1, SMTT(30) DEF Called, Plain, dispatch, number, sys_call_table, MAX_SYSCALL
<1>9. CallReachesRoutine'
  BY <1>2, <1>7, <1>8 DEF CallReachesRoutine
<1>10. Called' /\ Loaded' /\ pushed' = pushed
  BY <1>1, <1>2 DEF Called, Loaded, pushed
<1>11. stack' = [i \in 1 .. 7 |-> before'.trap[Frame[i]]] \o pushed'
  BY <1>1, <1>2, <1>3, <1>10
<1> QED  BY <1>1, <1>2, <1>6, <1>7, <1>9, <1>10, <1>11 DEF SInv

(* The routine's result goes into the frame, and RESTORE_ALL pops it.      *)
LEMMA FinStep ==
  ASSUME SInv, fin
  PROVE  SInv'
<1> DEFINE F == [i \in 1 .. 7 |-> before.trap[Frame[i]]]
<1>1. /\ STypeOK /\ pc = "service" /\ Called /\ Loaded /\ errno = before.errno
      /\ CallReachesRoutine /\ service[4] \in Int /\ stack = F \o pushed
  BY Zenon DEF SInv, fin
<1>2. PICK eax \in results :
        /\ ret' = eax
        /\ regs' = [r \in Register |-> [stack EXCEPT ![7] = eax][offset(r)]]
  BY DEF fin, set_result
<1>3. /\ pc' = "returned" /\ stack' = SubSeq(stack, 8, Len(stack))
      /\ UNCHANGED <<call, args, service, errno, before>>
  BY DEF fin
<1>4. before.trap \in RegisterFile /\ before.regs \in RegisterFile
  BY <1>1 DEF STypeOK
<1>5. F \in Seq(Int) /\ Len(F) = 7 /\ pushed \in Seq(Int)
  BY <1>4, Registers DEF RegisterFile, pushed
<1>6. /\ stack \in Seq(Int) /\ Len(stack) = 7 + Len(pushed) /\ Len(pushed) \in Nat
      /\ \A i \in 1 .. 7 + Len(pushed) :
           stack[i] = IF i <= 7 THEN F[i] ELSE pushed[i - 7]
  BY <1>1, <1>5, SMTT(30)
<1>7. eax \in Int
  <2>1. \A fd, buffer, n : n \in Int => sys_write(fd, buffer, n) \in Int
    BY DEF sys_write
  <2> QED  BY <1>1, <1>2, <2>1, SyscallAssumption DEF results
<1>8. regs' = [before.trap EXCEPT !["eax"] = eax]
  <2>1. ASSUME NEW r \in Register
        PROVE  regs'[r] = IF r = "eax" THEN eax ELSE before.trap[r]
    <3>1. PICK i \in 1 .. 7 : i = offset(r) /\ Frame[i] = r /\ (r = "eax" <=> i = 7)
      BY PlaceInFrame, Registers
    <3>2. regs'[r] = [stack EXCEPT ![7] = eax][i]
      BY <1>2, <3>1
    <3>3. [stack EXCEPT ![7] = eax][i] = IF i = 7 THEN eax ELSE stack[i]
      BY <1>6
    <3>4. stack[i] = F[i]
      <4>1. i \in 1 .. 7 + Len(pushed) /\ i <= 7
        BY <1>6
      <4> QED  BY <1>6, <4>1, Zenon
    <3>5. F[i] = before.trap[r]
      BY <3>1
    <3> QED  BY <3>1, <3>2, <3>3, <3>4, <3>5
  <2> QED  BY <1>2, <1>4, <2>1, Registers DEF RegisterFile
<1>9. stack' = pushed
  <2>1. \A i \in 8 .. Len(stack) : stack[i] \in Int
    BY <1>6
  <2>2. /\ stack' \in Seq(Int)
        /\ Len(stack') = IF 8 <= Len(stack) THEN Len(stack) - 8 + 1 ELSE 0
        /\ \A i \in 1 .. Len(stack) - 8 + 1 : stack'[i] = stack[8 + i - 1]
    <3>1. 8 \in Int /\ Len(stack) \in Int
      BY <1>6
    <3> QED  BY <1>3, <2>1, <3>1
  <2>3. Len(stack') = Len(pushed)
    BY <1>6, <2>2
  <2>4. \A i \in 1 .. Len(pushed) : stack'[i] = pushed[i]
    <3>1. ASSUME NEW i \in 1 .. Len(pushed) PROVE stack'[i] = pushed[i]
      <4>1. /\ i \in 1 .. Len(stack) - 8 + 1 /\ 8 + i - 1 = 7 + i
            /\ 7 + i \in 1 .. 7 + Len(pushed) /\ ~ (7 + i <= 7) /\ 7 + i - 7 = i
        <5>1. PICK n \in Nat : n = Len(pushed) /\ Len(stack) = 7 + n
          BY <1>6
        <5> QED  BY <5>1
      <4>2. stack'[i] = stack[7 + i]
        BY <2>2, <4>1
      <4>3. stack[7 + i] = pushed[7 + i - 7]
        <5>1. \A j \in 1 .. 7 + Len(pushed) :
                 stack[j] = IF j <= 7 THEN F[j] ELSE pushed[j - 7]
          BY <1>6, Zenon
        <5> HIDE DEF F
        <5> QED  BY <4>1, <5>1
      <4> QED  BY <4>1, <4>2, <4>3
    <3> QED  BY <3>1
  <2> QED  BY <1>5, <2>2, <2>3, <2>4, SameElements
<1>10. STypeOK'
  <2>1. regs' \in RegisterFile
    BY <1>4, <1>7, <1>8, Zenon DEF RegisterFile
  <2> QED  BY <1>1, <1>2, <1>3, <1>5, <1>7, <1>9, <2>1 DEF STypeOK
<1>11. OnlyEaxChanges'
  BY <1>2, <1>3, <1>8 DEF OnlyEaxChanges
<1>12. Called' /\ Loaded' /\ pushed' = pushed
  BY <1>1, <1>3 DEF Called, Loaded, pushed
<1> QED  BY <1>1, <1>3, <1>9, <1>10, <1>11, <1>12 DEF SInv

(* The end of a wrapper.                                                   *)
LEMMA EpilogueStep ==
  ASSUME SInv, epilogue
  PROVE  SInv'
<1>1. /\ STypeOK /\ pc = "returned" /\ Called /\ Loaded /\ errno = before.errno
      /\ OnlyEaxChanges /\ stack = pushed
  BY DEF SInv, epilogue
<1>2. /\ pc' = "user" /\ stack' = <<>>
      /\ IF call = "gettime" THEN UNCHANGED errno
         ELSE errno' = IF regs["eax"] >= 0 THEN errno ELSE 0 - regs["eax"]
      /\ regs' = [regs EXCEPT
           !["eax"] = IF call = "gettime" \/ @ >= 0 THEN @ ELSE -1,
           !["ebx"] = IF call = "write" THEN stack[1] ELSE regs["ebx"]]
      /\ UNCHANGED <<call, args, service, ret, before>>
  BY DEF epilogue, set_errno, saved_ebx
<1>3. /\ regs \in RegisterFile /\ before.trap \in RegisterFile
      /\ before.regs \in RegisterFile /\ ret \in Int
  BY <1>1 DEF STypeOK
<1>4. /\ regs["eax"] = ret /\ \A r \in Register \ {"eax"} : regs[r] = before.trap[r]
  BY <1>1, <1>3, Registers DEF OnlyEaxChanges, RegisterFile
<1>5. /\ "eax" \in Register /\ "ebx" \in Register
      /\ {"ebx", "esi", "edi", "ebp"} \subseteq Register
  BY Registers
<1>6. /\ regs'["eax"] = IF call = "gettime" \/ ret >= 0 THEN ret ELSE -1
      /\ regs'["ebx"] = IF call = "write" THEN stack[1] ELSE regs["ebx"]
      /\ \A r \in Register \ {"eax", "ebx"} : regs'[r] = before.trap[r]
  BY <1>2, <1>3, <1>4, <1>5 DEF RegisterFile
<1>7. call = "write" => stack[1] = before.regs["ebx"]
  BY <1>1 DEF pushed
<1>8. STypeOK'
  <2>1. \A r \in Register : regs'[r] \in Int
    BY <1>3, <1>4, <1>5, <1>6, <1>7 DEF RegisterFile
  <2>2. regs' \in RegisterFile
    BY <1>2, <1>3, <2>1, Zenon DEF RegisterFile
  <2>3. errno' \in Int
    BY <1>1, <1>2, <1>3, <1>4 DEF STypeOK
  <2> QED  BY <1>1, <1>2, <2>2, <2>3 DEF STypeOK
<1>9. ErrnoConvention'
  <2>1. call # "gettime" => errno' = IF ret >= 0 THEN before.errno ELSE 0 - ret
    BY <1>1, <1>2, <1>4
  <2>2. call = "gettime" => errno' = before.errno
    BY <1>1, <1>2
  <2> QED  BY <1>2, <1>3, <1>6, <2>1, <2>2 DEF ErrnoConvention
<1>10. CalleeSaved'
  <2>1. ASSUME call # "unblock"
        PROVE  \A r \in {"ebx", "esi", "edi", "ebp"} : regs'[r] = before.regs[r]
    <3>1. regs'["ebx"] = before.regs["ebx"]
      BY <1>1, <1>4, <1>5, <1>6, <1>7, <2>1 DEF Called, Loaded
    <3>2. \A r \in {"esi", "edi", "ebp"} : regs'[r] = before.regs[r]
      BY <1>1, <1>5, <1>6 DEF Loaded
    <3> QED  BY <3>1, <3>2
  <2> QED  BY <1>2, <2>1 DEF CalleeSaved
<1> QED  BY <1>2, <1>8, <1>9, <1>10 DEF SInv

-----------------------------------------------------------------------------
(* Whole calls.                                                            *)

(* Every step of a call keeps the invariant.                               *)
LEMMA SInvStep == SInv /\ [SNext]_callVars => SInv'
<1> SUFFICES ASSUME SInv, [SNext]_callVars PROVE SInv'
  OBVIOUS
<1>1. ASSUME NEW x \in WriteArgs, wrapper("write", x) PROVE SInv'
  BY <1>1, WrapperStep
<1>2. ASSUME NEW pid \in Pid, wrapper("unblock", <<pid>>) PROVE SInv'
  BY <1>2, WrapperStep
<1>3. ASSUME NEW c \in {"gettime", "getpid", "fork", "exit", "block"}, wrapper(c, <<>>)
      PROVE  SInv'
  BY <1>3, WrapperStep DEF Plain
<1>4. CASE system_call_handler
  BY <1>4, HandlerStep
<1>5. CASE fin
  BY <1>5, FinStep
<1>6. CASE exited
  BY <1>6 DEF exited, SInv, STypeOK
<1>9. CASE overrun
  BY <1>9, Zenon DEF overrun, SInv, STypeOK, Called, Loaded, pushed, ErrnoConvention,
              CalleeSaved, CallReachesRoutine, OnlyEaxChanges
<1>7. CASE epilogue
  BY <1>7, EpilogueStep
<1>8. CASE UNCHANGED callVars
  BY <1>8, Zenon DEF callVars, SInv, STypeOK, Called, Loaded, pushed, ErrnoConvention, CalleeSaved,
              CallReachesRoutine, OnlyEaxChanges
<1> QED  BY <1>1, <1>2, <1>3, <1>4, <1>5, <1>6, <1>7, <1>8, <1>9, Zenon DEF SNext

(* The invariant holds in every reachable state.                           *)
LEMMA SInvHolds == SSpec => []SInv
<1>1. SInit => SInv
  BY SyscallAssumption DEF SInit, SInv, STypeOK, RegisterFile, ErrnoConvention, CalleeSaved
<1> QED  BY <1>1, SInvStep, PTL DEF SSpec

(* Every wrapper's number selects its own routine and write's arguments    *)
(* arrive in order, whatever they are and whatever the registers held.     *)
THEOREM CallReachesRoutineHolds == SSpec => []CallReachesRoutine
<1>1. SInv => CallReachesRoutine
  BY DEF SInv, CallReachesRoutine
<1> QED  BY <1>1, SInvHolds, PTL

(* SAVE_ALL and RESTORE_ALL agree: a call changes %eax only.               *)
THEOREM OnlyEaxChangesHolds == SSpec => []OnlyEaxChanges
<1>1. SInv => OnlyEaxChanges
  BY DEF SInv, OnlyEaxChanges
<1> QED  BY <1>1, SInvHolds, PTL

(* The wrappers turn every result, for every argument and after any        *)
(* history of calls, into value or -1 and errno.                           *)
THEOREM ErrnoConventionHolds == SSpec => []ErrnoConvention
<1>1. SInv => ErrnoConvention
  BY DEF SInv, ErrnoConvention
<1> QED  BY <1>1, SInvHolds, PTL

(* Every wrapper but unblock preserves the callee-saved registers.         *)
THEOREM CalleeSavedHolds == SSpec => []CalleeSaved
<1>1. SInv => CalleeSaved
  BY DEF SInv, CalleeSaved
<1> QED  BY <1>1, SInvHolds, PTL

-----------------------------------------------------------------------------
(* Division.                                                               *)

(* A product with a positive factor is at least the other factor.          *)
LEMMA TimesAtLeast ==
  ASSUME NEW c \in Nat, NEW d \in Nat, d >= 1
  PROVE  c * d \in Nat /\ c * d >= c
<1>1. c * (d - 1) \in Nat
  BY SMT
<1>2. c * d = c * (d - 1) + c
  BY SMT
<1> QED  BY <1>1, <1>2

(* Quotient and remainder are unique.                                      *)
LEMMA Quotient ==
  ASSUME NEW c \in Nat, c >= 1, NEW x \in Nat, NEW r \in Nat, r < c
  PROVE  (c * x + r) \div c = x /\ (c * x + r) % c = r
  OBVIOUS

(* What quotient and remainder are.                                        *)
LEMMA Division ==
  ASSUME NEW c \in Nat, c >= 1, NEW n \in Nat
  PROVE  \E q, r \in Nat : r < c /\ n = c * q + r /\ q = n \div c /\ r = n % c
<1> DEFINE q == n \div c
<1>1. q \in Int /\ c * q <= n /\ n < c * q + c
  BY SMT
<1>2. \E r \in 0 .. c - 1 : n = c * q + r
  BY SMT
<1> HIDE DEF q
<1>3. PICK r \in 0 .. c - 1 : n = c * q + r
  BY <1>2
<1>4. q >= 0
  <2>1. CASE q < 0
    <3>1. c * (0 - q) >= c
      BY <1>1, <2>1, TimesAtLeast
    <3>2. c * (0 - q) = 0 - c * q
      BY <1>1
    <3>3. c * q \in Int /\ n < c * q + c
      BY <1>1
    <3> QED  BY <3>1, <3>2, <3>3
  <2> QED  BY <1>1, <2>1
<1>5. n % c = r
  <2>1. (c * q + r) % c = r
    BY <1>1, <1>4, Quotient
  <2> QED  BY <1>3, <2>1
<1>6. q \in Nat /\ r \in Nat /\ r < c /\ q = n \div c
  BY <1>1, <1>3, <1>4 DEF q
<1> QED  BY <1>3, <1>5, <1>6, Zenon

(* Division is monotonic, against a multiple of the divisor.               *)
LEMMA DivBelow ==
  ASSUME NEW c \in Nat, c >= 1, NEW n \in Nat, NEW k \in Nat
  PROVE  /\ n \div c \in Nat
         /\ n >= k * c => n \div c >= k
         /\ n < k * c => n \div c < k
<1>1. PICK q, r \in Nat : r < c /\ n = c * q + r /\ q = n \div c
  BY Division
<1>2. ASSUME n >= k * c
      PROVE  q >= k
  <2>1. CASE q < k
    <3>1. c * (k - q) >= c
      BY <1>1, <2>1, TimesAtLeast
    <3>2. c * (k - q) = k * c - c * q
      BY <1>1
    <3> QED  BY <1>1, <1>2, <3>1, <3>2
  <2> QED  BY <1>1, <2>1
<1>3. ASSUME n < k * c
      PROVE  q < k
  <2>1. CASE q >= k
    <3>1. c * (q - k) \in Nat
      BY <1>1, <2>1
    <3>2. c * (q - k) = c * q - k * c
      BY <1>1
    <3> QED  BY <1>1, <1>3, <3>1, <3>2
  <2> QED  BY <1>1, <2>1
<1> QED  BY <1>1, <1>2, <1>3

-----------------------------------------------------------------------------
(* copy_data.                                                              *)

(* The loop invariant: what has been counted off size has been copied.     *)
Prefix(n) == [j \in 1 .. BUFFER |-> IF j <= n - size THEN j ELSE 0]

CopyInv ==
  /\ op = "none" => dest = Clean
  /\ op \in {"copy", "copied"} =>
       \E n \in 0 .. BUFFER : arg = <<n>> /\ size \in 0 .. n /\ dest = Prefix(n)
  /\ op = "copied" => size = 0

(* Copying k bytes that are left keeps the loop invariant.                 *)
LEMMA CopyStep ==
  ASSUME CopyInv, op = "copy", op' = op, arg' = arg,
         NEW k \in Nat, k <= size, copy(k)
  PROVE  CopyInv'
<1>1. PICK n \in 0 .. BUFFER : arg = <<n>> /\ size \in 0 .. n /\ dest = Prefix(n)
  BY DEF CopyInv
<1>2. arg[1] = n /\ n \in Nat /\ size \in Nat /\ BUFFER \in Nat
  BY <1>1, UtilsAssumption
<1>3. size' = size - k /\ size' \in 0 .. n
  BY <1>1, <1>2 DEF copy
<1>4. dest' = [j \in 1 .. BUFFER |-> IF j \in n - size + 1 .. n - size + k THEN j ELSE dest[j]]
  BY <1>2 DEF copy
<1>5. dest' = [j \in 1 .. BUFFER |-> IF j <= n - size' THEN j ELSE 0]
  BY <1>1, <1>2, <1>3, <1>4 DEF Prefix
<1> QED  BY <1>1, <1>3, <1>5 DEF CopyInv, Prefix

(* Every step keeps the invariant of the copy loops. *)
LEMMA CopyInvStep == CopyInv /\ [Next]_vars => CopyInv'
<1> SUFFICES ASSUME CopyInv, [Next]_vars PROVE CopyInv'
  OBVIOUS
<1>1. ASSUME NEW n \in 0 .. BUFFER, copy_data(n) PROVE CopyInv'
  <2>1. op' = "copy" /\ arg' = <<n>> /\ size' = n /\ dest' = Clean
    BY <1>1 DEF copy_data, CopyInv
  <2>2. n \in 0 .. n /\ Clean = [j \in 1 .. BUFFER |-> IF j <= n - n THEN j ELSE 0]
    BY UtilsAssumption DEF Clean
  <2> QED  BY <2>1, <2>2 DEF CopyInv, Prefix
<1>2. CASE copy_word
  <2>1. 4 <= size /\ 4 \in Nat
    <3>1. op = "copy" /\ size > 4
      BY <1>2 DEF copy_word, whole_word
    <3>2. size \in Nat
      BY <3>1, UtilsAssumption DEF CopyInv
    <3> QED  BY <3>1, <3>2
  <2> QED  BY <1>2, <2>1, CopyStep DEF copy_word
<1>3. CASE copy_byte
  <2>1. 1 <= size /\ 1 \in Nat
    <3>1. op = "copy" /\ size > 0
      BY <1>3 DEF copy_byte
    <3>2. size \in Nat
      BY <3>1, UtilsAssumption DEF CopyInv
    <3> QED  BY <3>1, <3>2
  <2> QED  BY <1>3, <2>1, CopyStep DEF copy_byte
<1>4. CASE copied
  <2>1. op = "copy" /\ size <= 0 /\ op' = "copied" /\ UNCHANGED <<arg, size, dest>>
    BY <1>4 DEF copied
  <2>2. size = 0
    BY <2>1, UtilsAssumption DEF CopyInv
  <2> QED  BY <2>1, <2>2 DEF CopyInv, Prefix
<1>5. ASSUME NEW v \in Number, NEW radix \in {10, 16}, itoa(v, radix) PROVE CopyInv'
  BY <1>5 DEF itoa, CopyInv
<1>6. CASE digit \/ swap
  BY <1>6 DEF digit, swap, CopyInv
<1>7. ASSUME NEW type, NEW addr, NEW n, access_ok(type, addr, n) PROVE CopyInv'
  BY <1>7 DEF access_ok, CopyInv
<1>8. ASSUME NEW tsc, get_ticks(tsc) PROVE CopyInv'
  BY <1>8 DEF get_ticks, CopyInv
<1>9. CASE return
  BY <1>9 DEF return, CopyInv
<1>10. CASE UNCHANGED vars
  BY <1>10 DEF vars, CopyInv, Prefix
<1> QED  BY <1>1, <1>2, <1>3, <1>4, <1>5, <1>6, <1>7, <1>8, <1>9, <1>10 DEF Next

(* copy_data copies exactly size bytes, for every size.                    *)
THEOREM CopiesExactlyHolds == Spec => []CopiesExactly
<1>1. Init => CopyInv
  BY DEF Init, CopyInv
<1>2. CopyInv => CopiesExactly
  <2> SUFFICES ASSUME CopyInv, op = "copied"
               PROVE  dest = [j \in 1 .. BUFFER |-> IF j <= arg[1] THEN j ELSE 0]
    BY DEF CopiesExactly
  <2>1. PICK n \in 0 .. BUFFER : arg = <<n>> /\ dest = Prefix(n)
    BY DEF CopyInv
  <2>2. size = 0 /\ arg[1] = n /\ n - 0 = n
    BY <2>1, UtilsAssumption DEF CopyInv
  <2> QED  BY <2>1, <2>2 DEF Prefix
<1> QED  BY <1>1, <1>2, CopyInvStep, PTL DEF Spec

-----------------------------------------------------------------------------
(* access_ok.                                                              *)

(* access_ok refuses only ranges that leave the accessible pages.          *)
LEMMA Refused ==
  ASSUME NEW type, NEW addr \in 0 .. UINT - 1, NEW n \in 0 .. UINT - 1,
         access_ok(type, addr, n), ~ result'
  PROVE  \E byte \in addr .. addr + n - 1 \cup {addr} :
           page_of(byte) \notin Accessible(type)
<1> DEFINE F == USER_FIRST_PAGE
           K == USER_FIRST_PAGE + NUM_PAG_DATA + NUM_PAG_CODE
           ini == page_of(addr)
<1>1. /\ F \in Nat /\ K \in Nat /\ PAGE \in Nat /\ PAGE >= 1 /\ UINT \in Nat
      /\ F + NUM_PAG_CODE + NUM_PAG_DATA = K
      /\ (K + 1) * PAGE < UINT /\ addr \in Nat /\ n \in Nat
  BY UtilsAssumption
<1>2. (K + 1) * PAGE = K * PAGE + PAGE /\ K * PAGE \in Nat
  BY <1>1
<1>3. ini \in Nat
  BY <1>1, DivBelow DEF page_of
<1>4. ~ (/\ page_of((addr + n) % UINT) >= ini
         /\ ini >= F /\ page_of((addr + n) % UINT) <= K)
  <2>1. ~ (/\ page_of((addr + n) % UINT) >= page_of(addr)
           /\ within(page_of(addr), page_of((addr + n) % UINT), NUM_PAG_CODE + NUM_PAG_DATA))
    BY Zenon DEF access_ok
  <2>2. USER_FIRST_PAGE + (NUM_PAG_CODE + NUM_PAG_DATA) = K
    BY UtilsAssumption
  <2> QED  BY <2>1, <2>2 DEF within
<1>0. Accessible(type) \subseteq F .. K - 1
  BY UtilsAssumption DEF Accessible
<1> HIDE DEF F, K, ini
<1>5. CASE ~ (ini >= F /\ ini < K)
  <2>1. page_of(addr) \notin F .. K - 1
    BY <1>1, <1>3, <1>5 DEF ini
  <2> QED  BY <1>0, <2>1
<1>6. ASSUME ini >= F, ini < K, NEW last \in Nat, last = addr + n - 1,
             last >= K * PAGE, n >= 1
      PROVE  \E byte \in addr .. addr + n - 1 \cup {addr} : page_of(byte) \notin Accessible(type)
  <2>1. page_of(last) \in Nat /\ page_of(last) >= K
    BY <1>1, <1>6, DivBelow DEF page_of
  <2>2. last \in addr .. addr + n - 1 /\ page_of(last) \notin F .. K - 1
    BY <1>1, <1>6, <2>1
  <2> QED  BY <1>0, <2>2
<1>7. CASE ini >= F /\ ini < K /\ addr + n >= UINT
  <2>1. n >= 1 /\ addr + n - 1 \in Nat /\ addr + n - 1 >= K * PAGE
    BY <1>1, <1>2, <1>7
  <2> QED  BY <1>6, <1>7, <2>1
<1>8. CASE ini >= F /\ ini < K /\ addr + n < UINT
  <2>1. (addr + n) % UINT = addr + n
    <3>1. UINT >= 1 /\ UINT * 0 + (addr + n) = addr + n /\ addr + n \in Nat
      BY <1>1, <1>8
    <3> QED  BY <1>1, <1>8, <3>1, Quotient, Zenon
  <2>2. page_of(addr + n) \in Nat /\ page_of(addr + n) >= ini
    <3>1. addr >= ini * PAGE
      <4>1. PICK q, r \in Nat : addr = PAGE * q + r /\ q = addr \div PAGE
        BY <1>1, Division
      <4>2. q = ini
        BY <4>1 DEF ini, page_of
      <4> QED  BY <1>1, <4>1, <4>2
    <3>2. addr + n \in Nat /\ addr + n >= ini * PAGE /\ ini * PAGE \in Nat
      BY <1>1, <1>3, <3>1
    <3> QED  BY <1>1, <1>3, <3>2, DivBelow DEF page_of
  <2>3. page_of(addr + n) > K
    BY <1>1, <1>4, <1>8, <2>1, <2>2
  <2>4. addr + n >= (K + 1) * PAGE
    <3>1. K + 1 \in Nat /\ addr + n \in Nat /\ (K + 1) * PAGE \in Nat
      BY <1>1
    <3>2. addr + n < (K + 1) * PAGE => page_of(addr + n) < K + 1
      BY <1>1, <3>1, DivBelow, Zenon DEF page_of
    <3> QED  BY <1>1, <2>2, <2>3, <3>1, <3>2
  <2>5. n >= 1
    <3>1. CASE n = 0
      <4>1. page_of(addr + n) = ini
        BY <1>1, <3>1 DEF ini
      <4> QED  BY <1>1, <1>3, <1>8, <2>3, <4>1
    <3> QED  BY <1>1, <3>1
  <2>6. addr + n - 1 \in Nat /\ addr + n - 1 >= K * PAGE
    BY <1>1, <1>2, <2>4, <2>5
  <2> QED  BY <1>6, <1>8, <2>5, <2>6
<1> QED  BY <1>1, <1>3, <1>5, <1>7, <1>8

(* A block that lies in the pages that may be read, or written, is never   *)
(* refused to a reader, or a writer, for every page size and address       *)
(* width.                                                                  *)
THEOREM RefusedIsInvalidHolds == Spec => []RefusedIsInvalid
<1>1. Init => RefusedIsInvalid
  BY DEF Init, RefusedIsInvalid
<1>2. RefusedIsInvalid /\ [Next]_vars => RefusedIsInvalid'
  <2> SUFFICES ASSUME RefusedIsInvalid, [Next]_vars, op' = "checked", ~ result'
               PROVE  RefusedIsInvalid'
    BY DEF RefusedIsInvalid
  <2>1. CASE UNCHANGED vars
    BY <2>1 DEF vars, RefusedIsInvalid, page_of, Accessible
  <2>2. CASE Next
    <3>1. PICK type \in {"VERIFY_READ", "VERIFY_WRITE"},
               addr \in 0 .. UINT - 1, n \in 0 .. UINT - 1 : access_ok(type, addr, n)
      BY <2>2, SMTT(30) DEF Next, copy_data, copy_word, copy_byte, copied, itoa, digit, swap,
                  get_ticks, return
    <3>2. arg'[1] = type /\ arg'[2] = addr /\ arg'[3] = n
      BY <3>1 DEF access_ok
    <3> QED  BY <3>1, <3>2, Refused, SMTT(30) DEF RefusedIsInvalid, page_of, Accessible
  <2> QED  BY <2>1, <2>2
<1> QED  BY <1>1, <1>2, PTL DEF Spec

-----------------------------------------------------------------------------
(* get_ticks.                                                              *)

(* Multiplication distributes over the sum of the two words. *)
LEMMA Distribute ==
  ASSUME NEW u \in Nat, NEW c \in Nat, NEW k \in Nat, NEW r \in Nat
  PROVE  u * (c * k + r) = c * (u * k) + r * u
<1>1. u * (c * k + r) = u * (c * k) + u * r
  OBVIOUS
<1>2. u * (c * k) = c * (u * k) /\ u * r = r * u
  OBVIOUS
<1> QED  BY <1>1, <1>2

(* do_div by two divl instructions yields the exact quotient. *)
LEMMA Divided ==
  ASSUME NEW tsc \in Nat
  PROVE  divl(upper(tsc \div UINT), tsc % UINT) = (tsc \div CYCLESPERTICK) % UINT
<1> DEFINE C == CYCLESPERTICK
<1>1. C \in Nat /\ C >= 1 /\ UINT \in Nat /\ UINT >= 1
  BY UtilsAssumption
<1>2. PICK h, l \in Nat : l < UINT /\ tsc = UINT * h + l /\ h = tsc \div UINT /\ l = tsc % UINT
  BY <1>1, Division
<1>3. PICK k, r \in Nat : r < C /\ h = C * k + r /\ r = h % C
  BY <1>1, Division, Zenon
<1>4. upper(h) = r
  <2>1. CASE h = 0
    <3>1. C * 0 + 0 = 0 /\ 0 < C
      BY <1>1
    <3>2. 0 % C = 0
      BY <1>1, <3>1, Quotient
    <3> QED  BY <1>3, <2>1, <3>2 DEF upper
  <2>2. CASE h # 0
    BY <1>3, <2>2 DEF upper
  <2> QED  BY <2>1, <2>2
<1>5. r * UINT + l \in Nat
  BY <1>1
<1>6. PICK q, s \in Nat : s < C /\ r * UINT + l = C * q + s /\ q = (r * UINT + l) \div C
  BY <1>1, <1>5, Division
<1>7. q < UINT
  <2>1. r * UINT + l < UINT * C
    <3>1. UINT * (C - r) >= UINT
      BY <1>1, <1>3, TimesAtLeast
    <3>2. UINT * (C - r) = UINT * C - r * UINT
      BY <1>1, <1>3
    <3>3. UINT * C \in Nat /\ r * UINT \in Nat
      BY <1>1, <1>3
    <3> QED  BY <1>1, <1>2, <3>1, <3>2, <3>3
  <2> QED  BY <1>1, <1>5, <1>6, <2>1, DivBelow
<1>8. divl(upper(h), l) = q
  BY <1>4, <1>6, <1>7 DEF divl
<1>9. tsc = C * (UINT * k + q) + s /\ UINT * k + q \in Nat
  <2>1. UINT * (C * k + r) = C * (UINT * k) + r * UINT
    BY <1>1, Distribute
  <2>2. C * (UINT * k + q) = C * (UINT * k) + C * q
    BY <1>1, <1>3, <1>6
  <2>3. /\ UINT * k \in Nat /\ C * (UINT * k) \in Nat /\ C * q \in Nat /\ r * UINT \in Nat
        /\ C * (UINT * k + q) \in Nat
    BY <1>1, <1>3, <1>6
  <2>4. tsc = C * (UINT * k) + r * UINT + l
    BY <1>2, <1>3, <2>1, Zenon
  <2> QED  BY <1>2, <1>6, <2>2, <2>3, <2>4
<1>10. tsc \div C = UINT * k + q
  BY <1>1, <1>6, <1>9, Quotient, Zenon
<1>11. (UINT * k + q) % UINT = q
  BY <1>1, <1>7, Quotient
<1> QED  BY <1>2, <1>8, <1>10, <1>11

(* do_div's two-step division is the division of the whole counter, for    *)
(* every word size and divisor, and never a divide error.                  *)
THEOREM TicksExactHolds == Spec => []TicksExact
<1>1. Init => TicksExact
  BY DEF Init, TicksExact
<1>2. TicksExact /\ [Next]_vars => TicksExact'
  <2> SUFFICES ASSUME TicksExact, [Next]_vars, op' = "divided"
               PROVE  TicksExact'
    BY DEF TicksExact
  <2>1. CASE UNCHANGED vars
    BY <2>1 DEF vars, TicksExact
  <2>2. CASE Next
    <3>1. PICK tsc \in 0 .. UINT * UINT - 1 : get_ticks(tsc)
      BY <2>2 DEF Next, copy_data, copy_word, copy_byte, copied, itoa, digit, swap,
                  access_ok, return
    <3>2. tsc \in Nat
      BY <3>1
    <3>3. arg'[1] = tsc /\ result' = divl(upper(tsc \div UINT), tsc % UINT)
      BY <3>1 DEF get_ticks
    <3> QED  BY <3>2, <3>3, Divided, SMTT(30) DEF TicksExact
  <2> QED  BY <2>1, <2>2
<1> QED  BY <1>1, <1>2, PTL DEF Spec

-----------------------------------------------------------------------------
(* Induction.                                                              *)

(* Every non-empty set of natural numbers has a least one.                 *)
LEMMA Least ==
  ASSUME NEW T, T \subseteq Nat, T # {}
  PROVE  \E m \in T : \A k \in T : m <= k
<1>1. IsWellFoundedOn(OpToRel(<, Nat), Nat)
  BY NatLessThanWellFounded, Zenon
<1>2. PICK m \in T : \A k \in T : ~ (<<k, m>> \in OpToRel(<, Nat))
  BY <1>1, WFMin, Zenon
<1> DEFINE R == {ss \in Nat \X Nat : ss[1] < ss[2]}
<1>3. OpToRel(<, Nat) = R
  BY Zenon DEF OpToRel
<1>4. \A k \in T : ~ (<<k, m>> \in R)
  BY <1>2, <1>3, Zenon
<1>5. \A k \in T : ~ (k < m)
  BY <1>4, Zenon
<1> QED  BY <1>5

-----------------------------------------------------------------------------
(* itoa.                                                                   *)

(* Any function that satisfies the recursion of Shown gives its value.     *)
LEMMA ShownIs ==
  ASSUME NEW s, Len(s) \in Nat, NEW radix, NEW w,
         \A k \in 0 .. Len(s) : w[k] = IF k = 0 THEN 0 ELSE w[k - 1] * radix + s[k]
  PROVE  Shown(s, radix) = w[Len(s)]
<1> DEFINE v == CHOOSE f : f = [k \in 0 .. Len(s) |->
                                  IF k = 0 THEN 0 ELSE f[k - 1] * radix + s[k]]
<1>1. v = [k \in 0 .. Len(s) |-> IF k = 0 THEN 0 ELSE v[k - 1] * radix + s[k]]
  <2> DEFINE u == [k \in 0 .. Len(s) |-> w[k]]
  <2>1. u = [k \in 0 .. Len(s) |-> IF k = 0 THEN 0 ELSE u[k - 1] * radix + s[k]]
    OBVIOUS
  <2> HIDE DEF u
  <2> QED  BY <2>1, Zenon
<1>2. Shown(s, radix) = v[Len(s)]
  BY Zenon DEF Shown
<1> HIDE DEF v
<1>3. \A k \in 0 .. Len(s) : v[k] = w[k]
  <2> DEFINE D == {k \in 0 .. Len(s) : v[k] # w[k]}
  <2> SUFFICES ASSUME D # {}
               PROVE  FALSE
    OBVIOUS
  <2>1. PICK m \in D : \A k \in D : m <= k
    <3>1. D \subseteq Nat
      OBVIOUS
    <3> HIDE DEF D
    <3> QED  BY <3>1, Least, Zenon
  <2>2. m # 0
    BY <2>1, <1>1
  <2>3. m - 1 \in 0 .. Len(s) /\ m - 1 \notin D
    BY <2>1, <2>2
  <2>4. v[m - 1] = w[m - 1]
    BY <2>3
  <2> QED  BY <2>1, <2>2, <2>4, <1>1
<1> QED  BY <1>2, <1>3

(* s holds the digits of v taken so far, the last one first, and rest is   *)
(* what is left of v: q[j] was left after j digits, and was not zero       *)
(* before the next.                                                        *)
Taken(q, s, v, rest, r) ==
  /\ q \in [0 .. Len(s) -> Nat] /\ q[0] = v /\ q[Len(s)] = rest
  /\ \A j \in 1 .. Len(s) : q[j - 1] = q[j] * r + s[j] /\ q[j - 1] # 0

Digits(s, v, rest, r) == s \in Seq(Nat) /\ \E q : Taken(q, s, v, rest, r)

(* The first and the last n characters of s have changed places.           *)
Swapped(t, s, n) ==
  /\ t \in Seq(Nat) /\ Len(t) = Len(s)
  /\ \A k \in 1 .. Len(s) : t[k] = IF k <= n \/ k > Len(s) - n
                                   THEN s[Len(s) + 1 - k] ELSE s[k]

(* The invariant of the two loops of itoa, for a number v in radix r.      *)
Converting(v, r) ==
  /\ arg = <<v, r>>
  /\ v < 0 => b = <<>>
  /\ op = "digits" => /\ v # 0 /\ i1 = 0 /\ a \in Int
                      /\ v < 0 => a = v
                      /\ v > 0 => a \in Nat /\ Digits(b, v, a, r)
  /\ op = "reverse" =>
       /\ v # 0 /\ i1 \in Nat
       /\ v > 0 => \E s : /\ Digits(s, v, 0, r) /\ i1 <= Len(s) \div 2
                          /\ Swapped(b, s, i1)
       /\ v < 0 => i1 = 0
  /\ op = "converted" =>
       /\ v = 0 => b = <<0>>
       /\ v > 0 => \E s : /\ Digits(s, v, 0, r) /\ Swapped(b, s, Len(s) \div 2)

ItoaInv ==
  /\ op = "none" => b = <<>> /\ i1 = 0
  /\ op \in {"digits", "reverse", "converted"} =>
       \E v \in Int, r \in {10, 16} : Converting(v, r)

(* One more digit.                                                         *)
LEMMA OneDigit ==
  ASSUME NEW s, NEW v, NEW n \in Nat, n > 0, NEW r \in {10, 16}, Digits(s, v, n, r)
  PROVE  Digits(Append(s, n % r), v, n \div r, r) /\ n \div r \in Nat
<1>1. PICK q : Taken(q, s, v, n, r)
  BY DEF Digits
<1>2. PICK d, m \in Nat : m < r /\ n = r * d + m /\ d = n \div r /\ m = n % r
  BY Division
<1> DEFINE t == Append(s, m)
           p == [j \in 0 .. Len(s) + 1 |-> IF j <= Len(s) THEN q[j] ELSE d]
<1>3. /\ s \in Seq(Nat) /\ Len(s) \in Nat /\ t \in Seq(Nat) /\ Len(t) = Len(s) + 1
      /\ \A j \in 1 .. Len(s) : t[j] = s[j]
      /\ t[Len(s) + 1] = m
  BY DEF Digits
<1> HIDE DEF t
<1>4. p \in [0 .. Len(t) -> Nat] /\ p[0] = v /\ p[Len(t)] = d
  BY <1>1, <1>3 DEF Taken
<1>5. ASSUME NEW j \in 1 .. Len(t)
      PROVE  p[j - 1] = p[j] * r + t[j] /\ p[j - 1] # 0
  <2>1. CASE j <= Len(s)
    BY <2>1, <1>1, <1>3, SMTT(30) DEF Taken
  <2>2. CASE ~ (j <= Len(s))
    <3>1. j = Len(s) + 1 /\ p[j - 1] = n /\ p[j] = d /\ t[j] = m
      BY <2>2, <1>1, <1>3 DEF Taken
    <3> HIDE DEF p
    <3>2. n = d * r + m
      BY <1>2
    <3> QED  BY <3>1, <3>2
  <2> QED  BY <2>1, <2>2
<1> HIDE DEF p
<1>6. Taken(p, t, v, d, r)
  BY <1>4, <1>5 DEF Taken
<1>7. Digits(t, v, d, r)
  BY <1>3, <1>6 DEF Digits
<1> QED  BY <1>2, <1>7 DEF t

(* Half of a length, rounded down.                                         *)
LEMMA Halves ==
  \A n \in Nat : n \div 2 \in Nat /\ 2 * (n \div 2) <= n /\ n <= 2 * (n \div 2) + 1
  BY SMT

(* One more pair of characters changes places.                             *)
LEMMA OneSwap ==
  ASSUME NEW t, NEW s \in Seq(Nat), NEW n \in Nat, n < Len(s) \div 2, Swapped(t, s, n)
  PROVE  Swapped([t EXCEPT ![n + 1] = t[Len(t) - n], ![Len(t) - n] = t[n + 1]],
                 s, n + 1)
<1>1. PICK l \in Nat : l = Len(s)
  OBVIOUS
<1>2. t \in Seq(Nat) /\ Len(t) = l /\ t \in [1 .. l -> Nat]
  BY <1>1, SMTT(30) DEF Swapped
<1>3. n + 1 \in 1 .. l /\ l - n \in 1 .. l /\ n + 1 < l - n
  BY <1>1, Halves
<1>4. \A k \in 1 .. l : t[k] = IF k <= n \/ k > l - n THEN s[l + 1 - k] ELSE s[k]
  BY <1>1 DEF Swapped
<1>5. t[n + 1] = s[n + 1] /\ t[l - n] = s[l - n]
  BY <1>3, <1>4
<1> DEFINE x == t[l - n]
           y == t[n + 1]
           u == [t EXCEPT ![n + 1] = x, ![l - n] = y]
<1>6. x \in Nat /\ y \in Nat /\ x = s[l - n] /\ y = s[n + 1]
  BY <1>2, <1>3, <1>5, Zenon
<1> HIDE DEF x, y
<1>7. u = [k \in 1 .. l |-> IF k = l - n THEN y ELSE IF k = n + 1 THEN x ELSE t[k]]
  BY <1>2, <1>3, Zenon
<1> HIDE DEF u
<1>8. u \in [1 .. l -> Nat]
  BY <1>2, <1>6, <1>7, Zenon
<1>9. u \in Seq(Nat) /\ Len(u) = l
  BY <1>8
<1>10. ASSUME NEW k \in 1 .. l
       PROVE  u[k] = IF k <= n + 1 \/ k > l - (n + 1) THEN s[l + 1 - k] ELSE s[k]
  <2>1. CASE k = n + 1
    <3>1. u[k] = x /\ l + 1 - k = l - n
      BY <2>1, <1>3, <1>7
    <3> QED  BY <3>1, <2>1, <1>6
  <2>2. CASE k = l - n
    <3>1. u[k] = y /\ l + 1 - k = n + 1 /\ k > l - (n + 1)
      BY <2>2, <1>3, <1>7
    <3> QED  BY <3>1, <1>6, SMTT(30)
  <2>3. CASE k # n + 1 /\ k # l - n
    <3>1. u[k] = t[k]
      BY <2>3, <1>7
    <3>2. (k <= n \/ k > l - n) <=> (k <= n + 1 \/ k > l - (n + 1))
      BY <2>3, <1>3
    <3> QED  BY <3>1, <3>2, <1>4
  <2> QED  BY <2>1, <2>2, <2>3
<1>11. Swapped(u, s, n + 1)
  BY <1>1, <1>9, <1>10 DEF Swapped
<1> QED  BY <1>2, <1>11 DEF u, x, y

(* All the digits, in reverse, show the number, the first not being zero.  *)
LEMMA ReversedShows ==
  ASSUME NEW t, NEW s, NEW v \in Nat, v > 0, NEW r \in {10, 16},
         Digits(s, v, 0, r), Swapped(t, s, Len(s) \div 2)
  PROVE  Shown(t, r) = v /\ t[1] # 0
<1>0. PICK l \in Nat : l = Len(s)
  BY DEF Digits
<1>1. PICK q : Taken(q, s, v, 0, r)
  BY DEF Digits
<1>2. s \in Seq(Nat) /\ Len(t) = l
  BY <1>0 DEF Digits, Swapped
<1>9. /\ q \in [0 .. l -> Nat] /\ q[0] = v /\ q[l] = 0
      /\ \A j \in 1 .. l : q[j - 1] = q[j] * r + s[j] /\ q[j - 1] # 0
  BY <1>0, <1>1 DEF Taken
<1>3. l >= 1
  BY <1>9
<1>4. \A k \in 1 .. l : t[k] = s[l + 1 - k]
  <2> TAKE k \in 1 .. l
  <2>1. PICK h \in Nat : h = l \div 2 /\ 2 * h <= l /\ l <= 2 * h + 1
    BY Halves
  <2>4. t[k] = IF k <= h \/ k > l - h THEN s[l + 1 - k] ELSE s[k]
    BY <2>1, <1>0 DEF Swapped
  <2>2. CASE k <= h \/ k > l - h
    BY <2>2, <2>4
  <2>3. CASE ~ (k <= h \/ k > l - h)
    <3>1. k = l + 1 - k
      BY <2>1, <2>3
    <3>2. t[k] = s[k]
      BY <2>3, <2>4
    <3> QED  BY <3>1, <3>2
  <2> QED  BY <2>2, <2>3
<1> DEFINE w == [k \in 0 .. l |-> q[l - k]]
<1>5. \A k \in 0 .. Len(t) : w[k] = IF k = 0 THEN 0 ELSE w[k - 1] * r + t[k]
  <2>1. w[0] = 0
    BY <1>9
  <2>2. ASSUME NEW k \in 1 .. l
        PROVE  w[k] = w[k - 1] * r + t[k]
    <3>1. PICK j \in 1 .. l : j = l + 1 - k
      OBVIOUS
    <3>2. l - k = j - 1 /\ l - (k - 1) = j /\ k \in 0 .. l /\ k - 1 \in 0 .. l
      BY <3>1
    <3>3. w[k] = q[j - 1] /\ w[k - 1] = q[j]
      BY <3>2
    <3>4. t[k] = s[j]
      BY <3>1, <1>4
    <3>5. q[j - 1] = q[j] * r + s[j]
      BY <3>1, <1>9
    <3> HIDE DEF w
    <3> QED  BY <3>3, <3>4, <3>5
  <2> HIDE DEF w
  <2> QED  BY <2>1, <2>2, <1>2
<1>6. w[l] = v
  BY <1>9
<1> HIDE DEF w
<1>7. Shown(t, r) = v
  <2>1. Len(t) \in Nat
    BY <1>2
  <2>2. Shown(t, r) = w[Len(t)]
    BY <2>1, <1>5, ShownIs, ZenonT(30)
  <2> QED  BY <2>2, <1>2, <1>6
<1>8. t[1] # 0
  <2>1. t[1] = s[l] /\ l \in 1 .. l
    BY <1>3, <1>4
  <2>2. q[l - 1] = q[l] * r + s[l] /\ q[l - 1] # 0 /\ q[l] = 0
    BY <2>1, <1>9
  <2>3. s[l] \in Nat
    BY <2>1, <1>0, <1>2
  <2> QED  BY <2>1, <2>2, <2>3
<1> QED  BY <1>7, <1>8

(* Every step keeps the invariant of itoa.                                 *)
LEMMA ItoaInvStep == ItoaInv /\ [Next]_vars => ItoaInv'
<1> SUFFICES ASSUME ItoaInv, [Next]_vars
             PROVE  ItoaInv'
  OBVIOUS
<1>1. ASSUME NEW v \in Number, NEW radix \in {10, 16}, itoa(v, radix)
      PROVE  ItoaInv'
  <2>1. v \in Int /\ b = <<>> /\ i1 = 0
    BY <1>1, UtilsAssumption DEF itoa, ItoaInv
  <2>2. /\ arg' = <<v, radix>> /\ a' = v /\ i1' = 0
        /\ v = 0 => op' = "converted" /\ b' = <<0>>
        /\ v # 0 => op' = "digits" /\ b' = <<>>
    BY <1>1, <2>1 DEF itoa
  <2>3. ASSUME v > 0
        PROVE  Digits(<<>>, v, v, radix)
    <3> DEFINE q == [j \in 0 .. 0 |-> v]
    <3>1. q \in [0 .. 0 -> Nat] /\ q[0] = v /\ <<>> \in Seq(Nat) /\ Len(<<>>) = 0
      BY <2>1, <2>3
    <3> HIDE DEF q
    <3>2. Taken(q, <<>>, v, v, radix)
      BY <3>1 DEF Taken
    <3> QED  BY <3>1, <3>2 DEF Digits
  <2>4. v > 0 => Digits(b', v, a', radix)
    BY <2>2, <2>3
  <2>5. Converting(v, radix)'
    BY <2>1, <2>2, <2>4 DEF Converting, Digits, Taken
  <2> QED  BY <2>1, <2>2, <2>5 DEF ItoaInv
<1>2. CASE digit
  <2>1. PICK v \in Int, r \in {10, 16} : Converting(v, r)
    BY <1>2 DEF digit, ItoaInv
  <2>2. /\ op = "digits" /\ v # 0 /\ i1 = 0 /\ a \in Int /\ arg = <<v, r>>
        /\ v < 0 => a = v /\ b = <<>>
        /\ v > 0 => a \in Nat /\ Digits(b, v, a, r)
        /\ arg' = arg /\ i1' = i1 /\ arg[2] = r
    BY <1>2, <2>1 DEF digit, Converting
  <2>3. CASE a > 0
    <3>1. v > 0 /\ op' = "digits" /\ b' = Append(b, a % r) /\ a' = a \div r
      BY <1>2, <2>2, <2>3 DEF digit
    <3>2. Digits(Append(b, a % r), v, a \div r, r) /\ a \div r \in Nat
      BY <2>2, <2>3, <3>1, OneDigit
    <3>3. Digits(b, v, a, r)'
      BY <3>1, <3>2, Zenon DEF Digits, Taken
    <3>4. Converting(v, r)'
      BY <2>2, <3>1, <3>2, <3>3 DEF Converting
    <3> QED  BY <3>1, <3>4 DEF ItoaInv
  <2>4. CASE ~ (a > 0)
    <3>1. op' = "reverse" /\ b' = b
      BY <1>2, <2>4 DEF digit
    <3>2. ASSUME v > 0
          PROVE  Digits(b, v, 0, r) /\ 0 <= Len(b) \div 2 /\ Swapped(b, b, 0)
      <4>1. Digits(b, v, 0, r) /\ b \in Seq(Nat) /\ Len(b) \in Nat
        BY <2>2, <2>4, <3>2 DEF Digits
      <4>2. Swapped(b, b, 0)
        BY <4>1 DEF Swapped
      <4> QED  BY <4>1, <4>2, Halves
    <3>3. Converting(v, r)'
      BY <2>2, <3>1, <3>2, Zenon DEF Converting, Digits, Taken, Swapped
    <3> QED  BY <3>1, <3>3 DEF ItoaInv
  <2> QED  BY <2>3, <2>4
<1>3. CASE swap
  <2>1. PICK v \in Int, r \in {10, 16} : Converting(v, r)
    BY <1>3 DEF swap, ItoaInv
  <2>2. /\ op = "reverse" /\ v # 0 /\ arg = <<v, r>> /\ arg' = arg /\ i1 \in Nat
        /\ v < 0 => b = <<>> /\ i1 = 0
    BY <1>3, <2>1 DEF swap, Converting
  <2>3. CASE v < 0
    <3>1. op' = "converted" /\ b' = <<>>
      BY <1>3, <2>2, <2>3 DEF swap, swapping
    <3>2. Converting(v, r)'
      BY <2>2, <2>3, <3>1 DEF Converting
    <3> QED  BY <3>1, <3>2 DEF ItoaInv
  <2>4. CASE v > 0
    <3>1. PICK s : /\ Digits(s, v, 0, r) /\ i1 <= Len(s) \div 2 /\ Swapped(b, s, i1)
      BY <2>1, <2>2, <2>4 DEF Converting
    <3>2. s \in Seq(Nat) /\ Len(b) = Len(s) /\ Len(s) \div 2 \in Nat
      BY <3>1, Halves DEF Digits, Swapped
    <3>3. CASE swapping
      <4>1. /\ b' = [b EXCEPT ![i1 + 1] = b[Len(b) - i1], ![Len(b) - i1] = b[i1 + 1]]
            /\ i1' = i1 + 1 /\ op' = "reverse"
        BY <1>3, <2>2, <3>3 DEF swap
      <4>2. i1 < Len(s) \div 2
        BY <3>2, <3>3 DEF swapping
      <4>3. PICK c : c = b' /\ Swapped(c, s, i1 + 1)
        <5>1. Swapped([b EXCEPT ![i1 + 1] = b[Len(b) - i1], ![Len(b) - i1] = b[i1 + 1]],
                      s, i1 + 1)
          BY <2>2, <3>1, <3>2, <4>2, OneSwap, SMTT(30)
        <5> QED  BY <4>1, <5>1, Zenon
      <4>4. Swapped(b, s, i1)' /\ i1' \in Nat /\ i1' <= Len(s) \div 2
        <5>1. i1' = i1 + 1
          BY <4>1
        <5> QED  BY <2>2, <3>2, <4>2, <4>3, <5>1 DEF Swapped
      <4>5. Converting(v, r)'
        BY <2>2, <2>4, <3>1, <4>1, <4>4 DEF Converting
      <4> QED  BY <4>1, <4>5 DEF ItoaInv
    <3>4. CASE ~ swapping
      <4>1. op' = "converted" /\ b' = b /\ i1 = Len(s) \div 2
        BY <1>3, <2>2, <3>1, <3>2, <3>4, SMTT(30) DEF swap, swapping
      <4>2. Swapped(b', s, Len(s) \div 2)
        BY <3>1, <4>1
      <4>3. Converting(v, r)'
        BY <2>2, <2>4, <3>1, <4>1, <4>2, Zenon DEF Converting, Swapped
      <4> QED  BY <4>1, <4>3 DEF ItoaInv
    <3> QED  BY <3>3, <3>4
  <2> QED  BY <2>2, <2>3, <2>4
<1>4. ASSUME NEW n, copy_data(n) PROVE ItoaInv'
  BY <1>4 DEF copy_data, ItoaInv
<1>5. CASE copy_word \/ copy_byte \/ copied
  BY <1>5 DEF copy_word, copy_byte, copied, ItoaInv
<1>6. ASSUME NEW type, NEW addr, NEW n, access_ok(type, addr, n) PROVE ItoaInv'
  BY <1>6 DEF access_ok, ItoaInv
<1>7. ASSUME NEW tsc, get_ticks(tsc) PROVE ItoaInv'
  BY <1>7 DEF get_ticks, ItoaInv
<1>8. CASE return
  BY <1>8 DEF return, ItoaInv
<1>9. CASE UNCHANGED vars
  <2>1. UNCHANGED <<op, arg, a, b, i1>>
    BY <1>9 DEF vars
  <2>2. ASSUME NEW v, NEW r, Converting(v, r)
        PROVE  Converting(v, r)'
    <3>1. /\ Digits(b, v, a, r) => Digits(b, v, a, r)'
          /\ \A s : /\ Swapped(b, s, i1) => Swapped(b, s, i1)'
                   /\ Swapped(b, s, Len(s) \div 2) => Swapped(b, s, Len(s) \div 2)'
      BY <2>1 DEF Digits, Taken, Swapped
    <3> QED  BY <2>1, <2>2, <3>1 DEF Converting
  <2> QED  BY <2>1, <2>2 DEF ItoaInv
<1> QED  BY <1>1, <1>2, <1>3, <1>4, <1>5, <1>6, <1>7, <1>8, <1>9, SMTT(30) DEF Next

(* itoa and itoa_hex show every number that is not negative, with the      *)
(* fewest characters, whatever its length.                                 *)
THEOREM ShowsNumberHolds == Spec => []ShowsNumber
<1>1. Init => ItoaInv
  BY DEF Init, ItoaInv
<1>2. ItoaInv => ShowsNumber
  <2> SUFFICES ASSUME ItoaInv, op = "converted"
               PROVE  ShowsNumber
    BY DEF ShowsNumber
  <2>1. PICK v \in Int, r \in {10, 16} : Converting(v, r)
    BY DEF ItoaInv
  <2>2. arg[1] = v /\ arg[2] = r
    BY <2>1 DEF Converting
  <2>3. CASE v < 0
    BY <2>1, <2>2, <2>3 DEF Converting, ShowsNumber
  <2>4. CASE v = 0
    <3>1. b = <<0>> /\ Len(b) = 1 /\ b[1] = 0
      BY <2>1, <2>4 DEF Converting
    <3> DEFINE w == [k \in 0 .. 1 |-> 0]
    <3>2. \A k \in 0 .. Len(b) : w[k] = IF k = 0 THEN 0 ELSE w[k - 1] * r + b[k]
      BY <3>1
    <3>3. w[1] = 0
      OBVIOUS
    <3> HIDE DEF w
    <3>4. Len(b) \in Nat
      BY <3>1
    <3>5. Shown(b, r) = w[Len(b)]
      BY <3>2, <3>4, ShownIs, ZenonT(30)
    <3> QED  BY <2>2, <2>4, <3>1, <3>3, <3>5 DEF ShowsNumber
  <2>5. CASE v > 0
    <3>1. PICK s : Digits(s, v, 0, r) /\ Swapped(b, s, Len(s) \div 2)
      BY <2>1, <2>5 DEF Converting
    <3>2. Shown(b, r) = v /\ b[1] # 0
      BY <2>5, <3>1, ReversedShows
    <3> QED  BY <2>2, <2>5, <3>2 DEF ShowsNumber
  <2> QED  BY <2>3, <2>4, <2>5
<1> QED  BY <1>1, <1>2, ItoaInvStep, PTL DEF Spec
=============================================================================
