----------------------------- MODULE MCSyscall -----------------------------
(* Values for checking Syscall: a wrapped (negative) tick counter, a zero  *)
(* and a positive one, any of which a void service may leave in %eax; for  *)
(* write a wrong and a right file, a refused, a NULL and a good buffer and *)
(* sizes of nothing, within and beyond the room on the stack; registers    *)
(* that all differ.                                                        *)
EXTENDS Syscall

MCScratch == {-3, 0, 4}
MCWriteArgs == {0, 1} \X {-5, 0, 5} \X {0, 3, 9}
MCUserRegs == {[r \in Register |-> 100 + offset(r)]}
=============================================================================
