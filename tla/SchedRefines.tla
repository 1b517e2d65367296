---------------------------- MODULE SchedRefines ----------------------------
(* The scheduler and the process system calls implement ProcStates: the    *)
(* state of a slot is where it is.                                         *)
EXTENDS Sched

place ==
  [t \in Task |->
    CASE t = current         -> "RUN"
      [] t \in Range(readyq) -> "READY"
      [] t \in blocked       -> "BLOCKED"
      [] t \in Range(freeq)  -> "FREE"
      [] t = idle_task /\ t # current -> "IDLE"
      [] OTHER               -> "LOST"]

LifeCycle == INSTANCE ProcStates WITH
               idle <- idle_task, nobody <- NULL,
               st <- place, wakes <- pending_unblocks, up <- parent

(* Every handler of the kernel is one of the promised state changes, or    *)
(* changes nothing a process can see: no slot goes from FREE to RUN, from  *)
(* BLOCKED to RUN or from LOST anywhere.                                   *)
RefinesProcStates == LifeCycle!ASpec
=============================================================================
