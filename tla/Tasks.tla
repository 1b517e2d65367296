------------------------------- MODULE Tasks -------------------------------
(* The task vector of sched.h: NR_TASKS slots, of which the first two are  *)
(* taken at boot by the idle task and by the initial user process.         *)
EXTENDS Integers

CONSTANT NR_TASKS

ASSUME TasksAssumption == NR_TASKS \in Nat /\ NR_TASKS >= 2

Task == 0 .. NR_TASKS - 1
idle_task == 0
init_task == 1
NULL == -1
=============================================================================
