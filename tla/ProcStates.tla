----------------------------- MODULE ProcStates -----------------------------
(***************************************************************************)
(* What the process manager promises, without queues, quanta or PIDs:      *)
(* every slot is in one state, a step moves at most the slots named here,  *)
(* and the next task to run is any ready one.  state_t in sched.h names    *)
(* RUN, READY and BLOCKED; FREE and IDLE are the slots outside that cycle, *)
(* LOST the slot of a fork that found no frame.                            *)
(***************************************************************************)
EXTENDS Naturals

CONSTANTS Task, idle, nobody

VARIABLES st,      \* state of each slot
          wakes,   \* unblocks each slot may still consume without sleeping
          up       \* parent of each slot

abstractVars == <<st, wakes, up>>

AInit ==
  /\ \E init \in Task \ {idle} :
       st = [t \in Task |-> IF t = idle THEN "IDLE"
                            ELSE IF t = init THEN "RUN" ELSE "FREE"]
  /\ wakes = [t \in Task |-> 0]
  /\ up = [t \in Task |-> nobody]

(* The running process.                                                    *)
Runs(t) == t # idle /\ st[t] = "RUN"

(* t hands the CPU over to a ready task u and goes to state s.             *)
HandOver(t, s, u) == st[u] = "READY" /\ st' = [st EXCEPT ![t] = s, ![u] = "RUN"]

(* t gives up the CPU for good or until woken: a ready task runs next,     *)
(* idle only if there is none.                                             *)
Leave(t, s) ==
  \/ \E u \in Task : HandOver(t, s, u)
  \/ /\ \A u \in Task : st[u] # "READY"
     /\ st' = [st EXCEPT ![t] = s, ![idle] = "RUN"]

Preempt(t, u) == Runs(t) /\ HandOver(t, "READY", u) /\ UNCHANGED <<wakes, up>>

Fork(t, new) ==
  /\ Runs(t) /\ st[new] = "FREE"
  /\ st' = [st EXCEPT ![new] = "READY"]
  /\ wakes' = [wakes EXCEPT ![new] = wakes[t]]
  /\ up' = [up EXCEPT ![new] = t]

ForkFails(t, new) ==
  /\ Runs(t) /\ st[new] = "FREE"
  /\ st' = [st EXCEPT ![new] = "LOST"]
  /\ wakes' = [wakes EXCEPT ![new] = wakes[t]]
  /\ up' = [up EXCEPT ![new] = up[t]]

Exit(t) ==
  /\ Runs(t) /\ Leave(t, "FREE")
  /\ up' = [c \in Task |-> IF up[c] = t /\ st[c] \in {"READY", "BLOCKED"}
                           THEN idle ELSE up[c]]
  /\ UNCHANGED wakes

Sleep(t) == Runs(t) /\ wakes[t] = 0 /\ Leave(t, "BLOCKED") /\ UNCHANGED <<wakes, up>>

Consume(t) ==
  /\ Runs(t) /\ wakes[t] > 0
  /\ wakes' = [wakes EXCEPT ![t] = @ - 1]
  /\ UNCHANGED <<st, up>>

Wake(t, c) ==
  /\ Runs(t) /\ up[c] = t
  /\ \/ /\ st[c] = "BLOCKED" /\ st' = [st EXCEPT ![c] = "READY"]
        /\ UNCHANGED wakes
     \/ /\ st[c] = "READY" /\ wakes' = [wakes EXCEPT ![c] = @ + 1]
        /\ UNCHANGED st
  /\ UNCHANGED up

ANext ==
  \E t \in Task :
    \/ Exit(t) \/ Sleep(t) \/ Consume(t)
    \/ \E c \in Task : \/ Preempt(t, c) \/ Wake(t, c)
                        \/ Fork(t, c) \/ ForkFails(t, c)

ASpec == AInit /\ [][ANext]_abstractVars
=============================================================================
