--------------------------- MODULE AddressSpaces ---------------------------
(* What fork, exit and paging promise user code: each process has its own  *)
(* data memory, of which fork makes a copy and which nobody else writes.   *)
EXTENDS Integers

CONSTANTS Slot, Data, Value

VARIABLES image,    \* data memory of each process, or NoImage
          running   \* process whose memory is accessed

NoImage == [p \in {} |-> 0]
NoMemory(t) == image[t] = NoImage

SInit == \E t \in Slot :
  /\ image = [s \in Slot |-> IF s = t THEN [p \in Data |-> 0] ELSE NoImage]
  /\ running = t

Write(p, v) == /\ ~ NoMemory(running)
               /\ image' = [image EXCEPT ![running][p] = v]
               /\ UNCHANGED running

Fork(new) == /\ ~ NoMemory(running) /\ NoMemory(new)
             /\ image' = [image EXCEPT ![new] = image[running]]
             /\ UNCHANGED running

Switch(next) == ~ NoMemory(running) /\ running' = next /\ UNCHANGED image

Exit(next) == /\ ~ NoMemory(running)
              /\ image' = [image EXCEPT ![running] = NoImage]
              /\ running' = next

SNext == \/ \E p \in Data, v \in Value : Write(p, v)
         \/ \E t \in Slot : Fork(t) \/ Switch(t) \/ Exit(t)

SSpec == SInit /\ [][SNext]_<<image, running>>
=============================================================================
