------------------------------- MODULE Queues -------------------------------
(* What list.c promises: each list head is a queue of entries, and an      *)
(* entry is in one queue at most.                                          *)
EXTENDS Integers, Sequences, Functions

CONSTANTS Head_, Entry

VARIABLE queue

QInit == queue = [h \in Head_ |-> <<>>]

Holder(e) == {h \in Head_ : e \in Range(queue[h])}

Enqueue(e, h) == /\ Holder(e) = {}
                 /\ queue' = [queue EXCEPT ![h] = Append(@, e)]

Push(e, h) == /\ Holder(e) = {}
              /\ queue' = [queue EXCEPT ![h] = <<e>> \o @]

Without(s, i) == SubSeq(s, 1, i - 1) \o SubSeq(s, i + 1, Len(s))

(* The i-th entry of queue h goes away, or to the end of queue g, h itself *)
(* included.                                                               *)
Delete(h, i) == queue' = [queue EXCEPT ![h] = Without(@, i)]

Move(h, i, g) ==
  LET left == [queue EXCEPT ![h] = Without(@, i)]
  IN  queue' = [left EXCEPT ![g] = Append(@, queue[h][i])]

QNext == \E h \in Head_ :
           \/ \E e \in Entry : Enqueue(e, h) \/ Push(e, h)
           \/ \E i \in 1 .. Len(queue[h]) : \/ Delete(h, i)
                                         \/ \E g \in Head_ : Move(h, i, g)

QSpec == QInit /\ [][QNext]_queue
=============================================================================
