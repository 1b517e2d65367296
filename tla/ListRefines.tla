---------------------------- MODULE ListRefines ----------------------------
(* The pointer lists of List implement the queues of Queues.               *)
EXTENDS List

ASSUME ListsAreFinite == IsFiniteSet(Node)

(* The list_heads list_for_each visits from head h, where it stops.        *)
after(h) ==
  LET at[k \in 1 .. Cardinality(Node)] ==
        IF k = 1 THEN heap.next[h]
        ELSE IF at[k - 1] \in {h, NULL} THEN at[k - 1] ELSE heap.next[at[k - 1]]
  IN  at

(* The entries of list h, read as list_for_each does.                      *)
contents(h) ==
  LET at == after(h)
      back == {k \in 1 .. Cardinality(Node) : at[k] = h}
      size == IF back = {} THEN Cardinality(Node)
              ELSE CHOOSE k \in back : \A j \in back : k <= j
  IN  [k \in 1 .. size - 1 |-> at[k]]

Lists == [h \in Head_ |-> contents(h)]

Abstract == INSTANCE Queues WITH queue <- Lists

(* The pointer operations implement queues of distinct entries: adding     *)
(* puts one entry at an end, deleting removes that entry and no other, and *)
(* no list is cut, merged with another or left unreachable.                *)
ImplementsQueues == Abstract!QSpec

(* sys_exit's loop ends, with every child moved out of the list.           *)
LoopEmptiesList ==
  \A h \in Head_ : from = h ~> (~ looping /\ contents(h) = <<>>)
=============================================================================
