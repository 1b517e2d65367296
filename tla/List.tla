-------------------------------- MODULE List --------------------------------
(***************************************************************************)
(* The doubly linked lists of list.c and list.h at the level of pointers.  *)
(* A heap gives the next and prev field of every list_head: the heads of   *)
(* the queues and the anchors embedded in the task_structs.  An operation  *)
(* maps a heap to a heap, writing the fields in the order of the code.     *)
(***************************************************************************)
EXTENDS Naturals, FiniteSets, Sequences

CONSTANTS Head_, Entry, NULL

ASSUME ListAssumption ==
  /\ Head_ \cap Entry = {}
  /\ NULL \notin Head_ \cup Entry

Node == Head_ \cup Entry

VARIABLES heap,          \* [next, prev], functions of the list_heads
          from, to,      \* lists of a running sys_exit loop, or NULL
          pos, n         \* its cursors

vars == <<heap, from, to, pos, n>>

-----------------------------------------------------------------------------
(* INIT_LIST_HEAD on every head; anchors start in zeroed memory.           *)
INIT_LIST_HEAD ==
  [x \in Node |-> IF x \in Head_ THEN x ELSE NULL]

Init ==
  /\ heap = [next |-> INIT_LIST_HEAD, prev |-> INIT_LIST_HEAD]
  /\ from = NULL /\ to = NULL /\ pos = NULL /\ n = NULL

Bug_insert_forgets_back_link(h, new, prev, next) ==
  [next |-> [h.next EXCEPT ![new] = next, ![prev] = new],
   prev |-> [h.prev EXCEPT ![new] = prev]]

(* __list_add(new, prev, next)                                             *)
insert(h, new, prev, next) ==
  [next |-> [h.next EXCEPT ![new] = next, ![prev] = new],
   prev |-> [h.prev EXCEPT ![next] = new, ![new] = prev]]

list_add(h, new, head) == insert(h, new, head, h.next[head])

list_add_tail(h, new, head) == insert(h, new, h.prev[head], head)

Bug_del_keeps_pointers(h, entry) ==
  [next |-> [h.next EXCEPT ![h.prev[entry]] = h.next[entry]],
   prev |-> [h.prev EXCEPT ![h.next[entry]] = h.prev[entry]]]

(* __list_del(entry->prev, entry->next), then both fields become NULL.     *)
list_del(h, entry) ==
  [next |-> [h.next EXCEPT ![h.prev[entry]] = h.next[entry], ![entry] = NULL],
   prev |-> [h.prev EXCEPT ![h.next[entry]] = h.prev[entry], ![entry] = NULL]]

(* The test by which update_process_state_rr tells whether t is queued.    *)
linked(h, t) == ~ (h.next[t] = NULL /\ h.prev[t] = NULL)

update_process_state_rr(h, t, dest) ==
  LET out == IF linked(h, t) THEN list_del(h, t) ELSE h
  IN  IF dest # NULL THEN list_add_tail(out, t, dest) ELSE out

-----------------------------------------------------------------------------
(* The kernel's uses: an entry that is in no list is added, one that is    *)
(* in a list is deleted, and update_process_state_rr takes any.            *)
looping == from # NULL

add(e, head) ==
  /\ ~ looping /\ ~ linked(heap, e)
  /\ heap' = list_add(heap, e, head)
  /\ UNCHANGED <<from, to, pos, n>>

add_tail(e, head) ==
  /\ ~ looping /\ ~ linked(heap, e)
  /\ heap' = list_add_tail(heap, e, head)
  /\ UNCHANGED <<from, to, pos, n>>

del(e) ==
  /\ ~ looping /\ linked(heap, e)
  /\ heap' = list_del(heap, e)
  /\ UNCHANGED <<from, to, pos, n>>

move(t, dest) ==
  /\ ~ looping
  /\ heap' = update_process_state_rr(heap, t, dest)
  /\ UNCHANGED <<from, to, pos, n>>

(* sys_exit's list_for_each_safe loop, which moves every entry of one list *)
(* to the tail of another, one iteration at a time.                        *)
loop_start(h, g) ==
  /\ ~ looping /\ h # g
  /\ from' = h /\ to' = g
  /\ pos' = heap.next[h]
  /\ n' = heap.next[pos']
  /\ UNCHANGED heap

Bug_unsafe_loop ==
  /\ looping /\ pos # from
  /\ heap' = list_add_tail(list_del(heap, pos), pos, to)
  /\ pos' = heap'.next[pos]
  /\ n' = pos'
  /\ UNCHANGED <<from, to>>

loop_step ==
  /\ looping /\ pos # from
  /\ heap' = list_add_tail(list_del(heap, pos), pos, to)
  /\ pos' = n
  /\ n' = heap'.next[n]
  /\ UNCHANGED <<from, to>>

loop_end ==
  /\ looping /\ pos = from
  /\ from' = NULL /\ to' = NULL /\ pos' = NULL /\ n' = NULL
  /\ UNCHANGED heap

Next ==
  \/ \E e \in Entry, h \in Head_ : add(e, h) \/ add_tail(e, h)
  \/ \E e \in Entry : del(e) \/ \E dest \in Head_ \cup {NULL} : move(e, dest)
  \/ \E h, g \in Head_ : loop_start(h, g)
  \/ loop_step
  \/ loop_end

(* A loop that has started runs on: interrupts are disabled.               *)
Spec == Init /\ [][Next]_vars /\ WF_vars(loop_step) /\ WF_vars(loop_end)

-----------------------------------------------------------------------------
(* Properties.                                                             *)

(* In every heap the two directions agree: a list_head has two NULL fields *)
(* and is no list head, or both its neighbours point back at it.  This is  *)
(* what makes update_process_state_rr's NULL test mean "in a queue".       *)
Consistent(h) ==
  \A x \in Node :
    \/ x \notin Head_ /\ h.next[x] = NULL /\ h.prev[x] = NULL
    \/ /\ h.next[x] \in Node /\ h.prev[x] \in Node
       /\ h.prev[h.next[x]] = x /\ h.next[h.prev[x]] = x

(* Lists stay consistent under every operation and inside the exit loop.   *)
LinksAgree == Consistent(heap)

(* The loop's saved cursor is never stale: while sys_exit moves children,  *)
(* what is still in the list is what the cursors have yet to visit.        *)
CursorsLive ==
  looping => pos = heap.next[from] /\ n = heap.next[pos]
=============================================================================
