----------------------------- MODULE ListProofs -----------------------------
(***************************************************************************)
(* list.c for any number of lists and entries.  Agreement of the links     *)
(* alone is not inductive: two heads could sit in one ring, and sys_exit's *)
(* loop would unlink a head.  The strengthening gives every list_head an   *)
(* owner, the one head of its ring.                                        *)
(*                                                                         *)
(* That the operations implement queues needs more: sequences q, one for   *)
(* each head, whose entries are all different and which the links of the   *)
(* heap thread (QInv).  Inserting and deleting change q by one entry, and  *)
(* list_for_each reads q back from the heap.                               *)
(***************************************************************************)
EXTENDS ListRefines, TLAPS, FiniteSetTheorems, WellFoundedInduction

HeapType == [next : [Node -> Node \cup {NULL}], prev : [Node -> Node \cup {NULL}]]

(* own names the ring each list_head is in.                                *)
Owns(h, own) ==
  /\ \A x \in Head_ : own[x] = x
  /\ \A x \in Node : h.next[x] # NULL => own[h.next[x]] = own[x]

(* A well-formed heap: links agree and no ring holds two heads.            *)
Good(h) ==
  /\ h \in HeapType
  /\ Consistent(h)
  /\ \E own \in [Node -> Node] : Owns(h, own)

IInv ==
  /\ Good(heap)
  /\ looping => from \in Head_ /\ to \in Head_ /\ from # to
  /\ CursorsLive

-----------------------------------------------------------------------------
(* Linking an unlinked entry between two neighbours, in any ring.          *)
LEMMA InsertGood ==
  ASSUME NEW h, Good(h), NEW new \in Entry, ~ linked(h, new),
         NEW prev \in Node, NEW next \in Node,
         h.next[prev] = next, h.prev[next] = prev
  PROVE  /\ Good(insert(h, new, prev, next))
         /\ \A x \in Node \ {prev, new} : insert(h, new, prev, next).next[x] = h.next[x]
<1> DEFINE g == insert(h, new, prev, next)
<1>1. /\ h.next \in [Node -> Node \cup {NULL}]
      /\ h.prev \in [Node -> Node \cup {NULL}]
  BY DEF Good, HeapType
<1>2. /\ new \in Node /\ new \notin Head_ /\ NULL \notin Node
      /\ h.next[new] = NULL /\ h.prev[new] = NULL
      /\ prev # new /\ next # new
  BY ListAssumption DEF linked, Node
<1>3. /\ g.next = [h.next EXCEPT ![new] = next, ![prev] = new]
      /\ g.prev = [h.prev EXCEPT ![next] = new, ![new] = prev]
      /\ g \in HeapType
  BY <1>1, <1>2 DEF insert, HeapType
<1> HIDE DEF g
<1>4. /\ g.next[new] = next /\ g.next[prev] = new
      /\ g.prev[new] = prev /\ g.prev[next] = new
      /\ \A x \in Node \ {prev, new} : g.next[x] = h.next[x]
      /\ \A x \in Node \ {next, new} : g.prev[x] = h.prev[x]
  BY <1>1, <1>2, <1>3
<1>5. Consistent(g)
  <2> SUFFICES ASSUME NEW x \in Node
               PROVE  \/ x \notin Head_ /\ g.next[x] = NULL /\ g.prev[x] = NULL
                      \/ /\ g.next[x] \in Node /\ g.prev[x] \in Node
                         /\ g.prev[g.next[x]] = x /\ g.next[g.prev[x]] = x
    BY DEF Consistent
  <2>1. \/ x \notin Head_ /\ h.next[x] = NULL /\ h.prev[x] = NULL
        \/ /\ h.next[x] \in Node /\ h.prev[x] \in Node
           /\ h.prev[h.next[x]] = x /\ h.next[h.prev[x]] = x
    BY DEF Good, Consistent
  <2> QED  BY <1>2, <1>4, <2>1
<1>6. \E own \in [Node -> Node] : Owns(g, own)
  <2>1. PICK own \in [Node -> Node] : Owns(h, own)
    BY DEF Good
  <2> DEFINE o == [own EXCEPT ![new] = own[prev]]
  <2>2. /\ o \in [Node -> Node] /\ o[new] = own[prev]
        /\ \A x \in Node \ {new} : o[x] = own[x]
    BY <1>2
  <2> HIDE DEF o
  <2>3. own[next] = own[prev]
    BY <1>2, <2>1 DEF Owns
  <2>4. \A x \in Node : h.next[x] # new
    BY <1>2 DEF Good, Consistent
  <2>5. ASSUME NEW x \in Node, g.next[x] # NULL PROVE o[g.next[x]] = o[x]
    <3>1. CASE x = new
      BY <1>2, <1>4, <2>2, <2>3, <3>1, SMTT(30)
    <3>2. CASE x = prev
      BY <1>2, <1>4, <2>2, <3>2
    <3>3. CASE x # new /\ x # prev
      <4>1. h.next[x] \in Node \ {new} /\ g.next[x] = h.next[x]
        BY <1>1, <1>4, <2>4, <2>5, <3>3
      <4> QED  BY <2>1, <2>2, <3>3, <4>1, ListAssumption DEF Owns, Node
    <3> QED  BY <3>1, <3>2, <3>3
  <2>6. \A x \in Head_ : o[x] = x
    BY <1>2, <2>1, <2>2 DEF Owns, Node
  <2> QED  BY <2>2, <2>5, <2>6 DEF Owns
<1> QED  BY <1>3, <1>4, <1>5, <1>6 DEF Good, g

(* list_add and list_add_tail keep a heap well-formed.                     *)
LEMMA AddGood ==
  ASSUME NEW h, Good(h), NEW e \in Entry, ~ linked(h, e), NEW head \in Head_
  PROVE  /\ Good(list_add(h, e, head))
         /\ Good(list_add_tail(h, e, head))
         /\ \A x \in Node \ {h.prev[head], e} :
              list_add_tail(h, e, head).next[x] = h.next[x]
<1>1. /\ head \in Node /\ h.next[head] \in Node /\ h.prev[head] \in Node
      /\ h.prev[h.next[head]] = head /\ h.next[h.prev[head]] = head
  BY DEF Good, Consistent, Node
<1> QED  BY <1>1, InsertGood DEF list_add, list_add_tail

(* list_del keeps a heap well-formed, leaves the entry unlinked and only   *)
(* redirects its two neighbours.                                           *)
LEMMA DelGood ==
  ASSUME NEW h, Good(h), NEW e \in Entry, linked(h, e)
  PROVE  /\ Good(list_del(h, e))
         /\ ~ linked(list_del(h, e), e)
         /\ h.prev[e] # e => list_del(h, e).next[h.prev[e]] = h.next[e]
<1> DEFINE g == list_del(h, e)
           p == h.prev[e]
           s == h.next[e]
<1>1. /\ h.next \in [Node -> Node \cup {NULL}]
      /\ h.prev \in [Node -> Node \cup {NULL}]
  BY DEF Good, HeapType
<1>2. /\ e \in Node /\ e \notin Head_ /\ NULL \notin Node
      /\ p \in Node /\ s \in Node /\ h.prev[s] = e /\ h.next[p] = e
  BY ListAssumption DEF linked, Node, Good, Consistent
<1>3. /\ g.next = [h.next EXCEPT ![p] = s, ![e] = NULL]
      /\ g.prev = [h.prev EXCEPT ![s] = p, ![e] = NULL]
      /\ g \in HeapType
  BY <1>1, <1>2 DEF list_del, HeapType
<1>4. p = e <=> s = e
  BY <1>2
<1> HIDE DEF g
<1>5. /\ g.next[e] = NULL /\ g.prev[e] = NULL
      /\ p # e => g.next[p] = s /\ g.prev[s] = p
      /\ \A x \in Node \ {p, e} : g.next[x] = h.next[x]
      /\ \A x \in Node \ {s, e} : g.prev[x] = h.prev[x]
  BY <1>1, <1>2, <1>3, <1>4, SMTT(30)
<1>6. Consistent(g)
  <2> SUFFICES ASSUME NEW x \in Node, x # e
               PROVE  \/ x \notin Head_ /\ g.next[x] = NULL /\ g.prev[x] = NULL
                      \/ /\ g.next[x] \in Node /\ g.prev[x] \in Node
                         /\ g.prev[g.next[x]] = x /\ g.next[g.prev[x]] = x
    BY <1>2, <1>5 DEF Consistent
  <2>1. \/ x \notin Head_ /\ h.next[x] = NULL /\ h.prev[x] = NULL
        \/ /\ h.next[x] \in Node /\ h.prev[x] \in Node
           /\ h.prev[h.next[x]] = x /\ h.next[h.prev[x]] = x
    BY DEF Good, Consistent
  <2> HIDE DEF p, s
  <2> QED  BY <1>2, <1>4, <1>5, <2>1 DEF p, s
<1>7. \E own \in [Node -> Node] : Owns(g, own)
  <2>1. PICK own \in [Node -> Node] : Owns(h, own)
    BY DEF Good
  <2>2. own[s] = own[e] /\ own[e] = own[p]
    BY <1>2, <2>1 DEF Owns
  <2>3. Owns(g, own)
    BY <1>2, <1>5, <2>1, <2>2 DEF Owns
  <2> QED  BY <2>1, <2>3
<1> QED  BY <1>3, <1>5, <1>6, <1>7, SMTT(30) DEF Good, linked, g

(* update_process_state_rr keeps a heap well-formed, whether or not the    *)
(* task was in a queue.                                                    *)
LEMMA MoveGood ==
  ASSUME NEW h, Good(h), NEW t \in Entry, NEW dest \in Head_ \cup {NULL}
  PROVE  Good(update_process_state_rr(h, t, dest))
<1> DEFINE out == IF linked(h, t) THEN list_del(h, t) ELSE h
<1>1. Good(out) /\ ~ linked(out, t)
  BY DelGood
<1> HIDE DEF out
<1>2. dest # NULL => Good(list_add_tail(out, t, dest))
  BY <1>1, AddGood
<1> QED  BY <1>1, <1>2 DEF update_process_state_rr, out

-----------------------------------------------------------------------------
(* The heap left by INIT_LIST_HEAD is well-formed.                         *)
LEMMA InitIInv == Init => IInv
<1> SUFFICES ASSUME Init PROVE IInv
  OBVIOUS
<1>1. heap \in HeapType
  BY DEF Init, INIT_LIST_HEAD, HeapType, Node
<1>2. Consistent(heap)
  BY ListAssumption DEF Init, INIT_LIST_HEAD, Consistent, Node
<1>3. \E own \in [Node -> Node] : Owns(heap, own)
  <2> DEFINE self == [x \in Node |-> x]
  <2>1. self \in [Node -> Node] /\ Owns(heap, self)
    BY DEF Owns, Init, INIT_LIST_HEAD, Node
  <2> QED  BY <2>1
<1> QED  BY <1>1, <1>2, <1>3 DEF Good, IInv, Init, looping, CursorsLive

(* One iteration of sys_exit's loop: pos is an entry of the list being     *)
(* emptied, and afterwards that list starts at the saved cursor n.         *)
LEMMA LoopStep ==
  ASSUME IInv, loop_step
  PROVE  Good(heap') /\ heap'.next[from] = n
<1>1. /\ Good(heap) /\ from \in Head_ /\ to \in Head_ /\ from # to
      /\ pos = heap.next[from] /\ n = heap.next[pos] /\ pos # from
      /\ heap' = list_add_tail(list_del(heap, pos), pos, to)
  BY DEF IInv, loop_step, CursorsLive
<1>2. PICK own \in [Node -> Node] : Owns(heap, own)
  BY <1>1 DEF Good
<1>3. pos \in Node /\ from \in Node /\ heap.prev[pos] = from /\ heap.next[from] # NULL
  BY <1>1, ListAssumption DEF Good, Consistent, Node
<1>4. own[pos] = from /\ own[from] = from
  BY <1>1, <1>2, <1>3 DEF Owns
<1>5. pos \in Entry
  BY <1>1, <1>2, <1>3, <1>4 DEF Owns, Node
<1>6. linked(heap, pos)
  BY <1>1, <1>3, ListAssumption DEF linked, Node
<1> DEFINE d == list_del(heap, pos)
<1>7. Good(d) /\ ~ linked(d, pos) /\ d.next[from] = n
  BY <1>1, <1>3, <1>5, <1>6, DelGood, SMTT(30)
<1> HIDE DEF d
<1>8. d.prev[to] # from
  <2>1. PICK o \in [Node -> Node] : Owns(d, o)
    BY <1>7 DEF Good
  <2>2. to \in Node /\ d.next[d.prev[to]] = to /\ d.prev[to] \in Node
    BY <1>1, <1>7 DEF Good, Consistent, Node
  <2> QED  BY <1>1, <1>3, <2>1, <2>2, ListAssumption DEF Owns, Node
<1>9. heap' = list_add_tail(d, pos, to)
  BY <1>1 DEF d
<1>10. Good(heap')
  BY <1>1, <1>5, <1>7, <1>9, AddGood, SMTT(30)
<1>11. heap'.next[from] = d.next[from]
  BY <1>1, <1>3, <1>5, <1>7, <1>8, <1>9, AddGood
<1> QED  BY <1>7, <1>10, <1>11

(* Every use of the lists keeps the invariant.                             *)
LEMMA NextIInv == IInv /\ [Next]_vars => IInv'
<1> SUFFICES ASSUME IInv, [Next]_vars PROVE IInv'
  OBVIOUS
<1>1. ASSUME NEW e \in Entry, NEW h \in Head_, add(e, h) \/ add_tail(e, h)
      PROVE  IInv'
  <2>1. Good(heap') /\ ~ looping /\ UNCHANGED from
    BY <1>1, AddGood DEF IInv, add, add_tail
  <2> QED  BY <2>1 DEF IInv, looping, CursorsLive
<1>2. ASSUME NEW e \in Entry, del(e) PROVE IInv'
  <2>1. Good(heap') /\ ~ looping /\ UNCHANGED from
    BY <1>2, DelGood DEF IInv, del
  <2> QED  BY <2>1 DEF IInv, looping, CursorsLive
<1>3. ASSUME NEW e \in Entry, NEW dest \in Head_ \cup {NULL}, move(e, dest)
      PROVE  IInv'
  <2>1. Good(heap') /\ ~ looping /\ UNCHANGED from
    BY <1>3, MoveGood DEF IInv, move
  <2> QED  BY <2>1 DEF IInv, looping, CursorsLive
<1>4. ASSUME NEW h \in Head_, NEW g \in Head_, loop_start(h, g) PROVE IInv'
  BY <1>4 DEF IInv, loop_start, looping, CursorsLive
<1>5. CASE loop_step
  <2>1. Good(heap') /\ heap'.next[from] = n
    BY <1>5, LoopStep
  <2>2. looping /\ UNCHANGED <<from, to>> /\ pos' = n /\ n' = heap'.next[n]
    BY <1>5 DEF loop_step
  <2> QED  BY <2>1, <2>2 DEF IInv, looping, CursorsLive
<1>6. CASE loop_end
  BY <1>6 DEF IInv, loop_end, looping, CursorsLive
<1>7. CASE UNCHANGED vars
  BY <1>7 DEF IInv, vars, looping, CursorsLive
<1> QED  BY <1>1, <1>2, <1>3, <1>4, <1>5, <1>6, <1>7, SMTT(30) DEF Next

(* The links of every list agree after any sequence of list operations and *)
(* at every iteration of sys_exit's loop, for any lists and entries.       *)
THEOREM LinksAgreeHolds == Spec => []LinksAgree
<1>1. IInv => LinksAgree
  BY DEF IInv, Good, LinksAgree
<1> QED  BY <1>1, InitIInv, NextIInv, PTL DEF Spec

(* The cursors of list_for_each_safe are never stale although the body of  *)
(* the loop unlinks the entry they came from.                              *)
THEOREM CursorsLiveHolds == Spec => []CursorsLive
<1>1. IInv => CursorsLive
  BY DEF IInv
<1> QED  BY <1>1, InitIInv, NextIInv, PTL DEF Spec

-----------------------------------------------------------------------------
(* The lists as sequences.  The invariant names the sequence of entries of *)
(* every list; the ring of a list is its head, its entries and its head.   *)

Ring(c, h) == [i \in 0 .. Len(c) + 1 |-> IF i \in 1 .. Len(c) THEN c[i] ELSE h]

(* The links of heap g run along the ring in both directions.              *)
Threads(g, r, l) ==
  \A i \in 0 .. l : g.next[r[i]] = r[i + 1] /\ g.prev[r[i + 1]] = r[i]

(* No entry is in two places.                                              *)
Distinct(q) ==
  \A h1, h2 \in Head_ : \A i \in 1 .. Len(q[h1]), j \in 1 .. Len(q[h2]) :
    q[h1][i] = q[h2][j] => h1 = h2 /\ i = j

(* Entry e is in no list.                                                  *)
InNone(q, e) == \A h \in Head_ : \A i \in 1 .. Len(q[h]) : q[h][i] # e

(* The heap g holds the lists q, and nothing else is linked.               *)
Chains(g, q) ==
  /\ g \in HeapType
  /\ q \in [Head_ -> Seq(Entry)]
  /\ \A h \in Head_ : Threads(g, Ring(q[h], h), Len(q[h]))
  /\ Distinct(q)
  /\ \A e \in Entry : InNone(q, e) => g.next[e] = NULL /\ g.prev[e] = NULL

QInv == \E g, q : g = heap /\ Chains(g, q)

(* A ring goes through the head and its entries, each once, and no other   *)
(* ring meets it.                                                          *)
LEMMA Rings ==
  ASSUME NEW q \in [Head_ -> Seq(Entry)], Distinct(q),
         NEW h \in Head_, NEW l, l = Len(q[h]), NEW r, r = Ring(q[h], h)
  PROVE  /\ l \in Nat /\ r[0] = h /\ r[l + 1] = h
         /\ \A i \in 1 .. l : r[i] = q[h][i] /\ r[i] \in Entry
         /\ \A i \in 0 .. l + 1 : r[i] \in Node
         /\ \A i, j \in 0 .. l : r[i] = r[j] => i = j
         /\ \A i, j \in 1 .. l + 1 : r[i] = r[j] => i = j
<1>1. q[h] \in Seq(Entry) /\ l \in Nat
  OBVIOUS
<1>2. /\ r[0] = h /\ r[l + 1] = h
      /\ \A i \in 1 .. l : r[i] = q[h][i] /\ r[i] \in Entry
  <2>1. \A i \in 1 .. l : q[h][i] \in Entry
    BY <1>1
  <2> QED  BY <1>1, <2>1 DEF Ring
<1>3. \A i, j \in 1 .. l : r[i] = r[j] => i = j
  BY <1>2 DEF Distinct
<1>4. \A i \in 1 .. l : r[i] # h
  BY <1>2, ListAssumption
<1>5. \A i \in 0 .. l + 1 : i = 0 \/ i \in 1 .. l \/ i = l + 1
  BY <1>1
<1>6. \A i \in 0 .. l + 1 : r[i] \in Node
  BY <1>2, <1>5 DEF Node
<1>7. \A i, j \in 0 .. l : r[i] = r[j] => i = j
  <2> TAKE i, j \in 0 .. l
  <2>1. (i = 0 \/ i \in 1 .. l) /\ (j = 0 \/ j \in 1 .. l)
    BY <1>1
  <2> QED  BY <1>2, <1>3, <1>4, <2>1
<1>8. \A i, j \in 1 .. l + 1 : r[i] = r[j] => i = j
  <2> TAKE i, j \in 1 .. l + 1
  <2>1. (i = l + 1 \/ i \in 1 .. l) /\ (j = l + 1 \/ j \in 1 .. l)
    BY <1>1
  <2> QED  BY <1>2, <1>3, <1>4, <2>1
<1> QED  BY <1>1, <1>2, <1>6, <1>7, <1>8, SMTT(30)

(* Two rings have nothing in common.                                       *)
LEMMA Apart ==
  ASSUME NEW q \in [Head_ -> Seq(Entry)], Distinct(q),
         NEW h \in Head_, NEW k \in Head_, h # k,
         NEW i \in 0 .. Len(q[h]) + 1, NEW j \in 0 .. Len(q[k]) + 1
  PROVE  Ring(q[h], h)[i] # Ring(q[k], k)[j]
<1>1. PICK l, r : l = Len(q[h]) /\ r = Ring(q[h], h)
  OBVIOUS
<1>2. PICK m, s : m = Len(q[k]) /\ s = Ring(q[k], k)
  OBVIOUS
<1>3. /\ l \in Nat /\ r[0] = h /\ r[l + 1] = h
      /\ \A x \in 1 .. l : r[x] = q[h][x] /\ r[x] \in Entry
  BY <1>1, Rings
<1>4. /\ m \in Nat /\ s[0] = k /\ s[m + 1] = k
      /\ \A x \in 1 .. m : s[x] = q[k][x] /\ s[x] \in Entry
  BY <1>2, Rings
<1>5. r[i] = h \/ (i \in 1 .. l /\ r[i] = q[h][i] /\ r[i] \in Entry)
  BY <1>1, <1>3
<1>6. s[j] = k \/ (j \in 1 .. m /\ s[j] = q[k][j] /\ s[j] \in Entry)
  BY <1>2, <1>4
<1>7. r[i] # s[j]
  BY <1>1, <1>2, <1>5, <1>6, ListAssumption, SMTT(30) DEF Distinct
<1> QED  BY <1>1, <1>2, <1>7

(* What Chains says of one list.                                           *)
Along(g, c, h, l, r) ==
  /\ l = Len(c) /\ r = Ring(c, h)
  /\ l \in Nat /\ r[0] = h /\ r[l + 1] = h
  /\ \A i \in 1 .. l : r[i] = c[i] /\ r[i] \in Entry
  /\ \A i \in 0 .. l + 1 : r[i] \in Node
  /\ \A i, j \in 0 .. l : r[i] = r[j] => i = j
  /\ \A i, j \in 1 .. l + 1 : r[i] = r[j] => i = j
  /\ \A i \in 0 .. l : g.next[r[i]] = r[i + 1] /\ g.prev[r[i + 1]] = r[i]

(* Each list of a heap that holds q lies along its ring.                   *)
LEMMA OneChain ==
  ASSUME NEW g, NEW q, Chains(g, q), NEW h \in Head_
  PROVE  \E l, r : Along(g, q[h], h, l, r)
<1>0. PICK l, r : l = Len(q[h]) /\ r = Ring(q[h], h)
  BY Zenon
<1>1. q \in [Head_ -> Seq(Entry)] /\ Distinct(q)
  BY DEF Chains
<1>2. \A i \in 0 .. l : g.next[r[i]] = r[i + 1] /\ g.prev[r[i + 1]] = r[i]
  BY <1>0 DEF Chains, Threads
<1>3. /\ l \in Nat /\ r[0] = h /\ r[l + 1] = h
      /\ \A i \in 1 .. l : r[i] = q[h][i] /\ r[i] \in Entry
      /\ \A i \in 0 .. l + 1 : r[i] \in Node
      /\ \A i, j \in 0 .. l : r[i] = r[j] => i = j
      /\ \A i, j \in 1 .. l + 1 : r[i] = r[j] => i = j
  BY <1>0, <1>1, Rings
<1>4. Along(g, q[h], h, l, r)
  BY <1>0, <1>2, <1>3 DEF Along
<1> QED  BY <1>4

(* An entry in no list is on no ring.                                      *)
LEMMA OffRings ==
  ASSUME NEW q \in [Head_ -> Seq(Entry)], Distinct(q), NEW e \in Entry, InNone(q, e),
         NEW h \in Head_, NEW i \in 0 .. Len(q[h]) + 1
  PROVE  Ring(q[h], h)[i] # e
<1>1. PICK l, r : l = Len(q[h]) /\ r = Ring(q[h], h)
  OBVIOUS
<1>2. /\ l \in Nat /\ r[0] = h /\ r[l + 1] = h
      /\ \A x \in 1 .. l : r[x] = q[h][x]
  BY <1>1, Rings
<1>3. r[i] = h \/ (i \in 1 .. l /\ r[i] = q[h][i])
  BY <1>1, <1>2
<1>4. r[i] # e
  BY <1>1, <1>3, ListAssumption DEF InNone
<1> QED  BY <1>1, <1>4

(* list_add and list_add_tail: an entry in no list becomes the one after   *)
(* the first k of a list.                                                  *)
LEMMA InsertChains ==
  ASSUME NEW g, NEW q, Chains(g, q), NEW e \in Entry, InNone(q, e),
         NEW h \in Head_, NEW k \in 0 .. Len(q[h]),
         NEW prev, prev = Ring(q[h], h)[k], NEW next, next = Ring(q[h], h)[k + 1],
         NEW c \in Seq(Entry), Len(c) = Len(q[h]) + 1,
         \A i \in 1 .. Len(c) : c[i] = IF i <= k THEN q[h][i]
                                       ELSE IF i = k + 1 THEN e ELSE q[h][i - 1]
  PROVE  Chains(insert(g, e, prev, next), [q EXCEPT ![h] = c])
<1>0. PICK l, r : Along(g, q[h], h, l, r)
  BY OneChain
<1>1. l = Len(q[h]) /\ r = Ring(q[h], h)
  BY <1>0 DEF Along
<1>2. /\ l \in Nat /\ r[0] = h /\ r[l + 1] = h
      /\ \A i \in 1 .. l : r[i] = q[h][i] /\ r[i] \in Entry
      /\ \A i \in 0 .. l + 1 : r[i] \in Node
      /\ \A i, j \in 0 .. l : r[i] = r[j] => i = j
      /\ \A i, j \in 1 .. l + 1 : r[i] = r[j] => i = j
      /\ \A i \in 0 .. l : g.next[r[i]] = r[i + 1] /\ g.prev[r[i + 1]] = r[i]
  BY <1>0 DEF Along
<1>3. /\ g \in HeapType /\ q \in [Head_ -> Seq(Entry)] /\ Distinct(q)
      /\ \A h1 \in Head_ : Threads(g, Ring(q[h1], h1), Len(q[h1]))
      /\ \A x \in Entry : InNone(q, x) => g.next[x] = NULL /\ g.prev[x] = NULL
  BY DEF Chains
<1>4. PICK p : p = [q EXCEPT ![h] = c]
  BY Zenon
<1>5. /\ p \in [Head_ -> Seq(Entry)] /\ p[h] = c
      /\ \A x \in Head_ : x # h => p[x] = q[x]
  BY <1>3, <1>4
<1>6. k \in 0 .. l /\ prev = r[k] /\ next = r[k + 1] /\ Len(c) = l + 1
  BY <1>1
<1>7. \A i \in 0 .. l + 1 : r[i] # e
  <2>1. \A i \in 0 .. Len(q[h]) + 1 : Ring(q[h], h)[i] # e
    BY <1>3, OffRings, Zenon
  <2> QED  BY <1>1, <2>1, Zenon
<1>8. prev \in Node /\ next \in Node /\ e \in Node /\ prev # e /\ next # e
  BY <1>2, <1>6, <1>7 DEF Node
<1>9. PICK f : f = insert(g, e, prev, next)
  OBVIOUS
<1>10. /\ f \in HeapType
       /\ f.next[e] = next /\ f.next[prev] = e /\ f.prev[e] = prev /\ f.prev[next] = e
       /\ \A x \in Node \ {prev, e} : f.next[x] = g.next[x]
       /\ \A x \in Node \ {next, e} : f.prev[x] = g.prev[x]
  <2>1. /\ g.next \in [Node -> Node \cup {NULL}] /\ g.prev \in [Node -> Node \cup {NULL}]
    BY <1>3, SMTT(30) DEF HeapType
  <2>2. /\ f.next = [g.next EXCEPT ![e] = next, ![prev] = e]
        /\ f.prev = [g.prev EXCEPT ![next] = e, ![e] = prev]
        /\ f \in HeapType
    BY <1>8, <1>9, <2>1, Zenon DEF insert, HeapType
  <2> QED  BY <1>8, <2>1, <2>2, SMTT(30)
<1>11. PICK s : s = Ring(c, h)
  OBVIOUS
<1>12. \A i \in 0 .. l + 2 : s[i] = IF i <= k THEN r[i]
                                    ELSE IF i = k + 1 THEN e ELSE r[i - 1]
  <2> TAKE i \in 0 .. l + 2
  <2>1. s[i] = IF i \in 1 .. l + 1 THEN c[i] ELSE h
    BY <1>2, <1>6, <1>11 DEF Ring
  <2>2. i = 0 \/ i = l + 2 \/ i \in 1 .. l + 1
    BY <1>2
  <2>3. CASE i \in 1 .. l + 1
    <3>1. c[i] = IF i <= k THEN q[h][i] ELSE IF i = k + 1 THEN e ELSE q[h][i - 1]
      BY <1>6, <2>3
    <3>2. i <= k => r[i] = q[h][i]
      BY <1>2, <1>6, <2>3, SMTT(30)
    <3>3. i > k + 1 => r[i - 1] = q[h][i - 1]
      BY <1>2, <1>6, <2>3, SMTT(30)
    <3> QED  BY <1>2, <1>6, <2>1, <2>3, <3>1, <3>2, <3>3, SMTT(30)
  <2> QED  BY <1>2, <1>6, <2>1, <2>2, <2>3
<1>13. Threads(f, s, l + 1)
  <2> SUFFICES ASSUME NEW i \in 0 .. l + 1
               PROVE  f.next[s[i]] = s[i + 1] /\ f.prev[s[i + 1]] = s[i]
    BY SMTT(30) DEF Threads
  <2>1. CASE i < k
    <3>1. s[i] = r[i] /\ s[i + 1] = r[i + 1]
      <4>1. i \in 0 .. l + 2 /\ i + 1 \in 0 .. l + 2 /\ i <= k /\ i + 1 <= k
        BY <1>2, <1>6, <2>1
      <4> QED  BY <1>12, <4>1, SMTT(30)
    <3>2. r[i] \in Node \ {prev, e} /\ r[i + 1] \in Node \ {next, e}
      BY <1>2, <1>6, <1>7, <2>1, SMTT(30)
    <3> QED  BY <1>2, <1>6, <1>10, <2>1, <3>1, <3>2, SMTT(30)
  <2>2. CASE i = k
    <3>1. s[i] = prev /\ s[i + 1] = e
      BY <1>2, <1>6, <1>12, <2>2, SMTT(30)
    <3> QED  BY <1>10, <3>1, SMTT(30)
  <2>3. CASE i = k + 1
    <3>1. s[i] = e /\ s[i + 1] = next
      BY <1>2, <1>6, <1>12, <2>3, SMTT(30)
    <3> QED  BY <1>10, <3>1
  <2>4. CASE i > k + 1
    <3>1. s[i] = r[i - 1] /\ s[i + 1] = r[i]
      BY <1>2, <1>6, <1>12, <2>4, SMTT(30)
    <3>2. r[i - 1] \in Node \ {prev, e} /\ r[i] \in Node \ {next, e}
      BY <1>2, <1>6, <1>7, <2>4, SMTT(30)
    <3>3. g.next[r[i - 1]] = r[i] /\ g.prev[r[i]] = r[i - 1]
      <4>1. i - 1 \in 0 .. l /\ (i - 1) + 1 = i
        BY <1>2, <1>6, <2>4
      <4> QED  BY <1>2, <4>1
    <3> QED  BY <1>10, <3>1, <3>2, <3>3, SMTT(30)
  <2> QED  BY <1>6, <2>1, <2>2, <2>3, <2>4, SMTT(30)
<1>14. ASSUME NEW x \in Head_
       PROVE  Threads(f, Ring(p[x], x), Len(p[x]))
  <2>1. CASE x = h
    BY <1>5, <1>6, <1>11, <1>13, <2>1, SMTT(30)
  <2>2. CASE x # h
    <3>0. PICK m, t : Along(g, q[x], x, m, t)
      BY OneChain
    <3>1. m = Len(q[x]) /\ t = Ring(q[x], x)
      BY <3>0, SMTT(30) DEF Along
    <3>2. /\ m \in Nat
          /\ \A i \in 0 .. m + 1 : t[i] \in Node
          /\ \A i \in 0 .. m : g.next[t[i]] = t[i + 1] /\ g.prev[t[i + 1]] = t[i]
      BY <3>0 DEF Along
    <3>3. \A i \in 0 .. m + 1 : t[i] # e
      BY <1>3, <3>1, OffRings
    <3>4. \A i \in 0 .. m + 1 : \A j \in 0 .. l + 1 : t[i] # r[j]
      <4> SUFFICES ASSUME NEW i \in 0 .. Len(q[x]) + 1, NEW j \in 0 .. Len(q[h]) + 1
                   PROVE  Ring(q[x], x)[i] # Ring(q[h], h)[j]
        BY <1>1, <3>1
      <4> QED  BY <1>3, <2>2, Apart, Zenon
    <3>5. \A i \in 0 .. m + 1 : t[i] # prev /\ t[i] # next
      BY <1>2, <1>6, <3>4, SMTT(30)
    <3>6. \A i \in 0 .. m : i \in 0 .. m + 1 /\ i + 1 \in 0 .. m + 1
      BY <3>2, SMTT(30)
    <3>7. \A i \in 0 .. m + 1 : f.next[t[i]] = g.next[t[i]] /\ f.prev[t[i]] = g.prev[t[i]]
      BY <1>10, <3>2, <3>3, <3>5
    <3>8. Threads(f, t, m)
      BY <3>2, <3>6, <3>7, Zenon DEF Threads
    <3> QED  BY <1>5, <2>2, <3>1, <3>8, SMTT(30)
  <2> QED  BY <2>1, <2>2
<1>15. Distinct(p)
  <2> SUFFICES ASSUME NEW h1 \in Head_, NEW h2 \in Head_,
                      NEW i \in 1 .. Len(p[h1]), NEW j \in 1 .. Len(p[h2]),
                      p[h1][i] = p[h2][j]
               PROVE  h1 = h2 /\ i = j
    BY DEF Distinct
  <2>1. ASSUME NEW x \in Head_, NEW y \in 1 .. Len(p[x])
        PROVE  \/ x = h /\ y = k + 1 /\ p[x][y] = e
               \/ \E z \in 1 .. Len(q[x]) :
                    /\ p[x][y] = q[x][z]
                    /\ z = IF x = h /\ y > k + 1 THEN y - 1 ELSE y
                    /\ ~ (x = h /\ y = k + 1)
    <3>1. CASE x # h
      BY <1>5, <2>1, <3>1, SMTT(30)
    <3>2. CASE x = h
      <4>1. p[x] = c /\ y \in 1 .. l + 1
        BY <1>5, <1>6, <2>1, <3>2, SMTT(30)
      <4>2. c[y] = IF y <= k THEN q[h][y] ELSE IF y = k + 1 THEN e ELSE q[h][y - 1]
        BY <1>6, <4>1, SMTT(30)
      <4>3. CASE y <= k
        BY <1>1, <1>2, <1>6, <3>2, <4>1, <4>2, <4>3, SMTT(30)
      <4>4. CASE y = k + 1
        BY <1>6, <3>2, <4>1, <4>2, <4>4
      <4>5. CASE y > k + 1
        <5>1. y - 1 \in 1 .. Len(q[x])
          BY <1>1, <1>2, <1>6, <3>2, <4>1, <4>5, SMTT(30)
        <5> QED  BY <1>6, <3>2, <4>1, <4>2, <4>5, <5>1, SMTT(30)
      <4> QED  BY <1>6, <4>1, <4>3, <4>4, <4>5, SMTT(30)
    <3> QED  BY <3>1, <3>2, SMTT(30)
  <2>2. \A x \in Head_ : \A z \in 1 .. Len(q[x]) : q[x][z] # e
    BY DEF InNone
  <2>3. \/ h1 = h /\ i = k + 1 /\ p[h1][i] = e
        \/ \E z \in 1 .. Len(q[h1]) :
             /\ p[h1][i] = q[h1][z]
             /\ z = IF h1 = h /\ i > k + 1 THEN i - 1 ELSE i
             /\ ~ (h1 = h /\ i = k + 1)
    BY <2>1
  <2>4. \/ h2 = h /\ j = k + 1 /\ p[h2][j] = e
        \/ \E z \in 1 .. Len(q[h2]) :
             /\ p[h2][j] = q[h2][z]
             /\ z = IF h2 = h /\ j > k + 1 THEN j - 1 ELSE j
             /\ ~ (h2 = h /\ j = k + 1)
    BY <2>1
  <2>5. i \in Nat /\ j \in Nat
    OBVIOUS
  <2>6. CASE p[h1][i] = e
    BY <2>2, <2>3, <2>4, <2>6, SMTT(30)
  <2>7. CASE p[h1][i] # e
    <3>1. PICK y \in 1 .. Len(q[h1]) :
             /\ p[h1][i] = q[h1][y]
             /\ y = IF h1 = h /\ i > k + 1 THEN i - 1 ELSE i
             /\ ~ (h1 = h /\ i = k + 1)
      BY <2>3, <2>7, SMTT(30)
    <3>2. PICK z \in 1 .. Len(q[h2]) :
             /\ p[h2][j] = q[h2][z]
             /\ z = IF h2 = h /\ j > k + 1 THEN j - 1 ELSE j
             /\ ~ (h2 = h /\ j = k + 1)
      BY <2>4, <2>7, SMTT(30)
    <3>3. h1 = h2 /\ y = z
      <4>1. q[h1][y] = q[h2][z]
        BY <3>1, <3>2, Zenon
      <4> QED  BY <1>3, <4>1, SMTT(30) DEF Distinct
    <3> QED  BY <1>6, <2>5, <3>1, <3>2, <3>3, SMTT(30)
  <2> QED  BY <2>6, <2>7
<1>16. ASSUME NEW x \in Entry, InNone(p, x)
       PROVE  f.next[x] = NULL /\ f.prev[x] = NULL
  <2>1. x # e
    <3>1. k + 1 \in 1 .. Len(p[h]) /\ p[h][k + 1] = e
      <4>1. k + 1 \in 1 .. Len(c) /\ ~ (k + 1 <= k)
        BY <1>2, <1>6
      <4> QED  BY <1>5, <4>1, SMTT(30)
    <3> QED  BY <1>16, <3>1 DEF InNone
  <2>2. InNone(q, x)
    <3> SUFFICES ASSUME NEW y \in Head_, NEW i \in 1 .. Len(q[y]), q[y][i] = x
                 PROVE  FALSE
      BY DEF InNone
    <3>1. CASE y # h
      BY <1>5, <1>16, <3>1 DEF InNone
    <3>2. CASE y = h
      <4>1. PICK j \in 1 .. l + 1 : j = IF i <= k THEN i ELSE i + 1
        BY <1>1, <1>2, <1>6, <3>2, SMTT(30)
      <4>2. c[j] = q[h][i]
        BY <1>1, <1>2, <1>6, <3>2, <4>1, SMTT(30)
      <4>3. p[h] = c /\ j \in 1 .. Len(c)
        BY <1>5, <1>6
      <4> QED  BY <1>16, <3>2, <4>2, <4>3, SMTT(30) DEF InNone
    <3> QED  BY <3>1, <3>2
  <2>3. \A i \in 0 .. l + 1 : r[i] # x
    BY <1>1, <1>3, <2>2, OffRings, SMTT(30)
  <2>4. x \in Node \ {prev, next, e}
    BY <1>2, <1>6, <2>1, <2>3, SMTT(30) DEF Node
  <2> QED  BY <1>3, <1>10, <2>2, <2>4
<1>17. Chains(f, p)
  BY <1>5, <1>10, <1>14, <1>15, <1>16, SMTT(30) DEF Chains
<1> QED  BY <1>4, <1>9, <1>17

(* list_del: the k-th entry of a list leaves it, and is in no list then.   *)
LEMMA DeleteChains ==
  ASSUME NEW g, NEW q, Chains(g, q),
         NEW h \in Head_, NEW k \in 1 .. Len(q[h]), NEW e, e = q[h][k],
         NEW c \in Seq(Entry), Len(c) = Len(q[h]) - 1,
         \A i \in 1 .. Len(c) : c[i] = IF i < k THEN q[h][i] ELSE q[h][i + 1]
  PROVE  /\ Chains(list_del(g, e), [q EXCEPT ![h] = c])
         /\ InNone([q EXCEPT ![h] = c], e)
<1>0. PICK l, r : Along(g, q[h], h, l, r)
  BY OneChain
<1>1. l = Len(q[h]) /\ r = Ring(q[h], h)
  BY <1>0, SMTT(30) DEF Along
<1>2. /\ l \in Nat /\ r[0] = h /\ r[l + 1] = h
      /\ \A i \in 1 .. l : r[i] = q[h][i] /\ r[i] \in Entry
      /\ \A i \in 0 .. l + 1 : r[i] \in Node
      /\ \A i, j \in 0 .. l : r[i] = r[j] => i = j
      /\ \A i, j \in 1 .. l + 1 : r[i] = r[j] => i = j
      /\ \A i \in 0 .. l : g.next[r[i]] = r[i + 1] /\ g.prev[r[i + 1]] = r[i]
  BY <1>0 DEF Along
<1>3. /\ g \in HeapType /\ q \in [Head_ -> Seq(Entry)] /\ Distinct(q)
      /\ \A h1 \in Head_ : Threads(g, Ring(q[h1], h1), Len(q[h1]))
      /\ \A x \in Entry : InNone(q, x) => g.next[x] = NULL /\ g.prev[x] = NULL
  BY DEF Chains
<1>4. PICK p : p = [q EXCEPT ![h] = c]
  BY Zenon
<1>5. /\ p \in [Head_ -> Seq(Entry)] /\ p[h] = c
      /\ \A x \in Head_ : x # h => p[x] = q[x]
  BY <1>3, <1>4
<1>6. k \in 1 .. l /\ Len(c) = l - 1 /\ e = r[k] /\ e \in Entry
  BY <1>1, <1>2
<1>7. PICK prev, next : prev = r[k - 1] /\ next = r[k + 1]
  OBVIOUS
<1>8. /\ g.prev[e] = prev /\ g.next[e] = next
      /\ prev \in Node /\ next \in Node /\ e \in Node /\ prev # e /\ next # e
  <2>1. k - 1 \in 0 .. l /\ k \in 0 .. l /\ k + 1 \in 1 .. l + 1 /\ (k - 1) + 1 = k
    BY <1>2, <1>6
  <2>2. g.next[r[k]] = r[k + 1] /\ g.prev[r[k]] = r[k - 1]
    BY <1>2, <2>1
  <2>3. r[k - 1] # r[k] /\ r[k + 1] # r[k]
    <3>1. k - 1 # k /\ k + 1 # k /\ k \in 1 .. l + 1
      BY <1>2, <1>6
    <3> QED  BY <1>2, <2>1, <3>1, SMTT(30)
  <2>4. r[k - 1] \in Node /\ r[k] \in Node /\ r[k + 1] \in Node
    BY <1>2, <1>6
  <2> QED  BY <1>6, <1>7, <2>2, <2>3, <2>4, SMTT(30)
<1>9. PICK f : f = list_del(g, e)
  OBVIOUS
<1>10. /\ f \in HeapType
       /\ f.next[e] = NULL /\ f.prev[e] = NULL /\ f.next[prev] = next /\ f.prev[next] = prev
       /\ \A x \in Node \ {prev, e} : f.next[x] = g.next[x]
       /\ \A x \in Node \ {next, e} : f.prev[x] = g.prev[x]
  <2>1. /\ g.next \in [Node -> Node \cup {NULL}] /\ g.prev \in [Node -> Node \cup {NULL}]
    BY <1>3 DEF HeapType
  <2>2. /\ f.next = [g.next EXCEPT ![prev] = next, ![e] = NULL]
        /\ f.prev = [g.prev EXCEPT ![next] = prev, ![e] = NULL]
        /\ f \in HeapType
    BY <1>8, <1>9, <2>1, Zenon DEF list_del, HeapType
  <2> QED  BY <1>8, <2>1, <2>2, SMTT(30)
<1>11. PICK s : s = Ring(c, h)
  OBVIOUS
<1>12. \A i \in 0 .. l : s[i] = IF i < k THEN r[i] ELSE r[i + 1]
  <2> TAKE i \in 0 .. l
  <2>1. s[i] = IF i \in 1 .. l - 1 THEN c[i] ELSE h
    BY <1>2, <1>6, <1>11, SMTT(30) DEF Ring
  <2>2. i = 0 \/ i = l \/ i \in 1 .. l - 1
    BY <1>2
  <2>3. CASE i \in 1 .. l - 1
    <3>1. c[i] = IF i < k THEN q[h][i] ELSE q[h][i + 1]
      BY <1>6, <2>3
    <3>2. r[i] = q[h][i] /\ r[i + 1] = q[h][i + 1]
      BY <1>2, <1>6, <2>3, SMTT(30)
    <3> QED  BY <2>1, <2>3, <3>1, <3>2
  <2> QED  BY <1>2, <1>6, <2>1, <2>2, <2>3, SMTT(30)
<1>13. Threads(f, s, l - 1)
  <2> SUFFICES ASSUME NEW i \in 0 .. l - 1
               PROVE  f.next[s[i]] = s[i + 1] /\ f.prev[s[i + 1]] = s[i]
    BY DEF Threads
  <2>0. i \in Int /\ k \in Int /\ l \in Int /\ 0 <= i /\ i <= l - 1 /\ 1 <= k /\ k <= l
    BY <1>2, <1>6
  <2>1. CASE i < k - 1
    <3>1. s[i] = r[i] /\ s[i + 1] = r[i + 1]
      <4>1. i \in 0 .. l /\ i + 1 \in 0 .. l /\ i < k /\ i + 1 < k
        BY <2>0, <2>1
      <4> QED  BY <1>12, <4>1
    <3>2. r[i] \in Node \ {prev, e} /\ r[i + 1] \in Node \ {next, e}
      <4>1. /\ i \in 0 .. l /\ k - 1 \in 0 .. l /\ k \in 0 .. l /\ i # k - 1 /\ i # k
            /\ i + 1 \in 1 .. l + 1 /\ k \in 1 .. l + 1 /\ k + 1 \in 1 .. l + 1
            /\ i + 1 # k /\ i + 1 # k + 1 /\ i + 1 \in 0 .. l + 1 /\ i \in 0 .. l + 1
        BY <2>0, <2>1
      <4> QED  BY <1>2, <1>6, <1>7, <4>1, SMTT(30)
    <3>3. g.next[r[i]] = r[i + 1] /\ g.prev[r[i + 1]] = r[i]
      <4>1. i \in 0 .. l
        BY <2>0
      <4> QED  BY <1>2, <4>1
    <3> QED  BY <1>10, <3>1, <3>2, <3>3
  <2>2. CASE i = k - 1
    <3>1. s[i] = prev /\ s[i + 1] = next
      <4>1. /\ i \in 0 .. l /\ i + 1 \in 0 .. l /\ i < k /\ ~ (i + 1 < k)
            /\ i + 1 = k
        BY <2>0, <2>2
      <4> QED  BY <1>7, <1>12, <2>2, <4>1
    <3> QED  BY <1>10, <3>1
  <2>3. CASE i > k - 1
    <3>1. s[i] = r[i + 1] /\ s[i + 1] = r[i + 2]
      <4>1. /\ i \in 0 .. l /\ i + 1 \in 0 .. l /\ ~ (i < k) /\ ~ (i + 1 < k)
            /\ (i + 1) + 1 = i + 2
        BY <2>0, <2>3
      <4> QED  BY <1>12, <4>1
    <3>2. r[i + 1] \in Node \ {prev, e} /\ r[i + 2] \in Node \ {next, e}
      <4>1. /\ i + 1 \in 0 .. l /\ k - 1 \in 0 .. l /\ k \in 0 .. l /\ i + 1 # k - 1 /\ i + 1 # k
            /\ i + 2 \in 1 .. l + 1 /\ k \in 1 .. l + 1 /\ k + 1 \in 1 .. l + 1
            /\ i + 2 # k /\ i + 2 # k + 1 /\ i + 1 \in 0 .. l + 1 /\ i + 2 \in 0 .. l + 1
        BY <2>0, <2>3
      <4> QED  BY <1>2, <1>6, <1>7, <4>1, SMTT(30)
    <3>3. g.next[r[i + 1]] = r[i + 2] /\ g.prev[r[i + 2]] = r[i + 1]
      <4>1. i + 1 \in 0 .. l /\ (i + 1) + 1 = i + 2
        BY <2>0
      <4> QED  BY <1>2, <4>1, SMTT(30)
    <3> QED  BY <1>10, <3>1, <3>2, <3>3
  <2> QED  BY <2>0, <2>1, <2>2, <2>3
<1>14. ASSUME NEW x \in Head_
       PROVE  Threads(f, Ring(p[x], x), Len(p[x]))
  <2>1. CASE x = h
    BY <1>5, <1>6, <1>11, <1>13, <2>1, SMTT(30)
  <2>2. CASE x # h
    <3>0. PICK m, t : Along(g, q[x], x, m, t)
      BY OneChain
    <3>1. m = Len(q[x]) /\ t = Ring(q[x], x)
      BY <3>0, SMTT(30) DEF Along
    <3>2. /\ m \in Nat
          /\ \A i \in 0 .. m + 1 : t[i] \in Node
          /\ \A i \in 0 .. m : g.next[t[i]] = t[i + 1] /\ g.prev[t[i + 1]] = t[i]
      BY <3>0, SMTT(30) DEF Along
    <3>4. \A i \in 0 .. m + 1 : \A j \in 0 .. l + 1 : t[i] # r[j]
      <4> SUFFICES ASSUME NEW i \in 0 .. Len(q[x]) + 1, NEW j \in 0 .. Len(q[h]) + 1
                   PROVE  Ring(q[x], x)[i] # Ring(q[h], h)[j]
        BY <1>1, <3>1
      <4> QED  BY <1>3, <2>2, Apart
    <3>5. \A i \in 0 .. m + 1 : t[i] # prev /\ t[i] # next /\ t[i] # e
      <4>1. k - 1 \in 0 .. l + 1 /\ k \in 0 .. l + 1 /\ k + 1 \in 0 .. l + 1
        BY <1>2, <1>6
      <4> QED  BY <1>6, <1>7, <3>4, <4>1, SMTT(30)
    <3>6. \A i \in 0 .. m : i \in 0 .. m + 1 /\ i + 1 \in 0 .. m + 1
      BY <3>2
    <3>7. \A i \in 0 .. m + 1 : f.next[t[i]] = g.next[t[i]] /\ f.prev[t[i]] = g.prev[t[i]]
      BY <1>10, <3>2, <3>5, SMTT(30)
    <3>8. Threads(f, t, m)
      BY <3>2, <3>6, <3>7, SMTT(30) DEF Threads
    <3> QED  BY <1>5, <2>2, <3>1, <3>8, SMTT(30)
  <2> QED  BY <2>1, <2>2
<1>15. ASSUME NEW x \in Head_, NEW y \in 1 .. Len(p[x])
       PROVE  \E z \in 1 .. Len(q[x]) :
                /\ p[x][y] = q[x][z]
                /\ z = IF x = h /\ y >= k THEN y + 1 ELSE y
                /\ ~ (x = h /\ z = k)
  <2>1. CASE x # h
    BY <1>5, <1>15, <2>1, SMTT(30)
  <2>2. CASE x = h
    <3>1. p[x] = c /\ y \in 1 .. l - 1
      BY <1>5, <1>6, <1>15, <2>2, SMTT(30)
    <3>2. c[y] = IF y < k THEN q[h][y] ELSE q[h][y + 1]
      BY <1>6, <3>1
    <3>3. y \in 1 .. l /\ y + 1 \in 1 .. l /\ (y >= k <=> ~ (y < k)) /\ (y >= k => y + 1 # k)
          /\ (y < k => y # k)
      BY <1>2, <1>6, <3>1, SMTT(30)
    <3> QED  BY <1>1, <2>2, <3>1, <3>2, <3>3, SMTT(30)
  <2> QED  BY <2>1, <2>2
<1>16. Distinct(p)
  <2> SUFFICES ASSUME NEW h1 \in Head_, NEW h2 \in Head_,
                      NEW i \in 1 .. Len(p[h1]), NEW j \in 1 .. Len(p[h2]),
                      p[h1][i] = p[h2][j]
               PROVE  h1 = h2 /\ i = j
    BY DEF Distinct
  <2>1. PICK y \in 1 .. Len(q[h1]) :
          /\ p[h1][i] = q[h1][y]
          /\ y = IF h1 = h /\ i >= k THEN i + 1 ELSE i
    BY <1>15, Zenon
  <2>2. PICK z \in 1 .. Len(q[h2]) :
          /\ p[h2][j] = q[h2][z]
          /\ z = IF h2 = h /\ j >= k THEN j + 1 ELSE j
    BY <1>15, ZenonT(30)
  <2>3. h1 = h2 /\ y = z
    <3>1. q[h1][y] = q[h2][z]
      BY <2>1, <2>2, Zenon
    <3> QED  BY <1>3, <3>1, SMTT(30) DEF Distinct
  <2>4. i \in Nat /\ j \in Nat
    OBVIOUS
  <2> QED  BY <1>6, <2>1, <2>2, <2>3, <2>4, SMTT(30)
<1>17. InNone(p, e)
  <2> SUFFICES ASSUME NEW x \in Head_, NEW y \in 1 .. Len(p[x]), p[x][y] = e
               PROVE  FALSE
    BY DEF InNone
  <2>1. PICK z \in 1 .. Len(q[x]) :
          /\ p[x][y] = q[x][z]
          /\ z = IF x = h /\ y >= k THEN y + 1 ELSE y
          /\ ~ (x = h /\ z = k)
    BY <1>15
  <2>2. q[x][z] = q[h][k]
    BY <2>1
  <2>3. x = h /\ z = k
    <3>1. \A i \in 1 .. Len(q[x]), j \in 1 .. Len(q[h]) :
            q[x][i] = q[h][j] => x = h /\ i = j
      BY <1>3, Zenon DEF Distinct
    <3> QED  BY <2>2, <3>1, SMTT(30)
  <2> QED  BY <2>1, <2>3
<1>18. ASSUME NEW x \in Entry, InNone(p, x)
       PROVE  f.next[x] = NULL /\ f.prev[x] = NULL
  <2>1. CASE x = e
    BY <1>10, <2>1, SMTT(30)
  <2>2. CASE x # e
    <3>1. InNone(q, x)
      <4> SUFFICES ASSUME NEW y \in Head_, NEW i \in 1 .. Len(q[y]), q[y][i] = x
                   PROVE  FALSE
        BY DEF InNone
      <4>1. CASE y # h
        BY <1>5, <1>18, <4>1 DEF InNone
      <4>2. CASE y = h
        <5>1. i \in 1 .. l /\ i # k
          BY <1>1, <2>2, <4>2
        <5>2. PICK j \in 1 .. l - 1 : j = IF i < k THEN i ELSE i - 1
          BY <1>2, <1>6, <5>1, SMTT(30)
        <5>3. c[j] = q[h][i]
          <6>1. j \in 1 .. Len(c)
            BY <1>6
          <6>2. (i < k => j = i /\ j < k) /\ (~ (i < k) => ~ (j < k) /\ j + 1 = i)
            BY <1>2, <1>6, <5>1, <5>2, SMTT(30)
          <6> QED  BY <6>1, <6>2
        <5>4. p[h] = c /\ j \in 1 .. Len(c)
          BY <1>5, <1>6, SMTT(30)
        <5> QED  BY <1>18, <4>2, <5>3, <5>4, SMTT(30) DEF InNone
      <4> QED  BY <4>1, <4>2
    <3>2. \A i \in 0 .. l + 1 : r[i] # x
      BY <1>1, <1>3, <3>1, OffRings, SMTT(30)
    <3>3. x \in Node \ {prev, next, e}
      <4>1. k - 1 \in 0 .. l + 1 /\ k + 1 \in 0 .. l + 1
        BY <1>2, <1>6, SMTT(30)
      <4> QED  BY <1>7, <2>2, <3>2, <4>1, SMTT(30) DEF Node
    <3> QED  BY <1>3, <1>10, <3>1, <3>3, SMTT(30)
  <2> QED  BY <2>1, <2>2
<1>19. Chains(f, p)
  BY <1>5, <1>10, <1>14, <1>16, <1>18, SMTT(30) DEF Chains
<1> QED  BY <1>4, <1>9, <1>17, <1>19

(* The test next = prev = NULL tells whether an entry is in a list.        *)
LEMMA LinkedIs ==
  ASSUME NEW g, NEW q, Chains(g, q), NEW e \in Entry
  PROVE  /\ ~ linked(g, e) => InNone(q, e)
         /\ linked(g, e) => \E h \in Head_ : \E k \in 1 .. Len(q[h]) : q[h][k] = e
<1>1. ASSUME NEW h \in Head_, NEW k \in 1 .. Len(q[h]), q[h][k] = e
      PROVE  linked(g, e)
  <2>1. PICK l, r : Along(g, q[h], h, l, r)
    BY OneChain
  <2>2. l \in Nat /\ k \in 1 .. l /\ r[k] = e
    BY <1>1, <2>1 DEF Along
  <2>3. k \in 0 .. l /\ k + 1 \in 0 .. l + 1
    BY <2>2
  <2>4. g.next[e] \in Node
    BY <2>1, <2>2, <2>3 DEF Along
  <2> QED  BY <2>4, ListAssumption DEF linked, Node
<1>2. InNone(q, e) => ~ linked(g, e)
  BY DEF Chains, linked
<1> QED  BY <1>1, <1>2 DEF InNone

(* list_add puts an entry that is in no list at the head of one.           *)
LEMMA PushChains ==
  ASSUME NEW g, NEW q, Chains(g, q), NEW e \in Entry, InNone(q, e), NEW h \in Head_
  PROVE  Chains(list_add(g, e, h), [q EXCEPT ![h] = <<e>> \o q[h]])
<1>1. PICK l, r : Along(g, q[h], h, l, r)
  BY OneChain
<1>2. /\ l = Len(q[h]) /\ r = Ring(q[h], h) /\ l \in Nat
      /\ r[0] = h /\ 0 \in 0 .. l /\ g.next[r[0]] = r[0 + 1]
  BY <1>1 DEF Along
<1>3. PICK c : c = <<e>> \o q[h]
  BY Zenon
<1>4. q[h] \in Seq(Entry) /\ <<e>> \in Seq(Entry) /\ Len(<<e>>) = 1 /\ <<e>>[1] = e
  BY DEF Chains
<1>5. c \in Seq(Entry) /\ Len(c) = Len(q[h]) + 1
  BY <1>2, <1>3, <1>4
<1>6. \A i \in 1 .. Len(c) : c[i] = IF i <= 0 THEN q[h][i]
                                    ELSE IF i = 0 + 1 THEN e ELSE q[h][i - 1]
  <2> TAKE i \in 1 .. Len(c)
  <2>1. c[i] = IF i <= 1 THEN <<e>>[i] ELSE q[h][i - 1]
    BY <1>2, <1>3, <1>4, <1>5
  <2> QED  BY <1>4, <2>1
<1>7. Chains(insert(g, e, h, g.next[h]), [q EXCEPT ![h] = c])
  <2>1. h = Ring(q[h], h)[0] /\ g.next[h] = Ring(q[h], h)[0 + 1] /\ 0 \in 0 .. Len(q[h])
    BY <1>2
  <2> QED  BY <1>5, <1>6, <2>1, InsertChains, Zenon
<1> QED  BY <1>3, <1>7 DEF list_add

(* list_add_tail puts it at the end.                                       *)
LEMMA EnqueueChains ==
  ASSUME NEW g, NEW q, Chains(g, q), NEW e \in Entry, InNone(q, e), NEW h \in Head_
  PROVE  Chains(list_add_tail(g, e, h), [q EXCEPT ![h] = Append(q[h], e)])
<1>1. PICK l, r : Along(g, q[h], h, l, r)
  BY OneChain
<1>2. /\ l = Len(q[h]) /\ r = Ring(q[h], h) /\ l \in Nat
      /\ r[l + 1] = h /\ l \in 0 .. l /\ g.prev[r[l + 1]] = r[l]
  BY <1>1 DEF Along
<1>3. PICK c : c = Append(q[h], e)
  BY Zenon
<1>4. q[h] \in Seq(Entry)
  BY DEF Chains
<1>5. c \in Seq(Entry) /\ Len(c) = Len(q[h]) + 1
  BY <1>2, <1>3, <1>4
<1>6. \A i \in 1 .. Len(c) : c[i] = IF i <= l THEN q[h][i]
                                    ELSE IF i = l + 1 THEN e ELSE q[h][i - 1]
  <2>1. (\A i \in 1 .. Len(q[h]) : c[i] = q[h][i]) /\ c[Len(q[h]) + 1] = e
    BY <1>3, <1>4
  <2> QED  BY <1>2, <1>5, <2>1
<1>7. Chains(insert(g, e, g.prev[h], h), [q EXCEPT ![h] = c])
  <2>1. g.prev[h] = Ring(q[h], h)[l] /\ h = Ring(q[h], h)[l + 1] /\ l \in 0 .. Len(q[h])
    BY <1>2
  <2> QED  BY <1>5, <1>6, <2>1, InsertChains, Zenon
<1> QED  BY <1>3, <1>7 DEF list_add_tail

(* list_del takes an entry out of the list it is in.                       *)
LEMMA OutChains ==
  ASSUME NEW g, NEW q, Chains(g, q), NEW h \in Head_, NEW k \in 1 .. Len(q[h])
  PROVE  /\ Chains(list_del(g, q[h][k]), [q EXCEPT ![h] = Abstract!Without(q[h], k)])
         /\ InNone([q EXCEPT ![h] = Abstract!Without(q[h], k)], q[h][k])
<1>1. PICK s, l : s = q[h] /\ l = Len(s)
  OBVIOUS
<1>2. s \in Seq(Entry) /\ l \in Nat /\ k \in 1 .. l
  BY <1>1 DEF Chains
<1>3. PICK a, b : a = SubSeq(s, 1, k - 1) /\ b = SubSeq(s, k + 1, l)
  BY Zenon
<1>4. /\ a \in Seq(Entry) /\ Len(a) = k - 1
      /\ \A i \in 1 .. k - 1 : a[i] = s[i]
  BY <1>1, <1>2, <1>3
<1>5. /\ b \in Seq(Entry) /\ Len(b) = l - k
      /\ \A i \in 1 .. l - k : b[i] = s[k + i]
  BY <1>1, <1>2, <1>3
<1>6. PICK c : c = a \o b
  BY Zenon
<1>7. c \in Seq(Entry) /\ Len(c) = l - 1
  BY <1>2, <1>4, <1>5, <1>6
<1>8. \A i \in 1 .. Len(c) : c[i] = IF i < k THEN s[i] ELSE s[i + 1]
  <2> TAKE i \in 1 .. Len(c)
  <2>1. c[i] = IF i <= k - 1 THEN a[i] ELSE b[i - (k - 1)]
    BY <1>4, <1>5, <1>6, <1>7, <1>2, SMTT(30)
  <2>2. CASE i < k
    BY <1>2, <1>4, <1>7, <2>1, <2>2
  <2>3. CASE i >= k
    <3>1. i - (k - 1) \in 1 .. l - k /\ k + (i - (k - 1)) = i + 1 /\ ~ (i <= k - 1)
      BY <1>2, <1>7, <2>3
    <3> QED  BY <1>2, <1>5, <2>1, <2>3, <3>1
  <2> QED  BY <1>2, <2>2, <2>3
<1>9. c = Abstract!Without(q[h], k)
  BY <1>1, <1>3, <1>6 DEF Abstract!Without
<1>10. /\ Chains(list_del(g, q[h][k]), [q EXCEPT ![h] = c])
       /\ InNone([q EXCEPT ![h] = c], q[h][k])
  BY <1>1, <1>7, <1>8, DeleteChains, Zenon
<1> QED  BY <1>9, <1>10

-----------------------------------------------------------------------------
(* Reading a heap back as list_for_each does.                              *)

(* Every non-empty set of natural numbers has a least one.                 *)
LEMMA Least ==
  ASSUME NEW T, T \subseteq Nat, T # {}
  PROVE  \E m \in T : \A k \in T : m <= k
<1>1. IsWellFoundedOn(OpToRel(<, Nat), Nat)
  BY NatLessThanWellFounded, Zenon
<1>2. PICK m \in T : \A k \in T : ~ (<<k, m>> \in OpToRel(<, Nat))
  BY <1>1, WFMin, Zenon
<1> DEFINE R == {ss \in Nat \X Nat : ss[1] < ss[2]}
<1>3. OpToRel(<, Nat) = R
  BY Zenon DEF OpToRel
<1>4. \A k \in T : ~ (<<k, m>> \in R)
  BY <1>2, <1>3, Zenon
<1>5. \A k \in T : ~ (k < m)
  BY <1>4, Zenon
<1> QED  BY <1>5

(* A ring goes through no more list_heads than there are.                  *)
LEMMA RingFits ==
  ASSUME NEW g, NEW c, NEW h, NEW l, NEW r, Along(g, c, h, l, r)
  PROVE  \E N \in Nat : N = Cardinality(Node) /\ l + 1 <= N
<1>0. /\ l \in Nat
      /\ \A i \in 0 .. l : r[i] \in Node
      /\ \A i, j \in 0 .. l : r[i] = r[j] => i = j
  BY DEF Along
<1>1. Cardinality(Node) \in Nat
  BY ListsAreFinite, FS_CardinalityType
<1>2. IsFiniteSet(0 .. l) /\ Cardinality(0 .. l) = l + 1
  BY <1>0, FS_Interval
<1>3. PICK f : f = [i \in 0 .. l |-> r[i]]
  BY Zenon
<1>4. f \in [0 .. l -> Node]
  BY <1>0, <1>3
<1>5. ~ \E x, y \in 0 .. l : x # y /\ f[x] = f[y]
  BY <1>0, <1>3
<1>6. ~ (Cardinality(Node) < Cardinality(0 .. l))
  BY <1>2, <1>4, <1>5, ListsAreFinite, FS_PigeonHole, Zenon
<1> QED  BY <1>0, <1>1, <1>2, <1>6

(* The list_heads visited from h are those of its ring.                    *)
LEMMA Visits ==
  ASSUME NEW g, g = heap, NEW c, NEW h, NEW l, NEW r, Along(g, c, h, l, r)
  PROVE  \A k \in 1 .. l + 1 : after(h)[k] = r[k]
<1>1. /\ l \in Nat /\ r[0] = h /\ r[l + 1] = h
      /\ \A i \in 0 .. l + 1 : r[i] \in Node
      /\ \A i, j \in 1 .. l + 1 : r[i] = r[j] => i = j
      /\ \A i \in 0 .. l : g.next[r[i]] = r[i + 1]
  BY DEF Along
<1>2. PICK N \in Nat : N = Cardinality(Node) /\ l + 1 <= N
  BY RingFits
<1>3. \A i \in 1 .. l : r[i] # h /\ r[i] # NULL
  BY <1>1, ListAssumption, SMTT(30) DEF Node
<1> DEFINE Step(f, k) == IF k = 1 THEN heap.next[h]
                         ELSE IF f[k - 1] \in {h, NULL} THEN f[k - 1] ELSE heap.next[f[k - 1]]
           v == CHOOSE f : f = [k \in 1 .. Cardinality(Node) |-> Step(f, k)]
           w == [k \in 1 .. N |-> IF k <= l + 1 THEN r[k] ELSE h]
<1>4. \A k \in 1 .. N : w[k] = Step(w, k)
  <2> TAKE k \in 1 .. N
  <2>1. CASE k = 1
    BY <1>1, <2>1
  <2>2. CASE k > 1 /\ k <= l + 1
    <3>1. k - 1 \in 1 .. l /\ k - 1 \in 0 .. l /\ (k - 1) + 1 = k
      BY <1>1, <2>2
    <3>2. w[k - 1] = r[k - 1] /\ w[k] = r[k]
      <4>1. k - 1 \in 1 .. N /\ k - 1 <= l + 1
        BY <1>1, <1>2, <2>2
      <4> QED  BY <2>2, <4>1
    <3>3. g.next[r[k - 1]] = r[k] /\ r[k - 1] # h /\ r[k - 1] # NULL
      BY <1>1, <1>3, <3>1
    <3> QED  BY <2>2, <3>2, <3>3
  <2>3. CASE k > l + 1
    <3>1. k - 1 \in 1 .. N /\ k # 1
      BY <1>1, <1>2, <2>3
    <3>2. w[k - 1] = h /\ w[k] = h
      BY <1>1, <1>2, <2>3, <3>1, SMTT(30)
    <3> QED  BY <3>1, <3>2
  <2> QED  BY <1>1, <1>2, <2>1, <2>2, <2>3, SMTT(30)
<1>5. w = [k \in 1 .. Cardinality(Node) |-> Step(w, k)]
  BY <1>2, <1>4
<1>6. v = [k \in 1 .. Cardinality(Node) |-> Step(v, k)]
  BY <1>5, Zenon
<1>7. after(h) = v
  BY Zenon DEF after
<1> HIDE DEF v
<1>8. \A k \in 1 .. N : v[k] = Step(v, k)
  BY <1>2, <1>6
<1>9. \A k \in 1 .. l + 1 : v[k] = r[k]
  <2> DEFINE T == {k \in 1 .. l + 1 : v[k] # r[k]}
  <2> SUFFICES ASSUME T # {} PROVE FALSE
    OBVIOUS
  <2>1. PICK m \in T : \A k \in T : m <= k
    <3>1. T \subseteq Nat
      BY <1>1
    <3> QED  BY <3>1, Least, Zenon
  <2>2. m \in 1 .. l + 1 /\ m \in 1 .. N
    BY <1>1, <1>2
  <2>3. CASE m = 1
    BY <1>1, <1>8, <2>2, <2>3, SMTT(30)
  <2>4. CASE m > 1
    <3>1. m - 1 \in 1 .. l /\ m - 1 \in 0 .. l /\ (m - 1) + 1 = m /\ m - 1 \in 1 .. l + 1
      BY <1>1, <2>2, <2>4, SMTT(30)
    <3>2. v[m - 1] = r[m - 1]
      BY <2>1, <2>2, <3>1, SMTT(30)
    <3>3. g.next[r[m - 1]] = r[m] /\ r[m - 1] # h /\ r[m - 1] # NULL
      BY <1>1, <1>3, <3>1
    <3> QED  BY <1>8, <2>2, <2>4, <3>2, <3>3, SMTT(30)
  <2> QED  BY <1>1, <2>2, <2>3, <2>4
<1> QED  BY <1>7, <1>9

(* A heap that holds the lists q reads as q.                               *)
ReadsBack == \A g, q : g = heap /\ Chains(g, q) => Lists = q

(* A walk of list_for_each over every head of the heap meets the entries of *)
(* q in order and stops behind the last one.                               *)
LEMMA ReadsBackHolds == ReadsBack
<1> SUFFICES ASSUME NEW g, NEW q, g = heap, Chains(g, q) PROVE Lists = q
  BY DEF ReadsBack
<1>1. ASSUME NEW h \in Head_ PROVE contents(h) = q[h]
  <2>1. PICK l, r : Along(g, q[h], h, l, r)
    BY OneChain
  <2>2. /\ l \in Nat /\ l = Len(q[h]) /\ r[l + 1] = h
        /\ \A i \in 1 .. l : r[i] = q[h][i]
        /\ \A i \in 1 .. l : r[i] # h
    <3>1. \A i, j \in 1 .. l + 1 : r[i] = r[j] => i = j
      BY <2>1 DEF Along
    <3>2. /\ l \in Nat /\ l = Len(q[h]) /\ r[l + 1] = h
          /\ \A i \in 1 .. l : r[i] = q[h][i]
      BY <2>1 DEF Along
    <3> QED  BY <3>1, <3>2, SMTT(30)
  <2>3. PICK N \in Nat : N = Cardinality(Node) /\ l + 1 <= N
    BY <2>1, RingFits
  <2>4. PICK at : at = after(h)
    OBVIOUS
  <2>5. \A k \in 1 .. l + 1 : at[k] = r[k]
    BY <2>1, <2>4, Visits
  <2> DEFINE back == {k \in 1 .. N : at[k] = h}
             size == IF back = {} THEN N ELSE CHOOSE k \in back : \A j \in back : k <= j
  <2>6. l + 1 \in back /\ \A j \in back : l + 1 <= j
    BY <2>2, <2>3, <2>5
  <2>7. size = l + 1
    <3>1. back \subseteq Nat
      OBVIOUS
    <3> HIDE DEF back
    <3>2. PICK k : k = CHOOSE m \in back : \A j \in back : m <= j
      OBVIOUS
    <3>3. k \in back /\ \A j \in back : k <= j
      BY <2>6, <3>2
    <3>4. k = l + 1
      BY <2>2, <2>6, <3>1, <3>3
    <3> QED  BY <2>6, <3>2, <3>4, Zenon
  <2>8. contents(h) = [k \in 1 .. size - 1 |-> at[k]]
    BY <2>3, <2>4 DEF contents
  <2> HIDE DEF size
  <2>9. contents(h) = [k \in 1 .. l |-> q[h][k]]
    BY <2>2, <2>5, <2>7, <2>8
  <2>10. q[h] = [k \in 1 .. l |-> q[h][k]]
    BY <2>2 DEF Chains
  <2> QED  BY <2>9, <2>10
<1>2. q = [h \in Head_ |-> q[h]]
  BY DEF Chains
<1> QED  BY <1>1, <1>2 DEF Lists

-----------------------------------------------------------------------------
(* The pointer lists implement the queues.                                 *)

(* At boot every list is empty.                                            *)
LEMMA QInvInit == Init => \E g : g = heap /\ Chains(g, [h \in Head_ |-> <<>>])
<1> SUFFICES ASSUME Init PROVE \E g : g = heap /\ Chains(g, [h \in Head_ |-> <<>>])
  OBVIOUS
<1>1. PICK q : q = [h \in Head_ |-> <<>>]
  BY Zenon
<1>2. PICK g : g = [next |-> INIT_LIST_HEAD, prev |-> INIT_LIST_HEAD]
  BY Zenon
<1>3. q \in [Head_ -> Seq(Entry)] /\ \A h \in Head_ : q[h] = <<>> /\ Len(q[h]) = 0
  BY <1>1
<1>4. /\ g \in HeapType
      /\ \A h \in Head_ : g.next[h] = h /\ g.prev[h] = h
      /\ \A e \in Entry : g.next[e] = NULL /\ g.prev[e] = NULL
  BY <1>2, ListAssumption DEF INIT_LIST_HEAD, HeapType, Node
<1>5. ASSUME NEW h \in Head_ PROVE Threads(g, Ring(q[h], h), Len(q[h]))
  <2>1. PICK r : r = Ring(q[h], h)
    OBVIOUS
  <2>2. r = [i \in 0 .. 0 + 1 |-> IF i \in 1 .. 0 THEN q[h][i] ELSE h]
    BY <1>3, <2>1 DEF Ring
  <2>3. r[0] = h /\ r[1] = h
    BY <2>2
  <2>4. Threads(g, r, 0)
    BY <1>4, <2>3 DEF Threads
  <2> QED  BY <1>3, <2>1, <2>4
<1>6. Distinct(q)
  BY <1>3 DEF Distinct
<1>7. Chains(g, q)
  BY <1>3, <1>4, <1>5, <1>6 DEF Chains
<1> QED  BY <1>1, <1>2, <1>7 DEF Init

(* An entry in no list has no holder.                                      *)
LEMMA NoHolder ==
  ASSUME NEW q \in [Head_ -> Seq(Entry)], Lists = q, NEW e \in Entry, InNone(q, e)
  PROVE  Abstract!Holder(e) = {}
<1>1. ASSUME NEW h \in Head_ PROVE e \notin Abstract!Range(q[h])
  <2>1. DOMAIN q[h] = 1 .. Len(q[h])
    OBVIOUS
  <2> QED  BY <2>1 DEF InNone, Abstract!Range
<1> QED  BY <1>1 DEF Abstract!Holder

(* Taking the k-th entry of list h out and, if there is a destination,     *)
(* putting it at the end of that list is a step of the queues.             *)
LEMMA OutThenIn ==
  ASSUME ReadsBack, ReadsBack', NEW g, NEW q, g = heap, Chains(g, q),
         NEW h \in Head_, NEW k \in 1 .. Len(q[h])
  PROVE  /\ heap' = list_del(g, q[h][k]) => QInv' /\ Abstract!QNext
         /\ \A to_ \in Head_ :
              heap' = list_add_tail(list_del(g, q[h][k]), q[h][k], to_)
                => QInv' /\ Abstract!QNext
<1>1. Lists = q /\ q \in [Head_ -> Seq(Entry)]
  BY DEF ReadsBack, Chains
<1>2. PICK e \in Entry : e = q[h][k]
  BY <1>1
<1>3. PICK p : p = [q EXCEPT ![h] = Abstract!Without(q[h], k)]
  BY Zenon
<1>4. PICK f : f = list_del(g, e)
  OBVIOUS
<1>5. Chains(f, p) /\ InNone(p, e)
  BY <1>2, <1>3, <1>4, OutChains, Zenon
<1>6. ASSUME heap' = f PROVE QInv' /\ Abstract!QNext
  <2>1. QInv' /\ Lists' = p
    BY <1>5, <1>6 DEF QInv, ReadsBack
  <2>2. Abstract!Delete(h, k)
    BY <1>1, <1>3, <2>1 DEF Abstract!Delete
  <2> QED  BY <1>1, <2>1, <2>2 DEF Abstract!QNext
<1>7. ASSUME NEW d \in Head_, heap' = list_add_tail(f, e, d)
      PROVE  QInv' /\ Abstract!QNext
  <2>1. PICK f2, p2 : f2 = list_add_tail(f, e, d) /\ p2 = [p EXCEPT ![d] = Append(p[d], e)]
    BY Zenon
  <2>2. Chains(f2, p2)
    BY <1>5, <2>1, EnqueueChains, Zenon
  <2>3. QInv' /\ Lists' = p2
    BY <1>7, <2>1, <2>2, Zenon DEF QInv, ReadsBack
  <2>4. Abstract!Move(h, k, d)
    BY <1>1, <1>2, <1>3, <2>1, <2>3 DEF Abstract!Move
  <2> QED  BY <1>1, <2>3, <2>4 DEF Abstract!QNext
<1> QED  BY <1>2, <1>4, <1>6, <1>7, SMTT(30)

(* Every step of the pointer lists is a step of the queues, or none.       *)
LEMMA QInvStep ==
  ReadsBack /\ ReadsBack' /\ IInv /\ QInv /\ [Next]_vars
    => QInv' /\ [Abstract!QNext]_Lists
<1> SUFFICES ASSUME ReadsBack, ReadsBack', IInv, QInv, [Next]_vars
             PROVE  QInv' /\ [Abstract!QNext]_Lists
  OBVIOUS
<1>1. PICK g, q : g = heap /\ Chains(g, q)
  BY SMTT(30) DEF QInv
<1>2. Lists = q /\ q \in [Head_ -> Seq(Entry)]
  BY <1>1 DEF ReadsBack, Chains
<1>3. ASSUME NEW f, NEW p, heap' = f, Chains(f, p) PROVE QInv' /\ Lists' = p
  BY <1>3 DEF QInv, ReadsBack
<1>4. ASSUME heap' = heap PROVE QInv' /\ Lists' = Lists
  BY <1>1, <1>2, <1>3, <1>4
<1>5. ASSUME NEW e \in Entry, NEW h \in Head_, InNone(q, e), heap' = list_add_tail(g, e, h)
      PROVE  QInv' /\ Abstract!QNext
  <2>1. PICK p : p = [q EXCEPT ![h] = Append(q[h], e)]
    BY Zenon
  <2>2. QInv' /\ Lists' = p
    BY <1>1, <1>3, <1>5, <2>1, EnqueueChains
  <2>3. Abstract!Enqueue(e, h)
    BY <1>2, <1>5, <2>1, <2>2, NoHolder DEF Abstract!Enqueue
  <2> QED  BY <2>2, <2>3 DEF Abstract!QNext
<1>6. ASSUME NEW e \in Entry, NEW h \in Head_, add(e, h) PROVE QInv' /\ Abstract!QNext
  <2>1. InNone(q, e) /\ heap' = list_add(g, e, h)
    BY <1>1, <1>6, LinkedIs DEF add
  <2>2. PICK p : p = [q EXCEPT ![h] = <<e>> \o q[h]]
    BY Zenon
  <2>3. QInv' /\ Lists' = p
    BY <1>1, <1>3, <2>1, <2>2, PushChains, Zenon
  <2>4. Abstract!Push(e, h)
    BY <1>2, <2>1, <2>2, <2>3, NoHolder, SMTT(30) DEF Abstract!Push
  <2> QED  BY <2>3, <2>4 DEF Abstract!QNext
<1>7. ASSUME NEW e \in Entry, NEW h \in Head_, add_tail(e, h) PROVE QInv' /\ Abstract!QNext
  <2>1. InNone(q, e) /\ heap' = list_add_tail(g, e, h)
    BY <1>1, <1>7, LinkedIs, SMTT(30) DEF add_tail
  <2> QED  BY <1>5, <2>1
<1>8. ASSUME NEW e \in Entry, del(e) PROVE QInv' /\ Abstract!QNext
  <2>1. linked(g, e) /\ heap' = list_del(g, e)
    BY <1>1, <1>8 DEF del
  <2>2. PICK h \in Head_ : \E k \in 1 .. Len(q[h]) : q[h][k] = e
    BY <1>1, <2>1, LinkedIs
  <2>3. PICK k \in 1 .. Len(q[h]) : q[h][k] = e
    BY <2>2
  <2> QED  BY <1>1, <2>1, <2>3, OutThenIn
<1>9. ASSUME NEW t \in Entry, NEW dest \in Head_ \cup {NULL}, move(t, dest)
      PROVE  QInv' /\ (Abstract!QNext \/ Lists' = Lists)
  <2>1. heap' = update_process_state_rr(g, t, dest)
    BY <1>1, <1>9 DEF move
  <2>2. CASE linked(g, t)
    <3>1. PICK h \in Head_ : \E k \in 1 .. Len(q[h]) : q[h][k] = t
      BY <1>1, <2>2, LinkedIs
    <3>2. PICK k \in 1 .. Len(q[h]) : q[h][k] = t
      BY <3>1, SMTT(30)
    <3>3. CASE dest = NULL
      <4>1. heap' = list_del(g, t)
        BY <2>1, <2>2, <3>3, SMTT(30) DEF update_process_state_rr
      <4> QED  BY <1>1, <3>2, <4>1, OutThenIn, SMTT(30)
    <3>4. CASE dest # NULL
      <4>1. heap' = list_add_tail(list_del(g, t), t, dest) /\ dest \in Head_
        BY <2>1, <2>2, <3>4 DEF update_process_state_rr
      <4> QED  BY <1>1, <3>2, <4>1, OutThenIn
    <3> QED  BY <3>3, <3>4
  <2>3. CASE ~ linked(g, t)
    <3>1. InNone(q, t)
      BY <1>1, <2>3, LinkedIs
    <3>2. CASE dest = NULL
      BY <1>1, <1>4, <2>1, <2>3, <3>2, SMTT(30) DEF update_process_state_rr
    <3>3. CASE dest # NULL
      <4>1. heap' = list_add_tail(g, t, dest) /\ dest \in Head_
        BY <2>1, <2>3, <3>3, SMTT(30) DEF update_process_state_rr
      <4> QED  BY <1>5, <3>1, <4>1
    <3> QED  BY <3>2, <3>3, SMTT(30)
  <2> QED  BY <2>2, <2>3
<1>10. ASSUME loop_step PROVE QInv' /\ Abstract!QNext
  <2>1. /\ from \in Head_ /\ to \in Head_ /\ pos = g.next[from] /\ pos # from
        /\ heap' = list_add_tail(list_del(g, pos), pos, to)
    BY <1>1, <1>10, SMTT(30) DEF loop_step, IInv, CursorsLive
  <2>2. PICK l, r : Along(g, q[from], from, l, r)
    BY <1>1, <2>1, OneChain, SMTT(30)
  <2>3. /\ l \in Nat /\ l = Len(q[from]) /\ r[0] = from /\ r[l + 1] = from
        /\ \A i \in 1 .. l : r[i] = q[from][i]
        /\ \A i \in 0 .. l : g.next[r[i]] = r[i + 1]
    BY <2>2 DEF Along
  <2>4. pos = r[1]
    BY <2>1, <2>3
  <2>5. 1 \in 1 .. Len(q[from]) /\ pos = q[from][1]
    BY <2>1, <2>3, <2>4, SMTT(30)
  <2> QED  BY <1>1, <2>1, <2>5, OutThenIn, SMTT(30)
<1>11. CASE \/ \E h, d \in Head_ : loop_start(h, d)
            \/ loop_end
            \/ UNCHANGED vars
  BY <1>4, <1>11 DEF loop_start, loop_end, vars
<1> QED  BY <1>6, <1>7, <1>8, <1>9, <1>10, <1>11 DEF Next

(* list_add, list_add_tail, list_del, update_process_state_rr and the loop *)
(* of sys_exit implement queues of distinct entries, for any number of     *)
(* lists and entries.                                                      *)
THEOREM ImplementsQueuesHolds == Spec => ImplementsQueues
<1>1. ReadsBack /\ Init => QInv /\ Abstract!QInit
  BY QInvInit DEF QInv, ReadsBack, Abstract!QInit
<1> QED  BY <1>1, InitIInv, NextIInv, ReadsBackHolds, QInvStep, PTL
         DEF Spec, ImplementsQueues, Abstract!QSpec
=============================================================================
