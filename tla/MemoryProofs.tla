---------------------------- MODULE MemoryProofs ----------------------------
(***************************************************************************)
(* Proofs about Memory for any number of slots, frames and pages.          *)
(* FramesAccounted and PrivatePages need each other (a frame is given back *)
(* because nobody else maps it, and handed out because the map of frames   *)
(* is exact) and both need Spaces, which says what the page tables of dead *)
(* slots and of a half-made child contain.                                 *)
(*                                                                         *)
(* With these invariants paging implements private memories: writes and    *)
(* copies reach the right frame because no translation is stale and no     *)
(* frame has two owners; the fork as a whole is a copy because each page   *)
(* copied so far still equals its original when the loop ends (Copied).    *)
(***************************************************************************)
EXTENDS MemoryRefines, TLAPS

(* A slot without an address space maps no data page, except the child of  *)
(* a running fork, which has exactly the pages copied so far; who runs is  *)
(* alive or idle; only data pages are ever cached.                         *)
Spaces ==
  /\ cr3 # idle_task => cr3 \in live
  /\ forking => cr3 \in live /\ child \notin live
  /\ \A e \in tlb : e[1] \in Data
  /\ \A t \in Task \ live : \A p \in Data :
       pagusr_table[t][p] # 0 <=> t = child /\ p < pag

MIInv == MTypeOK /\ FramesAccounted /\ PrivatePages /\ NoStaleTLB /\ Spaces

Fixed == init_frames \cup CodeFrames

-----------------------------------------------------------------------------
(* Frames.                                                                 *)

(* The frame map, frame by frame.                                          *)
LEMMA Accounted ==
  FramesAccounted <=>
    \A f : f \in phys_mem <=>
      f \in Fixed \/ (f # 0 /\ \E t \in Task, p \in Data : pagusr_table[t][p] = f)
  BY DEF FramesAccounted, Fixed, DataFrames

(* Facts about the constants.                                              *)
LEMMA Constants ==
  /\ NUM_PAG_KERNEL \in Nat /\ NUM_PAG_KERNEL >= 1 /\ TOTAL_PAGES \in Nat
  /\ 0 \in Frame /\ 0 \in Fixed /\ Fixed \subseteq Frame
  /\ Frame \subseteq Nat
  /\ \A f \in Frame : f \notin Fixed => f > NUM_PAG_KERNEL /\ f < TOTAL_PAGES
  /\ Data \subseteq Page /\ Code \subseteq Page /\ Data \cap Code = {}
  /\ temp_pag \in Page /\ temp_pag \notin Data
  /\ NULL \notin Task /\ idle_task \in Task /\ init_task \in Task
<1>1. /\ NUM_PAG_KERNEL \in Nat /\ NUM_PAG_KERNEL >= 1 /\ TOTAL_PAGES \in Nat
      /\ NUM_PAG_CODE \in Nat /\ NUM_PAG_CODE >= 1 /\ NUM_PAG_DATA \in Nat
      /\ NUM_PAG_KERNEL + 2 * (NUM_PAG_CODE + NUM_PAG_DATA - 1) < TOTAL_PAGES
      /\ NR_TASKS \in Nat /\ NR_TASKS >= 2
  BY MemoryAssumption, TasksAssumption
<1>2. \A p \in Code : boot_frame(p) \in Frame
  BY <1>1 DEF Code, boot_frame, Frame
<1>3. NUM_PAG_DATA \in Code /\ boot_frame(NUM_PAG_DATA) = NUM_PAG_KERNEL
  BY <1>1 DEF Code, boot_frame
<1>4. Fixed \subseteq Frame /\ 0 \in Fixed /\ 0 \in Frame
  BY <1>1, <1>2 DEF Fixed, CodeFrames, init_frames, Frame
<1>5. NUM_PAG_KERNEL \in Fixed
  BY <1>3 DEF Fixed, CodeFrames
<1>6. \A f \in Frame : f \notin Fixed => f > NUM_PAG_KERNEL /\ f < TOTAL_PAGES
  BY <1>1, <1>5 DEF Fixed, init_frames, Frame
<1>7. /\ Data \subseteq Page /\ Code \subseteq Page /\ Data \cap Code = {}
      /\ temp_pag \in Page /\ temp_pag \notin Data /\ Frame \subseteq Nat
      /\ NULL \notin Task /\ idle_task \in Task /\ init_task \in Task
  BY <1>1 DEF Data, Code, Page, temp_pag, Frame, NULL, Task, idle_task, init_task
<1> QED  BY <1>1, <1>4, <1>6, <1>7

(* The frames handed out at boot are distinct.                             *)
LEMMA BootFrames ==
  \A p, q \in Data \cup Code :
    /\ boot_frame(p) \in Frame /\ boot_frame(p) >= NUM_PAG_KERNEL
    /\ boot_frame(p) = boot_frame(q) => p = q
  BY MemoryAssumption DEF Data, Code, boot_frame, Frame

(* Steps that change neither the frame map nor a data page.                *)
LEMMA SameData ==
  ASSUME live \subseteq Task, FramesAccounted, PrivatePages,
         phys_mem' = phys_mem, live' \subseteq live,
         \A t \in Task, p \in Data : pagusr_table'[t][p] = pagusr_table[t][p]
  PROVE  FramesAccounted' /\ PrivatePages'
<1>1. \A t \in Task : DataFrames(t)' = DataFrames(t)
  BY DEF DataFrames
<1>2. FramesAccounted'
  BY <1>1 DEF FramesAccounted, CodeFrames
<1>3. /\ \A s, t \in Task : \A p, q \in Data :
           pagusr_table'[s][p] # 0 /\ pagusr_table'[s][p] = pagusr_table'[t][q]
             => s = t /\ p = q
      /\ \A t \in Task : DataFrames(t)' \cap (init_frames \cup CodeFrames) = {}
      /\ \A t \in live' : \A p \in Data : pagusr_table'[t][p] # 0
  BY <1>1 DEF PrivatePages
<1> QED  BY <1>2, <1>3 DEF PrivatePages, CodeFrames

(* Giving back the frames of pages S of slot t.                            *)
LEMMA Release ==
  ASSUME MTypeOK, FramesAccounted, PrivatePages,
         NEW t \in Task, NEW S \in SUBSET Data, live' \subseteq live,
         S # {} => t \notin live',
         phys_mem' = free_frame({pagusr_table[t][p] : p \in S}),
         \A s \in Task, p \in Data :
           pagusr_table'[s][p] = IF s = t /\ p \in S THEN 0 ELSE pagusr_table[s][p]
  PROVE  FramesAccounted' /\ PrivatePages'
<1> DEFINE T == pagusr_table
<1>1. \A s \in Task, p \in Data : T[s][p] \in Frame
  BY Constants DEF MTypeOK
<1>2. \A s \in Task, p \in Data : T[s][p] # 0 => T[s][p] \notin Fixed
  BY DEF PrivatePages, DataFrames, Fixed
<1>3. \A s, r \in Task : \A p, q \in Data : T[s][p] # 0 /\ T[s][p] = T[r][q]
        => s = r /\ p = q
  BY DEF PrivatePages
<1>4. \A f : f \in phys_mem' <=> f \in phys_mem /\ ~ (f # 0 /\ \E p \in S : T[t][p] = f)
  <2>1. 0 \in Fixed /\ NUM_PAG_KERNEL >= 1 /\ NUM_PAG_KERNEL \in Nat
    BY Constants
  <2>2. \A p \in S : T[t][p] # 0 <=> T[t][p] > NUM_PAG_KERNEL /\ T[t][p] < TOTAL_PAGES
    <3> TAKE p \in S
    <3>1. T[t][p] \in Nat /\ T[t][p] \in Frame /\ (T[t][p] # 0 => T[t][p] \notin Fixed)
      BY <1>1, <1>2, Constants, Zenon
    <3> QED  BY <3>1, <2>1, Constants
  <2> QED  BY <2>2 DEF free_frame
<1>5. FramesAccounted'
  <2>1. \A f : f \in phys_mem' <=>
          f \in Fixed \/ (f # 0 /\ \E s \in Task, p \in Data : T'[s][p] = f)
    <3> SUFFICES ASSUME NEW f
                 PROVE  f \in phys_mem' <=>
                   f \in Fixed \/ (f # 0 /\ \E s \in Task, p \in Data : T'[s][p] = f)
      OBVIOUS
    <3>1. f \in phys_mem <=>
            f \in Fixed \/ (f # 0 /\ \E s \in Task, p \in Data : T[s][p] = f)
      BY Accounted
    <3>2. CASE f # 0 /\ \E p \in S : T[t][p] = f
      BY <3>2, <1>2, <1>3, <1>4
    <3>3. CASE ~ (f # 0 /\ \E p \in S : T[t][p] = f)
      BY <3>1, <3>3, <1>4
    <3> QED  BY <3>2, <3>3
  <2> QED  BY <2>1, Accounted DEF Fixed, CodeFrames, init_frames, FramesAccounted, DataFrames
<1>6. PrivatePages'
  <2>1. \A s, r \in Task : \A p, q \in Data :
          T'[s][p] # 0 /\ T'[s][p] = T'[r][q] => s = r /\ p = q
    BY <1>3
  <2>2. \A s \in Task : DataFrames(s)' \cap (init_frames \cup CodeFrames) = {}
    BY <1>2 DEF DataFrames, Fixed
  <2>3. \A s \in live' : \A p \in Data : T'[s][p] # 0
    BY DEF PrivatePages, MTypeOK
  <2> QED  BY <2>1, <2>2, <2>3 DEF PrivatePages, CodeFrames
<1> QED  BY <1>5, <1>6

-----------------------------------------------------------------------------
(* One lemma per action.                                                   *)

(* A translation through the page table in use is never a stale one.       *)
LEMMA Translate ==
  ASSUME NoStaleTLB, NEW p, NEW f \in Translations(pagusr_table[cr3], p)
  PROVE  f = pagusr_table[cr3][p]
  BY DEF Translations, NoStaleTLB

(* A store by the running process keeps the memory invariant. *)
LEMMA UserWrite ==
  ASSUME MIInv, NEW p \in Data, NEW v \in Value, user_write(p, v)
  PROVE  MIInv'
<1>1. PICK f \in Translations(pagusr_table[cr3], p) :
        content' = [content EXCEPT ![f] = v] /\ tlb' = tlb \cup {<<p, f>>}
  BY Zenon DEF user_write
<1>2. UNCHANGED <<phys_mem, pagusr_table, cr3, live, child, pag>>
  BY DEF user_write
<1>3. f = pagusr_table[cr3][p]
  BY <1>1, Translate DEF MIInv
<1>4. p \in Page /\ f \in Frame
  BY <1>3, Constants DEF MIInv, MTypeOK
<1>5. MTypeOK'
  BY <1>1, <1>2, <1>4 DEF MIInv, MTypeOK
<1>6. FramesAccounted' /\ PrivatePages'
  BY <1>2, SameData DEF MIInv, MTypeOK
<1>7. NoStaleTLB'
  BY <1>1, <1>2, <1>3 DEF MIInv, NoStaleTLB
<1>8. Spaces'
  BY <1>1, <1>2 DEF MIInv, Spaces, forking
<1> QED  BY <1>5, <1>6, <1>7, <1>8 DEF MIInv

(* sys_fork filling the slot, with the code pages shared, keeps the invariant. *)
LEMMA ForkStart ==
  ASSUME MIInv, NEW new \in Task, fork_start(new)
  PROVE  MIInv'
<1>1. /\ child = NULL /\ cr3 # idle_task /\ cr3 \in live
      /\ new \notin live /\ new # idle_task /\ new # cr3
      /\ child' = new /\ pag' = 0
      /\ UNCHANGED <<phys_mem, content, cr3, tlb, live>>
  BY DEF fork_start, forking, MIInv, Spaces
<1>2. pagusr_table' = [pagusr_table EXCEPT ![new] =
        [p \in Page |-> IF p \in Code THEN pagusr_table[cr3][p] ELSE @[p]]]
  BY DEF fork_start
<1>3. pagusr_table \in [Task -> [Page -> Frame]] /\ cr3 \in Task /\ live \subseteq Task
  BY DEF MIInv, MTypeOK
<1>4. pagusr_table' \in [Task -> [Page -> Frame]]
  BY <1>2, <1>3
<1>5. \A t \in Task : t # new => pagusr_table'[t] = pagusr_table[t]
  BY <1>2, <1>3
<1>6. \A t \in Task, p \in Data : pagusr_table'[t][p] = pagusr_table[t][p]
  BY <1>2, <1>3, <1>5, Constants
<1>7. MTypeOK'
  <2>1. 0 \in 0 .. NUM_PAG_DATA
    BY MemoryAssumption
  <2> QED  BY <1>1, <1>4, <2>1 DEF MIInv, MTypeOK
<1>8. FramesAccounted' /\ PrivatePages'
  BY <1>1, <1>3, <1>6, SameData DEF MIInv
<1>9. NoStaleTLB'
  BY <1>1, <1>3, <1>5 DEF MIInv, NoStaleTLB
<1>10. Spaces'
  <2>1. \A t \in Task \ live : \A p \in Data : pagusr_table[t][p] = 0
    BY <1>1, Constants DEF MIInv, Spaces
  <2>2. \A p \in Data : ~ (p < 0)
    BY MemoryAssumption DEF Data
  <2> QED  BY <1>1, <1>6, <2>1, <2>2 DEF MIInv, Spaces, forking
<1> QED  BY <1>7, <1>8, <1>9, <1>10 DEF MIInv

(* The new frame of a forked page is nobody's, and the copy goes there.    *)
LEMMA ForkPage ==
  ASSUME MIInv, fork_page
  PROVE  MIInv'
<1> DEFINE T == pagusr_table
<1>1. /\ child # NULL /\ child \in Task /\ child \notin live /\ child # idle_task
      /\ cr3 \in live /\ cr3 \in Task /\ cr3 # child
      /\ pag \in Data /\ pag \in Nat /\ pag + 1 \in 0 .. NUM_PAG_DATA
      /\ pag' = pag + 1 /\ live' = live /\ child' = child /\ live \subseteq Task
  BY MemoryAssumption DEF fork_page, forking, MIInv, Spaces, MTypeOK, Data
<1>2. PICK f \in free_frames :
        /\ alloc_frame(f)
        /\ T' = [T EXCEPT ![child][pag] = f, ![cr3][temp_pag] = 0]
        /\ copy_page(f)
  BY Zenon DEF fork_page
<1>3. f \in Frame /\ f \notin phys_mem /\ f # 0 /\ f \notin Fixed
      /\ phys_mem' = phys_mem \cup {f}
  BY <1>2, Constants, Accounted DEF free_frames, alloc_frame, MIInv
<1>4. T \in [Task -> [Page -> Frame]] /\ pag \in Page /\ temp_pag \in Page
      /\ temp_pag \notin Data /\ Data \subseteq Page /\ 0 \in Frame
  BY <1>1, Constants DEF MIInv, MTypeOK
<1>5. T' \in [Task -> [Page -> Frame]]
  BY <1>1, <1>2, <1>3, <1>4, Zenon
<1>6. \A t \in Task, p \in Data :
        T'[t][p] = IF t = child /\ p = pag THEN f ELSE T[t][p]
  BY <1>1, <1>2, <1>4
<1>7. T[child][pag] = 0
  BY <1>1 DEF MIInv, Spaces
<1>8. cr3' = cr3 /\ tlb' = {} /\ content' \in [Frame -> Value]
  <2>1. PICK src \in Translations(T[cr3], pag),
             dst \in {f} \cup {g \in Frame : <<temp_pag, g>> \in tlb} :
               content' = [content EXCEPT ![dst] = content[src]]
    BY <1>2, Zenon DEF copy_page
  <2>2. src \in Frame /\ dst \in Frame
    BY <1>1, <1>3, <1>4, Translate, <2>1 DEF MIInv
  <2> QED  BY <1>2, <2>1, <2>2, Zenon DEF copy_page, set_cr3, MIInv, MTypeOK
<1>9. MTypeOK'
  BY <1>1, <1>3, <1>5, <1>8 DEF MIInv, MTypeOK
<1>10. FramesAccounted'
  <2>1. \A g : g \in phys_mem' <=>
          g \in Fixed \/ (g # 0 /\ \E t \in Task, p \in Data : T'[t][p] = g)
    <3> TAKE g
    <3>1. g \in phys_mem <=>
            g \in Fixed \/ (g # 0 /\ \E t \in Task, p \in Data : T[t][p] = g)
      BY Accounted DEF MIInv
    <3>2. CASE g = f
      BY <3>2, <1>1, <1>3, <1>6
    <3>3. CASE g # f
      BY <3>1, <3>3, <1>1, <1>3, <1>6, <1>7
    <3> QED  BY <3>2, <3>3
  <2> QED  BY <2>1 DEF Fixed, CodeFrames, FramesAccounted, DataFrames
<1>11. PrivatePages'
  <2>1. \A t \in Task, p \in Data : T[t][p] # f
    BY <1>3, Accounted DEF MIInv
  <2>2. \A s, t \in Task : \A p, q \in Data :
          T'[s][p] # 0 /\ T'[s][p] = T'[t][q] => s = t /\ p = q
    BY <1>6, <2>1 DEF MIInv, PrivatePages
  <2>3. \A t \in Task : DataFrames(t)' \cap Fixed = {}
    BY <1>3, <1>6 DEF MIInv, PrivatePages, DataFrames, Fixed
  <2>4. \A t \in live' : \A p \in Data : T'[t][p] # 0
    BY <1>1, <1>6 DEF MIInv, PrivatePages
  <2> QED  BY <2>2, <2>3, <2>4 DEF PrivatePages, Fixed, CodeFrames
<1>12. NoStaleTLB'
  BY <1>8 DEF NoStaleTLB
<1>13. Spaces'
  <2>1. \A p \in Data : p < pag' <=> p < pag \/ p = pag
    BY <1>1, MemoryAssumption DEF Data
  <2> QED  BY <1>1, <1>3, <1>6, <1>8, <2>1 DEF MIInv, Spaces, forking
<1> QED  BY <1>9, <1>10, <1>11, <1>12, <1>13 DEF MIInv

(* sys_fork giving back the frames it took keeps the invariant. *)
LEMMA ForkFail ==
  ASSUME MIInv, fork_fail
  PROVE  MIInv'
<1> DEFINE T == pagusr_table
           S == 0 .. pag - 1
<1>1. /\ child \in Task /\ child \notin live /\ cr3 \in live /\ cr3 # child
      /\ pag \in 0 .. NUM_PAG_DATA /\ child' = NULL /\ pag' = 0
      /\ UNCHANGED <<content, cr3, tlb, live>>
      /\ phys_mem' = free_frame({T[child][p] : p \in S})
      /\ T' = [T EXCEPT ![child] = [p \in Page |-> IF p \in S THEN 0 ELSE @[p]]]
  BY DEF fork_fail, forking, MIInv, Spaces, MTypeOK
<1>2. S \in SUBSET Data /\ \A p \in Data : p \in S <=> p < pag
  BY <1>1, MemoryAssumption DEF Data
<1>3. T \in [Task -> [Page -> Frame]] /\ Data \subseteq Page /\ 0 \in Frame
      /\ live \subseteq Task /\ cr3 \in Task
  BY Constants DEF MIInv, MTypeOK
<1> HIDE DEF S
<1>4. T' \in [Task -> [Page -> Frame]]
  BY <1>1, <1>3
<1>5. \A t \in Task, p \in Data : T'[t][p] = IF t = child /\ p \in S THEN 0 ELSE T[t][p]
  BY <1>1, <1>3
<1>6. FramesAccounted' /\ PrivatePages'
  BY <1>1, <1>2, <1>3, <1>5, Release, Zenon DEF MIInv
<1>7. MTypeOK'
  <2>1. phys_mem' \subseteq Frame /\ 0 \in 0 .. NUM_PAG_DATA
    BY <1>1, MemoryAssumption DEF free_frame, MIInv, MTypeOK
  <2> QED  BY <1>1, <1>4, <2>1 DEF MIInv, MTypeOK
<1>8. NoStaleTLB'
  <2>1. T'[cr3] = T[cr3]
    BY <1>1, <1>3
  <2> QED  BY <1>1, <2>1 DEF MIInv, NoStaleTLB
<1>9. Spaces'
  <2>1. \A t \in Task \ live : \A p \in Data : T'[t][p] = 0
    BY <1>1, <1>2, <1>3, <1>5 DEF MIInv, Spaces
  <2> QED  BY <1>1, <2>1, Constants DEF MIInv, Spaces, forking
<1> QED  BY <1>6, <1>7, <1>8, <1>9 DEF MIInv

(* The end of the copy in sys_fork keeps the invariant. *)
LEMMA ForkEnd ==
  ASSUME MIInv, fork_end
  PROVE  MIInv'
<1>1. /\ child \in Task /\ child # idle_task /\ child \notin live /\ cr3 \in live
      /\ pag = NUM_PAG_DATA /\ child' = NULL /\ pag' = 0
      /\ live' = live \cup {child} /\ cr3' = cr3 /\ tlb' = {}
      /\ UNCHANGED <<phys_mem, pagusr_table, content>>
  BY DEF fork_end, set_cr3, forking, MIInv, Spaces, MTypeOK
<1>2. \A p \in Data : p < pag
  BY <1>1, MemoryAssumption DEF Data
<1>3. \A p \in Data : pagusr_table[child][p] # 0
  BY <1>1, <1>2 DEF MIInv, Spaces
<1>4. MTypeOK'
  <2>1. 0 \in 0 .. NUM_PAG_DATA
    BY MemoryAssumption
  <2> QED  BY <1>1, <2>1 DEF MIInv, MTypeOK
<1>5. FramesAccounted'
  BY <1>1 DEF MIInv, FramesAccounted, DataFrames, CodeFrames
<1>6. PrivatePages'
  BY <1>1, <1>3 DEF MIInv, PrivatePages, DataFrames, CodeFrames
<1>7. NoStaleTLB'
  BY <1>1 DEF NoStaleTLB
<1>8. Spaces'
  <2>1. \A t \in Task \ live' : \A p \in Data : pagusr_table[t][p] = 0
    BY <1>1 DEF MIInv, Spaces
  <2> QED  BY <1>1, <2>1, Constants DEF MIInv, Spaces, forking
<1> QED  BY <1>4, <1>5, <1>6, <1>7, <1>8 DEF MIInv

(* Loading cr3, which empties the TLB, keeps the invariant. *)
LEMMA TaskSwitch ==
  ASSUME MIInv, NEW next \in Task, task_switch(next)
  PROVE  MIInv'
<1>1. /\ child = NULL /\ next \in live \cup {idle_task} /\ cr3' = next /\ tlb' = {}
      /\ UNCHANGED <<phys_mem, pagusr_table, content, live, child, pag>>
  BY DEF task_switch, set_cr3, forking
<1>2. MTypeOK'
  BY <1>1 DEF MIInv, MTypeOK
<1>3. FramesAccounted' /\ PrivatePages'
  BY <1>1, SameData DEF MIInv, MTypeOK
<1>4. NoStaleTLB' /\ Spaces'
  BY <1>1 DEF MIInv, NoStaleTLB, Spaces, forking
<1> QED  BY <1>2, <1>3, <1>4 DEF MIInv

(* sys_exit, freeing the pages and leaving the process, keeps the invariant. *)
LEMMA Exit ==
  ASSUME MIInv, NEW next \in Task, exit(next)
  PROVE  MIInv'
<1> DEFINE T == pagusr_table
<1>1. /\ child = NULL /\ next \in (live \ {cr3}) \cup {idle_task}
      /\ cr3' = next /\ tlb' = {} /\ live' = live \ {cr3}
      /\ UNCHANGED <<content, child, pag>>
      /\ phys_mem' = free_frame({T[cr3][p] : p \in Data})
      /\ T' = [T EXCEPT ![cr3] = [p \in Page |-> IF p \in Data THEN 0 ELSE @[p]]]
  BY DEF exit, set_cr3, forking
<1>2. T \in [Task -> [Page -> Frame]] /\ Data \subseteq Page /\ 0 \in Frame
      /\ cr3 \in Task /\ live \subseteq Task
  BY Constants DEF MIInv, MTypeOK
<1>3. T' \in [Task -> [Page -> Frame]]
  BY <1>1, <1>2
<1>4. \A t \in Task, p \in Data : T'[t][p] = IF t = cr3 /\ p \in Data THEN 0 ELSE T[t][p]
  BY <1>1, <1>2
<1>5. FramesAccounted' /\ PrivatePages'
  BY <1>1, <1>2, <1>4, Release, Zenon DEF MIInv
<1>6. MTypeOK'
  <2>1. phys_mem' \subseteq Frame
    BY <1>1 DEF free_frame, MIInv, MTypeOK
  <2> QED  BY <1>1, <1>3, <2>1 DEF MIInv, MTypeOK
<1>7. NoStaleTLB'
  BY <1>1 DEF NoStaleTLB
<1>8. Spaces'
  <2>1. \A t \in Task \ live' : \A p \in Data : T'[t][p] = 0
    BY <1>1, <1>4, Constants DEF MIInv, Spaces
  <2> QED  BY <1>1, <2>1, Constants DEF MIInv, Spaces, forking
<1> QED  BY <1>5, <1>6, <1>7, <1>8 DEF MIInv

-----------------------------------------------------------------------------
(* The invariant.                                                          *)

(* The memory invariant holds initially. *)
LEMMA MemoryStarts == MInit => MIInv
<1> SUFFICES ASSUME MInit
             PROVE  MIInv
  OBVIOUS
<1> DEFINE T == pagusr_table
<1>1. /\ phys_mem = init_frames \cup {boot_frame(p) : p \in Data \cup Code}
      /\ T = [t \in Task |-> [p \in Page |->
           IF t = 1 /\ p # temp_pag THEN boot_frame(p) ELSE 0]]
      /\ content = [f \in Frame |-> 0] /\ cr3 = 1 /\ tlb = {} /\ live = {1}
      /\ child = NULL /\ pag = 0
  BY DEF MInit
<1>2. \A p \in Page : p # temp_pag => p \in Data \cup Code
  BY MemoryAssumption DEF Page, Data, Code, temp_pag
<1>3. 1 \in Task /\ 1 # idle_task /\ 0 \in 0 .. NUM_PAG_DATA /\ 0 \in Value
  BY MemoryAssumption, TasksAssumption DEF Task, idle_task
<1>4. T \in [Task -> [Page -> Frame]]
  BY <1>1, <1>2, BootFrames, Constants
<1>5. phys_mem \subseteq Frame
  BY <1>1, BootFrames, Constants DEF Fixed
<1>6. MTypeOK
  BY <1>1, <1>3, <1>4, <1>5 DEF MTypeOK
<1>7. \A t \in Task, p \in Data : T[t][p] = IF t = 1 THEN boot_frame(p) ELSE 0
  BY <1>1, Constants
<1>8. \A p \in Data : boot_frame(p) # 0 /\ boot_frame(p) \notin Fixed
  <2>1. \A p \in Data : boot_frame(p) \notin init_frames /\ boot_frame(p) # 0
    BY BootFrames, MemoryAssumption, Constants DEF init_frames
  <2>2. \A p \in Data : boot_frame(p) \notin CodeFrames
    BY BootFrames, Constants DEF CodeFrames
  <2> QED  BY <2>1, <2>2 DEF Fixed
<1>9. FramesAccounted
  <2>1. \A f : f \in phys_mem <=>
          f \in Fixed \/ (f # 0 /\ \E t \in Task, p \in Data : T[t][p] = f)
    <3> TAKE f
    <3>1. (f # 0 /\ \E t \in Task, p \in Data : T[t][p] = f)
            <=> \E p \in Data : boot_frame(p) = f
      BY <1>3, <1>7, <1>8
    <3>2. f \in phys_mem <=> f \in Fixed \/ \E p \in Data : boot_frame(p) = f
      BY <1>1 DEF Fixed, CodeFrames
    <3> QED  BY <3>1, <3>2
  <2> QED  BY <2>1, Accounted
<1>10. PrivatePages
  <2>1. \A s, t \in Task : \A p, q \in Data : T[s][p] # 0 /\ T[s][p] = T[t][q]
          => s = t /\ p = q
    BY <1>7, BootFrames
  <2>2. \A t \in Task : DataFrames(t) \cap Fixed = {}
    BY <1>7, <1>8 DEF DataFrames
  <2>3. \A t \in live : \A p \in Data : T[t][p] # 0
    BY <1>1, <1>3, <1>7, <1>8
  <2> QED  BY <2>1, <2>2, <2>3 DEF PrivatePages, Fixed
<1>11. NoStaleTLB /\ Spaces
  <2>1. \A t \in Task \ live : \A p \in Data : T[t][p] = 0 /\ t # child
    BY <1>1, <1>7, Constants
  <2> QED  BY <1>1, <2>1 DEF NoStaleTLB, Spaces, forking
<1> QED  BY <1>6, <1>9, <1>10, <1>11 DEF MIInv

(* Every step keeps the memory invariant. *)
LEMMA MemoryStep == MIInv /\ [MNext]_memVars => MIInv'
<1> SUFFICES ASSUME MIInv, [MNext]_memVars
             PROVE  MIInv'
  OBVIOUS
<1>1. CASE UNCHANGED memVars
  <2>1. MTypeOK' /\ NoStaleTLB' /\ Spaces'
    BY <1>1 DEF memVars, MIInv, MTypeOK, NoStaleTLB, Spaces, forking
  <2>2. FramesAccounted' /\ PrivatePages'
    BY <1>1, SameData DEF memVars, MIInv, MTypeOK
  <2> QED  BY <2>1, <2>2 DEF MIInv
<1>2. CASE MNext
  BY <1>2, UserWrite, ForkStart, ForkPage, ForkFail, ForkEnd, TaskSwitch, Exit DEF MNext
<1> QED  BY <1>1, <1>2

(* The strengthening is an invariant of paging on its own.                 *)
THEOREM MemoryInv == MSpec => []MIInv
  BY MemoryStarts, MemoryStep, PTL DEF MSpec

(* Page tables, TLB and the child of a fork stay within the frames, pages  *)
(* and slots there are, for every amount of memory.                        *)
THEOREM MTypeCorrect == MSpec => []MTypeOK
  BY MemoryInv, PTL DEF MIInv

(* alloc_frame, free_frame and the fork loop keep exact account of frames, *)
(* for every amount of memory and every point where a fork runs out of it. *)
THEOREM FramesAccountedHolds == MSpec => []FramesAccounted
  BY MemoryInv, PTL DEF MIInv

(* No frame is ever the data page of two processes.                        *)
THEOREM PrivatePagesHolds == MSpec => []PrivatePages
  BY MemoryInv, PTL DEF MIInv

(* No access is ever made through a stale translation.                     *)
THEOREM NoStaleTLBHolds == MSpec => []NoStaleTLB
  BY MemoryInv, PTL DEF MIInv

-----------------------------------------------------------------------------
(* The refinement.                                                         *)

(* The pages a running fork has filled equal the parent's.                 *)
Copied == forking => \A p \in Data : p < pag =>
            content[pagusr_table[child][p]] = content[pagusr_table[cr3][p]]

abstractVars == <<Images, cr3>>

-----------------------------------------------------------------------------
(* Images.                                                                 *)

(* What the refinement mapping gives for each process. *)
LEMMA ImageOf ==
  ASSUME live \subseteq Task
  PROVE  /\ \A t \in live : Images[t] = [p \in Data |-> content[pagusr_table[t][p]]]
         /\ \A t \in Task \ live : Images[t] = Abstract!NoImage
  BY DEF Images, Abstract!NoImage

(* A process has a memory, which is not the memory of a free slot.         *)
LEMMA HasMemory ==
  ASSUME live \subseteq Task, NEW t \in live
  PROVE  ~ Abstract!NoMemory(t)
<1>1. DOMAIN Images[t] = Data
  BY ImageOf, Zenon
<1>2. 0 \in Data
  BY MemoryAssumption DEF Data
<1>3. DOMAIN Abstract!NoImage = {}
  BY DEF Abstract!NoImage
<1> QED  BY <1>1, <1>2, <1>3 DEF Abstract!NoMemory

(* Steps after which every page of every process reads as before.          *)
LEMMA SameImages ==
  ASSUME live \subseteq Task, live' = live,
         \A t \in live, p \in Data :
           content'[pagusr_table'[t][p]] = content[pagusr_table[t][p]]
  PROVE  Images' = Images
  BY DEF Images

-----------------------------------------------------------------------------
(* One lemma per action.                                                   *)

(* A store reaches the page it names and no other.                         *)
LEMMA WriteRefines ==
  ASSUME MIInv, NEW p \in Data, NEW v \in Value, user_write(p, v)
  PROVE  Abstract!Write(p, v) /\ Copied'
<1> DEFINE T == pagusr_table
<1>1. PICK f \in Translations(T[cr3], p) : content' = [content EXCEPT ![f] = v]
  BY Zenon DEF user_write
<1>2. /\ child = NULL /\ cr3 \in live
      /\ UNCHANGED <<phys_mem, pagusr_table, cr3, live, child, pag>>
  BY DEF user_write, forking, MIInv, Spaces
<1>3. f = T[cr3][p]
  BY <1>1, Translate DEF MIInv
<1>4. /\ live \subseteq Task /\ content \in [Frame -> Value]
      /\ \A t \in Task, q \in Data : T[t][q] \in Frame
  BY Constants DEF MIInv, MTypeOK
<1>5. \A t \in live, q \in Data : content'[T[t][q]] =
        IF t = cr3 /\ q = p THEN v ELSE content[T[t][q]]
  BY <1>1, <1>2, <1>3, <1>4 DEF MIInv, PrivatePages
<1>6. Images' = [Images EXCEPT ![cr3][p] = v]
  <2> DEFINE new == [Images EXCEPT ![cr3][p] = v]
  <2>1. new = [t \in Task |-> new[t]] /\ Images' = [t \in Task |-> Images'[t]]
    BY Zenon DEF Images
  <2>2. ASSUME NEW t \in Task PROVE Images'[t] = new[t]
    <3>1. CASE t = cr3
      <4>1. Images[cr3] = [q \in Data |-> content[T[cr3][q]]]
        BY <1>2, <1>4, ImageOf
      <4>2. new[t] = [Images[cr3] EXCEPT ![p] = v]
        BY <3>1 DEF Images
      <4>3. Images'[t] = [q \in Data |-> content'[T[cr3][q]]]
        BY <1>2, <1>4, <3>1 DEF Images
      <4> QED  BY <1>2, <1>5, <4>1, <4>2, <4>3
    <3>2. CASE t # cr3 /\ t \in live
      <4>1. Images'[t] = [q \in Data |-> content'[T[t][q]]]
        BY <1>2, <3>2 DEF Images
      <4>2. Images[t] = [q \in Data |-> content[T[t][q]]]
        BY <3>2 DEF Images
      <4> QED  BY <1>5, <3>2, <4>1, <4>2 DEF Images
    <3>3. CASE t \notin live
      BY <1>2, <3>3 DEF Images
    <3> QED  BY <3>1, <3>2, <3>3
  <2> QED  BY <2>1, <2>2
<1> QED  BY <1>2, <1>4, <1>6, HasMemory DEF Abstract!Write, Copied, forking

(* Sharing the code with the child changes no data page.                   *)
LEMMA ForkStartRefines ==
  ASSUME MIInv, NEW new \in Task, fork_start(new)
  PROVE  UNCHANGED abstractVars /\ Copied'
<1>1. /\ new \notin live /\ pag' = 0 /\ UNCHANGED <<content, cr3, live>>
      /\ pagusr_table' = [pagusr_table EXCEPT ![new] =
           [p \in Page |-> IF p \in Code THEN pagusr_table[cr3][p] ELSE @[p]]]
      /\ pagusr_table \in [Task -> [Page -> Frame]] /\ live \subseteq Task
  BY DEF fork_start, MIInv, MTypeOK
<1>2. \A t \in live : pagusr_table'[t] = pagusr_table[t]
  BY <1>1
<1>3. \A p \in Data : ~ (p < 0)
  BY MemoryAssumption DEF Data
<1> QED  BY <1>1, <1>2, <1>3, SameImages DEF abstractVars, Copied

(* Copying a page writes a frame nobody else sees.                         *)
LEMMA ForkPageRefines ==
  ASSUME MIInv, Copied, fork_page
  PROVE  UNCHANGED abstractVars /\ Copied'
<1> DEFINE T == pagusr_table
<1>1. /\ child \in Task /\ child \notin live /\ cr3 \in live /\ cr3 \in Task
      /\ pag \in Data /\ pag \in Nat /\ pag' = pag + 1 /\ forking
      /\ live' = live /\ child' = child /\ live \subseteq Task
  BY MemoryAssumption DEF fork_page, forking, MIInv, Spaces, MTypeOK, Data
<1>2. PICK f \in free_frames :
        /\ T' = [T EXCEPT ![child][pag] = f, ![cr3][temp_pag] = 0]
        /\ copy_page(f)
  BY Zenon DEF fork_page
<1>3. f \in Frame /\ f # 0 /\ \A t \in Task, p \in Data : T[t][p] # f
  BY <1>2, Constants, Accounted DEF free_frames, MIInv
<1>4. /\ T \in [Task -> [Page -> Frame]] /\ content \in [Frame -> Value]
      /\ pag \in Page /\ temp_pag \in Page /\ temp_pag \notin Data
      /\ \A t \in Task, p \in Data : T[t][p] \in Frame
  BY <1>1, Constants DEF MIInv, MTypeOK
<1>5. \A t \in Task, p \in Data : T'[t][p] = IF t = child /\ p = pag THEN f ELSE T[t][p]
  BY <1>1, <1>2, <1>4, Constants
<1>6. cr3' = cr3 /\ content' = [content EXCEPT ![f] = content[T[cr3][pag]]]
  <2>1. PICK src \in Translations(T[cr3], pag),
             dst \in {f} \cup {g \in Frame : <<temp_pag, g>> \in tlb} :
               content' = [content EXCEPT ![dst] = content[src]]
    BY <1>2, Zenon DEF copy_page
  <2>2. src = T[cr3][pag]
    BY <2>1, Translate DEF MIInv
  <2>3. \A g \in Frame : <<temp_pag, g>> \notin tlb
    BY <1>4 DEF MIInv, Spaces
  <2> QED  BY <1>2, <2>1, <2>2, <2>3, Zenon DEF copy_page, set_cr3
<1>7. \A t \in Task, p \in Data : content'[T[t][p]] = content[T[t][p]]
  BY <1>3, <1>4, <1>6
<1>8. content'[f] = content[T[cr3][pag]]
  BY <1>3, <1>4, <1>6
<1>9. Images' = Images
  BY <1>1, <1>5, <1>7, SameImages
<1>10. Copied'
  <2> SUFFICES ASSUME NEW p \in Data, p < pag'
               PROVE  content'[T'[child][p]] = content'[T'[cr3][p]]
    BY <1>1, <1>6 DEF Copied
  <2>1. p < pag \/ p = pag
    BY <1>1, MemoryAssumption DEF Data
  <2>2. T'[cr3][p] = T[cr3][p]
    BY <1>1, <1>5
  <2>3. CASE p = pag
    BY <1>1, <1>5, <1>7, <1>8, <2>2, <2>3
  <2>4. CASE p < pag /\ p # pag
    <3>1. content[T[child][p]] = content[T[cr3][p]]
      BY <1>1, <2>4 DEF Copied
    <3> QED  BY <1>1, <1>5, <1>7, <2>2, <2>4, <3>1
  <2> QED  BY <2>1, <2>3, <2>4
<1> QED  BY <1>6, <1>9, <1>10 DEF abstractVars

(* A fork that fails leaves every memory as it was.                        *)
LEMMA ForkFailRefines ==
  ASSUME MIInv, fork_fail
  PROVE  UNCHANGED abstractVars /\ Copied'
<1>1. /\ child \notin live /\ child' = NULL /\ UNCHANGED <<content, cr3, live>>
      /\ pagusr_table' = [pagusr_table EXCEPT ![child] =
           [p \in Page |-> IF p \in 0 .. pag - 1 THEN 0 ELSE @[p]]]
      /\ pagusr_table \in [Task -> [Page -> Frame]] /\ live \subseteq Task
  BY DEF fork_fail, MIInv, MTypeOK, Spaces
<1>2. \A t \in live : pagusr_table'[t] = pagusr_table[t]
  BY <1>1
<1> QED  BY <1>1, <1>2, SameImages DEF abstractVars, Copied, forking

(* The end of the loop is the fork: the child's memory is a copy.          *)
LEMMA ForkEndRefines ==
  ASSUME MIInv, Copied, fork_end
  PROVE  Abstract!Fork(child) /\ Copied'
<1>1. /\ child \in Task /\ child \notin live /\ cr3 \in live /\ cr3 \in Task /\ forking
      /\ pag = NUM_PAG_DATA /\ child' = NULL /\ live \subseteq Task
      /\ live' = live \cup {child} /\ cr3' = cr3
      /\ UNCHANGED <<pagusr_table, content>>
  BY DEF fork_end, set_cr3, forking, MIInv, Spaces, MTypeOK
<1>2. \A p \in Data : content[pagusr_table[child][p]] = content[pagusr_table[cr3][p]]
  BY <1>1, MemoryAssumption DEF Copied, Data
<1>3. Images'[child] = Images[cr3]
  <2>1. Images'[child] = [p \in Data |-> content[pagusr_table[child][p]]]
    BY <1>1 DEF Images
  <2>2. Images[cr3] = [p \in Data |-> content[pagusr_table[cr3][p]]]
    BY <1>1 DEF Images
  <2> QED  BY <1>2, <2>1, <2>2
<1>4. \A t \in Task : t # child => Images'[t] = Images[t]
  BY <1>1 DEF Images
<1>5. Images' = [Images EXCEPT ![child] = Images[cr3]]
  <2>1. Images' = [t \in Task |-> Images'[t]] /\ DOMAIN Images = Task
    BY DEF Images
  <2> QED  BY <1>3, <1>4, <2>1
<1>6. Abstract!NoMemory(child) /\ ~ Abstract!NoMemory(cr3)
  BY <1>1, ImageOf, HasMemory DEF Abstract!NoMemory
<1> QED  BY <1>1, <1>5, <1>6 DEF Abstract!Fork, Copied, forking

(* A task switch moves no memory.                                          *)
LEMMA SwitchRefines ==
  ASSUME MIInv, NEW next \in Task, task_switch(next)
  PROVE  Abstract!Switch(next) /\ Copied'
<1>1. /\ cr3 \in live /\ cr3' = next /\ child' = child /\ child = NULL
      /\ UNCHANGED <<pagusr_table, content, live>> /\ live \subseteq Task
  BY DEF task_switch, set_cr3, forking, MIInv, Spaces, MTypeOK
<1>2. Images' = Images
  BY <1>1, SameImages
<1> QED  BY <1>1, <1>2, HasMemory DEF Abstract!Switch, Copied, forking

(* exit removes the caller's memory and no other.                          *)
LEMMA ExitRefines ==
  ASSUME MIInv, NEW next \in Task, exit(next)
  PROVE  Abstract!Exit(next) /\ Copied'
<1>1. /\ cr3 \in live /\ cr3 \in Task /\ cr3' = next /\ child' = child /\ child = NULL
      /\ live' = live \ {cr3} /\ content' = content /\ live \subseteq Task
      /\ pagusr_table' = [pagusr_table EXCEPT ![cr3] =
           [p \in Page |-> IF p \in Data THEN 0 ELSE @[p]]]
      /\ pagusr_table \in [Task -> [Page -> Frame]]
  BY DEF exit, set_cr3, forking, MIInv, Spaces, MTypeOK
<1>2. Images'[cr3] = Abstract!NoImage
  BY <1>1 DEF Images, Abstract!NoImage
<1>3. \A t \in Task : t # cr3 => Images'[t] = Images[t]
  <2>1. \A t \in Task : t # cr3 => pagusr_table'[t] = pagusr_table[t]
    BY <1>1
  <2> QED  BY <1>1, <2>1 DEF Images
<1>4. Images' = [Images EXCEPT ![cr3] = Abstract!NoImage]
  <2>1. Images' = [t \in Task |-> Images'[t]] /\ DOMAIN Images = Task
    BY DEF Images
  <2> QED  BY <1>2, <1>3, <2>1
<1> QED  BY <1>1, <1>4, HasMemory DEF Abstract!Exit, Copied, forking

-----------------------------------------------------------------------------
(* The refinement.                                                         *)

(* Initial states map to initial states of AddressSpaces. *)
LEMMA RefinementStarts == MInit => Abstract!SInit /\ Copied
<1> SUFFICES ASSUME MInit PROVE Abstract!SInit /\ Copied
  OBVIOUS
<1>1. /\ live = {1} /\ cr3 = 1 /\ content = [f \in Frame |-> 0] /\ child = NULL
      /\ 1 \in Task
  BY TasksAssumption DEF MInit, Task
<1>2. \A p \in Data : pagusr_table[1][p] \in Frame
  BY <1>1, MemoryStarts, Constants DEF MIInv, MTypeOK
<1>3. Images = [s \in Task |-> IF s = 1 THEN [p \in Data |-> 0] ELSE Abstract!NoImage]
  <2>1. Images[1] = [p \in Data |-> 0]
    BY <1>1, <1>2 DEF Images
  <2>2. \A s \in Task : s # 1 => Images[s] = Abstract!NoImage
    BY <1>1, ImageOf
  <2>3. Images = [s \in Task |-> Images[s]]
    BY DEF Images
  <2> QED  BY <1>1, <2>1, <2>2, <2>3
<1> QED  BY <1>1, <1>3 DEF Abstract!SInit, Copied, forking

(* Every step maps to a step of AddressSpaces or a stutter. *)
LEMMA RefinementStep ==
  ASSUME MIInv, Copied, [MNext]_memVars
  PROVE  [Abstract!SNext]_abstractVars /\ Copied'
<1>1. ASSUME NEW p \in Data, NEW v \in Value, user_write(p, v)
      PROVE  Abstract!SNext /\ Copied'
  BY <1>1, WriteRefines DEF Abstract!SNext
<1>2. ASSUME NEW new \in Task, fork_start(new)
      PROVE  UNCHANGED abstractVars /\ Copied'
  BY <1>2, ForkStartRefines
<1>3. ASSUME fork_end
      PROVE  Abstract!SNext /\ Copied'
  <2>1. child \in Task
    BY <1>3 DEF fork_end, forking, MIInv, MTypeOK
  <2> QED  BY <1>3, <2>1, ForkEndRefines DEF Abstract!SNext
<1>4. ASSUME NEW next \in Task, task_switch(next) \/ exit(next)
      PROVE  Abstract!SNext /\ Copied'
  BY <1>4, SwitchRefines, ExitRefines DEF Abstract!SNext
<1>5. ASSUME UNCHANGED memVars
      PROVE  UNCHANGED abstractVars /\ Copied'
  BY <1>5, SameImages DEF memVars, abstractVars, Copied, forking, MIInv, MTypeOK
<1> QED  BY <1>1, <1>2, <1>3, <1>4, <1>5, ForkPageRefines, ForkFailRefines DEF MNext

(* User code sees private memories, for any number of processes, pages and *)
(* frames: paging implements AddressSpaces.                                *)
THEOREM PrivateMemoriesHolds == MSpec => PrivateMemories
<1>1. MIInv /\ Copied /\ [MNext]_memVars => Copied'
  BY RefinementStep
<1>2. MIInv /\ Copied /\ [MNext]_memVars => [Abstract!SNext]_abstractVars
  BY RefinementStep
<1> QED  BY <1>1, <1>2, RefinementStarts, MemoryInv, PTL
         DEF MSpec, PrivateMemories, Abstract!SSpec, abstractVars
=============================================================================
