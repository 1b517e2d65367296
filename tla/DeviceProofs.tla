---------------------------- MODULE DeviceProofs ----------------------------
(***************************************************************************)
(* Proofs about the code that drives disk and screen, Loader, Image and    *)
(* Console, for every geometry, segment size, length of the two files and  *)
(* size of the screen.                                                     *)
(*                                                                         *)
(* Loader: the inductive invariant relates the two positions the loop      *)
(* advances independently: the place on the disk is always one sector      *)
(* ahead of the place in memory.  Image: what the builder has written so   *)
(* far, and that the loop ends behind the last sector of it.  Console:     *)
(* every cell holds the latest character whose place on the strip of all   *)
(* text falls there.                                                       *)
(***************************************************************************)
EXTENDS Image, Console, TLAPS, WellFoundedInduction


-----------------------------------------------------------------------------
(* Loader.                                                                 *)

(* The positions are legal and in step.                                    *)
InStep ==
  /\ sectors \in Geometry /\ syssize \in Nat
  /\ head \in {0, 1} /\ track \in Nat /\ es \in Nat
  /\ sread \in 0 .. sectors - 1 /\ bx \in 0 .. SEGMENT - 1
  /\ source = destination + 1

LIInv == InStep /\ memory \in [Below -> Int] /\ LoadedInOrder

(* What one request asks for.                                              *)
LEMMA Count ==
  ASSUME InStep
  PROVE  /\ count \in Nat /\ count >= 1
         /\ sread + count <= sectors /\ bx + count <= SEGMENT
  BY LoaderAssumption DEF InStep, count

(* Both positions move by the same number of sectors.                      *)
LEMMA Advance ==
  ASSUME InStep, advance_disk(count), advance_memory(count),
         UNCHANGED <<sectors, syssize>>
  PROVE  InStep' /\ destination' = destination + count
<1>1. /\ count \in Nat /\ count >= 1 /\ sread + count <= sectors
      /\ bx + count <= SEGMENT
  BY Count
<1> DEFINE n == count
<1> HIDE DEF n
<1>2. /\ n \in Nat /\ n >= 1 /\ sread + n <= sectors /\ bx + n <= SEGMENT
      /\ advance_disk(n) /\ advance_memory(n)
  BY <1>1 DEF n
<1>3. sectors \in Nat /\ sectors >= 2 /\ SEGMENT \in Nat /\ SEGMENT >= 1
  BY LoaderAssumption DEF InStep
<1>4. /\ destination' = destination + n
      /\ es' \in Nat /\ bx' \in 0 .. SEGMENT - 1
  <2>1. CASE bx + n >= SEGMENT
    <3>1. es' = es + 1 /\ bx' = 0 /\ bx + n = SEGMENT
      BY <1>2, <1>3, <2>1 DEF InStep, advance_memory
    <3>2. (es + 1) * SEGMENT = es * SEGMENT + SEGMENT
      BY <1>3 DEF InStep
    <3> QED  BY <3>1, <3>2, <1>2, <1>3 DEF InStep, destination
  <2>2. CASE ~ (bx + n >= SEGMENT)
    BY <1>2, <1>3, <2>2 DEF InStep, advance_memory, destination
  <2> QED  BY <2>1, <2>2
<1>5. /\ source' = source + n /\ head' \in {0, 1} /\ track' \in Nat
      /\ sread' \in 0 .. sectors - 1
  <2>1. CASE sread + n = sectors
    <3>1. sread' = 0 /\ head' = 1 - head /\ track' = track + head
      BY <1>2, <2>1 DEF advance_disk
    <3>2. track' * 2 + head' = track * 2 + head + 1
      BY <3>1 DEF InStep
    <3> DEFINE side == track * 2 + head
    <3>3. side \in Nat
      BY DEF InStep
    <3> HIDE DEF side
    <3>4. (side + 1) * sectors = side * sectors + sectors
      BY <3>3, <1>3
    <3>5. source = side * sectors + sread /\ source' = (side + 1) * sectors
      BY <3>1, <3>2, <3>3, <1>3 DEF side, source, InStep
    <3>6. side * sectors \in Int
      BY <3>3, <1>3
    <3> QED  BY <3>1, <3>4, <3>5, <3>6, <2>1, <1>2, <1>3 DEF InStep
  <2>2. CASE sread + n # sectors
    <3>1. sread' = sread + n /\ head' = head /\ track' = track
      BY <1>2, <2>2 DEF advance_disk
    <3> QED  BY <3>1, <2>2, <1>2, <1>3 DEF InStep, source
  <2> QED  BY <2>1, <2>2
<1>6. source \in Int /\ destination \in Int
  BY <1>3 DEF InStep, source, destination
<1> QED  BY <1>2, <1>4, <1>5, <1>6 DEF InStep, n

(* One iteration extends what is loaded by the next sectors of the disk.   *)
LEMMA LoaderStep ==
  ASSUME LIInv, [\E ok \in BOOLEAN : rp_read(ok)]_loaderVars
  PROVE  LIInv'
<1>1. CASE UNCHANGED loaderVars
  BY <1>1 DEF loaderVars, LIInv, InStep, LoadedInOrder, source, destination
<1>2. ASSUME NEW ok \in BOOLEAN, rp_read(ok)
      PROVE  LIInv'
  <2>1. InStep' /\ destination' = destination + count
    BY <1>2, Advance DEF LIInv, rp_read
  <2>2. /\ count \in Nat /\ destination \in Int /\ source = destination + 1
        /\ Below \subseteq Int
    BY Count, LoaderAssumption DEF LIInv, InStep, destination, Below
  <2>3. /\ memory' = [a \in Below |->
             IF ok /\ a \in destination .. destination + count - 1
             THEN source + (a - destination) ELSE memory[a]]
        /\ failed' = (failed \/ ~ ok)
    BY <1>2 DEF rp_read, read_track
  <2>4. memory' \in [Below -> Int]
    BY <2>2, <2>3 DEF LIInv
  <2>5. LoadedInOrder'
    <3> SUFFICES ASSUME ~ failed', NEW a \in Below, a < destination'
                 PROVE  memory'[a] = a + 1
      BY DEF LoadedInOrder, Below
    <3>1. ok /\ ~ failed
      BY <2>3, Zenon
    <3>2. a \in Int /\ a < destination + count
      BY <2>1, <2>2
    <3>3. CASE a < destination
      BY <3>1, <3>2, <3>3, <2>2, <2>3 DEF LIInv, LoadedInOrder
    <3>4. CASE ~ (a < destination)
      BY <3>1, <3>2, <3>4, <2>2, <2>3
    <3> QED  BY <3>3, <3>4
  <2> QED  BY <2>1, <2>4, <2>5 DEF LIInv
<1> QED  BY <1>1, <1>2

(* The strengthened invariant holds throughout read_it. *)
LEMMA LoaderInv == LSpec => []LIInv
<1>1. LInit => LIInv
  BY LoaderAssumption DEF LInit, LIInv, InStep, LoadedInOrder, nothing_loaded,
     first_sector, source, destination, Below, NotLoaded
<1> QED  BY <1>1, LoaderStep, PTL DEF LSpec

(* read_it loads the sectors of the disk in order, for every number of     *)
(* sectors per track that fits into a segment.                             *)
THEOREM LoadedInOrderHolds == LSpec => []LoadedInOrder
  BY LoaderInv, PTL DEF LIInv

(* What one request may not do, in every state of the invariant.           *)
LEMMA Servable == LIInv => RequestsServable
<1> SUFFICES ASSUME LIInv, more
             PROVE  RequestsServable
  BY DEF RequestsServable
<1>1. syssize < ROOM * PARAGRAPHS => es < ROOM
  <2> SUFFICES ASSUME es >= ROOM
               PROVE  ~ (syssize < ROOM * PARAGRAPHS)
    BY LoaderAssumption DEF LIInv, InStep
  <2>1. es * PARAGRAPHS >= ROOM * PARAGRAPHS
    BY LoaderAssumption DEF LIInv, InStep
  <2> QED  BY <2>1, LoaderAssumption DEF LIInv, InStep, more
<1> QED  BY <1>1, Count DEF LIInv, RequestsServable

(* read_it never asks for nothing, for more than the rest of a track or of *)
(* a segment, nor, for an image below the limit, for memory from INITSEG   *)
(* on.                                                                     *)
THEOREM RequestsServableHolds == LSpec => []RequestsServable
  BY LoaderInv, Servable, PTL

-----------------------------------------------------------------------------
(* Image.                                                                  *)

(* The stages of main, by what has been set up when they begin: the first  *)
(* process's address space, its task_struct, idle's, the queues, paging.   *)
InUserSpace == {"copy_data", "enable_int", "return_gate", "usr_main"}
HasTask1 == {"set_user_pages"} \cup InUserSpace
HasIdle == {"init_task1"} \cup HasTask1
HasQueues == {"init_idle"} \cup HasIdle
HasPaging == {"init_sched"} \cup HasQueues
InMain == {"main", "init_mm"} \cup HasPaging

total == sys_size + usr_size

(* What belongs at place i of the image.                                   *)
unit_at(i) == IF i <= SECTOR THEN <<"bootsect", i>>
              ELSE IF i <= SECTOR + sys_size THEN <<"system", i - SECTOR>>
                                             ELSE <<"user", i - SECTOR - sys_size>>

(* The first n units of it.                                                *)
written(n) == [i \in 1 .. n |-> unit_at(i)]

Sizes == sys_size \in Nat \ {0} /\ usr_size \in Nat

(* The builder has written exactly what it has taken from the files.       *)
Building ==
  /\ stage = "system" => /\ left \in 0 .. sys_size
                         /\ zeos_bin = written(SECTOR + sys_size - left)
  /\ stage = "user" => /\ left \in 0 .. usr_size
                       /\ zeos_bin = written(SECTOR + total - left)
  /\ stage = "lengths" => zeos_bin = written(SECTOR + total)
  /\ stage \in {"read_it", "a20_wait"} \cup InMain =>
       /\ zeos_bin = [written(SECTOR + total) EXCEPT ![SECTOR + 1] = header]
       /\ syssize = im_size % (16 * PARAGRAPHS)

(* As long as the boot sector is whole the loop is below it; read_it has   *)
(* returned, and then the gate is open.                                    *)
Loading ==
  /\ a20 \in BOOLEAN
  /\ IF stage = "overwritten" THEN ~ loadable ELSE es < ROOM \/ (es = ROOM /\ bx = 0)
  /\ stage \in {"a20_wait"} \cup InMain => ~ more
  /\ stage \in InMain => a20

ImageInv == LIInv /\ Sizes /\ Building /\ Loading

-----------------------------------------------------------------------------
(* What the builder writes.                                                *)

(* The builder copies at most its buffer and at most what is left.         *)
LEMMA BlockSize ==
  ASSUME left \in Nat, left > 0
  PROVE  block_size \in 1 .. left
<1>1. \E x \in {left, BUF} : \A y \in {left, BUF} : x <= y
  BY ImageAssumption
<1>2. block_size \in {left, BUF} /\ \A y \in {left, BUF} : block_size <= y
  BY <1>1 DEF block_size, Min
<1> QED  BY <1>2, ImageAssumption

(* Two sequences with the same elements at the same places are equal.      *)
LEMMA SameElements ==
  ASSUME NEW S, NEW s \in Seq(S), NEW t \in Seq(S), Len(s) = Len(t),
         \A i \in 1 .. Len(s) : s[i] = t[i]
  PROVE  s = t
OBVIOUS

(* Appending the next block to what has been written.                      *)
LEMMA Appended ==
  ASSUME NEW n \in Nat, NEW b \in Nat, NEW file, NEW from \in Int,
         file \in {"bootsect", "system", "user"}, Sizes,
         \A i \in 1 .. b : unit_at(n + i) = <<file, from + i>>
  PROVE  written(n) \o unit(file, from, b) = written(n + b)
<1> DEFINE S == {"bootsect", "system", "user"} \X Int
<1>1. \A i \in Int : unit_at(i) \in S
  BY ImageAssumption DEF unit_at, Sizes
<1>2. /\ written(n) \in Seq(S) /\ Len(written(n)) = n
      /\ \A i \in 1 .. n : written(n)[i] = unit_at(i)
  BY <1>1 DEF written
<1>3. /\ written(n + b) \in Seq(S) /\ Len(written(n + b)) = n + b
      /\ \A i \in 1 .. n + b : written(n + b)[i] = unit_at(i)
  BY <1>1 DEF written
<1>4. /\ unit(file, from, b) \in Seq(S) /\ Len(unit(file, from, b)) = b
      /\ \A i \in 1 .. b : unit(file, from, b)[i] = <<file, from + i>>
  BY DEF unit
<1> DEFINE w == written(n)
           u == unit(file, from, b)
           v == written(n + b)
<1> HIDE DEF w, u, v, S
<1>5. /\ w \o u \in Seq(S) /\ Len(w \o u) = n + b
      /\ \A i \in 1 .. n + b : (w \o u)[i] = IF i <= n THEN w[i] ELSE u[i - n]
  <2>1. w \in Seq(S) /\ Len(w) = n /\ u \in Seq(S) /\ Len(u) = b
    BY <1>2, <1>4 DEF w, u
  <2> QED  BY <2>1
<1>6. \A i \in 1 .. n + b : (w \o u)[i] = v[i]
  <2> TAKE i \in 1 .. n + b
  <2>1. CASE i <= n
    BY <2>1, <1>2, <1>3, <1>5 DEF w, v
  <2>2. CASE ~ (i <= n)
    <3>1. i - n \in 1 .. b /\ n + (i - n) = i
      BY <2>2
    <3>2. u[i - n] = unit_at(i)
      BY <3>1, <1>4, Zenon DEF u
    <3> QED  BY <3>2, <2>2, <1>3, <1>5 DEF v
  <2> QED  BY <2>1, <2>2, Zenon
<1>7. w \o u = v
  BY <1>3, <1>5, <1>6, SameElements, SMTT(30) DEF v
<1> QED  BY <1>7 DEF w, u, v

(* The length in paragraphs covers the image, and is cut only if it does   *)
(* not fit its word.                                                       *)
LEMMA Paragraphs ==
  ASSUME Sizes
  PROVE  /\ im_size \in Nat
         /\ total <= im_size * PARA /\ PARA * im_size <= total + (PARA - 1)
         /\ im_size % (16 * PARAGRAPHS) \in Nat
         /\ im_size % (16 * PARAGRAPHS) <= im_size
         /\ im_size < 16 * PARAGRAPHS => im_size % (16 * PARAGRAPHS) = im_size
<1> DEFINE s == im_size
           m == 16 * PARAGRAPHS
<1>1. /\ PARA \in Nat /\ PARA >= 1 /\ total \in Nat /\ total >= 1
      /\ PARAGRAPHS \in Nat /\ PARAGRAPHS >= 1
  BY ImageAssumption, LoaderAssumption DEF Sizes, total
<1>2. m \in Nat /\ m >= 1
  BY <1>1
<1>3. s = (total + (PARA - 1)) \div PARA
  BY <1>1 DEF Sizes, total, im_size
<1> HIDE DEF s, m
<1>4. \A c, n \in Nat : c >= 1 =>
        n \div c \in Nat /\ c * (n \div c) <= n /\ n < c * (n \div c) + c
  BY SMT
<1>5. /\ s \in Nat /\ PARA * s <= total + (PARA - 1)
      /\ total + (PARA - 1) < PARA * s + PARA
  <2>1. total + (PARA - 1) \in Nat
    BY <1>1
  <2> QED  BY <1>1, <1>3, <1>4, <2>1
<1>6. total <= s * PARA
  BY <1>1, <1>5
<1>7. s % m \in Nat /\ s % m <= s /\ (s < m => s % m = s)
  <2>1. \A x, y \in Nat : y >= 1 => x % y \in Nat /\ x % y <= x /\ (x < y => x % y = x)
    BY SMT
  <2> QED  BY <2>1, <1>2, <1>5
<1> QED  BY <1>5, <1>6, <1>7 DEF s, m

(* ImageInv does not depend on the rest of the machine: main leaves image  *)
(* and memory below INITSEG alone.                                         *)
LEMMA ImageKept ==
  ASSUME ImageInv,
         UNCHANGED <<loaderVars, sys_size, usr_size, left, zeos_bin, a20>>,
         \/ stage' = stage
         \/ stage \in InMain /\ stage' \in InMain \cup {"crashed", "segmentation_fault"}
  PROVE  ImageInv'
<1>1. LIInv'
  BY LoaderStep DEF ImageInv
<1>2. Sizes'
  BY DEF ImageInv, Sizes, total
<1>3. \A n : written(n)' = written(n)
  BY DEF written, unit_at
<1>4. /\ header' = header /\ total' = total /\ (more' <=> more)
      /\ syssize' = syssize /\ im_size' = im_size /\ (loadable' <=> loadable)
      /\ es' = es /\ bx' = bx
  BY DEF header, total, more, loaderVars, im_size, loadable
<1>5. Building'
  <2>1. CASE stage' = stage
    BY <2>1, <1>3, <1>4 DEF ImageInv, Building
  <2>2. CASE stage \in InMain /\ stage' \in InMain \cup {"crashed", "segmentation_fault"}
    <3>1. stage' \notin {"system", "user", "lengths"}
      BY <2>2 DEF InMain, HasPaging, HasQueues, HasIdle, HasTask1, InUserSpace
    <3> QED  BY <3>1, <2>2, <1>3, <1>4 DEF ImageInv, Building
  <2> QED  BY <2>1, <2>2
<1>6. Loading'
  <2>1. CASE stage' = stage
    BY <2>1, <1>4 DEF ImageInv, Loading
  <2>2. CASE stage \in InMain /\ stage' \in InMain \cup {"crashed", "segmentation_fault"}
    <3>1. stage # "overwritten" /\ stage' \notin {"overwritten", "a20_wait"}
      BY <2>2 DEF InMain, HasPaging, HasQueues, HasIdle, HasTask1, InUserSpace
    <3> QED  BY <3>1, <2>2, <1>4 DEF ImageInv, Loading
  <2> QED  BY <2>1, <2>2
<1> QED  BY <1>1, <1>2, <1>5, <1>6 DEF ImageInv

(* The builder and the loader keep ImageInv, and main starts at its        *)
(* beginning.                                                              *)
LEMMA ImageStep ==
  ASSUME ImageInv, INext
  PROVE  /\ ImageInv' /\ stage \notin InMain \cup {"crashed", "segmentation_fault"}
         /\ stage' \notin (InMain \cup {"crashed", "segmentation_fault"}) \ {"main"}
<1> USE DEF InMain, HasPaging, HasQueues, HasIdle, HasTask1, InUserSpace
<1>1. /\ sys_size \in Nat /\ sys_size >= 1 /\ usr_size \in Nat /\ SECTOR \in Nat
      /\ SECTOR >= 1 /\ total = sys_size + usr_size /\ LIInv /\ Sizes
  BY ImageAssumption DEF ImageInv, Sizes, total
<1>2. ASSUME UNCHANGED <<sys_size, usr_size>>
      PROVE  /\ Sizes' /\ header' = header /\ total' = total
             /\ im_size' = im_size /\ (loadable' <=> loadable)
             /\ \A n : written(n)' = written(n) /\ unit_at(n)' = unit_at(n)
  BY <1>1, <1>2 DEF Sizes, total, header, im_size, loadable, written, unit_at
<1>3. ASSUME UNCHANGED loaderVars
      PROVE  LIInv' /\ (more' <=> more) /\ syssize' = syssize /\ es' = es /\ bx' = bx
  BY <1>1, <1>3, LoaderStep DEF more, loaderVars
<1>13. a20' \in BOOLEAN
  BY Zenon DEF INext, copy_bootsect, copy_block, file_copied, write_lengths, die, read_it,
         read_it_returns, gate_opens, a20_wait, ImageInv, Loading
<1>4. CASE copy_bootsect
  <2>1. /\ stage = "bootsect" /\ stage' = "system" /\ left' = sys_size
        /\ zeos_bin' = unit("bootsect", 0, SECTOR)
        /\ UNCHANGED loaderVars /\ UNCHANGED <<sys_size, usr_size>>
    BY <1>4 DEF copy_bootsect
  <2>2. unit("bootsect", 0, SECTOR) = written(SECTOR)
    BY <1>1 DEF unit, written, unit_at
  <2>3. SECTOR + sys_size - sys_size = SECTOR
    BY <1>1
  <2>4. Building'
    BY <2>1, <2>2, <2>3, <1>1, <1>2 DEF Building
  <2> QED  BY <2>1, <2>4, <1>2, <1>3, <1>13 DEF ImageInv, Loading
<1>5. CASE copy_block
  <2> DEFINE done == (IF stage = "system" THEN sys_size ELSE usr_size) - left
             b == block_size
             n == IF stage = "system" THEN SECTOR + sys_size - left
                                      ELSE SECTOR + total - left
  <2>1. /\ stage \in {"system", "user"} /\ left > 0 /\ stage' = stage
        /\ zeos_bin' = zeos_bin \o unit(stage, done, b) /\ left' = left - b
        /\ UNCHANGED loaderVars /\ UNCHANGED <<sys_size, usr_size>>
    BY <1>5 DEF copy_block
  <2>2. /\ left \in Nat /\ zeos_bin = written(n)
        /\ left <= IF stage = "system" THEN sys_size ELSE usr_size
    BY <2>1, <1>1 DEF ImageInv, Building
  <2>3. b \in 1 .. left
    BY <2>1, <2>2, BlockSize
  <2>4. n \in Nat /\ done \in Nat
    BY <2>1, <2>2, <1>1
  <2>5. \A i \in 1 .. b : unit_at(n + i) = <<stage, done + i>>
    BY <2>1, <2>2, <2>3, <2>4, <1>1 DEF unit_at
  <2> HIDE DEF done, b, n
  <2>6. written(n) \o unit(stage, done, b) = written(n + b)
    <3>1. /\ n \in Nat /\ b \in Nat /\ done \in Int /\ Sizes
          /\ stage \in {"bootsect", "system", "user"}
      BY <2>1, <2>2, <2>3, <2>4, <1>1
    <3> QED  BY <3>1, <2>5, Appended, Zenon
  <2>7. zeos_bin' = written(n + b)
    BY <2>1, <2>2, <2>6
  <2>8. /\ stage = "system" => n + b = SECTOR + sys_size - left'
        /\ stage = "user" => n + b = SECTOR + total - left'
        /\ left' \in Nat /\ left' <= left
    BY <2>1, <2>2, <2>3, <1>1 DEF n
  <2>9. Building'
    <3>1. CASE stage = "system"
      <4>1. left' \in 0 .. sys_size
        BY <3>1, <2>1, <2>2, <2>8, <1>1
      <4>2. zeos_bin' = [i \in 1 .. SECTOR + sys_size - left' |-> unit_at(i)]
        BY <3>1, <2>7, <2>8 DEF written
      <4>3. zeos_bin' = written(SECTOR + sys_size - left)'
        BY <4>2, <2>1, <1>2 DEF written
      <4> QED  BY <4>1, <4>3, <3>1, <2>1 DEF Building
    <3>2. CASE stage = "user"
      <4>1. left' \in 0 .. usr_size
        BY <3>2, <2>1, <2>2, <2>8, <1>1
      <4>2. zeos_bin' = [i \in 1 .. SECTOR + total - left' |-> unit_at(i)]
        BY <3>2, <2>7, <2>8 DEF written
      <4>3. zeos_bin' = written(SECTOR + total - left)'
        BY <4>2, <2>1, <1>2 DEF written
      <4> QED  BY <4>1, <4>3, <3>2, <2>1 DEF Building
    <3> QED  BY <3>1, <3>2, <2>1
  <2> QED  BY <2>1, <2>9, <1>2, <1>3, <1>13 DEF ImageInv, Loading
<1>6. CASE file_copied
  <2>1. /\ stage \in {"system", "user"} /\ left <= 0 /\ zeos_bin' = zeos_bin
        /\ stage = "system" => stage' = "user" /\ left' = usr_size
        /\ stage = "user" => stage' = "lengths" /\ left' = 0
        /\ UNCHANGED loaderVars /\ UNCHANGED <<sys_size, usr_size>>
    BY <1>6 DEF file_copied
  <2>2. left = 0
    BY <2>1, <1>1 DEF ImageInv, Building
  <2>3. /\ SECTOR + sys_size - 0 = SECTOR + total - usr_size
        /\ SECTOR + total - 0 = SECTOR + total
    BY <1>1
  <2>4. Building'
    BY <2>1, <2>2, <2>3, <1>1, <1>2 DEF ImageInv, Building
  <2> QED  BY <2>1, <2>4, <1>2, <1>3, <1>13 DEF ImageInv, Loading
<1>7. CASE write_lengths
  <2>1. /\ stage = "lengths" /\ stage' = "read_it"
        /\ syssize' = im_size % (16 * PARAGRAPHS)
        /\ zeos_bin' = [zeos_bin EXCEPT ![SECTOR + 1] = header]
        /\ UNCHANGED <<sectors, sread, head, track, es, bx, memory, failed>>
        /\ UNCHANGED <<sys_size, usr_size>>
    BY <1>7 DEF write_lengths
  <2>2. syssize' \in Nat
    BY <2>1, <1>1, Paragraphs
  <2>3. LIInv'
    BY <2>1, <2>2, <1>1 DEF LIInv, InStep, LoadedInOrder, source, destination
  <2>4. Building'
    BY <2>1, <2>2, <1>2, SMTT(30) DEF ImageInv, Building
  <2> QED  BY <2>1, <2>3, <2>4, <1>2, <1>13 DEF ImageInv, Loading
<1>8. CASE die
  <2>1. /\ stage \in {"bootsect", "system", "user", "lengths"} /\ stage' = "died"
        /\ UNCHANGED loaderVars /\ UNCHANGED <<sys_size, usr_size>>
    BY <1>8 DEF die
  <2> QED  BY <2>1, <1>2, <1>3, <1>13 DEF ImageInv, Building, Loading
<1>9. ASSUME NEW ok \in BOOLEAN, read_it(ok)
      PROVE  ImageInv' /\ stage = "read_it" /\ stage' \in {"read_it", "overwritten"}
  <2>1. /\ stage = "read_it" /\ rp_read(ok)
        /\ stage' = IF es < ROOM THEN "read_it" ELSE "overwritten"
        /\ zeos_bin' = zeos_bin /\ UNCHANGED <<sys_size, usr_size>>
    BY <1>9 DEF read_it
  <2>2. LIInv' /\ syssize' = syssize
    BY <2>1, <1>1, LoaderStep DEF rp_read
  <2>3. Building'
    BY <2>1, <2>2, <1>2 DEF ImageInv, Building
  <2>4. /\ es \in Nat /\ bx \in Nat /\ ROOM \in Nat /\ PARAGRAPHS \in Nat /\ PARAGRAPHS >= 1
        /\ SEGMENT \in Nat
    BY <1>1, LoaderAssumption DEF LIInv, InStep
  <2>5. CASE es < ROOM
    <3>1. \/ es' = es
          \/ es' = es + 1 /\ bx' = 0
      BY <2>1 DEF rp_read, advance_memory
    <3>2. es' < ROOM \/ (es' = ROOM /\ bx' = 0)
      BY <3>1, <2>4, <2>5
    <3> QED  BY <3>2, <2>1, <2>2, <2>3, <2>5, <1>2, <1>13 DEF ImageInv, Loading
  <2>6. CASE ~ (es < ROOM)
    <3>1. es * PARAGRAPHS <= im_size % (16 * PARAGRAPHS)
      BY <2>1 DEF rp_read, more, ImageInv, Building
    <3>2. es * PARAGRAPHS >= ROOM * PARAGRAPHS
      BY <2>4, <2>6
    <3>3. es * PARAGRAPHS \in Nat /\ ROOM * PARAGRAPHS \in Nat
      BY <2>4
    <3>4. ~ loadable
      BY <3>1, <3>2, <3>3, <1>1, Paragraphs DEF loadable
    <3> QED  BY <3>4, <2>1, <2>2, <2>3, <2>6, <1>2, <1>13 DEF ImageInv, Loading
  <2> QED  BY <2>1, <2>5, <2>6
<1>10. CASE read_it_returns
  <2>1. /\ stage = "read_it" /\ stage' = "a20_wait" /\ ~ more
        /\ UNCHANGED loaderVars /\ UNCHANGED <<sys_size, usr_size>>
        /\ zeos_bin' = zeos_bin
    BY <1>10 DEF read_it_returns
  <2>2. Building'
    BY <2>1, <1>2, <1>3 DEF ImageInv, Building
  <2> QED  BY <2>1, <2>2, <1>2, <1>3, <1>13 DEF ImageInv, Loading
<1>11. CASE gate_opens
  <2>1. /\ stage = "a20_wait" /\ stage' = "a20_wait"
        /\ UNCHANGED loaderVars /\ UNCHANGED <<sys_size, usr_size>>
        /\ zeos_bin' = zeos_bin
    BY <1>11 DEF gate_opens
  <2>2. Building'
    BY <2>1, <1>2, <1>3 DEF ImageInv, Building
  <2> QED  BY <2>1, <2>2, <1>2, <1>3, <1>13 DEF ImageInv, Loading
<1>12. CASE a20_wait
  <2>1. /\ stage = "a20_wait" /\ stage' \in {"a20_wait", "main"}
        /\ (stage' = "main" => a20)
        /\ UNCHANGED loaderVars /\ UNCHANGED <<sys_size, usr_size>>
        /\ zeos_bin' = zeos_bin /\ a20' = a20
    BY <1>12 DEF a20_wait, aliased
  <2>2. Building'
    BY <2>1, <1>2, <1>3 DEF ImageInv, Building
  <2> QED  BY <2>1, <2>2, <1>2, <1>3, <1>13 DEF ImageInv, Loading
<1> QED
  <2>1. /\ stage \in {"bootsect", "system", "user", "lengths", "read_it", "a20_wait"}
        /\ stage' \in {"system", "user", "lengths", "died", "read_it", "overwritten",
                       "a20_wait", "main"}
    BY <1>4, <1>5, <1>6, <1>7, <1>8, <1>9, <1>10, <1>11, <1>12, SMTT(30)
    DEF INext, copy_bootsect, copy_block, file_copied, write_lengths, die,
        read_it_returns, gate_opens, a20_wait
  <2>2. ImageInv'
    BY <1>4, <1>5, <1>6, <1>7, <1>8, <1>9, <1>10, <1>11, <1>12 DEF INext
  <2> QED  BY <2>1, <2>2, SMTT(30)

-----------------------------------------------------------------------------
(* What main finds in memory.                                              *)

(* Arithmetic of a unit's place in its sector.                             *)
LEMMA InSector ==
  ASSUME NEW a \in Nat
  PROVE  /\ a \div SECTOR \in Nat /\ a % SECTOR \in Nat
         /\ SECTOR * (a \div SECTOR) + (a % SECTOR) = a
         /\ \A n \in Nat : a < SECTOR * n => a \div SECTOR < n
<1>1. SECTOR \in Nat /\ SECTOR >= 1
  BY ImageAssumption
<1>2. \A c, n \in Nat : c >= 1 =>
        n \div c \in Nat /\ n % c \in Nat /\ c * (n \div c) + (n % c) = n
  BY SMT
<1>3. /\ a \div SECTOR \in Nat /\ a % SECTOR \in Nat
      /\ SECTOR * (a \div SECTOR) + (a % SECTOR) = a
  BY <1>1, <1>2
<1> DEFINE q == a \div SECTOR
           r == a % SECTOR
<1>4. q \in Nat /\ r \in Nat /\ SECTOR * q + r = a
  BY <1>3
<1> HIDE DEF q, r
<1>5. ASSUME NEW n \in Nat, a < SECTOR * n
      PROVE  q < n
  <2> SUFFICES ASSUME q >= n
               PROVE  FALSE
    BY <1>4
  <2>1. SECTOR * q >= SECTOR * n
    BY <1>1, <1>4
  <2>2. SECTOR * q \in Nat /\ SECTOR * n \in Nat
    BY <1>1, <1>4
  <2> QED  BY <2>1, <2>2, <1>4, <1>5
<1> QED  BY <1>3, <1>5 DEF q

(* read_it returns to a boot sector that is whole only if the image fits   *)
(* below it, or is so long that its length was cut.                        *)
LEMMA FitsOrCut ==
  ASSUME ImageInv, stage \in InMain
  PROVE  loadable \/ im_size >= 16 * PARAGRAPHS
<1> SUFFICES ASSUME im_size < 16 * PARAGRAPHS
             PROVE  loadable
  <2>1. im_size \in Nat /\ 16 * PARAGRAPHS \in Nat
    BY Paragraphs, LoaderAssumption DEF ImageInv
  <2> QED  BY <2>1
<1>1. /\ es \in Nat /\ ROOM \in Nat /\ PARAGRAPHS \in Nat /\ PARAGRAPHS >= 1
      /\ im_size \in Nat /\ syssize = im_size
  BY Paragraphs, LoaderAssumption DEF ImageInv, LIInv, InStep, Building
<1>2. ~ (es * PARAGRAPHS <= im_size) /\ es <= ROOM
  <2>1. stage # "overwritten"
    BY DEF InMain, HasPaging, HasQueues, HasIdle, HasTask1, InUserSpace
  <2> QED  BY <2>1, <1>1 DEF ImageInv, Loading, more
<1>3. es * PARAGRAPHS <= ROOM * PARAGRAPHS
  BY <1>1, <1>2
<1>4. es * PARAGRAPHS \in Nat /\ ROOM * PARAGRAPHS \in Nat
  BY <1>1
<1> QED  BY <1>1, <1>2, <1>3, <1>4 DEF loadable

(* When read_it has returned, the loop has gone past the last sector of an *)
(* image that fits, and that sector lies below the boot sector.            *)
LEMMA AllLoaded ==
  ASSUME ImageInv, loadable, stage \in InMain, NEW a \in Nat, a < total
  PROVE  a \div SECTOR \in Below /\ a \div SECTOR < destination
<1>1. /\ SECTOR \in Nat /\ SECTOR >= 1 /\ PARA \in Nat /\ PARA >= 1
      /\ SEGMENT \in Nat /\ SEGMENT >= 1 /\ PARAGRAPHS \in Nat /\ PARAGRAPHS >= 1
      /\ ROOM \in Nat /\ SEGMENT * SECTOR = PARAGRAPHS * PARA
  BY ImageAssumption, LoaderAssumption
<1>2. es \in Nat /\ bx \in Nat /\ syssize \in Nat /\ total \in Nat
  BY <1>1 DEF ImageInv, LIInv, InStep, Sizes, total
<1>3. /\ total <= syssize * PARA /\ es * PARAGRAPHS >= syssize + 1
      /\ total <= (ROOM * PARAGRAPHS - 1) * PARA
  <2>1. /\ es * PARAGRAPHS \in Nat /\ ROOM * PARAGRAPHS \in Nat
        /\ ROOM * PARAGRAPHS <= 16 * PARAGRAPHS
    BY <1>1, <1>2, ImageAssumption
  <2>2. ~ (es * PARAGRAPHS <= syssize)
    BY DEF ImageInv, Loading, more
  <2>3. /\ im_size \in Nat /\ total <= im_size * PARA
        /\ im_size <= ROOM * PARAGRAPHS - 1 /\ syssize = im_size
    <3>1. im_size \in Nat /\ total <= im_size * PARA /\ im_size < ROOM * PARAGRAPHS
      BY Paragraphs DEF ImageInv, loadable
    <3>2. im_size < 16 * PARAGRAPHS
      BY <3>1, <2>1, <1>1
    <3>3. syssize = im_size
      BY <3>2, Paragraphs DEF ImageInv, Building
    <3> QED  BY <3>1, <3>3, <2>1
  <2>4. im_size * PARA <= (ROOM * PARAGRAPHS - 1) * PARA
    <3> DEFINE R == ROOM * PARAGRAPHS - 1
    <3>1. R \in Int /\ im_size <= R
      BY <2>1, <2>3
    <3> HIDE DEF R
    <3>2. im_size * PARA <= R * PARA
      BY <3>1, <2>3, <1>1
    <3> QED  BY <3>2 DEF R
  <2> DEFINE x == im_size * PARA
             y == (ROOM * PARAGRAPHS - 1) * PARA
  <2>5. x \in Int /\ y \in Int /\ total <= x /\ x <= y
    BY <2>1, <2>3, <2>4, <1>1
  <2> HIDE DEF x, y
  <2>6. total <= y
    BY <2>5, <1>2
  <2> QED  BY <2>1, <2>2, <2>3, <2>6, <1>2 DEF y
<1>4. ASSUME NEW k \in Nat, NEW m \in Nat, k * PARAGRAPHS >= m + 1, a < m * PARA
      PROVE  a \div SECTOR < k * SEGMENT
  <2>1. (k * PARAGRAPHS) * PARA >= (m + 1) * PARA
    <3>1. k * PARAGRAPHS \in Nat /\ m + 1 \in Nat
      BY <1>1, <1>4
    <3> QED  BY <3>1, <1>1, <1>4
  <2>2. (k * PARAGRAPHS) * PARA = SECTOR * (k * SEGMENT)
    <3>1. (k * PARAGRAPHS) * PARA = k * (PARAGRAPHS * PARA)
      BY <1>1
    <3>2. k * (SEGMENT * SECTOR) = SECTOR * (k * SEGMENT)
      BY <1>1
    <3> QED  BY <3>1, <3>2, <1>1
  <2>3. (m + 1) * PARA = m * PARA + PARA /\ m * PARA \in Nat
    BY <1>1
  <2>4. k * SEGMENT \in Nat /\ SECTOR * (k * SEGMENT) \in Nat
    BY <1>1
  <2>5. a < SECTOR * (k * SEGMENT)
    BY <2>1, <2>2, <2>3, <2>4, <1>1, <1>4
  <2> QED  BY <2>4, <2>5, InSector
<1>5. a \div SECTOR < es * SEGMENT
  <2>1. a < syssize * PARA
    BY <1>1, <1>2, <1>3
  <2> QED  BY <2>1, <1>2, <1>3, <1>4
<1>6. a \div SECTOR < ROOM * SEGMENT
  <2> DEFINE m == ROOM * PARAGRAPHS - 1
  <2>1. m \in Int /\ ROOM * PARAGRAPHS = m + 1 /\ total <= m * PARA
    BY <1>1, <1>3
  <2> HIDE DEF m
  <2>2. m \in Nat
    <3> SUFFICES ASSUME m < 0
                 PROVE  FALSE
      BY <2>1
    <3>1. m * PARA <= 0
      BY <2>1, <1>1
    <3> QED  BY <3>1, <2>1, <1>1, <1>2
  <2>3. a < m * PARA
    BY <2>1, <2>2, <1>1, <1>2
  <2> QED  BY <2>1, <2>2, <2>3, <1>1, <1>4
<1>7. /\ a \div SECTOR \in Nat /\ es * SEGMENT \in Nat /\ ROOM * SEGMENT \in Nat
      /\ destination = es * SEGMENT + bx
  BY <1>1, <1>2, InSector DEF destination
<1> QED  BY <1>2, <1>5, <1>6, <1>7 DEF Below

(* Unit a of the memory is unit a behind the boot sector of the image.     *)
LEMMA LoadedUnit ==
  ASSUME ImageInv, loadable, stage \in InMain, ~ failed, NEW a \in Nat, a < total
  PROVE  loaded(a) = IF a = 0 THEN header ELSE unit_at(SECTOR + a + 1)
<1> DEFINE s == memory[a \div SECTOR]
           i == s * SECTOR + (a % SECTOR) + 1
<1>1. SECTOR \in Nat /\ SECTOR >= 1 /\ total \in Nat
  BY ImageAssumption DEF ImageInv, Sizes, total
<1>2. s = (a \div SECTOR) + 1
  BY AllLoaded DEF ImageInv, LIInv, LoadedInOrder
<1>3. i = SECTOR + a + 1 /\ s # NotLoaded
  <2> DEFINE q == a \div SECTOR
             r == a % SECTOR
  <2>1. q \in Nat /\ r \in Nat /\ SECTOR * q + r = a
    BY InSector
  <2>2. s = q + 1 /\ i = s * SECTOR + r + 1
    BY <1>2
  <2> HIDE DEF q, r, s, i
  <2>3. (q + 1) * SECTOR = SECTOR * q + SECTOR /\ SECTOR * q \in Nat
    BY <2>1, <1>1
  <2> QED  BY <2>1, <2>2, <2>3, <1>1 DEF NotLoaded
<1>4. /\ zeos_bin = [written(SECTOR + total) EXCEPT ![SECTOR + 1] = header]
      /\ DOMAIN zeos_bin = 1 .. SECTOR + total
  BY DEF ImageInv, Building, written
<1>5. SECTOR + a + 1 \in 1 .. SECTOR + total
  BY <1>1
<1>6. loaded(a) = zeos_bin[SECTOR + a + 1]
  <2> HIDE DEF s, i
  <2>1. loaded(a) = IF s # NotLoaded /\ i \in DOMAIN zeos_bin THEN zeos_bin[i]
                                                              ELSE <<"none", 0>>
    BY AllLoaded DEF loaded, s, i
  <2> QED  BY <2>1, <1>3, <1>4, <1>5, Zenon
<1>7. CASE a = 0
  BY <1>1, <1>4, <1>5, <1>6, <1>7 DEF written
<1>8. CASE a # 0
  <2>1. SECTOR + a + 1 # SECTOR + 1
    BY <1>1, <1>8
  <2> QED  BY <2>1, <1>1, <1>4, <1>5, <1>6, <1>8 DEF written
<1> QED  BY <1>7, <1>8

-----------------------------------------------------------------------------
(* Division and induction.                                                 *)

(* A product with a positive factor is at least the other factor.          *)
LEMMA TimesAtLeast ==
  ASSUME NEW c \in Nat, NEW d \in Nat, d >= 1
  PROVE  c * d \in Nat /\ c * d >= c
<1>1. c * (d - 1) \in Nat
  BY SMT
<1>2. c * d = c * (d - 1) + c
  BY SMT
<1> QED  BY <1>1, <1>2

(* Quotient and remainder are unique.                                      *)
LEMMA Quotient ==
  ASSUME NEW c \in Nat, c >= 1, NEW x \in Nat, NEW r \in Nat, r < c
  PROVE  (c * x + r) \div c = x /\ (c * x + r) % c = r
  OBVIOUS

(* What quotient and remainder are.                                        *)
LEMMA Division ==
  ASSUME NEW c \in Nat, c >= 1, NEW n \in Nat
  PROVE  \E q, r \in Nat : r < c /\ n = c * q + r /\ q = n \div c /\ r = n % c
<1> DEFINE q == n \div c
<1>1. q \in Int /\ c * q <= n /\ n < c * q + c
  BY SMT
<1>2. \E r \in 0 .. c - 1 : n = c * q + r
  BY SMT
<1> HIDE DEF q
<1>3. PICK r \in 0 .. c - 1 : n = c * q + r
  BY <1>2
<1>4. q >= 0
  <2>1. CASE q < 0
    <3>1. c * (0 - q) >= c
      BY <1>1, <2>1, TimesAtLeast
    <3>2. c * (0 - q) = 0 - c * q
      BY <1>1
    <3>3. c * q \in Int /\ n < c * q + c
      BY <1>1
    <3> QED  BY <3>1, <3>2, <3>3
  <2> QED  BY <1>1, <2>1
<1>5. n % c = r
  <2>1. (c * q + r) % c = r
    BY <1>1, <1>4, Quotient
  <2> QED  BY <1>3, <2>1
<1>6. q \in Nat /\ r \in Nat /\ r < c /\ q = n \div c
  BY <1>1, <1>3, <1>4 DEF q
<1> QED  BY <1>3, <1>5, <1>6, Zenon

(* Every non-empty set of natural numbers has a least one.                 *)
LEMMA Least ==
  ASSUME NEW T, T \subseteq Nat, T # {}
  PROVE  \E m \in T : \A k \in T : m <= k
<1>1. IsWellFoundedOn(OpToRel(<, Nat), Nat)
  BY NatLessThanWellFounded, Zenon
<1>2. PICK m \in T : \A k \in T : ~ (<<k, m>> \in OpToRel(<, Nat))
  BY <1>1, WFMin, Zenon
<1> DEFINE R == {ss \in Nat \X Nat : ss[1] < ss[2]}
<1>3. OpToRel(<, Nat) = R
  BY Zenon DEF OpToRel
<1>4. \A k \in T : ~ (<<k, m>> \in R)
  BY <1>2, <1>3, Zenon
<1>5. \A k \in T : ~ (k < m)
  BY <1>4, Zenon
<1> QED  BY <1>5

-----------------------------------------------------------------------------
(* Console.                                                                *)

Letter == Char \cup {NewLine}

Area == NUM_COLUMNS * NUM_ROWS

(* The place after c, when the place before it is p.                       *)
After(p, c) == IF c = NewLine THEN (p \div NUM_COLUMNS + 1) * NUM_COLUMNS ELSE p + 1

(* at is the strip of t.                                                   *)
OnStrip(at, t) ==
  /\ at \in [0 .. Len(t) -> Nat]
  /\ at[0] = FIRST_ROW * NUM_COLUMNS
  /\ \A k \in 1 .. Len(t) : at[k] = After(at[k - 1], t[k])

(* The characters of t that went to cell p.                                *)
Printed(at, t, p) == {k \in 1 .. Len(t) : t[k] # NewLine /\ at[k - 1] % Area = p}

(* Cell p shows the last of them.                                          *)
Latest(screen, at, t, p) ==
  \/ Printed(at, t, p) = {} /\ screen[p] = Blank
  \/ \E k \in Printed(at, t, p) :
       (\A j \in Printed(at, t, p) : j <= k) /\ screen[p] = t[k]

(* The console s shows the text t and perhaps the key k.                   *)
Shows(s, t, k) ==
  /\ t \in Seq(Letter)
  /\ s.x \in 0 .. NUM_COLUMNS - 1 /\ s.y \in 0 .. NUM_ROWS - 1
  /\ s = [x |-> s.x, y |-> s.y, screen |-> [p \in Cell |-> s.screen[p]]]
  /\ \E at : /\ OnStrip(at, t)
             /\ s.y * NUM_COLUMNS + s.x = at[Len(t)] % Area
             /\ \A p \in Cell : \/ Latest(s.screen, at, t, p)
                                \/ p = 0 /\ s.screen[p] = k

ConInv == \E s, t, k : con = s /\ text = t /\ key = k /\ Shows(s, t, k)

-----------------------------------------------------------------------------
(* The cursor.                                                             *)

(* Cells are numbered row by row.                                          *)
LEMMA CellOf ==
  ASSUME NEW c \in Nat, NEW r \in Nat, NEW x \in Nat, NEW y \in Nat, x < c, y < r
  PROVE  /\ y * c \in Nat /\ c * r \in Nat /\ c * r >= 1
         /\ y * c + x < c * r
         /\ y + 1 < r => (y + 1) * c < c * r
         /\ (y + 1) * c = y * c + c
         /\ y + 1 = r => (y + 1) * c = c * r
<1>1. \A d \in Nat : d >= 1 => c * d \in Nat /\ c * d >= c
  BY TimesAtLeast
<1>2. c * (r - y) >= c /\ c * r >= c /\ c * r \in Nat
  BY <1>1
<1>3. c * (r - y) = c * r - y * c /\ (y + 1) * c = y * c + c
  OBVIOUS
<1>4. y * c \in Nat
  OBVIOUS
<1>5. ASSUME y + 1 < r
      PROVE  (y + 1) * c < c * r
  <2>1. r - (y + 1) \in Nat /\ r - (y + 1) >= 1
    BY <1>5
  <2>2. c * (r - (y + 1)) >= c
    BY <1>1, <2>1
  <2>3. c * (r - (y + 1)) = c * r - (y + 1) * c
    OBVIOUS
  <2> QED  BY <2>2, <2>3, <1>4, <1>3, <1>2
<1>6. y + 1 = r => (y + 1) * c = c * r
  OBVIOUS
<1> QED  BY <1>2, <1>3, <1>4, <1>5, <1>6

(* The step of the cursor of a screen of r rows of c columns is the step   *)
(* along the strip, modulo the screen.                                     *)
LEMMA Wraps ==
  ASSUME NEW c \in Nat, NEW r \in Nat, NEW x \in Nat, NEW y \in Nat, x < c, y < r,
         NEW place \in Nat, y * c + x = place % (c * r)
  PROVE  /\ x + 1 < c => (place + 1) % (c * r) = y * c + (x + 1)
         /\ x + 1 >= c => (place + 1) % (c * r) = ((y + 1) % r) * c
         /\ (place \div c + 1) * c \in Nat
         /\ ((place \div c + 1) * c) % (c * r) = ((y + 1) % r) * c
<1>1. PICK z \in Nat : z = c * r /\ z >= 1
  BY CellOf
<1>2. PICK d \in Nat : place = z * d + (y * c + x)
  <2>1. \E d, m \in Nat : place = z * d + m /\ m = place % z
    BY <1>1, Division, Zenon
  <2>2. place % z = y * c + x
    BY <1>1
  <2> QED  BY <2>1, <2>2, Zenon
<1>3. \A m \in Nat, e \in Nat : m < z => (z * e + m) % z = m
  BY <1>1, Quotient, Zenon
<1>4. /\ y * c \in Nat /\ y * c + x < z /\ (y + 1) * c = y * c + c
      /\ y + 1 < r => (y + 1) * c < z
      /\ y + 1 = r => (y + 1) * c = z
  BY <1>1, CellOf
<1>5. (z * d + (y + 1) * c) % z = ((y + 1) % r) * c
  <2>1. CASE y + 1 < r
    <3>1. (y + 1) % r = y + 1
      BY <2>1
    <3>2. (y + 1) * c \in Nat
      BY <1>4
    <3> QED  BY <2>1, <3>1, <3>2, <1>3, <1>4
  <2>2. CASE y + 1 = r
    <3>1. (y + 1) % r = 0
      BY <2>2
    <3>2. z * d + z = z * (d + 1) + 0
      OBVIOUS
    <3>3. (z * (d + 1) + 0) % z = 0
      BY <1>1, <1>3
    <3>4. (y + 1) * c = z
      BY <1>4, <2>2
    <3>5. ((y + 1) % r) * c = 0
      BY <3>1
    <3> QED  BY <3>2, <3>3, <3>4, <3>5
  <2> QED  BY <2>1, <2>2
<1>6. ASSUME x + 1 < c
      PROVE  (place + 1) % z = y * c + (x + 1)
  <2>1. y * c + (x + 1) \in Nat /\ y * c + (x + 1) < z
    <3>1. x + 1 \in Nat
      OBVIOUS
    <3> QED  BY <1>1, <1>4, <1>6, <3>1, CellOf
  <2>2. z * d \in Nat
    BY <1>1
  <2>3. place + 1 = z * d + (y * c + (x + 1))
    BY <1>2, <1>4, <2>2
  <2> QED  BY <2>1, <2>3, <1>3, ZenonT(30)
<1>7. ASSUME x + 1 >= c
      PROVE  (place + 1) % z = ((y + 1) % r) * c
  <2>1. z * d \in Nat
    BY <1>1
  <2>2. place + 1 = z * d + (y + 1) * c
    BY <1>2, <1>4, <1>7, <2>1
  <2> QED  BY <2>2, <1>5
<1>8. /\ (place \div c + 1) * c \in Nat
      /\ ((place \div c + 1) * c) % z = ((y + 1) % r) * c
  <2>1. c * (r * d + y) = z * d + y * c
    <3>1. c * (r * d + y) = c * (r * d) + c * y
      OBVIOUS
    <3>2. c * (r * d) = (c * r) * d /\ c * y = y * c
      OBVIOUS
    <3> QED  BY <3>1, <3>2, <1>1
  <2>2. r * d + y \in Nat
    OBVIOUS
  <2>3. place = c * (r * d + y) + x
    <3>1. z * d \in Nat
      BY <1>1
    <3> QED  BY <1>2, <1>4, <2>1, <3>1
  <2>4. place \div c = r * d + y
    <3>1. c >= 1
      OBVIOUS
    <3>2. (c * (r * d + y) + x) \div c = r * d + y
      BY <2>2, <3>1, Quotient, Zenon
    <3> QED  BY <2>3, <3>2, Zenon
  <2>5. (place \div c + 1) * c = z * d + (y + 1) * c
    <3>1. (r * d + y + 1) * c = c * (r * d + y) + c
      OBVIOUS
    <3>2. z * d \in Nat
      BY <1>1
    <3> QED  BY <2>1, <2>4, <3>1, <3>2, <1>4
  <2>6. z * d + (y + 1) * c \in Nat
    <3>1. z * d \in Nat
      BY <1>1
    <3> QED  BY <1>4, <3>1
  <2> QED  BY <2>5, <2>6, <1>5
<1> QED  BY <1>1, <1>6, <1>7, <1>8

-----------------------------------------------------------------------------
(* printc.                                                                 *)

(* The dimensions of the screen.                                           *)
LEMMA Screen ==
  /\ NUM_COLUMNS \in Nat /\ NUM_COLUMNS >= 1
  /\ NUM_ROWS \in Nat /\ NUM_ROWS >= 1
  /\ FIRST_ROW \in Nat /\ FIRST_ROW < NUM_ROWS
  /\ Area \in Nat /\ Area >= 1 /\ Cell = 0 .. Area - 1
<1>1. /\ NUM_COLUMNS \in Nat /\ NUM_COLUMNS >= 1
      /\ NUM_ROWS \in Nat /\ NUM_ROWS >= 1
      /\ FIRST_ROW \in Nat /\ FIRST_ROW < NUM_ROWS
  BY ConsoleAssumption
<1>2. Area \in Nat /\ Area >= 1
  BY <1>1, CellOf DEF Area
<1> QED  BY <1>1, <1>2 DEF Cell, Area

(* w is the strip of u, which is t and the character c.                    *)
Grown(w, u, at, t, c) ==
  /\ OnStrip(w, u) /\ w[Len(u)] = After(at[Len(t)], c)
  /\ \A p, j : j \in Printed(w, u, p) <=>
                 \/ j \in Printed(at, t, p)
                 \/ j = Len(u) /\ c # NewLine /\ at[Len(t)] % Area = p

(* The strip of a text with one more character.                            *)
LEMMA StripGrows ==
  ASSUME NEW t \in Seq(Letter), NEW c \in Letter, NEW at, OnStrip(at, t),
         After(at[Len(t)], c) \in Nat
  PROVE  \E w : Grown(w, Append(t, c), at, t, c)
<1>0. PICK u, new : u = Append(t, c) /\ new \in Nat /\ new = After(at[Len(t)], c)
  BY Zenon
<1>1. PICK l \in Nat : l = Len(t)
  OBVIOUS
<1>2. /\ u \in Seq(Letter) /\ Len(u) = l + 1 /\ u[l + 1] = c
      /\ \A k \in 1 .. l : u[k] = t[k]
  BY <1>0, <1>1
<1> DEFINE w == [k \in 0 .. l + 1 |-> IF k <= l THEN at[k] ELSE new]
<1>3. /\ at \in [0 .. l -> Nat] /\ at[0] = FIRST_ROW * NUM_COLUMNS
      /\ \A k \in 1 .. l : at[k] = After(at[k - 1], t[k])
  BY <1>1 DEF OnStrip
<1>4. /\ w \in [0 .. l + 1 -> Nat] /\ w[l + 1] = new
      /\ \A k \in 0 .. l : w[k] = at[k]
  BY <1>0, <1>3
<1> HIDE DEF w
<1>5. ASSUME NEW k \in 1 .. l + 1
      PROVE  w[k] = After(w[k - 1], u[k])
  <2>1. CASE k <= l
    <3>1. w[k] = at[k] /\ w[k - 1] = at[k - 1] /\ u[k] = t[k] /\ k \in 1 .. l
      BY <1>2, <1>4, <2>1
    <3> QED  BY <3>1, <1>3
  <2>2. CASE ~ (k <= l)
    <3>0. k = l + 1 /\ k - 1 = l
      BY <2>2
    <3>1. w[k] = new /\ w[k - 1] = at[l] /\ u[k] = c
      BY <1>2, <1>4, <3>0
    <3> QED  BY <3>1, <1>0, <1>1
  <2> QED  BY <2>1, <2>2
<1>6. OnStrip(w, u)
  <2>1. w[0] = FIRST_ROW * NUM_COLUMNS
    BY <1>3, <1>4
  <2> QED  BY <1>2, <1>4, <1>5, <2>1 DEF OnStrip
<1>7. ASSUME NEW p, NEW j
      PROVE  j \in Printed(w, u, p) <=>
               \/ j \in Printed(at, t, p)
               \/ j = Len(u) /\ c # NewLine /\ at[Len(t)] % Area = p
  <2>1. ASSUME NEW k \in 1 .. l
        PROVE  w[k - 1] = at[k - 1] /\ u[k] = t[k]
    BY <1>2, <1>4
  <2>2. w[l + 1 - 1] = at[l] /\ u[l + 1] = c
    BY <1>2, <1>4
  <2>3. 1 .. l + 1 = (1 .. l) \cup {l + 1}
    OBVIOUS
  <2>4. Printed(w, u, p) = {k \in (1 .. l) \cup {l + 1} :
                              u[k] # NewLine /\ w[k - 1] % Area = p}
    BY <1>2, <2>3 DEF Printed
  <2>5. Printed(at, t, p) = {k \in 1 .. l : t[k] # NewLine /\ at[k - 1] % Area = p}
    BY <1>1 DEF Printed
  <2> QED  BY <1>1, <1>2, <2>1, <2>2, <2>4, <2>5, SMTT(30)
<1>8. Grown(w, u, at, t, c)
  BY <1>0, <1>2, <1>4, <1>6, <1>7, SMTT(30) DEF Grown
<1> QED  BY <1>0, <1>8

(* A printable character goes to the cell of the cursor and the cursor to  *)
(* the next place of the strip; a new line moves only the cursor.          *)
LEMMA PrintcMoves ==
  ASSUME NEW s, NEW t, NEW k, Shows(s, t, k), NEW c \in Letter,
         NEW place \in Nat, s.y * NUM_COLUMNS + s.x = place % Area,
         NEW r, r = printc(s, c)
  PROVE  /\ r.x \in 0 .. NUM_COLUMNS - 1 /\ r.y \in 0 .. NUM_ROWS - 1
         /\ r = [x |-> r.x, y |-> r.y, screen |-> [p \in Cell |-> r.screen[p]]]
         /\ \A p \in Cell : r.screen[p] = IF c # NewLine /\ p = place % Area
                                          THEN c ELSE s.screen[p]
         /\ After(place, c) \in Nat
         /\ r.y * NUM_COLUMNS + r.x = After(place, c) % Area
<1>1. PICK x, y, f :
             /\ x \in Nat /\ x < NUM_COLUMNS /\ y \in Nat /\ y < NUM_ROWS
             /\ s = [x |-> x, y |-> y, screen |-> f] /\ f = [p \in Cell |-> f[p]]
  <2>1. /\ s.x \in Nat /\ s.x < NUM_COLUMNS /\ s.y \in Nat /\ s.y < NUM_ROWS
        /\ s = [x |-> s.x, y |-> s.y, screen |-> [p \in Cell |-> s.screen[p]]]
    BY Screen DEF Shows
  <2>2. PICK f : f = [p \in Cell |-> s.screen[p]]
    BY Zenon
  <2>3. s = [x |-> s.x, y |-> s.y, screen |-> f] /\ f = [p \in Cell |-> f[p]]
    BY <2>1, <2>2
  <2> QED  BY <2>1, <2>3, Zenon
<1>2. PICK z \in Nat : z = (y + 1) % NUM_ROWS /\ z < NUM_ROWS
  BY <1>1, Screen
<1>0. s.x = x /\ s.y = y /\ s.screen = f
  BY <1>1
<1>3. /\ x + 1 < NUM_COLUMNS => (place + 1) % Area = y * NUM_COLUMNS + (x + 1)
      /\ x + 1 >= NUM_COLUMNS => (place + 1) % Area = z * NUM_COLUMNS
      /\ (place \div NUM_COLUMNS + 1) * NUM_COLUMNS \in Nat
      /\ ((place \div NUM_COLUMNS + 1) * NUM_COLUMNS) % Area = z * NUM_COLUMNS
  <2>1. y * NUM_COLUMNS + x = place % (NUM_COLUMNS * NUM_ROWS)
    BY <1>0 DEF Area
  <2>2. NUM_COLUMNS \in Nat /\ NUM_ROWS \in Nat
    BY Screen
  <2> QED  BY <1>1, <1>2, <2>1, <2>2, Wraps DEF Area
<1>4. z * NUM_COLUMNS + 0 = z * NUM_COLUMNS /\ 0 \in 0 .. NUM_COLUMNS - 1
  BY Screen
<1>5. PICK q \in Cell : q = y * NUM_COLUMNS + x /\ q = place % Area
  <2>1. y * NUM_COLUMNS + x \in Nat /\ y * NUM_COLUMNS + x < NUM_COLUMNS * NUM_ROWS
    BY <1>1, Screen, CellOf, SMTT(30)
  <2>2. NUM_COLUMNS * NUM_ROWS \in Nat
    BY Screen
  <2> QED  BY <1>0, <2>1, <2>2 DEF Cell
<1>6. ASSUME NEW v \in 0 .. NUM_COLUMNS - 1, NEW h \in 0 .. NUM_ROWS - 1, NEW g,
             r = [x |-> v, y |-> h, screen |-> g], g = [p \in Cell |-> g[p]],
             \A p \in Cell : g[p] = IF c # NewLine /\ p = q THEN c ELSE f[p],
             After(place, c) \in Nat, h * NUM_COLUMNS + v = After(place, c) % Area
      PROVE  /\ r.x \in 0 .. NUM_COLUMNS - 1 /\ r.y \in 0 .. NUM_ROWS - 1
             /\ r = [x |-> r.x, y |-> r.y, screen |-> [p \in Cell |-> r.screen[p]]]
             /\ \A p \in Cell : r.screen[p] = IF c # NewLine /\ p = place % Area
                                              THEN c ELSE s.screen[p]
             /\ After(place, c) \in Nat
             /\ r.y * NUM_COLUMNS + r.x = After(place, c) % Area
  <2>1. r.x = v /\ r.y = h /\ r.screen = g
    BY <1>6
  <2>2. r = [x |-> r.x, y |-> r.y, screen |-> [p \in Cell |-> r.screen[p]]]
    BY <1>6, <2>1, ZenonT(30)
  <2> QED  BY <1>0, <1>5, <1>6, <2>1, <2>2
<1>7. CASE c = NewLine
  <2>1. r = [s EXCEPT !.x = 0, !.y = (s.y + 1) % NUM_ROWS]
    BY <1>7 DEF printc, next_line
  <2>2. r = [x |-> 0, y |-> z, screen |-> f]
    BY <1>0, <1>1, <1>2, <2>1, Zenon
  <2>3. After(place, c) = (place \div NUM_COLUMNS + 1) * NUM_COLUMNS
    BY <1>7 DEF After
  <2>4. z \in 0 .. NUM_ROWS - 1
    BY <1>2, Screen
  <2>5. \A p \in Cell : f[p] = IF c # NewLine /\ p = q THEN c ELSE f[p]
    BY <1>7
  <2>6. After(place, c) \in Nat /\ z * NUM_COLUMNS + 0 = After(place, c) % Area
    BY <1>3, <1>4, <2>3, SMTT(30)
  <2> QED  BY <1>1, <1>4, <1>6, <2>2, <2>4, <2>5, <2>6
<1>8. CASE c # NewLine
  <2>1. PICK g : g = [p \in Cell |-> IF p = q THEN c ELSE f[p]]
    BY Zenon
  <2>2. PICK sh : sh = [s EXCEPT !.screen[s.y * NUM_COLUMNS + s.x] = c, !.x = s.x + 1]
    OBVIOUS
  <2>3. sh = [x |-> x + 1, y |-> y, screen |-> g]
    <3>1. sh = [s EXCEPT !.screen[q] = c, !.x = x + 1]
      BY <2>2, <1>0, <1>5
    <3>2. [f EXCEPT ![q] = c] = g
      BY <1>1, <1>5, <2>1
    <3> QED  BY <3>1, <3>2, <1>0, <1>1, Zenon
  <2>4. r = IF sh.x >= NUM_COLUMNS THEN next_line(sh) ELSE sh
    BY <1>8, <2>2 DEF printc, full
  <2>5. sh.x = x + 1 /\ sh.y = y
    BY <2>3
  <2>6. After(place, c) = place + 1
    BY <1>8 DEF After
  <2>7. /\ g = [p \in Cell |-> g[p]]
        /\ \A p \in Cell : g[p] = IF c # NewLine /\ p = q THEN c ELSE f[p]
    BY <1>8, <2>1, SMTT(30)
  <2>8. CASE x + 1 >= NUM_COLUMNS
    <3>1. r = [sh EXCEPT !.x = 0, !.y = (y + 1) % NUM_ROWS]
      BY <2>4, <2>5, <2>8 DEF next_line
    <3>2. r = [x |-> 0, y |-> z, screen |-> g]
      BY <2>3, <3>1, <1>2, Zenon
    <3>3. After(place, c) \in Nat /\ z * NUM_COLUMNS + 0 = After(place, c) % Area
      BY <1>3, <1>4, <2>6, <2>8
    <3>4. z \in 0 .. NUM_ROWS - 1
      BY <1>2, Screen, SMTT(30)
    <3> QED  BY <1>4, <1>6, <2>7, <3>2, <3>3, <3>4
  <2>9. CASE x + 1 < NUM_COLUMNS
    <3>1. r = [x |-> x + 1, y |-> y, screen |-> g]
      BY <1>1, <2>3, <2>4, <2>5, <2>9, Screen, SMTT(30)
    <3>2. After(place, c) \in Nat /\ y * NUM_COLUMNS + (x + 1) = After(place, c) % Area
      BY <1>3, <2>6, <2>9
    <3>3. y \in 0 .. NUM_ROWS - 1 /\ x + 1 \in 0 .. NUM_COLUMNS - 1
      BY <1>1, <2>9, Screen, SMTT(30)
    <3> QED  BY <1>6, <2>7, <3>1, <3>2, <3>3, SMTT(30)
  <2>10. x + 1 >= NUM_COLUMNS \/ x + 1 < NUM_COLUMNS
    BY <1>1, Screen, SMTT(30)
  <2> QED  BY <2>8, <2>9, <2>10
<1> QED  BY <1>7, <1>8

(* Printing a character prints the next character of the text.             *)
LEMMA PrintcShows ==
  ASSUME NEW s, NEW t, NEW k, Shows(s, t, k), NEW c \in Letter
  PROVE  Shows(printc(s, c), Append(t, c), k)
<1>0. PICK r, u : r = printc(s, c) /\ u = Append(t, c)
  BY Zenon
<1>1. PICK at : /\ OnStrip(at, t)
                /\ s.y * NUM_COLUMNS + s.x = at[Len(t)] % Area
                /\ \A p \in Cell : \/ Latest(s.screen, at, t, p)
                                   \/ p = 0 /\ s.screen[p] = k
  BY DEF Shows
<1>2. t \in Seq(Letter) /\ Len(t) \in Nat /\ u \in Seq(Letter) /\ Len(u) = Len(t) + 1
  BY <1>0 DEF Shows
<1>3. PICK place \in Nat : place = at[Len(t)]
  BY <1>1, <1>2 DEF OnStrip
<1>4. /\ r.x \in 0 .. NUM_COLUMNS - 1 /\ r.y \in 0 .. NUM_ROWS - 1
      /\ r = [x |-> r.x, y |-> r.y, screen |-> [p \in Cell |-> r.screen[p]]]
      /\ \A p \in Cell : r.screen[p] = IF c # NewLine /\ p = place % Area
                                       THEN c ELSE s.screen[p]
      /\ After(place, c) \in Nat
      /\ r.y * NUM_COLUMNS + r.x = After(place, c) % Area
  <2>1. s.y * NUM_COLUMNS + s.x = place % Area
    BY <1>1, <1>3, Zenon
  <2> QED  BY <1>0, <2>1, PrintcMoves
<1>5. PICK w : /\ OnStrip(w, u) /\ w[Len(u)] = After(place, c)
               /\ \A p, j : j \in Printed(w, u, p) <=>
                              \/ j \in Printed(at, t, p)
                              \/ j = Len(u) /\ c # NewLine /\ place % Area = p
  <2>1. t \in Seq(Letter) /\ OnStrip(at, t) /\ After(at[Len(t)], c) \in Nat
    BY <1>1, <1>2, <1>3, <1>4
  <2>2. PICK w : Grown(w, Append(t, c), at, t, c)
    BY <2>1, StripGrows
  <2>3. Grown(w, u, at, t, c) /\ at[Len(t)] = place
    BY <2>2, <1>0, <1>3, SMTT(30)
  <2> QED  BY <2>3 DEF Grown
<1>6. /\ u[Len(u)] = c
      /\ \A j \in 1 .. Len(t) : u[j] = t[j]
  BY <1>0, <1>2
<1>7. ASSUME NEW p \in Cell
      PROVE  Latest(r.screen, w, u, p) \/ (p = 0 /\ r.screen[p] = k)
  <2>0. Printed(at, t, p) \subseteq 1 .. Len(t)
    BY SMTT(30) DEF Printed
  <2>1. CASE c # NewLine /\ place % Area = p
    <3>1. Len(u) \in Printed(w, u, p) /\ Printed(w, u, p) \subseteq 1 .. Len(u)
      BY <1>5, <2>1, Zenon DEF Printed
    <3>2. \A j \in Printed(w, u, p) : j <= Len(u)
      BY <1>2, <3>1
    <3>3. r.screen[p] = u[Len(u)]
      BY <1>4, <1>6, <2>1
    <3> QED  BY <3>1, <3>2, <3>3, SMTT(30) DEF Latest
  <2>2. CASE ~ (c # NewLine /\ place % Area = p)
    <3>1. Printed(w, u, p) = Printed(at, t, p)
      <4>1. \A j : j \in Printed(w, u, p) <=> j \in Printed(at, t, p)
        BY <1>5, <2>2, Zenon
      <4> QED  BY <4>1, Zenon
    <3>2. r.screen[p] = s.screen[p]
      BY <1>4, <2>2
    <3>3. \A j \in Printed(at, t, p) : u[j] = t[j]
      BY <1>6, <2>0, SMTT(30)
    <3>4. Latest(s.screen, at, t, p) => Latest(r.screen, w, u, p)
      BY <3>1, <3>2, <3>3, SMTT(30) DEF Latest
    <3> QED  BY <1>1, <3>2, <3>4
  <2> QED  BY <2>1, <2>2
<1>8. Shows(r, u, k)
  BY <1>2, <1>4, <1>5, <1>7 DEF Shows
<1> QED  BY <1>0, <1>8

-----------------------------------------------------------------------------
(* sys_write_console and the keyboard.                                     *)

(* Any function built by the loop over buffer ends where printed does.     *)
LEMMA PrintedIs ==
  ASSUME NEW s, NEW buffer, NEW l \in Nat, l = Len(buffer), NEW f, f[0] = s,
         \A i \in 1 .. l : f[i] = printc(f[i - 1], buffer[i])
  PROVE  printed(s, buffer) = f[l]
<1> DEFINE v == CHOOSE g : g = [i \in 0 .. Len(buffer) |->
                                  IF i = 0 THEN s ELSE printc(g[i - 1], buffer[i])]
<1>1. v = [i \in 0 .. Len(buffer) |-> IF i = 0 THEN s ELSE printc(v[i - 1], buffer[i])]
  <2> DEFINE u == [i \in 0 .. l |-> f[i]]
  <2>1. u = [i \in 0 .. l |-> IF i = 0 THEN s ELSE printc(u[i - 1], buffer[i])]
    <3>1. ASSUME NEW i \in 0 .. l
          PROVE  f[i] = IF i = 0 THEN s ELSE printc(u[i - 1], buffer[i])
      <4>1. CASE i = 0
        BY <4>1
      <4>2. CASE i # 0
        <5>1. i \in 1 .. l /\ i - 1 \in 0 .. l
          BY <4>2
        <5>2. u[i - 1] = f[i - 1]
          BY <5>1
        <5> QED  BY <4>2, <5>1, <5>2
      <4> QED  BY <4>1, <4>2
    <3> QED  BY <3>1
  <2> HIDE DEF u
  <2> QED  BY <2>1, Zenon
<1>2. printed(s, buffer) = v[Len(buffer)]
  BY Zenon DEF printed
<1> HIDE DEF v
<1>3. v[0] = s /\ \A i \in 1 .. l : v[i] = printc(v[i - 1], buffer[i])
  BY <1>1
<1>4. \A i \in 0 .. l : v[i] = f[i]
  <2> DEFINE D == {i \in 0 .. l : v[i] # f[i]}
  <2> SUFFICES ASSUME D # {}
               PROVE  FALSE
    OBVIOUS
  <2>1. PICK m \in D : \A i \in D : m <= i
    <3>1. D \subseteq Nat
      OBVIOUS
    <3> HIDE DEF D
    <3> QED  BY <3>1, Least, Zenon
  <2>2. m \in 1 .. l
    BY <2>1, <1>3
  <2>3. v[m - 1] = f[m - 1]
    BY <2>1, <2>2
  <2> QED  BY <2>1, <2>2, <2>3, <1>3
<1> QED  BY <1>2, <1>4

(* Appending after a concatenation.                                        *)
LEMMA AppendConcat ==
  ASSUME NEW t \in Seq(Letter), NEW done \in Seq(Letter), NEW c \in Letter
  PROVE  Append(t \o done, c) = t \o Append(done, c)
<1>1. PICK e : e = <<c>>
  BY Zenon
<1>2. t \o done \in Seq(Letter) /\ e \in Seq(Letter)
  BY <1>1
<1>3. Append(t \o done, c) = (t \o done) \o e
  BY <1>1, <1>2
<1>4. Append(done, c) = done \o e
  BY <1>1
<1>5. (t \o done) \o e = t \o (done \o e)
  BY <1>2, SMTT(30)
<1> QED  BY <1>3, <1>4, <1>5, Zenon

(* A write of any length prints its characters in order after the text.    *)
LEMMA WriteShows ==
  ASSUME NEW s, NEW t, NEW k, Shows(s, t, k), NEW buffer \in Seq(Letter)
  PROVE  Shows(printed(s, buffer), t \o buffer, k)
<1> DEFINE Loop(f, n) == /\ f[0] = s
                         /\ \A i \in 1 .. n : f[i] = printc(f[i - 1], buffer[i])
                         /\ Shows(f[n], t \o SubSeq(buffer, 1, n), k)
           D == {n \in 0 .. Len(buffer) : ~ \E f : Loop(f, n)}
<1>1. t \in Seq(Letter) /\ Len(buffer) \in Nat
  BY DEF Shows
<1>2. 0 \notin D
  <2> DEFINE f == [i \in 0 .. 0 |-> s]
  <2>1. SubSeq(buffer, 1, 0) = <<>> /\ t \o <<>> = t
    BY <1>1
  <2>2. f[0] = s
    OBVIOUS
  <2> HIDE DEF f
  <2>3. Shows(f[0], t \o SubSeq(buffer, 1, 0), k)
    BY <2>1, <2>2, Zenon
  <2>4. Loop(f, 0)
    BY <2>2, <2>3
  <2> QED  BY <2>4
<1>3. ASSUME NEW n \in 1 .. Len(buffer), n - 1 \notin D
      PROVE  n \notin D
  <2>1. n - 1 \in 0 .. Len(buffer) /\ n \in Nat
    BY <1>1, SMTT(30)
  <2>2. PICK g : Loop(g, n - 1)
    BY <1>3, <2>1
  <2> DEFINE f == [i \in 0 .. n |-> IF i < n THEN g[i] ELSE printc(g[n - 1], buffer[n])]
  <2>3. f[0] = s /\ f[n] = printc(g[n - 1], buffer[n])
    BY <2>1, <2>2
  <2>4. \A i \in 1 .. n : f[i] = printc(f[i - 1], buffer[i])
    <3> TAKE i \in 1 .. n
    <3>1. f[i - 1] = g[i - 1]
      BY <2>1
    <3>2. CASE i < n
      <4>1. f[i] = g[i] /\ i \in 1 .. n - 1
        BY <2>1, <3>2
      <4> QED  BY <4>1, <3>1, <2>2
    <3>3. CASE i = n
      BY <3>1, <3>3, <2>3
    <3> QED  BY <3>2, <3>3, <2>1
  <2> HIDE DEF f
  <2>5. buffer[n] \in Letter
    OBVIOUS
  <2>6. Append(t \o SubSeq(buffer, 1, n - 1), buffer[n]) = t \o SubSeq(buffer, 1, n)
    <3>1. PICK done \in Seq(Letter) : done = SubSeq(buffer, 1, n - 1)
      <4>1. \A i \in 1 .. n - 1 : buffer[i] \in Letter
        BY <1>1
      <4>2. 1 \in Int /\ n - 1 \in Int
        BY <2>1
      <4>3. SubSeq(buffer, 1, n - 1) \in Seq(Letter)
        BY <4>1, <4>2
      <4> QED  BY <4>3, Zenon
    <3>2. SubSeq(buffer, 1, n) = Append(done, buffer[n])
      BY <3>1, <2>1, <1>1
    <3>3. Append(t \o done, buffer[n]) = t \o Append(done, buffer[n])
      <4>1. \A e \in Letter : Append(t \o done, e) = t \o Append(done, e)
        BY <1>1, AppendConcat, Zenon
      <4> QED  BY <2>5, <4>1, Zenon
    <3> QED  BY <3>1, <3>2, <3>3, Zenon
  <2>7. Shows(printc(g[n - 1], buffer[n]),
              Append(t \o SubSeq(buffer, 1, n - 1), buffer[n]), k)
    BY <2>2, <2>5, PrintcShows, SMTT(30)
  <2>8. Loop(f, n)
    BY <2>3, <2>4, <2>6, <2>7, Zenon
  <2> QED  BY <2>8
<1>4. D = {}
  <2> SUFFICES ASSUME D # {}
               PROVE  FALSE
    OBVIOUS
  <2>1. D \subseteq 0 .. Len(buffer)
    OBVIOUS
  <2> HIDE DEF D
  <2>2. PICK m \in D : \A i \in D : m <= i
    <3>1. D \subseteq Nat
      BY <2>1, <1>1
    <3> QED  BY <3>1, Least, Zenon
  <2>3. m \in 1 .. Len(buffer) /\ m - 1 \notin D
    BY <1>1, <1>2, <2>1, <2>2, SMTT(30)
  <2> QED  BY <1>3, <2>2, <2>3, SMTT(30)
<1>5. PICK f : Loop(f, Len(buffer))
  BY <1>1, <1>4
<1>6. SubSeq(buffer, 1, Len(buffer)) = buffer
  BY <1>1, SMTT(30)
<1>7. printed(s, buffer) = f[Len(buffer)]
  BY <1>1, <1>5, PrintedIs
<1> QED  BY <1>5, <1>6, <1>7, Zenon

(* Echoing a key changes the first cell and nothing else.                  *)
LEMMA EchoShows ==
  ASSUME NEW s, NEW t, NEW k, Shows(s, t, k), NEW c, c # NewLine
  PROVE  Shows(printc_xy(s, 0, 0, c), t, c)
<1>1. PICK x, y, f :
             /\ x \in 0 .. NUM_COLUMNS - 1 /\ y \in 0 .. NUM_ROWS - 1
             /\ s = [x |-> x, y |-> y, screen |-> f] /\ f = [p \in Cell |-> f[p]]
  <2>1. PICK f : f = [p \in Cell |-> s.screen[p]]
    BY Zenon
  <2>2. s = [x |-> s.x, y |-> s.y, screen |-> f] /\ f = [p \in Cell |-> f[p]]
    BY <2>1 DEF Shows
  <2>3. s.x \in 0 .. NUM_COLUMNS - 1 /\ s.y \in 0 .. NUM_ROWS - 1
    BY DEF Shows
  <2> QED  BY <2>2, <2>3, Zenon
<1>2. s.x = x /\ s.y = y /\ s.screen = f
  BY <1>1
<1>3. 0 \in Cell /\ 0 * NUM_COLUMNS + 0 = 0
  BY Screen
<1>4. PICK e : e = [s EXCEPT !.x = 0, !.y = 0]
  OBVIOUS
<1>5. e = [x |-> 0, y |-> 0, screen |-> f] /\ e.x = 0 /\ e.y = 0
  BY <1>1, <1>4, Zenon
<1>6. PICK g : g = [p \in Cell |-> IF p = 0 THEN c ELSE f[p]]
  BY Zenon
<1>7. PICK sh : sh = [e EXCEPT !.screen[e.y * NUM_COLUMNS + e.x] = c, !.x = e.x + 1]
  OBVIOUS
<1>8. sh = [x |-> 1, y |-> 0, screen |-> g]
  <2>0. e.y * NUM_COLUMNS + e.x = 0 /\ e.x + 1 = 1
    BY <1>3, <1>5
  <2>1. sh = [e EXCEPT !.screen[0] = c, !.x = 1]
    BY <1>7, <2>0, Zenon
  <2>2. [f EXCEPT ![0] = c] = g
    BY <1>1, <1>3, <1>6
  <2> QED  BY <1>5, <2>1, <2>2, Zenon
<1>9. PICK v, h : printc(e, c) = [x |-> v, y |-> h, screen |-> g]
  <2>1. printc(e, c) = IF full(sh.x) THEN next_line(sh) ELSE sh
    BY <1>7 DEF printc
  <2>2. PICK h : h = (sh.y + 1) % NUM_ROWS
    OBVIOUS
  <2>3. next_line(sh) = [sh EXCEPT !.x = 0, !.y = h]
    BY <2>2 DEF next_line
  <2>4. next_line(sh) = [x |-> 0, y |-> h, screen |-> g]
    BY <1>8, <2>3, Zenon
  <2> QED  BY <1>8, <2>1, <2>4, Zenon
<1>10. PICK r : r = printc_xy(s, 0, 0, c)
  OBVIOUS
<1>11. r = [x |-> x, y |-> y, screen |-> g]
  <2>1. r = [printc(e, c) EXCEPT !.x = x, !.y = y]
    BY <1>2, <1>4, <1>10 DEF printc_xy
  <2>2. r = [[x |-> v, y |-> h, screen |-> g] EXCEPT !.x = x, !.y = y]
    BY <1>9, <2>1, Zenon
  <2> QED  BY <2>2, Zenon
<1>12. r.x = x /\ r.y = y /\ r.screen = g
  BY <1>11
<1>13. r = [x |-> r.x, y |-> r.y, screen |-> [p \in Cell |-> r.screen[p]]]
  <2>1. g = [p \in Cell |-> g[p]]
    BY <1>6
  <2> QED  BY <1>11, <1>12, <2>1, Zenon
<1>14. PICK at : /\ OnStrip(at, t)
                 /\ y * NUM_COLUMNS + x = at[Len(t)] % Area
                 /\ \A p \in Cell : Latest(f, at, t, p) \/ (p = 0 /\ f[p] = k)
  BY <1>2 DEF Shows
<1>15. ASSUME NEW p \in Cell
       PROVE  Latest(g, at, t, p) \/ (p = 0 /\ g[p] = c)
  <2>1. CASE p = 0
    BY <1>6, <2>1, SMTT(30)
  <2>2. CASE p # 0
    <3>1. g[p] = f[p] /\ Latest(f, at, t, p)
      BY <1>6, <1>14, <2>2, SMTT(30)
    <3> QED  BY <3>1 DEF Latest
  <2> QED  BY <2>1, <2>2
<1>16. Shows(r, t, c)
  <2>1. t \in Seq(Letter)
    BY DEF Shows
  <2> QED  BY <1>1, <1>12, <1>13, <1>14, <1>15, <2>1 DEF Shows
<1> QED  BY <1>10, <1>16

-----------------------------------------------------------------------------
(* The console.                                                            *)

(* Every write and every key keeps the text in order.                      *)
LEMMA ConInvStep == ConInv /\ [CNext]_consoleVars => ConInv'
<1> SUFFICES ASSUME ConInv, [CNext]_consoleVars
             PROVE  ConInv'
  OBVIOUS
<1>0. PICK s, t, k : con = s /\ text = t /\ key = k /\ Shows(s, t, k)
  BY DEF ConInv
<1>1. ASSUME NEW n \in 1 .. MAX_WRITE, NEW buffer \in [1 .. n -> Char \cup {NewLine}],
             sys_write_console(buffer)
      PROVE  ConInv'
  <2>1. buffer \in Seq(Letter)
    BY ConsoleAssumption DEF Letter
  <2>2. Shows(printed(s, buffer), t \o buffer, k)
    BY <1>0, <2>1, WriteShows
  <2>3. con' = printed(s, buffer) /\ text' = t \o buffer /\ key' = k
    BY <1>0, <1>1 DEF sys_write_console
  <2> QED  BY <2>2, <2>3, Zenon DEF ConInv
<1>2. ASSUME NEW code \in 0 .. 2 * SCANCODES - 1, keyboard_service(code)
      PROVE  ConInv'
  <2>1. CASE code >= SCANCODES
    <3>1. PICK c : c = decode(code - SCANCODES)
      OBVIOUS
    <3>2. c # NewLine
      <4>1. code - SCANCODES \in Nat
        BY <2>1, ConsoleAssumption
      <4>2. CASE code - SCANCODES < Len(char_map)
        <5>1. code - SCANCODES + 1 \in 1 .. Len(char_map)
          BY <4>1, <4>2, ConsoleAssumption
        <5>2. c = char_map[code - SCANCODES + 1]
          BY <3>1, <4>2 DEF decode
        <5> QED  BY <5>1, <5>2, ConsoleAssumption
      <4>3. CASE ~ (code - SCANCODES < Len(char_map))
        BY <3>1, <4>3 DEF decode, NewLine
      <4> QED  BY <4>2, <4>3
    <3>3. key' = c /\ con' = printc_xy(s, 0, 0, c) /\ text' = t
      BY <1>0, <1>2, <2>1, <3>1 DEF keyboard_service
    <3>4. Shows(printc_xy(s, 0, 0, c), t, c)
      BY <1>0, <3>2, EchoShows
    <3> QED  BY <3>3, <3>4 DEF ConInv
  <2>2. CASE ~ (code >= SCANCODES)
    BY <1>0, <1>2, <2>2 DEF keyboard_service, ConInv
  <2> QED  BY <2>1, <2>2
<1>3. CASE UNCHANGED consoleVars
  BY <1>0, <1>3 DEF consoleVars, ConInv
<1> QED  BY <1>1, <1>2, <1>3 DEF CNext

(* The empty screen shows the empty text.                                  *)
LEMMA ConInvInit == CInit => ConInv
<1> SUFFICES ASSUME CInit
             PROVE  ConInv
  OBVIOUS
<1>1. PICK s, f : /\ f = [p \in Cell |-> Blank] /\ con = s
                  /\ s = [x |-> 0, y |-> FIRST_ROW, screen |-> f]
  BY DEF CInit
<1>2. s.x = 0 /\ s.y = FIRST_ROW /\ s.screen = f
  BY <1>1
<1>3. PICK p0 \in Nat : p0 = FIRST_ROW * NUM_COLUMNS /\ p0 % Area = p0 /\ p0 + 0 = p0
  <2>1. PICK p0 \in Nat : p0 = FIRST_ROW * NUM_COLUMNS /\ p0 < Area
    <3>1. FIRST_ROW * NUM_COLUMNS \in Nat /\ FIRST_ROW * NUM_COLUMNS + 0 < Area
      BY Screen, CellOf DEF Area
    <3> QED  BY <3>1
  <2> QED  BY <2>1, Screen
<1> DEFINE at == [j \in 0 .. 0 |-> p0]
<1>4. at \in [0 .. 0 -> Nat] /\ at[0] = p0
  OBVIOUS
<1>5. <<>> \in Seq(Letter) /\ Len(<<>>) = 0
  OBVIOUS
<1> HIDE DEF at
<1>6. OnStrip(at, <<>>)
  BY <1>3, <1>4, <1>5 DEF OnStrip
<1>7. \A p \in Cell : Latest(f, at, <<>>, p)
  <2> TAKE p \in Cell
  <2>1. Printed(at, <<>>, p) = {}
    BY <1>5 DEF Printed
  <2> QED  BY <1>1, <2>1 DEF Latest
<1>8. s = [x |-> s.x, y |-> s.y, screen |-> [p \in Cell |-> s.screen[p]]]
  <2>1. f = [p \in Cell |-> f[p]]
    BY <1>1
  <2> QED  BY <1>1, <1>2, <2>1, Zenon
<1>9. Shows(s, <<>>, key)
  <2>1. /\ s.x \in 0 .. NUM_COLUMNS - 1 /\ s.y \in 0 .. NUM_ROWS - 1
        /\ s.y * NUM_COLUMNS + s.x = at[Len(<<>>)] % Area
    BY <1>2, <1>3, <1>4, <1>5, Screen
  <2> QED  BY <1>2, <1>5, <1>6, <1>7, <1>8, <2>1 DEF Shows
<1> QED  BY <1>1, <1>9 DEF CInit, ConInv

(* Strip computes the strip.                                               *)
LEMMA StripIs ==
  ASSUME NEW t, NEW l \in Nat, l = Len(t), NEW at, OnStrip(at, t)
  PROVE  \A k \in 0 .. l : Strip(t)[k] = at[k]
<1> DEFINE v == CHOOSE g : g = [k \in 0 .. Len(t) |->
                  IF k = 0 THEN FIRST_ROW * NUM_COLUMNS
                  ELSE IF t[k] = NewLine
                       THEN (g[k - 1] \div NUM_COLUMNS + 1) * NUM_COLUMNS
                  ELSE g[k - 1] + 1]
<1>1. /\ at \in [0 .. l -> Nat] /\ at[0] = FIRST_ROW * NUM_COLUMNS
      /\ \A k \in 1 .. l : at[k] = After(at[k - 1], t[k])
  BY DEF OnStrip
<1>2. v = [k \in 0 .. Len(t) |->
             IF k = 0 THEN FIRST_ROW * NUM_COLUMNS
             ELSE IF t[k] = NewLine
                  THEN (v[k - 1] \div NUM_COLUMNS + 1) * NUM_COLUMNS
             ELSE v[k - 1] + 1]
  <2>1. at = [k \in 0 .. Len(t) |->
                IF k = 0 THEN FIRST_ROW * NUM_COLUMNS
                ELSE IF t[k] = NewLine
                     THEN (at[k - 1] \div NUM_COLUMNS + 1) * NUM_COLUMNS
                ELSE at[k - 1] + 1]
    BY <1>1 DEF After
  <2> QED  BY <2>1, Zenon
<1>3. Strip(t) = v
  BY Zenon DEF Strip
<1> HIDE DEF v
<1>4. v[0] = FIRST_ROW * NUM_COLUMNS /\ \A k \in 1 .. l : v[k] = After(v[k - 1], t[k])
  <2>1. v[0] = FIRST_ROW * NUM_COLUMNS
    BY <1>2
  <2>2. ASSUME NEW k \in 1 .. l
        PROVE  v[k] = After(v[k - 1], t[k])
    <3>1. k \in 0 .. Len(t) /\ k # 0
      OBVIOUS
    <3>2. v[k] = IF t[k] = NewLine
                 THEN (v[k - 1] \div NUM_COLUMNS + 1) * NUM_COLUMNS ELSE v[k - 1] + 1
      BY <1>2, <3>1, Zenon
    <3> QED  BY <3>2, Zenon DEF After
  <2> QED  BY <2>1, <2>2
<1>5. \A k \in 0 .. l : v[k] = at[k]
  <2> DEFINE D == {k \in 0 .. l : v[k] # at[k]}
  <2> SUFFICES ASSUME D # {}
               PROVE  FALSE
    OBVIOUS
  <2>1. PICK m \in D : \A k \in D : m <= k
    <3>1. D \subseteq Nat
      OBVIOUS
    <3> HIDE DEF D
    <3> QED  BY <3>1, Least, Zenon
  <2>2. m \in 1 .. l
    BY <2>1, <1>1, <1>4
  <2>3. v[m - 1] = at[m - 1]
    BY <2>1, <2>2
  <2> QED  BY <2>1, <2>2, <2>3, <1>1, <1>4
<1> QED  BY <1>3, <1>5

(* The last member of a set of numbers is its maximum.                     *)
LEMMA LastIsMax ==
  ASSUME NEW S, S \subseteq Nat, NEW m \in S, \A j \in S : j <= m
  PROVE  Max(S) = m
<1>1. PICK n : n = Max(S)
  OBVIOUS
<1>2. \A y \in S : m >= y
  OBVIOUS
<1>3. n \in S /\ \A y \in S : n >= y
  BY <1>1, <1>2, Zenon DEF Max
<1>4. n \in Nat /\ m \in Nat /\ n >= m /\ n <= m
  BY <1>3
<1> QED  BY <1>1, <1>4

(* The screen shows the text that sys_write_console and printk printed, in *)
(* order and through every wrap, whatever keys the keyboard echoed between *)
(* the writes.                                                             *)
THEOREM TextInOrderHolds == CSpec => []TextInOrder
<1>1. ConInv => TextInOrder
  <2> SUFFICES ASSUME ConInv
               PROVE  TextInOrder
    OBVIOUS
  <2>1. Shows(con, text, key)
    BY DEF ConInv
  <2>2. PICK at : /\ OnStrip(at, text)
                  /\ con.y * NUM_COLUMNS + con.x = at[Len(text)] % Area
                  /\ \A p \in Cell : \/ Latest(con.screen, at, text, p)
                                     \/ p = 0 /\ con.screen[p] = key
    BY <2>1 DEF Shows
  <2>3. PICK l \in Nat : l = Len(text)
    BY <2>1 DEF Shows
  <2>4. \A k \in 0 .. l : Position(k) = at[k] % Area
    BY <2>2, <2>3, StripIs DEF Position, Area
  <2>5. ASSUME NEW p
        PROVE  PrintedAt(p) = Printed(at, text, p)
    <3>1. \A k \in 1 .. l : Position(k - 1) = at[k - 1] % Area
      BY <2>4
    <3> QED  BY <2>3, <3>1 DEF PrintedAt, Printed
  <2>6. con.y * NUM_COLUMNS + con.x = Position(Len(text))
    BY <2>2, <2>3, <2>4, SMTT(30)
  <2>7. ASSUME NEW p \in Cell, Latest(con.screen, at, text, p)
        PROVE  con.screen[p] = IF PrintedAt(p) = {} THEN Blank
                               ELSE text[Max(PrintedAt(p))]
    <3>1. PICK S : S = PrintedAt(p) /\ S = Printed(at, text, p)
      BY <2>5
    <3>2. S \subseteq Nat
      BY <2>3, <3>1 DEF Printed
    <3>3. CASE S = {} /\ con.screen[p] = Blank
      BY <3>1, <3>3
    <3>4. CASE \E k \in S : (\A j \in S : j <= k) /\ con.screen[p] = text[k]
      <4>1. PICK k \in S : (\A j \in S : j <= k) /\ con.screen[p] = text[k]
        BY <3>4
      <4>2. Max(S) = k
        BY <3>2, <4>1, LastIsMax, Zenon
      <4> QED  BY <3>1, <4>1, <4>2
    <3> QED  BY <2>7, <3>1, <3>3, <3>4 DEF Latest
  <2> QED  BY <2>2, <2>6, <2>7 DEF TextInOrder
<1> QED  BY <1>1, ConInvInit, ConInvStep, PTL DEF CSpec
=============================================================================
