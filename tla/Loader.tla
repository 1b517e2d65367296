------------------------------- MODULE Loader -------------------------------
(***************************************************************************)
(* The boot sector's read_it: it loads the system from the floppy disk to  *)
(* 0x10000, sector 1 first, at most a track and never across a boundary of *)
(* 64 kB at a time.  One iteration of rp_read is one action.  Addresses    *)
(* are in sectors from 0x10000, es and bx being the segment of 64 kB and   *)
(* the place in it; syssize is in paragraphs, as in the code.  The BIOS    *)
(* may fail to read; its answer is not looked at.                          *)
(***************************************************************************)
EXTENDS Integers

CONSTANTS Geometry,      \* values SEC_PISTA may have
          SEGMENT,       \* sectors in 64 kB (128)
          PARAGRAPHS,    \* paragraphs in 64 kB (0x1000)
          ROOM           \* segments from SYSSEG to INITSEG (8)

ASSUME LoaderAssumption ==
  /\ SEGMENT \in Nat \ {0} /\ PARAGRAPHS \in Nat \ {0} /\ ROOM \in Nat
  /\ Geometry \subseteq 2 .. SEGMENT - 1

VARIABLES sectors, syssize,       \* words of the boot sector
          sread, head, track,     \* position on the disk
          es, bx,                 \* position in memory
          memory,                 \* disk sector in each sector of memory
          failed                  \* history: some read failed

loaderVars == <<sectors, syssize, sread, head, track, es, bx, memory, failed>>

(* Memory below the boot sector, which has moved to INITSEG.               *)
Below == 0 .. ROOM * SEGMENT - 1
NotLoaded == -1

Bug_from_first_sector == sread = 0 /\ head = 0 /\ track = 0

(* Sector 0 of the disk is the boot sector itself; SETUPSECS is 0.         *)
first_sector == sread = 1 /\ head = 0 /\ track = 0

nothing_loaded == /\ first_sector /\ es = 0 /\ bx = 0
                  /\ memory = [a \in Below |-> NotLoaded]
                  /\ failed = FALSE

LInit == sectors \in Geometry /\ syssize \in Nat /\ nothing_loaded

(* Not all loaded yet: the comparison is by whole segments, and jbe.       *)
more == es * PARAGRAPHS <= syssize

Bug_whole_track == sectors - sread

(* The rest of the track, or what fits into the segment.                   *)
count == IF bx + (sectors - sread) <= SEGMENT THEN sectors - sread
                                              ELSE SEGMENT - bx

destination == es * SEGMENT + bx

(* The sector that cylinder, head and sector number stand for.             *)
source == (track * 2 + head) * sectors + sread

read_track(n, ok) ==
  /\ memory' = [a \in Below |-> IF ok /\ a \in destination .. destination + n - 1
                                THEN source + (a - destination) ELSE memory[a]]
  /\ failed' = (failed \/ ~ ok)

(* A track that is finished is followed by its other side, then the next.  *)
advance_disk(n) ==
  IF sread + n = sectors
  THEN sread' = 0 /\ head' = 1 - head /\ track' = track + head
  ELSE sread' = sread + n /\ UNCHANGED <<head, track>>

advance_memory(n) ==
  IF bx + n >= SEGMENT THEN es' = es + 1 /\ bx' = 0
                       ELSE bx' = bx + n /\ UNCHANGED es

rp_read(ok) ==
  /\ more
  /\ read_track(count, ok)
  /\ advance_disk(count)
  /\ advance_memory(count)
  /\ UNCHANGED <<sectors, syssize>>

LSpec == LInit /\ [][\E ok \in BOOLEAN : rp_read(ok)]_loaderVars

-----------------------------------------------------------------------------
(* Properties.                                                             *)

(* Whatever the geometry, all that is loaded is in the order of the disk,  *)
(* without a gap or a repetition at the end of a track, of a cylinder or   *)
(* of a segment, unless the BIOS failed.                                   *)
LoadedInOrder ==
  ~ failed => \A a \in Below : a < destination => memory[a] = a + 1

(* Every request of read_it is one the BIOS can serve: it asks for at      *)
(* least a sector and stays within one track and one segment; and an image *)
(* of less than 512 kB is not loaded over the running boot sector.         *)
RequestsServable ==
  more => /\ count >= 1
          /\ sread + count <= sectors /\ bx + count <= SEGMENT
          /\ syssize < ROOM * PARAGRAPHS => es < ROOM
=============================================================================
