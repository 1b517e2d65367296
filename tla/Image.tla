------------------------------- MODULE Image -------------------------------
(***************************************************************************)
(* The disk image from build.c to memory: the builder writes boot sector,  *)
(* system and user program one after the other and patches their lengths   *)
(* in; the boot sector (Loader) reads the image back, opens the A20 gate   *)
(* and jumps to main.  Contents are in units, SECTOR to a sector; unit i   *)
(* of a file is told apart from all others.  Any call of the builder may   *)
(* fail, upon which it dies.  Nobody checks that the image is short enough *)
(* to be loaded: its length is cut to 16 bits, and a request for memory    *)
(* from INITSEG on hits the boot sector that is running.                   *)
(***************************************************************************)
EXTENDS Loader, Sequences, FiniteSetsExt

CONSTANTS SECTOR,     \* units in 512 bytes
          PARA,       \* units in a paragraph
          BUF,        \* units in the builder's buffer
          Size,       \* lengths the two files may have
          AX          \* values of the 16-bit register ax

ASSUME ImageAssumption ==
  /\ SECTOR \in Nat \ {0} /\ PARA \in Nat \ {0} /\ BUF \in Nat \ {0}
  /\ SEGMENT * SECTOR = PARAGRAPHS * PARA
  /\ ROOM <= 16                 \* real mode reaches 1 MB
  /\ Size \subseteq Nat /\ AX \in Nat \ {0}

VARIABLES stage,                   \* what runs
          sys_size, usr_size,      \* lengths of the files system and user
          left,                    \* units of the file still to copy
          zeos_bin,                \* the image
          a20, ax, hma             \* gate, register and the word at 0x10007c

imageVars == <<loaderVars, stage, sys_size, usr_size, left, zeos_bin, a20, ax, hma>>

(* system has room for the lengths; ax has been decremented from 0.        *)
IInit ==
  /\ sectors \in Geometry /\ syssize = 0 /\ nothing_loaded
  /\ stage = "bootsect"
  /\ sys_size \in Size \ {0} /\ usr_size \in Size
  /\ left = 0 /\ zeos_bin = <<>>
  /\ a20 = FALSE /\ ax = AX - 1 /\ hma \in 0 .. AX - 1

-----------------------------------------------------------------------------
(* build.c.                                                                *)

unit(file, from, n) == [i \in 1 .. n |-> <<file, from + i>>]

(* The boot sector has been checked (header, size, flag) and written.      *)
copy_bootsect ==
  /\ stage = "bootsect"
  /\ zeos_bin' = unit("bootsect", 0, SECTOR)
  /\ stage' = "system" /\ left' = sys_size
  /\ UNCHANGED <<loaderVars, sys_size, usr_size, a20, ax, hma>>

block_size == Min({left, BUF})

(* One iteration of the loop that copies system, or user.                  *)
copy_block ==
  /\ stage \in {"system", "user"} /\ left > 0
  /\ LET done == (IF stage = "system" THEN sys_size ELSE usr_size) - left
     IN  zeos_bin' = zeos_bin \o unit(stage, done, block_size)
  /\ left' = left - block_size
  /\ UNCHANGED <<loaderVars, stage, sys_size, usr_size, a20, ax, hma>>

file_copied ==
  /\ stage \in {"system", "user"} /\ left <= 0
  /\ IF stage = "system" THEN stage' = "user" /\ left' = usr_size
                         ELSE stage' = "lengths" /\ left' = 0
  /\ UNCHANGED <<loaderVars, sys_size, usr_size, zeos_bin, a20, ax, hma>>

Bug_header == <<"lengths", usr_size, sys_size>>

(* What is written at offsets 512 and 516, into the reserved first bytes   *)
(* of system (and a constant after it, at 520).                            *)
header == <<"lengths", sys_size, usr_size>>

im_size == (sys_size + usr_size + PARA - 1) \div PARA

(* The image length goes into a 16-bit word of the boot sector.            *)
write_lengths ==
  /\ stage = "lengths"
  /\ syssize' = im_size % (16 * PARAGRAPHS)
  /\ zeos_bin' = [zeos_bin EXCEPT ![SECTOR + 1] = header]
  /\ stage' = "read_it"
  /\ UNCHANGED <<sectors, sread, head, track, es, bx, memory, failed,
                 sys_size, usr_size, left, a20, ax, hma>>

(* A file cannot be opened, has the wrong format or shrinks, a write is    *)
(* short, or the output cannot seek.                                       *)
die ==
  /\ stage \in {"bootsect", "system", "user", "lengths"}
  /\ stage' = "died"
  /\ UNCHANGED <<loaderVars, sys_size, usr_size, left, zeos_bin, a20, ax, hma>>

-----------------------------------------------------------------------------
(* The boot sector.                                                        *)

(* A request from INITSEG on, whatever the BIOS answers, is the end of     *)
(* what can be said.                                                       *)
read_it(ok) ==
  /\ stage = "read_it" /\ rp_read(ok)
  /\ stage' = IF es < ROOM THEN "read_it" ELSE "overwritten"
  /\ UNCHANGED <<sys_size, usr_size, left, zeos_bin, a20, ax, hma>>

read_it_returns ==
  /\ stage = "read_it" /\ ~ more
  /\ stage' = "a20_wait"
  /\ UNCHANGED <<loaderVars, sys_size, usr_size, left, zeos_bin, a20, ax, hma>>

(* The keyboard controller opens the gate when it gets to it.              *)
gate_opens ==
  /\ stage = "a20_wait" /\ ~ a20
  /\ a20' = TRUE
  /\ UNCHANGED <<loaderVars, stage, sys_size, usr_size, left, zeos_bin, ax, hma>>

(* With the gate shut, 0x10007c is the word at 0x7c that was just written. *)
aliased(written) == (IF a20 THEN hma ELSE written) = written

Bug_same_word == ax

(* inc ax                                                                  *)
next_word == (ax + 1) % AX

a20_wait ==
  /\ stage = "a20_wait"
  /\ ax' = next_word
  /\ stage' = IF aliased(ax') THEN "a20_wait" ELSE "main"
  /\ UNCHANGED <<loaderVars, sys_size, usr_size, left, zeos_bin, a20, hma>>

(* Unit a of the memory from 0x10000 on; the image is only below INITSEG.  *)
loaded(a) ==
  LET s == IF a \div SECTOR \in Below THEN memory[a \div SECTOR] ELSE NotLoaded
      i == s * SECTOR + (a % SECTOR) + 1
  IN  IF s # NotLoaded /\ i \in DOMAIN zeos_bin THEN zeos_bin[i] ELSE <<"none", 0>>

(* What build.c does not check: the whole segments that are loaded end     *)
(* below the boot sector.                                                  *)
loadable == im_size < ROOM * PARAGRAPHS

INext ==
  \/ copy_bootsect \/ copy_block \/ file_copied \/ write_lengths \/ die
  \/ \E ok \in BOOLEAN : read_it(ok)
  \/ read_it_returns \/ gate_opens \/ a20_wait
=============================================================================
