------------------------------- MODULE Utils -------------------------------
(***************************************************************************)
(* The helpers of utils.c and libc.c as the loops they are: copy_data (and *)
(* copy_from_user and copy_to_user, which have the same body), itoa and    *)
(* itoa_hex, access_ok, and get_ticks with do_div.  One iteration is one   *)
(* step and one call is in progress at a time.  Sizes are scaled: a page   *)
(* has PAGE bytes and an unsigned long is below UINT.                      *)
(***************************************************************************)
EXTENDS Integers, Sequences

CONSTANTS BUFFER,               \* bytes of source and destination
          Number,               \* ints to convert
          PAGE, UINT, CYCLESPERTICK,
          USER_FIRST_PAGE, NUM_PAG_DATA, NUM_PAG_CODE

ASSUME UtilsAssumption ==
  /\ BUFFER \in Nat /\ Number \subseteq Int
  /\ PAGE \in Nat \ {0} /\ UINT \in Nat /\ CYCLESPERTICK \in 1 .. UINT - 1
  /\ USER_FIRST_PAGE \in Nat /\ NUM_PAG_DATA \in Nat /\ NUM_PAG_CODE \in Nat
  /\ (USER_FIRST_PAGE + NUM_PAG_DATA + NUM_PAG_CODE + 1) * PAGE < UINT

VARIABLES op, arg,       \* operation in progress or done, and its arguments
          size, dest,    \* copy_data: bytes left, and the destination
          a, b, i1,      \* itoa: what is left, characters so far, swap index
          result         \* of access_ok and get_ticks

vars == <<op, arg, size, dest, a, b, i1, result>>

(* Byte k of the source holds k; the destination starts as zeros.          *)
Clean == [k \in 1 .. BUFFER |-> 0]

Init ==
  /\ op = "none" /\ arg = <<>>
  /\ size = 0 /\ dest = Clean
  /\ a = 0 /\ b = <<>> /\ i1 = 0
  /\ result = FALSE

(* The caller goes on; nothing is kept from one call to the next.          *)
return ==
  /\ op \in {"copied", "converted", "checked", "divided"}
  /\ op' = "none" /\ arg' = <<>>
  /\ size' = 0 /\ dest' = Clean
  /\ a' = 0 /\ b' = <<>> /\ i1' = 0
  /\ result' = FALSE

-----------------------------------------------------------------------------
(* copy_data: words while more than four bytes are left, then bytes.       *)

copy_data(n) ==
  /\ op = "none"
  /\ op' = "copy" /\ arg' = <<n>> /\ size' = n
  /\ UNCHANGED <<dest, a, b, i1, result>>

Bug_word_at_end == size > 2

whole_word == size > 4

(* Copies the next k bytes.                                                *)
copy(k) ==
  LET done == arg[1] - size
  IN  /\ dest' = [j \in 1 .. BUFFER |-> IF j \in done + 1 .. done + k THEN j ELSE dest[j]]
      /\ size' = size - k

copy_word == /\ op = "copy" /\ whole_word /\ copy(4)
             /\ UNCHANGED <<op, arg, a, b, i1, result>>

copy_byte == /\ op = "copy" /\ ~ whole_word /\ size > 0 /\ copy(1)
             /\ UNCHANGED <<op, arg, a, b, i1, result>>

copied == /\ op = "copy" /\ ~ whole_word /\ size <= 0 /\ op' = "copied"
          /\ UNCHANGED <<arg, size, dest, a, b, i1, result>>

-----------------------------------------------------------------------------
(* itoa and itoa_hex: digits from the last to the first, then a reversal   *)
(* in place.  A character is the digit it shows.                           *)

itoa(v, radix) ==
  /\ op = "none"
  /\ arg' = <<v, radix>> /\ a' = v
  /\ IF v = 0 THEN op' = "converted" /\ b' = <<0>>
              ELSE op' = "digits" /\ UNCHANGED b
  /\ UNCHANGED <<size, dest, i1, result>>

digit ==
  /\ op = "digits"
  /\ IF a > 0 THEN /\ b' = Append(b, a % arg[2])
                   /\ a' = a \div arg[2]
                   /\ UNCHANGED op
              ELSE op' = "reverse" /\ UNCHANGED <<a, b>>
  /\ UNCHANGED <<arg, size, dest, i1, result>>

Bug_all_swapped == i1 < Len(b)

swapping == i1 < Len(b) \div 2

swap ==
  /\ op = "reverse"
  /\ IF swapping
     THEN /\ b' = [b EXCEPT ![i1 + 1] = b[Len(b) - i1], ![Len(b) - i1] = b[i1 + 1]]
          /\ i1' = i1 + 1
          /\ UNCHANGED op
     ELSE op' = "converted" /\ UNCHANGED <<b, i1>>
  /\ UNCHANGED <<arg, size, dest, a, result>>

-----------------------------------------------------------------------------
(* access_ok, in pages; addr + size wraps around.                          *)

page_of(addr) == addr \div PAGE

Bug_within(ini, fin, pages) ==
  ini >= USER_FIRST_PAGE /\ fin < USER_FIRST_PAGE + pages

(* fin is the page of the first byte after the block, hence the <=.        *)
within(ini, fin, pages) ==
  ini >= USER_FIRST_PAGE /\ fin <= USER_FIRST_PAGE + pages

(* VERIFY_WRITE falls through to the test for reads when its own fails.    *)
access_ok(type, addr, n) ==
  LET addr_ini == page_of(addr)
      addr_fin == page_of((addr + n) % UINT)
  IN  /\ op = "none"
      /\ op' = "checked" /\ arg' = <<type, addr, n>>
      /\ result' = /\ addr_fin >= addr_ini
                   /\ \/ type = "VERIFY_WRITE" /\ within(addr_ini, addr_fin, NUM_PAG_DATA)
                      \/ within(addr_ini, addr_fin, NUM_PAG_CODE + NUM_PAG_DATA)
      /\ UNCHANGED <<size, dest, a, b, i1>>

-----------------------------------------------------------------------------
(* get_ticks: the time stamp counter, two words, divided by do_div.        *)

Bug_upper_not_reduced(high) == high

(* The part of the upper word do_div leaves to the division of the lower.  *)
upper(high) == IF high # 0 THEN high % CYCLESPERTICK ELSE high

(* divl divides two words into one; a quotient of more is a divide error,  *)
(* here -1.                                                                *)
divl(high, low) ==
  LET q == (high * UINT + low) \div CYCLESPERTICK IN IF q < UINT THEN q ELSE -1

(* The lower word of the quotient is returned; the upper is cut off.       *)
get_ticks(tsc) ==
  /\ op = "none"
  /\ op' = "divided" /\ arg' = <<tsc>>
  /\ result' = divl(upper(tsc \div UINT), tsc % UINT)
  /\ UNCHANGED <<size, dest, a, b, i1>>

Next ==
  \/ \E n \in 0 .. BUFFER : copy_data(n)
  \/ copy_word \/ copy_byte \/ copied
  \/ \E v \in Number, radix \in {10, 16} : itoa(v, radix)
  \/ digit \/ swap
  \/ \E type \in {"VERIFY_READ", "VERIFY_WRITE"}, addr, n \in 0 .. UINT - 1 :
       access_ok(type, addr, n)
  \/ \E tsc \in 0 .. UINT * UINT - 1 : get_ticks(tsc)
  \/ return

Spec == Init /\ [][Next]_vars

-----------------------------------------------------------------------------
(* Properties.                                                             *)

(* copy_data copies exactly the bytes asked for, in their places, and none *)
(* beyond them, whatever the remainder modulo the word size.               *)
CopiesExactly ==
  op = "copied" => dest = [j \in 1 .. BUFFER |-> IF j <= arg[1] THEN j ELSE 0]

(* The number the characters show in this radix: that of the first k is v. *)
Shown(s, radix) ==
  LET v[k \in 0 .. Len(s)] == IF k = 0 THEN 0 ELSE v[k - 1] * radix + s[k]
  IN  v[Len(s)]

(* itoa and itoa_hex show a number that is not negative, without leading   *)
(* zeros; of a negative one (an address above 2^31 in the page fault       *)
(* message) they show nothing.                                             *)
ShowsNumber ==
  op = "converted" =>
    IF arg[1] < 0 THEN b = <<>>
    ELSE Shown(b, arg[2]) = arg[1] /\ (b[1] = 0 => b = <<0>>)

(* The pages a process may access in this way: data and code, but only     *)
(* data for writing ("no support for automodifyable code").                *)
Accessible(type) ==
  LET pages == IF type = "VERIFY_WRITE" THEN NUM_PAG_DATA ELSE NUM_PAG_DATA + NUM_PAG_CODE
  IN  USER_FIRST_PAGE .. USER_FIRST_PAGE + pages - 1

(* When access_ok refuses a block the block is definitely invalid, as its  *)
(* comment says: no block inside the pages that may be read is refused to  *)
(* a reader, and none inside those that may be written to a writer, up to  *)
(* the very last byte.                                                     *)
RefusedIsInvalid ==
  op = "checked" /\ ~ result =>
    \E byte \in arg[2] .. arg[2] + arg[3] - 1 \cup {arg[2]} :
      page_of(byte) \notin Accessible(arg[1])

(* The two-step division of do_div never raises a divide error and gives   *)
(* the quotient of the whole counter, modulo a word, at every value of the *)
(* counter: it needs the upper word reduced first.                         *)
TicksExact ==
  op = "divided" => result = (arg[1] \div CYCLESPERTICK) % UINT
=============================================================================
