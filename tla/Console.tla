------------------------------ MODULE Console ------------------------------
(***************************************************************************)
(* The screen: printc and its callers (io.c, devices.c).  Text comes from  *)
(* sys_write_console and printk, which print a buffer within one handler;  *)
(* keyboard_service decodes and echoes a key between such handlers (its    *)
(* test hooks only delay the echo; they are in module ContextSwitch).      *)
(***************************************************************************)
EXTENDS Integers, Sequences, FiniteSetsExt

CONSTANTS NUM_COLUMNS, NUM_ROWS, FIRST_ROW,
          Char,        \* printable characters
          SCANCODES,   \* scan codes of keys (128); a release adds this number
          char_map,    \* characters of scan codes 0, 1, ...
          MAX_WRITE,   \* bound on the characters of one call
          MAX_TEXT     \* bound on the characters printed

NewLine == "newline"
Blank == "blank"
Nul == "nul"       \* keys without a character have '\0' in char_map

ASSUME ConsoleAssumption ==
  /\ NUM_COLUMNS \in 1 .. 255 /\ NUM_ROWS \in 1 .. 255    \* x and y are Bytes
  /\ FIRST_ROW \in 0 .. NUM_ROWS - 1
  /\ MAX_WRITE \in Nat /\ MAX_TEXT \in Nat
  /\ SCANCODES \in Nat /\ Len(char_map) \in 0 .. SCANCODES
  /\ \A i \in 1 .. Len(char_map) : char_map[i] # NewLine    \* no key is '\n'

Cell == 0 .. NUM_COLUMNS * NUM_ROWS - 1

VARIABLES con,     \* cursor x, y and the screen
          text,    \* history: the characters printed as text
          key      \* history: the last key echoed

consoleVars == <<con, text, key>>

CInit ==
  /\ con = [x |-> 0, y |-> FIRST_ROW, screen |-> [p \in Cell |-> Blank]]
  /\ text = <<>> /\ key = Blank

next_line(s) == [s EXCEPT !.x = 0, !.y = (s.y + 1) % NUM_ROWS]

full(column) == column >= NUM_COLUMNS

(* The console after printing one character.                               *)
printc(s, c) ==
  IF c = NewLine THEN next_line(s)
  ELSE LET shown == [s EXCEPT !.screen[s.y * NUM_COLUMNS + s.x] = c, !.x = s.x + 1]
       IN  IF full(shown.x) THEN next_line(shown) ELSE shown

Bug_printc_xy(s, mx, my, c) == printc([s EXCEPT !.x = mx, !.y = my], c)

(* Prints at a place of its own and puts the cursor back.                  *)
printc_xy(s, mx, my, c) ==
  [printc([s EXCEPT !.x = mx, !.y = my], c) EXCEPT !.x = s.x, !.y = s.y]

(* The console after printing the characters of buffer one by one.         *)
printed(s, buffer) ==
  LET at[i \in 0 .. Len(buffer)] == IF i = 0 THEN s ELSE printc(at[i - 1], buffer[i])
  IN  at[Len(buffer)]

(* sys_write_console, and printk for a string that ends where buffer ends. *)
sys_write_console(buffer) ==
  /\ Len(text) + Len(buffer) <= MAX_TEXT
  /\ con' = printed(con, buffer)
  /\ text' = text \o buffer
  /\ UNCHANGED key

decode(scancode) == IF scancode < Len(char_map) THEN char_map[scancode + 1] ELSE "C"

(* A key is echoed when it is released.                                    *)
keyboard_service(code) ==
  /\ IF code >= SCANCODES
     THEN /\ key' = decode(code - SCANCODES)
          /\ con' = printc_xy(con, 0, 0, key')
     ELSE UNCHANGED <<con, key>>
  /\ UNCHANGED text

CNext ==
  \/ \E n \in 1 .. MAX_WRITE : \E buffer \in [1 .. n -> Char \cup {NewLine}] :
       sys_write_console(buffer)
  \/ \E code \in 0 .. 2 * SCANCODES - 1 : keyboard_service(code)

CSpec == CInit /\ [][CNext]_consoleVars

-----------------------------------------------------------------------------
(* Properties.                                                             *)

(* Where the character after the first k of s goes, on an endless strip of *)
(* lines that the screen is wrapped around.                                *)
Strip(s) ==
  LET at[k \in 0 .. Len(s)] ==
        IF k = 0 THEN FIRST_ROW * NUM_COLUMNS
        ELSE IF s[k] = NewLine THEN (at[k - 1] \div NUM_COLUMNS + 1) * NUM_COLUMNS
        ELSE at[k - 1] + 1
  IN  at

Position(k) == Strip(text)[k] % (NUM_COLUMNS * NUM_ROWS)

(* The numbers of the characters of text that went to cell p.              *)
PrintedAt(p) == {k \in 1 .. Len(text) : text[k] # NewLine /\ Position(k - 1) = p}

(* The screen shows the text in order, the last character printed in each  *)
(* cell, and the cursor stands after it, as if no key had been pressed;    *)
(* only the first cell may show the last key in place of text.             *)
TextInOrder ==
  /\ con.y * NUM_COLUMNS + con.x = Position(Len(text))
  /\ \A p \in Cell :
       LET expected == IF PrintedAt(p) = {} THEN Blank ELSE text[Max(PrintedAt(p))]
       IN  con.screen[p] = expected \/ (p = 0 /\ con.screen[p] = key)

(* What the comment in keyboard_service says of keys whose entry in        *)
(* char_map is '\0': a 'C' is written for them too.                        *)
NulShownAsC == \A p \in Cell : con.screen[p] # Nul
=============================================================================
