------------------------------ MODULE MCUtils ------------------------------
(* Values for checking Utils: numbers of up to three digits, among them    *)
(* powers of both radices and their neighbours, and a negative one.        *)
EXTENDS Utils

MCNumber == -1 .. 20 \cup 95 .. 101 \cup 250 .. 260 \cup 998 .. 1001 \cup {4095, 4096}
=============================================================================
