----------------------------- MODULE MCConsole -----------------------------
(* A keyboard for checking Console: a key without a character, two with    *)
(* one, and one beyond the table.                                          *)
EXTENDS Console

MCchar_map == <<"nul", "a", "k">>
=============================================================================
