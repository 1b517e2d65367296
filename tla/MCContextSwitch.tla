-------------------------- MODULE MCContextSwitch --------------------------
(* Values for checking ContextSwitch: two different sets of user registers. *)
EXTENDS ContextSwitch

MCUserValue == {-10, -20}
=============================================================================
