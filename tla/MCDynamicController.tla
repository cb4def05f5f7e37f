------------------------ MODULE MCDynamicController ------------------------
(* DynamicController for TLC: the configuration gives all constants. *)
EXTENDS DynamicController
=============================================================================
