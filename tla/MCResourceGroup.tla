-------------------------- MODULE MCResourceGroup --------------------------
(* Instances of ResourceGroupController for TLC. *)
EXTENDS ResourceGroupController

\* One ResourceGroup of one kind.
OneKind == [r \in ResourceGroup |-> "kind"]
=============================================================================
