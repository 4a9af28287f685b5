----------------------------- MODULE MCMediator -----------------------------
(* Instances of Mediator for TLC. *)
EXTENDS Mediator
==============================================================================
