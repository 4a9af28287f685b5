--------------------------- MODULE MCWaitableQueue ---------------------------
(* Instances of WaitableQueue for TLC. *)
EXTENDS WaitableQueue

\* Item n has priority n.
MCPrio == [i \in Items |-> i]
==============================================================================
