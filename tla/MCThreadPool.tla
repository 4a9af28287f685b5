---------------------------- MODULE MCThreadPool ----------------------------
(* Instances of ThreadPool for TLC. *)
EXTENDS ThreadPool, TLC

\* The user's tasks have priority HIGH, the highest a user may give.
MCPriority == [t \in Tasks |-> 3]

==============================================================================
