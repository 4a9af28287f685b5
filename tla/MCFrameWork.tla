---------------------------- MODULE MCFrameWork -----------------------------
(* Instances of FrameWork for TLC. *)
EXTENDS FrameWork

MCWorkers == {"w1", "w2"}
MCThreads == {"main", "monitor", "reactor"} \cup MCWorkers
=============================================================================
