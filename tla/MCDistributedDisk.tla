-------------------------- MODULE MCDistributedDisk --------------------------
(* Instances of DistributedDisk for TLC: who asks for what, and the faults. *)
EXTENDS DistributedDisk, TLC

CONSTANTS w1, w2, r1, r2

\* w1 and r1 share a block, r2 and w2 are for another one.
MCType == [c \in Commands |-> IF c \in {w1, w2} THEN "write" ELSE "read"]
MCKey == [c \in Commands |-> IF c \in {w1, r1} THEN 4096 ELSE 8192]

MCNoFaults == [lose |-> 0, error |-> 0, crash |-> 0]
MCLoseCrash == [lose |-> 1, error |-> 0, crash |-> 1]
MCTwoErrors == [lose |-> 1, error |-> 2, crash |-> 1]
==============================================================================
