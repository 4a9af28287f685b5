-------------------------------- MODULE Raid --------------------------------
(***************************************************************************)
(* Raid: which two minions keep the block at a byte offset of the disk.    *)
(* Minions are numbered by their position in MinionManager's vector.       *)
(***************************************************************************)
EXTENDS Integers

CONSTANT NumMinions     \* the NUM_OF_MINIONS of the configuration

ASSUME NumMinionsAssumption == NumMinions \in Nat \ {0}

Minions == 0..(NumMinions - 1)

ChooseMinions(offset) ==
    LET minion1 == offset % NumMinions
    IN  <<minion1, (minion1 + 1) % NumMinions>>
=============================================================================
