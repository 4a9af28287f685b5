----------------------------- MODULE NbdService -----------------------------
(***************************************************************************)
(* What the kernel is promised at the NBD socket: a request it sends is    *)
(* answered, once, and with a reply of its own.  A read may be dropped     *)
(* instead, and then it is never answered; a write may not.                *)
(***************************************************************************)
CONSTANTS Commands, Reads

VARIABLES waiting,      \* sent, and the master is at it
          answered,
          dropped

vars == <<waiting, answered, dropped>>

Init ==
    /\ waiting = {}
    /\ answered = {}
    /\ dropped = {}

Send(c) ==
    /\ c \notin waiting \cup answered \cup dropped
    /\ waiting' = waiting \cup {c}
    /\ UNCHANGED <<answered, dropped>>

Answer(c) ==
    /\ c \in waiting
    /\ waiting' = waiting \ {c}
    /\ answered' = answered \cup {c}
    /\ UNCHANGED dropped

Drop(c) ==
    /\ c \in waiting \cap Reads
    /\ waiting' = waiting \ {c}
    /\ dropped' = dropped \cup {c}
    /\ UNCHANGED answered

Next == \E c \in Commands : Send(c) \/ Answer(c) \/ Drop(c)

Spec == Init /\ [][Next]_vars /\ \A c \in Commands : WF_vars(Answer(c) \/ Drop(c))
=============================================================================
