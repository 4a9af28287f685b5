---------------------------- MODULE QueueService ----------------------------
(***************************************************************************)
(* What WaitableQueue over a std::queue promises its callers, with no      *)
(* mutex, condition variable or waiting thread in sight: a pipe.  Every    *)
(* item given to Push leaves the pipe once, in the order of the Push       *)
(* calls, into some Pop call that is in progress; a timed Pop may also     *)
(* return empty-handed; and as long as there is an item inside and a call  *)
(* to serve, an item is eventually handed over.  A timed Pop that lets an  *)
(* item lie voids the last promise until the pipe is empty.                *)
(***************************************************************************)
EXTENDS Naturals, Sequences

CONSTANTS Items,        \* the values pushed
          Consumers     \* the threads that pop

VARIABLES given,        \* the items pushed, in order
          out,          \* the items handed to callers, in order
          calling,      \* the threads inside a Pop call
          timed,        \* those of them whose call has a deadline
          jilted        \* one of them has let an item inside lie

vars == <<given, out, calling, timed, jilted>>

Init ==
    /\ given = <<>>
    /\ out = <<>>
    /\ calling = {}
    /\ timed = {}
    /\ jilted = FALSE

Give(i) ==
    /\ given' = Append(given, i)
    /\ UNCHANGED <<out, calling, timed, jilted>>

Call(c, hasDeadline) ==
    /\ c \notin calling
    /\ calling' = calling \cup {c}
    /\ timed' = IF hasDeadline THEN timed \cup {c} ELSE timed
    /\ UNCHANGED <<given, out, jilted>>

Return(c) ==
    /\ calling' = calling \ {c}
    /\ timed' = timed \ {c}
    /\ UNCHANGED given

Deliver(c) ==
    /\ c \in calling
    /\ Len(out) < Len(given)
    /\ out' = Append(out, given[Len(out) + 1])
    /\ jilted' = (jilted /\ Len(out') < Len(given))
    /\ Return(c)

GiveUp(c) ==
    /\ c \in timed
    /\ Return(c)
    /\ UNCHANGED <<out, jilted>>

Jilt(c) ==
    /\ c \in timed
    /\ Len(out) < Len(given)
    /\ jilted' = TRUE
    /\ UNCHANGED <<given, out, calling, timed>>

Next ==
    \/ \E i \in Items : Give(i)
    \/ \E c \in Consumers :
          \/ \E d \in BOOLEAN : Call(c, d)
          \/ Deliver(c)
          \/ GiveUp(c)
          \/ Jilt(c)

SafeSpec == Init /\ [][Next]_vars

Spec == SafeSpec /\ WF_vars(~jilted /\ \E c \in Consumers : Deliver(c))
=============================================================================
