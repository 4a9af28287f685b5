------------------------------- MODULE Reactor -------------------------------
(***************************************************************************)
(* Reactor: one thread in Run selects among the descriptors of m_map and   *)
(* calls their handlers; Add, Remove and Stop are called by anybody, with  *)
(* no lock, and some of the time from inside a handler.                    *)
(*                                                                         *)
(* Run goes through these stages:                                          *)
(*   "start"     called, m_stop_flag not yet cleared                       *)
(*   "test"      at the condition of the while loop                        *)
(*   "select"    SelectListener::Do, blocked in select                     *)
(*   "invoke"    InvokeHandlers, between two handlers                      *)
(*   "handler"   at the start of the handler of the descriptor at it       *)
(*   "parse"     further on in it                                          *)
(*   "returned"                                                            *)
(* What a handler does is up to the module that extends this one.          *)
(***************************************************************************)
EXTENDS Naturals, Sequences, FiniteSets
SequenceLib == INSTANCE SequencesExt

CONSTANTS Fds,          \* the descriptors, each with mode READ
          MaxPending    \* bound: requests waiting at a descriptor

ASSUME FdsAssumption == IsFiniteSet(Fds) /\ MaxPending \in Nat \ {0}

VARIABLES m_map,        \* the descriptors that have a handler
          m_stop_flag,
          at,           \* the stage of Run
          sets,         \* the descriptors SetArgs put into the fd_sets
          to_invoke,    \* m_fd_handlers_to_invoke
          it,           \* InvokeHandlers' place in it
          pending       \* pending[fd]: requests waiting to be read

reactorVars == <<m_map, m_stop_flag, at, sets, to_invoke, it, pending>>

ReactorTypeOK ==
    /\ m_map \subseteq Fds
    /\ m_stop_flag \in BOOLEAN
    /\ at \in {"start", "test", "select", "invoke", "handler", "parse", "returned"}
    /\ sets \subseteq Fds
    /\ to_invoke \in Seq(Fds)
    /\ Len(to_invoke) <= Cardinality(Fds)
    /\ it \in 1..(Len(to_invoke) + 1)
    /\ pending \in [Fds -> 0..MaxPending]

\* The constructor; Run has just been called on its thread.
ReactorInit ==
    /\ m_map = {}
    /\ m_stop_flag = TRUE
    /\ at = "start"
    /\ sets = {}
    /\ to_invoke = <<>>
    /\ it = 1
    /\ pending = [fd \in Fds |-> 0]

-----------------------------------------------------------------------------

\* The kernel puts a request into the receive buffer of fd.
Arrive(fd) ==
    /\ pending[fd] < MaxPending
    /\ pending' = [pending EXCEPT ![fd] = @ + 1]
    /\ UNCHANGED <<m_map, m_stop_flag, at, sets, to_invoke, it>>

Add(fd) == m_map' = m_map \cup {fd}

\* Remove throws for a descriptor that is not there: nobody asks for that.
Remove(fd) == fd \in m_map /\ m_map' = m_map \ {fd}

Stop ==
    /\ m_stop_flag' = TRUE
    /\ UNCHANGED <<m_map, at, sets, to_invoke, it, pending>>

-----------------------------------------------------------------------------
(* Run. *)

ClearStopFlag ==
    /\ at = "start"
    /\ m_stop_flag' = FALSE
    /\ at' = "test"
    /\ UNCHANGED <<m_map, sets, to_invoke, it, pending>>

\* The loop ends, or SetArgs collects the descriptors there are by now.
TestStopFlag ==
    /\ at = "test"
    /\ \/ m_stop_flag /\ at' = "returned" /\ UNCHANGED sets
       \/ ~m_stop_flag /\ at' = "select" /\ sets' = m_map
    /\ UNCHANGED <<m_map, m_stop_flag, to_invoke, it, pending>>

ReadyFds == {fd \in sets : pending[fd] > 0}

\* Mutant: select waits without a timeout.
SelectForever ==
    /\ at = "select"
    /\ ReadyFds # {}
    /\ \E order \in SequenceLib!SetToSeqs(ReadyFds \cap m_map) : to_invoke' = order \o to_invoke
    /\ it' = 1
    /\ at' = "invoke"
    /\ UNCHANGED <<m_map, m_stop_flag, sets, pending>>

\* select returns because a descriptor is ready, or after seven seconds.
\* CreateList collects the ready ones that are still in m_map, in the order
\* of the hash table.
Select ==
    /\ at = "select"
    /\ \E order \in SequenceLib!SetToSeqs(ReadyFds \cap m_map) : to_invoke' = order \o to_invoke
    /\ it' = 1
    /\ at' = "invoke"
    /\ UNCHANGED <<m_map, m_stop_flag, sets, pending>>

\* Mutant: the list is not cleared after the loop.
InvokedNoClear ==
    /\ at = "invoke"
    /\ it > Len(to_invoke) \/ m_stop_flag
    /\ at' = "test"
    /\ UNCHANGED <<m_map, m_stop_flag, sets, pending, to_invoke, it>>

\* InvokeHandlers ends: nothing is left to invoke, or Stop was called.
Invoked ==
    /\ at = "invoke"
    /\ it > Len(to_invoke) \/ m_stop_flag
    /\ to_invoke' = <<>>
    /\ it' = 1
    /\ at' = "test"
    /\ UNCHANGED <<m_map, m_stop_flag, sets, pending>>

\* The next descriptor of the list has lost its handler to an earlier one.
SkipRemoved ==
    /\ at = "invoke"
    /\ it <= Len(to_invoke) /\ ~m_stop_flag
    /\ to_invoke[it] \notin m_map
    /\ it' = it + 1
    /\ UNCHANGED <<m_map, m_stop_flag, at, sets, to_invoke, pending>>

CallHandler ==
    /\ at = "invoke"
    /\ it <= Len(to_invoke) /\ ~m_stop_flag
    /\ to_invoke[it] \in m_map
    /\ at' = "handler"
    /\ UNCHANGED <<m_map, m_stop_flag, sets, to_invoke, it, pending>>

\* The handler at it returns, having read one request.
HandlerReturns ==
    /\ at = "parse"
    /\ pending[to_invoke[it]] > 0
    /\ pending' = [pending EXCEPT ![to_invoke[it]] = @ - 1]
    /\ it' = it + 1
    /\ at' = "invoke"
    /\ UNCHANGED <<m_map, m_stop_flag, sets, to_invoke>>

RunLoop ==
    ClearStopFlag \/ TestStopFlag \/ Select \/ Invoked \/ SkipRemoved \/ CallHandler
==============================================================================
