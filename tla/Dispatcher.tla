----------------------------- MODULE Dispatcher -----------------------------
(***************************************************************************)
(* Dispatcher and Callback: an observer's callback subscribes to a         *)
(* dispatcher, which notifies its subscribers one after the other and      *)
(* tells them when it dies.                                                *)
(*                                                                         *)
(* Everything runs on one thread, but not one call at a time: inside the   *)
(* Notify of one callback the observer may construct, subscribe and        *)
(* destroy others.  A loop over m_subscribers stands on the callback it is *)
(* calling (cursor); everything that happens while it stands there happens *)
(* inside that call.                                                       *)
(***************************************************************************)
EXTENDS Naturals, Sequences, SequencesExt

CONSTANTS Callbacks,    \* places in memory where a callback can live
          Dispatchers,
          None,         \* a null pointer
          End           \* the iterator m_subscribers.end()

ASSUME NamesAssumption ==
    /\ None \notin Dispatchers
    /\ End \notin Callbacks

VARIABLES m_subscribers,    \* m_subscribers[d]: d's list
          m_dispatcher,     \* m_dispatcher[c]: whom c's destructor calls
          alive,            \* the callbacks that are constructed
          mode,             \* mode[d]: what d is doing
          cursor,           \* cursor[d]: the iterator of d's loop
          audience,         \* audience[d]: subscribers the broadcast met and
                            \* that were not destroyed since
          heard             \* heard[d][c]: how often the broadcast called c

dispatcherVars == <<m_subscribers, m_dispatcher, alive, mode, cursor, audience, heard>>

Modes == {"idle", "broadcast", "dying", "dead"}

\* The state's types; and no callback is called twice by one broadcast.
TypeOK ==
    /\ m_subscribers \in [Dispatchers -> Seq(Callbacks)]
    /\ m_dispatcher \in [Callbacks -> Dispatchers \cup {None}]
    /\ alive \subseteq Callbacks
    /\ mode \in [Dispatchers -> Modes]
    /\ cursor \in [Dispatchers -> Callbacks \cup {End}]
    /\ audience \in [Dispatchers -> SUBSET Callbacks]
    /\ heard \in [Dispatchers -> [Callbacks -> {0, 1}]]

Init ==
    /\ m_subscribers = [d \in Dispatchers |-> <<>>]
    /\ m_dispatcher = [c \in Callbacks |-> None]
    /\ alive = {}
    /\ mode = [d \in Dispatchers |-> "idle"]
    /\ cursor = [d \in Dispatchers |-> End]
    /\ audience = [d \in Dispatchers |-> {}]
    /\ heard = [d \in Dispatchers |-> [c \in Callbacks |-> 0]]

\* begin() and ++it.
Begin(list) == IF list = <<>> THEN End ELSE Head(list)
PlusPlus(list, c) ==
    LET k == CHOOSE j \in DOMAIN list : list[j] = c
    IN  IF k = Len(list) THEN End ELSE list[k + 1]

loopVars == <<mode, cursor, audience, heard>>

-----------------------------------------------------------------------------

CallbackCtor(c) ==
    /\ c \notin alive
    /\ alive' = alive \cup {c}
    /\ m_dispatcher' = [m_dispatcher EXCEPT ![c] = None]
    /\ UNCHANGED <<m_subscribers, loopVars>>

\* Mutant: push_back.
SubscribeBack(c, d) ==
    /\ m_subscribers' = [m_subscribers EXCEPT ![d] = Append(@, c)]
    /\ m_dispatcher' = [m_dispatcher EXCEPT ![c] = d]
    /\ UNCHANGED <<alive, loopVars>>

Subscribe(c, d) ==
    /\ m_subscribers' = [m_subscribers EXCEPT ![d] = <<c>> \o @]
    /\ m_dispatcher' = [m_dispatcher EXCEPT ![c] = d]
    /\ UNCHANGED <<alive, loopVars>>

\* Mutant: UnSubscribe forgets to remove.
UnSubscribeNot(c) == m_subscribers

\* The lists after CallBackDeath: UnSubscribe, if c has a dispatcher.  A
\* callback is in a list once at most, so remove takes out the first.
UnSubscribe(c) ==
    IF m_dispatcher[c] = None THEN m_subscribers
    ELSE [m_subscribers EXCEPT ![m_dispatcher[c]] = RemoveFirst(@, c)]

CallbackDtor(c) ==
    /\ c \in alive
    /\ alive' = alive \ {c}
    /\ m_subscribers' = UnSubscribe(c)
    /\ audience' = [d \in Dispatchers |-> audience[d] \ {c}]
    /\ heard' = [d \in Dispatchers |-> [heard[d] EXCEPT ![c] = 0]]
    /\ UNCHANGED <<m_dispatcher, mode, cursor>>

\* Broadcast is called ...
Broadcast(d) ==
    /\ mode[d] = "idle"
    /\ mode' = [mode EXCEPT ![d] = "broadcast"]
    /\ cursor' = [cursor EXCEPT ![d] = Begin(m_subscribers[d])]
    /\ audience' = [audience EXCEPT ![d] = ToSet(m_subscribers[d])]
    /\ heard' = [heard EXCEPT ![d] = [c \in Callbacks |-> 0]]
    /\ UNCHANGED <<m_subscribers, m_dispatcher, alive>>

\* Mutant: the iterator is not advanced.
NotifyStays(d) ==
    /\ mode[d] = "broadcast"
    /\ cursor[d] # End
    /\ heard' = [heard EXCEPT ![d][cursor[d]] = @ + 1]
    /\ UNCHANGED <<m_subscribers, m_dispatcher, alive, mode, cursor, audience>>

\* ... one Notify returns and the loop goes on ...
Notify(d) ==
    /\ mode[d] = "broadcast"
    /\ cursor[d] # End
    /\ heard' = [heard EXCEPT ![d][cursor[d]] = @ + 1]
    /\ cursor' = [cursor EXCEPT ![d] = PlusPlus(m_subscribers[d], @)]
    /\ UNCHANGED <<m_subscribers, m_dispatcher, alive, mode, audience>>

\* ... and Broadcast returns.
BroadcastReturns(d) ==
    /\ mode[d] = "broadcast"
    /\ cursor[d] = End
    /\ mode' = [mode EXCEPT ![d] = "idle"]
    /\ UNCHANGED <<m_subscribers, m_dispatcher, alive, cursor, audience, heard>>

\* The destructor of the dispatcher: DispatcherDeath and SetDispatcher(NULL)
\* for every subscriber.
DispatcherDtor(d) ==
    /\ mode[d] = "idle"
    /\ mode' = [mode EXCEPT ![d] = "dying"]
    /\ cursor' = [cursor EXCEPT ![d] = Begin(m_subscribers[d])]
    /\ UNCHANGED <<m_subscribers, m_dispatcher, alive, audience, heard>>

\* Mutant: the callback keeps its pointer to the dead dispatcher.
DispatcherDeathOnly(d) ==
    /\ mode[d] = "dying"
    /\ cursor[d] # End
    /\ cursor' = [cursor EXCEPT ![d] = PlusPlus(m_subscribers[d], @)]
    /\ UNCHANGED <<m_subscribers, m_dispatcher, alive, mode, audience, heard>>

DispatcherDeath(d) ==
    /\ mode[d] = "dying"
    /\ cursor[d] # End
    /\ m_dispatcher' = [m_dispatcher EXCEPT ![cursor[d]] = None]
    /\ cursor' = [cursor EXCEPT ![d] = PlusPlus(m_subscribers[d], @)]
    /\ UNCHANGED <<m_subscribers, alive, mode, audience, heard>>

DispatcherGone(d) ==
    /\ mode[d] = "dying"
    /\ cursor[d] = End
    /\ mode' = [mode EXCEPT ![d] = "dead"]
    /\ m_subscribers' = [m_subscribers EXCEPT ![d] = <<>>]
    /\ UNCHANGED <<m_dispatcher, alive, cursor, audience, heard>>

-----------------------------------------------------------------------------

\* What the users of the two classes see to: a callback has one dispatcher
\* at a time, subscribes to none that is going, and is not destroyed from
\* within its own Notify.
MaySubscribe(c, d) ==
    c \in alive /\ m_dispatcher[c] = None /\ mode[d] \in {"idle", "broadcast"}
MayDie(c) == \A d \in Dispatchers : cursor[d] # c

Loop(d) ==
    \/ Notify(d)
    \/ BroadcastReturns(d)
    \/ DispatcherDeath(d)
    \/ DispatcherGone(d)

Next ==
    \/ \E c \in Callbacks :
          \/ CallbackCtor(c)
          \/ MayDie(c) /\ CallbackDtor(c)
          \/ \E d \in Dispatchers : MaySubscribe(c, d) /\ Subscribe(c, d)
    \/ \E d \in Dispatchers : Broadcast(d) \/ DispatcherDtor(d) \/ Loop(d)

SafeSpec == Init /\ [][Next]_dispatcherVars

\* The observers' functions return.
Spec == SafeSpec /\ \A d \in Dispatchers : WF_dispatcherVars(Loop(d))

-----------------------------------------------------------------------------

\* A loop of a dispatcher never stands on a callback that was destroyed or
\* on a freed node of the list, whatever the observers before it did.
CallsOnlyLive ==
    \A d \in Dispatchers : cursor[d] # End =>
       /\ cursor[d] \in alive
       /\ m_dispatcher[cursor[d]] = d
       /\ cursor[d] \in ToSet(m_subscribers[d])

\* A callback that is destroyed later than its dispatcher does not call into
\* it any more.
NoDeadDispatcher ==
    \A c \in alive : m_dispatcher[c] # None => mode[m_dispatcher[c]] # "dead"

\* When a broadcast has reached the end, every subscriber it met and that
\* still lives was notified once, and nobody who came during it was.
EveryoneHears ==
    \A d \in Dispatchers : (mode[d] = "broadcast" /\ cursor[d] = End) =>
       \A c \in ToSet(m_subscribers[d]) :
          heard[d][c] = IF c \in audience[d] THEN 1 ELSE 0

\* A broadcast comes to an end, though observers may subscribe new callbacks
\* all the time.
BroadcastEnds ==
    \A d \in Dispatchers : (mode[d] = "broadcast") ~> (mode[d] # "broadcast")
==============================================================================
