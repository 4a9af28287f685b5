---------------------------- MODULE WaitableQueue ----------------------------
(***************************************************************************)
(* WaitableQueue<T, CONTAINER>: a container guarded by m_mutex and the     *)
(* condition variable m_is_not_empty.  Every operation is one critical     *)
(* section of m_mutex, or two when it waits in between, so one action is   *)
(* one critical section and the mutex needs no variable of its own.        *)
(*                                                                         *)
(* A thread inside Pop goes through these stages:                          *)
(*   "enter"     called, has not locked m_mutex yet                        *)
(*   "waiting"   asleep in m_is_not_empty.wait / wait_until                *)
(*   "notified"  woken, by a notify_one or spuriously, wants m_mutex back  *)
(*   "expired"   its deadline passed, wants m_mutex back                   *)
(***************************************************************************)
EXTENDS Naturals, Sequences, FiniteSets

CONSTANTS Items,        \* the values pushed
          Consumers,    \* the threads that pop
          Ordered,      \* TRUE: std::queue;  FALSE: PQWrapper
          Prio,         \* the key PQWrapper compares
          MaxPushes     \* bound: Push calls in a behaviour

ASSUME ConsumersAssumption == IsFiniteSet(Consumers)
ASSUME OrderAssumption == Ordered \in BOOLEAN /\ Prio \in [Items -> Nat]
ASSUME PushesAssumption == MaxPushes \in Nat

VARIABLES m_queue,      \* the contents, in order of arrival
          stage,        \* where each thread is inside Pop ("idle": outside)
          timed,        \* the threads whose call is Pop(data, timeout)
          lapsed,       \* history: threads woken since the queue was last
                        \* empty whose deadline passed before they came
          given,        \* history: the items pushed, in order
          taken         \* history: the items Pop returned, in order

vars == <<m_queue, stage, timed, lapsed, given, taken>>

Stages == {"idle", "enter", "waiting", "notified", "expired"}

At(s) == {c \in Consumers : stage[c] = s}

\* The types; and only a call that gave a deadline can time out.
TypeOK ==
    /\ m_queue \in Seq(Items)
    /\ stage \in [Consumers -> Stages]
    /\ timed \subseteq Consumers
    /\ At("expired") \subseteq timed
    /\ lapsed \in Nat
    /\ given \in Seq(Items)
    /\ taken \in Seq(Items)

Init ==
    /\ m_queue = <<>>
    /\ stage = [c \in Consumers |-> "idle"]
    /\ timed = {}
    /\ lapsed = 0
    /\ given = <<>>
    /\ taken = <<>>

------------------------------------------------------------------------------

\* Mutant: notify only on the transition from empty to non-empty.
NotifyOneFirstOnly ==
    IF At("waiting") = {} \/ m_queue # <<>>
    THEN UNCHANGED stage
    ELSE \E c \in At("waiting") : stage' = [stage EXCEPT ![c] = "notified"]

\* Mutant: the notify_one call is missing.
NotifyNobody == UNCHANGED stage

\* notify_one wakes one of the waiting threads, if there is any.
NotifyOne ==
    IF At("waiting") = {}
    THEN UNCHANGED stage
    ELSE \E c \in At("waiting") : stage' = [stage EXCEPT ![c] = "notified"]

Push(i) ==
    /\ Len(given) < MaxPushes
    /\ m_queue' = Append(m_queue, i)
    /\ given' = Append(given, i)
    /\ NotifyOne
    /\ UNCHANGED <<timed, lapsed, taken>>

\* Mutant: the newest item, as a stack would give.
FrontIsBack == {Len(m_queue)}

\* The position of front(): the oldest item of a std::queue; in a
\* PQWrapper some item of the highest priority, the heap breaking ties.
FrontAt ==
    IF Ordered
    THEN {1}
    ELSE {k \in 1..Len(m_queue) :
             \A j \in 1..Len(m_queue) : Prio[m_queue[j]] <= Prio[m_queue[k]]}

Without(q, k) == [j \in 1..(Len(q) - 1) |-> IF j < k THEN q[j] ELSE q[j + 1]]

PopCall(c, hasDeadline) ==
    /\ stage[c] = "idle"
    /\ stage' = [stage EXCEPT ![c] = "enter"]
    /\ timed' = IF hasDeadline THEN timed \cup {c} ELSE timed
    /\ UNCHANGED <<m_queue, lapsed, given, taken>>

\* The loop condition holds: release m_mutex and sleep, atomically.
Wait(c) ==
    /\ stage[c] \in {"enter", "notified"}
    /\ m_queue = <<>>
    /\ stage' = [stage EXCEPT ![c] = "waiting"]
    /\ UNCHANGED <<m_queue, timed, lapsed, given, taken>>

\* The loop condition fails: copy front(), pop() and return.
Take(c) ==
    /\ stage[c] \in {"enter", "notified"}
    /\ m_queue # <<>>
    /\ \E k \in FrontAt :
          /\ taken' = Append(taken, m_queue[k])
          /\ m_queue' = Without(m_queue, k)
    /\ stage' = [stage EXCEPT ![c] = "idle"]
    /\ timed' = timed \ {c}
    /\ lapsed' = IF Len(m_queue) = 1 THEN 0 ELSE lapsed
    /\ UNCHANGED given

\* A thread that was woken for an item lets it lie.
Lapse(c) ==
    lapsed' = IF stage[c] = "notified" /\ m_queue # <<>> THEN lapsed + 1 ELSE lapsed

\* Mutant: a wait without a deadline that times out.
ExpireAny(c) ==
    /\ stage[c] \in {"waiting", "notified"}
    /\ stage' = [stage EXCEPT ![c] = "expired"]
    /\ Lapse(c)
    /\ UNCHANGED <<m_queue, timed, given, taken>>

\* wait_until returns cv_status::timeout: the deadline passed in the sleep, or
\* after a notification, before the thread had m_mutex again.
Expire(c) ==
    /\ stage[c] \in {"waiting", "notified"}
    /\ c \in timed
    /\ stage' = [stage EXCEPT ![c] = "expired"]
    /\ Lapse(c)
    /\ UNCHANGED <<m_queue, timed, given, taken>>

\* After a timeout Pop returns false without another look at the queue.
ReturnFalse(c) ==
    /\ stage[c] = "expired"
    /\ stage' = [stage EXCEPT ![c] = "idle"]
    /\ timed' = timed \ {c}
    /\ UNCHANGED <<m_queue, lapsed, given, taken>>

\* A condition variable may wake a thread nobody notified.
SpuriousWakeup(c) ==
    /\ stage[c] = "waiting"
    /\ stage' = [stage EXCEPT ![c] = "notified"]
    /\ UNCHANGED <<m_queue, timed, lapsed, given, taken>>

\* The steps a thread takes by itself once the mutex is free.
Step(c) == Wait(c) \/ Take(c) \/ ReturnFalse(c)

Next ==
    \/ \E i \in Items : Push(i)
    \/ \E c \in Consumers :
          \/ \E d \in BOOLEAN : PopCall(c, d)
          \/ Step(c)
          \/ Expire(c)
          \/ SpuriousWakeup(c)

SafeSpec == Init /\ [][Next]_vars

\* A runnable thread is eventually scheduled and a free mutex eventually
\* granted.  Nobody is obliged to push, to call Pop or to wake spuriously.
Spec == SafeSpec /\ \A c \in Consumers : WF_vars(Step(c))

------------------------------------------------------------------------------

\* Push wakes at most one thread, and a woken thread can lose its item to a
\* thread that has just entered Pop.  Even so, while anybody sleeps, the queue
\* holds no more items than there are threads on their way to it, but for
\* those whose wakeup went to a thread that then timed out: each such thread
\* leaves at most one item beside a sleeper, until the queue is empty again.
\* Among callers of Pop(data), as the pool, its angel and the logger are,
\* there is none, and no item lies next to a sleeper with nobody coming.
NoLostWakeup ==
    At("waiting") # {} => Cardinality(At("notified")) + lapsed >= Len(m_queue)

\* Every pushed item is in the queue or was returned by exactly one Pop, and
\* over a std::queue the Pops return them in the order of the Pushes.
ExactlyOnceInOrder == Ordered => given = taken \o m_queue

\* What WaitableQueue over a std::queue promises: see QueueService.
Service == INSTANCE QueueService
              WITH out <- taken, calling <- Consumers \ At("idle"),
                   jilted <- lapsed > 0

RefinesService == Service!Spec
==============================================================================
