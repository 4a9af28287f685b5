------------------------ MODULE WaitableQueue_proofs ------------------------
(***************************************************************************)
(* WaitableQueue for any finite number of threads, any items and any       *)
(* number of pushes: types, no lost wakeup, items handed over exactly once *)
(* and in order, and the safety part of the refinement of QueueService.    *)
(***************************************************************************)
EXTENDS WaitableQueue, FiniteSetTheorems, SequenceTheorems, TLAPS

(***************************************************************************)
(* Lemmas about the operators.                                             *)
(***************************************************************************)

\* Removing the item at position k leaves a shorter sequence of items.
LEMMA WithoutType ==
    ASSUME NEW q \in Seq(Items), q # <<>>, NEW k \in 1..Len(q)
    PROVE  /\ Without(q, k) \in Seq(Items)
           /\ Len(Without(q, k)) = Len(q) - 1
  BY DEF Without

\* front() is a position of the queue whenever there is one to look at.
LEMMA FrontInside ==
    ASSUME m_queue \in Seq(Items), m_queue # <<>>, NEW k \in FrontAt
    PROVE  k \in 1..Len(m_queue)
  BY DEF FrontAt

\* When one thread moves between stages, a stage's population changes by
\* that thread at most.
LEMMA AtMove ==
    ASSUME stage \in [Consumers -> Stages], NEW c \in Consumers, NEW t \in Stages,
           stage' = [stage EXCEPT ![c] = t], NEW s \in Stages
    PROVE  At(s)' = IF s = t THEN At(s) \cup {c} ELSE At(s) \ {c}
  BY DEF At

\* Stage populations are finite, so their sizes are natural numbers that
\* grow and shrink by one.
LEMMA AtFinite ==
    ASSUME NEW s
    PROVE  /\ IsFiniteSet(At(s))
           /\ Cardinality(At(s)) \in Nat
           /\ \A c \in Consumers \ At(s) :
                 Cardinality(At(s) \cup {c}) = Cardinality(At(s)) + 1
           /\ \A c \in At(s) : Cardinality(At(s) \ {c}) = Cardinality(At(s)) - 1
  <1>1. IsFiniteSet(At(s))
    BY ConsumersAssumption, FS_Subset DEF At
  <1>. QED
    BY <1>1, FS_CardinalityType, FS_AddElement, FS_RemoveElement

(***************************************************************************)
(* Types.                                                                  *)
(***************************************************************************)

\* The types are preserved by every action of the queue.
LEMMA TypeStep == TypeOK /\ [Next]_vars => TypeOK'
  <1>. SUFFICES ASSUME TypeOK, [Next]_vars PROVE TypeOK'
    OBVIOUS
  <1>1. ASSUME NEW i \in Items, Push(i) PROVE TypeOK'
    <2>1. stage' \in [Consumers -> Stages] /\ At("expired")' \subseteq At("expired")
      BY <1>1 DEF Push, NotifyOne, TypeOK, At, Stages
    <2>. QED
      BY <1>1, <2>1 DEF Push, TypeOK
  <1>2. ASSUME NEW c \in Consumers, NEW d \in BOOLEAN, PopCall(c, d) PROVE TypeOK'
    BY <1>2 DEF PopCall, TypeOK, At, Stages
  <1>3. ASSUME NEW c \in Consumers, Wait(c) PROVE TypeOK'
    BY <1>3 DEF Wait, TypeOK, At, Stages
  <1>4. ASSUME NEW c \in Consumers, Take(c) PROVE TypeOK'
    <2>1. m_queue' \in Seq(Items) /\ taken' \in Seq(Items)
      BY <1>4, FrontInside, WithoutType DEF Take, TypeOK
    <2>. QED
      BY <1>4, <2>1 DEF Take, TypeOK, At, Stages
  <1>5. ASSUME NEW c \in Consumers, ReturnFalse(c) PROVE TypeOK'
    BY <1>5 DEF ReturnFalse, TypeOK, At, Stages
  <1>6. ASSUME NEW c \in Consumers, Expire(c) PROVE TypeOK'
    BY <1>6 DEF Expire, Lapse, TypeOK, At, Stages
  <1>7. ASSUME NEW c \in Consumers, SpuriousWakeup(c) PROVE TypeOK'
    BY <1>7 DEF SpuriousWakeup, TypeOK, At, Stages
  <1>8. CASE UNCHANGED vars
    BY <1>8 DEF vars, TypeOK, At
  <1>. QED
    BY <1>1, <1>2, <1>3, <1>4, <1>5, <1>6, <1>7, <1>8 DEF Next, Step

\* Every state of every behaviour of the queue is well typed, and a Pop
\* without a deadline never times out.
THEOREM TypeCorrect == SafeSpec => []TypeOK
  <1>1. Init => TypeOK
    BY DEF Init, TypeOK, At, Stages
  <1>. QED
    BY <1>1, TypeStep, PTL DEF SafeSpec

(***************************************************************************)
(* No lost wakeup.                                                         *)
(***************************************************************************)

\* NoLostWakeup is inductive relative to the types: a push adds one item and
\* wakes one sleeper; a thread that goes to sleep has seen an empty queue;
\* a thread that takes an item was notified, or came in from outside; and
\* a woken thread that times out is counted in lapsed.
LEMMA WakeupStep == TypeOK /\ NoLostWakeup /\ [Next]_vars => NoLostWakeup'
  <1>. SUFFICES ASSUME TypeOK, NoLostWakeup, [Next]_vars, At("waiting")' # {}
                PROVE  Cardinality(At("notified"))' + lapsed' >= Len(m_queue)'
    BY DEF NoLostWakeup
  <1>. USE DEF TypeOK
  <1>0. /\ Cardinality(At("notified")) \in Nat
        /\ Len(m_queue) \in Nat /\ lapsed \in Nat
        /\ {"idle", "enter", "waiting", "notified", "expired"} = Stages
    BY AtFinite DEF Stages
  <1>1. ASSUME NEW i \in Items, Push(i) PROVE Cardinality(At("notified"))' + lapsed' >= Len(m_queue)'
    <2>1. At("waiting") # {}
      BY <1>1 DEF Push, NotifyOne, At
    <2>2. PICK c \in At("waiting") : stage' = [stage EXCEPT ![c] = "notified"]
      BY <1>1, <2>1 DEF Push, NotifyOne
    <2>3. c \in Consumers \ At("notified")
      BY <2>2 DEF At
    <2>4. At("notified")' = At("notified") \cup {c}
      BY <1>0, <2>2, <2>3, AtMove
    <2>5. Len(m_queue)' = Len(m_queue) + 1 /\ lapsed' = lapsed
      BY <1>1 DEF Push
    <2>. QED
      BY <1>0, <2>1, <2>3, <2>4, <2>5, AtFinite DEF NoLostWakeup
  <1>2. ASSUME NEW c \in Consumers, NEW d \in BOOLEAN, PopCall(c, d)
        PROVE  Cardinality(At("notified"))' + lapsed' >= Len(m_queue)'
    <2>1. At("waiting")' = At("waiting") /\ At("notified")' = At("notified")
      BY <1>2 DEF PopCall, At
    <2>. QED
      BY <1>2, <2>1 DEF PopCall, NoLostWakeup
  <1>3. ASSUME NEW c \in Consumers, Wait(c)
        PROVE  Cardinality(At("notified"))' + lapsed' >= Len(m_queue)'
    <2>1. IsFiniteSet(At("notified")') /\ Len(m_queue)' = 0 /\ lapsed' \in Nat
      <3>1. At("notified")' \subseteq Consumers
        BY DEF At
      <3>. QED
        BY <1>3, <3>1, ConsumersAssumption, FS_Subset DEF Wait
    <2>. QED
      BY <2>1, FS_CardinalityType
  <1>4. ASSUME NEW c \in Consumers, Take(c)
        PROVE  Cardinality(At("notified"))' + lapsed' >= Len(m_queue)'
    <2>1. stage' = [stage EXCEPT ![c] = "idle"] /\ At("waiting") # {}
      BY <1>4 DEF Take, At
    <2>2. At("notified")' = At("notified") \ {c}
      BY <1>0, <2>1, AtMove
    <2>3. Len(m_queue)' = Len(m_queue) - 1
      BY <1>4, FrontInside, WithoutType DEF Take
    <2>4. Cardinality(At("notified")) + lapsed >= Len(m_queue)
      BY <2>1 DEF NoLostWakeup
    <2>5. /\ Cardinality(At("notified"))' \in Nat
          /\ Cardinality(At("notified"))' >= Cardinality(At("notified")) - 1
      <3>1. CASE c \notin At("notified")
        <4>1. At("notified")' = At("notified")
          BY <2>2, <3>1
        <4>. QED
          BY <1>0, <4>1
      <3>2. CASE c \in At("notified")
        <4>1. Cardinality(At("notified"))' = Cardinality(At("notified")) - 1
          BY <2>2, <3>2, AtFinite
        <4>2. Cardinality(At("notified")) # 0
          BY <3>2, AtFinite, FS_EmptySet
        <4>. QED
          BY <1>0, <4>1, <4>2
      <3>. QED
        BY <3>1, <3>2
    <2>6. Len(m_queue) # 1 => lapsed' = lapsed
      BY <1>4 DEF Take
    <2>7. Len(m_queue) = 1 => lapsed' = 0
      BY <1>4 DEF Take
    <2>8. CASE Len(m_queue) = 1
      BY <1>0, <2>3, <2>5, <2>7, <2>8
    <2>9. CASE Len(m_queue) # 1
      BY <1>0, <2>3, <2>4, <2>5, <2>6, <2>9
    <2>. QED
      BY <2>8, <2>9
  <1>5. ASSUME NEW c \in Consumers, ReturnFalse(c)
        PROVE  Cardinality(At("notified"))' + lapsed' >= Len(m_queue)'
    <2>1. At("waiting") # {} /\ At("notified")' = At("notified")
      BY <1>5 DEF ReturnFalse, At
    <2>. QED
      BY <1>5, <2>1 DEF ReturnFalse, NoLostWakeup
  <1>8. ASSUME NEW c \in Consumers, Expire(c)
        PROVE  Cardinality(At("notified"))' + lapsed' >= Len(m_queue)'
    <2>1. At("waiting") # {} /\ At("notified")' = At("notified") \ {c}
      BY <1>8 DEF Expire, At
    <2>2. m_queue' = m_queue /\ lapsed' = IF c \in At("notified") /\ m_queue # <<>> THEN lapsed + 1 ELSE lapsed
      BY <1>8 DEF Expire, Lapse, At
    <2>3. Cardinality(At("notified")) + lapsed >= Len(m_queue)
      BY <2>1 DEF NoLostWakeup
    <2>4. CASE c \notin At("notified")
      <3>1. At("notified")' = At("notified")
        BY <2>1, <2>4
      <3>. QED
        BY <2>2, <2>3, <2>4, <3>1
    <2>5. CASE c \in At("notified")
      <3>1. Cardinality(At("notified"))' = Cardinality(At("notified")) - 1
        BY <2>1, <2>5, AtFinite
      <3>2. Cardinality(At("notified")) # 0
        BY <2>5, AtFinite, FS_EmptySet
      <3>3. CASE m_queue = <<>>
        BY <1>0, <2>2, <3>1, <3>2, <3>3
      <3>4. CASE m_queue # <<>>
        BY <1>0, <2>2, <2>3, <2>5, <3>1, <3>4
      <3>. QED
        BY <3>3, <3>4
    <2>. QED
      BY <2>4, <2>5
  <1>6. ASSUME NEW c \in Consumers, SpuriousWakeup(c)
        PROVE  Cardinality(At("notified"))' + lapsed' >= Len(m_queue)'
    <2>1. c \in Consumers \ At("notified") /\ At("waiting") # {}
      BY <1>6 DEF SpuriousWakeup, At
    <2>2. At("notified")' = At("notified") \cup {c}
      BY <1>0, <1>6, AtMove DEF SpuriousWakeup
    <2>. QED
      BY <1>0, <1>6, <2>1, <2>2, AtFinite DEF SpuriousWakeup, NoLostWakeup
  <1>7. CASE UNCHANGED vars
    BY <1>7 DEF vars, At, NoLostWakeup
  <1>. QED
    BY <1>1, <1>2, <1>3, <1>4, <1>5, <1>6, <1>7, <1>8 DEF Next, Step

\* However many threads pop, an item left in the queue beside a sleeping
\* thread has somebody on the way to fetch it, or its wakeup went to a timed
\* Pop whose deadline passed before it could look at the queue.
THEOREM WakeupsNotLost == SafeSpec => []NoLostWakeup
  <1>1. Init => NoLostWakeup
    BY DEF Init, NoLostWakeup, At
  <1>. QED
    BY <1>1, TypeCorrect, WakeupStep, PTL DEF SafeSpec

(***************************************************************************)
(* Exactly once, in order.                                                 *)
(***************************************************************************)

\* Moving the front of a sequence to the end of another one leaves their
\* concatenation as it was.
LEMMA MoveFront ==
    ASSUME NEW s \in Seq(Items), NEW q \in Seq(Items), q # <<>>
    PROVE  Append(s, q[1]) \o Without(q, 1) = s \o q
  <1>. DEFINE l == Append(s, q[1]) \o Without(q, 1)
              r == s \o q
  <1>1. /\ Append(s, q[1]) \in Seq(Items)
        /\ Without(q, 1) \in Seq(Items)
        /\ Len(Without(q, 1)) = Len(q) - 1
    BY WithoutType
  <1>2. l \in Seq(Items) /\ r \in Seq(Items) /\ Len(l) = Len(r)
    BY <1>1
  <1>3. \A n \in 1..Len(r) : l[n] = r[n]
    BY <1>1 DEF Without
  <1>. QED
    BY <1>2, <1>3, SeqEqual

\* Push extends both sides of the equation, Pop moves the boundary between
\* the two parts, and nothing else touches them.
LEMMA OrderStep == TypeOK /\ ExactlyOnceInOrder /\ [Next]_vars => ExactlyOnceInOrder'
  <1>. SUFFICES ASSUME TypeOK, ExactlyOnceInOrder, [Next]_vars, Ordered
                PROVE  (given = taken \o m_queue)'
    BY DEF ExactlyOnceInOrder
  <1>0. given = taken \o m_queue
    BY DEF ExactlyOnceInOrder
  <1>1. ASSUME NEW i \in Items, Push(i) PROVE (given = taken \o m_queue)'
    <2>1. taken \o Append(m_queue, i) = Append(taken \o m_queue, i)
      BY DEF TypeOK
    <2>. QED
      BY <1>0, <1>1, <2>1 DEF Push
  <1>2. ASSUME NEW c \in Consumers, Take(c) PROVE (given = taken \o m_queue)'
    <2>1. /\ taken' = Append(taken, m_queue[1])
          /\ m_queue' = Without(m_queue, 1)
      BY <1>2 DEF Take, FrontAt
    <2>2. given' = given /\ m_queue # <<>>
      BY <1>2 DEF Take
    <2>. QED
      BY <1>0, <2>1, <2>2, MoveFront DEF TypeOK
  <1>3. ASSUME UNCHANGED <<given, taken, m_queue>> PROVE (given = taken \o m_queue)'
    BY <1>0, <1>3
  <1>. QED
    BY <1>1, <1>2, <1>3
    DEF Next, Step, vars, PopCall, Wait, ReturnFalse, Expire, SpuriousWakeup

\* Over a std::queue no pushed item is lost, duplicated or overtaken.
THEOREM InOrder == SafeSpec => []ExactlyOnceInOrder
  <1>1. Init => ExactlyOnceInOrder
    BY DEF Init, ExactlyOnceInOrder
  <1>. QED
    BY <1>1, TypeCorrect, OrderStep, PTL DEF SafeSpec

(***************************************************************************)
(* Refinement.                                                             *)
(***************************************************************************)

\* Over a std::queue every step of the queue is a step of the pipe it
\* promises to be, or invisible from outside.
LEMMA ServiceStep ==
    ASSUME Ordered, TypeOK, ExactlyOnceInOrder, [Next]_vars
    PROVE  [Service!Next]_(Service!vars)
  <1>. DEFINE calling == Consumers \ At("idle")
  <1>0. given = taken \o m_queue
    BY DEF ExactlyOnceInOrder
  <1>1. ASSUME NEW i \in Items, Push(i) PROVE Service!Give(i)
    <2>1. At("idle")' = At("idle")
      BY <1>1 DEF Push, NotifyOne, At, TypeOK
    <2>. QED
      BY <1>1, <2>1 DEF Push, Service!Give
  <1>2. ASSUME NEW c \in Consumers, NEW d \in BOOLEAN, PopCall(c, d)
        PROVE  Service!Call(c, d)
    <2>1. At("idle")' = At("idle") \ {c} /\ c \in At("idle")
      BY <1>2 DEF PopCall, At, TypeOK
    <2>. QED
      BY <1>2, <2>1 DEF PopCall, Service!Call
  <1>3. ASSUME NEW c \in Consumers, Take(c) PROVE Service!Deliver(c)
    <2>1. At("idle")' = At("idle") \cup {c} /\ c \notin At("idle")
      BY <1>3 DEF Take, At, TypeOK
    <2>2. /\ taken' = Append(taken, m_queue[1])
          /\ m_queue # <<>>
          /\ timed' = timed \ {c}
          /\ given' = given
      BY <1>3 DEF Take, FrontAt
    <2>3. Len(taken) < Len(given) /\ given[Len(taken) + 1] = m_queue[1]
      BY <1>0, <2>2 DEF TypeOK
    <2>4. /\ Len(given) = Len(taken) + Len(m_queue) /\ Len(taken') = Len(taken) + 1
          /\ Len(m_queue) \in Nat \ {0} /\ Len(taken) \in Nat
      BY <1>0, <2>2 DEF TypeOK
    <2>5. (lapsed > 0)' = ((lapsed > 0) /\ Len(taken') < Len(given))
      <3>1. lapsed \in Nat /\ lapsed' = IF Len(m_queue) = 1 THEN 0 ELSE lapsed
        BY <1>3 DEF Take, TypeOK
      <3>2. (Len(taken') < Len(given)) <=> Len(m_queue) # 1
        <4>. DEFINE n == Len(m_queue)  k == Len(taken)  g == Len(given)  l == Len(taken')
        <4>1. n \in Nat \ {0} /\ k \in Nat /\ g = k + n /\ l = k + 1
          BY <2>4
        <4>. HIDE DEF n, k, g, l
        <4>2. (l < g) <=> n # 1
          BY <4>1
        <4>. QED
          BY <4>2 DEF n, g, l
      <3>. QED
        BY <3>1, <3>2
    <2>. QED
      BY <2>1, <2>2, <2>3, <2>5 DEF Service!Deliver, Service!Return
  <1>4. ASSUME NEW c \in Consumers, ReturnFalse(c) PROVE Service!GiveUp(c)
    <2>1. At("idle")' = At("idle") \cup {c} /\ c \in timed
      BY <1>4 DEF ReturnFalse, At, TypeOK
    <2>. QED
      BY <1>4, <2>1 DEF ReturnFalse, Service!GiveUp, Service!Return
  <1>5. ASSUME NEW c \in Consumers, Wait(c) \/ SpuriousWakeup(c)
        PROVE  UNCHANGED Service!vars
    <2>1. At("idle")' = At("idle")
      BY <1>5 DEF Wait, SpuriousWakeup, At, TypeOK
    <2>. QED
      BY <1>5, <2>1 DEF Wait, SpuriousWakeup, Service!vars
  <1>7. ASSUME NEW c \in Consumers, Expire(c) PROVE Service!Jilt(c) \/ UNCHANGED Service!vars
    <2>1. At("idle")' = At("idle") /\ c \in timed /\ UNCHANGED <<m_queue, timed, given, taken>>
      BY <1>7 DEF Expire, At, TypeOK
    <2>0. lapsed' = lapsed \/ (lapsed' = lapsed + 1 /\ m_queue # <<>>)
      BY <1>7 DEF Expire, Lapse
    <2>2. CASE lapsed' = lapsed
      BY <2>1, <2>2 DEF Service!vars
    <2>3. CASE lapsed' = lapsed + 1 /\ m_queue # <<>>
      <3>1. Len(taken) < Len(given)
        BY <1>0, <2>3 DEF TypeOK
      <3>2. (lapsed > 0)' = TRUE
        BY <2>3 DEF TypeOK
      <3>. QED
        BY <2>1, <3>1, <3>2 DEF Service!Jilt
    <2>. QED
      BY <2>0, <2>2, <2>3
  <1>6. ASSUME UNCHANGED vars PROVE UNCHANGED Service!vars
    BY <1>6 DEF vars, Service!vars, At
  <1>. QED
    BY <1>1, <1>2, <1>3, <1>4, <1>5, <1>6, <1>7 DEF Next, Step, Service!Next

\* Over a std::queue the locks, the condition variable and the waiting are
\* invisible: callers see the pipe of QueueService.
THEOREM ImplementsService ==
    ASSUME Ordered
    PROVE  SafeSpec => Service!SafeSpec
  <1>1. Init => Service!Init
    BY DEF Init, Service!Init, At
  <1>2. TypeOK /\ ExactlyOnceInOrder /\ [Next]_vars
           => [Service!Next]_(Service!vars)
    BY ServiceStep
  <1>. QED
    BY <1>1, <1>2, TypeCorrect, InOrder, PTL DEF SafeSpec, Service!SafeSpec
=============================================================================
