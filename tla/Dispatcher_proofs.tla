-------------------------- MODULE Dispatcher_proofs --------------------------
(***************************************************************************)
(* Proofs about Dispatcher, for any number of callbacks and dispatchers:   *)
(* the types; a loop stands only on a callback that lives and is           *)
(* subscribed; no callback points to a dispatcher that is gone; and a      *)
(* broadcast has called everyone once when it reaches the end.             *)
(***************************************************************************)
EXTENDS Dispatcher, SequenceTheorems, TLAPS

\* x is in the list, and y is x or comes after it.
Before(list, x, y) ==
    \E i, j \in DOMAIN list : i <= j /\ list[i] = x /\ list[j] = y

NoDuplicates(list) == \A i, j \in DOMAIN list : list[i] = list[j] => i = j

\* The loop of d stands on c or has yet to come to it.
Ahead(d, c) == cursor[d] # End /\ Before(m_subscribers[d], cursor[d], c)

\* A list has everyone once; a dispatcher that is gone has none.
Lists ==
    \A d \in Dispatchers :
       /\ NoDuplicates(m_subscribers[d])
       /\ mode[d] = "dead" => m_subscribers[d] = <<>>

\* A loop stands in its list.
Standing ==
    \A d \in Dispatchers : cursor[d] # End =>
       mode[d] \in {"broadcast", "dying"} /\ cursor[d] \in ToSet(m_subscribers[d])

\* Whoever is in a list lives and points back.  The destructor of a
\* dispatcher leaves those behind it in the list, whatever becomes of them.
Subscribed ==
    \A d \in Dispatchers : \A c \in ToSet(m_subscribers[d]) :
       (mode[d] # "dying" \/ Ahead(d, c)) => c \in alive /\ m_dispatcher[c] = d

\* Whoever points to a dispatcher is in its list, and the destructor has yet
\* to come to it.
Pointed ==
    \A c \in alive : \A d \in Dispatchers : m_dispatcher[c] = d =>
       c \in ToSet(m_subscribers[d]) /\ (mode[d] = "dying" => Ahead(d, c))

\* During a broadcast: who is ahead was there when it began and has not been
\* called, who is behind has been called if it was there, and nobody else is
\* taken for either.
Hearing ==
    \A d \in Dispatchers : mode[d] = "broadcast" => \A c \in Callbacks :
       /\ c \notin ToSet(m_subscribers[d]) => heard[d][c] = 0 /\ c \notin audience[d]
       /\ Ahead(d, c) => heard[d][c] = 0 /\ c \in audience[d]
       /\ (c \in ToSet(m_subscribers[d]) /\ ~Ahead(d, c)) =>
             heard[d][c] = IF c \in audience[d] THEN 1 ELSE 0

IInv == TypeOK /\ Lists /\ Standing /\ Subscribed /\ Pointed /\ Hearing

-----------------------------------------------------------------------------
(* Lists. *)

\* Being in a list and coming before oneself is the same.
LEMMA InIsBefore ==
  ASSUME NEW s \in Seq(Callbacks), NEW x
  PROVE  /\ x \in ToSet(s) <=> Before(s, x, x)
         /\ \A y : Before(s, x, y) => x \in ToSet(s) /\ y \in ToSet(s)
         /\ ToSet(s) \subseteq Callbacks
<1>1. DOMAIN s = 1..Len(s) /\ Len(s) \in Nat
  OBVIOUS
<1> QED BY <1>1 DEF ToSet, Before

\* push_front.
LEMMA PushFront ==
  ASSUME NEW s \in Seq(Callbacks), NEW c \in Callbacks, c \notin ToSet(s), NoDuplicates(s)
  PROVE  /\ <<c>> \o s \in Seq(Callbacks)
         /\ NoDuplicates(<<c>> \o s)
         /\ ToSet(<<c>> \o s) = ToSet(s) \cup {c}
         /\ \A x, y : x # c => (Before(<<c>> \o s, x, y) <=> Before(s, x, y))
<1> DEFINE r == <<c>> \o s
<1>1. DOMAIN s = 1..Len(s) /\ Len(s) \in Nat
  OBVIOUS
<1>2. /\ r \in Seq(Callbacks) /\ Len(r) = Len(s) + 1 /\ DOMAIN r = 1..(Len(s) + 1)
      /\ r[1] = c /\ \A i \in 1..Len(s) : r[i + 1] = s[i]
  BY <1>1
<1>3. \A i \in DOMAIN r : i # 1 => i - 1 \in 1..Len(s) /\ r[i] = s[i - 1]
  <2> SUFFICES ASSUME NEW i \in DOMAIN r, i # 1 PROVE i - 1 \in 1..Len(s) /\ r[i] = s[i - 1]
    OBVIOUS
  <2>1. i - 1 \in 1..Len(s) BY <1>1, <1>2
  <2>2. r[(i - 1) + 1] = s[i - 1] BY <1>2, <2>1
  <2>3. (i - 1) + 1 = i BY <1>2
  <2> QED BY <2>1, <2>2, <2>3
<1> HIDE DEF r
<1>4. \A i \in 1..Len(s) : s[i] # c
  BY <1>1 DEF ToSet
<1>5. NoDuplicates(r)
  <2> SUFFICES ASSUME NEW i \in DOMAIN r, NEW j \in DOMAIN r, r[i] = r[j] PROVE i = j
    BY DEF NoDuplicates
  <2>1. CASE i = 1 \/ j = 1 BY <1>2, <1>3, <1>4, <2>1
  <2>2. CASE i # 1 /\ j # 1
    <3>1. i - 1 = j - 1 BY <1>1, <1>3, <2>2 DEF NoDuplicates
    <3> QED BY <1>2, <3>1
  <2> QED BY <2>1, <2>2
<1>6. ToSet(r) = ToSet(s) \cup {c}
  <2>1. ASSUME NEW x \in ToSet(r) PROVE x \in ToSet(s) \cup {c}
    BY <1>1, <1>2, <1>3 DEF ToSet
  <2>2. ASSUME NEW x \in ToSet(s) PROVE x \in ToSet(r)
    <3>1. PICK i \in 1..Len(s) : x = s[i] BY <1>1 DEF ToSet
    <3>2. i + 1 \in DOMAIN r /\ r[i + 1] = x BY <1>1, <1>2, <3>1
    <3> QED BY <3>2 DEF ToSet
  <2>3. c \in ToSet(r)
    <3>1. 1 \in DOMAIN r BY <1>1, <1>2
    <3> QED BY <1>2, <3>1 DEF ToSet
  <2> QED BY <2>1, <2>2, <2>3
<1>7. ASSUME NEW x, NEW y, x # c PROVE Before(r, x, y) <=> Before(s, x, y)
  <2>1. ASSUME Before(r, x, y) PROVE Before(s, x, y)
    <3>1. PICK i \in DOMAIN r, j \in DOMAIN r : i <= j /\ r[i] = x /\ r[j] = y
      BY <2>1 DEF Before
    <3>2. i # 1 /\ j # 1 BY <1>2, <1>7, <3>1
    <3>3. i - 1 <= j - 1 BY <1>2, <3>1
    <3> QED BY <1>1, <1>3, <3>1, <3>2, <3>3 DEF Before
  <2>2. ASSUME Before(s, x, y) PROVE Before(r, x, y)
    <3>1. PICK i \in 1..Len(s), j \in 1..Len(s) : i <= j /\ s[i] = x /\ s[j] = y
      BY <1>1, <2>2 DEF Before
    <3>2. i + 1 \in DOMAIN r /\ j + 1 \in DOMAIN r /\ i + 1 <= j + 1
      BY <1>1, <1>2, <3>1
    <3> QED BY <1>2, <3>1, <3>2 DEF Before
  <2> QED BY <2>1, <2>2
<1> QED BY <1>2, <1>5, <1>6, <1>7 DEF r

\* RemoveAt: what is before the place stays, what is behind it moves up.
LEMMA RemoveAtPlace ==
  ASSUME NEW s \in Seq(Callbacks), NEW k \in 1..Len(s)
  PROVE  /\ RemoveAt(s, k) \in Seq(Callbacks)
         /\ Len(RemoveAt(s, k)) = Len(s) - 1
         /\ \A i \in 1..(Len(s) - 1) : RemoveAt(s, k)[i] = IF i < k THEN s[i] ELSE s[i + 1]
<1> DEFINE a == SubSeq(s, 1, k - 1)
           b == SubSeq(s, k + 1, Len(s))
<1>1. DOMAIN s = 1..Len(s) /\ Len(s) \in Nat /\ \A i \in 1..Len(s) : s[i] \in Callbacks
  OBVIOUS
<1>2. /\ a \in Seq(Callbacks) /\ Len(a) = k - 1
      /\ \A i \in 1..(k - 1) : a[i] = s[i]
  <2>1. \A i \in 1..(k - 1) : s[i] \in Callbacks BY <1>1
  <2>2. 1 \in Int /\ k - 1 \in Int BY <1>1
  <2>3. /\ a \in Seq(Callbacks) /\ Len(a) = (IF 1 <= k - 1 THEN k - 1 - 1 + 1 ELSE 0)
        /\ \A i \in 1..(k - 1 - 1 + 1) : a[i] = s[1 + i - 1]
    BY <2>1, <2>2, SubSeqProperties
  <2> HIDE DEF a
  <2> QED BY <1>1, <2>3
<1>3. /\ b \in Seq(Callbacks) /\ Len(b) = Len(s) - k
      /\ \A i \in 1..(Len(s) - k) : b[i] = s[k + i]
  <2>1. \A i \in (k + 1)..Len(s) : s[i] \in Callbacks BY <1>1
  <2>2. k + 1 \in Int /\ Len(s) \in Int BY <1>1
  <2>3. /\ b \in Seq(Callbacks) /\ Len(b) = (IF k + 1 <= Len(s) THEN Len(s) - (k + 1) + 1 ELSE 0)
        /\ \A i \in 1..(Len(s) - (k + 1) + 1) : b[i] = s[(k + 1) + i - 1]
    BY <2>1, <2>2, SubSeqProperties
  <2> HIDE DEF b
  <2>4. Len(b) = Len(s) - k
    <3>1. Len(s) \in Nat /\ k \in Nat /\ k <= Len(s) BY <1>1
    <3>2. CASE k + 1 <= Len(s) BY <2>3, <3>1, <3>2
    <3>3. CASE ~(k + 1 <= Len(s)) BY <2>3, <3>1, <3>3
    <3> QED BY <3>2, <3>3
  <2>5. \A i \in 1..(Len(s) - k) : i \in 1..(Len(s) - (k + 1) + 1) /\ (k + 1) + i - 1 = k + i
    BY <1>1
  <2> QED BY <2>3, <2>4, <2>5
<1>4. RemoveAt(s, k) = a \o b
  BY DEF RemoveAt
<1> HIDE DEF a, b
<1>5. /\ a \o b \in Seq(Callbacks) /\ Len(a \o b) = Len(a) + Len(b)
      /\ \A i \in 1..(Len(a) + Len(b)) : (a \o b)[i] = IF i <= Len(a) THEN a[i] ELSE b[i - Len(a)]
  BY <1>2, <1>3, ConcatProperties
<1>6. Len(a) + Len(b) = Len(s) - 1
  BY <1>1, <1>2, <1>3
<1>7. ASSUME NEW i \in 1..(Len(s) - 1)
      PROVE  (a \o b)[i] = IF i < k THEN s[i] ELSE s[i + 1]
  <2>1. CASE i < k
    BY <1>1, <1>2, <1>5, <1>6, <2>1
  <2>2. CASE ~(i < k)
    <3>1. i - Len(a) \in 1..(Len(s) - k) /\ ~(i <= Len(a)) /\ k + (i - Len(a)) = i + 1
      BY <1>1, <1>2, <2>2
    <3> QED BY <1>3, <1>5, <1>6, <2>2, <3>1
  <2> QED BY <2>1, <2>2
<1> QED BY <1>4, <1>5, <1>6, <1>7

\* list::remove of a callback that is in the list.
LEMMA RemoveFromList ==
  ASSUME NEW s \in Seq(Callbacks), NEW c \in ToSet(s), NoDuplicates(s)
  PROVE  /\ RemoveFirst(s, c) \in Seq(Callbacks)
         /\ NoDuplicates(RemoveFirst(s, c))
         /\ ToSet(RemoveFirst(s, c)) = ToSet(s) \ {c}
         /\ \A x, y : x # c /\ y # c =>
               (Before(RemoveFirst(s, c), x, y) <=> Before(s, x, y))
<1>1. DOMAIN s = 1..Len(s) /\ Len(s) \in Nat
  OBVIOUS
<1>2. PICK k \in 1..Len(s) : s[k] = c
  BY <1>1 DEF ToSet
<1>3. {i \in 1..Len(s) : s[i] = c} = {k}
  BY <1>1, <1>2 DEF NoDuplicates
<1>4. Min({k}) = k
  BY <1>2 DEF Min
<1>5. RemoveFirst(s, c) = RemoveAt(s, k)
  BY <1>2, <1>3, <1>4 DEF RemoveFirst, SelectInSeq
<1> DEFINE r == RemoveAt(s, k)
<1>6. /\ r \in Seq(Callbacks) /\ Len(r) = Len(s) - 1 /\ DOMAIN r = 1..(Len(s) - 1)
      /\ \A i \in DOMAIN r : r[i] = IF i < k THEN s[i] ELSE s[i + 1]
  BY RemoveAtPlace
<1> HIDE DEF r
\* From a place in the new list to one in the old, and back.
<1> DEFINE Old(i) == IF i < k THEN i ELSE i + 1
           New(i) == IF i < k THEN i ELSE i - 1
<1>7. \A i \in DOMAIN r : Old(i) \in DOMAIN s /\ Old(i) # k /\ r[i] = s[Old(i)]
  BY <1>1, <1>6
<1>8. \A i, j \in DOMAIN r : (Old(i) = Old(j) => i = j) /\ (i <= j => Old(i) <= Old(j))
  BY <1>1, <1>6
<1>9. \A i \in DOMAIN s : i # k => New(i) \in DOMAIN r /\ r[New(i)] = s[i]
  BY <1>1, <1>6
<1>10. \A i, j \in DOMAIN s : i # k /\ j # k /\ i <= j => New(i) <= New(j)
  BY <1>1
<1> HIDE DEF Old, New
<1>11. NoDuplicates(r)
  BY <1>7, <1>8 DEF NoDuplicates
<1>12. ToSet(r) = ToSet(s) \ {c}
  <2>1. ASSUME NEW x \in ToSet(r) PROVE x \in ToSet(s) \ {c}
    BY <1>1, <1>2, <1>7 DEF ToSet, NoDuplicates
  <2>2. ASSUME NEW x \in ToSet(s) \ {c} PROVE x \in ToSet(r)
    BY <1>2, <1>9 DEF ToSet
  <2> QED BY <2>1, <2>2
<1>13. ASSUME NEW x, NEW y, x # c, y # c PROVE Before(r, x, y) <=> Before(s, x, y)
  <2>1. ASSUME Before(r, x, y) PROVE Before(s, x, y)
    BY <1>7, <1>8, <2>1 DEF Before
  <2>2. ASSUME Before(s, x, y) PROVE Before(r, x, y)
    BY <1>2, <1>9, <1>10, <1>13, <2>2 DEF Before
  <2> QED BY <2>1, <2>2
<1> QED BY <1>5, <1>6, <1>11, <1>12, <1>13 DEF r

\* begin().
LEMMA BeginList ==
  ASSUME NEW s \in Seq(Callbacks)
  PROVE  /\ Begin(s) \in Callbacks \cup {End}
         /\ Begin(s) = End <=> ToSet(s) = {}
         /\ Begin(s) # End => Begin(s) \in ToSet(s)
         /\ \A y \in ToSet(s) : Before(s, Begin(s), y)
<1>1. DOMAIN s = 1..Len(s) /\ Len(s) \in Nat
  OBVIOUS
<1>2. CASE s = <<>>
  BY <1>1, <1>2 DEF Begin, ToSet
<1>3. CASE s # <<>>
  <2>1. 1 \in DOMAIN s /\ Begin(s) = s[1] /\ s[1] \in Callbacks
    BY <1>1, <1>3 DEF Begin
  <2>2. Begin(s) \in ToSet(s) /\ Begin(s) # End
    BY <2>1, NamesAssumption DEF ToSet
  <2>3. ASSUME NEW y \in ToSet(s) PROVE Before(s, s[1], y)
    <3>1. PICK j \in DOMAIN s : s[j] = y BY DEF ToSet
    <3>2. 1 <= j BY <1>1
    <3> QED BY <2>1, <3>1, <3>2 DEF Before
  <2> QED BY <2>1, <2>2, <2>3
<1> QED BY <1>2, <1>3

\* ++it: exactly the callback it stood on is no longer ahead.
LEMMA PlusPlusList ==
  ASSUME NEW s \in Seq(Callbacks), NEW c \in ToSet(s), NoDuplicates(s)
  PROVE  /\ PlusPlus(s, c) \in Callbacks \cup {End}
         /\ PlusPlus(s, c) # End => PlusPlus(s, c) \in ToSet(s)
         /\ \A y : (PlusPlus(s, c) # End /\ Before(s, PlusPlus(s, c), y))
                      <=> (Before(s, c, y) /\ y # c)
<1>1. DOMAIN s = 1..Len(s) /\ Len(s) \in Nat
  OBVIOUS
<1> DEFINE k == CHOOSE j \in DOMAIN s : s[j] = c
<1>2. k \in 1..Len(s) /\ s[k] = c
  BY <1>1 DEF ToSet
<1>3. PlusPlus(s, c) = IF k = Len(s) THEN End ELSE s[k + 1]
  BY DEF PlusPlus
<1> HIDE DEF k
<1>4. \A y : Before(s, c, y) <=> \E j \in k..Len(s) : s[j] = y
  BY <1>1, <1>2 DEF Before, NoDuplicates
<1>5. CASE k = Len(s)
  <2>1. \A y : Before(s, c, y) <=> y = c
    BY <1>1, <1>2, <1>4, <1>5
  <2> QED BY <1>3, <1>5, <2>1
<1>6. CASE k # Len(s)
  <2>1. k + 1 \in 1..Len(s) /\ s[k + 1] \in Callbacks /\ s[k + 1] \in ToSet(s)
    BY <1>1, <1>2, <1>6 DEF ToSet
  <2>2. \A y : Before(s, s[k + 1], y) <=> \E j \in (k + 1)..Len(s) : s[j] = y
    BY <1>1, <2>1 DEF Before, NoDuplicates
  <2>3. \A j \in (k + 1)..Len(s) : s[j] # c
    BY <1>1, <1>2 DEF NoDuplicates
  <2>4. \A j \in k..Len(s) : j = k \/ j \in (k + 1)..Len(s)
    BY <1>1, <1>2
  <2>5. (k + 1)..Len(s) \subseteq k..Len(s)
    BY <1>1, <1>2
  <2>6. \A y : Before(s, s[k + 1], y) <=> (Before(s, c, y) /\ y # c)
    BY <1>2, <1>4, <2>2, <2>3, <2>4, <2>5
  <2> QED BY <1>3, <1>6, <2>1, <2>6, NamesAssumption
<1> QED BY <1>5, <1>6

-----------------------------------------------------------------------------
(* The steps. *)

\* The initial state.
LEMMA InitHolds == Init => IInv
<1> SUFFICES ASSUME Init PROVE IInv
  OBVIOUS
<1>1. \A d \in Dispatchers : ToSet(m_subscribers[d]) = {} /\ NoDuplicates(m_subscribers[d])
  BY DEF Init, ToSet, NoDuplicates
<1>2. TypeOK
  BY DEF Init, TypeOK, Modes
<1>3. Lists /\ Standing /\ Subscribed /\ Pointed /\ Hearing
  BY <1>1, NamesAssumption DEF Init, Lists, Standing, Subscribed, Pointed, Hearing
<1> QED BY <1>2, <1>3 DEF IInv

\* A callback is constructed, where none is alive.
LEMMA CallbackCtorKeeps ==
  ASSUME IInv, NEW c \in Callbacks, CallbackCtor(c)
  PROVE  IInv'
<1> USE DEF IInv, CallbackCtor, loopVars
<1>1. TypeOK'
  BY DEF TypeOK
<1>2. Lists' /\ Standing' /\ Hearing'
  BY DEF Lists, Standing, Hearing, Ahead
<1>3. \A x \in Callbacks : m_dispatcher'[x] = IF x = c THEN None ELSE m_dispatcher[x]
  BY DEF TypeOK
<1>4. Subscribed'
  <2>1. \A d \in Dispatchers : ToSet(m_subscribers[d]) \subseteq Callbacks
    BY InIsBefore DEF TypeOK
  <2> QED BY <1>3, <2>1 DEF Subscribed, Ahead
<1>5. Pointed'
  <2>1. \A x \in alive', d \in Dispatchers :
           m_dispatcher'[x] = d => x \in alive /\ m_dispatcher[x] = d
    BY <1>3, NamesAssumption DEF TypeOK
  <2> QED BY <2>1 DEF Pointed, Ahead
<1> QED BY <1>1, <1>2, <1>4, <1>5

\* A callback that no loop stands on is destroyed.  If it is still in a list
\* after that, the destructor of the list's owner is past it.
LEMMA CallbackDtorKeeps ==
  ASSUME IInv, NEW c \in Callbacks, MayDie(c), CallbackDtor(c)
  PROVE  IInv'
<1> USE DEF IInv
<1>1. /\ c \in alive /\ alive' = alive \ {c}
      /\ audience' = [d \in Dispatchers |-> audience[d] \ {c}]
      /\ heard' = [d \in Dispatchers |-> [heard[d] EXCEPT ![c] = 0]]
      /\ UNCHANGED <<m_dispatcher, mode, cursor>>
      /\ \A d \in Dispatchers : cursor[d] # c
  BY DEF CallbackDtor, MayDie
<1>2. \A d \in Dispatchers : m_subscribers[d] \in Seq(Callbacks) /\ NoDuplicates(m_subscribers[d])
  BY DEF TypeOK, Lists
\* The lists without c.
<1>3. /\ m_subscribers' \in [Dispatchers -> Seq(Callbacks)]
      /\ \A d \in Dispatchers :
            /\ m_dispatcher[c] # d => m_subscribers'[d] = m_subscribers[d]
            /\ m_dispatcher[c] = d =>
                  /\ m_subscribers'[d] = RemoveFirst(m_subscribers[d], c)
                  /\ c \in ToSet(m_subscribers[d])
  <2>1. CASE m_dispatcher[c] = None
    BY <2>1, NamesAssumption DEF CallbackDtor, UnSubscribe, TypeOK
  <2>2. CASE m_dispatcher[c] # None
    <3> DEFINE e == m_dispatcher[c]
    <3>1. e \in Dispatchers /\ c \in ToSet(m_subscribers[e])
      BY <1>1, <2>2 DEF TypeOK, Pointed
    <3>2. m_subscribers' = [m_subscribers EXCEPT ![e] = RemoveFirst(m_subscribers[e], c)]
      BY <2>2, <3>1 DEF CallbackDtor, UnSubscribe, TypeOK
    <3>3. RemoveFirst(m_subscribers[e], c) \in Seq(Callbacks)
      BY <1>2, <3>1, RemoveFromList
    <3> QED BY <3>1, <3>2, <3>3 DEF TypeOK
  <2> QED BY <2>1, <2>2
<1>4. \A d \in Dispatchers :
        /\ NoDuplicates(m_subscribers'[d])
        /\ ToSet(m_subscribers'[d]) \subseteq ToSet(m_subscribers[d])
        /\ ToSet(m_subscribers[d]) \ {c} \subseteq ToSet(m_subscribers'[d])
        /\ m_dispatcher[c] = d => c \notin ToSet(m_subscribers'[d])
        /\ \A x, y : x # c /\ y # c =>
              (Before(m_subscribers'[d], x, y) <=> Before(m_subscribers[d], x, y))
  <2> SUFFICES ASSUME NEW d \in Dispatchers
               PROVE  /\ NoDuplicates(m_subscribers'[d])
                      /\ ToSet(m_subscribers'[d]) \subseteq ToSet(m_subscribers[d])
                      /\ ToSet(m_subscribers[d]) \ {c} \subseteq ToSet(m_subscribers'[d])
                      /\ m_dispatcher[c] = d => c \notin ToSet(m_subscribers'[d])
                      /\ \A x, y : x # c /\ y # c =>
                            (Before(m_subscribers'[d], x, y) <=> Before(m_subscribers[d], x, y))
    OBVIOUS
  <2>1. CASE m_dispatcher[c] = d
    <3>1. c \in ToSet(m_subscribers[d]) /\ m_subscribers'[d] = RemoveFirst(m_subscribers[d], c)
      BY <1>3, <2>1
    <3> QED BY <1>2, <3>1, RemoveFromList
  <2>2. CASE m_dispatcher[c] # d
    BY <1>2, <1>3, <2>2
  <2> QED BY <2>1, <2>2
<1>5. \A d \in Dispatchers, x \in Callbacks :
        x # c => (Ahead(d, x)' <=> Ahead(d, x))
  BY <1>1, <1>4 DEF Ahead
<1>6. TypeOK'
  BY <1>1, <1>3 DEF TypeOK
<1>7. \A d \in Dispatchers : mode[d] = "dead" => m_subscribers'[d] = <<>>
  <2>1. ASSUME NEW d \in Dispatchers, mode[d] = "dead" PROVE m_subscribers'[d] = <<>>
    <3>1. m_subscribers[d] = <<>> BY <2>1 DEF Lists
    <3>2. ToSet(m_subscribers[d]) = {} BY <3>1 DEF ToSet
    <3> QED BY <1>3, <3>1, <3>2
  <2> QED BY <2>1
<1>8. Lists'
  BY <1>1, <1>4, <1>7 DEF Lists
<1>9. Standing'
  BY <1>1, <1>4 DEF Standing
<1>10. \A d \in Dispatchers : ToSet(m_subscribers[d]) \subseteq Callbacks
  BY <1>2, InIsBefore
\* c is in no other list that counts.
<1>11. \A d \in Dispatchers : c \in ToSet(m_subscribers'[d]) =>
         mode[d] = "dying" /\ ~Ahead(d, c)
  BY <1>4 DEF Subscribed
<1>12. \A d \in Dispatchers : c \in ToSet(m_subscribers'[d]) => ~Ahead(d, c)'
  <2> SUFFICES ASSUME NEW d \in Dispatchers, c \in ToSet(m_subscribers'[d])
               PROVE  ~Ahead(d, c)'
    OBVIOUS
  <2>1. m_dispatcher[c] # d BY <1>4
  <2>2. m_subscribers'[d] = m_subscribers[d] BY <1>3, <2>1
  <2> QED BY <1>1, <1>11, <2>2 DEF Ahead
<1>13. Subscribed'
  <2> SUFFICES ASSUME NEW d \in Dispatchers, NEW x \in ToSet(m_subscribers'[d]),
                      mode[d] # "dying" \/ Ahead(d, x)'
               PROVE  x \in alive' /\ m_dispatcher'[x] = d
    BY <1>1 DEF Subscribed
  <2>1. x # c BY <1>11, <1>12
  <2>2. x \in ToSet(m_subscribers[d]) /\ x \in Callbacks BY <1>4, <1>10
  <2>3. mode[d] # "dying" \/ Ahead(d, x) BY <1>5, <2>1, <2>2
  <2> QED BY <1>1, <2>1, <2>2, <2>3 DEF Subscribed
<1>14. Pointed'
  <2> SUFFICES ASSUME NEW x \in alive', NEW d \in Dispatchers, m_dispatcher[x] = d
               PROVE  x \in ToSet(m_subscribers'[d]) /\ (mode[d] = "dying" => Ahead(d, x)')
    BY <1>1 DEF Pointed
  <2>1. x # c /\ x \in alive /\ x \in Callbacks BY <1>1 DEF TypeOK
  <2>2. x \in ToSet(m_subscribers[d]) /\ (mode[d] = "dying" => Ahead(d, x))
    BY <2>1 DEF Pointed
  <2> QED BY <1>4, <1>5, <2>1, <2>2
<1>15. Hearing'
  <2> SUFFICES ASSUME NEW d \in Dispatchers, mode[d] = "broadcast", NEW x \in Callbacks
               PROVE  /\ x \notin ToSet(m_subscribers'[d]) =>
                            heard'[d][x] = 0 /\ x \notin audience'[d]
                      /\ Ahead(d, x)' => heard'[d][x] = 0 /\ x \in audience'[d]
                      /\ (x \in ToSet(m_subscribers'[d]) /\ ~Ahead(d, x)') =>
                            heard'[d][x] = IF x \in audience'[d] THEN 1 ELSE 0
    BY <1>1 DEF Hearing
  <2>1. heard[d] \in [Callbacks -> {0, 1}]
    BY DEF TypeOK
  <2>2. CASE x = c
    <3>1. heard'[d][c] = 0 /\ c \notin audience'[d] BY <1>1, <2>1
    <3>2. c \notin ToSet(m_subscribers'[d]) BY <1>11
    <3>3. m_subscribers'[d] \in Seq(Callbacks) BY <1>3
    <3>4. ~Ahead(d, c)' BY <3>2, <3>3, InIsBefore DEF Ahead
    <3> QED BY <2>2, <3>1, <3>2, <3>4
  <2>3. CASE x # c
    <3>1. heard'[d][x] = heard[d][x] /\ (x \in audience'[d] <=> x \in audience[d])
      BY <1>1, <2>1, <2>3
    <3>2. (x \in ToSet(m_subscribers'[d]) <=> x \in ToSet(m_subscribers[d]))
          /\ (Ahead(d, x)' <=> Ahead(d, x))
      BY <1>4, <1>5, <2>3
    <3> QED BY <3>1, <3>2 DEF Hearing
  <2> QED BY <2>2, <2>3
<1> QED BY <1>6, <1>8, <1>9, <1>13, <1>14, <1>15

\* A callback that is in no list is put at the front of one: behind a loop
\* that runs.
LEMMA SubscribeKeeps ==
  ASSUME IInv, NEW c \in Callbacks, NEW d \in Dispatchers, MaySubscribe(c, d), Subscribe(c, d)
  PROVE  IInv'
<1> USE DEF IInv
<1> DEFINE s == m_subscribers[d]
<1>1. /\ c \in alive /\ m_dispatcher[c] = None /\ mode[d] \in {"idle", "broadcast"}
      /\ m_subscribers' = [m_subscribers EXCEPT ![d] = <<c>> \o s]
      /\ m_dispatcher' = [m_dispatcher EXCEPT ![c] = d]
      /\ UNCHANGED <<alive, mode, cursor, audience, heard>>
  BY DEF MaySubscribe, Subscribe, loopVars, TypeOK
<1>2. \A e \in Dispatchers :
        /\ m_subscribers[e] \in Seq(Callbacks) /\ NoDuplicates(m_subscribers[e])
        /\ ToSet(m_subscribers[e]) \subseteq Callbacks
  BY InIsBefore DEF TypeOK, Lists
<1>3. c \notin ToSet(s)
  BY <1>1, NamesAssumption DEF Subscribed
<1>4. /\ <<c>> \o s \in Seq(Callbacks)
      /\ NoDuplicates(<<c>> \o s)
      /\ ToSet(<<c>> \o s) = ToSet(s) \cup {c}
      /\ \A x, y : x # c => (Before(<<c>> \o s, x, y) <=> Before(s, x, y))
  BY <1>2, <1>3, PushFront
<1>5. /\ m_subscribers'[d] = <<c>> \o s
      /\ \A e \in Dispatchers : e # d => m_subscribers'[e] = m_subscribers[e]
      /\ m_dispatcher'[c] = d
      /\ \A x \in Callbacks : x # c => m_dispatcher'[x] = m_dispatcher[x]
  BY <1>1 DEF TypeOK
<1> HIDE DEF s
<1>6. cursor[d] # c
  BY <1>3, NamesAssumption DEF Standing, s
<1>7. \A e \in Dispatchers, x \in Callbacks : Ahead(e, x)' <=> Ahead(e, x)
  BY <1>1, <1>4, <1>5, <1>6 DEF Ahead, s
<1>8. TypeOK'
  BY <1>1, <1>4 DEF TypeOK
<1>9. Lists'
  BY <1>1, <1>4, <1>5 DEF Lists
<1>10. Standing'
  BY <1>1, <1>4, <1>5 DEF Standing, s
<1>11. Subscribed'
  <2> SUFFICES ASSUME NEW e \in Dispatchers, NEW x \in ToSet(m_subscribers'[e]),
                      mode[e] # "dying" \/ Ahead(e, x)'
               PROVE  x \in alive /\ m_dispatcher'[x] = e
    BY <1>1 DEF Subscribed
  <2>1. CASE x = c /\ e = d
    BY <1>1, <1>5, <2>1
  <2>2. CASE ~(x = c /\ e = d)
    <3>1. x \in ToSet(m_subscribers[e]) /\ x \in Callbacks
      BY <1>2, <1>4, <1>5, <2>2 DEF s
    <3>2. x \in alive /\ m_dispatcher[x] = e
      BY <1>7, <3>1 DEF Subscribed
    <3>3. x # c
      BY <1>1, <3>2, NamesAssumption
    <3> QED BY <1>5, <3>1, <3>2, <3>3
  <2> QED BY <2>1, <2>2
<1>12. Pointed'
  <2> SUFFICES ASSUME NEW x \in alive, NEW e \in Dispatchers, m_dispatcher'[x] = e
               PROVE  x \in ToSet(m_subscribers'[e]) /\ (mode[e] = "dying" => Ahead(e, x)')
    BY <1>1 DEF Pointed
  <2>1. x \in Callbacks BY DEF TypeOK
  <2>2. CASE x = c
    <3>1. e = d /\ mode[d] # "dying" BY <1>1, <1>5, <2>2
    <3> QED BY <1>4, <1>5, <2>2, <3>1
  <2>3. CASE x # c
    <3>1. x \in ToSet(m_subscribers[e]) /\ (mode[e] = "dying" => Ahead(e, x))
      BY <1>5, <2>1, <2>3 DEF Pointed
    <3> QED BY <1>4, <1>5, <1>7, <2>1, <3>1 DEF s
  <2> QED BY <2>2, <2>3
<1>13. Hearing'
  <2> SUFFICES ASSUME NEW e \in Dispatchers, mode[e] = "broadcast", NEW x \in Callbacks
               PROVE  /\ x \notin ToSet(m_subscribers'[e]) =>
                            heard[e][x] = 0 /\ x \notin audience[e]
                      /\ Ahead(e, x)' => heard[e][x] = 0 /\ x \in audience[e]
                      /\ (x \in ToSet(m_subscribers'[e]) /\ ~Ahead(e, x)') =>
                            heard[e][x] = IF x \in audience[e] THEN 1 ELSE 0
    BY <1>1 DEF Hearing
  <2>1. CASE x = c /\ e = d
    <3>1. heard[e][x] = 0 /\ x \notin audience[e]
      BY <1>3, <2>1 DEF Hearing, s
    <3>2. ~Ahead(e, x)
      BY <1>2, <1>3, <2>1, InIsBefore DEF Ahead, s
    <3> QED BY <1>7, <3>1, <3>2
  <2>2. CASE ~(x = c /\ e = d)
    <3>1. x \in ToSet(m_subscribers'[e]) <=> x \in ToSet(m_subscribers[e])
      <4>1. CASE e = d
        BY <1>4, <1>5, <2>2, <4>1 DEF s
      <4>2. CASE e # d
        BY <1>5, <4>2
      <4> QED BY <4>1, <4>2
    <3>2. Ahead(e, x)' <=> Ahead(e, x)
      BY <1>7
    <3>3. /\ x \notin ToSet(m_subscribers[e]) => heard[e][x] = 0 /\ x \notin audience[e]
          /\ Ahead(e, x) => heard[e][x] = 0 /\ x \in audience[e]
          /\ (x \in ToSet(m_subscribers[e]) /\ ~Ahead(e, x)) =>
                heard[e][x] = IF x \in audience[e] THEN 1 ELSE 0
      BY DEF Hearing
    <3> QED BY <3>1, <3>2, <3>3
  <2> QED BY <2>1, <2>2
<1> QED BY <1>8, <1>9, <1>10, <1>11, <1>12, <1>13

\* A loop begins, with everyone ahead of it: a broadcast or the destructor.
LEMMA LoopBegins ==
  ASSUME IInv, NEW d \in Dispatchers, Broadcast(d) \/ DispatcherDtor(d)
  PROVE  IInv'
<1> USE DEF IInv
<1> DEFINE s == m_subscribers[d]
<1>1. /\ mode[d] = "idle"
      /\ cursor' = [cursor EXCEPT ![d] = Begin(s)]
      /\ UNCHANGED <<m_subscribers, m_dispatcher, alive>>
  BY DEF Broadcast, DispatcherDtor
<1>2. s \in Seq(Callbacks) /\ ToSet(s) \subseteq Callbacks
  BY InIsBefore DEF TypeOK
<1>3. /\ Begin(s) \in Callbacks \cup {End}
      /\ Begin(s) = End <=> ToSet(s) = {}
      /\ Begin(s) # End => Begin(s) \in ToSet(s)
      /\ \A y \in ToSet(s) : Before(s, Begin(s), y)
  BY <1>2, BeginList
<1>4. /\ cursor'[d] = Begin(s)
      /\ \A e \in Dispatchers : e # d => cursor'[e] = cursor[e]
  BY <1>1 DEF TypeOK
<1>5. /\ \A e \in Dispatchers, x \in Callbacks : e # d => (Ahead(e, x)' <=> Ahead(e, x))
      /\ \A x \in Callbacks : Ahead(d, x)' <=> x \in ToSet(s)
  BY <1>1, <1>2, <1>3, <1>4, InIsBefore DEF Ahead
<1> HIDE DEF s
<1>6. CASE Broadcast(d)
  <2>1. /\ mode' = [mode EXCEPT ![d] = "broadcast"]
        /\ audience' = [audience EXCEPT ![d] = ToSet(s)]
        /\ heard' = [heard EXCEPT ![d] = [c \in Callbacks |-> 0]]
    BY <1>6 DEF Broadcast, s
  <2>2. /\ mode'[d] = "broadcast" /\ audience'[d] = ToSet(s)
        /\ \A x \in Callbacks : heard'[d][x] = 0
        /\ \A e \in Dispatchers : e # d =>
              mode'[e] = mode[e] /\ audience'[e] = audience[e] /\ heard'[e] = heard[e]
    BY <2>1 DEF TypeOK
  <2>3. TypeOK'
    BY <1>1, <1>2, <1>3, <2>1 DEF TypeOK, Modes
  <2>4. Lists' /\ Standing'
    BY <1>1, <1>3, <1>4, <2>2 DEF Lists, Standing, s
  <2>5. Subscribed' /\ Pointed'
    <3>1. \A e \in Dispatchers : ToSet(m_subscribers[e]) \subseteq Callbacks
      BY InIsBefore DEF TypeOK
    <3> QED BY <1>1, <1>5, <2>2, <3>1 DEF Subscribed, Pointed, TypeOK
  <2>6. Hearing'
    BY <1>1, <1>5, <2>2 DEF Hearing, s
  <2> QED BY <2>3, <2>4, <2>5, <2>6
<1>7. CASE DispatcherDtor(d)
  <2>1. mode' = [mode EXCEPT ![d] = "dying"] /\ UNCHANGED <<audience, heard>>
    BY <1>7 DEF DispatcherDtor
  <2>2. mode'[d] = "dying" /\ \A e \in Dispatchers : e # d => mode'[e] = mode[e]
    BY <2>1 DEF TypeOK
  <2>3. TypeOK'
    BY <1>1, <1>2, <1>3, <2>1 DEF TypeOK, Modes
  <2>4. Lists' /\ Standing'
    BY <1>1, <1>3, <1>4, <2>2 DEF Lists, Standing, s
  <2>5. Subscribed' /\ Pointed'
    <3>1. \A e \in Dispatchers : ToSet(m_subscribers[e]) \subseteq Callbacks
      BY InIsBefore DEF TypeOK
    <3>2. Subscribed'
      BY <1>1, <1>5, <2>2, <3>1 DEF Subscribed
    <3>3. Pointed'
      <4> SUFFICES ASSUME NEW x \in alive, NEW e \in Dispatchers, m_dispatcher[x] = e
                   PROVE  x \in ToSet(m_subscribers[e]) /\ (mode'[e] = "dying" => Ahead(e, x)')
        BY <1>1 DEF Pointed
      <4>1. x \in Callbacks BY DEF TypeOK
      <4>2. x \in ToSet(m_subscribers[e]) /\ (mode[e] = "dying" => Ahead(e, x))
        BY DEF Pointed
      <4> QED BY <1>5, <2>2, <4>1, <4>2 DEF s
    <3> QED BY <3>2, <3>3
  <2>6. Hearing'
    BY <1>1, <1>5, <2>1, <2>2 DEF Hearing
  <2> QED BY <2>3, <2>4, <2>5, <2>6
<1> QED BY <1>6, <1>7

\* A loop takes a step: the callback it stood on is behind it now.
LEMMA LoopSteps ==
  ASSUME IInv, NEW d \in Dispatchers, Notify(d) \/ DispatcherDeath(d)
  PROVE  IInv'
<1> USE DEF IInv
<1> DEFINE s == m_subscribers[d]
           c == cursor[d]
<1>1. /\ c # End /\ mode[d] \in {"broadcast", "dying"}
      /\ cursor' = [cursor EXCEPT ![d] = PlusPlus(s, c)]
      /\ UNCHANGED <<m_subscribers, alive, mode, audience>>
  BY DEF Notify, DispatcherDeath, TypeOK
<1>2. /\ s \in Seq(Callbacks) /\ NoDuplicates(s) /\ c \in ToSet(s) /\ c \in Callbacks
      /\ \A e \in Dispatchers : ToSet(m_subscribers[e]) \subseteq Callbacks
  BY <1>1, InIsBefore DEF TypeOK, Lists, Standing
<1>3. /\ PlusPlus(s, c) \in Callbacks \cup {End}
      /\ PlusPlus(s, c) # End => PlusPlus(s, c) \in ToSet(s)
      /\ \A y : (PlusPlus(s, c) # End /\ Before(s, PlusPlus(s, c), y)) <=> (Before(s, c, y) /\ y # c)
  BY <1>2, PlusPlusList
<1>4. /\ cursor'[d] = PlusPlus(s, c)
      /\ \A e \in Dispatchers : e # d => cursor'[e] = cursor[e]
  BY <1>1 DEF TypeOK
<1>5. /\ \A e \in Dispatchers, x \in Callbacks : e # d => (Ahead(e, x)' <=> Ahead(e, x))
      /\ \A x \in Callbacks : Ahead(d, x)' <=> (Ahead(d, x) /\ x # c)
      /\ Ahead(d, c)
  BY <1>1, <1>2, <1>3, <1>4, InIsBefore DEF Ahead
<1>6. c \in alive /\ m_dispatcher[c] = d
  BY <1>2, <1>5 DEF Subscribed
<1> HIDE DEF s, c
<1>7. Lists' /\ Standing'
  BY <1>1, <1>3, <1>4 DEF Lists, Standing, s
<1>8. CASE Notify(d)
  <2>1. mode[d] = "broadcast" /\ heard' = [heard EXCEPT ![d][c] = @ + 1] /\ UNCHANGED m_dispatcher
    BY <1>8 DEF Notify, c
  <2>2. heard[d][c] = 0 /\ c \in audience[d]
    BY <1>2, <1>5, <2>1 DEF Hearing
  <2>3. /\ heard'[d][c] = 1
        /\ \A x \in Callbacks : x # c => heard'[d][x] = heard[d][x]
        /\ \A e \in Dispatchers : e # d => heard'[e] = heard[e]
        /\ heard' \in [Dispatchers -> [Callbacks -> {0, 1}]]
    BY <1>2, <2>1, <2>2 DEF TypeOK
  <2>4. TypeOK'
    BY <1>1, <1>3, <2>1, <2>3 DEF TypeOK
  <2>5. Subscribed' /\ Pointed'
    BY <1>1, <1>2, <1>5, <2>1 DEF Subscribed, Pointed, TypeOK
  <2>6. Hearing'
    <3> SUFFICES ASSUME NEW e \in Dispatchers, mode[e] = "broadcast", NEW x \in Callbacks
                 PROVE  /\ x \notin ToSet(m_subscribers[e]) =>
                              heard'[e][x] = 0 /\ x \notin audience[e]
                        /\ Ahead(e, x)' => heard'[e][x] = 0 /\ x \in audience[e]
                        /\ (x \in ToSet(m_subscribers[e]) /\ ~Ahead(e, x)') =>
                              heard'[e][x] = IF x \in audience[e] THEN 1 ELSE 0
      BY <1>1 DEF Hearing
    <3>1. CASE e = d /\ x = c
      BY <1>2, <1>5, <2>2, <2>3, <3>1 DEF s
    <3>2. CASE ~(e = d /\ x = c)
      BY <1>5, <2>3, <3>2 DEF Hearing
    <3> QED BY <3>1, <3>2
  <2> QED BY <1>7, <2>4, <2>5, <2>6
<1>9. CASE DispatcherDeath(d)
  <2>1. mode[d] = "dying" /\ m_dispatcher' = [m_dispatcher EXCEPT ![c] = None] /\ UNCHANGED heard
    BY <1>9 DEF DispatcherDeath, c
  <2>2. m_dispatcher'[c] = None /\ \A x \in Callbacks : x # c => m_dispatcher'[x] = m_dispatcher[x]
    BY <1>2, <2>1 DEF TypeOK
  <2>3. TypeOK'
    BY <1>1, <1>2, <1>3, <2>1 DEF TypeOK
  <2>4. Subscribed'
    <3> SUFFICES ASSUME NEW e \in Dispatchers, NEW x \in ToSet(m_subscribers[e]),
                        mode[e] # "dying" \/ Ahead(e, x)'
                 PROVE  x \in alive /\ m_dispatcher'[x] = e
      BY <1>1 DEF Subscribed
    <3>1. x \in Callbacks BY <1>2
    <3>2. x # c BY <1>5, <1>6, <2>1, <3>1 DEF Subscribed
    <3> QED BY <1>5, <2>2, <3>1, <3>2 DEF Subscribed
  <2>5. Pointed'
    <3> SUFFICES ASSUME NEW x \in alive, NEW e \in Dispatchers, m_dispatcher'[x] = e
                 PROVE  x \in ToSet(m_subscribers[e]) /\ (mode[e] = "dying" => Ahead(e, x)')
      BY <1>1 DEF Pointed
    <3>1. x \in Callbacks BY DEF TypeOK
    <3>2. x # c /\ m_dispatcher[x] = e BY <2>2, <3>1, NamesAssumption
    <3>3. x \in ToSet(m_subscribers[e]) /\ (mode[e] = "dying" => Ahead(e, x))
      BY <3>2 DEF Pointed
    <3> QED BY <1>5, <3>1, <3>2, <3>3
  <2>6. Hearing'
    BY <1>1, <1>5, <2>1 DEF Hearing
  <2> QED BY <1>7, <2>3, <2>4, <2>5, <2>6
<1> QED BY <1>8, <1>9

\* A loop ends.  Nobody points to a dispatcher whose destructor is through.
LEMMA LoopEnds ==
  ASSUME IInv, NEW d \in Dispatchers, BroadcastReturns(d) \/ DispatcherGone(d)
  PROVE  IInv'
<1> USE DEF IInv
<1>1. cursor[d] = End /\ UNCHANGED <<m_dispatcher, alive, cursor, audience, heard>>
  BY DEF BroadcastReturns, DispatcherGone
<1>2. CASE BroadcastReturns(d)
  <2>1. /\ mode[d] = "broadcast" /\ mode'[d] = "idle" /\ m_subscribers' = m_subscribers
        /\ \A e \in Dispatchers : e # d => mode'[e] = mode[e]
        /\ mode' \in [Dispatchers -> Modes]
    BY <1>2 DEF BroadcastReturns, TypeOK, Modes
  <2>2. TypeOK'
    BY <1>1, <2>1 DEF TypeOK
  <2>3. Lists' /\ Standing'
    BY <1>1, <2>1 DEF Lists, Standing
  <2>4. Subscribed' /\ Pointed' /\ Hearing'
    BY <1>1, <2>1 DEF Subscribed, Pointed, Hearing, Ahead
  <2> QED BY <2>2, <2>3, <2>4
<1>3. CASE DispatcherGone(d)
  <2>1. /\ mode[d] = "dying" /\ mode'[d] = "dead" /\ m_subscribers'[d] = <<>>
        /\ \A e \in Dispatchers : e # d =>
              mode'[e] = mode[e] /\ m_subscribers'[e] = m_subscribers[e]
        /\ mode' \in [Dispatchers -> Modes]
        /\ m_subscribers' \in [Dispatchers -> Seq(Callbacks)]
    BY <1>3 DEF DispatcherGone, TypeOK, Modes
  <2>2. ToSet(m_subscribers'[d]) = {} /\ NoDuplicates(m_subscribers'[d])
    BY <2>1 DEF ToSet, NoDuplicates
  <2>3. TypeOK'
    BY <1>1, <2>1 DEF TypeOK
  <2>4. Lists' /\ Standing'
    BY <1>1, <2>1, <2>2 DEF Lists, Standing
  <2>5. \A x \in alive : m_dispatcher[x] # d
    BY <1>1, <2>1 DEF Pointed, Ahead
  <2>6. Subscribed' /\ Hearing'
    BY <1>1, <2>1, <2>2 DEF Subscribed, Hearing, Ahead
  <2>7. Pointed'
    <3> SUFFICES ASSUME NEW x \in alive, NEW e \in Dispatchers, m_dispatcher[x] = e
                 PROVE  x \in ToSet(m_subscribers'[e]) /\ (mode'[e] = "dying" => Ahead(e, x)')
      BY <1>1 DEF Pointed
    <3>1. e # d BY <2>5
    <3> QED BY <1>1, <2>1, <3>1 DEF Pointed, Ahead
  <2> QED BY <2>3, <2>4, <2>6, <2>7
<1> QED BY <1>2, <1>3

\* Every step keeps the invariant.
LEMMA NextKeeps == IInv /\ [Next]_dispatcherVars => IInv'
<1> SUFFICES ASSUME IInv, [Next]_dispatcherVars PROVE IInv'
  OBVIOUS
<1>1. CASE UNCHANGED dispatcherVars
  BY <1>1 DEF dispatcherVars, IInv, TypeOK, Lists, Standing, Subscribed, Pointed, Hearing, Ahead
<1>2. CASE Next
  BY <1>2, CallbackCtorKeeps, CallbackDtorKeeps, SubscribeKeeps, LoopBegins, LoopSteps, LoopEnds
     DEF Next, Loop
<1> QED BY <1>1, <1>2

\* The invariant always holds.
LEMMA IInvAlways == SafeSpec => []IInv
BY InitHolds, NextKeeps, PTL DEF SafeSpec

-----------------------------------------------------------------------------

\* The types; no broadcast calls a callback twice.
THEOREM TypeCorrect == SafeSpec => []TypeOK
<1>1. IInv => TypeOK
  BY DEF IInv
<1> QED BY <1>1, IInvAlways, PTL

\* The loops of Broadcast and of ~Dispatcher stand only on callbacks that
\* live and are in the list, whatever the observers called before did to it.
THEOREM LoopsStandOnLive == SafeSpec => []CallsOnlyLive
<1>1. IInv => CallsOnlyLive
  <2> SUFFICES ASSUME IInv, NEW d \in Dispatchers, cursor[d] # End
               PROVE  /\ cursor[d] \in alive
                      /\ m_dispatcher[cursor[d]] = d
                      /\ cursor[d] \in ToSet(m_subscribers[d])
    BY DEF CallsOnlyLive
  <2>1. cursor[d] \in ToSet(m_subscribers[d]) BY DEF IInv, Standing
  <2>2. Ahead(d, cursor[d]) BY <2>1, InIsBefore DEF IInv, TypeOK, Ahead
  <2> QED BY <2>1, <2>2 DEF IInv, Subscribed
<1> QED BY <1>1, IInvAlways, PTL

\* A callback that outlives its dispatcher does not call UnSubscribe on it.
THEOREM NobodyCallsTheDead == SafeSpec => []NoDeadDispatcher
<1>1. IInv => NoDeadDispatcher
  <2> SUFFICES ASSUME IInv, NEW c \in alive, m_dispatcher[c] # None,
                      mode[m_dispatcher[c]] = "dead"
               PROVE  FALSE
    BY DEF NoDeadDispatcher
  <2>1. m_dispatcher[c] \in Dispatchers BY DEF IInv, TypeOK
  <2>2. c \in ToSet(m_subscribers[m_dispatcher[c]]) BY <2>1 DEF IInv, Pointed
  <2>3. m_subscribers[m_dispatcher[c]] = <<>> BY <2>1 DEF IInv, Lists
  <2> QED BY <2>2, <2>3 DEF ToSet
<1> QED BY <1>1, IInvAlways, PTL

\* At the end of a broadcast every subscriber it met was called once, and
\* none that came later.
THEOREM BroadcastReachesAll == SafeSpec => []EveryoneHears
<1>1. IInv => EveryoneHears
  <2>1. IInv => \A d \in Dispatchers : ToSet(m_subscribers[d]) \subseteq Callbacks
    BY InIsBefore DEF IInv, TypeOK
  <2> QED BY <2>1 DEF IInv, EveryoneHears, Hearing, Ahead
<1> QED BY <1>1, IInvAlways, PTL
==============================================================================
