------------------------ MODULE FrameWorkLife_proofs ------------------------
(***************************************************************************)
(* What a process uses is there, from its first statement to its exit      *)
(* functions, and what a server is asked for it has loaded.                *)
(*                                                                         *)
(* The lists of statements are given an order first (Neat: everything comes*)
(* after what it needs), and Next is reduced to a few kinds of steps       *)
(* (Step).  Lists and Core are then shown to be invariant kind by kind;    *)
(* UsesLive follows from Core, the other two from Core and Loading.        *)
(***************************************************************************)
EXTENDS FrameWork_proofs

(***************************************************************************)
(* Orders of statements in a list.                                         *)
(***************************************************************************)

\* Some statement of A is in the list.
HasOne(list, A) == \E i \in DOMAIN list : list[i] \in A

\* Every statement of U comes after one of A.
PrecededBy(list, A, U) ==
    \A j \in DOMAIN list : list[j] \in U => \E i \in DOMAIN list : i < j /\ list[i] \in A

\* After a comes b.
Followed(list, a, b) ==
    \A i \in DOMAIN list : list[i] = a => \E j \in DOMAIN list : i < j /\ list[j] = b

\* All statements of E come before all of L.
Sorted(list, E, L) ==
    \A i, j \in DOMAIN list : (list[i] \in L /\ list[j] \in E) => j < i

\* What a list has when statements q are put in for n statements of s: of what
\* q and s have, and all of it if nothing is taken away.
LEMMA HasOneMoved ==
    ASSUME NEW S, NEW l \in Seq(S), NEW q \in Seq(S), NEW s \in Seq(S), NEW n \in {0, 1},
           Moved(l, q, s, n), NEW A
    PROVE  /\ HasOne(l, A) => HasOne(q, A) \/ HasOne(s, A)
           /\ HasOne(q, A) => HasOne(l, A)
           /\ (n = 0 /\ HasOne(s, A)) => HasOne(l, A)
  <1>1. HasOne(l, A) => HasOne(q, A) \/ HasOne(s, A)
    BY DEF HasOne, Moved
  <1>2. HasOne(q, A) => HasOne(l, A)
    BY DEF HasOne, Moved
  <1>3. ASSUME n = 0, HasOne(s, A) PROVE HasOne(l, A)
    <2>1. PICK k \in DOMAIN s : s[k] \in A
      BY <1>3 DEF HasOne
    <2>2. k > n
      BY <1>3
    <2>. QED
      BY <2>1, <2>2 DEF HasOne, Moved
  <1>. QED
    BY <1>1, <1>2, <1>3

\* An order within both parts is an order of the whole, unless the statement
\* taken away was the one that the rest came after.
LEMMA PrecededByMoved ==
    ASSUME NEW S, NEW l \in Seq(S), NEW q \in Seq(S), NEW s \in Seq(S), NEW n \in {0, 1},
           Moved(l, q, s, n), NEW A, NEW U, PrecededBy(q, A, U),
           PrecededBy(s, A, U) \/ HasOne(q, A),
           n = 1 => s[1] \notin A \/ HasOne(q, A)
    PROVE  PrecededBy(l, A, U)
  <1>0. /\ DOMAIN l = 1..Len(l) /\ DOMAIN s = 1..Len(s) /\ DOMAIN q = 1..Len(q)
        /\ Len(l) \in Nat /\ Len(q) \in Nat /\ Len(s) \in Nat
    OBVIOUS
  <1>. SUFFICES ASSUME NEW j \in DOMAIN l, l[j] \in U PROVE \E i \in DOMAIN l : i < j /\ l[i] \in A
    BY DEF PrecededBy
  <1>1. CASE j \in DOMAIN q /\ l[j] = q[j]
    <2>1. PICK i \in DOMAIN q : i < j /\ q[i] \in A
      BY <1>1 DEF PrecededBy
    <2>2. i \in DOMAIN l /\ l[i] = q[i]
      BY DEF Moved
    <2>. QED
      BY <2>1, <2>2
  <1>2. CASE j > Len(q) /\ HasOne(q, A)
    <2>1. PICK i \in DOMAIN q : q[i] \in A
      BY <1>2 DEF HasOne
    <2>2. i \in DOMAIN l /\ l[i] = q[i] /\ i < j
      BY <1>0, <1>2 DEF Moved
    <2>. QED
      BY <2>1, <2>2
  <1>3. CASE j > Len(q) /\ j - Len(q) + n \in DOMAIN s /\ l[j] = s[j - Len(q) + n] /\ ~HasOne(q, A)
    <2>1. PICK i \in DOMAIN s : i < j - Len(q) + n /\ s[i] \in A
      BY <1>3 DEF PrecededBy
    <2>2. i > n
      <3>1. i \in Nat /\ i >= 1
        BY <1>0
      <3>. QED
        BY <1>3, <2>1, <3>1
    <2>3. i - n + Len(q) \in DOMAIN l /\ l[i - n + Len(q)] \in A
      BY <2>1, <2>2 DEF Moved
    <2>4. i - n + Len(q) < j
      BY <1>0, <1>3, <2>1
    <2>. QED
      BY <2>3, <2>4
  <1>. QED
    BY <1>1, <1>2, <1>3 DEF Moved

\* What follows in both parts follows in the whole.
LEMMA FollowedMoved ==
    ASSUME NEW S, NEW l \in Seq(S), NEW q \in Seq(S), NEW s \in Seq(S), NEW n \in {0, 1},
           Moved(l, q, s, n), NEW a, NEW b, Followed(q, a, b), Followed(s, a, b)
    PROVE  Followed(l, a, b)
  <1>0. /\ DOMAIN l = 1..Len(l) /\ DOMAIN s = 1..Len(s) /\ DOMAIN q = 1..Len(q)
        /\ Len(l) \in Nat /\ Len(q) \in Nat /\ Len(s) \in Nat
    OBVIOUS
  <1>. SUFFICES ASSUME NEW i \in DOMAIN l, l[i] = a PROVE \E j \in DOMAIN l : i < j /\ l[j] = b
    BY DEF Followed
  <1>1. CASE i \in DOMAIN q /\ l[i] = q[i]
    <2>1. PICK j \in DOMAIN q : i < j /\ q[j] = b
      BY <1>1 DEF Followed
    <2>. QED
      BY <2>1 DEF Moved
  <1>2. CASE i > Len(q) /\ i - Len(q) + n \in DOMAIN s /\ l[i] = s[i - Len(q) + n]
    <2>1. PICK j \in DOMAIN s : i - Len(q) + n < j /\ s[j] = b
      BY <1>2 DEF Followed
    <2>2. j > n /\ i < j - n + Len(q)
      BY <1>0, <1>2, <2>1
    <2>3. j - n + Len(q) \in DOMAIN l /\ l[j - n + Len(q)] = b
      BY <2>1, <2>2 DEF Moved
    <2>. QED
      BY <2>2, <2>3
  <1>. QED
    BY <1>1, <1>2 DEF Moved

\* Sorted parts make a sorted whole when the early kind is not behind the late.
LEMMA SortedMoved ==
    ASSUME NEW S, NEW l \in Seq(S), NEW q \in Seq(S), NEW s \in Seq(S), NEW n \in {0, 1},
           Moved(l, q, s, n), NEW E, NEW L, Sorted(q, E, L), Sorted(s, E, L),
           \/ ~HasOne(q, L)
           \/ ~HasOne(s, E)
           \/ n = 1 /\ s # <<>> /\ s[1] \in L
    PROVE  Sorted(l, E, L)
  <1>0. /\ DOMAIN l = 1..Len(l) /\ DOMAIN s = 1..Len(s) /\ DOMAIN q = 1..Len(q)
        /\ Len(l) \in Nat /\ Len(q) \in Nat /\ Len(s) \in Nat
    OBVIOUS
  <1>. SUFFICES ASSUME NEW i \in DOMAIN l, NEW j \in DOMAIN l, l[i] \in L, l[j] \in E PROVE j < i
    BY DEF Sorted
  <1>1. CASE i \in DOMAIN q /\ l[i] = q[i]
    <2>1. HasOne(q, L)
      BY <1>1 DEF HasOne
    <2>2. CASE j \in DOMAIN q /\ l[j] = q[j]
      BY <1>1, <2>2 DEF Sorted
    <2>3. CASE j > Len(q) /\ j - Len(q) + n \in DOMAIN s /\ l[j] = s[j - Len(q) + n]
      <3>1. HasOne(s, E)
        BY <2>3 DEF HasOne
      <3>2. n = 1 /\ 1 \in DOMAIN s /\ s[1] \in L
        BY <1>0, <2>1, <2>3, <3>1
      <3>3. j - Len(q) + n < 1
        BY <2>3, <3>2 DEF Sorted
      <3>. QED
        BY <1>0, <2>3, <3>3
    <2>. QED
      BY <2>2, <2>3 DEF Moved
  <1>2. CASE i > Len(q) /\ i - Len(q) + n \in DOMAIN s /\ l[i] = s[i - Len(q) + n]
    <2>2. CASE j \in DOMAIN q /\ l[j] = q[j]
      BY <1>0, <1>2, <2>2
    <2>3. CASE j > Len(q) /\ j - Len(q) + n \in DOMAIN s /\ l[j] = s[j - Len(q) + n]
      <3>1. j - Len(q) + n < i - Len(q) + n
        BY <1>2, <2>3 DEF Sorted
      <3>. QED
        BY <1>0, <1>2, <2>3, <3>1
    <2>. QED
      BY <2>2, <2>3 DEF Moved
  <1>. QED
    BY <1>1, <1>2 DEF Moved

\* Putting two lists together is a special case.
LEMMA ConcatMoved ==
    ASSUME NEW S, NEW p \in Seq(S), NEW r \in Seq(S)
    PROVE  p \o r \in Seq(S) /\ Moved(p \o r, p, r, 0)
  <1>1. Rest(r, 0) = r
    BY DEF Rest
  <1>2. /\ p \o Rest(r, 0) \in Seq(S) /\ Moved(p \o Rest(r, 0), p, r, 0)
    BY Spliced
  <1>. QED
    BY <1>1, <1>2

(***************************************************************************)
(* What statements rely on.                                                *)
(***************************************************************************)

Named(names) == {s \in Statements : s[1] \in names}

\* Who has one of these before him will have an instance of c.
Gets(c) == {<<"get", c>>, <<"lock", c>>, <<"store", c>>}

\* The objects that are there when an instance of c is.
Provides(c) == IF c = "FrameWork" THEN {"m_factory", "m_mediator"} ELSE {c}

\* The same with the loader, which is made like them but destroyed too soon.
Comprises(c) == Provides(c) \cup (IF c = "FrameWork" THEN {"m_loader"} ELSE {})

\* The statements that need an instance of c, or come when there is one.
Relies(c) ==
    {s \in Named({"use"}) : s[2] \in Provides(c)} \cup
    CASE c = "ConfigManager" -> Named({"config"})
      [] c = "Logger"        -> Named({"log", "level", "watch"}) \cup {<<"atexit", "FrameWork">>}
      [] c = "FrameWork"     -> Named({"add", "create", "register", "mkfs", "task", "mv"})
      [] OTHER               -> {}

\* The same for a proxy.
MakesProxy == {<<"make", "proxy">>}
ProxyUsers == Named({"register", "mkfs", "task"}) \cup {<<"use", "proxy">>}

\* A list of statements of S in which everything comes after what it needs.
Neat(q, S) ==
    /\ q \in Seq(S)
    /\ \A c \in Classes : PrecededBy(q, Gets(c), Relies(c))
    /\ PrecededBy(q, MakesProxy, ProxyUsers)
    /\ \A c \in Classes : \A o \in Comprises(c) : PrecededBy(q, {<<"make", o>>}, {<<"store", c>>})

\* Statement s may come after p.
Fits(p, s) ==
    /\ \A c \in Classes : s \in Relies(c) => HasOne(p, Gets(c))
    /\ s \in ProxyUsers => HasOne(p, MakesProxy)
    /\ \A c \in Classes : \A o \in Comprises(c) : s = <<"store", c>> => HasOne(p, {<<"make", o>>})

\* Statements that may come anywhere.
Dependent == {"config", "log", "level", "watch", "add", "create", "register", "mkfs", "task", "mv",
              "use", "store"}
Independent(s) == s \in Statements /\ s[1] \notin Dependent /\ s # <<"atexit", "FrameWork">>

\* What relies on a class is one of the dependent statements.
LEMMA RelyingNames ==
    ASSUME NEW c, NEW s \in Relies(c)
    PROVE  s[1] \in Dependent \/ s = <<"atexit", "FrameWork">>
  <1>1. CASE c = "ConfigManager"
    BY <1>1 DEF Relies, Named, Dependent
  <1>2. CASE c = "Logger"
    BY <1>2 DEF Relies, Named, Dependent
  <1>3. CASE c = "FrameWork"
    BY <1>3 DEF Relies, Named, Dependent
  <1>4. CASE c \notin {"ConfigManager", "Logger", "FrameWork"}
    BY <1>4 DEF Relies, Named, Dependent
  <1>. QED
    BY <1>1, <1>2, <1>3, <1>4

\* An independent statement relies on nothing and fits anywhere.
LEMMA IndependentFits ==
    ASSUME NEW s, Independent(s)
    PROVE  /\ \A c : s \notin Relies(c)
           /\ s \notin ProxyUsers
           /\ \A c : s # <<"store", c>>
           /\ \A p : Fits(p, s)
  <1>1. \A c : s \notin Relies(c)
    BY RelyingNames DEF Independent
  <1>2. s \notin ProxyUsers
    BY DEF Independent, ProxyUsers, Named, Dependent
  <1>3. \A c : s # <<"store", c>>
    BY DEF Independent, Dependent
  <1>. QED
    BY <1>1, <1>2, <1>3 DEF Fits

\* A list of such statements is neat.
LEMMA IndependentNeat ==
    ASSUME NEW S, NEW q \in Seq(S), \A i \in DOMAIN q : Independent(q[i])
    PROVE  Neat(q, S)
  <1>1. \A i \in DOMAIN q : /\ \A c : q[i] \notin Relies(c)
                            /\ q[i] \notin ProxyUsers
                            /\ \A c : q[i] # <<"store", c>>
    BY IndependentFits
  <1>. QED
    BY <1>1 DEF Neat, PrecededBy

\* The orders of two lists put together.
LEMMA PrecededByConcat ==
    ASSUME NEW S, NEW p \in Seq(S), NEW r \in Seq(S), NEW A, NEW U, PrecededBy(p, A, U),
           PrecededBy(r, A, U) \/ HasOne(p, A)
    PROVE  PrecededBy(p \o r, A, U)
  <1>. DEFINE l == p \o r
              n == 0
  <1>1. l \in Seq(S) /\ Moved(l, p, r, n) /\ n \in {0, 1} /\ n # 1
    BY ConcatMoved
  <1>. HIDE DEF l, n
  <1>2. PrecededBy(l, A, U)
    BY <1>1, PrecededByMoved
  <1>. QED
    BY <1>2 DEF l

\* What one part has the whole has.
LEMMA HasOneConcat ==
    ASSUME NEW S, NEW p \in Seq(S), NEW r \in Seq(S), NEW A, HasOne(p, A) \/ HasOne(r, A)
    PROVE  HasOne(p \o r, A)
  BY ConcatMoved, HasOneMoved

\* A single statement.
LEMMA HasOneSingle ==
    ASSUME NEW s, NEW A, s \in A
    PROVE  HasOne(<<s>>, A)
  BY DEF HasOne

\* Two neat lists make a neat one.
LEMMA NeatConcat ==
    ASSUME NEW S, NEW p, NEW r, Neat(p, S), Neat(r, S)
    PROVE  Neat(p \o r, S) /\ \A A : (HasOne(p, A) \/ HasOne(r, A)) => HasOne(p \o r, A)
  <1>1. /\ p \in Seq(S) /\ r \in Seq(S) /\ p \o r \in Seq(S)
    BY ConcatMoved DEF Neat
  <1>2. ASSUME NEW A, NEW U, PrecededBy(p, A, U), PrecededBy(r, A, U) PROVE PrecededBy(p \o r, A, U)
    BY <1>1, <1>2, PrecededByConcat
  <1>3. \A A : (HasOne(p, A) \/ HasOne(r, A)) => HasOne(p \o r, A)
    BY <1>1, HasOneConcat
  <1>. QED
    BY <1>1, <1>2, <1>3 DEF Neat

\* Lists grow by one statement.
LEMMA NeatMore ==
    ASSUME NEW S, NEW p, NEW s \in S, Neat(p, S), Fits(p, s)
    PROVE  Neat(p \o <<s>>, S) /\ \A A : (HasOne(p, A) \/ s \in A) => HasOne(p \o <<s>>, A)
  <1>0. <<s>> \in Seq(S) /\ DOMAIN <<s>> = {1} /\ <<s>>[1] = s
    OBVIOUS
  <1>1. /\ p \in Seq(S) /\ p \o <<s>> \in Seq(S)
    BY <1>0, ConcatMoved DEF Neat
  <1>2. ASSUME NEW A, NEW U, PrecededBy(p, A, U), s \in U => HasOne(p, A) PROVE PrecededBy(p \o <<s>>, A, U)
    <2>1. PrecededBy(<<s>>, A, U) \/ HasOne(p, A)
      BY <1>0, <1>2 DEF PrecededBy
    <2>. QED
      BY <1>0, <1>1, <1>2, <2>1, PrecededByConcat
  <1>3. \A c \in Classes : PrecededBy(p \o <<s>>, Gets(c), Relies(c))
    BY <1>2 DEF Neat, Fits
  <1>4. PrecededBy(p \o <<s>>, MakesProxy, ProxyUsers)
    BY <1>2 DEF Neat, Fits
  <1>5. ASSUME NEW c \in Classes, NEW o \in Comprises(c)
        PROVE  PrecededBy(p \o <<s>>, {<<"make", o>>}, {<<"store", c>>})
    <2>1. s \in {<<"store", c>>} => HasOne(p, {<<"make", o>>})
      BY DEF Fits
    <2>. QED
      BY <1>2, <2>1 DEF Neat
  <1>6. \A A : (HasOne(p, A) \/ s \in A) => HasOne(p \o <<s>>, A)
    BY <1>0, <1>1, HasOneConcat, HasOneSingle
  <1>. QED
    BY <1>1, <1>3, <1>4, <1>5, <1>6 DEF Neat

\* Or by several.
One(a) == <<a>>
Two(a, b) == <<a, b>>
Three(a, b, c) == <<a, b, c>>

\* A list of two is two lists of one.
LEMMA Pair ==
    ASSUME NEW a, NEW b
    PROVE  <<a>> \o <<b>> = <<a, b>>
  <1>. DEFINE l == <<a>> \o <<b>>
  <1>0. <<a>> \in Seq({a, b}) /\ <<b>> \in Seq({a, b})
    OBVIOUS
  <1>1. /\ l \in Seq({a, b}) /\ Len(l) = 2
        /\ \A i \in 1..2 : l[i] = IF i <= 1 THEN <<a>>[i] ELSE <<b>>[i - 1]
    BY <1>0, ConcatProperties
  <1>. HIDE DEF l
  <1>2. l[1] = a /\ l[2] = b
    BY <1>1
  <1>3. l = <<a, b>>
    BY <1>1, <1>2
  <1>. QED
    BY <1>3 DEF l

\* Lists are put together in any order.
LEMMA Associative == \A S : \A x, y, z \in Seq(S) : (x \o y) \o z = x \o (y \o z)
  BY ConcatAssociative, Zenon

\* The same for lists of statements.
LEMMA StatementsAssociative ==
    \A x, y, z \in Seq(Statements) : (x \o y) \o z = x \o (y \o z)
  <1>. SUFFICES ASSUME NEW x \in Seq(Statements), NEW y \in Seq(Statements), NEW z \in Seq(Statements)
                PROVE  (x \o y) \o z = x \o (y \o z)
    OBVIOUS
  <1>. QED
    BY ConcatAssociative

\* Two statements are put at the end one by one.
LEMMA TwoStatements ==
    \A S : \A p \in Seq(S) : \A a, b \in S : p \o Two(a, b) = (p \o One(a)) \o One(b)
  <1>. SUFFICES ASSUME NEW S, NEW p \in Seq(S), NEW a \in S, NEW b \in S
                PROVE  p \o Two(a, b) = (p \o One(a)) \o One(b)
    OBVIOUS
  <1>1. One(a) \in Seq(S) /\ One(b) \in Seq(S)
    BY DEF One
  <1>2. Two(a, b) = One(a) \o One(b)
    BY Pair DEF One, Two
  <1>3. (p \o One(a)) \o One(b) = p \o (One(a) \o One(b))
    BY <1>1, Associative
  <1>. QED
    BY <1>2, <1>3

\* And so are three.
LEMMA ThreeStatements ==
    \A S : \A p \in Seq(S) : \A a, b, c \in S : p \o Three(a, b, c) = ((p \o One(a)) \o One(b)) \o One(c)
  <1>. SUFFICES ASSUME NEW S, NEW p \in Seq(S), NEW a \in S, NEW b \in S, NEW c \in S
                PROVE  p \o Three(a, b, c) = ((p \o One(a)) \o One(b)) \o One(c)
    OBVIOUS
  <1>1. <<c>> \in Seq(S) /\ <<a, b>> \in Seq(S)
    OBVIOUS
  <1>2. <<a, b, c>> = <<a, b>> \o <<c>>
    <2>. DEFINE l == <<a, b>> \o <<c>>
    <2>1. /\ l \in Seq(S) /\ Len(l) = 3
          /\ \A i \in 1..3 : l[i] = IF i <= 2 THEN <<a, b>>[i] ELSE <<c>>[i - 2]
      BY <1>1, ConcatProperties
    <2>. HIDE DEF l
    <2>2. l[1] = a /\ l[2] = b /\ l[3] = c
      BY <2>1
    <2>3. l = <<a, b, c>>
      BY <2>1, <2>2
    <2>. QED
      BY <2>3 DEF l
  <1>3. p \o Three(a, b, c) = (p \o Two(a, b)) \o One(c)
    <2>1. (p \o <<a, b>>) \o <<c>> = p \o (<<a, b>> \o <<c>>)
      BY <1>1, Associative
    <2>. QED
      BY <1>2, <2>1 DEF One, Two, Three
  <1>4. p \o Two(a, b) = (p \o One(a)) \o One(b)
    BY TwoStatements
  <1>. QED
    BY <1>3, <1>4

\* A neat list of fewer kinds is one of more.
LEMMA NeatMonotone ==
    ASSUME NEW S, NEW T, S \subseteq T, NEW q, Neat(q, S)
    PROVE  Neat(q, T)
  <1>1. q \in Seq(T)
    BY SeqMonotonic DEF Neat
  <1>. QED
    BY <1>1 DEF Neat

\* Which class a statement relies on.
LEMMA ReliesOn ==
    ASSUME NEW c \in Classes, NEW s \in Relies(c)
    PROVE  /\ s[1] = "config" => c = "ConfigManager"
           /\ s[1] \in {"log", "level", "watch", "atexit"} => c = "Logger"
           /\ s[1] \in {"add", "create", "register", "mkfs", "task", "mv"} => c = "FrameWork"
           /\ s[1] = "use" => s[2] \in Provides(c)
           /\ s[1] # "store" /\ s # <<"use", "m_loader">>
  <1>0. "m_loader" \notin Classes
    BY FrameWorkAssumption
  <1>1. CASE c = "ConfigManager"
    BY <1>0, <1>1 DEF Relies, Named, Provides
  <1>2. CASE c = "Logger"
    BY <1>0, <1>2 DEF Relies, Named, Provides
  <1>3. CASE c = "FrameWork"
    BY <1>0, <1>3 DEF Relies, Named, Provides
  <1>4. CASE c \notin {"ConfigManager", "Logger", "FrameWork"}
    BY <1>0, <1>4 DEF Relies, Named, Provides
  <1>. QED
    BY <1>1, <1>2, <1>3, <1>4

\* What a statement may come after.
LEMMA FitsAfter ==
    ASSUME NEW p
    PROVE  /\ HasOne(p, Gets("ConfigManager")) => \A key : Fits(p, <<"config", key>>)
           /\ HasOne(p, Gets("Logger")) => /\ \A message : Fits(p, <<"log", message>>)
                                           /\ Fits(p, <<"level", "main">>)
                                           /\ Fits(p, <<"watch", "main">>)
                                           /\ Fits(p, <<"atexit", "FrameWork">>)
           /\ HasOne(p, Gets("FrameWork")) => \A lib : Fits(p, <<"add", lib>>) /\ Fits(p, <<"mv", lib>>)
           /\ (HasOne(p, Gets("FrameWork")) /\ HasOne(p, MakesProxy))
                 => Fits(p, <<"register", "main">>) /\ Fits(p, <<"mkfs", "main">>)
           /\ \A c \in {"StorageManager", "MinionProxy", "Master"} :
                 HasOne(p, Gets(c)) => Fits(p, <<"use", c>>)
           /\ \A c \in Classes :
                 (\A o \in Comprises(c) : HasOne(p, {<<"make", o>>})) => Fits(p, <<"store", c>>)
           /\ Fits(p, <<"use", "m_loader">>)
  <1>0. ASSUME NEW s, s[1] # "store" PROVE \A c : s # <<"store", c>>
    BY <1>0
  <1>p. \A s : s \in ProxyUsers => s[1] \in {"register", "mkfs", "task"} \/ s = <<"use", "proxy">>
    BY DEF ProxyUsers, Named
  <1>1. ASSUME HasOne(p, Gets("ConfigManager")), NEW key PROVE Fits(p, <<"config", key>>)
    BY <1>1, <1>p, ReliesOn DEF Fits
  <1>2. ASSUME HasOne(p, Gets("Logger")), NEW s,
               \/ s \in {<<"level", "main">>, <<"watch", "main">>, <<"atexit", "FrameWork">>}
               \/ \E message : s = <<"log", message>>
        PROVE  Fits(p, s)
    <2>1. s[1] \in {"log", "level", "watch", "atexit"}
      BY <1>2
    <2>2. s \notin ProxyUsers
      BY <1>p, <2>1
    <2>3. \A c \in Classes : s \in Relies(c) => c = "Logger"
      BY <2>1, ReliesOn
    <2>. QED
      BY <1>0, <1>2, <2>1, <2>2, <2>3 DEF Fits
  <1>3. ASSUME HasOne(p, Gets("FrameWork")), NEW s, \E lib : s \in {<<"add", lib>>, <<"mv", lib>>}
        PROVE  Fits(p, s)
    <2>1. s[1] \in {"add", "mv"}
      BY <1>3
    <2>2. s \notin ProxyUsers
      BY <1>p, <2>1
    <2>3. \A c \in Classes : s \in Relies(c) => c = "FrameWork"
      BY <2>1, ReliesOn
    <2>. QED
      BY <1>0, <1>3, <2>1, <2>2, <2>3 DEF Fits
  <1>4. ASSUME HasOne(p, Gets("FrameWork")), HasOne(p, MakesProxy), NEW s \in {<<"register", "main">>, <<"mkfs", "main">>}
        PROVE  Fits(p, s)
    <2>1. s[1] \in {"register", "mkfs"}
      OBVIOUS
    <2>2. \A c \in Classes : s \in Relies(c) => c = "FrameWork"
      BY <2>1, ReliesOn
    <2>. QED
      BY <1>0, <1>4, <2>1, <2>2 DEF Fits
  <1>5. ASSUME NEW c \in {"StorageManager", "MinionProxy", "Master"}, HasOne(p, Gets(c)) PROVE Fits(p, <<"use", c>>)
    <2>1. \A d \in Classes : <<"use", c>> \in Relies(d) => c \in Provides(d)
      BY ReliesOn
    <2>2. \A d \in Classes : c \in Provides(d) => d = c
      BY DEF Provides
    <2>3. <<"use", c>> \notin ProxyUsers
      BY <1>p
    <2>. QED
      BY <1>5, <2>1, <2>2, <2>3 DEF Fits
  <1>6. ASSUME NEW c \in Classes, \A o \in Comprises(c) : HasOne(p, {<<"make", o>>}) PROVE Fits(p, <<"store", c>>)
    <2>1. \A d \in Classes : <<"store", c>> \notin Relies(d)
      BY ReliesOn
    <2>2. <<"store", c>> \notin ProxyUsers
      BY <1>p
    <2>3. \A d \in Classes : <<"store", c>> = <<"store", d>> => c = d
      OBVIOUS
    <2>. QED
      BY <1>6, <2>1, <2>2, <2>3 DEF Fits
  <1>7. Fits(p, <<"use", "m_loader">>)
    BY <1>0, <1>p, ReliesOn DEF Fits
  <1>. QED
    BY <1>1, <1>2, <1>3, <1>4, <1>5, <1>6, <1>7

(***************************************************************************)
(* The lists are neat.                                                     *)
(***************************************************************************)

\* What main executes at the end only.
ClosingNames == {"exit", "stopMonitor", "createDir", "joinMonitor", "stopMediator", "drop", "flag",
                 "push", "join"}

\* What main executes when it has slept.
Late == Named({"register", "mkfs", "up", "create", "task"})
        \cup {<<"get", "MinionProxy">>, <<"lock", "MinionProxy">>}

Plain == Statements \ (Late \cup Named(ClosingNames \cup {"sleep", "mv", "throw", "watch"})
                       \cup {<<"use", "m_loader">>})

\* What threads are given in the course of things.
Common ==
    {s \in Statements : /\ s[1] \notin ClosingNames \cup {"sleep", "mv", "up", "mkfs"}
                        /\ s # <<"use", "m_loader">>
                        /\ s[1] = "throw" => "nbd" \in broken}

\* What the monitor's thread is given besides.
Heard == {<<"use", "m_loader">>}

\* The plain statements.
LEMMA PlainStatements ==
    /\ Plain \subseteq Statements /\ Plain \subseteq Common
    /\ \A c \in Classes \ {"MinionProxy"} : <<"get", c>> \in Plain /\ <<"lock", c>> \in Plain
    /\ \A c \in Classes : <<"store", c>> \in Plain /\ <<"atexit", c>> \in Plain
    /\ \A o \in Objects : <<"make", o>> \in Plain /\ (o # "m_loader" => <<"use", o>> \in Plain)
    /\ \A key \in ConfigKeys : <<"config", key>> \in Plain
    /\ \A message \in Messages : <<"log", message>> \in Plain
    /\ \A lib \in Libraries : <<"add", lib>> \in Plain
    /\ <<"thread", "Logger">> \in Plain /\ <<"level", "main">> \in Plain /\ <<"setup", "main">> \in Plain
    /\ <<"served", "main">> \in Plain /\ <<"wait", "main">> \in Plain
  <1>1. Plain \subseteq Statements /\ Plain \subseteq Common
    BY DEF Plain, Common, Late, Named, ClosingNames
  <1>2. ASSUME NEW s \in Statements, s \notin {<<"get", "MinionProxy">>, <<"lock", "MinionProxy">>},
               s[1] \notin {"register", "mkfs", "up", "create", "task", "sleep", "mv", "throw", "watch"},
               s[1] \notin ClosingNames, s # <<"use", "m_loader">>
        PROVE  s \in Plain
    BY <1>2 DEF Plain, Late, Named
  <1>3. \A c \in Classes : /\ <<"get", c>> \in Statements /\ <<"lock", c>> \in Statements
                           /\ <<"store", c>> \in Statements /\ <<"atexit", c>> \in Statements
    BY DEF Statements
  <1>4. /\ \A o \in Objects : <<"make", o>> \in Statements /\ <<"use", o>> \in Statements
        /\ \A key \in ConfigKeys : <<"config", key>> \in Statements
        /\ \A message \in Messages : <<"log", message>> \in Statements
        /\ \A lib \in Libraries : <<"add", lib>> \in Statements
    BY DEF Statements
  <1>5. /\ <<"thread", "Logger">> \in Statements /\ <<"level", "main">> \in Statements
        /\ <<"setup", "main">> \in Statements /\ <<"served", "main">> \in Statements
        /\ <<"wait", "main">> \in Statements
    BY DEF Statements
  <1>6. \A c \in Classes \ {"MinionProxy"} : <<"get", c>> \in Plain /\ <<"lock", c>> \in Plain
    BY <1>2, <1>3 DEF ClosingNames
  <1>7. \A c \in Classes : <<"store", c>> \in Plain /\ <<"atexit", c>> \in Plain
    BY <1>2, <1>3 DEF ClosingNames
  <1>8. /\ \A o \in Objects : <<"make", o>> \in Plain /\ (o # "m_loader" => <<"use", o>> \in Plain)
        /\ \A key \in ConfigKeys : <<"config", key>> \in Plain
        /\ \A message \in Messages : <<"log", message>> \in Plain
        /\ \A lib \in Libraries : <<"add", lib>> \in Plain
    BY <1>2, <1>4 DEF ClosingNames
  <1>9. /\ <<"thread", "Logger">> \in Plain /\ <<"level", "main">> \in Plain /\ <<"setup", "main">> \in Plain
        /\ <<"served", "main">> \in Plain /\ <<"wait", "main">> \in Plain
    BY <1>2, <1>5 DEF ClosingNames
  <1>. QED
    BY <1>1, <1>6, <1>7, <1>8, <1>9

\* The independent ones.
LEMMA IndependentStatements ==
    /\ \A c \in Classes : Independent(<<"get", c>>) /\ Independent(<<"lock", c>>)
    /\ \A c \in Classes \ {"FrameWork"} : Independent(<<"atexit", c>>)
    /\ \A o \in Objects : Independent(<<"make", o>>) /\ Independent(<<"drop", o>>)
    /\ \A s \in {"setup", "wait", "throw", "served", "sleep", "up", "exit", "stopMonitor", "createDir",
                 "joinMonitor", "stopMediator"} : Independent(<<s, "main">>)
    /\ Independent(<<"thread", "Logger">>)
  BY DEF Independent, Statements, Dependent

\* One statement that may stand alone.
LEMMA NeatSingle ==
    ASSUME NEW S, NEW s \in S, Independent(s)
    PROVE  Neat(<<s>>, S)
  <1>1. <<s>> \in Seq(S) /\ DOMAIN <<s>> = {1} /\ <<s>>[1] = s
    OBVIOUS
  <1>. QED
    BY <1>1, IndependentNeat

\* The lists behind GetInstance, GET_CONFIG, LOG and Notify.
LEMMA ShortNeat ==
    /\ \A c \in Classes \ {"MinionProxy"} : Neat(Get(c), Plain) /\ Neat(<<<<"lock", c>>>>, Plain)
    /\ \A c \in Classes : HasOne(Get(c), Gets(c)) /\ HasOne(<<<<"lock", c>>>>, Gets(c))
    /\ \A key \in ConfigKeys : Neat(GET_CONFIG(key), Plain)
    /\ \A message \in Messages : Neat(LOG(message), Plain)
    /\ \A lib \in Libraries : Neat(Notify(lib), Plain)
    /\ \A S : Neat(<<>>, S)
  <1>1. ASSUME NEW c \in Classes \ {"MinionProxy"} PROVE Neat(Get(c), Plain) /\ Neat(<<<<"lock", c>>>>, Plain)
    BY NeatSingle, PlainStatements, IndependentStatements DEF Get
  <1>2. ASSUME NEW c \in Classes PROVE HasOne(Get(c), Gets(c)) /\ HasOne(<<<<"lock", c>>>>, Gets(c))
    BY HasOneSingle DEF Get, Gets
  <1>3. ASSUME NEW key \in ConfigKeys PROVE Neat(GET_CONFIG(key), Plain)
    <2>1. Neat(Get("ConfigManager"), Plain) /\ HasOne(Get("ConfigManager"), Gets("ConfigManager"))
      BY <1>1, <1>2, NamesInLists
    <2>2. Fits(Get("ConfigManager"), <<"config", key>>)
      BY <2>1, FitsAfter
    <2>. QED
      BY <2>1, <2>2, NeatMore, PlainStatements DEF GET_CONFIG
  <1>4. ASSUME NEW message \in Messages PROVE Neat(LOG(message), Plain)
    <2>1. Neat(Get("Logger"), Plain) /\ HasOne(Get("Logger"), Gets("Logger"))
      BY <1>1, <1>2, NamesInLists
    <2>2. Fits(Get("Logger"), <<"log", message>>)
      BY <2>1, FitsAfter
    <2>. QED
      BY <2>1, <2>2, NeatMore, PlainStatements DEF LOG
  <1>5. ASSUME NEW lib \in Libraries PROVE Neat(Notify(lib), Plain)
    <2>1. Neat(Get("FrameWork"), Plain) /\ HasOne(Get("FrameWork"), Gets("FrameWork"))
      BY <1>1, <1>2, NamesInLists
    <2>2. Fits(Get("FrameWork"), <<"add", lib>>)
      BY <2>1, FitsAfter
    <2>3. Neat(Register(lib), Plain)
      BY <2>1, <2>2, NeatMore, PlainStatements DEF Register
    <2>4. Neat(LOG("dlopen fail"), Plain)
      BY <1>4, NamesInLists
    <2>. QED
      BY <2>3, <2>4 DEF Notify
  <1>6. \A S : Neat(<<>>, S)
    BY NoList DEF Neat, PrecededBy
  <1>. QED
    BY <1>1, <1>2, <1>3, <1>4, <1>5, <1>6

\* What the monitor's thread executes for a library.
LEMMA BroadcastNeat == \A lib \in Libraries : Neat(Broadcast(lib), Plain \cup Heard)
  <1>. DEFINE S == Plain \cup Heard
              u == <<"use", "m_loader">>
  <1>. SUFFICES ASSUME NEW lib \in Libraries PROVE Neat(Broadcast(lib), S)
    OBVIOUS
  <1>1. u \in S /\ Plain \subseteq S
    BY DEF Heard
  <1>. HIDE DEF S
  <1>2. Neat(<<u>>, S)
    <2>1. <<u>> \in Seq(S) /\ <<>> \in Seq(S) /\ <<>> \o <<u>> = <<u>>
      BY <1>1
    <2>2. Neat(<<>>, S) /\ Fits(<<>>, u)
      BY ShortNeat, FitsAfter
    <2>3. Neat(<<>> \o <<u>>, S)
      BY <1>1, <2>2, NeatMore
    <2>. QED
      BY <2>1, <2>3
  <1>3. Neat(Notify(lib), S)
    BY <1>1, ShortNeat, NeatMonotone
  <1>4. Neat(<<u>> \o Notify(lib), S)
    BY <1>2, <1>3, NeatConcat
  <1>5. Neat((<<u>> \o Notify(lib)) \o <<u>>, S)
    BY <1>1, <1>4, FitsAfter, NeatMore
  <1>. QED
    BY <1>5 DEF Broadcast

\* Constructors that make what their class provides.
LEMMA BuildNeat ==
    ASSUME NEW S, Plain \subseteq S, NEW c \in Classes, Neat(Ctor(c), S),
           \A o \in Comprises(c) : HasOne(Ctor(c), {<<"make", o>>}),
           c = "FrameWork" => HasOne(Ctor(c), Gets("Logger"))
    PROVE  Neat(Build(c, Ctor(c)), S) /\ HasOne(Build(c, Ctor(c)), Gets(c))
  <1>. DEFINE p == Ctor(c)
              p1 == p \o <<<<"store", c>>>>
              p2 == p1 \o <<<<"atexit", c>>>>
  <1>0. <<"store", c>> \in S /\ <<"atexit", c>> \in S /\ p \in Seq(S)
    BY PlainStatements DEF Neat
  <1>1. Neat(p1, S) /\ \A A : (HasOne(p, A) \/ <<"store", c>> \in A) => HasOne(p1, A)
    <2>1. Fits(p, <<"store", c>>)
      BY FitsAfter
    <2>. HIDE DEF p
    <2>. QED
      BY <1>0, <2>1, NeatMore DEF p
  <1>2. Fits(p1, <<"atexit", c>>)
    <2>1. CASE c = "FrameWork"
      BY <1>1, <2>1, FitsAfter
    <2>2. CASE c # "FrameWork"
      BY <2>2, IndependentStatements, IndependentFits
    <2>. QED
      BY <2>1, <2>2
  <1>3. Build(c, Ctor(c)) = p2
    <2>. DEFINE a == <<"store", c>>
                b == <<"atexit", c>>
    <2>1. Build(c, Ctor(c)) = p \o Two(a, b) /\ p2 = (p \o One(a)) \o One(b)
      BY DEF Build, One, Two
    <2>a. a \in S /\ b \in S /\ p \in Seq(S)
      BY <1>0
    <2>. HIDE DEF a, b, p, p2
    <2>2. p \o Two(a, b) = (p \o One(a)) \o One(b)
      BY <2>a, TwoStatements
    <2>. QED
      BY <2>1, <2>2
  <1>. HIDE DEF p, p1
  <1>4. Neat(p2, S) /\ \A A : (HasOne(p1, A) \/ <<"atexit", c>> \in A) => HasOne(p2, A)
    BY <1>0, <1>1, <1>2, NeatMore
  <1>5. HasOne(p1, Gets(c))
    BY <1>1 DEF Gets
  <1>. QED
    BY <1>3, <1>4, <1>5

\* The constructors that only read the configuration or log.
LEMMA SimpleBuildNeat ==
    ASSUME NEW c \in {"ConfigManager", "StorageManager", "Master", "Logger"}
    PROVE  Neat(Build(c, Ctor(c)), Plain) /\ HasOne(Build(c, Ctor(c)), Gets(c))
  <1>0. /\ c \in Classes /\ c \in Objects /\ Comprises(c) = {c} /\ c # "FrameWork"
        /\ <<"make", c>> \in Plain /\ Independent(<<"make", c>>)
    <2>1. c \in Classes /\ c \in Objects
      BY NamesInLists
    <2>. QED
      BY <2>1, PlainStatements, IndependentStatements DEF Comprises, Provides
  <1>1. Neat(Ctor(c), Plain) /\ HasOne(Ctor(c), {<<"make", c>>})
    <2>1. CASE c \in {"ConfigManager", "StorageManager"}
      <3>1. Ctor(c) = <<<<"make", c>>>>
        BY <2>1 DEF Ctor
      <3>. QED
        BY <1>0, <3>1, NeatSingle, HasOneSingle
    <2>2. CASE c = "Master"
      <3>1. Ctor(c) = GET_CONFIG("NUM_OF_MINIONS") \o <<<<"make", c>>>>
        BY <2>2 DEF Ctor, MasterCtor
      <3>2. Neat(GET_CONFIG("NUM_OF_MINIONS"), Plain)
        BY ShortNeat, NamesInLists
      <3>. DEFINE p == GET_CONFIG("NUM_OF_MINIONS")
                  s == <<"make", c>>
      <3>3. Fits(p, s) /\ s \in Plain
        BY <1>0, IndependentFits
      <3>. HIDE DEF p, s
      <3>4. Neat(p \o <<s>>, Plain) /\ HasOne(p \o <<s>>, {s})
        BY <3>2, <3>3, NeatMore DEF p
      <3>. QED
        BY <3>1, <3>4 DEF p, s
    <2>3. CASE c = "Logger"
      <3>. DEFINE p == GET_CONFIG("LOG_PATH")
                  p1 == p \o <<<<"thread", "Logger">>>>
      <3>1. Neat(p, Plain) /\ p \in Seq(Plain) /\ <<"thread", "Logger">> \in Plain
        BY ShortNeat, NamesInLists, PlainStatements DEF Neat
      <3>2. Ctor(c) = p1 \o <<<<"make", c>>>>
        <4>. DEFINE a == <<"thread", "Logger">>
                    b == <<"make", c>>
        <4>1. Ctor(c) = p \o Two(a, b) /\ p1 \o <<<<"make", c>>>> = (p \o One(a)) \o One(b)
          BY <2>3, LoggerLists DEF One, Two
        <4>2. a \in Plain /\ b \in Plain
          BY <1>0, <3>1
        <4>. HIDE DEF a, b, p
        <4>3. p \o Two(a, b) = (p \o One(a)) \o One(b)
          BY <3>1, <4>2, TwoStatements
        <4>. QED
          BY <4>1, <4>3
      <3>. HIDE DEF p
      <3>3. Neat(p1, Plain)
        BY <3>1, NeatMore, IndependentStatements, IndependentFits
      <3>. DEFINE s == <<"make", c>>
      <3>4. Fits(p1, s) /\ s \in Plain
        BY <1>0, IndependentFits
      <3>. HIDE DEF p1, s
      <3>5. Neat(p1 \o <<s>>, Plain) /\ HasOne(p1 \o <<s>>, {s})
        BY <3>3, <3>4, NeatMore
      <3>. QED
        BY <3>2, <3>5 DEF s
    <2>. QED
      BY <2>1, <2>2, <2>3
  <1>. QED
    BY <1>0, <1>1, BuildNeat

\* FrameWork: the logger comes first, the monitor is started before the
\* instance is stored.
LEMMA FrameWorkNeat ==
    LET q == Build("FrameWork", Ctor("FrameWork"))
    IN  /\ Neat(q, Plain \cup {<<"watch", "main">>}) /\ HasOne(q, Gets("FrameWork"))
        /\ Followed(q, <<"watch", "main">>, <<"store", "FrameWork">>)
  <1>. DEFINE S == Plain \cup {<<"watch", "main">>}
              p1 == Get("Logger") \o <<<<"make", "m_factory">>>>
              p2 == p1 \o GET_CONFIG("POLICY")
              p3 == p2 \o <<<<"make", "m_mediator">>>>
              p4 == p3 \o GET_CONFIG("PLUG_PATH")
              p5 == p4 \o <<<<"watch", "main">>>>
              p6 == p5 \o <<<<"make", "m_loader">>>>
              q == Build("FrameWork", Ctor("FrameWork"))
  <1>0. /\ Plain \subseteq S /\ <<"watch", "main">> \in S
        /\ <<"make", "m_factory">> \in S /\ <<"make", "m_mediator">> \in S
        /\ <<"make", "m_loader">> \in S
        /\ Independent(<<"make", "m_factory">>) /\ Independent(<<"make", "m_mediator">>)
        /\ Independent(<<"make", "m_loader">>)
    BY NamesInLists, PlainStatements, IndependentStatements
  <1>1. /\ Neat(Get("Logger"), S) /\ HasOne(Get("Logger"), Gets("Logger"))
        /\ Neat(GET_CONFIG("POLICY"), S) /\ Neat(GET_CONFIG("PLUG_PATH"), S)
    BY <1>0, ShortNeat, NeatMonotone, NamesInLists
  <1>a. Ctor("FrameWork") = p4 \o Two(<<"watch", "main">>, <<"make", "m_loader">>)
    BY DEF Ctor, FrameWorkCtor, Two
  <1>b. p6 = (p4 \o One(<<"watch", "main">>)) \o One(<<"make", "m_loader">>)
    BY DEF One
  <1>. HIDE DEF S, p1, p2, p3, p4, p5, p6, q
  <1>2. Neat(p1, S) /\ HasOne(p1, Gets("Logger")) /\ HasOne(p1, {<<"make", "m_factory">>})
    BY <1>0, <1>1, NeatMore, IndependentFits DEF p1
  <1>3. Neat(p2, S) /\ HasOne(p2, Gets("Logger")) /\ HasOne(p2, {<<"make", "m_factory">>})
    BY <1>1, <1>2, NeatConcat DEF p2
  <1>4. /\ Neat(p3, S) /\ HasOne(p3, Gets("Logger"))
        /\ HasOne(p3, {<<"make", "m_factory">>}) /\ HasOne(p3, {<<"make", "m_mediator">>})
    BY <1>0, <1>3, NeatMore, IndependentFits DEF p3
  <1>5. /\ Neat(p4, S) /\ HasOne(p4, Gets("Logger"))
        /\ HasOne(p4, {<<"make", "m_factory">>}) /\ HasOne(p4, {<<"make", "m_mediator">>})
    BY <1>1, <1>4, NeatConcat DEF p4
  <1>6. /\ Neat(p5, S) /\ HasOne(p5, Gets("Logger"))
        /\ HasOne(p5, {<<"make", "m_factory">>}) /\ HasOne(p5, {<<"make", "m_mediator">>})
    <2>1. Fits(p4, <<"watch", "main">>)
      BY <1>5, FitsAfter
    <2>. QED
      BY <1>0, <1>5, <2>1, NeatMore DEF p5
  <1>c. /\ Neat(p6, S) /\ HasOne(p6, Gets("Logger"))
        /\ HasOne(p6, {<<"make", "m_factory">>}) /\ HasOne(p6, {<<"make", "m_mediator">>})
        /\ HasOne(p6, {<<"make", "m_loader">>})
    BY <1>0, <1>6, NeatMore, IndependentFits DEF p6
  <1>d. Ctor("FrameWork") = p6
    <2>. DEFINE a == <<"watch", "main">>
                b == <<"make", "m_loader">>
    <2>1. p4 \in Seq(S) /\ a \in S /\ b \in S
      BY <1>0, <1>5 DEF Neat
    <2>2. Ctor("FrameWork") = p4 \o Two(a, b) /\ p6 = (p4 \o One(a)) \o One(b)
      BY <1>a, <1>b
    <2>. HIDE DEF a, b
    <2>3. p4 \o Two(a, b) = (p4 \o One(a)) \o One(b)
      BY <2>1, TwoStatements
    <2>. QED
      BY <2>2, <2>3
  <1>7. Neat(q, S) /\ HasOne(q, Gets("FrameWork"))
    <2>1. "FrameWork" \in Classes /\ Comprises("FrameWork") = {"m_factory", "m_mediator", "m_loader"}
      BY NamesInLists DEF Comprises, Provides
    <2>. QED
      BY <1>0, <1>c, <1>d, <2>1, BuildNeat DEF q
  <1>8. Followed(q, <<"watch", "main">>, <<"store", "FrameWork">>)
    <2>. DEFINE r == <<<<"store", "FrameWork">>, <<"atexit", "FrameWork">>>>
    <2>1. q = p6 \o r /\ p6 \in Seq(Statements)
      BY <1>d, OrdinaryLists, LoggerLists, NamesInLists DEF q, Build
    <2>2. r \in Seq(Statements) /\ Len(r) = 2 /\ r[1] = <<"store", "FrameWork">> /\ r[2] = <<"atexit", "FrameWork">>
      <3>1. <<"store", "FrameWork">> \in Statements /\ <<"atexit", "FrameWork">> \in Statements
        BY NamesInLists DEF Statements
      <3>. QED
        BY <3>1
    <2>. HIDE DEF r
    <2>3. /\ Len(p6) \in Nat /\ DOMAIN p6 = 1..Len(p6) /\ DOMAIN q = 1..(Len(p6) + 2)
          /\ \A i \in DOMAIN p6 : q[i] = p6[i]
          /\ q[Len(p6) + 1] = <<"store", "FrameWork">> /\ q[Len(p6) + 2] = <<"atexit", "FrameWork">>
      BY <2>1, <2>2, TwoMore
    <2>4. ASSUME NEW i \in DOMAIN q, q[i] = <<"watch", "main">>
          PROVE  \E j \in DOMAIN q : i < j /\ q[j] = <<"store", "FrameWork">>
      <3>1. i # Len(p6) + 1 /\ i # Len(p6) + 2
        BY <2>3, <2>4
      <3>2. Len(p6) + 1 \in DOMAIN q /\ i < Len(p6) + 1
        BY <2>3, <3>1
      <3>. QED
        BY <2>3, <3>2
    <2>. QED
      BY <2>4 DEF Followed
  <1>. QED
    BY <1>7, <1>8 DEF S, q

\* MinionProxy: the proxy is made before it is registered.
LEMMA MinionProxyNeat ==
    LET q == Build("MinionProxy", Ctor("MinionProxy"))
    IN  Neat(q, Plain \cup {<<"register", "main">>}) /\ HasOne(q, Gets("MinionProxy"))
  <1>. DEFINE S == Plain \cup {<<"register", "main">>}
              p1 == GET_CONFIG("PORT_NUM") \o <<<<"make", "proxy">>>>
              p2 == p1 \o Get("FrameWork")
              p3 == p2 \o <<<<"register", "main">>>>
              p4 == p3 \o <<<<"make", "MinionProxy">>>>
              q == Build("MinionProxy", Ctor("MinionProxy"))
  <1>0. /\ Plain \subseteq S /\ <<"register", "main">> \in S
        /\ <<"make", "proxy">> \in S /\ <<"make", "MinionProxy">> \in S
        /\ Independent(<<"make", "proxy">>) /\ Independent(<<"make", "MinionProxy">>)
    BY NamesInLists, PlainStatements, IndependentStatements
  <1>1. /\ Neat(Get("FrameWork"), S) /\ HasOne(Get("FrameWork"), Gets("FrameWork"))
        /\ Neat(GET_CONFIG("PORT_NUM"), S)
    BY <1>0, ShortNeat, NeatMonotone, NamesInLists
  <1>. HIDE DEF S
  <1>2. Neat(p1, S) /\ HasOne(p1, MakesProxy)
    BY <1>0, <1>1, NeatMore, IndependentFits DEF MakesProxy
  <1>. HIDE DEF p1
  <1>3. Neat(p2, S) /\ HasOne(p2, MakesProxy) /\ HasOne(p2, Gets("FrameWork"))
    BY <1>1, <1>2, NeatConcat
  <1>a. Ctor("MinionProxy") = p4
    <2>1. Ctor("MinionProxy") = p2 \o <<<<"register", "main">>, <<"make", "MinionProxy">>>>
      BY DEF Ctor, MinionProxyCtor, p1
    <2>2. p2 \in Seq(S)
      BY <1>3 DEF Neat
    <2>. HIDE DEF p2
    <2>. DEFINE a == <<"register", "main">>
                b == <<"make", "MinionProxy">>
    <2>3. a \in S /\ b \in S
      BY <1>0
    <2>4. Ctor("MinionProxy") = p2 \o Two(a, b) /\ p4 = (p2 \o One(a)) \o One(b)
      BY <2>1 DEF One, Two
    <2>. HIDE DEF a, b, p4
    <2>5. p2 \o Two(a, b) = (p2 \o One(a)) \o One(b)
      BY <2>2, <2>3, TwoStatements
    <2>. QED
      BY <2>4, <2>5
  <1>. HIDE DEF p2
  <1>4. Neat(p3, S)
    BY <1>0, <1>3, NeatMore, FitsAfter
  <1>. HIDE DEF p3
  <1>5. Neat(p4, S) /\ HasOne(p4, {<<"make", "MinionProxy">>})
    BY <1>0, <1>4, NeatMore, IndependentFits
  <1>. HIDE DEF p4
  <1>6. Neat(q, S) /\ HasOne(q, Gets("MinionProxy"))
    <2>1. "MinionProxy" \in Classes /\ Comprises("MinionProxy") = {"MinionProxy"} /\ "MinionProxy" # "FrameWork"
      BY NamesInLists DEF Comprises, Provides
    <2>. QED
      BY <1>0, <1>5, <1>a, <2>1, BuildNeat
  <1>. QED
    BY <1>6 DEF S

\* What a command's run asks for.
LEMMA CommandNeat == Neat(CommandRun, Plain \cup {<<"get", "MinionProxy">>})
  <1>. DEFINE S == Plain \cup {<<"get", "MinionProxy">>}
              p1 == Get("StorageManager") \o <<<<"use", "StorageManager">>>>
              p2 == p1 \o Get("MinionProxy")
              p3 == p2 \o <<<<"use", "MinionProxy">>>>
              p4 == Get("Master") \o CommunicateMinion
              p5 == p4 \o <<<<"use", "Master">>>>
  <1>0. /\ Plain \subseteq S /\ <<"get", "MinionProxy">> \in S /\ <<"use", "StorageManager">> \in S
        /\ <<"use", "MinionProxy">> \in S /\ <<"use", "Master">> \in S
        /\ <<"wait", "main">> \in S
        /\ Independent(<<"get", "MinionProxy">>) /\ Independent(<<"wait", "main">>)
    BY NamesInLists, PlainStatements, IndependentStatements
  <1>1. /\ Neat(Get("StorageManager"), S) /\ HasOne(Get("StorageManager"), Gets("StorageManager"))
        /\ Neat(Get("Master"), S) /\ HasOne(Get("Master"), Gets("Master"))
        /\ HasOne(Get("MinionProxy"), Gets("MinionProxy"))
    BY <1>0, ShortNeat, NeatMonotone, NamesInLists
  <1>c. CommandRun \in {p3, p5}
    BY DEF CommandRun
  <1>. HIDE DEF S
  <1>2. Neat(Get("MinionProxy"), S)
    BY <1>0, NeatSingle DEF Get
  <1>3. Neat(p1, S)
    BY <1>0, <1>1, NeatMore, FitsAfter
  <1>. HIDE DEF p1
  <1>4. Neat(p2, S) /\ HasOne(p2, Gets("MinionProxy"))
    BY <1>1, <1>2, <1>3, NeatConcat
  <1>. HIDE DEF p2
  <1>5. Neat(p3, S)
    BY <1>0, <1>4, NeatMore, FitsAfter
  <1>6. Neat(CommunicateMinion, S)
    BY <1>0, ShortNeat, NeatSingle DEF CommunicateMinion
  <1>7. Neat(p4, S) /\ HasOne(p4, Gets("Master"))
    BY <1>1, <1>6, NeatConcat
  <1>. HIDE DEF p4
  <1>8. Neat(p5, S)
    BY <1>0, <1>7, NeatMore, FitsAfter
  <1>. QED
    BY <1>c, <1>5, <1>8 DEF S

\* The NBD set-up that fails.
LEMMA FailedSetupNeat ==
    Neat(LOG("nbd open failed") \o <<<<"throw", "main">>>>, Plain \cup {<<"throw", "main">>})
  <1>. DEFINE S == Plain \cup {<<"throw", "main">>}
              p == LOG("nbd open failed")
              s == <<"throw", "main">>
  <1>1. Plain \subseteq S /\ s \in S /\ Neat(p, Plain) /\ Independent(s)
    BY ShortNeat, NamesInLists, IndependentStatements
  <1>. HIDE DEF S, p, s
  <1>2. Neat(p, S) /\ Fits(p, s)
    BY <1>1, NeatMonotone, IndependentFits
  <1>3. Neat(p \o <<s>>, S)
    BY <1>1, <1>2, NeatMore
  <1>. QED
    BY <1>3 DEF S, p, s

\* main, up to the sleep and after it.
Before == Plain \cup Named({"mv"})
After == Plain \cup Late

\* What main does before it sleeps: FrameWork, and a mv for each library.
LEMMA InstallNeat ==
    LET p == Get("FrameWork") \o InstallLibraries
    IN  /\ Neat(p, Before)
        /\ \A lib \in Libraries : HasOne(p, {<<"mv", lib>>})
  <1>. DEFINE g == GET_CONFIG("PLUG_PATH")
              a == <<"mv", "libreadcmd">>
              b == <<"mv", "libwritecmd">>
              f == Get("FrameWork")
              p0 == f \o g
              p1 == p0 \o One(a)
              p2 == p1 \o One(b)
              p == f \o InstallLibraries
  <1>0. a \in Before /\ b \in Before /\ Plain \subseteq Before
    <2>1. <<"mv", "libreadcmd">> \in Statements /\ <<"mv", "libwritecmd">> \in Statements
      BY NamesInLists DEF Statements
    <2>. QED
      BY <2>1 DEF Before, Named
  <1>1. /\ Neat(g, Before) /\ Neat(f, Before) /\ g \in Seq(Before) /\ f \in Seq(Before)
        /\ HasOne(f, Gets("FrameWork"))
    <2>1. Neat(g, Plain) /\ Neat(f, Plain) /\ HasOne(f, Gets("FrameWork"))
      BY ShortNeat, NamesInLists
    <2>. HIDE DEF g, f
    <2>2. Neat(g, Before) /\ Neat(f, Before)
      BY <1>0, <2>1, NeatMonotone
    <2>. QED
      BY <2>1, <2>2 DEF Neat
  <1>l. Libraries = {"libreadcmd", "libwritecmd"}
    BY DEF Libraries
  <1>2. InstallLibraries = g \o Two(a, b) /\ Two(a, b) \in Seq(Before)
    BY <1>0 DEF InstallLibraries, Two
  <1>f. ASSUME NEW q, HasOne(q, Gets("FrameWork")) PROVE Fits(q, a) /\ Fits(q, b)
    BY <1>f, FitsAfter
  <1>. HIDE DEF g, a, b, f
  <1>3. Neat(p0, Before) /\ HasOne(p0, Gets("FrameWork")) /\ p0 \in Seq(Before)
    <2>1. Neat(p0, Before) /\ HasOne(p0, Gets("FrameWork"))
      BY <1>1, NeatConcat
    <2>. QED
      BY <2>1 DEF Neat
  <1>4. p = p2
    <2>1. p = p0 \o Two(a, b)
      <3>. DEFINE z == Two(a, b)
      <3>1. z \in Seq(Before) /\ InstallLibraries = g \o z
        BY <1>2
      <3>. HIDE DEF z
      <3>2. (f \o g) \o z = f \o (g \o z)
        BY <1>1, <3>1, ConcatAssociative
      <3>. QED
        BY <3>1, <3>2 DEF z
    <2>. HIDE DEF p0, p
    <2>. QED
      BY <1>0, <1>3, <2>1, TwoStatements
  <1>. HIDE DEF p0, p
  <1>5. Neat(p1, Before) /\ HasOne(p1, {a}) /\ HasOne(p1, Gets("FrameWork"))
    BY <1>0, <1>3, <1>f, NeatMore DEF One
  <1>. HIDE DEF p1
  <1>6. Neat(p2, Before) /\ HasOne(p2, {a}) /\ HasOne(p2, {b})
    BY <1>0, <1>5, <1>f, NeatMore DEF One
  <1>. QED
    BY <1>l, <1>4, <1>6 DEF p, a, b, f

\* Three statements put at the end of a list are put there one by one.
LEMMA AfterThree ==
    \A q \in Seq(After) : \A a, b, c \in After :
       q \o Three(a, b, c) = ((q \o One(a)) \o One(b)) \o One(c)
  <1>. DEFINE OneByOne(S) == \A q \in Seq(S) : \A a, b, c \in S :
                                q \o Three(a, b, c) = ((q \o One(a)) \o One(b)) \o One(c)
  <1>1. \A S : OneByOne(S)
    BY ThreeStatements
  <1>. HIDE DEF OneByOne
  <1>2. OneByOne(After)
    BY <1>1
  <1>. QED
    BY <1>2 DEF OneByOne

\* What main does when it has slept: the proxy, its registration, mkfs, mount.
LEMMA InitConnectionNeat == Neat(InitConnection, After)
  <1>. DEFINE l1 == <<"level", "main">>
              l2 == <<"make", "proxy">>
              r1 == <<"register", "main">>
              r2 == <<"mkfs", "main">>
              r3 == <<"served", "main">>
              s == <<"setup", "main">>
  <1>0. /\ l1 \in After /\ l2 \in After /\ r1 \in After /\ r2 \in After /\ r3 \in After /\ s \in After
        /\ Plain \subseteq After
        /\ Independent(l2) /\ Independent(r3) /\ Independent(s)
        /\ l2 \in MakesProxy
    <2>1. <<"register", "main">> \in Late /\ <<"mkfs", "main">> \in Late
      BY DEF Statements, Late, Named
    <2>2. /\ <<"make", "proxy">> \in Plain /\ <<"level", "main">> \in Plain
          /\ <<"served", "main">> \in Plain /\ <<"setup", "main">> \in Plain
      BY PlainStatements, NamesInLists
    <2>3. Independent(l2) /\ Independent(r3) /\ Independent(s)
      BY IndependentStatements, NamesInLists
    <2>. QED
      BY <2>1, <2>2, <2>3 DEF After, MakesProxy
  <1>1. /\ \A key \in ConfigKeys : Neat(GET_CONFIG(key), After)
        /\ \A message \in Messages : Neat(LOG(message), After)
        /\ Neat(Get("Logger"), After) /\ Neat(Get("FrameWork"), After)
        /\ HasOne(Get("Logger"), Gets("Logger")) /\ HasOne(Get("FrameWork"), Gets("FrameWork"))
    BY <1>0, ShortNeat, NeatMonotone, NamesInLists
  <1>2. Neat(NbdProxyCtor, After) /\ HasOne(NbdProxyCtor, MakesProxy)
    <2>. DEFINE p1 == One(s) \o Get("Logger")
                p2 == p1 \o One(l1)
                p3 == p2 \o One(l2)
    <2>1. NbdProxyCtor = p1 \o Two(l1, l2)
      BY DEF NbdProxyCtor, One, Two
    <2>2. Fits(p1, l1) \/ ~HasOne(p1, Gets("Logger"))
      BY FitsAfter
    <2>. HIDE DEF l1, l2, s
    <2>3. Neat(One(s), After)
      BY <1>0, NeatSingle DEF One
    <2>4. Neat(p1, After) /\ HasOne(p1, Gets("Logger")) /\ p1 \in Seq(After)
      <3>1. Neat(p1, After) /\ HasOne(p1, Gets("Logger"))
        BY <1>1, <2>3, NeatConcat
      <3>. QED
        BY <3>1 DEF Neat
    <2>. HIDE DEF p1
    <2>5. NbdProxyCtor = p3
      BY <1>0, <2>1, <2>4, TwoStatements
    <2>6. Neat(p2, After)
      BY <1>0, <2>2, <2>4, NeatMore DEF One
    <2>. HIDE DEF p2
    <2>7. Neat(p3, After) /\ HasOne(p3, MakesProxy)
      BY <1>0, <2>6, NeatMore, IndependentFits DEF One
    <2>. QED
      BY <2>5, <2>7
  <1>. DEFINE p1 == GET_CONFIG("BLOCK_SIZE") \o NbdProxyCtor
              p2 == p1 \o Get("FrameWork")
              p3 == p2 \o One(r1)
              p4 == p3 \o One(r2)
              p5 == p4 \o One(r3)
              p6 == p5 \o GET_CONFIG("DIR_PATH")
              p7 == p6 \o LOG("after mount")
              m == p2 \o Three(r1, r2, r3)
  <1>3. InitConnection = (m \o GET_CONFIG("DIR_PATH")) \o LOG("after mount")
    BY DEF InitConnection, Three
  <1>4. Neat(p1, After) /\ HasOne(p1, MakesProxy)
    BY <1>1, <1>2, NeatConcat, NamesInLists
  <1>. HIDE DEF p1
  <1>5. Neat(p2, After) /\ HasOne(p2, MakesProxy) /\ HasOne(p2, Gets("FrameWork"))
    BY <1>1, <1>4, NeatConcat
  <1>6. p2 \in Seq(After)
    BY <1>5 DEF Neat
  <1>. HIDE DEF p2
  <1>7. Fits(p2, r1) /\ \A q : (HasOne(q, Gets("FrameWork")) /\ HasOne(q, MakesProxy)) => Fits(q, r2)
    BY <1>5, FitsAfter
  <1>. HIDE DEF r1, r2, r3
  <1>8. m = p5
    <2>1. r1 \in After /\ r2 \in After /\ r3 \in After
      BY <1>0
    <2>2. \A q \in Seq(After) : \A a, b, c \in After :
             q \o Three(a, b, c) = ((q \o One(a)) \o One(b)) \o One(c)
      BY AfterThree
    <2>. QED
      BY <1>6, <2>1, <2>2
  <1>9. Neat(p3, After) /\ HasOne(p3, MakesProxy) /\ HasOne(p3, Gets("FrameWork"))
    BY <1>0, <1>5, <1>7, NeatMore DEF One
  <1>. HIDE DEF p3
  <1>10. Neat(p4, After)
    BY <1>0, <1>7, <1>9, NeatMore DEF One
  <1>. HIDE DEF p4
  <1>11. Neat(p5, After)
    BY <1>0, <1>10, NeatMore, IndependentFits DEF One
  <1>. HIDE DEF p5
  <1>12. Neat(p6, After)
    BY <1>1, <1>11, NeatConcat, NamesInLists
  <1>. HIDE DEF p6
  <1>13. Neat(p7, After)
    BY <1>1, <1>12, NeatConcat, NamesInLists
  <1>14. InitConnection = p7
    BY <1>3, <1>8 DEF p6
  <1>. QED
    BY <1>13, <1>14

(***************************************************************************)
(* main's list: libraries are moved before main sleeps, and what serves    *)
(* requests comes after that.                                              *)
(***************************************************************************)

Ordered(list) ==
    /\ Sorted(list, Named({"mv"}), {<<"sleep", "main">>})
    /\ Sorted(list, {<<"sleep", "main">>}, Late)

\* Two sorted lists, one after the other.
LEMMA SortedConcat ==
    ASSUME NEW S, NEW p \in Seq(S), NEW r \in Seq(S), NEW E, NEW L, Sorted(p, E, L), Sorted(r, E, L),
           ~HasOne(p, L) \/ ~HasOne(r, E)
    PROVE  Sorted(p \o r, E, L)
  <1>. DEFINE l == p \o r
              n == 0
  <1>1. l \in Seq(S) /\ Moved(l, p, r, n) /\ n \in {0, 1}
    BY ConcatMoved
  <1>. HIDE DEF l, n
  <1>2. Sorted(l, E, L)
    BY <1>1, SortedMoved
  <1>. QED
    BY <1>2 DEF l

\* Lists without the one kind or without the other are sorted.
LEMMA SortedWithout ==
    ASSUME NEW list, NEW E, NEW L, ~HasOne(list, E) \/ ~HasOne(list, L)
    PROVE  Sorted(list, E, L)
  BY DEF Sorted, HasOne

\* The two halves of main have neither the sleep nor each other's statements.
LEMMA BeforeAfter ==
    /\ Before \subseteq Statements /\ After \subseteq Statements
    /\ \A q \in Seq(Before) : ~HasOne(q, {<<"sleep", "main">>}) /\ ~HasOne(q, Late)
    /\ \A q \in Seq(After) : ~HasOne(q, {<<"sleep", "main">>}) /\ ~HasOne(q, Named({"mv"}))
    /\ <<"sleep", "main">> \notin Late /\ <<"sleep", "main">> \notin Named({"mv"})
  <1>1. Before \subseteq Statements /\ After \subseteq Statements
    <2>1. <<"get", "MinionProxy">> \in Statements /\ <<"lock", "MinionProxy">> \in Statements
      BY NamesInLists DEF Statements
    <2>. QED
      BY <2>1, PlainStatements DEF Before, After, Named, Late
  <1>2. <<"sleep", "main">> \notin Late /\ <<"sleep", "main">> \notin Named({"mv"})
    BY DEF Late, Named
  <1>3. /\ \A s \in Plain : s \notin Late /\ s # <<"sleep", "main">> /\ s \notin Named({"mv"})
        /\ \A s \in Late : s \notin Named({"mv"})
    BY DEF Plain, Named, Late
  <1>4. \A s \in Before : s \notin Late /\ s # <<"sleep", "main">>
    BY <1>2, <1>3 DEF Before
  <1>5. \A s \in After : s \notin Named({"mv"}) /\ s # <<"sleep", "main">>
    BY <1>2, <1>3 DEF After
  <1>. QED
    BY <1>1, <1>2, <1>4, <1>5 DEF HasOne

\* The second half may be put behind an ordered list.
LEMMA OrderedMore ==
    ASSUME NEW p \in Seq(Statements), Ordered(p), NEW r \in Seq(After)
    PROVE  p \o r \in Seq(Statements) /\ Ordered(p \o r)
  <1>1. r \in Seq(Statements)
    BY BeforeAfter, SeqMonotonic
  <1>2. ~HasOne(r, {<<"sleep", "main">>}) /\ ~HasOne(r, Named({"mv"}))
    BY BeforeAfter
  <1>. QED
    BY <1>1, <1>2, SortedConcat, SortedWithout, ConcatMoved DEF Ordered

\* The first half.
LEMMA FirstHalf ==
    LET S == Before \cup After \cup {<<"sleep", "main">>}
        p == Get("FrameWork") \o InstallLibraries \o <<<<"sleep", "main">>>>
    IN  /\ Neat(p, S) /\ Ordered(p)
        /\ HasOne(p, {<<"sleep", "main">>})
        /\ \A lib \in Libraries : HasOne(p, {<<"mv", lib>>})
  <1>. DEFINE S == Before \cup After \cup {<<"sleep", "main">>}
              b == Get("FrameWork") \o InstallLibraries
              s == <<"sleep", "main">>
              p == b \o <<s>>
  <1>1. Neat(b, Before) /\ \A lib \in Libraries : HasOne(b, {<<"mv", lib>>})
    BY InstallNeat
  <1>2. b \in Seq(Before)
    BY <1>1 DEF Neat
  <1>3. ~HasOne(b, {s}) /\ ~HasOne(b, Late) /\ s \notin Late /\ s \notin Named({"mv"})
    BY <1>2, BeforeAfter
  <1>4. Independent(s) /\ s \in Statements
    BY IndependentStatements DEF Independent
  <1>. HIDE DEF b, s
  <1>5. b \in Seq(Statements) /\ <<s>> \in Seq(Statements)
    BY <1>2, <1>4, BeforeAfter, SeqMonotonic
  <1>6. Sorted(<<s>>, Named({"mv"}), {s}) /\ Sorted(<<s>>, {s}, Late)
    BY <1>3 DEF Sorted
  <1>7. Sorted(p, Named({"mv"}), {s}) /\ Sorted(p, {s}, Late)
    BY <1>3, <1>5, <1>6, SortedConcat, SortedWithout
  <1>8. Neat(b, S) /\ s \in S /\ Fits(b, s)
    BY <1>1, <1>4, NeatMonotone, IndependentFits DEF s
  <1>9. Neat(p, S) /\ HasOne(p, {s}) /\ \A A : HasOne(b, A) => HasOne(p, A)
    BY <1>8, NeatMore
  <1>. QED
    BY <1>1, <1>7, <1>9 DEF Ordered, b, s

\* main of the two servers.
LEMMA ServerMain ==
    ASSUME NEW p \in Programs, p # "framework_test"
    PROVE  /\ Neat(Main(p), Before \cup After \cup {<<"sleep", "main">>}) /\ Ordered(Main(p))
           /\ HasOne(Main(p), {<<"sleep", "main">>})
           /\ \A lib \in Libraries : HasOne(Main(p), {<<"mv", lib>>})
  <1>. DEFINE S == Before \cup After \cup {<<"sleep", "main">>}
              h == Get("FrameWork") \o InstallLibraries \o <<<<"sleep", "main">>>>
              u == <<<<"up", "main">>>>
              Good(q) == /\ Neat(q, S) /\ Ordered(q) /\ HasOne(q, {<<"sleep", "main">>})
                         /\ \A lib \in Libraries : HasOne(q, {<<"mv", lib>>})
  <1>0. p \in {"minion_exe", "master_test"}
    BY FrameWorkAssumption
  <1>1. Good(h) /\ After \subseteq S /\ S \subseteq Statements
    <2>1. <<"sleep", "main">> \in Statements
      BY DEF Statements
    <2>. QED
      BY <2>1, FirstHalf, BeforeAfter
  <1>2. Neat(u, After) /\ Neat(Get("MinionProxy"), After) /\ Neat(Get("Master"), After)
    <2>1. <<"up", "main">> \in After /\ <<"get", "MinionProxy">> \in After
      BY DEF After, Late, Named, Statements
    <2>2. Neat(u, After) /\ Neat(Get("MinionProxy"), After)
      BY <2>1, NeatSingle, IndependentStatements, NamesInLists DEF Get
    <2>3. Plain \subseteq After /\ Neat(Get("Master"), Plain)
      BY ShortNeat, NamesInLists DEF After
    <2>. QED
      BY <2>2, <2>3, NeatMonotone
  <1>3. Main(p) \in {h \o Get("MinionProxy") \o u, h \o Get("Master") \o InitConnection \o u}
    BY <1>0 DEF Main
  <1>. HIDE DEF h, u, S
  <1>4. ASSUME NEW q, Good(q), NEW r, Neat(r, After) PROVE Good(q \o r)
    <2>1. Neat(r, S)
      BY <1>1, <1>4, NeatMonotone
    <2>2. Neat(q \o r, S) /\ \A A : HasOne(q, A) => HasOne(q \o r, A)
      BY <1>4, <2>1, NeatConcat
    <2>3. q \in Seq(Statements) /\ r \in Seq(After)
      BY <1>1, <1>4, SeqMonotonic DEF Neat
    <2>4. Ordered(q \o r)
      BY <1>4, <2>3, OrderedMore
    <2>. QED
      BY <1>4, <2>2, <2>4
  <1>. HIDE DEF Good
  <1>5. Good(h \o Get("MinionProxy") \o u)
    BY <1>1, <1>2, <1>4
  <1>6. Good(h \o Get("Master") \o InitConnection \o u)
    BY <1>1, <1>2, <1>4, InitConnectionNeat
  <1>. QED
    BY <1>3, <1>5, <1>6 DEF Good, S

\* main of framework_test.
LEMMA TestMain ==
    /\ Main("framework_test") = <<<<"get", "FrameWork">>, <<"exit", "main">>>>
    /\ Neat(Main("framework_test"), {<<"get", "FrameWork">>, <<"exit", "main">>})
    /\ Ordered(Main("framework_test"))
  <1>. DEFINE a == <<"get", "FrameWork">>
              b == <<"exit", "main">>
              l == <<a, b>>
  <1>1. Main("framework_test") = <<a>> \o <<b>>
    BY DEF Main, Get
  <1>2. <<a>> \o <<b>> = l
    BY Pair
  <1>3. Independent(a) /\ Independent(b) /\ b \notin Late /\ b \notin {<<"sleep", "main">>}
        /\ a \notin Late /\ a \notin {<<"sleep", "main">>}
    <2>1. Independent(a) /\ Independent(b)
      BY IndependentStatements, NamesInLists
    <2>. QED
      BY <2>1 DEF Late, Named
  <1>. HIDE DEF a, b
  <1>4. l \in Seq({a, b}) /\ \A i \in DOMAIN l : l[i] \in {a, b}
    OBVIOUS
  <1>. HIDE DEF l
  <1>5. Neat(l, {a, b})
    BY <1>3, <1>4, IndependentNeat
  <1>6. Ordered(l)
    BY <1>3, <1>4 DEF Ordered, Sorted
  <1>. QED
    BY <1>1, <1>2, <1>5, <1>6 DEF l, a, b

(***************************************************************************)
(* What a step does.                                                       *)
(***************************************************************************)

\* What comes in place of the statement <<s, x>>.
Follow(s, x, q) ==
    \/ q = <<>> /\ (s \in {"get", "lock"} => x \in m_instance)
    \/ s = "get" /\ x \notin m_instance /\ q = <<<<"lock", x>>>>
    \/ s = "lock" /\ x \notin m_instance /\ m_mutex[x] = NoThread /\ q = Build(x, Ctor(x))
    \/ s = "create" /\ x \in Libraries /\ q = CommandRun
    \/ s = "setup" /\ "nbd" \in broken /\ q = LOG("nbd open failed") \o <<<<"throw", "main">>>>
    \/ s = "createDir" /\ q = LOG("mkdir dir fail")

\* Who may execute it, and when.
MayExecute(t, s) ==
    /\ life = "running"
    /\ t # "main" => s \in {"get", "lock", "store", "atexit", "make", "use", "drop", "config", "log",
                            "add", "task", "create", "wait"}
    /\ s = "joinMonitor" => mon = "ended" /\ todo["monitor"] = <<>>
    /\ s = "exit" => exitFuncs = <<>>

\* What it does to the objects, to the requests, to the libraries and to the
\* life of the process.
ObjectsAfter(s, x) ==
    /\ m_instance' = IF s = "store" THEN m_instance \cup {x} ELSE m_instance
    /\ objects' = IF s = "make" THEN objects \cup {x} ELSE IF s = "drop" THEN objects \ {x} ELSE objects
    /\ exitFuncs' = IF s = "atexit" THEN Append(exitFuncs, x) ELSE exitFuncs

ServiceAfter(s) ==
    /\ registered' => registered \/ s = "register"
    /\ requests' # <<>> => requests # <<>> \/ s = "mkfs"
    /\ tasks' # <<>> => tasks # <<>> \/ s = "task"
    /\ mon' = IF s = "watch" THEN "test" ELSE mon

LoadAfter(s, x) ==
    /\ m_map \subseteq m_map' /\ (s = "add" => x \in m_map')
    /\ up' => up \/ s = "up"
    /\ m_flag' = m_flag \/ s = "stopMonitor"
    /\ \A lib \in home : IF s = "mv" /\ x = lib THEN Has(events', lib) ELSE lib \in home'
    /\ \A lib \in Libraries : /\ Has(events, lib) => Has(events', lib)
                              /\ Has(events', lib) => Has(events, lib) \/ s = "mv"
    /\ hurried' = IF s = "sleep" THEN hurried \/ ~CaughtUp ELSE hurried

LifeAfter(s, x) ==
    /\ life' # "killed"
    /\ \/ life' # "terminated"
       \/ s = "config" /\ x \in missing
       \/ s = "throw"
       \/ s = "create" /\ x \notin m_map

fileVars == <<program, missing, broken>>
homeVars == <<found, hurried>>

Executes(t, s, x, q) ==
    /\ At(t, s, x) /\ <<s, x>> \in Statements
    /\ q \in Seq(Statements) /\ Splice(t, q, 1) /\ Follow(s, x, q)
    /\ MayExecute(t, s) /\ ObjectsAfter(s, x) /\ ServiceAfter(s) /\ LoadAfter(s, x) /\ LifeAfter(s, x)
    /\ UNCHANGED <<fileVars, found>>

Destroys(c) ==
    /\ life = "running" /\ At("main", "exit", "main")
    /\ exitFuncs # <<>> /\ c = exitFuncs[Len(exitFuncs)]
    /\ exitFuncs' = SubSeq(exitFuncs, 1, Len(exitFuncs) - 1)
    /\ Splice("main", Dtor(c), 0)
    /\ UNCHANGED <<m_instance, objects, processVars, worldVars>>

\* A thread takes up work.
Begins(t, q) ==
    /\ life = "running" /\ todo[t] = <<>> /\ Splice(t, q, 0)
    /\ UNCHANGED <<m_instance, objects, exitFuncs, m_map, up, m_flag, registered, worldVars>>
    /\ (requests' # <<>> => requests # <<>>) /\ (tasks' # <<>> => tasks # <<>>)

MonitorBegins(q) ==
    /\ Begins("monitor", q)
    /\ mon # "none" /\ mon' # "none" /\ mon # "ended"
    /\ q = <<>> \/ ("m_loader" \in objects /\ \E lib \in Libraries : q = Broadcast(lib))
    /\ \A lib \in Libraries \ broken :
          (Has(events, lib) /\ m_flag = "RUN" /\ "m_loader" \in objects) =>
             Has(events', lib) \/ q = Broadcast(lib)
    /\ \A lib \in Libraries : Has(events', lib) => Has(events, lib)

WorkBegins(t, q) ==
    /\ Begins(t, q)
    /\ t \notin {"main", "monitor"}
    /\ UNCHANGED <<mon, events>>
    /\ \E key \in Libraries :
          \/ registered /\ q = ReactorHandler(key)
          \/ tasks # <<>> /\ q = <<<<"create", key>>>>

Stays ==
    /\ UNCHANGED <<todo, m_instance, objects, exitFuncs, m_map, up, m_flag, mon, registered, tasks,
                   fileVars, homeVars, life>>
    /\ requests' # <<>> => requests # <<>> \/ registered
    /\ program = "framework_test" \/ UNCHANGED <<home, events>>

Starts(q) ==
    /\ SingletonReset(Fresh(q)) /\ ProcessReset /\ UNCHANGED fileVars
    /\ \/ life' = "killed" /\ q = <<>> /\ UNCHANGED homeVars
       \/ life' = "running" /\ q = Main(program) /\ found' = home' /\ ~hurried'

Step ==
    \/ \E t \in Threads, q \in Seq(Statements) : \E s, x : Executes(t, s, x, q)
    \/ \E c \in Classes : Destroys(c)
    \/ \E q \in Seq(Statements) : MonitorBegins(q)
    \/ \E t \in Threads, q \in Seq(Statements) : WorkBegins(t, q)
    \/ Stays
    \/ \E q \in Seq(Statements) : Starts(q)

\* What is put at the end of a queue.
LEMMA HasAppended ==
    ASSUME NEW S, NEW list \in Seq(S), NEW e \in S
    PROVE  /\ Has(Append(list, e), e)
           /\ \A d : Has(list, d) => Has(Append(list, e), d)
           /\ \A d : Has(Append(list, e), d) => Has(list, d) \/ d = e
  <1>. DEFINE l == Append(list, e)
  <1>1. /\ DOMAIN l = 1..(Len(list) + 1) /\ l[Len(list) + 1] = e
        /\ \A i \in 1..Len(list) : l[i] = list[i]
        /\ DOMAIN list = 1..Len(list) /\ Len(list) \in Nat
    BY AppendProperties
  <1>. HIDE DEF l
  <1>2. Len(list) + 1 \in DOMAIN l /\ \A i \in DOMAIN list : i \in DOMAIN l /\ l[i] = list[i]
    BY <1>1
  <1>3. Has(l, e) /\ \A d : Has(list, d) => Has(l, d)
    BY <1>1, <1>2 DEF Has
  <1>4. \A i \in DOMAIN l : i \in DOMAIN list \/ i = Len(list) + 1
    BY <1>1
  <1>5. \A d : Has(l, d) => Has(list, d) \/ d = e
    BY <1>1, <1>4 DEF Has
  <1>. QED
    BY <1>3, <1>5 DEF l

\* Statements that leave the objects alone.
LEMMA ExecuteStep ==
    ASSUME TodoOK, NEW t \in Threads, NEW s, NEW x, Execute(t, s, x),
           s \notin {"get", "lock", "store", "atexit", "make", "drop"},
           MayExecute(t, s), ServiceAfter(s), LoadAfter(s, x), LifeAfter(s, x),
           UNCHANGED <<fileVars, found>>
    PROVE  Step
  <1>1. At(t, s, x) /\ Splice(t, <<>>, 1) /\ <<s, x>> \in Statements /\ <<>> \in Seq(Statements)
    BY ExecuteSplices, NoList
  <1>2. ObjectsAfter(s, x) /\ Follow(s, x, <<>>)
    BY DEF Execute, objectVars, ObjectsAfter, Follow
  <1>3. Executes(t, s, x, <<>>)
    BY <1>1, <1>2 DEF Executes
  <1>. QED
    BY <1>1, <1>3 DEF Step

\* The same for those that put in others.
LEMMA ThenStep ==
    ASSUME TodoOK, NEW t \in Threads, NEW s, NEW x, At(t, s, x), NEW q \in Seq(Statements), Then(t, q),
           Follow(s, x, q), ObjectsAfter(s, x),
           MayExecute(t, s), ServiceAfter(s), LoadAfter(s, x), LifeAfter(s, x),
           UNCHANGED <<fileVars, found>>
    PROVE  Step
  <1>1. Splice(t, q, 1) /\ <<s, x>> \in Statements
    BY ThenSplices
  <1>2. Executes(t, s, x, q)
    BY <1>1 DEF Executes
  <1>. QED
    BY <1>2 DEF Step

\* A step that leaves requests, libraries and life as they are.
LEMMA NothingElse ==
    ASSUME NEW s, NEW x, s \notin {"watch", "add", "mv", "sleep"}, UNCHANGED <<processVars, home, hurried>>,
           life' = "running"
    PROVE  ServiceAfter(s) /\ LoadAfter(s, x) /\ LifeAfter(s, x)
  BY DEF ServiceAfter, LoadAfter, LifeAfter, processVars, Has

\* GetInstance executes a statement.
LEMMA SingletonStepStep ==
    ASSUME TodoOK, life = "running", NEW t \in Threads, NEW x,
           GetInstance(t, x, Ctor(x)) \/ Make(t, x) \/ Use(t, x) \/ Drop(t, x),
           UNCHANGED <<processVars, fileVars, life, home, homeVars>>
    PROVE  Step
  <1>. DEFINE Rests(s) == MayExecute(t, s) /\ ServiceAfter(s) /\ LoadAfter(s, x) /\ LifeAfter(s, x)
  <1>0. UNCHANGED <<fileVars, found>> /\ <<>> \in Seq(Statements)
    BY NoList DEF homeVars
  <1>n. ASSUME NEW s \in {"get", "lock", "store", "atexit", "make", "use", "drop"} PROVE Rests(s)
    <2>1. UNCHANGED <<processVars, home, hurried>> /\ life' = "running" /\ s \notin {"watch", "add", "mv", "sleep"}
      BY DEF homeVars
    <2>2. MayExecute(t, s)
      BY DEF MayExecute
    <2>. QED
      BY <2>1, <2>2, NothingElse
  <1>. HIDE DEF Rests
  <1>1. ASSUME FirstLoad(t, x) PROVE Step
    <2>1. At(t, "get", x) /\ ObjectsAfter("get", x)
      BY <1>1 DEF FirstLoad, ObjectsAfter
    <2>2. <<"get", x>> \in Statements
      BY <2>1, AtType
    <2>3. <<"lock", x>> \in Statements
      BY <2>2, StatementKinds DEF Statements
    <2>4. <<<<"lock", x>>>> \in Seq(Statements)
      BY <2>3
    <2>5. \E q \in Seq(Statements) : Then(t, q) /\ Follow("get", x, q)
      <3>1. CASE x \in m_instance
        BY <1>0, <1>1, <3>1 DEF FirstLoad, Follow
      <3>2. CASE x \notin m_instance
        BY <1>1, <2>4, <3>2 DEF FirstLoad, Follow
      <3>. QED
        BY <3>1, <3>2
    <2>. QED
      BY <1>0, <1>n, <2>1, <2>5, ThenStep DEF Rests
  <1>2. ASSUME LockedLoad(t, x, Ctor(x)) PROVE Step
    <2>1. At(t, "lock", x) /\ ObjectsAfter("lock", x) /\ m_mutex[x] = NoThread
      BY <1>2 DEF LockedLoad, ObjectsAfter
    <2>2. <<"lock", x>> \in Statements /\ x \in Classes
      BY <2>1, AtType, StatementKinds
    <2>3. Build(x, Ctor(x)) \in Seq(Statements)
      BY <2>2, BuildLists
    <2>4. \E q \in Seq(Statements) : Then(t, q) /\ Follow("lock", x, q)
      <3>1. CASE x \in m_instance
        BY <1>0, <1>2, <3>1 DEF LockedLoad, Follow, Done
      <3>2. CASE x \notin m_instance
        BY <1>2, <2>1, <2>3, <3>2 DEF LockedLoad, Follow
      <3>. QED
        BY <3>1, <3>2
    <2>. QED
      BY <1>0, <1>n, <2>1, <2>4, ThenStep DEF Rests
  <1>3. ASSUME Store(t, x) \/ AtExit(t, x) \/ Make(t, x) \/ Use(t, x) \/ Drop(t, x) PROVE Step
    <2>1. PICK s \in {"store", "atexit", "make", "use", "drop"} : At(t, s, x) /\ ObjectsAfter(s, x)
      BY <1>3 DEF Store, AtExit, Make, Use, Drop, ObjectsAfter
    <2>2. Then(t, <<>>) /\ Follow(s, x, <<>>)
      BY <1>3 DEF Store, AtExit, Make, Use, Drop, Done, Follow
    <2>. QED
      BY <1>0, <1>n, <2>1, <2>2, ThenStep DEF Rests
  <1>. QED
    BY <1>1, <1>2, <1>3 DEF GetInstance

\* And so does whatever any thread may do.
LEMMA AnyThreadStep ==
    ASSUME TypeOK, NEW t \in Threads, AnyThread(t)
    PROVE  Step
  <1>. DEFINE x == Head(todo[t])[2]
  <1>0. TodoOK /\ life = "running"
    BY TypeParts DEF AnyThread
  <1>m. \A s \in {"config", "log", "add", "task", "create", "wait"} : MayExecute(t, s)
    BY <1>0 DEF MayExecute
  <1>. HIDE DEF x
  <1>1. CASE SingletonStep(t, x)
    <2>1. UNCHANGED <<processVars, fileVars, life, home, homeVars>>
      BY <1>1 DEF SingletonStep, worldVars, luckVars, fileVars, homeVars
    <2>. QED
      BY <1>0, <1>1, <2>1, SingletonStepStep DEF SingletonStep
  <1>7. CASE MakeMediator(t)
    <2>1. UNCHANGED <<processVars, fileVars, life, home, homeVars>> /\ Make(t, "m_mediator")
      BY <1>7 DEF MakeMediator, fileVars, homeVars
    <2>. QED
      BY <1>0, <2>1, SingletonStepStep
  <1>8. CASE WaitForMinions(t)
    <2>1. UNCHANGED <<processVars, fileVars, found, home, hurried>> /\ life' = "running"
          /\ Execute(t, "wait", "main")
      BY <1>0, <1>8 DEF WaitForMinions, fileVars, worldVars, luckVars
    <2>. QED
      BY <1>0, <1>m, <2>1, NothingElse, ExecuteStep
  <1>2. CASE GetConfig(t, x)
    <2>1. UNCHANGED <<fileVars, found>>
      BY <1>2 DEF GetConfig, fileVars, luckVars
    <2>2. ServiceAfter("config") /\ LoadAfter("config", x)
      BY <1>2 DEF GetConfig, ServiceAfter, LoadAfter, processVars, luckVars, Has
    <2>3. LifeAfter("config", x)
      BY <1>0, <1>2 DEF GetConfig, LifeAfter
    <2>. QED
      BY <1>0, <1>2, <1>m, <2>1, <2>2, <2>3, ExecuteStep DEF GetConfig
  <1>3. CASE LogMessage(t, x)
    <2>1. UNCHANGED <<processVars, fileVars, found, home, hurried>> /\ life' = "running"
      BY <1>0, <1>3 DEF LogMessage, fileVars, worldVars, luckVars
    <2>2. Execute(t, "log", x)
      BY <1>3 DEF LogMessage
    <2>. QED
      BY <1>0, <1>m, <2>1, <2>2, NothingElse, ExecuteStep
  <1>4. CASE Add(t, x)
    <2>1. UNCHANGED <<fileVars, found>> /\ LifeAfter("add", x)
      BY <1>0, <1>4 DEF Add, fileVars, worldVars, luckVars, LifeAfter
    <2>2. ServiceAfter("add") /\ LoadAfter("add", x)
      BY <1>4 DEF Add, ServiceAfter, LoadAfter, worldVars, luckVars, Has
    <2>. QED
      BY <1>0, <1>4, <1>m, <2>1, <2>2, ExecuteStep DEF Add
  <1>5. CASE AddTask(t, x)
    <2>1. UNCHANGED <<fileVars, found>> /\ LifeAfter("task", x)
      BY <1>0, <1>5 DEF AddTask, fileVars, worldVars, luckVars, LifeAfter
    <2>2. ServiceAfter("task") /\ LoadAfter("task", x)
      BY <1>5 DEF AddTask, ServiceAfter, LoadAfter, worldVars, luckVars, Has
    <2>. QED
      BY <1>0, <1>5, <1>m, <2>1, <2>2, ExecuteStep DEF AddTask
  <1>6. CASE Create(t, x)
    <2>0. x \in Libraries
      <3>1. <<"create", x>> \in Statements
        BY <1>0, <1>6, AtType DEF Create
      <3>. QED
        BY <3>1 DEF Statements
    <2>1. At(t, "create", x) /\ Then(t, CommandRun) /\ CommandRun \in Seq(Statements)
      BY <1>6, <2>0, OrdinaryLists, LoggerLists DEF Create
    <2>2. UNCHANGED <<fileVars, found>> /\ LifeAfter("create", x) /\ ObjectsAfter("create", x)
      BY <1>0, <1>6 DEF Create, fileVars, luckVars, LifeAfter, objectVars, ObjectsAfter
    <2>3. ServiceAfter("create") /\ LoadAfter("create", x)
      BY <1>6 DEF Create, ServiceAfter, LoadAfter, processVars, luckVars, Has
    <2>4. Follow("create", x, CommandRun)
      BY <2>0 DEF Follow
    <2>. QED
      BY <1>0, <1>m, <2>1, <2>2, <2>3, <2>4, ThenStep
  <1>. QED
    BY <1>1, <1>2, <1>3, <1>4, <1>5, <1>6, <1>7, <1>8 DEF AnyThread, x

\* And what main alone does.
LEMMA MainStep ==
    ASSUME TypeOK, MainThread
    PROVE  Step
  <1>0. TodoOK /\ "main" \in Threads /\ <<>> \in Seq(Statements) /\ life = "running"
        /\ events \in Seq(Libraries \cup {"dummy_die"})
    BY TypeParts, NamesInLists, NoList DEF MainThread, ProcessOK
  <1>m. ASSUME NEW s, s \notin {"joinMonitor", "exit"} PROVE MayExecute("main", s)
    BY <1>0, <1>m DEF MayExecute
  <1>1. CASE StartLoggerThread \/ SetDebug \/ Served \/ JoinMonitor \/ StopLogger
    <2>1. UNCHANGED <<processVars, home, fileVars, found, hurried>> /\ life' = "running"
      BY <1>0, <1>1 DEF StartLoggerThread, SetDebug, Served, JoinMonitor, StopLogger, worldVars, luckVars,
                       fileVars
    <2>2. PICK s \in {"thread", "level", "served", "joinMonitor", "flag", "push", "join"} :
             \E x : Execute("main", s, x) /\ MayExecute("main", s)
      BY <1>0, <1>1, <1>m DEF StartLoggerThread, SetDebug, Served, JoinMonitor, StopLogger, MayExecute
    <2>. QED
      BY <1>0, <2>1, <2>2, NothingElse, ExecuteStep
  <1>14. CASE Sleep
    <2>1. UNCHANGED <<fileVars, found>> /\ LifeAfter("sleep", "main")
      BY <1>0, <1>14 DEF Sleep, fileVars, LifeAfter
    <2>2. ServiceAfter("sleep") /\ LoadAfter("sleep", "main")
      BY <1>14 DEF Sleep, ServiceAfter, LoadAfter, processVars, Has
    <2>. QED
      BY <1>0, <1>14, <1>m, <2>1, <2>2, ExecuteStep DEF Sleep
  <1>2. CASE SetupNbdFD
    <2>1. /\ At("main", "setup", "main") /\ UNCHANGED <<processVars, home, fileVars>> /\ life' = "running"
          /\ ObjectsAfter("setup", "main") /\ UNCHANGED <<found, hurried>>
      BY <1>0, <1>2 DEF SetupNbdFD, worldVars, luckVars, fileVars, objectVars, ObjectsAfter
    <2>2. LOG("nbd open failed") \o <<<<"throw", "main">>>> \in Seq(Statements)
      <3>1. Neat(LOG("nbd open failed") \o <<<<"throw", "main">>>>, Plain \cup {<<"throw", "main">>})
        BY FailedSetupNeat
      <3>2. Plain \cup {<<"throw", "main">>} \subseteq Statements
        BY PlainStatements DEF Statements
      <3>. QED
        BY <3>1, <3>2, SeqMonotonic DEF Neat
    <2>3. \E q \in Seq(Statements) : Then("main", q) /\ Follow("setup", "main", q)
      <3>1. CASE "nbd" \in broken
        BY <1>2, <2>2, <3>1 DEF SetupNbdFD, Follow
      <3>2. CASE "nbd" \notin broken
        BY <1>0, <1>2, <3>2 DEF SetupNbdFD, Follow
      <3>. QED
        BY <3>1, <3>2
    <2>4. MayExecute("main", "setup")
      BY <1>m
    <2>5. ServiceAfter("setup") /\ LoadAfter("setup", "main") /\ LifeAfter("setup", "main")
      BY <2>1, NothingElse
    <2>. QED
      BY <1>0, <2>1, <2>3, <2>4, <2>5, ThenStep
  <1>3. CASE Throw
    <2>1. UNCHANGED <<fileVars, found>> /\ LifeAfter("throw", "main")
      BY <1>3 DEF Throw, fileVars, luckVars, LifeAfter
    <2>2. ServiceAfter("throw") /\ LoadAfter("throw", "main")
      BY <1>3 DEF Throw, ServiceAfter, LoadAfter, processVars, luckVars, Has
    <2>. QED
      BY <1>0, <1>3, <1>m, <2>1, <2>2, ExecuteStep DEF Throw
  <1>4. ASSUME NEW s \in {"watch", "register", "mkfs", "up", "stopMonitor", "stopMediator"},
               Execute("main", s, "main"), UNCHANGED worldVars, ServiceAfter(s), LoadAfter(s, "main")
        PROVE  Step
    <2>1. UNCHANGED <<fileVars, found>> /\ LifeAfter(s, "main") /\ MayExecute("main", s)
      BY <1>0, <1>4, <1>m DEF worldVars, luckVars, fileVars, LifeAfter
    <2>. QED
      BY <1>0, <1>4, <2>1, ExecuteStep
  <1>5. CASE Watch
    BY <1>4, <1>5 DEF Watch, ServiceAfter, LoadAfter, Has, worldVars, luckVars
  <1>6. CASE RegisterProxy
    BY <1>4, <1>6 DEF RegisterProxy, ServiceAfter, LoadAfter, Has, worldVars, luckVars
  <1>7. CASE Mkfs
    BY <1>4, <1>7 DEF Mkfs, ServiceAfter, LoadAfter, Has, worldVars, luckVars
  <1>8. CASE SayUp
    BY <1>4, <1>8 DEF SayUp, ServiceAfter, LoadAfter, Has, worldVars, luckVars
  <1>9. CASE StoreStop
    BY <1>4, <1>9 DEF StoreStop, ServiceAfter, LoadAfter, Has, worldVars, luckVars
  <1>10. CASE StopMediator
    BY <1>4, <1>10 DEF StopMediator, ServiceAfter, LoadAfter, Has, worldVars, luckVars
  <1>11. ASSUME NEW lib \in Libraries, Move(lib) PROVE Step
    <2>1. UNCHANGED <<fileVars, found>> /\ LifeAfter("mv", lib)
      BY <1>0, <1>11 DEF Move, fileVars, luckVars, LifeAfter
    <2>2. ServiceAfter("mv")
      BY <1>11 DEF Move, ServiceAfter
    <2>3. LoadAfter("mv", lib)
      <3>1. Has(Append(events, lib), lib) /\ \A d : Has(events, d) => Has(Append(events, lib), d)
        BY <1>0, HasAppended
      <3>. QED
        BY <1>11, <3>1 DEF Move, luckVars, LoadAfter
    <2>. QED
      BY <1>0, <1>11, <1>m, <2>1, <2>2, <2>3, ExecuteStep DEF Move
  <1>12. CASE CreateDir
    <2>1. At("main", "createDir", "main") /\ UNCHANGED <<fileVars, found>> /\ LifeAfter("createDir", "main")
          /\ ObjectsAfter("createDir", "main") /\ ServiceAfter("createDir")
      BY <1>0, <1>12 DEF CreateDir, fileVars, objectVars, ObjectsAfter, LifeAfter, ServiceAfter
    <2>2. LoadAfter("createDir", "main")
      <3>1. /\ \A d : Has(events, d) => Has(Append(events, "dummy_die"), d)
            /\ \A d : Has(Append(events, "dummy_die"), d) => Has(events, d) \/ d = "dummy_die"
        BY <1>0, HasAppended
      <3>2. events' = events \/ events' = Append(events, "dummy_die")
        BY <1>12 DEF CreateDir
      <3>3. UNCHANGED <<m_map, up, m_flag, home, hurried>>
        BY <1>12 DEF CreateDir
      <3>. QED
        BY <3>1, <3>2, <3>3 DEF LoadAfter, Libraries
    <2>3. \E q \in Seq(Statements) : Then("main", q) /\ Follow("createDir", "main", q)
      <3>1. LOG("mkdir dir fail") \in Seq(Statements)
        BY OrdinaryLists, LoggerLists, NamesInLists
      <3>. QED
        BY <1>0, <1>12, <3>1 DEF CreateDir, Done, Follow
    <2>. QED
      BY <1>0, <1>m, <2>1, <2>2, <2>3, ThenStep
  <1>13. CASE Exit
    <2>1. ASSUME NEW c \in Classes, exitFuncs # <<>>, c = exitFuncs[Len(exitFuncs)],
                 ExitFunc("main", Dtor(c)), UNCHANGED <<loggerVars, processVars, worldVars>>
          PROVE  Step
      <3>1. Splice("main", Dtor(c), 0) /\ At("main", "exit", "main") /\ UNCHANGED <<m_instance, objects>>
            /\ exitFuncs' = SubSeq(exitFuncs, 1, Len(exitFuncs) - 1)
        BY <2>1 DEF ExitFunc, Splice, Rest
      <3>2. Destroys(c)
        BY <1>0, <2>1, <3>1 DEF Destroys
      <3>. QED
        BY <3>2 DEF Step
    <2>2. CASE exitFuncs = <<>> /\ Execute("main", "exit", "main") /\ life' = "exited"
               /\ UNCHANGED <<loggerVars, processVars, program, missing, broken, home, luckVars>>
      <3>1. UNCHANGED <<fileVars, found>> /\ LifeAfter("exit", "main")
        BY <2>2 DEF fileVars, luckVars, LifeAfter
      <3>2. ServiceAfter("exit") /\ LoadAfter("exit", "main")
        BY <2>2 DEF ServiceAfter, LoadAfter, processVars, luckVars, Has
      <3>3. MayExecute("main", "exit")
        BY <1>0, <2>2 DEF MayExecute
      <3>. QED
        BY <1>0, <2>2, <3>1, <3>2, <3>3, ExecuteStep
    <2>. QED
      BY <1>13, <2>1, <2>2 DEF Exit
  <1>. QED
    BY <1>1, <1>2, <1>3, <1>5, <1>6, <1>7, <1>8, <1>9, <1>10, <1>11, <1>12, <1>13,
       <1>14 DEF MainThread

\* Every step is one of these.
LEMMA StepTaken ==
    ASSUME TypeOK, [Next]_vars
    PROVE  Step
  <1>0. /\ TodoOK /\ ProcessOK /\ WorldOK /\ <<>> \in Seq(Statements)
        /\ {"main", "monitor", "reactor"} \cup Workers = Threads
        /\ {"main", "monitor", "reactor"} \cap Workers = {}
    BY TypeParts, NamesInLists, NoList, FrameWorkAssumption
  <1>b. ASSUME NEW t \in Threads, NEW q \in Seq(Statements), Begin(t, q)
        PROVE  /\ life = "running" /\ todo[t] = <<>> /\ Splice(t, q, 0)
               /\ UNCHANGED <<m_instance, objects, exitFuncs>>
    <2>1. life = "running" /\ todo[t] = <<>> /\ todo' = [todo EXCEPT ![t] = q]
          /\ UNCHANGED <<m_instance, objects, exitFuncs>>
      BY <1>b DEF Begin, objectVars
    <2>2. q \o <<>> = q
      BY ConcatEmptySeq
    <2>. QED
      BY <2>1, <2>2 DEF Splice, Rest
  <1>1. CASE UNCHANGED vars
    <2>1. Stays
      BY <1>1 DEF vars, Stays, singletonVars, processVars, worldVars, luckVars, fileVars, homeVars
    <2>. QED
      BY <2>1 DEF Step
  <1>2. CASE Monitor
    <2>. DEFINE B(q) == /\ life = "running" /\ todo["monitor"] = <<>> /\ Splice("monitor", q, 0)
                        /\ UNCHANGED <<m_instance, objects, exitFuncs>>
    <2>0. \A q \in Seq(Statements) : Begin("monitor", q) => B(q)
      BY <1>0, <1>b
    <2>. HIDE DEF B
    <2>1. CASE mon = "test"
      <3>1. B(<<>>) /\ mon' \in {"ended", "read"}
            /\ UNCHANGED <<events, m_flag, m_map, registered, requests, tasks, sent, up, worldVars>>
        BY <1>0, <1>2, <2>0, <2>1 DEF Monitor
      <3>2. Begins("monitor", <<>>)
        BY <3>1 DEF Begins, B
      <3>3. MonitorBegins(<<>>)
        BY <2>1, <3>1, <3>2 DEF MonitorBegins, Has
      <3>. QED
        BY <1>0, <3>3 DEF Step
    <2>2. CASE mon = "read"
      <3>. DEFINE q == IF Head(events) = "dummy_die" \/ m_flag = "STOP" \/ "m_loader" \notin objects
                       THEN <<>> ELSE Broadcast(Head(events))
      <3>1. /\ events # <<>> /\ Begin("monitor", q) /\ events' = Tail(events) /\ mon' = "test"
            /\ UNCHANGED <<m_flag, m_map, registered, requests, tasks, sent, up, worldVars>>
        BY <1>2, <2>2 DEF Monitor
      <3>2. /\ Head(events) \in Libraries \cup {"dummy_die"}
            /\ \A lib : Has(events, lib) => lib = Head(events) \/ Has(Tail(events), lib)
            /\ \A lib : Has(Tail(events), lib) => Has(events, lib)
        <4>1. events \in Seq(Libraries \cup {"dummy_die"})
          BY <1>0 DEF ProcessOK
        <4>2. /\ Head(events) = events[1] /\ Head(events) \in Libraries \cup {"dummy_die"}
              /\ \A i \in DOMAIN Tail(events) : i + 1 \in DOMAIN events /\ Tail(events)[i] = events[i + 1]
              /\ \A i \in DOMAIN events : i = 1 \/ (i - 1 \in DOMAIN Tail(events) /\ Tail(events)[i - 1] = events[i])
          BY <3>1, <4>1, HeadTailProperties
        <4>. QED
          BY <4>2 DEF Has
      <3>3. q = <<>> \/ ("m_loader" \in objects /\ Head(events) \in Libraries /\ q = Broadcast(Head(events)))
        BY <3>2
      <3>4. q \in Seq(Statements)
        BY <1>0, <3>3, OrdinaryLists, LoggerLists
      <3>5. \A lib \in Libraries \ broken :
               (Has(events, lib) /\ m_flag = "RUN" /\ "m_loader" \in objects) =>
                  Has(events', lib) \/ q = Broadcast(lib)
        BY <3>1, <3>2 DEF Libraries
      <3>. HIDE DEF q
      <3>6. Begins("monitor", q)
        BY <2>0, <3>1, <3>4 DEF Begins, B
      <3>7. MonitorBegins(q)
        BY <2>2, <3>1, <3>2, <3>3, <3>5, <3>6 DEF MonitorBegins
      <3>. QED
        BY <3>4, <3>7 DEF Step
    <2>. QED
      BY <1>2, <2>1, <2>2 DEF Monitor
  <1>3. CASE ReadRequest
    <2>1. requests \in Seq(Libraries) /\ requests # <<>>
      BY <1>0, <1>3 DEF ProcessOK, ReadRequest
    <2>2. Head(requests) \in Libraries
      BY <2>1
    <2>. DEFINE q == ReactorHandler(Head(requests))
    <2>3. q \in Seq(Statements)
      BY <2>2, OrdinaryLists, LoggerLists
    <2>4. Begin("reactor", q) /\ registered
      BY <1>3 DEF ReadRequest
    <2>. HIDE DEF q
    <2>5. UNCHANGED <<events, m_flag, mon, m_map, registered, tasks, sent, up, worldVars>>
      BY <1>3 DEF ReadRequest
    <2>6. Begins("reactor", q)
      BY <1>0, <1>b, <2>1, <2>3, <2>4, <2>5 DEF Begins
    <2>7. WorkBegins("reactor", q)
      BY <2>2, <2>4, <2>5, <2>6 DEF WorkBegins, q
    <2>. QED
      BY <1>0, <2>3, <2>7 DEF Step
  <1>4. ASSUME NEW w \in Workers, TakeTask(w) PROVE Step
    <2>1. tasks \in Seq(Libraries) /\ tasks # <<>>
      BY <1>0, <1>4 DEF ProcessOK, TakeTask
    <2>2. Head(tasks) \in Libraries
      BY <2>1
    <2>. DEFINE q == <<<<"create", Head(tasks)>>>>
    <2>3. q \in Seq(Statements)
      BY <2>2 DEF Statements
    <2>4. Begin(w, q) /\ UNCHANGED <<events, m_flag, mon, m_map, registered, requests, sent, up, worldVars>>
      BY <1>4 DEF TakeTask
    <2>. HIDE DEF q
    <2>5. Begins(w, q)
      BY <1>0, <1>b, <2>1, <2>3, <2>4 DEF Begins
    <2>6. w \in Threads /\ w \notin {"main", "monitor"}
      BY <1>0
    <2>7. WorkBegins(w, q)
      BY <2>1, <2>2, <2>4, <2>5, <2>6 DEF WorkBegins, q
    <2>. QED
      BY <2>3, <2>6, <2>7 DEF Step
  <1>5. CASE LoggerThread
    <2>1. Stays
      BY <1>5 DEF LoggerThread, Stays, singletonVars, processVars, worldVars, luckVars, fileVars, homeVars
    <2>. QED
      BY <2>1 DEF Step
  <1>6. CASE \E lib \in Libraries : Request(lib) \/ PutLibrary(lib)
    <2>1. Stays
      BY <1>6 DEF Request, PutLibrary, Stays, singletonVars, worldVars, luckVars, fileVars, homeVars
    <2>. QED
      BY <2>1 DEF Step
  <1>7. CASE Kill
    <2>1. Starts(<<>>)
      BY <1>7 DEF Kill, Starts, fileVars, homeVars
    <2>. QED
      BY <1>0, <2>1 DEF Step
  <1>8. CASE Restart
    <2>1. Main(program) \in Seq(Statements)
      BY <1>0, OrdinaryLists, LoggerLists DEF WorldOK
    <2>2. Starts(Main(program))
      BY <1>8 DEF Restart, Starts, fileVars
    <2>. QED
      BY <2>1, <2>2 DEF Step
  <1>9. ASSUME NEW w \in Workers, WakeUp(w) PROVE Step
    <2>1. Stays
      BY <1>9 DEF WakeUp, Stays, singletonVars, processVars, fileVars, homeVars
    <2>. QED
      BY <2>1 DEF Step
  <1>. QED
    BY <1>1, <1>2, <1>3, <1>4, <1>5, <1>6, <1>7, <1>8, <1>9, AnyThreadStep, MainStep DEF Next

(***************************************************************************)
(* Which statements a thread can have to execute.                          *)
(***************************************************************************)

\* What is put in for <<s, x>>.
Kept(s, x) == {r \in Common : r \in Late => <<s, x>> \in Late}

\* What is put in for a statement is neat, and of its kind.
LEMMA FollowNeat ==
    ASSUME NEW s, NEW x, <<s, x>> \in Statements, NEW q, Follow(s, x, q)
    PROVE  /\ Neat(q, Kept(s, x))
           /\ Followed(q, <<"watch", "main">>, <<"store", "FrameWork">>)
           /\ (s \in {"get", "lock"} /\ x \notin m_instance) => HasOne(q, Gets(x))
  <1>0. /\ Plain \subseteq Kept(s, x) /\ <<"watch", "main">> \in Kept(s, x)
        /\ <<s, x>> \in Late => /\ <<"lock", "MinionProxy">> \in Kept(s, x)
                                /\ <<"get", "MinionProxy">> \in Kept(s, x)
                                /\ <<"register", "main">> \in Kept(s, x)
        /\ "nbd" \in broken => <<"throw", "main">> \in Kept(s, x)
    <2>1. Plain \subseteq Common /\ \A r \in Plain : r \notin Late
      BY PlainStatements DEF Plain
    <2>2. /\ <<"lock", "MinionProxy">> \in Common /\ <<"get", "MinionProxy">> \in Common
          /\ <<"register", "main">> \in Common /\ <<"watch", "main">> \in Common
          /\ "nbd" \in broken => <<"throw", "main">> \in Common
      BY NamesInLists DEF Common, Statements, ClosingNames
    <2>3. <<"watch", "main">> \notin Late /\ <<"throw", "main">> \notin Late
      BY DEF Late, Named
    <2>. QED
      BY <2>1, <2>2, <2>3 DEF Kept
  <1>f. ASSUME NEW r, NEW S, Neat(r, S), <<"watch", "main">> \notin S
        PROVE  Followed(r, <<"watch", "main">>, <<"store", "FrameWork">>)
    BY <1>f DEF Followed, Neat
  <1>w. <<"watch", "main">> \notin Plain
    BY DEF Plain, Named, Statements
  <1>1. CASE q = <<>> /\ (s \in {"get", "lock"} => x \in m_instance)
    BY <1>1, ShortNeat DEF Followed
  <1>2. CASE s = "get" /\ x \notin m_instance /\ q = <<<<"lock", x>>>>
    <2>1. x \in Classes
      BY <1>2, StatementKinds
    <2>2. HasOne(q, Gets(x))
      BY <1>2, <2>1, ShortNeat
    <2>3. CASE x = "MinionProxy"
      <3>1. <<"get", "MinionProxy">> \in Late
        BY DEF Late
      <3>2. <<"lock", x>> \in Kept(s, x)
        BY <1>0, <1>2, <2>3, <3>1
      <3>3. Neat(q, Kept(s, x)) /\ Neat(q, {<<"lock", x>>})
        BY <1>2, <2>1, <3>2, NeatSingle, IndependentStatements
      <3>4. <<"watch", "main">> \notin {<<"lock", x>>}
        OBVIOUS
      <3>. QED
        BY <1>2, <1>f, <2>2, <3>3, <3>4
    <2>4. CASE x # "MinionProxy"
      <3>1. Neat(q, Plain)
        BY <1>2, <2>1, <2>4, ShortNeat
      <3>. QED
        BY <1>0, <1>f, <1>w, <2>2, <3>1, NeatMonotone
    <2>. QED
      BY <2>3, <2>4
  <1>3. CASE s = "lock" /\ x \notin m_instance /\ q = Build(x, Ctor(x))
    <2>1. x \in Classes
      BY <1>3, StatementKinds
    <2>2. CASE x \in {"ConfigManager", "StorageManager", "Master", "Logger"}
      <3>1. Neat(q, Plain) /\ HasOne(q, Gets(x))
        BY <1>3, <2>2, SimpleBuildNeat
      <3>. QED
        BY <1>0, <1>f, <1>w, <3>1, NeatMonotone
    <2>3. CASE x = "FrameWork"
      <3>1. /\ Neat(q, Plain \cup {<<"watch", "main">>}) /\ HasOne(q, Gets(x))
            /\ Followed(q, <<"watch", "main">>, <<"store", "FrameWork">>)
        BY <1>3, <2>3, FrameWorkNeat
      <3>2. Plain \cup {<<"watch", "main">>} \subseteq Kept(s, x)
        BY <1>0
      <3>. QED
        BY <3>1, <3>2, NeatMonotone
    <2>4. CASE x = "MinionProxy"
      <3>0. <<"lock", "MinionProxy">> \in Late
        BY DEF Late
      <3>1. Neat(q, Plain \cup {<<"register", "main">>}) /\ HasOne(q, Gets(x))
        BY <1>3, <2>4, MinionProxyNeat
      <3>2. Plain \cup {<<"register", "main">>} \subseteq Kept(s, x)
        BY <1>0, <1>3, <2>4, <3>0
      <3>3. <<"watch", "main">> \notin Plain \cup {<<"register", "main">>}
        BY <1>w
      <3>. QED
        BY <1>f, <3>1, <3>2, <3>3, NeatMonotone
    <2>. QED
      BY <2>1, <2>2, <2>3, <2>4, NamesInLists
  <1>4. CASE s = "create" /\ x \in Libraries /\ q = CommandRun
    <2>0. <<s, x>> \in Late
      BY <1>4 DEF Late, Named
    <2>1. Neat(q, Plain \cup {<<"get", "MinionProxy">>})
      BY <1>4, CommandNeat
    <2>2. Plain \cup {<<"get", "MinionProxy">>} \subseteq Kept(s, x)
      BY <1>0, <2>0
    <2>3. <<"watch", "main">> \notin Plain \cup {<<"get", "MinionProxy">>}
      BY <1>w
    <2>. QED
      BY <1>4, <1>f, <2>1, <2>2, <2>3, NeatMonotone
  <1>5. CASE s = "setup" /\ "nbd" \in broken /\ q = LOG("nbd open failed") \o <<<<"throw", "main">>>>
    <2>1. Neat(q, Plain \cup {<<"throw", "main">>})
      BY <1>5, FailedSetupNeat
    <2>2. Plain \cup {<<"throw", "main">>} \subseteq Kept(s, x) /\ s \notin {"get", "lock"}
      <3>1. "nbd" \in broken /\ s \notin {"get", "lock"}
        BY <1>5
      <3>. QED
        BY <1>0, <3>1
    <2>3. <<"watch", "main">> \notin Plain \cup {<<"throw", "main">>}
      BY <1>w
    <2>. QED
      BY <1>f, <2>1, <2>2, <2>3, NeatMonotone
  <1>6. CASE s = "createDir" /\ q = LOG("mkdir dir fail")
    <2>1. Neat(q, Plain) /\ s \notin {"get", "lock"}
      BY <1>6, ShortNeat, NamesInLists
    <2>. QED
      BY <1>0, <1>f, <1>w, <2>1, NeatMonotone
  <1>. QED
    BY <1>1, <1>2, <1>3, <1>4, <1>5, <1>6 DEF Follow

\* Statements of the end are for a program that ends, those of a server for
\* servers.
Allowed ==
    {s \in Statements : /\ s[1] \in ClosingNames => program = "framework_test"
                        /\ s \in Late => program # "framework_test"
                        /\ s[1] = "throw" => "nbd" \in broken}

\* Requests, or threads that deal with them.
Busy ==
    \/ registered \/ requests # <<>> \/ tasks # <<>>
    \/ \E t \in Threads \ {"main", "monitor"} : todo[t] # <<>>

\* Only the monitor's thread calls the loader's callback.
Unheard == \A t \in Threads \ {"monitor"} : ~HasOne(todo[t], Heard)

Lists ==
    /\ todo \in [Threads -> Seq(Allowed)]
    /\ Ordered(todo["main"])
    /\ Unheard
    /\ Busy => program # "framework_test"

\* Threads are given what they may have.
LEMMA AllowedStatements ==
    /\ Allowed \subseteq Statements
    /\ \A s, x : <<s, x>> \in Allowed => Kept(s, x) \subseteq Allowed
    /\ program # "framework_test" => Before \cup After \cup {<<"sleep", "main">>} \subseteq Allowed
    /\ program = "framework_test" => {<<"get", "FrameWork">>, <<"exit", "main">>} \subseteq Allowed
    /\ Plain \cup Heard \subseteq Allowed
    /\ program # "framework_test" => \A lib \in Libraries : <<"task", lib>> \in Allowed /\ <<"create", lib>> \in Allowed
    /\ program = "framework_test" => Named(ClosingNames) \subseteq Allowed
  <1>1. Allowed \subseteq Statements
    BY DEF Allowed
  <1>2. ASSUME NEW s, NEW x, <<s, x>> \in Allowed PROVE Kept(s, x) \subseteq Allowed
    BY <1>2 DEF Kept, Common, Allowed
  <1>3. /\ \A r \in Late : r \in Statements /\ r[1] \notin ClosingNames \cup {"throw"}
        /\ \A r \in Plain : r \in Statements /\ r \notin Late /\ r[1] \notin ClosingNames \cup {"throw"}
    <2>1. <<"get", "MinionProxy">> \in Statements /\ <<"lock", "MinionProxy">> \in Statements
      BY NamesInLists DEF Statements
    <2>. QED
      BY <2>1 DEF Late, Named, ClosingNames, Plain
  <1>4. Plain \subseteq Allowed /\ (program # "framework_test" => Late \subseteq Allowed)
    BY <1>3 DEF Allowed
  <1>10. Heard \subseteq Allowed
    <2>1. <<"use", "m_loader">> \in Statements /\ <<"use", "m_loader">> \notin Late
      BY DEF Statements, Objects, Late, Named
    <2>. QED
      BY <2>1 DEF Heard, Allowed, ClosingNames
  <1>5. program # "framework_test" => Named({"mv"}) \subseteq Allowed /\ <<"sleep", "main">> \in Allowed
    BY DEF Allowed, Named, Statements, ClosingNames
  <1>6. program # "framework_test" => Before \cup After \cup {<<"sleep", "main">>} \subseteq Allowed
    BY <1>4, <1>5 DEF Before, After
  <1>7. program = "framework_test" => Named(ClosingNames) \subseteq Allowed
    BY <1>3 DEF Named, Allowed, ClosingNames
  <1>8. program = "framework_test" => {<<"get", "FrameWork">>, <<"exit", "main">>} \subseteq Allowed
    <2>1. <<"exit", "main">> \in Named(ClosingNames)
      BY DEF Named, ClosingNames, Statements
    <2>2. <<"get", "FrameWork">> \in Plain
      BY PlainStatements, NamesInLists
    <2>. QED
      BY <1>4, <1>7, <2>1, <2>2
  <1>9. \A lib \in Libraries : <<"task", lib>> \in Late /\ <<"create", lib>> \in Late
    BY DEF Late, Named, Statements
  <1>. QED
    BY <1>1, <1>2, <1>4, <1>6, <1>7, <1>8, <1>9, <1>10

\* What exit puts in front.
Last == Named({"stopMediator", "drop", "flag", "push", "join", "exit"})

\* Destructors consist of the statements of the end.
LEMMA DtorLists ==
    ASSUME NEW c \in Classes
    PROVE  /\ Dtor(c) \in Seq(Named(ClosingNames)) /\ Dtor(c) \in Seq(Statements)
           /\ c # "FrameWork" => Dtor(c) \in Seq(Last)
  <1>0. Last \subseteq Named(ClosingNames) /\ Named(ClosingNames) \subseteq Statements
    BY DEF Last, Named, ClosingNames
  <1>1. CASE c = "FrameWork"
    <2>1. /\ <<"stopMonitor", "main">> \in Named(ClosingNames) /\ <<"createDir", "main">> \in Named(ClosingNames)
          /\ <<"joinMonitor", "main">> \in Named(ClosingNames) /\ <<"stopMediator", "main">> \in Named(ClosingNames)
          /\ <<"drop", "m_mediator">> \in Named(ClosingNames) /\ <<"drop", "m_factory">> \in Named(ClosingNames)
          /\ <<"drop", "m_loader">> \in Named(ClosingNames)
      BY NamesInLists DEF Named, ClosingNames, Statements
    <2>2. FrameWorkDtor \in Seq(Named(ClosingNames))
      BY <2>1, ShortLists DEF FrameWorkDtor
    <2>. QED
      BY <1>0, <1>1, <2>2, SeqMonotonic DEF Dtor
  <1>2. CASE c = "Logger"
    <2>1. /\ <<"flag", "Logger">> \in Last /\ <<"push", "stop">> \in Last
          /\ <<"join", "Logger">> \in Last /\ <<"drop", "Logger">> \in Last
      BY NamesInLists DEF Named, Last, Statements
    <2>2. LoggerDtor \in Seq(Last)
      BY <2>1, ShortLists DEF LoggerDtor
    <2>3. Dtor(c) \in Seq(Last)
      BY <1>2, <2>2 DEF Dtor
    <2>. QED
      BY <1>0, <2>3, SeqMonotonic
  <1>3. CASE c \notin {"FrameWork", "Logger"}
    <2>1. Dtor(c) = <<<<"drop", c>>>> /\ c \in Objects
      BY <1>3, NamesInLists DEF Dtor
    <2>2. <<"drop", c>> \in Last
      BY <2>1 DEF Named, Last, Statements
    <2>3. Dtor(c) \in Seq(Last)
      BY <2>1, <2>2
    <2>. QED
      BY <1>0, <2>3, SeqMonotonic
  <1>. QED
    BY <1>1, <1>2, <1>3

\* When there is more to serve than before.
LEMMA BusyAfter ==
    ASSUME TodoOK, Step
    PROVE  /\ \A t \in Threads, q \in Seq(Statements) : \A s, x :
                 (Executes(t, s, x, q) /\ Busy') => Busy \/ s \in {"register", "mkfs", "task"}
           /\ (Stays /\ Busy') => Busy
           /\ \A t \in Threads, q \in Seq(Statements) : WorkBegins(t, q) => Busy
           /\ \A q \in Seq(Statements) : (MonitorBegins(q) /\ Busy') => Busy
           /\ \A c \in Classes : (Destroys(c) /\ Busy') => Busy
           /\ \A q \in Seq(Statements) : Starts(q) => ~Busy'
  <1>0. ASSUME NEW t \in Threads, NEW q \in Seq(Statements), NEW n \in {0, 1}, Splice(t, q, n)
        PROVE  \A u \in Threads : u # t => todo'[u] = todo[u]
    BY <1>0, SplicedLists
  <1>1. ASSUME NEW t \in Threads, NEW q \in Seq(Statements), NEW s, NEW x, Executes(t, s, x, q), Busy'
        PROVE  Busy \/ s \in {"register", "mkfs", "task"}
    <2>1. Splice(t, q, 1) /\ ServiceAfter(s) /\ todo[t] # <<>>
      BY <1>1 DEF Executes, At
    <2>2. \A u \in Threads : u # t => todo'[u] = todo[u]
      BY <1>0, <2>1
    <2>. QED
      BY <1>1, <2>1, <2>2 DEF Busy, ServiceAfter
  <1>2. ASSUME Stays, Busy' PROVE Busy
    BY <1>2 DEF Stays, Busy
  <1>3. ASSUME NEW t \in Threads, NEW q \in Seq(Statements), WorkBegins(t, q) PROVE Busy
    BY <1>3 DEF WorkBegins, Busy
  <1>4. ASSUME NEW q \in Seq(Statements), MonitorBegins(q), Busy' PROVE Busy
    <2>1. /\ Splice("monitor", q, 0) /\ UNCHANGED registered
          /\ (requests' # <<>> => requests # <<>>) /\ (tasks' # <<>> => tasks # <<>>)
      BY <1>4 DEF MonitorBegins, Begins
    <2>2. \A u \in Threads : u # "monitor" => todo'[u] = todo[u]
      BY <1>0, <2>1, NamesInLists
    <2>. QED
      BY <1>4, <2>1, <2>2 DEF Busy
  <1>5. ASSUME NEW c \in Classes, Destroys(c), Busy' PROVE Busy
    <2>1. Splice("main", Dtor(c), 0) /\ UNCHANGED <<registered, requests, tasks>>
      BY <1>5 DEF Destroys, processVars
    <2>2. \A u \in Threads : u # "main" => todo'[u] = todo[u]
      BY <1>0, <2>1, DtorLists, NamesInLists
    <2>. QED
      BY <1>5, <2>1, <2>2 DEF Busy
  <1>6. ASSUME NEW q \in Seq(Statements), Starts(q) PROVE ~Busy'
    <2>1. ProcessReset /\ todo' = Fresh(q)
      BY <1>6 DEF Starts, SingletonReset
    <2>2. \A u \in Threads \ {"main", "monitor"} : todo'[u] = <<>>
      BY <2>1 DEF Fresh
    <2>. QED
      BY <2>1, <2>2 DEF Busy, ProcessReset
  <1>. QED
    BY <1>1, <1>2, <1>3, <1>4, <1>5, <1>6

\* Putting in what is allowed.
LEMMA AllowedSplice ==
    ASSUME todo \in [Threads -> Seq(Allowed)], NEW t \in Threads, NEW q \in Seq(Allowed), NEW n \in {0, 1},
           Splice(t, q, n), UNCHANGED fileVars
    PROVE  (todo \in [Threads -> Seq(Allowed)])'
  <1>1. todo[t] \in Seq(Allowed) /\ (n = 1 => todo[t] # <<>>) /\ todo' = [todo EXCEPT ![t] = q \o Rest(todo[t], n)]
    BY DEF Splice
  <1>2. q \o Rest(todo[t], n) \in Seq(Allowed)
    BY <1>1, Spliced
  <1>3. Allowed' = Allowed
    BY DEF Allowed, fileVars
  <1>. QED
    BY <1>1, <1>2, <1>3

\* main's list stays ordered: what serves requests comes in for what serves
\* requests.
LEMMA OrderedSplice ==
    ASSUME TodoOK, Ordered(todo["main"]), NEW t \in Threads, NEW q \in Seq(Statements), NEW n \in {0, 1},
           Splice(t, q, n),
           t = "main" => /\ ~HasOne(q, {<<"sleep", "main">>})
                         /\ \/ ~HasOne(q, Late)
                            \/ n = 1 /\ todo["main"] # <<>> /\ todo["main"][1] \in Late
    PROVE  Ordered(todo'["main"])
  <1>1. /\ todo["main"] \in Seq(Statements) /\ todo'["main"] \in Seq(Statements)
        /\ t # "main" => todo'["main"] = todo["main"]
        /\ t = "main" => Moved(todo'["main"], q, todo["main"], n)
    BY MainList
  <1>2. CASE t # "main"
    BY <1>1, <1>2
  <1>3. CASE t = "main"
    <2>1. Sorted(q, Named({"mv"}), {<<"sleep", "main">>}) /\ Sorted(q, {<<"sleep", "main">>}, Late)
      BY <1>3, SortedWithout
    <2>2. Sorted(todo'["main"], Named({"mv"}), {<<"sleep", "main">>})
      BY <1>1, <1>3, <2>1, SortedMoved DEF Ordered
    <2>3. Sorted(todo'["main"], {<<"sleep", "main">>}, Late)
      BY <1>1, <1>3, <2>1, SortedMoved DEF Ordered
    <2>. QED
      BY <2>2, <2>3 DEF Ordered
  <1>. QED
    BY <1>2, <1>3

\* Nobody else is given such a call.
LEMMA UnheardSplice ==
    ASSUME TodoOK, Unheard, NEW t \in Threads, NEW q \in Seq(Statements), NEW n \in {0, 1},
           Splice(t, q, n), t = "monitor" \/ ~HasOne(q, Heard)
    PROVE  Unheard'
  <1>1. /\ \A u \in Threads : u # t => todo'[u] = todo[u]
        /\ todo'[t] \in Seq(Statements) /\ todo[t] \in Seq(Statements)
        /\ Moved(todo'[t], q, todo[t], n)
    BY SplicedLists
  <1>2. Heard' = Heard
    BY DEF Heard
  <1>. SUFFICES ASSUME NEW u \in Threads \ {"monitor"} PROVE ~HasOne(todo'[u], Heard)
    BY <1>2 DEF Unheard, HasOne
  <1>3. CASE u # t
    BY <1>1, <1>3 DEF Unheard
  <1>4. CASE u = t
    <2>1. ~HasOne(q, Heard) /\ ~HasOne(todo[t], Heard)
      BY <1>4 DEF Unheard
    <2>2. HasOne(todo'[t], Heard) => HasOne(q, Heard) \/ HasOne(todo[t], Heard)
      BY <1>1, HasOneMoved
    <2>. QED
      BY <1>4, <2>1, <2>2
  <1>. QED
    BY <1>3, <1>4

\* A program starts with such a list.
LEMMA MainLists ==
    ASSUME program \in Programs
    PROVE  /\ Main(program) \in Seq(Allowed) /\ Ordered(Main(program)) /\ ~HasOne(Main(program), Heard)
           /\ Neat(Main(program), Allowed)
           /\ Followed(Main(program), <<"watch", "main">>, <<"store", "FrameWork">>)
  <1>1. CASE program # "framework_test"
    <2>. DEFINE S == Before \cup After \cup {<<"sleep", "main">>}
    <2>1. Neat(Main(program), S) /\ Ordered(Main(program)) /\ S \subseteq Allowed
      BY <1>1, ServerMain, AllowedStatements
    <2>2. <<"watch", "main">> \notin S /\ <<"use", "m_loader">> \notin S
      BY DEF Before, After, Late, Plain, Named
    <2>. HIDE DEF S
    <2>. QED
      BY <2>1, <2>2, NeatMonotone DEF Neat, Followed, HasOne, Heard
  <1>2. CASE program = "framework_test"
    <2>. DEFINE S == {<<"get", "FrameWork">>, <<"exit", "main">>}
    <2>1. Neat(Main(program), S) /\ Ordered(Main(program)) /\ S \subseteq Allowed
      BY <1>2, TestMain, AllowedStatements
    <2>2. <<"watch", "main">> \notin S /\ <<"use", "m_loader">> \notin S
      OBVIOUS
    <2>. HIDE DEF S
    <2>. QED
      BY <2>1, <2>2, NeatMonotone DEF Neat, Followed, HasOne, Heard
  <1>. QED
    BY <1>1, <1>2

\* The empty list.
LEMMA NothingToDo ==
    /\ Ordered(<<>>) /\ \A S : <<>> \in Seq(S) /\ Neat(<<>>, S) /\ \A a, b : Followed(<<>>, a, b)
  BY ShortNeat, NoList DEF Ordered, Sorted, Followed

\* Every step keeps the lists so.
LEMMA ListsStep ==
    ASSUME TypeOK, Lists, Step
    PROVE  Lists'
  <1>0. TodoOK /\ "main" \in Threads /\ "monitor" \in Threads /\ program \in Programs
        /\ todo \in [Threads -> Seq(Allowed)] /\ Ordered(todo["main"]) /\ Unheard
    BY TypeParts, NamesInLists DEF Lists, WorldOK
  <1>1. ASSUME NEW t \in Threads, NEW q \in Seq(Statements), NEW s, NEW x, Executes(t, s, x, q)
        PROVE  Lists'
    <2>1. /\ At(t, s, x) /\ <<s, x>> \in Statements /\ Splice(t, q, 1) /\ Follow(s, x, q)
          /\ UNCHANGED fileVars
      BY <1>1 DEF Executes
    <2>2. 1 \in DOMAIN todo[t] /\ todo[t][1] = <<s, x>> /\ todo[t] \in Seq(Allowed) /\ todo[t] # <<>>
      BY <1>0, <2>1, FirstStatement DEF At
    <2>3. <<s, x>> \in Allowed
      BY <2>2
    <2>4. q \in Seq(Kept(s, x)) /\ q \in Seq(Allowed)
      <3>1. q \in Seq(Kept(s, x))
        BY <2>1, FollowNeat DEF Neat
      <3>. QED
        BY <2>3, <3>1, AllowedStatements, SeqMonotonic
    <2>5. (todo \in [Threads -> Seq(Allowed)])'
      BY <1>0, <2>1, <2>4, AllowedSplice
    <2>6. Ordered(todo["main"])'
      <3>1. ~HasOne(q, {<<"sleep", "main">>}) /\ (HasOne(q, Late) => <<s, x>> \in Late)
        <4>1. \A r \in Kept(s, x) : r # <<"sleep", "main">> /\ (r \in Late => <<s, x>> \in Late)
          BY DEF Kept, Common
        <4>2. \A i \in DOMAIN q : q[i] \in Kept(s, x)
          BY <2>4
        <4>. QED
          BY <4>1, <4>2 DEF HasOne
      <3>. QED
        BY <1>0, <2>1, <2>2, <3>1, OrderedSplice
    <2>7. Busy' => program' # "framework_test"
      <3>1. s \in {"register", "mkfs", "task"} => <<s, x>> \in Late
        BY <2>1 DEF Late, Named
      <3>2. <<s, x>> \in Late => program # "framework_test"
        BY <2>3 DEF Allowed
      <3>3. Busy' => Busy \/ s \in {"register", "mkfs", "task"}
        BY <1>0, <1>1, BusyAfter
      <3>. QED
        BY <2>1, <3>1, <3>2, <3>3 DEF Lists, fileVars
    <2>8. Unheard'
      <3>1. <<"use", "m_loader">> \notin Kept(s, x)
        BY DEF Kept, Common
      <3>2. ~HasOne(q, Heard) /\ 1 \in {0, 1}
        BY <2>4, <3>1 DEF HasOne, Heard
      <3>. QED
        BY <1>0, <2>1, <3>2, UnheardSplice
    <2>. QED
      BY <2>5, <2>6, <2>7, <2>8 DEF Lists
  <1>2. ASSUME NEW c \in Classes, Destroys(c) PROVE Lists'
    <2>1. At("main", "exit", "main") /\ Splice("main", Dtor(c), 0) /\ UNCHANGED fileVars
      BY <1>2 DEF Destroys, worldVars, fileVars
    <2>2. program = "framework_test"
      <3>1. todo["main"][1] = <<"exit", "main">> /\ 1 \in DOMAIN todo["main"]
        BY <1>0, <2>1, FirstStatement
      <3>2. \A i \in DOMAIN todo["main"] : todo["main"][i] \in Allowed
        BY <1>0
      <3>3. <<"exit", "main">> \in Allowed
        BY <3>1, <3>2
      <3>. QED
        BY <3>3 DEF Allowed, ClosingNames
    <2>3. Dtor(c) \in Seq(Named(ClosingNames)) /\ Dtor(c) \in Seq(Statements) /\ Dtor(c) \in Seq(Allowed)
      BY <2>2, DtorLists, AllowedStatements, SeqMonotonic
    <2>4. (todo \in [Threads -> Seq(Allowed)])'
      <3>1. 0 \in {0, 1}
        OBVIOUS
      <3>. QED
        BY <1>0, <2>1, <2>3, <3>1, AllowedSplice
    <2>5. Ordered(todo["main"])'
      <3>1. \A r \in Named(ClosingNames) : r # <<"sleep", "main">> /\ r \notin Late
        BY DEF Named, ClosingNames, Late
      <3>2. ~HasOne(Dtor(c), {<<"sleep", "main">>}) /\ ~HasOne(Dtor(c), Late)
        BY <2>3, <3>1 DEF HasOne
      <3>3. 0 \in {0, 1}
        OBVIOUS
      <3>. QED
        BY <1>0, <2>1, <2>3, <3>2, <3>3, OrderedSplice
    <2>6. Busy' => program' # "framework_test"
      BY <1>0, <1>2, <2>1, BusyAfter DEF Lists, fileVars
    <2>7. Unheard'
      <3>1. <<"use", "m_loader">> \notin Named(ClosingNames)
        BY DEF Named, ClosingNames
      <3>2. ~HasOne(Dtor(c), Heard) /\ 0 \in {0, 1}
        BY <2>3, <3>1 DEF HasOne, Heard
      <3>. QED
        BY <1>0, <2>1, <2>3, <3>2, UnheardSplice
    <2>. QED
      BY <2>4, <2>5, <2>6, <2>7 DEF Lists
  <1>3. ASSUME NEW t \in Threads, NEW q \in Seq(Statements), t # "main", Splice(t, q, 0), UNCHANGED fileVars,
               q \in Seq(Allowed), t = "monitor" \/ ~HasOne(q, Heard), Busy' => Busy
        PROVE  Lists'
    <2>0. 0 \in {0, 1}
      OBVIOUS
    <2>1. (todo \in [Threads -> Seq(Allowed)])'
      BY <1>0, <1>3, <2>0, AllowedSplice
    <2>2. Ordered(todo["main"])'
      BY <1>0, <1>3, <2>0, OrderedSplice
    <2>3. Unheard'
      BY <1>0, <1>3, <2>0, UnheardSplice
    <2>. QED
      BY <1>3, <2>1, <2>2, <2>3 DEF Lists, fileVars
  <1>4. ASSUME NEW q \in Seq(Statements), MonitorBegins(q) PROVE Lists'
    <2>1. Splice("monitor", q, 0) /\ UNCHANGED fileVars /\ (q = <<>> \/ \E lib \in Libraries : q = Broadcast(lib))
      BY <1>4 DEF MonitorBegins, Begins, worldVars, fileVars
    <2>2. Neat(q, Plain \cup Heard)
      BY <2>1, ShortNeat, BroadcastNeat
    <2>3. q \in Seq(Allowed)
      BY <2>2, AllowedStatements, SeqMonotonic DEF Neat
    <2>4. Busy' => Busy
      BY <1>0, <1>4, BusyAfter
    <2>. QED
      BY <1>0, <1>3, <2>1, <2>3, <2>4
  <1>5. ASSUME NEW t \in Threads, NEW q \in Seq(Statements), WorkBegins(t, q) PROVE Lists'
    <2>1. Splice(t, q, 0) /\ UNCHANGED fileVars /\ t # "main"
      BY <1>5 DEF WorkBegins, Begins, worldVars, fileVars
    <2>2. Busy /\ program # "framework_test"
      BY <1>0, <1>5, BusyAfter DEF Lists
    <2>. DEFINE O == Allowed \ Heard
    <2>3. q \in Seq(O)
      <3>1. PICK key \in Libraries : q = ReactorHandler(key) \/ q = <<<<"create", key>>>>
        BY <1>5 DEF WorkBegins
      <3>2. <<<<"create", key>>>> \in Seq(O) /\ <<<<"task", key>>>> \in Seq(O)
        <4>1. <<"create", key>> \in Allowed /\ <<"task", key>> \in Allowed
             /\ <<"create", key>> \notin Heard /\ <<"task", key>> \notin Heard
          BY <2>2, AllowedStatements DEF Heard
        <4>2. <<"create", key>> \in O /\ <<"task", key>> \in O
          BY <4>1
        <4>. HIDE DEF O
        <4>. QED
          BY <4>2
      <3>3. LOG("parse data") \in Seq(O)
        <4>1. Neat(LOG("parse data"), Plain) /\ Plain \subseteq O
          BY ShortNeat, NamesInLists, AllowedStatements DEF Plain, Heard
        <4>. QED
          BY <4>1, SeqMonotonic DEF Neat
      <3>4. ReactorHandler(key) \in Seq(O)
        <4>. DEFINE a == LOG("parse data")
                    b == <<<<"task", key>>>>
        <4>1. ReactorHandler(key) = a \o b /\ a \in Seq(O) /\ b \in Seq(O)
          BY <3>2, <3>3 DEF ReactorHandler
        <4>. HIDE DEF a, b
        <4>. QED
          BY <4>1, ConcatProperties
      <3>. QED
        BY <3>1, <3>2, <3>4
    <2>4. q \in Seq(Allowed) /\ ~HasOne(q, Heard)
      <3>1. O \subseteq Allowed /\ \A r \in O : r \notin Heard
        OBVIOUS
      <3>. HIDE DEF O
      <3>2. \A i \in DOMAIN q : q[i] \in O
        BY <2>3
      <3>. QED
        BY <2>3, <3>1, <3>2, SeqMonotonic DEF HasOne
    <2>. QED
      BY <1>0, <1>3, <2>1, <2>2, <2>4
  <1>6. CASE Stays
    <2>1. UNCHANGED <<todo, fileVars>> /\ (Busy' => Busy)
      BY <1>0, <1>6, BusyAfter DEF Stays
    <2>2. Allowed' = Allowed /\ Unheard'
      BY <1>0, <2>1 DEF Allowed, fileVars, Unheard, HasOne, Heard
    <2>. QED
      BY <1>0, <2>1, <2>2 DEF Lists, fileVars
  <1>7. ASSUME NEW q \in Seq(Statements), Starts(q) PROVE Lists'
    <2>1. todo' = Fresh(q) /\ UNCHANGED fileVars /\ q \in {<<>>, Main(program)} /\ ~Busy'
      BY <1>0, <1>7, BusyAfter DEF Starts, SingletonReset
    <2>2. Allowed' = Allowed
      BY <2>1 DEF Allowed, fileVars
    <2>3. q \in Seq(Allowed) /\ Ordered(q) /\ <<>> \in Seq(Allowed) /\ ~HasOne(q, Heard)
      BY <1>0, <2>1, MainLists, NothingToDo DEF HasOne
    <2>4. todo' \in [Threads -> Seq(Allowed)] /\ todo'["main"] = q
      BY <1>0, <2>1, <2>3 DEF Fresh
    <2>5. Unheard'
      BY <1>0, <2>1, <2>3 DEF Unheard, Fresh, HasOne, Heard
    <2>. QED
      BY <2>1, <2>2, <2>3, <2>4, <2>5 DEF Lists
  <1>. QED
    BY <1>1, <1>2, <1>4, <1>5, <1>6, <1>7 DEF Step

\* And they begin so.
LEMMA ListsInit ==
    ASSUME Init
    PROVE  Lists
  <1>1. program \in Programs /\ todo = Fresh(Main(program)) /\ ProcessInit /\ "main" \in Threads
    BY NamesInLists DEF Init, SingletonInit
  <1>2. Main(program) \in Seq(Allowed) /\ Ordered(Main(program)) /\ <<>> \in Seq(Allowed)
        /\ ~HasOne(Main(program), Heard)
    BY <1>1, MainLists, NothingToDo
  <1>3. todo \in [Threads -> Seq(Allowed)] /\ todo["main"] = Main(program)
    BY <1>1, <1>2 DEF Fresh
  <1>4. ~Busy
    BY <1>1 DEF Busy, ProcessInit, Fresh
  <1>5. Unheard
    BY <1>1, <1>2 DEF Unheard, Fresh, HasOne
  <1>. QED
    BY <1>2, <1>3, <1>4, <1>5 DEF Lists

(***************************************************************************)
(* What is used is there.                                                  *)
(***************************************************************************)

\* Whoever relies on an instance has it, or gets it before.
Covered ==
    \A c \in Classes : c \in m_instance \/ \A t \in Threads : PrecededBy(todo[t], Gets(c), Relies(c))

\* The objects that are there when an instance of c is, of a server also the
\* loader, which framework_test deletes.
Owes(c) == {o \in Comprises(c) : o = "m_loader" => program # "framework_test"}

\* What they are.
LEMMA OwesMore ==
    ASSUME NEW c \in Classes
    PROVE  Provides(c) \subseteq Owes(c) /\ Owes(c) \subseteq Comprises(c)
  <1>1. "m_loader" \notin Provides(c)
    BY FrameWorkAssumption DEF Provides
  <1>. QED
    BY <1>1 DEF Owes, Comprises

\* An instance that can be had is complete.
Live == \A c \in m_instance : Owes(c) \subseteq objects

\* It is complete when it is stored.
Made ==
    \A c \in Classes : \A o \in Owes(c) :
       o \in objects \/ \A t \in Threads : PrecededBy(todo[t], {<<"make", o>>}, {<<"store", c>>})

ProxyMade == "proxy" \in objects \/ \A t \in Threads : PrecededBy(todo[t], MakesProxy, ProxyUsers)

Sound == Covered /\ Live /\ Made /\ ProxyMade

\* The monitor's thread runs with a logger, and with a FrameWork that is
\* there or that main is about to store: it constructs neither.
Reads == {<<"get", "FrameWork">>, <<"lock", "FrameWork">>, <<"get", "Logger">>, <<"lock", "Logger">>,
          <<"log", "dlopen fail">>} \cup Heard \cup Named({"add"})

Monitored ==
    /\ todo["monitor"] \in Seq(Reads)
    /\ mon = "none" => todo["monitor"] = <<>>
    /\ mon # "none" => /\ "Logger" \in m_instance
                       /\ "FrameWork" \in m_instance \/ Has(todo["main"], <<"store", "FrameWork">>)
    /\ Followed(todo["main"], <<"watch", "main">>, <<"store", "FrameWork">>)

\* A process that serves requests has what they need.
Serving ==
    Busy => /\ "FrameWork" \in m_instance /\ "proxy" \in objects
            /\ ~HasOne(todo["main"], {<<"sleep", "main">>})

\* The stages of a program that ends: it asks for FrameWork, constructs it,
\* returns from main, destroys FrameWork, then the rest.
Constr ==
    Named({"make", "config", "thread", "watch", "store"})
    \cup {s \in Named({"get", "lock", "atexit"}) : s[2] \in {"ConfigManager", "Logger"}}
ConstrEnd == <<<<"atexit", "FrameWork">>, <<"exit", "main">>>>

Wakes == {<<"drop", "m_loader">>, <<"stopMonitor", "main">>, <<"createDir", "main">>, <<"get", "Logger">>, <<"lock", "Logger">>,
          <<"log", "mkdir dir fail">>}
WakesEnd == <<<<"joinMonitor", "main">>, <<"stopMediator", "main">>, <<"drop", "m_mediator">>,
              <<"drop", "m_factory">>, <<"exit", "main">>>>

NoFrameWork == \A i \in DOMAIN exitFuncs : exitFuncs[i] # "FrameWork"

Opening ==
    /\ \E s \in {"get", "lock"} : todo["main"] = <<<<s, "FrameWork">>, <<"exit", "main">>>>
    /\ "FrameWork" \notin m_instance /\ NoFrameWork

Building == (\E p \in Seq(Constr) : todo["main"] = p \o ConstrEnd) /\ NoFrameWork

Ready ==
    /\ todo["main"] = <<<<"exit", "main">>>> /\ "Logger" \in m_instance
    /\ exitFuncs # <<>>
    /\ \A i \in DOMAIN exitFuncs : exitFuncs[i] = "FrameWork" <=> i = Len(exitFuncs)

Closing ==
    /\ \E p \in Seq(Wakes) : todo["main"] = p \o WakesEnd
    /\ NoFrameWork /\ "Logger" \in m_instance

Over ==
    /\ program = "framework_test" /\ mon = "ended" /\ todo["monitor"] = <<>>
    /\ todo["main"] \in Seq(Last)
    /\ NoFrameWork

Course ==
    (program = "framework_test" /\ life # "killed") => Opening \/ Building \/ Ready \/ Closing \/ Over

Alive == Sound \/ Over

\* The loader's callback is there when the monitor's thread is about to call
\* it, or in it, unless main is destroying the plug-ins.
Attended ==
    HasOne(todo["monitor"], Heard) => "m_loader" \in objects \/ (program = "framework_test" /\ Closing)

\* A list with an end to it: main goes on in its front, or has come to the
\* end.
LEMMA FrontGoesOn ==
    ASSUME NEW S, S \subseteq Statements, NEW p \in Seq(S), NEW r \in Seq(Statements), r # <<>>,
           TodoOK, todo["main"] = p \o r, NEW s, NEW x, At("main", s, x),
           NEW q \in Seq(Statements), Splice("main", q, 1)
    PROVE  \/ p = <<>> /\ <<s, x>> = Head(r) /\ todo'["main"] = q \o Tail(r)
           \/ <<s, x>> \in S /\ (q \in Seq(S) => \E o \in Seq(S) : todo'["main"] = o \o r)
  <1>0. /\ p \in Seq(Statements) /\ "main" \in Threads
        /\ Head(p \o r) = <<s, x>> /\ todo'["main"] = q \o Tail(p \o r)
    <2>1. p \in Seq(Statements) /\ "main" \in Threads
      BY SeqMonotonic, NamesInLists
    <2>2. todo' = [todo EXCEPT !["main"] = q \o Tail(p \o r)]
      BY DEF Splice, Rest
    <2>. QED
      BY <2>1, <2>2 DEF At, TodoOK
  <1>1. CASE p = <<>>
    <2>1. p \o r = r
      BY <1>1, ConcatEmptySeq
    <2>. QED
      BY <1>0, <1>1, <2>1
  <1>2. CASE p # <<>>
    <2>1. Head(p) \in S /\ Tail(p) \in Seq(S) /\ p = <<Head(p)>> \o Tail(p)
      <3>1. Head(p) \in S /\ Tail(p) \in Seq(S)
        BY <1>2
      <3>. DEFINE l == <<Head(p)>> \o Tail(p)
      <3>2. <<Head(p)>> \in Seq(S)
        BY <3>1
      <3>3. /\ l \in Seq(S) /\ Len(l) = Len(p)
            /\ \A i \in 1..Len(p) : l[i] = IF i <= 1 THEN <<Head(p)>>[i] ELSE Tail(p)[i - 1]
        BY <1>2, <3>1, <3>2, ConcatProperties, HeadTailProperties
      <3>4. \A i \in 1..Len(p) : l[i] = p[i]
        BY <1>2, <3>3, HeadTailProperties
      <3>. HIDE DEF l
      <3>5. l = p
        BY <3>3, <3>4, SeqEqual, Zenon
      <3>. QED
        BY <3>1, <3>5 DEF l
    <2>. DEFINE h == <<Head(p)>>
                u == Tail(p) \o r
    <2>2. h \in Seq(Statements) /\ Tail(p) \in Seq(Statements) /\ Head(p) \in Statements
      BY <2>1, SeqMonotonic
    <2>3. p \o r = h \o u
      BY <2>1, <2>2, StatementsAssociative
    <2>4. u \in Seq(Statements)
      BY <2>2, ConcatProperties
    <2>5. Head(h \o u) = Head(p) /\ Tail(h \o u) = u
      <3>. HIDE DEF u
      <3>1. /\ h \o u \in Seq(Statements) /\ Len(h \o u) = 1 + Len(u)
            /\ \A i \in 1..(1 + Len(u)) : (h \o u)[i] = IF i <= 1 THEN h[i] ELSE u[i - 1]
        BY <2>2, <2>4, ConcatProperties
      <3>. DEFINE l == h \o u
      <3>. HIDE DEF l
      <3>2. l # <<>> /\ Len(l) = 1 + Len(u) /\ l \in Seq(Statements) /\ Len(u) \in Nat
        BY <2>4, <3>1 DEF l
      <3>3. l[1] = Head(p) /\ \A i \in 1..Len(u) : l[i + 1] = u[i]
        BY <2>2, <3>1, <3>2 DEF l
      <3>4. Head(l) = Head(p) /\ Tail(l) \in Seq(Statements) /\ Len(Tail(l)) = Len(u)
            /\ \A i \in 1..Len(u) : Tail(l)[i] = u[i]
        BY <3>2, <3>3, HeadTailProperties
      <3>5. Tail(l) = u
        <4>. DEFINE v == Tail(l)
        <4>1. v \in Seq(Statements) /\ Len(v) = Len(u) /\ \A i \in 1..Len(u) : v[i] = u[i]
          BY <3>4
        <4>. HIDE DEF v
        <4>2. v = u
          BY <2>4, <4>1, SeqEqual, Zenon
        <4>. QED
          BY <4>2 DEF v
      <3>. QED
        BY <3>4, <3>5 DEF l
    <2>6. <<s, x>> \in S /\ todo'["main"] = q \o u
      BY <1>0, <2>1, <2>3, <2>5
    <2>7. ASSUME q \in Seq(S) PROVE \E o \in Seq(S) : todo'["main"] = o \o r
      <3>1. q \o Tail(p) \in Seq(S)
        BY <2>1, <2>7, ConcatProperties
      <3>2. q \o u = (q \o Tail(p)) \o r
        <4>. DEFINE y == Tail(p)
        <4>1. y \in Seq(Statements)
          BY <2>2
        <4>. HIDE DEF y
        <4>0. \A a, b, c \in Seq(Statements) : (a \o b) \o c = a \o (b \o c)
          BY StatementsAssociative
        <4>2. (q \o y) \o r = q \o (y \o r)
          BY <4>0, <4>1
        <4>. QED
          BY <4>2 DEF y
      <3>. QED
        BY <2>6, <3>1, <3>2
    <2>. QED
      BY <2>6, <2>7
  <1>. QED
    BY <1>1, <1>2

\* The two ends, and what they come from.
LEMMA EndLists ==
    /\ ConstrEnd \in Seq(Statements) /\ ConstrEnd # <<>>
    /\ Head(ConstrEnd) = <<"atexit", "FrameWork">> /\ Tail(ConstrEnd) = <<<<"exit", "main">>>>
    /\ WakesEnd \in Seq(Statements) /\ WakesEnd # <<>>
    /\ Head(WakesEnd) = <<"joinMonitor", "main">> /\ Tail(WakesEnd) \in Seq(Last)
    /\ Constr \subseteq Statements /\ Wakes \subseteq Statements /\ Last \subseteq Statements
  <1>1. /\ <<"atexit", "FrameWork">> \in Statements /\ <<"exit", "main">> \in Last
        /\ <<"joinMonitor", "main">> \in Statements /\ <<"stopMediator", "main">> \in Last
        /\ <<"drop", "m_mediator">> \in Last /\ <<"drop", "m_factory">> \in Last
    BY NamesInLists DEF Statements, Last, Named
  <1>2. Constr \subseteq Statements /\ Last \subseteq Statements
    BY DEF Constr, Last, Named
  <1>3. Wakes \subseteq Statements
    <2>1. <<"log", "mkdir dir fail">> \in Plain /\ <<"get", "Logger">> \in Plain /\ <<"lock", "Logger">> \in Plain
      BY PlainStatements, NamesInLists
    <2>2. <<"stopMonitor", "main">> \in Statements /\ <<"createDir", "main">> \in Statements
          /\ <<"drop", "m_loader">> \in Statements
      BY DEF Statements, Objects
    <2>. QED
      BY <2>1, <2>2, PlainStatements DEF Wakes
  <1>4. ASSUME NEW a \in Statements, NEW b \in Statements
        PROVE  <<a, b>> \in Seq(Statements) /\ <<a, b>> # <<>> /\ Head(<<a, b>>) = a /\ Tail(<<a, b>>) = <<b>>
    OBVIOUS
  <1>5. ASSUME NEW a \in Statements, NEW b \in Last, NEW c \in Last, NEW d \in Last, NEW e \in Last
        PROVE  /\ <<a, b, c, d, e>> \in Seq(Statements) /\ <<a, b, c, d, e>> # <<>>
               /\ Head(<<a, b, c, d, e>>) = a /\ Tail(<<a, b, c, d, e>>) \in Seq(Last)
    <2>1. Tail(<<a, b, c, d, e>>) = <<b, c, d, e>>
      OBVIOUS
    <2>. QED
      BY <1>2, <2>1
  <1>6. /\ ConstrEnd \in Seq(Statements) /\ ConstrEnd # <<>>
        /\ Head(ConstrEnd) = <<"atexit", "FrameWork">> /\ Tail(ConstrEnd) = <<<<"exit", "main">>>>
    BY <1>1, <1>2, <1>4 DEF ConstrEnd
  <1>7. /\ WakesEnd \in Seq(Statements) /\ WakesEnd # <<>>
        /\ Head(WakesEnd) = <<"joinMonitor", "main">> /\ Tail(WakesEnd) \in Seq(Last)
    BY <1>1, <1>5 DEF WakesEnd
  <1>. QED
    BY <1>2, <1>3, <1>6, <1>7

\* FrameWork's constructor.
LEMMA ConstrLists ==
    /\ \A c \in {"ConfigManager", "Logger"} :
          <<<<"lock", c>>>> \in Seq(Constr) /\ Build(c, Ctor(c)) \in Seq(Constr)
    /\ \E p \in Seq(Constr) : Build("FrameWork", Ctor("FrameWork")) \o <<<<"exit", "main">>>> = p \o ConstrEnd
  <1>0. /\ \A c \in {"ConfigManager", "Logger"} :
              /\ <<"get", c>> \in Constr /\ <<"lock", c>> \in Constr /\ <<"atexit", c>> \in Constr
        /\ \A c \in Classes : <<"store", c>> \in Constr
        /\ \A o \in Objects : <<"make", o>> \in Constr
        /\ \A key \in ConfigKeys : <<"config", key>> \in Constr
        /\ <<"thread", "Logger">> \in Constr /\ <<"watch", "main">> \in Constr
    BY NamesInLists DEF Constr, Named, Statements
  <1>1. /\ \A s \in Constr : <<s>> \in Seq(Constr)
        /\ \A s, r \in Constr : <<s, r>> \in Seq(Constr)
        /\ \A p, r \in Seq(Constr) : p \o r \in Seq(Constr)
    BY ConcatProperties
  <1>2. \A key \in ConfigKeys : GET_CONFIG(key) \in Seq(Constr)
    <2>. SUFFICES ASSUME NEW key \in ConfigKeys PROVE GET_CONFIG(key) \in Seq(Constr)
      OBVIOUS
    <2>1. <<<<"get", "ConfigManager">>>> \in Seq(Constr) /\ <<<<"config", key>>>> \in Seq(Constr)
      BY <1>0, <1>1
    <2>. QED
      BY <1>1, <2>1 DEF GET_CONFIG, Get
  <1>3. ASSUME NEW c \in {"ConfigManager", "Logger"}
        PROVE  <<<<"lock", c>>>> \in Seq(Constr) /\ Build(c, Ctor(c)) \in Seq(Constr)
    <2>1. <<<<"lock", c>>>> \in Seq(Constr) /\ <<<<"store", c>>, <<"atexit", c>>>> \in Seq(Constr)
      BY <1>0, <1>1, NamesInLists
    <2>2. Ctor(c) \in Seq(Constr)
      <3>1. CASE c = "ConfigManager"
        <4>1. Ctor(c) = <<<<"make", c>>>> /\ c \in Objects
          BY <3>1, NamesInLists DEF Ctor
        <4>. QED
          BY <1>0, <1>1, <4>1
      <3>2. CASE c = "Logger"
        <4>1. <<<<"thread", "Logger">>, <<"make", "Logger">>>> \in Seq(Constr)
          BY <1>0, <1>1, NamesInLists
        <4>2. GET_CONFIG("LOG_PATH") \in Seq(Constr)
          BY <1>2, NamesInLists
        <4>. QED
          BY <1>1, <3>2, <4>1, <4>2, LoggerLists
      <3>. QED
        BY <3>1, <3>2
    <2>. QED
      BY <1>1, <2>1, <2>2 DEF Build
  <1>4. Ctor("FrameWork") \in Seq(Constr)
    <2>1. /\ <<<<"make", "m_factory">>>> \in Seq(Constr) /\ <<<<"make", "m_mediator">>>> \in Seq(Constr)
          /\ <<<<"watch", "main">>, <<"make", "m_loader">>>> \in Seq(Constr) /\ Get("Logger") \in Seq(Constr)
      BY <1>0, <1>1, NamesInLists DEF Get
    <2>2. GET_CONFIG("POLICY") \in Seq(Constr) /\ GET_CONFIG("PLUG_PATH") \in Seq(Constr)
      BY <1>2, NamesInLists
    <2>. DEFINE a == Get("Logger")
                b == <<<<"make", "m_factory">>>>
                c == GET_CONFIG("POLICY")
                d == <<<<"make", "m_mediator">>>>
                e == GET_CONFIG("PLUG_PATH")
                f == <<<<"watch", "main">>, <<"make", "m_loader">>>>
    <2>3. Ctor("FrameWork") = a \o b \o c \o d \o e \o f
      BY DEF Ctor, FrameWorkCtor
    <2>4. /\ a \in Seq(Constr) /\ b \in Seq(Constr) /\ c \in Seq(Constr)
          /\ d \in Seq(Constr) /\ e \in Seq(Constr) /\ f \in Seq(Constr)
      BY <2>1, <2>2
    <2>. HIDE DEF a, b, c, d, e, f
    <2>5. a \o b \o c \o d \o e \o f \in Seq(Constr)
      BY <1>1, <2>4
    <2>. QED
      BY <2>3, <2>5
  <1>5. \E p \in Seq(Constr) : Build("FrameWork", Ctor("FrameWork")) \o <<<<"exit", "main">>>> = p \o ConstrEnd
    <2>. DEFINE k == Ctor("FrameWork")
                a == <<"store", "FrameWork">>
                b == <<"atexit", "FrameWork">>
                e == <<"exit", "main">>
    <2>1. /\ Build("FrameWork", Ctor("FrameWork")) = k \o Two(a, b) /\ ConstrEnd = Two(b, e)
          /\ <<<<"exit", "main">>>> = One(e)
      BY DEF Build, One, Two, ConstrEnd
    <2>2. a \in Constr /\ a \in Statements /\ b \in Statements /\ e \in Statements
          /\ k \in Seq(Constr) /\ k \in Seq(Statements)
      <3>1. a \in Constr /\ k \in Seq(Constr) /\ Constr \subseteq Statements
        BY <1>0, <1>4, NamesInLists, EndLists
      <3>2. b \in Statements /\ e \in Statements
        BY NamesInLists DEF Statements
      <3>. QED
        BY <3>1, <3>2, SeqMonotonic
    <2>. HIDE DEF k, a, b, e
    <2>3. One(a) \in Seq(Statements) /\ One(b) \in Seq(Statements) /\ One(e) \in Seq(Statements)
          /\ One(a) \in Seq(Constr)
      BY <2>2 DEF One
    <2>4. k \o Two(a, b) = (k \o One(a)) \o One(b) /\ Two(b, e) = One(b) \o One(e)
      <3>1. k \o Two(a, b) = (k \o One(a)) \o One(b)
        <4>1. \A p \in Seq(Statements) : \A x, y \in Statements : p \o Two(x, y) = (p \o One(x)) \o One(y)
          BY TwoStatements
        <4>. QED
          BY <2>2, <4>1
      <3>2. Two(b, e) = One(b) \o One(e)
        BY Pair DEF One, Two
      <3>. QED
        BY <3>1, <3>2
    <2>5. k \o One(a) \in Seq(Constr) /\ k \o One(a) \in Seq(Statements)
      BY <2>2, <2>3, ConcatProperties
    <2>6. ((k \o One(a)) \o One(b)) \o One(e) = (k \o One(a)) \o (One(b) \o One(e))
      <3>. DEFINE x == k \o One(a)
                  y == One(b)
                  z == One(e)
      <3>1. x \in Seq(Statements) /\ y \in Seq(Statements) /\ z \in Seq(Statements)
        BY <2>3, <2>5
      <3>. HIDE DEF x, y, z
      <3>2. (x \o y) \o z = x \o (y \o z)
        BY <3>1, StatementsAssociative
      <3>. QED
        BY <3>2 DEF x, y, z
    <2>. QED
      BY <2>1, <2>4, <2>5, <2>6
  <1>. QED
    BY <1>3, <1>5

\* FrameWork's destructor, in front of exit.
LEMMA ClosingLists ==
    /\ \E p \in Seq(Wakes) : Dtor("FrameWork") \o <<<<"exit", "main">>>> = p \o WakesEnd
    /\ LOG("mkdir dir fail") \in Seq(Wakes)
    /\ Neat(Dtor("FrameWork"), Statements)
  <1>1. \E p \in Seq(Wakes) : Dtor("FrameWork") \o <<<<"exit", "main">>>> = p \o WakesEnd
    <2>. DEFINE m == <<"drop", "m_loader">>
                a == <<"stopMonitor", "main">>
                b == <<"createDir", "main">>
                c == <<"joinMonitor", "main">>
                d == <<"stopMediator", "main">>
                e == <<"drop", "m_mediator">>
                f == <<"drop", "m_factory">>
                g == <<"exit", "main">>
    <2>1. Dtor("FrameWork") = <<m, a, b, c, d, e, f>> /\ WakesEnd = <<c, d, e, f, g>>
      BY DEF Dtor, FrameWorkDtor, WakesEnd
    <2>2. m \in Wakes /\ a \in Wakes /\ b \in Wakes
      BY DEF Wakes
    <2>. HIDE DEF m, a, b, c, d, e, f
    <2>3. Dtor("FrameWork") \o <<<<"exit", "main">>>> = <<m, a, b>> \o WakesEnd
      <3>. HIDE DEF g
      <3>. DEFINE S == {m, a, b, c, d, e, f, g}
                  l == <<m, a, b, c, d, e, f>> \o <<g>>
                  k == <<m, a, b>> \o <<c, d, e, f, g>>
      <3>1. /\ <<m, a, b, c, d, e, f>> \in Seq(S) /\ <<g>> \in Seq(S)
            /\ <<m, a, b>> \in Seq(S) /\ <<c, d, e, f, g>> \in Seq(S)
        OBVIOUS
      <3>. HIDE DEF S
      <3>2. /\ l \in Seq(S) /\ Len(l) = 8
            /\ \A i \in 1..8 : l[i] = IF i <= 7 THEN <<m, a, b, c, d, e, f>>[i] ELSE <<g>>[i - 7]
        BY <3>1, ConcatProperties
      <3>3. /\ k \in Seq(S) /\ Len(k) = 8
            /\ \A i \in 1..8 : k[i] = IF i <= 3 THEN <<m, a, b>>[i] ELSE <<c, d, e, f, g>>[i - 3]
        BY <3>1, ConcatProperties
      <3>. HIDE DEF l, k
      <3>4. l[1] = m /\ l[2] = a /\ l[3] = b /\ l[4] = c /\ l[5] = d /\ l[6] = e /\ l[7] = f /\ l[8] = g
        BY <3>2
      <3>5. k[1] = m /\ k[2] = a /\ k[3] = b /\ k[4] = c /\ k[5] = d /\ k[6] = e /\ k[7] = f /\ k[8] = g
        BY <3>3
      <3>6. \A i \in 1..8 : l[i] = k[i]
        BY <3>4, <3>5
      <3>7. l = k
        BY <3>2, <3>3, <3>6
      <3>. QED
        BY <2>1, <3>7 DEF l, k, g
    <2>4. <<m, a, b>> \in Seq(Wakes)
      BY <2>2
    <2>. QED
      BY <2>3, <2>4
  <1>2. LOG("mkdir dir fail") \in Seq(Wakes)
    <2>. DEFINE a == <<"get", "Logger">>
                b == <<"log", "mkdir dir fail">>
    <2>1. a \in Wakes /\ b \in Wakes
      BY DEF Wakes
    <2>2. LOG("mkdir dir fail") = <<a>> \o <<b>>
      BY DEF LOG, Get
    <2>. HIDE DEF a, b
    <2>3. <<a>> \in Seq(Wakes) /\ <<b>> \in Seq(Wakes)
      BY <2>1
    <2>4. <<a>> \o <<b>> \in Seq(Wakes)
      BY <2>3, ConcatProperties
    <2>. QED
      BY <2>2, <2>4
  <1>3. Neat(Dtor("FrameWork"), Statements)
    <2>1. Dtor("FrameWork") \in Seq(Named(ClosingNames)) /\ Dtor("FrameWork") \in Seq(Statements)
      BY DtorLists, NamesInLists
    <2>2. \A s \in Named(ClosingNames) : Independent(s)
      BY DEF Named, ClosingNames, Independent, Dependent
    <2>. QED
      BY <2>1, <2>2, IndependentNeat
  <1>. QED
    BY <1>1, <1>2, <1>3

\* A list that a thread may be given in this state.
Suits(q) ==
    /\ \A c \in Classes : c \in m_instance \/ PrecededBy(q, Gets(c), Relies(c))
    /\ "proxy" \in objects \/ PrecededBy(q, MakesProxy, ProxyUsers)
    /\ \A c \in Classes : \A o \in Owes(c) :
          o \in objects \/ PrecededBy(q, {<<"make", o>>}, {<<"store", c>>})

\* A neat list suits any state.
LEMMA NeatSuits ==
    ASSUME NEW q, NEW S, Neat(q, S)
    PROVE  Suits(q)
  BY OwesMore DEF Neat, Suits

\* Soundness is kept when what is put in suits the state, and what is taken
\* away has had its effect.
LEMMA SoundSplice ==
    ASSUME TodoOK, Sound, NEW t \in Threads, NEW q \in Seq(Statements), NEW n \in {0, 1}, Splice(t, q, n),
           Suits(q), program' = program, m_instance \subseteq m_instance',
           \A o \in objects : o \in objects' \/ (o = "m_loader" /\ program = "framework_test"),
           \A c \in m_instance' : c \in m_instance \/ Owes(c) \subseteq objects',
           n = 1 => /\ \A c \in Classes : todo[t][1] \in Gets(c) => c \in m_instance' \/ HasOne(q, Gets(c))
                    /\ \A o : todo[t][1] = <<"make", o>> => o \in objects'
    PROVE  Sound'
  <1>1. /\ \A u \in Threads : u # t => todo'[u] = todo[u]
        /\ todo'[t] \in Seq(Statements) /\ todo[t] \in Seq(Statements)
        /\ Moved(todo'[t], q, todo[t], n)
    BY SplicedLists
  <1>2. ASSUME NEW A, NEW U, \A u \in Threads : PrecededBy(todo[u], A, U), PrecededBy(q, A, U),
               n = 1 => todo[t][1] \notin A \/ HasOne(q, A)
        PROVE  \A u \in Threads : PrecededBy(todo'[u], A, U)
    <2>1. PrecededBy(todo'[t], A, U)
      BY <1>1, <1>2, PrecededByMoved
    <2>. QED
      BY <1>1, <1>2, <2>1
  <1>3. Covered'
    <2>. SUFFICES ASSUME NEW c \in Classes, c \notin m_instance'
                  PROVE  \A u \in Threads : PrecededBy(todo'[u], Gets(c), Relies(c))
      BY DEF Covered
    <2>1. c \notin m_instance
      OBVIOUS
    <2>. QED
      BY <1>2, <2>1 DEF Sound, Covered, Suits
  <1>o. /\ \A c : Owes(c)' = Owes(c)
        /\ \A c : \A o \in Owes(c) : o \in objects => o \in objects'
    BY DEF Owes, Comprises, Provides
  <1>4. Live'
    BY <1>o DEF Live, Sound
  <1>5. Made'
    <2>. SUFFICES ASSUME NEW c \in Classes, NEW o \in Owes(c), o \notin objects'
                  PROVE  \A u \in Threads : PrecededBy(todo'[u], {<<"make", o>>}, {<<"store", c>>})
      BY <1>o DEF Made
    <2>1. o \notin objects
      BY <1>o
    <2>2. n = 1 => todo[t][1] \notin {<<"make", o>>}
      OBVIOUS
    <2>3. /\ \A u \in Threads : PrecededBy(todo[u], {<<"make", o>>}, {<<"store", c>>})
          /\ PrecededBy(q, {<<"make", o>>}, {<<"store", c>>})
      BY <2>1 DEF Sound, Made, Suits
    <2>. QED
      BY <1>2, <2>2, <2>3
  <1>6. ProxyMade'
    <2>. SUFFICES ASSUME "proxy" \notin objects'
                  PROVE  \A u \in Threads : PrecededBy(todo'[u], MakesProxy, ProxyUsers)
      BY DEF ProxyMade
    <2>1. "proxy" \notin objects
      OBVIOUS
    <2>2. n = 1 => todo[t][1] \notin MakesProxy
      BY DEF MakesProxy
    <2>3. (\A u \in Threads : PrecededBy(todo[u], MakesProxy, ProxyUsers)) /\ PrecededBy(q, MakesProxy, ProxyUsers)
      BY <2>1 DEF Sound, ProxyMade, Suits
    <2>. QED
      BY <1>2, <2>2, <2>3
  <1>. QED
    BY <1>3, <1>4, <1>5, <1>6 DEF Sound

\* What a statement relies on is there when its turn comes.
LEMMA FirstIsServed ==
    ASSUME TodoOK, Sound, NEW t \in Threads, NEW s, NEW x, At(t, s, x)
    PROVE  /\ \A c \in Classes : <<s, x>> \in Relies(c) => c \in m_instance /\ Owes(c) \subseteq objects
           /\ <<s, x>> \in ProxyUsers => "proxy" \in objects
           /\ \A c \in Classes : <<s, x>> = <<"store", c>> => Owes(c) \subseteq objects
  <1>1. 1 \in DOMAIN todo[t] /\ todo[t][1] = <<s, x>> /\ \A k \in DOMAIN todo[t] : k >= 1
    <2>1. todo[t] \in Seq(Statements)
      BY DEF TodoOK
    <2>2. \A k \in DOMAIN todo[t] : k >= 1
      BY <2>1
    <2>. QED
      BY <2>2, FirstStatement
  <1>2. ASSUME NEW A, NEW U, PrecededBy(todo[t], A, U) PROVE <<s, x>> \notin U
    <2>1. \A k \in DOMAIN todo[t] : ~(k < 1)
      BY <1>1, FirstStatement
    <2>. QED
      BY <1>1, <1>2, <2>1 DEF PrecededBy
  <1>3. ASSUME NEW c \in Classes, <<s, x>> \in Relies(c) PROVE c \in m_instance /\ Owes(c) \subseteq objects
    BY <1>2, <1>3 DEF Sound, Covered, Live
  <1>4. ASSUME <<s, x>> \in ProxyUsers PROVE "proxy" \in objects
    BY <1>2, <1>4 DEF Sound, ProxyMade
  <1>5. ASSUME NEW c \in Classes, <<s, x>> = <<"store", c>>, NEW o \in Owes(c) PROVE o \in objects
    <2>1. <<s, x>> \in {<<"store", c>>}
      BY <1>5
    <2>. QED
      BY <1>2, <2>1 DEF Sound, Made
  <1>. QED
    BY <1>3, <1>4, <1>5

\* Every statement but the destructors', and the one that deletes the loader.
LEMMA SoundExecutes ==
    ASSUME TypeOK, Sound, NEW t \in Threads, NEW q \in Seq(Statements), NEW s, NEW x, Executes(t, s, x, q),
           s = "drop" => x = "m_loader" /\ program = "framework_test"
    PROVE  Sound'
  <1>0. TodoOK /\ At(t, s, x) /\ <<s, x>> \in Statements /\ Splice(t, q, 1) /\ Follow(s, x, q) /\ ObjectsAfter(s, x)
        /\ program' = program
    BY TypeParts DEF Executes, fileVars
  <1>1. 1 \in DOMAIN todo[t] /\ todo[t][1] = <<s, x>>
    BY <1>0, FirstStatement
  <1>2. Suits(q)
    BY <1>0, FollowNeat, NeatSuits
  <1>3. m_instance \subseteq m_instance'
        /\ \A o \in objects : o \in objects' \/ (o = "m_loader" /\ program = "framework_test")
    BY <1>0 DEF ObjectsAfter
  <1>4. \A c \in m_instance' : c \in m_instance \/ Owes(c) \subseteq objects'
    <2>. SUFFICES ASSUME NEW c \in m_instance', c \notin m_instance PROVE Owes(c) \subseteq objects'
      OBVIOUS
    <2>1. s = "store" /\ c = x /\ objects' = objects
      BY <1>0 DEF ObjectsAfter
    <2>2. <<s, x>> = <<"store", c>> /\ c \in Classes
      BY <1>0, <2>1, StatementKinds
    <2>. QED
      BY <1>0, <2>1, <2>2, FirstIsServed
  <1>5. ASSUME NEW c \in Classes, <<s, x>> \in Gets(c) PROVE c \in m_instance' \/ HasOne(q, Gets(c))
    <2>1. x = c /\ s \in {"get", "lock", "store"}
      BY <1>5 DEF Gets
    <2>2. CASE s = "store"
      BY <1>0, <2>1, <2>2 DEF ObjectsAfter
    <2>3. CASE s \in {"get", "lock"}
      BY <1>0, <1>3, <2>1, <2>3, FollowNeat
    <2>. QED
      BY <2>1, <2>2, <2>3
  <1>6. \A o : <<s, x>> = <<"make", o>> => o \in objects'
    BY <1>0 DEF ObjectsAfter
  <1>7. 1 \in {0, 1}
    OBVIOUS
  <1>. QED
    BY <1>0, <1>1, <1>2, <1>3, <1>4, <1>5, <1>6, <1>7, SoundSplice

Core == Alive /\ Monitored /\ Serving /\ Course /\ Attended

\* The monitor's thread does not construct anything: its logger is there,
\* and main is in FrameWork's critical section until FrameWork is.
LEMMA MonitorReads ==
    ASSUME TypeOK, Construction, Core, NEW q \in Seq(Statements), NEW s, NEW x, Executes("monitor", s, x, q)
    PROVE  /\ mon # "none" /\ s \in {"get", "lock", "log", "add", "use"}
           /\ q \in Seq(Reads) /\ todo'["monitor"] \in Seq(Reads) /\ todo'["main"] = todo["main"]
  <1>0. /\ TodoOK /\ "monitor" \in Threads /\ "main" \in Threads /\ "FrameWork" \in Classes
        /\ todo["monitor"] \in Seq(Reads) /\ todo["monitor"] # <<>>
        /\ At("monitor", s, x) /\ Splice("monitor", q, 1) /\ Follow(s, x, q)
    BY TypeParts, NamesInLists DEF Core, Monitored, Executes, At
  <1>1. mon # "none"
    BY <1>0 DEF Core, Monitored
  <1>2. <<s, x>> \in Reads
    <2>1. 1 \in DOMAIN todo["monitor"] /\ todo["monitor"][1] = <<s, x>>
      BY <1>0, FirstStatement
    <2>2. \A i \in DOMAIN todo["monitor"] : todo["monitor"][i] \in Reads
      BY <1>0
    <2>. QED
      BY <2>1, <2>2
  <1>3. s \in {"get", "lock", "log", "add", "use"} /\ (s \in {"get", "lock"} => x \in {"FrameWork", "Logger"})
    <2>. DEFINE r == <<s, x>>
    <2>1. r[1] \in {"get", "lock", "log", "add", "use"} /\ (r[1] \in {"get", "lock"} => r[2] \in {"FrameWork", "Logger"})
      BY <1>2 DEF Reads, Named, Heard
    <2>. QED
      BY <2>1
  <1>4. q \in Seq(Reads)
    <2>1. CASE q = <<>>
      BY <2>1, NoList
    <2>2. CASE s = "get" /\ q = <<<<"lock", x>>>>
      <3>1. <<"lock", x>> \in Reads
        BY <1>3, <2>2 DEF Reads
      <3>. QED
        BY <2>2, <3>1
    <2>3. CASE s = "lock" /\ x \notin m_instance /\ m_mutex[x] = NoThread
      <3>1. x # "Logger"
        BY <1>1, <2>3 DEF Core, Monitored
      <3>2. x = "FrameWork"
        BY <1>3, <2>3, <3>1
      <3>3. PICK i \in DOMAIN todo["main"] : todo["main"][i] = <<"store", "FrameWork">>
        BY <1>1, <2>3, <3>2 DEF Core, Monitored, Has
      <3>4. m_mutex["FrameWork"] = "main"
        BY <1>0, <3>3 DEF Construction, InSection, Ends
      <3>. QED
        BY <1>0, <2>3, <3>2, <3>4, SingletonAssumption
    <2>. QED
      BY <1>0, <1>3, <2>1, <2>2, <2>3 DEF Follow
  <1>5. todo'["monitor"] \in Seq(Reads)
    <2>1. todo'["monitor"] = q \o Rest(todo["monitor"], 1)
      BY <1>0 DEF Splice, TodoOK
    <2>2. 1 \in {0, 1}
      OBVIOUS
    <2>3. q \o Rest(todo["monitor"], 1) \in Seq(Reads)
      BY <1>0, <1>4, <2>2, Spliced
    <2>. QED
      BY <2>1, <2>3
  <1>6. todo'["main"] = todo["main"]
    BY <1>0 DEF Splice, TodoOK
  <1>. QED
    BY <1>1, <1>3, <1>4, <1>5, <1>6

\* What the monitor's thread takes up.
LEMMA BroadcastReads ==
    ASSUME NEW lib \in Libraries
    PROVE  Broadcast(lib) \in Seq(Reads)
  <1>. DEFINE g == <<"get", "Logger">>
              d == <<"log", "dlopen fail">>
              f == <<"get", "FrameWork">>
              a == <<"add", lib>>
              u == <<"use", "m_loader">>
              n == Notify(lib)
  <1>1. g \in Reads /\ d \in Reads /\ f \in Reads /\ u \in Reads
    BY DEF Reads, Heard
  <1>2. a \in Reads
    BY DEF Reads, Named, Statements
  <1>3. n \in {<<g>> \o <<d>>, <<f>> \o <<a>>} /\ Broadcast(lib) = (<<u>> \o n) \o <<u>>
    BY DEF Notify, LOG, Register, Get, Broadcast
  <1>. HIDE DEF g, d, f, a, u, n
  <1>4. <<g>> \in Seq(Reads) /\ <<d>> \in Seq(Reads) /\ <<f>> \in Seq(Reads) /\ <<a>> \in Seq(Reads)
        /\ <<u>> \in Seq(Reads)
    BY <1>1, <1>2
  <1>5. <<g>> \o <<d>> \in Seq(Reads) /\ <<f>> \o <<a>> \in Seq(Reads)
    BY <1>4, ConcatProperties
  <1>6. <<u>> \o n \in Seq(Reads)
    BY <1>3, <1>4, <1>5, ConcatProperties
  <1>. QED
    BY <1>3, <1>4, <1>6, ConcatProperties

\* When everything is over, main has only destructors to execute.
LEMMA OverExecutes ==
    ASSUME TypeOK, Lists, Over, NEW t \in Threads, NEW q \in Seq(Statements), NEW s, NEW x, Executes(t, s, x, q)
    PROVE  Over' /\ t = "main" /\ <<s, x>> \in Last
  <1>0. /\ TodoOK /\ "main" \in Threads /\ "monitor" \in Threads /\ todo[t] # <<>>
        /\ At(t, s, x) /\ Splice(t, q, 1) /\ Follow(s, x, q) /\ ObjectsAfter(s, x) /\ ServiceAfter(s)
        /\ UNCHANGED fileVars /\ todo["main"] \in Seq(Last)
    BY TypeParts, NamesInLists DEF Over, Executes, At
  <1>1. t = "main"
    BY <1>0 DEF Over, Lists, Busy
  <1>2. <<s, x>> \in Last
    <2>1. 1 \in DOMAIN todo["main"] /\ todo["main"][1] = <<s, x>>
      BY <1>0, <1>1, FirstStatement
    <2>2. \A i \in DOMAIN todo["main"] : todo["main"][i] \in Last
      BY <1>0
    <2>. QED
      BY <2>1, <2>2
  <1>3. s \in {"stopMediator", "drop", "flag", "push", "join", "exit"}
    BY <1>2 DEF Last, Named
  <1>4. q = <<>>
    BY <1>0, <1>3 DEF Follow
  <1>5. todo'["main"] \in Seq(Last) /\ todo'["monitor"] = todo["monitor"]
    <2>1. todo'["main"] = q \o Rest(todo["main"], 1) /\ todo'["monitor"] = todo["monitor"]
      BY <1>0, <1>1 DEF Splice, TodoOK
    <2>2. 1 \in {0, 1} /\ q \in Seq(Last)
      BY <1>4, NoList
    <2>3. q \o Rest(todo["main"], 1) \in Seq(Last)
      BY <1>0, <1>1, <2>2, Spliced
    <2>. QED
      BY <2>1, <2>3
  <1>6. mon' = mon /\ exitFuncs' = exitFuncs /\ program' = program
    BY <1>0, <1>3 DEF ServiceAfter, ObjectsAfter, fileVars
  <1>7. Over'
    BY <1>5, <1>6 DEF Over, NoFrameWork
  <1>. QED
    BY <1>1, <1>2, <1>7

\* The test of the framework goes from stage to stage.
Stage == Opening \/ Building \/ Ready \/ Closing \/ Over

\* From the beginning to FrameWork's constructor.
LEMMA OpeningExecutes ==
    ASSUME TypeOK, Opening, NEW q \in Seq(Statements), NEW s, NEW x, Executes("main", s, x, q)
    PROVE  Stage' /\ s # "drop"
  <1>0. /\ TodoOK /\ "main" \in Threads /\ At("main", s, x) /\ Splice("main", q, 1) /\ Follow(s, x, q)
        /\ ObjectsAfter(s, x)
    BY TypeParts, NamesInLists DEF Executes
  <1>1. PICK s0 \in {"get", "lock"} : todo["main"] = <<<<s0, "FrameWork">>, <<"exit", "main">>>>
    BY DEF Opening
  <1>. DEFINE e == <<"exit", "main">>
              f == <<s0, "FrameWork">>
  <1>2. s = s0 /\ x = "FrameWork" /\ todo'["main"] = q \o <<e>>
    <2>1. todo["main"] = <<f, e>>
      BY <1>1
    <2>2. todo'["main"] = q \o Tail(todo["main"]) /\ Head(todo["main"]) = <<s, x>>
      BY <1>0 DEF Splice, Rest, At, TodoOK
    <2>. HIDE DEF e, f
    <2>3. Head(<<f, e>>) = f /\ Tail(<<f, e>>) = <<e>>
      OBVIOUS
    <2>4. f = <<s, x>> /\ todo'["main"] = q \o <<e>>
      BY <2>1, <2>2, <2>3
    <2>. QED
      BY <2>4 DEF f
  <1>3. s # "drop" /\ m_instance' = m_instance /\ exitFuncs' = exitFuncs
    BY <1>0, <1>2 DEF ObjectsAfter
  <1>4. "FrameWork" \notin m_instance' /\ NoFrameWork'
    BY <1>3 DEF Opening, NoFrameWork
  <1>5. CASE s = "get"
    <2>. DEFINE k == <<"lock", "FrameWork">>
    <2>1. q = <<k>>
      BY <1>0, <1>2, <1>4, <1>3, <1>5 DEF Follow
    <2>2. todo'["main"] = <<k, e>>
      <3>. HIDE DEF k, e
      <3>. QED
        BY <1>2, <2>1, Pair
    <2>3. \E s1 \in {"get", "lock"} : todo'["main"] = <<<<s1, "FrameWork">>, <<"exit", "main">>>>
      BY <2>2
    <2>4. Opening'
      BY <1>4, <2>3 DEF Opening
    <2>. QED
      BY <1>3, <2>4 DEF Stage
  <1>6. CASE s = "lock"
    <2>1. q = Build("FrameWork", Ctor("FrameWork"))
      BY <1>0, <1>2, <1>4, <1>3, <1>6 DEF Follow
    <2>2. \E p \in Seq(Constr) : todo'["main"] = p \o ConstrEnd
      BY <1>2, <2>1, ConstrLists
    <2>3. Constr' = Constr /\ ConstrEnd' = ConstrEnd
      BY DEF Constr, ConstrEnd, Named
    <2>4. Building'
      BY <1>4, <2>2, <2>3 DEF Building
    <2>. QED
      BY <1>3, <2>4 DEF Stage
  <1>. QED
    BY <1>2, <1>5, <1>6

\* FrameWork's constructor returns once there is a logger.
LEMMA BuildingExecutes ==
    ASSUME TypeOK, Lists, Alive, Building, NEW q \in Seq(Statements), NEW s, NEW x, Executes("main", s, x, q)
    PROVE  Stage' /\ s # "drop"
  <1>0. /\ TodoOK /\ "main" \in Threads /\ At("main", s, x) /\ Splice("main", q, 1) /\ Follow(s, x, q)
        /\ ObjectsAfter(s, x) /\ exitFuncs \in Seq(Classes) /\ <<s, x>> \in Statements
        /\ "Logger" \in Classes /\ "FrameWork" \in Classes
    BY TypeParts, NamesInLists DEF Executes, ObjectsOK
  <1>1. PICK p \in Seq(Constr) : todo["main"] = p \o ConstrEnd
    BY DEF Building
  <1>. DEFINE r == ConstrEnd
  <1>2. /\ r \in Seq(Statements) /\ r # <<>> /\ Constr \subseteq Statements
        /\ Head(r) = <<"atexit", "FrameWork">> /\ Tail(r) = <<<<"exit", "main">>>>
    BY EndLists
  <1>. HIDE DEF r
  <1>3. \/ p = <<>> /\ <<s, x>> = Head(r) /\ todo'["main"] = q \o Tail(r)
        \/ <<s, x>> \in Constr /\ (q \in Seq(Constr) => \E o \in Seq(Constr) : todo'["main"] = o \o r)
    BY <1>0, <1>1, <1>2, FrontGoesOn DEF r
  <1>4. CASE <<s, x>> = Head(r) /\ todo'["main"] = q \o Tail(r)
    <2>1. s = "atexit" /\ x = "FrameWork" /\ q = <<>>
      <3>1. <<s, x>> = <<"atexit", "FrameWork">>
        BY <1>2, <1>4
      <3>2. s = "atexit" /\ x = "FrameWork"
        BY <3>1
      <3>. QED
        BY <1>0, <3>2 DEF Follow
    <2>2. todo'["main"] = <<<<"exit", "main">>>>
      <3>1. Tail(r) \in Seq(Statements)
        BY <1>2
      <3>2. todo'["main"] = Tail(r)
        BY <1>4, <2>1, <3>1, ConcatEmptySeq
      <3>. QED
        BY <1>2, <3>2
    <2>3. exitFuncs' = Append(exitFuncs, "FrameWork") /\ m_instance' = m_instance
      BY <1>0, <2>1 DEF ObjectsAfter
    <2>4. "Logger" \in m_instance'
      <3>1. <<s, x>> \notin Last
        BY <2>1 DEF Last, Named
      <3>2. Sound
        BY <1>0, <3>1, OverExecutes DEF Alive
      <3>3. <<"atexit", "FrameWork">> \in Relies("Logger")
        BY DEF Relies
      <3>. QED
        BY <1>0, <2>1, <2>3, <3>2, <3>3, FirstIsServed
    <2>5. /\ exitFuncs' # <<>>
          /\ \A i \in DOMAIN exitFuncs' : exitFuncs'[i] = "FrameWork" <=> i = Len(exitFuncs')
      <3>1. /\ \A i \in 1..Len(exitFuncs) : exitFuncs[i] # "FrameWork"
            /\ Len(exitFuncs) \in Nat
        BY <1>0 DEF Building, NoFrameWork
      <3>2. /\ exitFuncs' \in Seq(Classes) /\ Len(exitFuncs') = Len(exitFuncs) + 1
            /\ exitFuncs'[Len(exitFuncs) + 1] = "FrameWork"
            /\ \A i \in 1..Len(exitFuncs) : exitFuncs'[i] = exitFuncs[i]
        BY <1>0, <2>3, AppendProperties
      <3>. QED
        BY <3>1, <3>2
    <2>6. Ready'
      BY <2>2, <2>4, <2>5 DEF Ready
    <2>. QED
      BY <2>1, <2>6 DEF Stage
  <1>5. CASE <<s, x>> \in Constr /\ (q \in Seq(Constr) => \E o \in Seq(Constr) : todo'["main"] = o \o r)
    <2>1. /\ s \in {"make", "config", "thread", "watch", "store", "get", "lock", "atexit"}
          /\ s \in {"get", "lock", "atexit"} => x \in {"ConfigManager", "Logger"}
      <3>. DEFINE u == <<s, x>>
      <3>1. /\ u[1] \in {"make", "config", "thread", "watch", "store", "get", "lock", "atexit"}
            /\ u[1] \in {"get", "lock", "atexit"} => u[2] \in {"ConfigManager", "Logger"}
        BY <1>5 DEF Constr, Named
      <3>. QED
        BY <3>1
    <2>2. q \in Seq(Constr)
      <3>1. \/ q = <<>>
            \/ s = "get" /\ q = <<<<"lock", x>>>>
            \/ s = "lock" /\ q = Build(x, Ctor(x))
        BY <1>0, <2>1 DEF Follow
      <3>. QED
        BY <2>1, <3>1, ConstrLists, NoList
    <2>3. PICK o \in Seq(Constr) : todo'["main"] = o \o ConstrEnd
      BY <1>5, <2>2 DEF r
    <2>4. NoFrameWork'
      <3>1. \A i \in 1..Len(exitFuncs) : exitFuncs[i] # "FrameWork"
        BY <1>0 DEF Building, NoFrameWork
      <3>2. CASE s = "atexit"
        <4>1. x \in Classes /\ x # "FrameWork"
          BY <1>0, <2>1, <3>2, StatementKinds
        <4>2. exitFuncs' = Append(exitFuncs, x)
          BY <1>0, <3>2 DEF ObjectsAfter
        <4>3. /\ DOMAIN exitFuncs' = 1..(Len(exitFuncs) + 1)
              /\ exitFuncs'[Len(exitFuncs) + 1] = x
              /\ \A i \in 1..Len(exitFuncs) : exitFuncs'[i] = exitFuncs[i]
              /\ Len(exitFuncs) \in Nat
          BY <1>0, <4>1, <4>2, AppendProperties
        <4>. QED
          BY <3>1, <4>1, <4>3 DEF NoFrameWork
      <3>3. CASE s # "atexit"
        BY <1>0, <3>3 DEF ObjectsAfter, Building, NoFrameWork
      <3>. QED
        BY <3>2, <3>3
    <2>5. Constr' = Constr /\ ConstrEnd' = ConstrEnd
      BY DEF Constr, ConstrEnd, Named
    <2>6. Building'
      BY <2>3, <2>4, <2>5 DEF Building
    <2>. QED
      BY <2>1, <2>6 DEF Stage
  <1>. QED
    BY <1>3, <1>4, <1>5

\* FrameWork's destructor joins the monitor's thread before it drops anything
\* but the loader.
LEMMA ClosingExecutes ==
    ASSUME TypeOK, program = "framework_test", Closing,
           NEW q \in Seq(Statements), NEW s, NEW x, Executes("main", s, x, q)
    PROVE  (Closing' \/ Over') /\ (s = "drop" => x = "m_loader")
  <1>0. /\ TodoOK /\ "main" \in Threads /\ "monitor" \in Threads /\ At("main", s, x) /\ Splice("main", q, 1)
        /\ Follow(s, x, q) /\ ObjectsAfter(s, x) /\ ServiceAfter(s) /\ MayExecute("main", s)
        /\ program' = program
    BY TypeParts, NamesInLists DEF Executes, fileVars
  <1>1. PICK p \in Seq(Wakes) : todo["main"] = p \o WakesEnd
    BY DEF Closing
  <1>. DEFINE r == WakesEnd
  <1>2. /\ r \in Seq(Statements) /\ r # <<>> /\ Wakes \subseteq Statements
        /\ Head(r) = <<"joinMonitor", "main">> /\ Tail(r) \in Seq(Last) /\ Last' = Last
    BY EndLists DEF Last, Named
  <1>. HIDE DEF r
  <1>3. \/ p = <<>> /\ <<s, x>> = Head(r) /\ todo'["main"] = q \o Tail(r)
        \/ <<s, x>> \in Wakes /\ (q \in Seq(Wakes) => \E o \in Seq(Wakes) : todo'["main"] = o \o r)
    BY <1>0, <1>1, <1>2, FrontGoesOn DEF r
  <1>4. CASE <<s, x>> = Head(r) /\ todo'["main"] = q \o Tail(r)
    <2>1. s = "joinMonitor" /\ q = <<>>
      <3>1. <<s, x>> = <<"joinMonitor", "main">>
        BY <1>2, <1>4
      <3>2. s = "joinMonitor"
        BY <3>1
      <3>. QED
        BY <1>0, <3>2 DEF Follow
    <2>2. todo'["main"] \in Seq(Last)
      BY <1>2, <1>4, <2>1, ConcatEmptySeq
    <2>3. mon' = "ended" /\ todo'["monitor"] = <<>> /\ exitFuncs' = exitFuncs
      <3>1. mon = "ended" /\ todo["monitor"] = <<>> /\ mon' = mon /\ exitFuncs' = exitFuncs
        BY <1>0, <2>1 DEF MayExecute, ServiceAfter, ObjectsAfter
      <3>2. todo'["monitor"] = todo["monitor"]
        BY <1>0 DEF Splice, TodoOK
      <3>. QED
        BY <3>1, <3>2
    <2>4. Over'
      BY <1>0, <1>2, <2>2, <2>3 DEF Over, Closing, NoFrameWork
    <2>. QED
      BY <2>1, <2>4
  <1>5. CASE <<s, x>> \in Wakes /\ (q \in Seq(Wakes) => \E o \in Seq(Wakes) : todo'["main"] = o \o r)
    <2>1. /\ s \in {"drop", "stopMonitor", "createDir", "get", "lock", "log"}
          /\ s \in {"get", "lock"} => x = "Logger"
          /\ s = "drop" => x = "m_loader"
      <3>. DEFINE u == <<s, x>>
      <3>1. /\ u[1] \in {"drop", "stopMonitor", "createDir", "get", "lock", "log"}
            /\ u[1] \in {"get", "lock"} => u[2] = "Logger"
            /\ u[1] = "drop" => u[2] = "m_loader"
        <4>. DEFINE m == <<"log", "mkdir dir fail">>
        <4>1. /\ u \in {<<"drop", "m_loader">>, <<"stopMonitor", "main">>, <<"createDir", "main">>,
                         <<"get", "Logger">>, <<"lock", "Logger">>, m}
              /\ m[1] = "log"
          BY <1>5 DEF Wakes
        <4>. HIDE DEF m, u
        <4>. QED
          BY <4>1
      <3>. QED
        BY <3>1
    <2>2. q \in Seq(Wakes)
      <3>1. "Logger" \in m_instance
        BY DEF Closing
      <3>2. q = <<>> \/ (s = "createDir" /\ q = LOG("mkdir dir fail"))
        BY <1>0, <2>1, <3>1 DEF Follow
      <3>. QED
        BY <3>2, ClosingLists, NoList
    <2>3. PICK o \in Seq(Wakes) : todo'["main"] = o \o WakesEnd
      BY <1>5, <2>2 DEF r
    <2>4. NoFrameWork' /\ "Logger" \in m_instance'
      BY <1>0, <2>1 DEF ObjectsAfter, Closing, NoFrameWork
    <2>5. Closing'
      BY <2>3, <2>4 DEF Closing
    <2>. QED
      BY <2>1, <2>5
  <1>. QED
    BY <1>3, <1>4, <1>5

\* Steps of other threads.
LEMMA StagesStay ==
    ASSUME UNCHANGED <<m_instance, exitFuncs>>, todo'["main"] = todo["main"], Stage, ~Over
    PROVE  Stage' /\ (Closing => Closing')
  <1>1. Opening => Opening'
    BY DEF Opening, NoFrameWork
  <1>2. Building => Building'
    BY DEF Building, NoFrameWork, Constr, ConstrEnd, Named
  <1>3. Ready => Ready'
    BY DEF Ready
  <1>4. Closing => Closing'
    BY DEF Closing, NoFrameWork, Wakes, WakesEnd
  <1>. QED
    BY <1>1, <1>2, <1>3, <1>4 DEF Stage

\* Each statement leaves framework_test in one of its stages.
LEMMA StageExecutes ==
    ASSUME TypeOK, Construction, Lists, Core, program = "framework_test", NEW t \in Threads,
           NEW q \in Seq(Statements), NEW s, NEW x, Executes(t, s, x, q)
    PROVE  /\ Stage' /\ (Closing => Closing' \/ Over')
           /\ s = "drop" => Over \/ (Closing /\ x = "m_loader")
  <1>0. /\ TodoOK /\ "main" \in Threads /\ At(t, s, x) /\ Splice(t, q, 1) /\ todo[t] # <<>>
        /\ ObjectsAfter(s, x) /\ ServiceAfter(s) /\ MayExecute(t, s) /\ Alive
        /\ Stage
    BY TypeParts, NamesInLists DEF Executes, At, Core, Course, MayExecute, Stage
  <1>1. t \in {"main", "monitor"}
    BY <1>0 DEF Lists, Busy
  <1>2. CASE Over
    BY <1>2, OverExecutes DEF Stage
  <1>3. CASE ~Over /\ t = "monitor"
    <2>1. s \in {"get", "lock", "log", "add", "use"} /\ todo'["main"] = todo["main"]
      BY <1>3, MonitorReads
    <2>2. m_instance' = m_instance /\ exitFuncs' = exitFuncs
      BY <1>0, <2>1 DEF ObjectsAfter
    <2>. QED
      BY <1>0, <1>3, <2>1, <2>2, StagesStay
  <1>4. CASE ~Over /\ t = "main"
    <2>1. ~Ready
      <3>. SUFFICES ASSUME Ready PROVE FALSE
        OBVIOUS
      <3>. DEFINE e == <<"exit", "main">>
      <3>1. todo["main"] = <<e>> /\ Head(todo["main"]) = <<s, x>>
        BY <1>0, <1>4 DEF Ready, At
      <3>2. e = <<s, x>>
        <4>. HIDE DEF e
        <4>. QED
          BY <3>1
      <3>3. s = "exit"
        BY <3>2
      <3>. QED
        BY <1>0, <3>3 DEF MayExecute, Ready
    <2>. QED
      BY <1>0, <1>4, <2>1, OpeningExecutes, BuildingExecutes, ClosingExecutes DEF Stage
  <1>. QED
    BY <1>1, <1>2, <1>3, <1>4

\* Nothing that is in use is dropped, except the loader.
LEMMA AliveExecutes ==
    ASSUME TypeOK, Construction, Lists, Core, NEW t \in Threads, NEW q \in Seq(Statements), NEW s, NEW x,
           Executes(t, s, x, q)
    PROVE  Alive' /\ Course' /\ Attended'
  <1>0. TodoOK /\ At(t, s, x) /\ program' = program /\ Alive
    BY TypeParts DEF Executes, fileVars, Core
  <1>1. s = "drop" => program = "framework_test"
    <2>1. 1 \in DOMAIN todo[t] /\ todo[t][1] = <<s, x>>
      BY <1>0, FirstStatement
    <2>2. \A i \in DOMAIN todo[t] : todo[t][i] \in Allowed
      <3>1. todo[t] \in Seq(Allowed)
        BY DEF Lists
      <3>. QED
        BY <3>1
    <2>3. <<s, x>> \in Allowed
      BY <2>1, <2>2
    <2>. QED
      BY <2>3 DEF Allowed, ClosingNames
  <1>2. s = "drop" => Over \/ (Closing /\ x = "m_loader")
    BY <1>1, StageExecutes
  <1>3. Alive'
    <2>1. CASE Over
      BY <2>1, OverExecutes DEF Alive
    <2>2. CASE ~Over
      BY <1>0, <1>1, <1>2, <2>2, SoundExecutes DEF Alive
    <2>. QED
      BY <2>1, <2>2
  <1>4. Course'
    <2>. SUFFICES ASSUME program' = "framework_test" PROVE Stage'
      BY DEF Course, Stage
    <2>. QED
      BY <1>0, StageExecutes
  <1>5. Attended'
    <2>. SUFFICES ASSUME HasOne(todo'["monitor"], Heard), "m_loader" \notin objects'
                  PROVE  program = "framework_test" /\ Closing'
      BY <1>0 DEF Attended, Heard
    <2>0. /\ "monitor" \in Threads /\ Splice(t, q, 1) /\ Follow(s, x, q) /\ <<s, x>> \in Statements
          /\ ObjectsAfter(s, x) /\ 1 \in {0, 1} /\ Attended
      BY NamesInLists DEF Executes, Core
    <2>1. HasOne(todo["monitor"], Heard)
      <3>1. /\ t # "monitor" => todo'["monitor"] = todo["monitor"]
            /\ todo'[t] \in Seq(Statements) /\ todo[t] \in Seq(Statements)
            /\ Moved(todo'[t], q, todo[t], 1)
        BY <1>0, <2>0, SplicedLists
      <3>2. ~HasOne(q, Heard)
        <4>1. q \in Seq(Kept(s, x)) /\ <<"use", "m_loader">> \notin Kept(s, x)
          BY <2>0, FollowNeat DEF Neat, Kept, Common
        <4>. QED
          BY <4>1 DEF HasOne, Heard
      <3>. QED
        BY <2>0, <3>1, <3>2, HasOneMoved
    <2>2. ~Over /\ ~Over'
      BY <2>1 DEF Over, HasOne
    <2>3. program = "framework_test" /\ Closing
      <3>1. CASE "m_loader" \in objects
        BY <1>1, <1>2, <2>0, <2>2, <3>1 DEF ObjectsAfter
      <3>2. CASE "m_loader" \notin objects
        BY <2>0, <2>1, <3>2 DEF Attended
      <3>. QED
        BY <3>1, <3>2
    <2>. QED
      BY <2>2, <2>3, StageExecutes
  <1>. QED
    BY <1>3, <1>4, <1>5

\* The monitor's thread keeps its logger and its FrameWork.
LEMMA MonitoredExecutes ==
    ASSUME TypeOK, Construction, Lists, Core, NEW t \in Threads, NEW q \in Seq(Statements), NEW s, NEW x,
           Executes(t, s, x, q)
    PROVE  Monitored'
  <1>. DEFINE w == <<"watch", "main">>
              f == <<"store", "FrameWork">>
  <1>0. /\ TodoOK /\ "main" \in Threads /\ "monitor" \in Threads /\ "Logger" \in Classes
        /\ At(t, s, x) /\ <<s, x>> \in Statements /\ Splice(t, q, 1) /\ Follow(s, x, q)
        /\ MayExecute(t, s) /\ ObjectsAfter(s, x) /\ ServiceAfter(s)
        /\ Monitored /\ Alive /\ Reads' = Reads
    BY TypeParts, NamesInLists DEF Executes, Core, Reads, Named, Heard
  <1>1. 1 \in {0, 1}
    OBVIOUS
  <1>2. /\ todo["main"] \in Seq(Statements) /\ todo'["main"] \in Seq(Statements)
        /\ t # "main" => todo'["main"] = todo["main"]
        /\ t = "main" => Moved(todo'["main"], q, todo["main"], 1)
        /\ t # "monitor" => todo'["monitor"] = todo["monitor"]
    BY <1>0, <1>1, MainList, SplicedLists
  <1>3. 1 \in DOMAIN todo[t] /\ todo[t][1] = <<s, x>>
    BY <1>0, FirstStatement
  <1>4. m_instance \subseteq m_instance' /\ mon' = IF s = "watch" THEN "test" ELSE mon
    BY <1>0 DEF ObjectsAfter, ServiceAfter
  <1>5. todo'["monitor"] \in Seq(Reads) /\ (mon' = "none" => todo'["monitor"] = <<>>)
    <2>1. CASE t = "monitor"
      BY <1>4, <2>1, MonitorReads
    <2>2. CASE t # "monitor"
      BY <1>0, <1>2, <1>4, <2>2 DEF Monitored
    <2>. QED
      BY <2>1, <2>2
  <1>6. Has(todo["main"], f) => "FrameWork" \in m_instance' \/ Has(todo'["main"], f)
    <2>. SUFFICES ASSUME Has(todo["main"], f) PROVE "FrameWork" \in m_instance' \/ Has(todo'["main"], f)
      OBVIOUS
    <2>1. CASE t # "main"
      BY <1>2, <2>1
    <2>2. CASE t = "main" /\ <<s, x>> = f
      BY <1>0, <2>2 DEF ObjectsAfter
    <2>3. CASE t = "main" /\ <<s, x>> # f
      <3>. HIDE DEF f
      <3>. QED
        BY <1>1, <1>2, <1>3, <2>3, HasMoved
    <2>. QED
      BY <2>1, <2>2, <2>3
  <1>7. ASSUME mon' # "none"
        PROVE  "Logger" \in m_instance' /\ ("FrameWork" \in m_instance' \/ Has(todo'["main"], f))
    <2>1. CASE s = "watch"
      <3>1. t = "main" /\ x = "main"
        BY <1>0, <2>1 DEF MayExecute, Statements
      <3>2. "Logger" \in m_instance
        <4>1. <<s, x>> \notin Last /\ <<s, x>> \in Relies("Logger")
          BY <1>0, <2>1 DEF Last, Named, Relies
        <4>2. Sound
          BY <1>0, <4>1, OverExecutes DEF Alive
        <4>. QED
          BY <1>0, <4>1, <4>2, FirstIsServed
      <3>3. Has(todo["main"], f)
        BY <1>0, <1>3, <2>1, <3>1 DEF Monitored, Followed, Has
      <3>. QED
        BY <1>4, <1>6, <3>2, <3>3
    <2>2. CASE s # "watch"
      BY <1>0, <1>4, <1>6, <1>7, <2>2 DEF Monitored
    <2>. QED
      BY <2>1, <2>2
  <1>8. Followed(todo'["main"], w, f)
    <2>1. Followed(todo["main"], w, f) /\ Followed(q, w, f)
      BY <1>0, FollowNeat DEF Monitored
    <2>. HIDE DEF w, f
    <2>. QED
      BY <1>1, <1>2, <2>1, FollowedMoved
  <1>. QED
    BY <1>0, <1>5, <1>7, <1>8 DEF Monitored

\* Requests come when the proxy is registered, and that is after the sleep.
LEMMA ServingExecutes ==
    ASSUME TypeOK, Construction, Lists, Core, NEW t \in Threads, NEW q \in Seq(Statements), NEW s, NEW x,
           Executes(t, s, x, q)
    PROVE  Serving'
  <1>. DEFINE z == <<"sleep", "main">>
  <1>0. /\ TodoOK /\ "main" \in Threads /\ "FrameWork" \in Classes
        /\ At(t, s, x) /\ <<s, x>> \in Statements /\ Splice(t, q, 1) /\ Follow(s, x, q)
        /\ ObjectsAfter(s, x) /\ Serving /\ Alive
    BY TypeParts, NamesInLists DEF Executes, Core
  <1>1. 1 \in {0, 1}
    OBVIOUS
  <1>2. 1 \in DOMAIN todo[t] /\ todo[t][1] = <<s, x>>
    BY <1>0, FirstStatement
  <1>3. <<s, x>> \in Allowed
    <2>1. todo[t] \in Seq(Allowed)
      BY DEF Lists
    <2>2. \A i \in DOMAIN todo[t] : todo[t][i] \in Allowed
      BY <2>1
    <2>. QED
      BY <1>2, <2>2
  <1>. SUFFICES ASSUME Busy'
                PROVE  "FrameWork" \in m_instance' /\ "proxy" \in objects' /\ ~HasOne(todo'["main"], {z})
    BY DEF Serving
  <1>4. Busy \/ s \in {"register", "mkfs", "task"}
    <2>1. Step
      BY DEF Step
    <2>. QED
      BY <1>0, <2>1, BusyAfter
  <1>5. program # "framework_test"
    <2>1. s \in {"register", "mkfs", "task"} => <<s, x>> \in Late
      BY <1>0 DEF Late, Named
    <2>. QED
      BY <1>3, <1>4, <2>1 DEF Lists, Allowed
  <1>6. m_instance \subseteq m_instance' /\ objects \subseteq objects'
    <2>1. s # "drop"
      BY <1>3, <1>5 DEF Allowed, ClosingNames
    <2>. QED
      BY <1>0, <2>1 DEF ObjectsAfter
  <1>7. ~HasOne(todo["main"], {z}) => ~HasOne(todo'["main"], {z})
    <2>1. ~HasOne(q, {z})
      <3>1. \A r \in Kept(s, x) : r # z
        BY DEF Kept, Common
      <3>2. q \in Seq(Kept(s, x))
        BY <1>0, FollowNeat DEF Neat
      <3>3. \A i \in DOMAIN q : q[i] \in Kept(s, x)
        BY <3>2
      <3>. QED
        BY <3>1, <3>3 DEF HasOne
    <2>2. /\ todo["main"] \in Seq(Statements) /\ todo'["main"] \in Seq(Statements)
          /\ t # "main" => todo'["main"] = todo["main"]
          /\ t = "main" => Moved(todo'["main"], q, todo["main"], 1)
      BY <1>0, <1>1, MainList
    <2>3. CASE t = "main"
      <3>. DEFINE A == {z}
      <3>. HIDE DEF A
      <3>1. HasOne(todo'["main"], A) => HasOne(q, A) \/ HasOne(todo["main"], A)
        BY <1>1, <2>2, <2>3, HasOneMoved
      <3>. QED
        BY <2>1, <3>1 DEF A
    <2>. QED
      BY <2>2, <2>3
  <1>8. CASE Busy
    BY <1>0, <1>6, <1>7, <1>8 DEF Serving
  <1>9. CASE ~Busy /\ s \in {"register", "mkfs", "task"}
    <2>1. Sound
      BY <1>0, <1>5 DEF Alive, Over
    <2>2. <<s, x>> \in Relies("FrameWork") /\ <<s, x>> \in ProxyUsers /\ <<s, x>> \in Late
      BY <1>0, <1>9 DEF Relies, ProxyUsers, Late, Named
    <2>3. "FrameWork" \in m_instance /\ "proxy" \in objects
      BY <1>0, <2>1, <2>2, FirstIsServed
    <2>4. t = "main"
      <3>1. t # "monitor"
        BY <1>9, MonitorReads
      <3>. QED
        BY <1>0, <1>9, <3>1 DEF Busy, At
    <2>5. ~HasOne(todo["main"], {z})
      <3>1. \A j \in DOMAIN todo["main"] : ~(j < 1)
        <4>1. todo["main"] \in Seq(Statements)
          BY <1>0 DEF TodoOK
        <4>. QED
          BY <4>1
      <3>2. Sorted(todo["main"], {z}, Late)
        BY DEF Lists, Ordered
      <3>3. \A j \in DOMAIN todo["main"] : todo["main"][j] \in {z} => j < 1
        BY <1>2, <2>2, <2>4, <3>2 DEF Sorted
      <3>. QED
        BY <3>1, <3>3 DEF HasOne
    <2>. QED
      BY <1>6, <1>7, <2>3, <2>5
  <1>. QED
    BY <1>4, <1>8, <1>9

\* A list with an end to it begins with one of its own or with its end.
LEMMA FrontHead ==
    ASSUME NEW S, S \subseteq Statements, NEW p \in Seq(S), NEW r \in Seq(Statements), r # <<>>
    PROVE  Head(p \o r) \in S \cup {Head(r)}
  <1>1. CASE p = <<>>
    BY <1>1, ConcatEmptySeq
  <1>2. CASE p # <<>>
    <2>1. p \in Seq(Statements) /\ Len(p) \in Nat /\ Len(p) >= 1 /\ p[1] \in S /\ Len(r) \in Nat
      BY <1>2, SeqMonotonic
    <2>2. /\ p \o r \in Seq(Statements) /\ Len(p \o r) = Len(p) + Len(r)
          /\ \A i \in 1..(Len(p) + Len(r)) : (p \o r)[i] = IF i <= Len(p) THEN p[i] ELSE r[i - Len(p)]
      BY <2>1, ConcatProperties
    <2>3. p \o r # <<>> /\ (p \o r)[1] = p[1]
      BY <2>1, <2>2
    <2>. QED
      BY <2>1, <2>2, <2>3
  <1>. QED
    BY <1>1, <1>2

\* exit calls the function given to atexit last.
LEMMA StageDestroys ==
    ASSUME TypeOK, Lists, Core, NEW c \in Classes, Destroys(c)
    PROVE  /\ program = "framework_test" /\ Stage'
           /\ Over => Over'
           /\ ~Over => c = "FrameWork"
           /\ ~Closing
  <1>. DEFINE e == <<"exit", "main">>
  <1>0. /\ TodoOK /\ "main" \in Threads /\ "monitor" \in Threads /\ life = "running"
        /\ todo["main"] \in Seq(Statements) /\ todo["main"] # <<>> /\ Head(todo["main"]) = e
        /\ exitFuncs \in Seq(Classes) /\ exitFuncs # <<>> /\ c = exitFuncs[Len(exitFuncs)]
        /\ exitFuncs' = SubSeq(exitFuncs, 1, Len(exitFuncs) - 1)
        /\ Splice("main", Dtor(c), 0)
        /\ UNCHANGED <<m_instance, mon, program, life>>
    BY TypeParts, NamesInLists DEF Destroys, At, TodoOK, ObjectsOK, processVars, worldVars
  <1>1. program = "framework_test"
    <2>1. e \in Allowed
      <3>1. todo["main"] \in Seq(Allowed)
        BY <1>0 DEF Lists
      <3>2. Head(todo["main"]) \in Allowed
        BY <1>0, <3>1
      <3>. QED
        BY <1>0, <3>2
    <2>. QED
      BY <2>1 DEF Allowed, ClosingNames
  <1>2. todo'["main"] = Dtor(c) \o todo["main"] /\ todo'["monitor"] = todo["monitor"]
    BY <1>0 DEF Splice, Rest, TodoOK
  <1>3. /\ \A i \in DOMAIN exitFuncs' : i \in DOMAIN exitFuncs /\ i # Len(exitFuncs) /\ exitFuncs'[i] = exitFuncs[i]
        /\ Len(exitFuncs) \in DOMAIN exitFuncs
    <2>1. Len(exitFuncs) \in Nat /\ Len(exitFuncs) >= 1 /\ DOMAIN exitFuncs = 1..Len(exitFuncs)
      BY <1>0
    <2>2. /\ DOMAIN exitFuncs' = 1..(Len(exitFuncs) - 1)
          /\ \A i \in 1..(Len(exitFuncs) - 1) : exitFuncs'[i] = exitFuncs[i]
      BY <1>0, <2>1, SubSeqProperties
    <2>. QED
      BY <2>1, <2>2
  <1>4. (Ready \/ Over) /\ ~Closing
    <2>1. ~Opening
      <3>. SUFFICES ASSUME Opening PROVE FALSE
        OBVIOUS
      <3>1. PICK s0 \in {"get", "lock"} : todo["main"] = <<<<s0, "FrameWork">>, e>>
        BY DEF Opening
      <3>. DEFINE f == <<s0, "FrameWork">>
      <3>2. f # e
        OBVIOUS
      <3>3. Head(<<f, e>>) = f
        <4>. HIDE DEF f, e
        <4>. QED
          OBVIOUS
      <3>4. Head(todo["main"]) = f
        BY <3>1, <3>3
      <3>. QED
        BY <1>0, <3>2, <3>4
    <2>2. ~Building
      <3>. SUFFICES ASSUME NEW p \in Seq(Constr), todo["main"] = p \o ConstrEnd PROVE FALSE
        BY DEF Building
      <3>1. ConstrEnd \in Seq(Statements) /\ ConstrEnd # <<>> /\ Constr \subseteq Statements
            /\ Head(ConstrEnd) = <<"atexit", "FrameWork">>
        BY EndLists
      <3>2. Head(p \o ConstrEnd) \in Constr \cup {Head(ConstrEnd)}
        BY <3>1, FrontHead
      <3>3. e \in Constr \cup {<<"atexit", "FrameWork">>}
        BY <1>0, <3>1, <3>2
      <3>. QED
        BY <3>3 DEF Constr, Named
    <2>3. ~Closing
      <3>. SUFFICES ASSUME NEW p \in Seq(Wakes), todo["main"] = p \o WakesEnd PROVE FALSE
        BY DEF Closing
      <3>1. WakesEnd \in Seq(Statements) /\ WakesEnd # <<>> /\ Wakes \subseteq Statements
            /\ Head(WakesEnd) = <<"joinMonitor", "main">>
        BY EndLists
      <3>2. Head(p \o WakesEnd) \in Wakes \cup {Head(WakesEnd)}
        BY <3>1, FrontHead
      <3>3. e \in Wakes \cup {<<"joinMonitor", "main">>}
        BY <1>0, <3>1, <3>2
      <3>. QED
        BY <3>3 DEF Wakes
    <2>. QED
      BY <1>0, <1>1, <2>1, <2>2, <2>3 DEF Core, Course
  <1>5. Over => Over'
    <2>. SUFFICES ASSUME Over PROVE Over'
      OBVIOUS
    <2>1. c # "FrameWork"
      BY <1>0, <1>3 DEF Over, NoFrameWork
    <2>2. Dtor(c) \in Seq(Last) /\ todo["main"] \in Seq(Last)
      BY <2>1, DtorLists DEF Over
    <2>3. todo'["main"] \in Seq(Last) /\ Last' = Last
      BY <1>2, <2>2, ConcatProperties DEF Last, Named
    <2>4. NoFrameWork'
      BY <1>3 DEF Over, NoFrameWork
    <2>. QED
      BY <1>0, <1>2, <2>3, <2>4 DEF Over
  <1>6. CASE Over
    BY <1>1, <1>4, <1>5, <1>6 DEF Stage
  <1>7. CASE ~Over
    <2>1. Ready
      BY <1>4, <1>7
    <2>2. c = "FrameWork" /\ NoFrameWork'
      BY <1>0, <1>3, <2>1 DEF Ready, NoFrameWork
    <2>3. \E p \in Seq(Wakes) : todo'["main"] = p \o WakesEnd
      BY <1>2, <2>1, <2>2, ClosingLists DEF Ready
    <2>4. Closing'
      BY <1>0, <2>1, <2>2, <2>3 DEF Closing, Ready
    <2>. QED
      BY <1>1, <1>4, <1>5, <2>2, <2>4 DEF Stage
  <1>. QED
    BY <1>6, <1>7

\* The core invariant, kind of step by kind of step: exit functions,
LEMMA CoreDestroys ==
    ASSUME TypeOK, Lists, Lists', Core, NEW c \in Classes, Destroys(c)
    PROVE  Core'
  <1>. DEFINE w == <<"watch", "main">>
              f == <<"store", "FrameWork">>
  <1>0. /\ TodoOK /\ "main" \in Threads /\ "monitor" \in Threads
        /\ Splice("main", Dtor(c), 0) /\ UNCHANGED <<m_instance, objects, mon, program, life>>
        /\ Monitored /\ Alive /\ Attended /\ 0 \in {0, 1} /\ Dtor(c) \in Seq(Statements) /\ Dtor(c) \in Seq(Named(ClosingNames))
    BY TypeParts, NamesInLists, DtorLists DEF Destroys, processVars, worldVars, Core
  <1>1. program = "framework_test" /\ Stage' /\ (Over => Over') /\ (~Over => c = "FrameWork") /\ ~Closing
    BY StageDestroys
  <1>2. Course'
    BY <1>1 DEF Course, Stage
  <1>3. Serving'
    BY <1>0, <1>1 DEF Lists, Serving
  <1>4. Alive'
    <2>1. CASE Over
      BY <1>1, <2>1 DEF Alive
    <2>2. CASE ~Over
      <3>1. Sound /\ Suits(Dtor(c))
        BY <1>0, <1>1, <2>2, ClosingLists, NeatSuits DEF Alive
      <3>2. Sound'
        BY <1>0, <3>1, SoundSplice
      <3>. QED
        BY <3>2 DEF Alive
    <2>. QED
      BY <2>1, <2>2
  <1>5. Monitored'
    <2>1. /\ todo["main"] \in Seq(Statements) /\ todo'["main"] \in Seq(Statements)
          /\ Moved(todo'["main"], Dtor(c), todo["main"], 0) /\ todo'["monitor"] = todo["monitor"]
      BY <1>0, MainList, SplicedLists
    <2>2. Has(todo["main"], f) => Has(todo'["main"], f)
      <3>. HIDE DEF f
      <3>. QED
        BY <1>0, <2>1, HasMoved
    <2>3. Followed(todo'["main"], w, f)
      <3>1. w \notin Named(ClosingNames)
        BY DEF Named, ClosingNames
      <3>2. Followed(Dtor(c), w, f) /\ Followed(todo["main"], w, f)
        <4>1. \A i \in DOMAIN Dtor(c) : Dtor(c)[i] \in Named(ClosingNames)
          BY <1>0
        <4>2. Followed(todo["main"], w, f)
          BY <1>0 DEF Monitored
        <4>. HIDE DEF w, f
        <4>. QED
          BY <3>1, <4>1, <4>2 DEF Followed
      <3>. HIDE DEF w, f
      <3>. QED
        BY <1>0, <2>1, <3>2, FollowedMoved
    <2>4. Reads' = Reads
      BY DEF Reads, Named, Heard
    <2>. QED
      BY <1>0, <2>1, <2>2, <2>3, <2>4 DEF Monitored
  <1>6. Attended'
    <2>1. todo'["monitor"] = todo["monitor"] /\ Heard' = Heard
      BY <1>0, SplicedLists DEF Heard
    <2>. QED
      BY <1>0, <1>1, <2>1 DEF Attended, HasOne
  <1>. QED
    BY <1>2, <1>3, <1>4, <1>5, <1>6 DEF Core

\* the monitor's thread taking up an event,
LEMMA CoreMonitorBegins ==
    ASSUME TypeOK, Lists, Core, NEW q \in Seq(Statements), MonitorBegins(q)
    PROVE  Core'
  <1>0. /\ TodoOK /\ "main" \in Threads /\ "monitor" \in Threads /\ 0 \in {0, 1}
        /\ Splice("monitor", q, 0) /\ todo["monitor"] = <<>>
        /\ UNCHANGED <<m_instance, objects, exitFuncs, program, life>>
        /\ mon # "none" /\ mon' # "none" /\ mon # "ended"
        /\ q = <<>> \/ ("m_loader" \in objects /\ \E lib \in Libraries : q = Broadcast(lib))
        /\ Monitored /\ Alive /\ Serving /\ Course
    BY TypeParts, NamesInLists DEF MonitorBegins, Begins, worldVars, Core
  <1>1. todo'["main"] = todo["main"] /\ todo'["monitor"] = q \o todo["monitor"]
    BY <1>0 DEF Splice, TodoOK, Rest
  <1>2. ~Over
    BY <1>0 DEF Over
  <1>3. Alive'
    <2>1. Suits(q)
      BY <1>0, ShortNeat, BroadcastNeat, NeatSuits
    <2>2. Sound'
      BY <1>0, <1>2, <2>1, SoundSplice DEF Alive
    <2>. QED
      BY <2>2 DEF Alive
  <1>4. Monitored'
    <2>1. q \in Seq(Reads) /\ todo["monitor"] \in Seq(Reads) /\ Reads' = Reads
      BY <1>0, BroadcastReads, NoList DEF Reads, Named, Heard
    <2>2. todo'["monitor"] \in Seq(Reads)
      BY <1>1, <2>1, ConcatProperties
    <2>. QED
      BY <1>0, <1>1, <2>1, <2>2 DEF Monitored
  <1>5. Serving'
    <2>1. Step
      BY DEF Step
    <2>2. Busy' => Busy
      BY <1>0, <2>1, BusyAfter
    <2>. QED
      BY <1>0, <1>1, <2>2 DEF Serving
  <1>6. Course'
    BY <1>0, <1>1, <1>2, StagesStay DEF Course, Stage
  <1>7. Attended'
    <2>1. CASE "m_loader" \in objects
      BY <1>0, <2>1 DEF Attended
    <2>2. CASE q = <<>>
      <3>1. todo'["monitor"] = <<>>
        BY <1>0, <1>1, <2>2, ConcatEmptySeq
      <3>2. ~HasOne(<<>>, Heard')
        BY DEF HasOne
      <3>. QED
        BY <3>1, <3>2 DEF Attended
    <2>. QED
      BY <1>0, <2>1, <2>2
  <1>. QED
    BY <1>3, <1>4, <1>5, <1>6, <1>7 DEF Core

\* What reactor and workers take up needs the FrameWork and the proxy.
LEMMA WorkSuits ==
    ASSUME "FrameWork" \in m_instance, "proxy" \in objects, NEW p, Neat(p, Plain),
           NEW s \in {"task", "create"}, NEW key \in Libraries
    PROVE  Suits(p \o <<<<s, key>>>>)
  <1>. DEFINE a == <<s, key>>
              r == <<a>>
  <1>0. a \in Statements /\ a[1] \in {"task", "create"} /\ a[1] # "store"
    BY DEF Statements
  <1>1. p \in Seq(Statements) /\ r \in Seq(Statements)
    <2>1. p \in Seq(Plain) /\ Plain \subseteq Statements
      BY PlainStatements DEF Neat
    <2>. HIDE DEF a
    <2>. QED
      BY <1>0, <2>1, SeqMonotonic
  <1>2. \A i \in DOMAIN r : r[i] = a
    <2>. HIDE DEF a
    <2>. QED
      OBVIOUS
  <1>. HIDE DEF a, r
  <1>3. ASSUME NEW A, NEW U, PrecededBy(p, A, U), a \notin U PROVE PrecededBy(p \o r, A, U)
    <2>1. PrecededBy(r, A, U)
      BY <1>2, <1>3 DEF PrecededBy
    <2>. QED
      BY <1>1, <1>3, <2>1, PrecededByConcat
  <1>4. ASSUME NEW c \in Classes, c \notin m_instance PROVE PrecededBy(p \o r, Gets(c), Relies(c))
    <2>1. a \notin Relies(c)
      BY <1>0, <1>4, ReliesOn
    <2>. QED
      BY <1>3, <2>1 DEF Neat
  <1>5. ASSUME NEW c \in Classes, NEW o \in Owes(c) PROVE PrecededBy(p \o r, {<<"make", o>>}, {<<"store", c>>})
    <2>1. a \notin {<<"store", c>>}
      BY <1>0
    <2>. QED
      BY <1>3, <2>1, OwesMore DEF Neat
  <1>6. Suits(p \o r)
    BY <1>4, <1>5 DEF Suits
  <1>. QED
    BY <1>6 DEF r, a

\* the reactor and the workers taking up a request,
LEMMA CoreWorkBegins ==
    ASSUME TypeOK, Lists, Core, NEW t \in Threads, NEW q \in Seq(Statements), WorkBegins(t, q)
    PROVE  Core'
  <1>0. /\ TodoOK /\ "main" \in Threads /\ "monitor" \in Threads /\ 0 \in {0, 1}
        /\ Splice(t, q, 0) /\ t \notin {"main", "monitor"}
        /\ UNCHANGED <<m_instance, objects, exitFuncs, mon, program, life>>
        /\ Monitored /\ Alive /\ Serving /\ Attended
    BY TypeParts, NamesInLists DEF WorkBegins, Begins, worldVars, Core
  <1>1. todo'["main"] = todo["main"] /\ todo'["monitor"] = todo["monitor"]
    BY <1>0 DEF Splice, TodoOK
  <1>2. Busy
    <2>1. Step
      BY DEF Step
    <2>. QED
      BY <1>0, <2>1, BusyAfter
  <1>3. /\ program # "framework_test" /\ "FrameWork" \in m_instance /\ "proxy" \in objects
        /\ ~HasOne(todo["main"], {<<"sleep", "main">>})
    BY <1>0, <1>2 DEF Lists, Serving
  <1>4. Alive'
    <2>1. Suits(q)
      <3>1. PICK key \in Libraries : q = ReactorHandler(key) \/ q = <<<<"create", key>>>>
        BY DEF WorkBegins
      <3>2. CASE q = ReactorHandler(key)
        <4>1. Neat(LOG("parse data"), Plain)
          BY ShortNeat, NamesInLists
        <4>2. "task" \in {"task", "create"}
          OBVIOUS
        <4>3. Suits(LOG("parse data") \o <<<<"task", key>>>>)
          BY <1>3, <4>1, <4>2, WorkSuits
        <4>. QED
          BY <3>2, <4>3 DEF ReactorHandler
      <3>3. CASE q = <<<<"create", key>>>>
        <4>1. Neat(<<>>, Plain) /\ "create" \in {"task", "create"}
          BY ShortNeat
        <4>2. Suits(<<>> \o <<<<"create", key>>>>)
          BY <1>3, <4>1, WorkSuits
        <4>3. <<>> \o q = q
          BY ConcatEmptySeq
        <4>. QED
          BY <3>3, <4>2, <4>3
      <3>. QED
        BY <3>1, <3>2, <3>3
    <2>2. Sound
      BY <1>0, <1>3 DEF Alive, Over
    <2>3. Sound'
      BY <1>0, <2>1, <2>2, SoundSplice
    <2>. QED
      BY <2>3 DEF Alive
  <1>5. Monitored'
    <2>1. Reads' = Reads
      BY DEF Reads, Named, Heard
    <2>. QED
      BY <1>0, <1>1, <2>1 DEF Monitored
  <1>6. Serving'
    BY <1>0, <1>1, <1>3 DEF Serving
  <1>7. Course'
    BY <1>0, <1>3 DEF Course
  <1>8. Attended'
    BY <1>0, <1>1, <1>3 DEF Attended, HasOne, Heard
  <1>. QED
    BY <1>4, <1>5, <1>6, <1>7, <1>8 DEF Core

\* steps of the logger and of the environment,
LEMMA CoreStays ==
    ASSUME TypeOK, Core, Stays
    PROVE  Core'
  <1>0. /\ UNCHANGED <<todo, m_instance, objects, exitFuncs, mon, program, life>>
        /\ TodoOK
    BY TypeParts DEF Stays, fileVars
  <1>1. Sound => Sound'
    BY <1>0 DEF Sound, Covered, Live, Made, ProxyMade, Owes, Comprises, Provides
  <1>2. Over => Over'
    BY <1>0 DEF Over, NoFrameWork, Last, Named
  <1>3. Alive'
    BY <1>1, <1>2 DEF Core, Alive
  <1>4. Monitored'
    <2>1. Reads' = Reads
      BY DEF Reads, Named, Heard
    <2>. QED
      BY <1>0, <2>1 DEF Core, Monitored
  <1>5. Serving'
    <2>1. Step
      BY DEF Step
    <2>2. Busy' => Busy
      BY <1>0, <2>1, BusyAfter
    <2>. QED
      BY <1>0, <2>2 DEF Core, Serving
  <1>6. Course'
    BY <1>0, <1>2, StagesStay DEF Core, Course, Stage
  <1>7. Attended'
    BY <1>0 DEF Core, Attended, HasOne, Heard, Closing, NoFrameWork, Wakes, WakesEnd
  <1>. QED
    BY <1>3, <1>4, <1>5, <1>6, <1>7 DEF Core

\* A process that has just been started, or is no more.
JustStarted ==
    /\ program \in Programs /\ mon = "none" /\ m_instance = {} /\ exitFuncs = <<>> /\ ~Busy
    /\ \/ todo = Fresh(Main(program))
       \/ todo = Fresh(<<>>) /\ life = "killed"

\* and a start.
LEMMA CoreStart == JustStarted => Core
  <1>. SUFFICES ASSUME JustStarted PROVE Core
    OBVIOUS
  <1>0. /\ program \in Programs /\ mon = "none" /\ m_instance = {} /\ exitFuncs = <<>> /\ ~Busy
        /\ "main" \in Threads /\ "monitor" \in Threads
    BY NamesInLists DEF JustStarted
  <1>1. PICK q : /\ todo = Fresh(q) /\ Neat(q, Allowed) /\ Followed(q, <<"watch", "main">>, <<"store", "FrameWork">>)
                 /\ q = Main(program) \/ life = "killed"
    <2>1. /\ Neat(<<>>, Allowed) /\ Followed(<<>>, <<"watch", "main">>, <<"store", "FrameWork">>)
          /\ Neat(Main(program), Allowed)
          /\ Followed(Main(program), <<"watch", "main">>, <<"store", "FrameWork">>)
      BY <1>0, MainLists, NothingToDo
    <2>. QED
      BY <2>1 DEF JustStarted
  <1>2. todo["main"] = q /\ \A t \in Threads : t # "main" => todo[t] = <<>>
    BY <1>0, <1>1 DEF Fresh
  <1>3. Sound
    <2>1. \A A, U : PrecededBy(<<>>, A, U)
      BY DEF PrecededBy
    <2>2. Covered /\ Made /\ ProxyMade
      BY <1>1, <1>2, <2>1, OwesMore DEF Covered, Made, ProxyMade, Neat
    <2>. QED
      BY <1>0, <2>2 DEF Sound, Live
  <1>4. Monitored
    BY <1>0, <1>1, <1>2, NoList DEF Monitored
  <1>5. Course
    <2>. SUFFICES ASSUME program = "framework_test", life # "killed" PROVE Opening
      BY DEF Course
    <2>1. todo["main"] = <<<<"get", "FrameWork">>, <<"exit", "main">>>>
      BY <1>1, <1>2, TestMain
    <2>2. NoFrameWork /\ "FrameWork" \notin m_instance
      BY <1>0 DEF NoFrameWork
    <2>. QED
      BY <2>1, <2>2 DEF Opening
  <1>6. Attended
    BY <1>0, <1>2 DEF Attended, HasOne
  <1>. QED
    BY <1>0, <1>3, <1>4, <1>5, <1>6 DEF Core, Alive, Serving

\* The same for the next state.
LEMMA CoreRestart == JustStarted' => Core'
  BY CoreStart, PTL

\* So every step keeps it,
LEMMA CoreStep ==
    ASSUME TypeOK, Construction, Lists, Lists', Core, Step
    PROVE  Core'
  <1>1. ASSUME NEW t \in Threads, NEW q \in Seq(Statements), NEW s, NEW x, Executes(t, s, x, q) PROVE Core'
    BY <1>1, AliveExecutes, MonitoredExecutes, ServingExecutes DEF Core
  <1>2. ASSUME NEW q \in Seq(Statements), Starts(q) PROVE Core'
    <2>1. TodoOK /\ program \in Programs
      BY TypeParts DEF WorldOK
    <2>2. ~Busy'
      BY <1>2, <2>1, BusyAfter
    <2>3. JustStarted'
      BY <1>2, <2>1, <2>2 DEF Starts, SingletonReset, ProcessReset, fileVars, JustStarted, Fresh, Main
    <2>. QED
      BY <2>3, CoreRestart
  <1>. QED
    BY <1>1, <1>2, CoreDestroys, CoreMonitorBegins, CoreWorkBegins, CoreStays DEF Step

\* it holds at the start,
LEMMA CoreInit == Init => Core
  <1>. SUFFICES ASSUME Init PROVE JustStarted
    BY CoreStart
  <1>1. program \in Programs /\ SingletonInit(Fresh(Main(program))) /\ ProcessInit
    BY DEF Init
  <1>2. ~Busy
    BY <1>1 DEF SingletonInit, Fresh, ProcessInit, Busy
  <1>. QED
    BY <1>1, <1>2 DEF SingletonInit, ProcessInit, JustStarted

\* and always.
LEMMA CoreAlways == SafeSpec => [](TypeOK /\ Construction /\ Lists /\ Core)
  <1>1. TypeOK /\ Construction /\ Lists /\ Core /\ [Next]_vars => Lists' /\ Core'
    <2>. SUFFICES ASSUME TypeOK, Construction, Lists, Core, [Next]_vars PROVE Lists' /\ Core'
      OBVIOUS
    <2>1. Step
      BY StepTaken
    <2>2. Lists'
      BY <2>1, ListsStep
    <2>. QED
      BY <2>1, <2>2, CoreStep
  <1>2. Init => Lists /\ Core
    BY ListsInit, CoreInit
  <1>. QED
    BY <1>1, <1>2, ConstructionAlways, PTL DEF SafeSpec

\* What the next statement needs, by the classes that provide it.
LEMMA NeedsMet ==
    ASSUME TypeOK, Sound, NEW t \in Threads, todo[t] # <<>>, Head(todo[t]) \notin Heard
    PROVE  Needs(Head(todo[t])) \in objects \cup {"nothing"}
  <1>0. TodoOK /\ todo[t] \in Seq(Statements)
    BY TypeParts DEF TypeOK
  <1>1. Head(todo[t]) \in Statements
    BY <1>0
  <1>2. PICK s, x : Head(todo[t]) = <<s, x>>
    BY <1>1 DEF Statements
  <1>3. At(t, s, x) /\ <<s, x>> \in Statements /\ <<s, x>>[1] = s /\ <<s, x>>[2] = x
    BY <1>1, <1>2 DEF At
  <1>4. /\ \A c \in Classes : <<s, x>> \in Relies(c) => Provides(c) \subseteq objects
        /\ <<s, x>> \in ProxyUsers => "proxy" \in objects
    BY <1>0, <1>3, FirstIsServed, OwesMore
  <1>c. /\ "ConfigManager" \in Classes /\ "Logger" \in Classes /\ "FrameWork" \in Classes
        /\ Provides("ConfigManager") = {"ConfigManager"} /\ Provides("Logger") = {"Logger"}
        /\ Provides("FrameWork") = {"m_factory", "m_mediator"}
    BY NamesInLists DEF Provides
  <1>n. ASSUME NEW names, s \in names PROVE <<s, x>> \in Named(names)
    BY <1>3, <1>n DEF Named
  <1>. DEFINE r == <<s, x>>
  <1>5. CASE s = "config"
    <2>1. r \in Relies("ConfigManager")
      BY <1>5, <1>n DEF Relies
    <2>2. Needs(r) = "ConfigManager"
      BY <1>5 DEF Needs
    <2>. QED
      BY <1>2, <1>4, <1>c, <2>1, <2>2
  <1>6. CASE s \in {"log", "level"}
    <2>1. r \in Relies("Logger")
      BY <1>6, <1>n DEF Relies
    <2>2. Needs(r) = "Logger"
      BY <1>6 DEF Needs
    <2>. QED
      BY <1>2, <1>4, <1>c, <2>1, <2>2
  <1>7. CASE s \in {"add", "create", "register"}
    <2>1. r \in Relies("FrameWork")
      BY <1>7, <1>n DEF Relies
    <2>2. Needs(r) \in {"m_factory", "m_mediator"}
      BY <1>7 DEF Needs
    <2>. QED
      BY <1>2, <1>4, <1>c, <2>1, <2>2
  <1>8. CASE s = "task"
    <2>1. r \in ProxyUsers
      BY <1>8, <1>n DEF ProxyUsers
    <2>2. Needs(r) = "proxy"
      BY <1>8 DEF Needs
    <2>. QED
      BY <1>2, <1>4, <2>1, <2>2
  <1>9. CASE s = "use"
    <2>1. Needs(r) = x /\ x \in Objects
      BY <1>3, <1>9, StatementKinds DEF Needs
    <2>2. CASE x = "proxy"
      <3>1. r \in ProxyUsers
        BY <1>9, <2>2 DEF ProxyUsers
      <3>. QED
        BY <1>2, <1>4, <2>1, <2>2, <3>1
    <2>3. CASE x # "proxy"
      <3>1. PICK c \in Classes : x \in Provides(c)
        <4>1. x # "m_loader"
          BY <1>2, <1>9 DEF Heard
        <4>. QED
          BY <2>1, <2>3, <4>1, NamesInLists DEF Objects, Provides
      <3>2. r \in {u \in Named({"use"}) : u[2] \in Provides(c)}
        BY <1>3, <1>9, <1>n, <3>1
      <3>3. r \in Relies(c)
        BY <3>2 DEF Relies
      <3>. QED
        BY <1>2, <1>4, <2>1, <3>1, <3>3
    <2>. QED
      BY <2>2, <2>3
  <1>10. CASE s \notin {"config", "log", "level", "add", "create", "register", "task", "use"}
    <2>1. Needs(r) = "nothing"
      BY <1>10 DEF Needs
    <2>. QED
      BY <1>2, <2>1
  <1>. QED
    BY <1>5, <1>6, <1>7, <1>8, <1>9, <1>10

\* In every program, for any number of workers, a thread that uses a
\* singleton, a member of FrameWork or the proxy finds it constructed and not
\* yet destroyed, but for the monitor's thread, which may find the loader's
\* callback deleted while main destroys the plug-ins and has not joined it.
\* While main is on its way, whoever relies on an instance has asked for it
\* before; when main destroys the other members of FrameWork, the monitor's
\* thread has been joined and no other is left.
THEOREM UsesWhatIsThere == SafeSpec => []UsesLive
  <1>1. TypeOK /\ Lists /\ Core => UsesLive
    <2>. SUFFICES ASSUME TypeOK, Lists, Core, NEW t \in Threads, todo[t] # <<>>
                  PROVE  \/ Needs(Head(todo[t])) \in objects \cup {"nothing"}
                         \/ t = "monitor" /\ Needs(Head(todo[t])) = "m_loader" /\ Unloading
      BY DEF UsesLive
    <2>0. todo[t] \in Seq(Statements) /\ "main" \in Threads
      BY TypeParts, NamesInLists DEF TodoOK
    <2>1. CASE Sound /\ Head(todo[t]) \notin Heard
      BY <2>1, NeedsMet
    <2>2. CASE Over
      <3>1. t = "main"
        BY <2>2 DEF Over, Lists, Busy
      <3>2. Head(todo[t]) \in Last
        BY <2>2, <3>1 DEF Over
      <3>3. Head(todo[t])[1] \in {"stopMediator", "drop", "flag", "push", "join", "exit"}
        BY <3>2 DEF Last, Named
      <3>. QED
        BY <3>3 DEF Needs
    <2>3. CASE Head(todo[t]) \in Heard
      <3>1. Needs(Head(todo[t])) = "m_loader"
        BY <2>3 DEF Heard, Needs
      <3>2. HasOne(todo[t], Heard)
        <4>1. 1 \in DOMAIN todo[t] /\ todo[t][1] = Head(todo[t])
          BY <2>0
        <4>. QED
          BY <2>3, <4>1 DEF HasOne
      <3>3. t = "monitor"
        BY <3>2 DEF Lists, Unheard
      <3>4. Closing => Unloading
        <4>. SUFFICES ASSUME NEW p \in Seq(Wakes), todo["main"] = p \o WakesEnd PROVE Unloading
          BY DEF Closing
        <4>1. /\ WakesEnd \in Seq(Statements) /\ WakesEnd # <<>> /\ Wakes \subseteq Statements
              /\ Head(WakesEnd) = <<"joinMonitor", "main">>
          BY EndLists
        <4>2. p \in Seq(Statements)
          BY <4>1, SeqMonotonic
        <4>3. HasOne(WakesEnd, {<<"joinMonitor", "main">>})
          <5>1. 1 \in DOMAIN WakesEnd /\ WakesEnd[1] = Head(WakesEnd)
            BY <4>1
          <5>. QED
            BY <4>1, <5>1 DEF HasOne
        <4>4. HasOne(p \o WakesEnd, {<<"joinMonitor", "main">>})
          <5>. DEFINE A == {<<"joinMonitor", "main">>}
          <5>. HIDE DEF A
          <5>1. HasOne(WakesEnd, A)
            BY <4>3 DEF A
          <5>2. HasOne(p \o WakesEnd, A)
            BY <4>1, <4>2, <5>1, HasOneConcat
          <5>. QED
            BY <5>2 DEF A
        <4>. QED
          BY <4>4 DEF HasOne, Unloading
      <3>. QED
        BY <3>1, <3>2, <3>3, <3>4 DEF Core, Attended
    <2>. QED
      BY <2>1, <2>2, <2>3 DEF Core, Alive
  <1>. QED
    BY <1>1, CoreAlways, PTL

(***************************************************************************)
(* What is asked for is loaded.                                            *)
(***************************************************************************)

\* A library that the process found and that is not in the factory yet is on
\* its way there, and main has not slept, or woke too early.
OnItsWay(lib) ==
    \/ lib \in home /\ Has(todo["main"], <<"mv", lib>>)
    \/ Has(events, lib)
    \/ Has(todo["monitor"], <<"add", lib>>)

Awaited(lib) ==
    (program # "framework_test" /\ life # "killed")
       => Has(todo["main"], <<"sleep", "main">>) /\ m_flag = "RUN" /\ OnItsWay(lib)

\* A server hears of a library when its FrameWork is there.
Expecting ==
    program # "framework_test" =>
       \A lib \in Libraries : Has(events, lib) => "FrameWork" \in m_instance

\* Each is in the factory or awaited, unless main woke too early.
Loading ==
    /\ Expecting
    /\ \A lib \in found \ broken : lib \in m_map \/ hurried \/ (~up /\ Awaited(lib))

\* The statements of a server after its sleep.
LEMMA NoSleepAfter ==
    ASSUME TypeOK, Lists, NEW s, NEW x, At("main", s, x), <<s, x>> \in Late
    PROVE  ~Has(todo["main"], <<"sleep", "main">>)
  <1>. DEFINE z == <<"sleep", "main">>
  <1>1. TodoOK /\ "main" \in Threads
    BY TypeParts, NamesInLists
  <1>2. todo["main"] \in Seq(Statements)
    BY <1>1 DEF TodoOK
  <1>3. \A j \in DOMAIN todo["main"] : ~(j < 1)
    BY <1>2
  <1>4. 1 \in DOMAIN todo["main"] /\ todo["main"][1] = <<s, x>>
    BY <1>1, FirstStatement
  <1>5. \A j \in DOMAIN todo["main"] : todo["main"][j] \in {z} => j < 1
    BY <1>4 DEF Lists, Ordered, Sorted
  <1>. HIDE DEF z
  <1>6. ~Has(todo["main"], z)
    BY <1>3, <1>5 DEF Has
  <1>. QED
    BY <1>6 DEF z

\* A library that is on its way stays there until it is in the factory,
\* whatever statement is executed,
LEMMA LoadingExecutes ==
    ASSUME TypeOK, Construction, Lists, Core, Loading, NEW t \in Threads, NEW q \in Seq(Statements),
           NEW s, NEW x, Executes(t, s, x, q)
    PROVE  Loading'
  <1>. DEFINE z == <<"sleep", "main">>
  <1>0. /\ TodoOK /\ "main" \in Threads /\ "monitor" \in Threads /\ 1 \in {0, 1}
        /\ At(t, s, x) /\ <<s, x>> \in Statements /\ Splice(t, q, 1) /\ life = "running"
        /\ MayExecute(t, s) /\ LoadAfter(s, x) /\ ObjectsAfter(s, x)
        /\ UNCHANGED <<program, broken, found>> /\ found \subseteq Libraries
    BY TypeParts, NamesInLists DEF TypeOK, Executes, fileVars, MayExecute
  <1>1. 1 \in DOMAIN todo[t] /\ todo[t][1] = <<s, x>>
    BY <1>0, FirstStatement
  <1>2. <<s, x>> \in Allowed
    <2>1. todo[t] \in Seq(Allowed)
      BY DEF Lists
    <2>2. \A i \in DOMAIN todo[t] : todo[t][i] \in Allowed
      BY <2>1
    <2>. QED
      BY <1>1, <2>2
  <1>3. \A u \in Threads : /\ todo[u] \in Seq(Statements) /\ todo'[u] \in Seq(Statements)
                           /\ u # t => todo'[u] = todo[u]
                           /\ u = t => Moved(todo'[u], q, todo[u], 1)
    BY <1>0, SplicedLists DEF TodoOK
  <1>4. ASSUME NEW u \in Threads, NEW o, Has(todo[u], o), u = t => <<s, x>> # o PROVE Has(todo'[u], o)
    BY <1>0, <1>1, <1>3, <1>4, HasMoved
  <1>e. Expecting'
    <2>. SUFFICES ASSUME program # "framework_test", NEW lib \in Libraries, Has(events', lib)
                  PROVE  "FrameWork" \in m_instance'
      BY <1>0 DEF Expecting
    <2>1. m_instance \subseteq m_instance'
      BY <1>0 DEF ObjectsAfter
    <2>2. CASE Has(events, lib)
      BY <2>1, <2>2 DEF Loading, Expecting
    <2>3. CASE s = "mv"
      <3>1. Sound
        BY DEF Core, Alive, Over
      <3>2. <<s, x>> \in Relies("FrameWork") /\ "FrameWork" \in Classes
        BY <1>0, <2>3, NamesInLists DEF Relies, Named
      <3>. QED
        BY <1>0, <2>1, <3>1, <3>2, FirstIsServed
    <2>. QED
      BY <1>0, <2>2, <2>3 DEF LoadAfter
  <1>. SUFFICES ASSUME NEW lib \in found \ broken, lib \notin m_map', ~hurried' PROVE ~up' /\ Awaited(lib)'
    BY <1>0, <1>e DEF Loading
  <1>r. lib \in Libraries /\ (s = "sleep" => CaughtUp)
    BY <1>0 DEF LoadAfter
  <1>l. lib \notin m_map
    BY <1>0 DEF LoadAfter
  <1>5. ~up /\ Awaited(lib)
    BY <1>0, <1>l DEF LoadAfter, Loading
  <1>6. ~up'
    <2>. SUFFICES ASSUME s = "up" PROVE FALSE
      BY <1>0, <1>5 DEF LoadAfter
    <2>1. <<s, x>> \in Late /\ t = "main"
      BY <1>0 DEF Late, Named, MayExecute
    <2>2. program # "framework_test"
      BY <1>2, <2>1 DEF Allowed
    <2>. QED
      BY <1>0, <1>5, <2>1, <2>2, NoSleepAfter DEF Awaited
  <1>7. ASSUME program # "framework_test"
        PROVE  Has(todo'["main"], z) /\ m_flag' = "RUN" /\ OnItsWay(lib)'
    <2>1. Has(todo["main"], z) /\ m_flag = "RUN" /\ OnItsWay(lib)
      BY <1>0, <1>5, <1>7 DEF Awaited
    <2>2. ~(t = "main" /\ <<s, x>> = z)
      <3>. SUFFICES ASSUME t = "main", <<s, x>> = z PROVE FALSE
        OBVIOUS
      <3>1. events = <<>> /\ todo["monitor"] = <<>>
        BY <1>r DEF CaughtUp
      <3>2. PICK k \in DOMAIN todo["main"] : todo["main"][k] = <<"mv", lib>>
        BY <2>1, <3>1, EmptyHasNothing DEF OnItsWay, Has
      <3>3. <<"mv", lib>> \in Named({"mv"})
        BY <1>r DEF Named, Statements
      <3>4. Sorted(todo["main"], Named({"mv"}), {z})
        BY DEF Lists, Ordered
      <3>5. k < 1
        BY <1>1, <3>2, <3>3, <3>4 DEF Sorted
      <3>6. todo["main"] \in Seq(Statements)
        BY <1>3, <1>0
      <3>. QED
        BY <3>2, <3>5, <3>6
    <2>3. Has(todo'["main"], z)
      <3>. HIDE DEF z
      <3>. QED
        BY <1>0, <1>4, <2>1, <2>2
    <2>4. m_flag' = "RUN"
      <3>1. s # "stopMonitor"
        BY <1>2, <1>7 DEF Allowed, ClosingNames
      <3>. QED
        BY <1>0, <2>1, <3>1 DEF LoadAfter
    <2>5. ASSUME lib \in home /\ Has(todo["main"], <<"mv", lib>>) PROVE OnItsWay(lib)'
      <3>1. CASE s = "mv" /\ x = lib
        BY <1>0, <2>5, <3>1 DEF LoadAfter, OnItsWay
      <3>2. CASE ~(s = "mv" /\ x = lib)
        <4>1. lib \in home' /\ <<s, x>> # <<"mv", lib>>
          BY <1>0, <2>5, <3>2 DEF LoadAfter
        <4>2. Has(todo'["main"], <<"mv", lib>>)
          BY <1>0, <1>4, <2>5, <4>1
        <4>. QED
          BY <4>1, <4>2 DEF OnItsWay
      <3>. QED
        BY <3>1, <3>2
    <2>6. ASSUME Has(events, lib) PROVE OnItsWay(lib)'
      <3>1. Has(events', lib)
        BY <1>0, <1>r, <2>6 DEF LoadAfter
      <3>. QED
        BY <3>1 DEF OnItsWay
    <2>7. ASSUME Has(todo["monitor"], <<"add", lib>>) PROVE OnItsWay(lib)'
      <3>1. <<s, x>> # <<"add", lib>>
        BY <1>0 DEF LoadAfter
      <3>2. Has(todo'["monitor"], <<"add", lib>>)
        BY <1>0, <1>4, <2>7, <3>1
      <3>. QED
        BY <3>2 DEF OnItsWay
    <2>. QED
      BY <2>1, <2>3, <2>4, <2>5, <2>6, <2>7 DEF OnItsWay
  <1>. QED
    BY <1>0, <1>6, <1>7 DEF Awaited

\* What a library's constructor has to do.
LEMMA NotifyAdds ==
    ASSUME NEW lib \in Libraries \ broken
    PROVE  Has(Broadcast(lib), <<"add", lib>>)
  <1>. DEFINE f == <<"get", "FrameWork">>
              a == <<"add", lib>>
              u == <<"use", "m_loader">>
  <1>1. Broadcast(lib) = (<<u>> \o (<<f>> \o <<a>>)) \o <<u>>
    BY DEF Broadcast, Notify, Register, Get
  <1>2. f \in Statements /\ a \in Statements /\ u \in Statements
    BY NamesInLists DEF Statements, Objects
  <1>. HIDE DEF f, a, u
  <1>3. \A c, d, e \in Statements : <<c>> \o <<d>> \in Seq(Statements) /\ <<c>> \in Seq(Statements)
    BY ConcatProperties
  <1>4. /\ <<f>> \o <<a>> \in Seq(Statements) /\ <<u>> \in Seq(Statements) /\ <<a>> \in Seq(Statements)
        /\ <<f>> \in Seq(Statements) /\ <<u>> \o (<<f>> \o <<a>>) \in Seq(Statements)
    BY <1>2, <1>3, ConcatProperties
  <1>. DEFINE A == {a}
  <1>5. HasOne(<<a>>, A)
    BY DEF HasOne
  <1>. HIDE DEF A
  <1>6. HasOne(<<f>> \o <<a>>, A)
    BY <1>4, <1>5, HasOneConcat
  <1>7. HasOne(<<u>> \o (<<f>> \o <<a>>), A)
    BY <1>4, <1>6, HasOneConcat
  <1>8. HasOne((<<u>> \o (<<f>> \o <<a>>)) \o <<u>>, A)
    BY <1>4, <1>7, HasOneConcat
  <1>. QED
    BY <1>1, <1>8 DEF a, A, HasOne, Has

\* also when the monitor's thread takes up its event: the loader is there.
LEMMA LoadingMonitorBegins ==
    ASSUME TypeOK, Core, Loading, NEW q \in Seq(Statements), MonitorBegins(q)
    PROVE  Loading'
  <1>0. /\ TodoOK /\ "main" \in Threads /\ "monitor" \in Threads
        /\ Splice("monitor", q, 0) /\ todo["monitor"] = <<>>
        /\ UNCHANGED <<m_instance, m_map, up, m_flag, home, program, life, broken, found, hurried>>
        /\ found \subseteq Libraries
        /\ \A lib \in Libraries : Has(events', lib) => Has(events, lib)
        /\ \A lib \in Libraries \ broken :
              (Has(events, lib) /\ m_flag = "RUN" /\ "m_loader" \in objects) =>
                 Has(events', lib) \/ q = Broadcast(lib)
    BY TypeParts, NamesInLists DEF TypeOK, MonitorBegins, Begins, worldVars, luckVars
  <1>e. Expecting'
    BY <1>0 DEF Loading, Expecting
  <1>1. todo'["main"] = todo["main"] /\ todo'["monitor"] = q
    <2>1. todo'["main"] = todo["main"] /\ todo'["monitor"] = q \o <<>>
      BY <1>0 DEF Splice, TodoOK, Rest
    <2>. QED
      BY <2>1, ConcatEmptySeq
  <1>. SUFFICES ASSUME NEW lib \in found \ broken, lib \notin m_map, ~hurried PROVE ~up /\ Awaited(lib)'
    BY <1>0, <1>e DEF Loading
  <1>2. ~up /\ Awaited(lib)
    BY DEF Loading
  <1>3. ASSUME program # "framework_test", OnItsWay(lib), m_flag = "RUN" PROVE OnItsWay(lib)'
    <2>1. ~Has(todo["monitor"], <<"add", lib>>)
      BY <1>0, EmptyHasNothing
    <2>2. CASE lib \in home /\ Has(todo["main"], <<"mv", lib>>)
      BY <1>0, <1>1, <2>2 DEF OnItsWay
    <2>3. CASE Has(events, lib)
      <3>1. Sound /\ "FrameWork" \in m_instance
        BY <1>0, <1>3, <2>3 DEF Loading, Expecting, Core, Alive, Over
      <3>2. "m_loader" \in Owes("FrameWork") /\ "FrameWork" \in Classes
        BY <1>3, NamesInLists DEF Owes, Comprises
      <3>3. "m_loader" \in objects
        BY <3>1, <3>2 DEF Sound, Live
      <3>. QED
        BY <1>0, <1>1, <1>3, <2>3, <3>3, NotifyAdds DEF OnItsWay
    <2>. QED
      BY <1>3, <2>1, <2>2, <2>3 DEF OnItsWay
  <1>. QED
    BY <1>0, <1>1, <1>2, <1>3 DEF Awaited

\* A process that has just been started has before it the libraries it found.
JustInstalled ==
    /\ JustStarted /\ ~up /\ events = <<>> /\ found \subseteq Libraries
    /\ life # "killed" => m_flag = "RUN" /\ home = found /\ todo = Fresh(Main(program))

\* Each is at home, with a mv to do, when a process starts,
LEMMA LoadingStart == JustInstalled => Loading
  <1>. SUFFICES ASSUME JustInstalled, NEW lib \in found, program # "framework_test", life # "killed"
                PROVE  Has(todo["main"], <<"sleep", "main">>) /\ m_flag = "RUN" /\ OnItsWay(lib)
    BY EmptyHasNothing DEF JustInstalled, Loading, Awaited, Expecting
  <1>. DEFINE l == todo["main"]
  <1>1. /\ l = Main(program) /\ program \in Programs /\ m_flag = "RUN" /\ home = found
        /\ lib \in Libraries
    BY NamesInLists DEF JustInstalled, JustStarted, Fresh
  <1>2. HasOne(l, {<<"sleep", "main">>}) /\ HasOne(l, {<<"mv", lib>>})
    BY <1>1, ServerMain
  <1>3. Has(l, <<"sleep", "main">>) /\ Has(l, <<"mv", lib>>)
    BY <1>2 DEF HasOne, Has
  <1>. QED
    BY <1>1, <1>3 DEF OnItsWay

\* or starts again.
LEMMA LoadingRestart == JustInstalled' => Loading'
  BY LoadingStart, PTL

\* So every step keeps it on its way.
LEMMA LoadingStep ==
    ASSUME TypeOK, TypeOK', Construction, Lists, Core, Loading, Step
    PROVE  Loading'
  <1>0. TodoOK /\ "main" \in Threads /\ "monitor" \in Threads
    BY TypeParts, NamesInLists
  <1>1. ASSUME NEW t \in Threads, NEW q \in Seq(Statements), NEW s, NEW x, Executes(t, s, x, q) PROVE Loading'
    BY <1>1, LoadingExecutes
  <1>2. ASSUME NEW c \in Classes, Destroys(c) PROVE Loading'
    <2>1. program = "framework_test" /\ UNCHANGED <<m_map, up, program, broken, found, hurried>>
      BY <1>2, StageDestroys DEF Destroys, processVars, worldVars, luckVars
    <2>. QED
      BY <2>1 DEF Loading, Awaited, Expecting
  <1>3. ASSUME UNCHANGED <<m_instance, m_map, up, m_flag, program, life, broken, found, hurried>>,
               todo'["main"] = todo["main"], todo'["monitor"] = todo["monitor"],
               program = "framework_test" \/ UNCHANGED <<home, events>>
        PROVE  Loading'
    BY <1>3 DEF Loading, Awaited, OnItsWay, Expecting
  <1>4. ASSUME NEW t \in Threads, NEW q \in Seq(Statements), WorkBegins(t, q) PROVE Loading'
    <2>1. /\ UNCHANGED <<m_instance, m_map, up, m_flag, program, life, broken, found, hurried, home, events>>
          /\ Splice(t, q, 0) /\ t \notin {"main", "monitor"}
      BY <1>4 DEF WorkBegins, Begins, worldVars, luckVars
    <2>2. todo'["main"] = todo["main"] /\ todo'["monitor"] = todo["monitor"]
      BY <1>0, <2>1 DEF Splice, TodoOK
    <2>. QED
      BY <1>3, <2>1, <2>2
  <1>5. CASE Stays
    BY <1>3, <1>5 DEF Stays, fileVars, homeVars
  <1>6. ASSUME NEW q \in Seq(Statements), Starts(q) PROVE Loading'
    <2>1. program \in Programs /\ ~Busy'
      BY <1>0, <1>6, TypeParts, BusyAfter DEF WorldOK
    <2>2. JustStarted'
      BY <1>6, <2>1 DEF Starts, SingletonReset, ProcessReset, fileVars, JustStarted, Fresh, Main
    <2>3. JustInstalled'
      BY <1>6, <2>2 DEF TypeOK, Starts, SingletonReset, ProcessReset, fileVars, JustInstalled, Fresh, Main
    <2>. QED
      BY <2>3, LoadingRestart
  <1>. QED
    BY <1>1, <1>2, <1>4, <1>5, <1>6, LoadingMonitorBegins DEF Step

\* It begins so.
LEMMA LoadingInit == Init => Loading
  <1>. SUFFICES ASSUME Init PROVE JustInstalled
    BY LoadingStart
  <1>1. /\ program \in Programs /\ SingletonInit(Fresh(Main(program))) /\ ProcessInit
        /\ home = Libraries /\ found = Libraries
    BY DEF Init
  <1>2. ~Busy
    BY <1>1 DEF SingletonInit, Fresh, ProcessInit, Busy
  <1>. QED
    BY <1>1, <1>2 DEF SingletonInit, ProcessInit, JustStarted, JustInstalled

\* And it is always so, together with the rest.
LEMMA LoadingAlways == SafeSpec => [](TypeOK /\ Construction /\ Lists /\ Core /\ Loading)
  <1>1. TypeOK /\ TypeOK' /\ Construction /\ Lists /\ Core /\ Loading /\ [Next]_vars => Loading'
    BY StepTaken, LoadingStep
  <1>. QED
    BY <1>1, LoadingInit, CoreAlways, PTL DEF SafeSpec

\* When main says that a server is up, every library that it found when it
\* was started and that can be loaded is in the factory, unless main woke up
\* before the plug-in monitor had dealt with them: for any number of workers,
\* requests, crashes and restarts, with or without libraries built again.
THEOREM UpIsReady == SafeSpec => []UpMeansReady
  <1>1. Loading => UpMeansReady
    BY DEF Loading, UpMeansReady
  <1>. QED
    BY <1>1, LoadingAlways, PTL

\* No step ends a process by an exception but for a bad key or file.
LEMMA DiesStep ==
    ASSUME TypeOK, Construction, Lists, Core, Loading, DiesOnlyOfBadFiles, Step
    PROVE  DiesOnlyOfBadFiles'
  <1>0. TodoOK /\ "main" \in Threads /\ broken \subseteq Libraries \cup {"nbd", "minions"}
    BY TypeParts, NamesInLists DEF WorldOK
  <1>1. ASSUME NEW t \in Threads, NEW q \in Seq(Statements), NEW s, NEW x, Executes(t, s, x, q)
        PROVE  DiesOnlyOfBadFiles'
    <2>0. /\ At(t, s, x) /\ <<s, x>> \in Statements /\ LifeAfter(s, x)
          /\ UNCHANGED <<missing, broken, found>> /\ (hurried => hurried')
          /\ life = "running" /\ todo[t] # <<>>
      BY <1>1 DEF Executes, fileVars, MayExecute, LoadAfter, At
    <2>1. <<s, x>> \in Allowed
      <3>1. todo[t] \in Seq(Allowed)
        BY DEF Lists
      <3>2. \A i \in DOMAIN todo[t] : todo[t][i] \in Allowed
        BY <3>1
      <3>3. 1 \in DOMAIN todo[t] /\ todo[t][1] = <<s, x>>
        BY <1>0, <2>0, FirstStatement
      <3>. QED
        BY <3>2, <3>3
    <2>2. s = "throw" => "nbd" \in broken
      BY <2>1 DEF Allowed
    <2>3. (s = "create" /\ x \notin m_map) => broken \ {"minions"} # {} \/ found # Libraries \/ hurried
      <3>. SUFFICES ASSUME s = "create", x \notin m_map, broken \ {"minions"} = {}, found = Libraries, ~hurried
                    PROVE  FALSE
        OBVIOUS
      <3>1. x \in found \ broken /\ <<s, x>> \in Late
        BY <2>0, StatementKinds DEF Late, Named, Libraries
      <3>2. program # "framework_test"
        BY <2>1, <3>1 DEF Allowed
      <3>3. Has(todo["main"], <<"sleep", "main">>)
        BY <2>0, <3>1, <3>2 DEF Loading, Awaited
      <3>4. t # "main"
        BY <2>0, <3>1, <3>3, NoSleepAfter
      <3>5. t # "monitor"
        BY <1>1, MonitorReads
      <3>6. Busy
        BY <2>0, <3>4, <3>5 DEF Busy
      <3>7. HasOne(todo["main"], {<<"sleep", "main">>})
        BY <3>3 DEF Has, HasOne
      <3>. QED
        BY <3>6, <3>7 DEF Core, Serving
    <2>. QED
      BY <2>0, <2>2, <2>3 DEF LifeAfter, DiesOnlyOfBadFiles
  <1>2. ASSUME UNCHANGED <<life, missing, broken, found, hurried>> PROVE DiesOnlyOfBadFiles'
    BY <1>2 DEF DiesOnlyOfBadFiles
  <1>3. ASSUME NEW c \in Classes, Destroys(c) PROVE DiesOnlyOfBadFiles'
    BY <1>2, <1>3 DEF Destroys, worldVars, luckVars
  <1>4. ASSUME NEW q \in Seq(Statements), MonitorBegins(q) PROVE DiesOnlyOfBadFiles'
    BY <1>2, <1>4 DEF MonitorBegins, Begins, worldVars, luckVars
  <1>5. ASSUME NEW t \in Threads, NEW q \in Seq(Statements), WorkBegins(t, q) PROVE DiesOnlyOfBadFiles'
    BY <1>2, <1>5 DEF WorkBegins, Begins, worldVars, luckVars
  <1>6. CASE Stays
    BY <1>2, <1>6 DEF Stays, fileVars, homeVars
  <1>7. ASSUME NEW q \in Seq(Statements), Starts(q) PROVE DiesOnlyOfBadFiles'
    BY <1>7 DEF Starts, DiesOnlyOfBadFiles
  <1>. QED
    BY <1>1, <1>3, <1>4, <1>5, <1>6, <1>7 DEF Step

\* A process ends by an exception only when a key or a file is bad, when a
\* library was not there when it was started or when main woke up too early:
\* a worker that creates a command does it for a request, a request comes
\* after the proxy is registered, that is after main's sleep, and by then the
\* libraries are in the factory.
THEOREM DiesOfBadFiles == SafeSpec => []DiesOnlyOfBadFiles
  <1>1. TypeOK /\ Construction /\ Lists /\ Core /\ Loading /\ DiesOnlyOfBadFiles /\ [Next]_vars
        => DiesOnlyOfBadFiles'
    BY StepTaken, DiesStep
  <1>2. Init => DiesOnlyOfBadFiles
    BY DEF Init, DiesOnlyOfBadFiles
  <1>. QED
    BY <1>1, <1>2, LoadingAlways, PTL DEF SafeSpec
=============================================================================
