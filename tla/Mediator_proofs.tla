--------------------------- MODULE Mediator_proofs ---------------------------
(***************************************************************************)
(* Proofs about Mediator and its Reactor, for any set of descriptors and   *)
(* any bounds: the types, with the bound on what is under way; a handler   *)
(* is entered only when there is a request to read; and it finds the proxy *)
(* of its descriptor.                                                      *)
(***************************************************************************)
EXTENDS Mediator, FiniteSetTheorems, TLAPS

\* The statements that can be left of the owner's call, and where the
\* descriptor that is being registered is by then.
Calls == {<<>>, <<"run", "notify">>, <<"notify">>, <<"proxy", "add">>, <<"add">>, <<"stopPool", "stopReactor", "join">>,
          <<"stopReactor", "join">>, <<"join">>}

Registering ==
    /\ todo \in Calls
    /\ todo = <<"proxy", "add">> => subject \notin m_proxy_map
    /\ todo = <<"add">> => subject \in m_proxy_map \ m_map

\* What the reactor knows has a proxy, the descriptor in its hands included.
Known ==
    /\ m_map \subseteq m_proxy_map
    /\ at \in {"handler", "parse"} => it <= Len(to_invoke)
    /\ at = "handler" => to_invoke[it] \in m_map

\* The list is empty outside InvokeHandlers; in it every descriptor is there
\* once, and the ones not yet called have something to read.
ListFresh ==
    /\ at \notin {"invoke", "handler", "parse"} => to_invoke = <<>> /\ it = 1
    /\ \A i, j \in 1..Len(to_invoke) : i # j => to_invoke[i] # to_invoke[j]
    /\ \A j \in it..Len(to_invoke) : pending[to_invoke[j]] > 0

\* Requests that are served, in the pool or still to be read.
Bounded == \A fd \in Fds : served[fd] + tasks[fd] + pending[fd] <= MaxServed

IInv == TypeOK /\ Registering /\ Known /\ ListFresh /\ Bounded

-----------------------------------------------------------------------------

\* A statement of the owner takes the first of its call away.
LEMMA StatementTakes ==
  ASSUME todo \in Calls, NEW s, Statement(s)
  PROVE  /\ s = "proxy" => todo = <<"proxy", "add">> /\ todo' = <<"add">>
         /\ s = "add" => todo = <<"add">> /\ todo' = <<>>
         /\ s \in {"run", "notify", "stopPool", "stopReactor", "join"} =>
               /\ todo' \in Calls /\ todo' # <<"proxy", "add">> /\ todo' # <<"add">>
         /\ todo' \in Calls
<1> USE DEF Statement, Calls
<1>1. CASE todo = <<"proxy", "add">> BY <1>1
<1>2. CASE todo = <<"add">> BY <1>2
<1>3. CASE todo = <<"stopPool", "stopReactor", "join">> BY <1>3
<1>4. CASE todo = <<"stopReactor", "join">> BY <1>4
<1>5. CASE todo = <<"join">> BY <1>5
<1>6. CASE todo = <<"run", "notify">> BY <1>6
<1>7. CASE todo = <<"notify">> BY <1>7
<1> QED BY <1>1, <1>2, <1>3, <1>4, <1>5, <1>6, <1>7

\* What is left of a call is a sequence of statements.
LEMMA CallsType ==
  Calls \subseteq Seq({"run", "notify", "proxy", "add", "stopPool", "stopReactor", "join"})
<1> DEFINE S == {"run", "notify", "proxy", "add", "stopPool", "stopReactor", "join"}
<1>1. /\ <<>> \in Seq(S) /\ <<"proxy", "add">> \in Seq(S) /\ <<"add">> \in Seq(S)
      /\ <<"stopPool", "stopReactor", "join">> \in Seq(S)
      /\ <<"stopReactor", "join">> \in Seq(S) /\ <<"join">> \in Seq(S)
      /\ <<"run", "notify">> \in Seq(S) /\ <<"notify">> \in Seq(S)
  OBVIOUS
<1> QED BY <1>1 DEF Calls

\* CreateList's order of a set of descriptors: each of them once, so no
\* longer than there are descriptors.
LEMMA OrderType ==
  ASSUME NEW S, S \subseteq Fds, NEW order \in SequenceLib!SetToSeqs(S)
  PROVE  /\ order \in Seq(Fds)
         /\ Len(order) <= Cardinality(Fds)
         /\ \A i \in 1..Len(order) : order[i] \in S
         /\ \A i, j \in 1..Len(order) : i # j => order[i] # order[j]
         /\ order \o <<>> = order
<1>1. IsFiniteSet(S) /\ Cardinality(S) \in Nat /\ Cardinality(S) <= Cardinality(Fds)
  BY FdsAssumption, FS_Subset, FS_CardinalityType
<1>2. /\ order \in [1..Cardinality(S) -> S]
      /\ \A i, j \in 1..Cardinality(S) : i # j => order[i] # order[j]
  BY DEF SequenceLib!SetToSeqs, SequenceLib!Cardinality, Cardinality
<1>3. order \in Seq(Fds) /\ Len(order) = Cardinality(S)
  BY <1>1, <1>2
<1> QED BY <1>1, <1>2, <1>3

\* The initial state.
LEMMA InitHolds == Init => IInv
<1> SUFFICES ASSUME Init PROVE IInv
  OBVIOUS
<1> USE DEF Init, ReactorInit
<1>1. Cardinality(Fds) \in Nat
  BY FdsAssumption, FS_CardinalityType
<1>2. TypeOK
  BY <1>1, FdsAssumption, MediatorAssumption DEF TypeOK, ReactorTypeOK
<1>3. Registering
  BY DEF Registering, Calls
<1>4. Known /\ ListFresh /\ Bounded
  BY MediatorAssumption DEF Known, ListFresh, Bounded
<1> QED BY <1>2, <1>3, <1>4 DEF IInv

\* The owner: a proxy is there before the reactor is told of its descriptor.
LEMMA OwnerKeeps ==
  ASSUME IInv, Owner \/ Dtor \/ \E fd \in Fds : RegisterProxy(fd)
  PROVE  IInv'
<1> USE DEF IInv
<1>1. todo \in Calls
  BY DEF Registering
<1>2. CASE \E fd \in Fds : RegisterProxy(fd)
  <2>1. TypeOK'
    BY <1>2, CallsType DEF RegisterProxy, RegisterStatements, TypeOK, ReactorTypeOK, reactorVars,
                           Calls
  <2>2. Registering'
    BY <1>2 DEF RegisterProxy, RegisterStatements, Registering, Calls
  <2>3. Known' /\ ListFresh' /\ Bounded'
    BY <1>2 DEF RegisterProxy, reactorVars, Known, ListFresh, Bounded
  <2> QED BY <2>1, <2>2, <2>3
<1>3. CASE Dtor
  <2>1. TypeOK'
    BY <1>3, CallsType DEF Dtor, DtorStatements, TypeOK, ReactorTypeOK, reactorVars, Calls
  <2>2. Registering'
    BY <1>3 DEF Dtor, DtorStatements, Registering, Calls
  <2>3. Known' /\ ListFresh' /\ Bounded'
    BY <1>3 DEF Dtor, reactorVars, Known, ListFresh, Bounded
  <2> QED BY <2>1, <2>2, <2>3
<1>4. CASE PutProxy
  <2>1. todo = <<"proxy", "add">> /\ todo' = <<"add">>
    BY <1>1, <1>4, StatementTakes DEF PutProxy
  <2>2. TypeOK'
    BY <1>4, <2>1, CallsType DEF PutProxy, TypeOK, ReactorTypeOK, reactorVars, Calls
  <2>3. Registering'
    BY <1>4, <2>1 DEF PutProxy, reactorVars, Registering, Calls, Known
  <2>4. Known' /\ ListFresh' /\ Bounded'
    BY <1>4 DEF PutProxy, reactorVars, Known, ListFresh, Bounded
  <2> QED BY <2>2, <2>3, <2>4
<1>5. CASE AddToReactor
  <2>1. todo = <<"add">> /\ todo' = <<>>
    BY <1>1, <1>5, StatementTakes DEF AddToReactor
  <2>2. TypeOK'
    BY <1>5, <2>1, CallsType DEF AddToReactor, Add, TypeOK, ReactorTypeOK, Calls
  <2>3. Registering'
    BY <2>1 DEF Registering, Calls
  <2>4. Known' /\ ListFresh' /\ Bounded'
    BY <1>5, <2>1 DEF AddToReactor, Add, Registering, Known, ListFresh, Bounded
  <2> QED BY <2>2, <2>3, <2>4
<1>6. CASE RunPool \/ NotifyAll \/ StopPool \/ StopReactor \/ Join
  <2>1. todo' \in Calls /\ todo' # <<"proxy", "add">> /\ todo' # <<"add">>
    BY <1>1, <1>6, StatementTakes DEF RunPool, NotifyAll, StopPool, StopReactor, Join
  <2>2. TypeOK'
    BY <1>6, <2>1, CallsType
       DEF RunPool, NotifyAll, StopPool, StopReactor, Join, Stop, TypeOK, ReactorTypeOK, reactorVars
  <2>3. Registering'
    BY <2>1 DEF Registering
  <2>4. Known' /\ ListFresh' /\ Bounded'
    BY <1>6 DEF RunPool, NotifyAll, StopPool, StopReactor, Join, Stop, reactorVars, Known, ListFresh, Bounded
  <2> QED BY <2>2, <2>3, <2>4
<1> QED BY <1>2, <1>3, <1>4, <1>5, <1>6 DEF Owner

\* The loop of the reactor: the list is made of descriptors that are ready,
\* used up, and cleared.
LEMMA RunLoopKeeps ==
  ASSUME IInv, RunLoop, UNCHANGED mediatorVars
  PROVE  IInv'
<1> USE DEF IInv, mediatorVars
<1>1. CASE ClearStopFlag \/ TestStopFlag
  <2>1. TypeOK'
    BY <1>1 DEF ClearStopFlag, TestStopFlag, TypeOK, ReactorTypeOK
  <2>2. (Registering /\ Known /\ ListFresh /\ Bounded)'
    BY <1>1 DEF ClearStopFlag, TestStopFlag, Registering, Known, ListFresh, Bounded
  <2> QED BY <2>1, <2>2
<1>2. CASE Select
  <2>1. PICK order \in SequenceLib!SetToSeqs(ReadyFds \cap m_map) :
          to_invoke' = order \o to_invoke
    BY <1>2 DEF Select
  <2>2. to_invoke = <<>>
    BY <1>2 DEF Select, ListFresh
  <2>3. ReadyFds \cap m_map \subseteq Fds
    BY DEF TypeOK, ReactorTypeOK
  <2>4. /\ to_invoke' = order
        /\ order \in Seq(Fds)
        /\ Len(order) <= Cardinality(Fds)
        /\ \A i \in 1..Len(order) : order[i] \in ReadyFds
        /\ \A i, j \in 1..Len(order) : i # j => order[i] # order[j]
    BY <2>1, <2>2, <2>3, OrderType
  <2>5. TypeOK'
    BY <1>2, <2>4 DEF Select, TypeOK, ReactorTypeOK
  <2>6. ListFresh'
    BY <1>2, <2>4 DEF Select, ListFresh, ReadyFds
  <2>7. (Registering /\ Known /\ Bounded)'
    BY <1>2 DEF Select, Registering, Known, Bounded
  <2> QED BY <2>5, <2>6, <2>7
<1>3. CASE Invoked
  <2>1. TypeOK'
    BY <1>3, FdsAssumption, FS_CardinalityType DEF Invoked, TypeOK, ReactorTypeOK
  <2>2. (Registering /\ Known /\ ListFresh /\ Bounded)'
    BY <1>3 DEF Invoked, Registering, Known, ListFresh, Bounded
  <2> QED BY <2>1, <2>2
<1>4. CASE SkipRemoved
  <2>1. /\ it \in 1..Len(to_invoke) /\ Len(to_invoke) \in Nat
        /\ it' = it + 1 /\ to_invoke' = to_invoke /\ at' = at /\ pending' = pending
        /\ UNCHANGED <<m_map, m_stop_flag, sets>>
    BY <1>4 DEF SkipRemoved, TypeOK, ReactorTypeOK
  <2>2. it' \in 1..(Len(to_invoke) + 1)
    BY <2>1
  <2>3. TypeOK'
    BY <2>1, <2>2 DEF TypeOK, ReactorTypeOK
  <2>4. (it + 1)..Len(to_invoke) \subseteq it..Len(to_invoke)
    BY <2>1
  <2>5. ListFresh'
    BY <1>4, <2>1, <2>4 DEF ListFresh, SkipRemoved
  <2>6. (Registering /\ Known /\ Bounded)'
    BY <1>4 DEF SkipRemoved, Registering, Known, Bounded
  <2> QED BY <2>3, <2>5, <2>6
<1>5. CASE CallHandler
  <2>1. TypeOK'
    BY <1>5 DEF CallHandler, TypeOK, ReactorTypeOK
  <2>2. (Registering /\ Known /\ ListFresh /\ Bounded)'
    BY <1>5 DEF CallHandler, Registering, Known, ListFresh, Bounded
  <2> QED BY <2>1, <2>2
<1> QED BY <1>1, <1>2, <1>3, <1>4, <1>5 DEF RunLoop

\* The proxy is looked up while its descriptor is still in the reactor's map.
LEMMA FindProxyKeeps ==
  ASSUME IInv, FindProxy
  PROVE  IInv'
<1> USE DEF IInv, FindProxy, mediatorVars
<1>1. TypeOK'
  BY DEF TypeOK, ReactorTypeOK
<1>2. (Registering /\ Known /\ ListFresh /\ Bounded)'
  BY DEF Registering, Known, ListFresh, Bounded
<1> QED BY <1>1, <1>2

\* A handler reads one request of its own descriptor, which is in the list
\* only once.
LEMMA HandlerKeeps ==
  ASSUME IInv, ReactorHandler
  PROVE  IInv'
<1> USE DEF IInv
<1> DEFINE fd == to_invoke[it]
<1>1. /\ it \in 1..Len(to_invoke) /\ fd \in Fds
      /\ pending[fd] \in 1..MaxPending /\ tasks[fd] \in Nat /\ served[fd] \in 0..MaxServed
  BY FdsAssumption, MediatorAssumption
     DEF ReactorHandler, HandlerReturns, Known, TypeOK, ReactorTypeOK
<1>2. /\ pending' = [pending EXCEPT ![fd] = @ - 1]
      /\ tasks' = [tasks EXCEPT ![fd] = @ + 1]
      /\ it' = it + 1 /\ at' = "invoke"
      /\ UNCHANGED <<m_map, m_stop_flag, sets, to_invoke>>
      /\ UNCHANGED <<m_proxy_map, served, pool, workers, todo, subject, life>>
  BY DEF ReactorHandler, HandlerReturns
<1> HIDE DEF fd
<1>3. TypeOK'
  <2>1. Len(to_invoke) \in Nat /\ it' \in 1..(Len(to_invoke) + 1)
    BY <1>1, <1>2 DEF TypeOK, ReactorTypeOK
  <2>2. pending[fd] - 1 \in 0..MaxPending /\ tasks[fd] + 1 \in Nat
    BY <1>1, FdsAssumption
  <2>3. pending' \in [Fds -> 0..MaxPending] /\ tasks' \in [Fds -> Nat]
    BY <1>2, <2>2 DEF TypeOK, ReactorTypeOK
  <2> QED BY <1>2, <2>1, <2>3 DEF TypeOK, ReactorTypeOK
<1>4. ListFresh'
  <2>1. \A j \in (it + 1)..Len(to_invoke) : to_invoke[j] # fd
    BY <1>1 DEF ListFresh, fd
  <2>2. \A j \in (it + 1)..Len(to_invoke) : to_invoke[j] \in Fds /\ pending[to_invoke[j]] > 0
    <3>1. \A j \in (it + 1)..Len(to_invoke) : j \in 1..Len(to_invoke) /\ j \in it..Len(to_invoke)
      BY <1>1 DEF TypeOK, ReactorTypeOK
    <3>2. \A j \in 1..Len(to_invoke) : to_invoke[j] \in Fds
      BY DEF TypeOK, ReactorTypeOK
    <3>3. \A j \in it..Len(to_invoke) : pending[to_invoke[j]] > 0
      BY DEF ListFresh
    <3> QED BY <3>1, <3>2, <3>3, Zenon
  <2>3. \A j \in (it + 1)..Len(to_invoke) : pending'[to_invoke[j]] > 0
    BY <1>2, <2>1, <2>2 DEF TypeOK, ReactorTypeOK
  <2> QED BY <1>2, <2>3 DEF ListFresh
<1>5. Bounded'
  <2> SUFFICES ASSUME NEW g \in Fds PROVE served'[g] + tasks'[g] + pending'[g] <= MaxServed
    BY DEF Bounded
  <2>1. CASE g = fd
    BY <1>1, <1>2, <2>1, MediatorAssumption DEF Bounded, TypeOK, ReactorTypeOK
  <2>2. CASE g # fd
    BY <1>1, <1>2, <2>2 DEF Bounded, TypeOK, ReactorTypeOK
  <2> QED BY <2>1, <2>2
<1>6. Registering' /\ Known'
  BY <1>2 DEF Registering, Known
<1> QED BY <1>3, <1>4, <1>5, <1>6

\* ParseData may unregister any descriptor, the one it was called for
\* included: from then on the handler does without its entry in the maps.
LEMMA UnRegisterKeeps ==
  ASSUME IInv, NEW fd \in Fds, UnRegisterProxy(fd)
  PROVE  IInv'
<1> USE DEF IInv, UnRegisterProxy, Remove
<1>1. TypeOK'
  BY DEF TypeOK, ReactorTypeOK
<1>2. Registering'
  BY DEF Registering
<1>3. Known' /\ ListFresh' /\ Bounded'
  BY DEF Known, ListFresh, Bounded
<1> QED BY <1>1, <1>2, <1>3

\* Workers, and requests that come in.
LEMMA OutsideKeeps ==
  ASSUME IInv, NEW fd \in Fds, Do(fd) \/ Request(fd)
  PROVE  IInv'
<1> USE DEF IInv
<1>1. /\ pending[fd] \in Nat /\ tasks[fd] \in Nat /\ served[fd] \in Nat
      /\ MaxServed \in Nat /\ MaxPending \in Nat
      /\ served[fd] + tasks[fd] + pending[fd] <= MaxServed
  BY FdsAssumption, MediatorAssumption DEF TypeOK, ReactorTypeOK, Bounded
<1>2. CASE Do(fd)
  <2>1. TypeOK'
    <3>1. served[fd] + 1 \in 0..MaxServed /\ tasks[fd] - 1 \in Nat
      BY <1>1, <1>2 DEF Do
    <3>2. served' \in [Fds -> 0..MaxServed] /\ tasks' \in [Fds -> Nat]
      BY <1>2, <3>1 DEF Do, TypeOK
    <3> QED BY <1>2, <3>2 DEF Do, reactorVars, TypeOK, ReactorTypeOK
  <2>2. Bounded'
    <3> SUFFICES ASSUME NEW g \in Fds PROVE served'[g] + tasks'[g] + pending'[g] <= MaxServed
      BY DEF Bounded
    <3>1. CASE g = fd BY <1>1, <1>2, <3>1 DEF Do, reactorVars, TypeOK
    <3>2. CASE g # fd BY <1>2, <3>2 DEF Do, reactorVars, TypeOK, Bounded
    <3> QED BY <3>1, <3>2
  <2>3. (Registering /\ Known /\ ListFresh)'
    BY <1>2 DEF Do, reactorVars, Registering, Known, ListFresh
  <2> QED BY <2>1, <2>2, <2>3
<1>3. CASE Request(fd)
  <2> USE DEF Request, Arrive, mediatorVars
  <2>1. TypeOK'
    <3>1. pending' = [pending EXCEPT ![fd] = @ + 1] /\ pending[fd] + 1 \in 0..MaxPending
      BY <1>1, <1>3
    <3>2. pending' \in [Fds -> 0..MaxPending]
      BY <3>1 DEF TypeOK, ReactorTypeOK
    <3> QED BY <1>3, <3>2 DEF TypeOK, ReactorTypeOK
  <2>2. Bounded'
    <3> SUFFICES ASSUME NEW g \in Fds PROVE served'[g] + tasks'[g] + pending'[g] <= MaxServed
      BY DEF Bounded
    <3>1. CASE g = fd
      <4>1. /\ pending'[fd] = pending[fd] + 1
            /\ served'[fd] = served[fd] /\ tasks'[fd] = tasks[fd]
            /\ served[fd] + tasks[fd] + pending[fd] < MaxServed
        BY <1>3 DEF TypeOK, ReactorTypeOK
      <4> QED BY <1>1, <3>1, <4>1
    <3>2. CASE g # fd BY <1>3, <3>2 DEF TypeOK, ReactorTypeOK, Bounded
    <3> QED BY <3>1, <3>2
  <2>3. ListFresh'
    <3>1. \A j \in it..Len(to_invoke) : to_invoke[j] \in Fds
      BY DEF TypeOK, ReactorTypeOK
    <3>2. \A g \in Fds : pending[g] > 0 => pending'[g] > 0
      BY <1>1, <1>3 DEF TypeOK, ReactorTypeOK
    <3> QED BY <1>3, <3>1, <3>2 DEF ListFresh
  <2>4. Registering' /\ Known'
    BY <1>3 DEF Registering, Known
  <2> QED BY <2>1, <2>2, <2>3, <2>4
<1> QED BY <1>2, <1>3

\* Workers in their peels.
LEMMA WorkerKeeps ==
  ASSUME IInv, NEW w \in Workers, WorkerStep(w) \/ SpuriousWakeup(w)
  PROVE  IInv'
<1> USE DEF IInv
<1>1. PICK t \in {"check", "wait", "asleep", "pop"} :
        /\ workers' = [workers EXCEPT ![w] = t]
        /\ UNCHANGED <<reactorVars, m_proxy_map, tasks, served, pool, todo, subject, life>>
  BY DEF WorkerStep, Check, FallAsleep, SpuriousWakeup, Peel
<1>2. TypeOK'
  BY <1>1 DEF TypeOK, ReactorTypeOK, reactorVars
<1>3. (Registering /\ Known /\ ListFresh /\ Bounded)'
  BY <1>1 DEF Registering, Known, ListFresh, Bounded, reactorVars
<1> QED BY <1>2, <1>3

\* Every step keeps the invariant.
LEMMA NextKeeps == IInv /\ [Next]_vars => IInv'
<1> SUFFICES ASSUME IInv, [Next]_vars PROVE IInv'
  OBVIOUS
<1>1. CASE UNCHANGED vars
  BY <1>1 DEF vars, reactorVars, mediatorVars, IInv, TypeOK, ReactorTypeOK, Registering, Known,
              ListFresh, Bounded
<1>2. CASE Next
  BY <1>2, OwnerKeeps, RunLoopKeeps, FindProxyKeeps, HandlerKeeps, UnRegisterKeeps,
     OutsideKeeps, WorkerKeeps
     DEF Next, ReactorThread
<1> QED BY <1>1, <1>2

\* The invariant always holds.
LEMMA IInvAlways == SafeSpec => []IInv
BY InitHolds, NextKeeps, PTL DEF SafeSpec

-----------------------------------------------------------------------------

\* The types of mediator and reactor, with their bounds: InvokeHandlers stays
\* within its list, the list is no longer than there are descriptors, and no
\* more is served than came in.
THEOREM TypeCorrect == SafeSpec => []TypeOK
<1>1. IInv => TypeOK
  BY DEF IInv
<1> QED BY <1>1, IInvAlways, PTL

\* The reactor enters a handler only if its descriptor has something to read,
\* although the list was made before earlier handlers ran, and finds it.
THEOREM NeverBlocksInRead == SafeSpec => []ReadsOnlyReady
<1>1. IInv => ReadsOnlyReady
  BY DEF IInv, ListFresh, Known, TypeOK, ReactorTypeOK, ReadsOnlyReady
<1> QED BY <1>1, IInvAlways, PTL

\* A handler finds the proxy of its descriptor, while the owner registers
\* others and handlers unregister them.
THEOREM ProxyAlwaysThere == SafeSpec => []HandlerFindsProxy
<1>1. IInv => HandlerFindsProxy
  BY DEF IInv, Known, HandlerFindsProxy
<1> QED BY <1>1, IInvAlways, PTL
==============================================================================
