------------------------------ MODULE Mediator ------------------------------
(***************************************************************************)
(* Mediator: proxies register a descriptor; when the reactor finds it      *)
(* ready, the proxy's ParseData makes a command of the request and the     *)
(* command becomes a task of the thread pool.                              *)
(*                                                                         *)
(* Three parties: the owner, which constructs the mediator, registers      *)
(* proxies and destroys it; the reactor's thread; the workers of the pool, *)
(* each of which has a SleepingPeel to get through before it takes tasks   *)
(* (see ThreadPool).                                                       *)
(***************************************************************************)
EXTENDS Reactor

CONSTANTS Workers,      \* the threads of the pool
          MaxServed,    \* bound: requests served per descriptor
          Hasty         \* TRUE: the owner may destroy the mediator before
                        \* the reactor's thread has begun its loop

ASSUME MediatorAssumption == MaxServed \in Nat \ {0} /\ Hasty \in BOOLEAN

VARIABLES m_proxy_map,  \* the descriptors that have a proxy
          tasks,        \* tasks[fd]: commands of fd in the pool's queue
          served,       \* served[fd]: commands of fd that have run
          pool,         \* the pool's m_flag
          workers,      \* workers[w]: "pop", or where it is in its peel
          todo,         \* remaining statements of the owner's call
          subject,      \* the descriptor RegisterProxy was called with
          life          \* whether the mediator is up, being destroyed, gone

mediatorVars == <<m_proxy_map, tasks, served, pool, workers, todo, subject, life>>
vars == <<reactorVars, mediatorVars>>

\* Mutant: the reactor knows of the descriptor before the proxy is there.
RegisterSwapped == <<"add", "proxy">>

RegisterStatements == <<"proxy", "add">>
\* Mutant: the thread is joined before it is told to stop.
DtorJoinFirst == <<"stopPool", "join", "stopReactor">>

DtorStatements == <<"stopPool", "stopReactor", "join">>

TypeOK ==
    /\ ReactorTypeOK
    /\ m_proxy_map \subseteq Fds
    /\ tasks \in [Fds -> Nat]
    /\ served \in [Fds -> 0..MaxServed]
    /\ pool \in {"PAUSE", "RUN", "STOP"}
    /\ workers \in [Workers -> {"check", "wait", "asleep", "pop"}]
    /\ todo \in Seq({"run", "notify", "proxy", "add", "stopPool", "stopReactor", "join"})
    /\ subject \in Fds
    /\ life \in {"up", "dtor", "gone"}

\* The constructor has started the reactor's thread and is about to call Run
\* of the pool it was given, whose workers have just been created: each is
\* somewhere before the loop condition of a SleepingPeel.
Init ==
    /\ ReactorInit
    /\ m_proxy_map = {}
    /\ tasks = [fd \in Fds |-> 0]
    /\ served = [fd \in Fds |-> 0]
    /\ pool = "PAUSE"
    /\ workers = [w \in Workers |-> "check"]
    /\ todo = <<"run", "notify">>
    /\ subject \in Fds
    /\ life = "up"

-----------------------------------------------------------------------------
(* The owner. *)

RegisterProxy(fd) ==
    /\ life = "up" /\ todo = <<>>
    /\ fd \notin m_proxy_map
    /\ todo' = RegisterStatements
    /\ subject' = fd
    /\ UNCHANGED <<reactorVars, m_proxy_map, tasks, served, pool, workers, life>>

Dtor ==
    /\ life = "up" /\ todo = <<>>
    /\ at = "start" => Hasty
    /\ life' = "dtor"
    /\ todo' = DtorStatements
    /\ UNCHANGED <<reactorVars, m_proxy_map, tasks, served, pool, workers, subject>>

Statement(s) == todo # <<>> /\ Head(todo) = s /\ todo' = Tail(todo)

PutProxy ==
    /\ Statement("proxy")
    /\ m_proxy_map' = m_proxy_map \cup {subject}
    /\ UNCHANGED <<reactorVars, tasks, served, pool, workers, subject, life>>

AddToReactor ==
    /\ Statement("add")
    /\ Add(subject)
    /\ UNCHANGED <<m_stop_flag, at, sets, to_invoke, it, pending,
                   m_proxy_map, tasks, served, pool, workers, subject, life>>

\* The pool's Run in the constructor: the flag, then the workers asleep.
RunPool ==
    /\ Statement("run")
    /\ pool' = "RUN"
    /\ UNCHANGED <<reactorVars, m_proxy_map, tasks, served, workers, subject, life>>

NotifyAll ==
    /\ Statement("notify")
    /\ workers' = [w \in Workers |-> IF workers[w] = "asleep" THEN "check" ELSE workers[w]]
    /\ UNCHANGED <<reactorVars, m_proxy_map, tasks, served, pool, subject, life>>

StopPool ==
    /\ Statement("stopPool")
    /\ pool' = "STOP"
    /\ UNCHANGED <<reactorVars, m_proxy_map, tasks, served, workers, subject, life>>

StopReactor ==
    /\ Statement("stopReactor")
    /\ Stop
    /\ UNCHANGED <<m_proxy_map, tasks, served, pool, workers, subject, life>>

Join ==
    /\ Statement("join")
    /\ at = "returned"
    /\ life' = "gone"
    /\ UNCHANGED <<reactorVars, m_proxy_map, tasks, served, pool, workers, subject>>

Owner == RunPool \/ NotifyAll \/ PutProxy \/ AddToReactor \/ StopPool \/ StopReactor \/ Join

-----------------------------------------------------------------------------
(* The reactor's thread and the workers. *)

\* GetCmdData copies the proxy's pointer out of m_proxy_map.
FindProxy ==
    /\ at = "handler"
    /\ to_invoke[it] \in m_proxy_map
    /\ at' = "parse"
    /\ UNCHANGED <<m_map, m_stop_flag, sets, to_invoke, it, pending, mediatorVars>>

\* ReactorHandler goes on: the proxy parses one request, and the task goes to
\* the pool.
ReactorHandler ==
    /\ HandlerReturns
    /\ tasks' = [tasks EXCEPT ![to_invoke[it]] = @ + 1]
    /\ UNCHANGED <<m_proxy_map, served, pool, workers, todo, subject, life>>

\* A proxy's ParseData may unregister a descriptor, its own or another.
UnRegisterProxy(fd) ==
    /\ at = "parse"
    /\ Remove(fd)
    /\ m_proxy_map' = m_proxy_map \ {fd}
    /\ UNCHANGED <<m_stop_flag, at, sets, to_invoke, it, pending,
                   tasks, served, pool, workers, todo, subject, life>>

ReactorThread == (RunLoop /\ UNCHANGED mediatorVars) \/ FindProxy \/ ReactorHandler

\* A worker in its SleepingPeel goes from s to t.
Peel(w, s, t) ==
    /\ workers[w] = s
    /\ workers' = [workers EXCEPT ![w] = t]
    /\ UNCHANGED <<reactorVars, m_proxy_map, tasks, served, pool, todo, subject, life>>

Check(w) == Peel(w, "check", IF pool = "PAUSE" THEN "wait" ELSE "pop")
FallAsleep(w) == Peel(w, "wait", "asleep")
SpuriousWakeup(w) == Peel(w, "asleep", "check")

WorkerStep(w) == Check(w) \/ FallAsleep(w)

\* A worker executes a CmdFactoryTask.
Do(fd) ==
    /\ pool = "RUN"
    /\ \E w \in Workers : workers[w] = "pop"
    /\ tasks[fd] > 0
    /\ tasks' = [tasks EXCEPT ![fd] = @ - 1]
    /\ served' = [served EXCEPT ![fd] = @ + 1]
    /\ UNCHANGED <<reactorVars, m_proxy_map, pool, workers, todo, subject, life>>

\* Requests come as long as the bound on the served ones allows.
Request(fd) ==
    /\ served[fd] + tasks[fd] + pending[fd] < MaxServed
    /\ Arrive(fd)
    /\ UNCHANGED mediatorVars

Next ==
    \/ Owner
    \/ Dtor
    \/ ReactorThread
    \/ \E w \in Workers : WorkerStep(w) \/ SpuriousWakeup(w)
    \/ \E fd \in Fds :
          RegisterProxy(fd) \/ UnRegisterProxy(fd) \/ Do(fd) \/ Request(fd)

SafeSpec == Init /\ [][Next]_vars

\* The threads run, and ParseData and the commands return.  Nobody is obliged
\* to register, to wake spuriously or to destroy the mediator.
Spec ==
    /\ SafeSpec
    /\ WF_vars(Owner)
    /\ WF_vars(ReactorThread)
    /\ \A w \in Workers : WF_vars(WorkerStep(w))
    /\ \A fd \in Fds : WF_vars(Do(fd))

-----------------------------------------------------------------------------

\* The reactor enters a handler only if there is a request for it to read,
\* and the request is still there when it comes to read it.  Without one
\* ParseData would block, and every other descriptor with it.
ReadsOnlyReady == at \in {"handler", "parse"} => pending[to_invoke[it]] > 0

\* A handler finds the proxy of its descriptor: operator[] on m_proxy_map
\* would otherwise make a null one.
HandlerFindsProxy == at = "handler" => to_invoke[it] \in m_proxy_map

\* Every worker sleeps in its peel: the constructor's Run came after each had
\* read m_flag and before it was asleep.
AllAsleep == \A w \in Workers : workers[w] = "asleep"

\* A request at a registered descriptor is served, though the reactor may be
\* in a select that does not know the descriptor yet, unless the descriptor
\* is unregistered, the mediator destroyed, or the one call of Run that is
\* made has been lost on every worker.
RequestsServed ==
    \A fd \in Fds, n \in 0..MaxServed :
       (pending[fd] > 0 /\ served[fd] = n /\ fd \in m_map /\ life = "up")
          ~> (served[fd] > n \/ fd \notin m_map \/ life # "up" \/ AllAsleep)

\* The destructor returns, from whatever the reactor is doing.
DtorReturns == (life = "dtor") ~> (life = "gone")
==============================================================================
