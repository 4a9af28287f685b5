----------------------------- MODULE ThreadPool -----------------------------
(***************************************************************************)
(* ThreadPool: worker threads pop tasks from m_tasks, a WaitableQueue over  *)
(* a PQWrapper.  The pool controls them with tasks of its own, of priority  *)
(* CRITICAL: a SleepingPeel holds a worker while the pool is paused, a      *)
(* PoisonApple makes it announce itself to the angel of death, which        *)
(* interrupts it, joins it and erases it from m_threads.                    *)
(*                                                                          *)
(* One thread owns the pool and makes the calls; todo holds the statements  *)
(* that its current call has still to execute.  Any thread may Add.  The    *)
(* queues are taken at their abstraction: what WaitableQueue shows of Push  *)
(* and Pop makes each of them one step here.                                *)
(*                                                                          *)
(* A worker is at one of                                                    *)
(*   "pop"     m_tasks.Pop, or on its way there                             *)
(*   "check"   the loop condition of SleepingPeel::Do                       *)
(*   "wait"    in the loop's body, not yet asleep                           *)
(*   "asleep"  m_paused.wait                                                *)
(*   "eat"     PoisonApple::Do, before its Push                             *)
(*   "sleep"   PoisonApple::Do, sleep_for                                   *)
(*   "ended"   left RunThread by thread_interrupted                         *)
(* or runs the user task t.  "none": the thread has not been created.       *)
(***************************************************************************)
EXTENDS Naturals, Sequences, FiniteSets

CONSTANTS Tasks,        \* the user's tasks, each added at most once
          Priority,     \* their priorities, below CRITICAL
          Threads,      \* bound: the worker threads ever created
          Angel,        \* m_angle_of_death
          ThreadCount,  \* the constructor's thread_count_
          Sizes,        \* the arguments of Resize
          MaxCalls      \* bound: calls of Run, Pause, Resize and Stop

ASSUME PriorityAssumption == Priority \in [Tasks -> 1..3]
ASSUME ThreadsAssumption ==
    /\ IsFiniteSet(Threads)
    /\ Angel \notin Threads
    /\ ThreadCount \in 0..Cardinality(Threads)
ASSUME CallsAssumption == Sizes \subseteq Nat /\ MaxCalls \in Nat

Special == {"peel", "apple"}
Points  == {"none", "pop", "check", "wait", "asleep", "eat", "sleep", "ended"}
ASSUME TasksAssumption == Tasks \cap (Special \cup Points) = {}

VARIABLES m_flag,           \* PAUSE, RUN or STOP
          m_tasks,          \* how many of each task are queued
          m_threads,        \* the keys of the map
          m_ready_to_die,   \* the queue of thread ids
          fresh,            \* the thread created and not yet inserted
          stage,            \* where each worker is
          interrupted,      \* the threads that have been interrupted
          angel,            \* where the angel is, and its id_to_kill
          todo,             \* the rest of the owner's current call
          left,             \* the user's tasks not yet added
          ready,            \* those whose promise has its value
          calls,            \* the calls made
          held,             \* ghost: paused, and the call has returned
          hasty,            \* ghost: a call was made before the pool was done
                            \* with an earlier one
          size              \* ghost: the thread count last asked for

ghostVars == <<held, hasty, size>>
workerVars == <<m_threads, m_flag, fresh, angel, todo, left, calls, ghostVars>>
vars == <<m_flag, m_tasks, m_threads, m_ready_to_die, fresh, stage,
          interrupted, angel, todo, left, ready, calls, ghostVars>>

Statements == {"peel", "apple", "create", "insert", "notify", "measure", "held",
               "interruptAngel", "joinAngel", "interrupt", "join", "stopped"}

Repeat(s, n) == [i \in 1..n |-> s]

\* The types.
TypeOK ==
    /\ m_flag \in {"PAUSE", "RUN", "STOP"}
    /\ m_tasks \in [Tasks \cup Special -> Nat]
    /\ m_threads \subseteq Threads
    /\ m_ready_to_die \in Seq(Threads)
    /\ fresh \subseteq Threads
    /\ stage \in [Threads -> Points \cup Tasks]
    /\ interrupted \subseteq Threads \cup {Angel}
    /\ angel \in [at : {"top", "pop", "find", "kill", "join", "erase", "ended"},
                  id : Threads \cup {Angel}]
    /\ todo \in Seq(Statements)
    /\ left \subseteq Tasks
    /\ ready \subseteq Tasks
    /\ calls \in 0..MaxCalls
    /\ held \in BOOLEAN /\ hasty \in BOOLEAN
    /\ size \in Nat

\* The constructor queues a peel for every worker before it creates any.
Init ==
    /\ m_flag = "PAUSE"
    /\ m_tasks = [t \in Tasks \cup Special |-> 0]
    /\ m_threads = {}
    /\ m_ready_to_die = <<>>
    /\ fresh = {}
    /\ stage = [w \in Threads |-> "none"]
    /\ interrupted = {}
    /\ angel = [at |-> "top", id |-> Angel]
    /\ todo = Repeat("peel", ThreadCount) \o Repeat("create", ThreadCount) \o <<"held">>
    /\ left = Tasks
    /\ ready = {}
    /\ calls = 0
    /\ held = FALSE
    /\ hasty = FALSE
    /\ size = ThreadCount

-----------------------------------------------------------------------------
(* The workers. *)

Goto(w, s) == stage' = [stage EXCEPT ![w] = s]

\* Mutant: the pool's own tasks are queued as HIGH, not CRITICAL.
PrioHigh(t) == IF t \in Special THEN 3 ELSE Priority[t]

Prio(t) == IF t \in Special THEN 4 ELSE Priority[t]

\* Mutant: Pop does not wait for the queue to be non-empty.
QueuedOrNot == Tasks \cup Special

Queued == {t \in Tasks \cup Special : m_tasks[t] > 0}

Front == {t \in Queued : \A u \in Queued : Prio(u) <= Prio(t)}

\* RunThread: pop a task of the highest priority; the interruption point
\* that follows ends the thread before Do.
PopTask(w) ==
    /\ stage[w] = "pop"
    /\ \E t \in Front :
         /\ m_tasks' = [m_tasks EXCEPT ![t] = @ - 1]
         /\ Goto(w, IF w \in interrupted THEN "ended"
                    ELSE CASE t = "peel"  -> "check"
                           [] t = "apple" -> "eat"
                           [] OTHER       -> t)
    /\ UNCHANGED <<m_ready_to_die, interrupted, ready, workerVars>>

\* The user's function returns; FutureTask::Do gives its value to the promise.
EndTask(w) ==
    /\ stage[w] \in Tasks
    /\ ready' = ready \cup {stage[w]}
    /\ Goto(w, "pop")
    /\ UNCHANGED <<m_tasks, m_ready_to_die, interrupted, workerVars>>

\* SleepingPeel::Do reads m_flag without m_mutex ...
Check(w) ==
    /\ stage[w] = "check"
    /\ Goto(w, IF m_flag = "PAUSE" THEN "wait" ELSE "pop")
    /\ UNCHANGED <<m_tasks, m_ready_to_die, interrupted, ready, workerVars>>

\* ... and only then locks it and waits.
FallAsleep(w) ==
    /\ stage[w] = "wait"
    /\ Goto(w, "asleep")
    /\ UNCHANGED <<m_tasks, m_ready_to_die, interrupted, ready, workerVars>>

\* A condition variable may wake a thread that nobody notified.
SpuriousWakeup(w) ==
    /\ stage[w] = "asleep"
    /\ Goto(w, "check")
    /\ UNCHANGED <<m_tasks, m_ready_to_die, interrupted, ready, workerVars>>

\* PoisonApple::Do gives the thread's id to the angel.
EatApple(w) ==
    /\ stage[w] = "eat"
    /\ m_ready_to_die' = Append(m_ready_to_die, w)
    /\ Goto(w, "sleep")
    /\ UNCHANGED <<m_tasks, interrupted, ready, workerVars>>

\* The waits, sleep_for and the user's tasks are interruption points.
Die(w) ==
    /\ w \in interrupted
    /\ stage[w] \in {"pop", "wait", "asleep", "sleep"} \cup Tasks
    /\ Goto(w, "ended")
    /\ UNCHANGED <<m_tasks, m_ready_to_die, interrupted, ready, workerVars>>

WorkerStep(w) ==
    \/ PopTask(w) \/ EndTask(w) \/ Check(w) \/ FallAsleep(w) \/ EatApple(w) \/ Die(w)

-----------------------------------------------------------------------------
(* AngleOfDeathThread. *)

AngelAt(s) == angel' = [angel EXCEPT !.at = s]

angelRest == <<m_flag, m_tasks, fresh, stage, todo, left, ready, calls, ghostVars>>

\* The interruption point at the top of the loop.
AngelTop ==
    /\ angel.at = "top"
    /\ AngelAt(IF Angel \in interrupted THEN "ended" ELSE "pop")
    /\ UNCHANGED <<angelRest, m_threads, m_ready_to_die, interrupted>>

AngelPop ==
    /\ angel.at = "pop"
    /\ m_ready_to_die # <<>>
    /\ angel' = [at |-> "find", id |-> Head(m_ready_to_die)]
    /\ m_ready_to_die' = Tail(m_ready_to_die)
    /\ UNCHANGED <<angelRest, m_threads, interrupted>>

\* Mutant: m_threads.find without m_map_lock.
AngelFindUnlocked ==
    /\ angel.at = "find"
    /\ AngelAt("kill")
    /\ UNCHANGED <<angelRest, m_threads, m_ready_to_die, interrupted>>

\* find, under m_map_lock, which AddThreads keeps while a thread is fresh.
AngelFind ==
    /\ angel.at = "find"
    /\ fresh = {}
    /\ AngelAt("kill")
    /\ UNCHANGED <<angelRest, m_threads, m_ready_to_die, interrupted>>

\* Mutant: the thread is interrupted and erased but never joined.
AngelKillOnly ==
    /\ angel.at = "kill"
    /\ interrupted' = interrupted \cup {angel.id}
    /\ AngelAt("erase")
    /\ UNCHANGED <<angelRest, m_threads, m_ready_to_die>>

AngelKill ==
    /\ angel.at = "kill"
    /\ interrupted' = interrupted \cup {angel.id}
    /\ AngelAt("join")
    /\ UNCHANGED <<angelRest, m_threads, m_ready_to_die>>

AngelJoin ==
    /\ angel.at = "join"
    /\ stage[angel.id] = "ended"
    /\ AngelAt("erase")
    /\ UNCHANGED <<angelRest, m_threads, m_ready_to_die, interrupted>>

AngelErase ==
    /\ angel.at = "erase"
    /\ fresh = {}
    /\ m_threads' = m_threads \ {angel.id}
    /\ AngelAt("top")
    /\ UNCHANGED <<angelRest, m_ready_to_die, interrupted>>

\* Pop's wait and join are interruption points too.
AngelDie ==
    /\ Angel \in interrupted
    /\ \/ angel.at = "pop" /\ m_ready_to_die = <<>>
       \/ angel.at = "join"
    /\ AngelAt("ended")
    /\ UNCHANGED <<angelRest, m_threads, m_ready_to_die, interrupted>>

AngelStep ==
    AngelTop \/ AngelPop \/ AngelFind \/ AngelKill \/ AngelJoin \/ AngelErase \/ AngelDie

-----------------------------------------------------------------------------
(* The owner's calls. *)

threadVars == <<m_threads, m_ready_to_die, fresh, interrupted, angel>>

\* Add: m_tasks.Push, by any thread that has the pool.
Add(t) ==
    /\ t \in left
    /\ calls > 0 \/ todo = <<>>
    /\ todo # <<"stopped">>
    /\ left' = left \ {t}
    /\ m_tasks' = [m_tasks EXCEPT ![t] = @ + 1]
    /\ UNCHANGED <<m_flag, threadVars, stage, todo, ready, calls, ghostVars>>

\* The next call may be made.
Call == todo = <<>> /\ calls < MaxCalls /\ calls' = calls + 1

\* Run: m_flag first, then notify_all.
Run ==
    /\ Call
    /\ m_flag' = "RUN"
    /\ todo' = <<"notify">>
    /\ held' = FALSE
    /\ hasty' = (hasty \/ \E w \in Threads : stage[w] = "wait")
    /\ UNCHANGED <<m_tasks, threadVars, stage, left, ready, size>>

Pause ==
    /\ Call
    /\ m_flag' = "PAUSE"
    /\ todo' = <<"measure">>
    /\ UNCHANGED <<m_tasks, threadVars, stage, left, ready, ghostVars>>

\* Every apple has been eaten and its eater erased.
NoApples ==
    /\ m_tasks["apple"] = 0
    /\ \A w \in m_threads : stage[w] \notin {"eat", "sleep", "ended"}

\* Mutant: one apple too many.
ChangeByOneMore(len, n) ==
    IF n < len THEN Repeat("apple", len - n + 1) ELSE Repeat("create", n - len)

\* What Resize does when m_threads has len entries and n are wanted.
Change(len, n) ==
    IF n < len THEN Repeat("apple", len - n) ELSE Repeat("create", n - len)

Resize(n) ==
    /\ Call
    /\ n <= Cardinality(m_threads) + Cardinality({w \in Threads : stage[w] = "none"})
    /\ todo' = Change(Cardinality(m_threads), n)
    /\ held' = (held /\ n <= Cardinality(m_threads))
    /\ hasty' = (hasty \/ ~NoApples)
    /\ size' = n
    /\ UNCHANGED <<m_flag, m_tasks, threadVars, stage, left, ready>>

StopCall == <<"interruptAngel", "joinAngel", "interrupt", "join", "stopped">>

\* Stop, by the user or from the destructor.
Stop ==
    /\ Call
    /\ m_flag' = "STOP"
    /\ todo' = StopCall
    /\ held' = FALSE
    /\ UNCHANGED <<m_tasks, threadVars, stage, left, ready, hasty, size>>

\* The owner reaches the statement s of its call.
Statement(s) == todo # <<>> /\ Head(todo) = s

ownerRest == <<m_flag, left, ready, calls, hasty, size>>

\* InsertSleepingPeels and InsertPoisonApples: one Push of the loop.
PushSpecial ==
    \E s \in Special :
       /\ Statement(s)
       /\ m_tasks' = [m_tasks EXCEPT ![s] = @ + 1]
       /\ todo' = Tail(todo)
       /\ UNCHANGED <<ownerRest, threadVars, stage, held>>

\* AddThreads: under m_map_lock create a thread ...
CreateThread ==
    /\ Statement("create")
    /\ \E w \in Threads :
         /\ stage[w] = "none"
         /\ Goto(w, "pop")
         /\ fresh' = {w}
    /\ todo' = <<"insert">> \o Tail(todo)
    /\ UNCHANGED <<ownerRest, m_tasks, m_threads, m_ready_to_die, interrupted, angel, held>>

\* ... and enter it into the map.
InsertThread ==
    /\ Statement("insert")
    /\ m_threads' = m_threads \cup fresh
    /\ fresh' = {}
    /\ todo' = Tail(todo)
    /\ UNCHANGED <<ownerRest, m_tasks, m_ready_to_die, stage, interrupted, angel, held>>

\* Mutant: Run does not notify.
NotifyMissing ==
    /\ Statement("notify")
    /\ todo' = Tail(todo)
    /\ UNCHANGED <<ownerRest, m_tasks, threadVars, stage, held>>

\* Run's notify_all reaches the workers that are asleep now.
NotifyAll ==
    /\ Statement("notify")
    /\ stage' = [w \in Threads |-> IF stage[w] = "asleep" THEN "check" ELSE stage[w]]
    /\ todo' = Tail(todo)
    /\ UNCHANGED <<ownerRest, m_tasks, threadVars, held>>

\* Pause reads m_threads.size() after it has set the flag.
Measure ==
    /\ Statement("measure")
    /\ todo' = Repeat("peel", Cardinality(m_threads)) \o <<"held">>
    /\ UNCHANGED <<ownerRest, m_tasks, threadVars, stage, held>>

\* The constructor or Pause returns.
Return ==
    /\ Statement("held")
    /\ held' = TRUE
    /\ todo' = Tail(todo)
    /\ UNCHANGED <<ownerRest, m_tasks, threadVars, stage>>

\* Stop: interrupt and join the angel, then every thread that is left.
InterruptAngel ==
    /\ Statement("interruptAngel")
    /\ interrupted' = interrupted \cup {Angel}
    /\ todo' = Tail(todo)
    /\ UNCHANGED <<ownerRest, m_tasks, m_threads, m_ready_to_die, fresh, stage, angel, held>>

JoinAngel ==
    /\ Statement("joinAngel")
    /\ angel.at = "ended"
    /\ todo' = Tail(todo)
    /\ UNCHANGED <<ownerRest, m_tasks, threadVars, stage, held>>

\* Mutant: only the angel is interrupted.
InterruptNobody ==
    /\ Statement("interrupt")
    /\ todo' = Tail(todo)
    /\ UNCHANGED <<ownerRest, m_tasks, threadVars, stage, held>>

InterruptThreads ==
    /\ Statement("interrupt")
    /\ interrupted' = interrupted \cup m_threads
    /\ todo' = Tail(todo)
    /\ UNCHANGED <<ownerRest, m_tasks, m_threads, m_ready_to_die, fresh, stage, angel, held>>

JoinThreads ==
    /\ Statement("join")
    /\ \A w \in m_threads : stage[w] = "ended"
    /\ todo' = Tail(todo)
    /\ UNCHANGED <<ownerRest, m_tasks, threadVars, stage, held>>

OwnerStep ==
    \/ PushSpecial \/ CreateThread \/ InsertThread \/ NotifyAll \/ Measure \/ Return
    \/ InterruptAngel \/ JoinAngel \/ InterruptThreads \/ JoinThreads

Next ==
    \/ \E w \in Threads : WorkerStep(w) \/ SpuriousWakeup(w)
    \/ AngelStep
    \/ OwnerStep
    \/ \E t \in Tasks : Add(t)
    \/ Run \/ Pause \/ Stop
    \/ \E n \in Sizes : Resize(n)

SafeSpec == Init /\ [][Next]_vars

\* Every thread runs and every user task returns; nobody has to call, and
\* no condition variable has to wake up spuriously.
Fairness ==
    /\ \A w \in Threads : WF_vars(WorkerStep(w))
    /\ WF_vars(AngelStep)
    /\ WF_vars(OwnerStep)

Spec == SafeSpec /\ Fairness

-----------------------------------------------------------------------------
(* What the pool promises. *)

\* The iterator the angel dereferences and erases is not end(): the thread
\* that ate the apple is in m_threads by then, however early it ate it.
AngelFinds == angel.at \in {"kill", "join", "erase"} => angel.id \in m_threads

\* When Stop has returned no thread of the pool is alive, whatever the angel
\* was doing when it was interrupted: the pool can be destroyed.
StopJoinsAll ==
    todo = <<"stopped">> =>
       angel.at = "ended" /\ \A w \in Threads : stage[w] \in {"none", "ended"}

\* After the constructor or Pause has returned and until Run, Stop or a
\* Resize that adds threads, no worker takes a task of the user's.
PauseHolds ==
    [][held => \A w \in Threads : stage[w] = "pop" => stage'[w] \notin Tasks]_vars

\* If no call is made before the pool is done with an earlier one, the pool
\* has the size asked for whenever the current call has been carried out.
PoolSize == (~hasty /\ todo = <<>> /\ NoApples) => Cardinality(m_threads) = size

\* Stop returns, given that the user's tasks do.
StopReturns == (m_flag = "STOP") ~> (todo = <<"stopped">>)

\* A task added to a running pool is done, and GetValue of its future
\* returns, unless the pool is paused, stopped or resized to nothing.
AddedTasksDone ==
    \A t \in Tasks :
       (m_tasks[t] > 0 /\ m_flag = "RUN" /\ size > 0)
          ~> (t \in ready \/ m_flag # "RUN" \/ size = 0)

\* The same for callers that give Pause and Resize the time they need.
TasksRun ==
    \A t \in Tasks :
       (m_tasks[t] > 0 /\ m_flag = "RUN" /\ size > 0)
          ~> (t \in ready \/ m_flag # "RUN" \/ size = 0 \/ hasty)
==============================================================================
