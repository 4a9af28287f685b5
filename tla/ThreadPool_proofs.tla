-------------------------- MODULE ThreadPool_proofs --------------------------
(***************************************************************************)
(* Proofs about ThreadPool, for any number of threads, tasks and calls:    *)
(* the types; the angel of death finds every thread it looks up; when Stop *)
(* has returned no thread of the pool is alive; a paused pool takes no     *)
(* task of the user's; and the pool ends up with the size asked for.       *)
(***************************************************************************)
EXTENDS ThreadPool, FiniteSetTheorems, TLAPS

\* Repeat(s, n), the unrolled loop of a call, is a sequence of s.
LEMMA RepeatType ==
  ASSUME NEW S, NEW s \in S, NEW n \in Nat
  PROVE  /\ Repeat(s, n) \in Seq(S)
         /\ Len(Repeat(s, n)) = n
         /\ \A i \in 1..n : Repeat(s, n)[i] = s
<1>1. Repeat(s, n) \in [1..n -> S]
  BY DEF Repeat
<1> QED
  BY <1>1 DEF Repeat

\* Calls are put together from statements.
LEMMA StatementsType ==
  /\ Special \cup {"create", "insert", "notify", "measure", "held"} \subseteq Statements
  /\ \A s \in Statements : <<s>> \in Seq(Statements)
  /\ \A q, r \in Seq(Statements) : q \o r \in Seq(Statements)
  /\ \A q \in Seq(Statements) : q # <<>> => Tail(q) \in Seq(Statements)
<1>1. Special \cup {"create", "insert", "notify", "measure", "held"} \subseteq Statements
  BY DEF Statements, Special
<1> QED BY <1>1

\* Five statements make a sequence.
LEMMA FiveType ==
  ASSUME NEW S, NEW a \in S, NEW b \in S, NEW c \in S, NEW d \in S, NEW e \in S
  PROVE  <<a, b, c, d, e>> \in Seq(S)
OBVIOUS

\* Stop is made of statements.
LEMMA StopCallType == StopCall \in Seq(Statements)
<1>1. /\ "interruptAngel" \in Statements /\ "joinAngel" \in Statements
      /\ "interrupt" \in Statements /\ "join" \in Statements /\ "stopped" \in Statements
  BY DEF Statements
<1> QED BY <1>1, FiveType DEF StopCall

\* Resize pushes apples or creates threads.
LEMMA ChangeType ==
  ASSUME NEW len \in Nat, NEW n \in Nat
  PROVE  Change(len, n) \in Seq(Statements)
<1>1. "apple" \in Statements /\ "create" \in Statements
  BY DEF Statements
<1>2. CASE n < len
  <2>1. len - n \in Nat /\ Change(len, n) = Repeat("apple", len - n)
    BY <1>2 DEF Change
  <2> QED BY <1>1, <2>1, RepeatType
<1>3. CASE ~(n < len)
  <2>1. n - len \in Nat /\ Change(len, n) = Repeat("create", n - len)
    BY <1>3 DEF Change
  <2> QED BY <1>1, <2>1, RepeatType
<1> QED BY <1>2, <1>3

\* m_threads.size() is a number.
LEMMA CountType ==
  ASSUME NEW S, S \subseteq Threads
  PROVE  IsFiniteSet(S) /\ Cardinality(S) \in Nat
BY ThreadsAssumption, FS_Subset, FS_CardinalityType

\* A step of a worker keeps the types.
LEMMA WorkerType ==
  ASSUME TypeOK, NEW w \in Threads, WorkerStep(w) \/ SpuriousWakeup(w)
  PROVE  TypeOK'
<1> USE DEF TypeOK, Goto, workerVars, ghostVars, Points
<1>1. CASE PopTask(w)
  <2>1. PICK t \in Front :
          /\ m_tasks' = [m_tasks EXCEPT ![t] = @ - 1]
          /\ Goto(w, IF w \in interrupted THEN "ended"
                     ELSE CASE t = "peel"  -> "check"
                            [] t = "apple" -> "eat"
                            [] OTHER       -> t)
    BY <1>1 DEF PopTask
  <2>2. t \in Tasks \cup Special /\ m_tasks[t] > 0
    BY DEF Front, Queued
  <2>3. m_tasks' \in [Tasks \cup Special -> Nat]
    BY <2>1, <2>2
  <2>4. stage' \in [Threads -> Points \cup Tasks]
    BY <2>1, <2>2 DEF Special
  <2> QED BY <1>1, <2>3, <2>4 DEF PopTask
<1>2. CASE EndTask(w) BY <1>2 DEF EndTask
<1>3. CASE Check(w) BY <1>3 DEF Check
<1>4. CASE FallAsleep(w) BY <1>4 DEF FallAsleep
<1>5. CASE EatApple(w) BY <1>5 DEF EatApple
<1>6. CASE Die(w) BY <1>6 DEF Die
<1>7. CASE SpuriousWakeup(w) BY <1>7 DEF SpuriousWakeup
<1> QED BY <1>1, <1>2, <1>3, <1>4, <1>5, <1>6, <1>7 DEF WorkerStep

\* So does a step of the angel.
LEMMA AngelType ==
  ASSUME TypeOK, AngelStep
  PROVE  TypeOK'
<1> USE DEF TypeOK, AngelAt, angelRest, ghostVars
<1>1. CASE AngelTop BY <1>1 DEF AngelTop
<1>2. CASE AngelPop BY <1>2 DEF AngelPop
<1>3. CASE AngelFind BY <1>3 DEF AngelFind
<1>4. CASE AngelKill BY <1>4 DEF AngelKill
<1>5. CASE AngelJoin BY <1>5 DEF AngelJoin
<1>6. CASE AngelErase BY <1>6 DEF AngelErase
<1>7. CASE AngelDie BY <1>7 DEF AngelDie
<1> QED BY <1>1, <1>2, <1>3, <1>4, <1>5, <1>6, <1>7 DEF AngelStep

\* And a statement of the owner's call.
LEMMA OwnerType ==
  ASSUME TypeOK, OwnerStep
  PROVE  TypeOK'
<1>1. todo # <<>> => Tail(todo) \in Seq(Statements)
  BY StatementsType DEF TypeOK
<1> USE DEF TypeOK, ownerRest, threadVars, Statement
<1>2. CASE PushSpecial BY <1>1, <1>2 DEF PushSpecial
<1>3. CASE CreateThread
  <2>1. todo' \in Seq(Statements)
    <3>1. <<"insert">> \in Seq(Statements) BY StatementsType
    <3> QED BY <1>1, <1>3, <3>1, StatementsType DEF CreateThread
  <2> QED BY <1>3, <2>1 DEF CreateThread, Goto, Points
<1>4. CASE InsertThread BY <1>1, <1>4 DEF InsertThread
<1>5. CASE NotifyAll BY <1>1, <1>5 DEF NotifyAll, Points
<1>6. CASE Measure
  <2>1. Cardinality(m_threads) \in Nat /\ "peel" \in Statements
    BY CountType, StatementsType DEF Special
  <2>2. Repeat("peel", Cardinality(m_threads)) \in Seq(Statements)
    BY <2>1, RepeatType
  <2>3. <<"held">> \in Seq(Statements)
    BY StatementsType
  <2>4. todo' \in Seq(Statements)
    BY <1>6, <2>2, <2>3, StatementsType DEF Measure
  <2> QED BY <1>6, <2>4 DEF Measure
<1>7. CASE Return BY <1>1, <1>7 DEF Return
<1>8. CASE InterruptAngel BY <1>1, <1>8 DEF InterruptAngel
<1>9. CASE JoinAngel BY <1>1, <1>9 DEF JoinAngel
<1>10. CASE InterruptThreads BY <1>1, <1>10 DEF InterruptThreads
<1>11. CASE JoinThreads BY <1>1, <1>11 DEF JoinThreads
<1> QED
  BY <1>2, <1>3, <1>4, <1>5, <1>6, <1>7, <1>8, <1>9, <1>10, <1>11 DEF OwnerStep

\* And the start of a call.
LEMMA CallType ==
  ASSUME TypeOK,
         \/ \E t \in Tasks : Add(t)
         \/ Run \/ Pause \/ Stop
         \/ \E n \in Sizes : Resize(n)
  PROVE  TypeOK'
<1> USE CallsAssumption DEF TypeOK, threadVars, ghostVars, Call
<1>1. CASE \E t \in Tasks : Add(t) BY <1>1 DEF Add
<1>0. <<"notify">> \in Seq(Statements) /\ <<"measure">> \in Seq(Statements)
  BY StatementsType
<1>2. CASE Run
  <2>1. held' \in BOOLEAN /\ hasty' \in BOOLEAN
    BY <1>2, Zenon DEF Run
  <2> QED BY <1>0, <1>2, <2>1 DEF Run
<1>3. CASE Pause BY <1>0, <1>3 DEF Pause
<1>4. CASE Stop
  <2>1. held' \in BOOLEAN
    BY <1>4, Zenon DEF Stop
  <2> QED BY <1>4, <2>1, StopCallType DEF Stop
<1>5. ASSUME NEW n \in Sizes, Resize(n) PROVE TypeOK'
  <2>1. Cardinality(m_threads) \in Nat /\ n \in Nat
    BY CountType
  <2>2. Change(Cardinality(m_threads), n) \in Seq(Statements)
    BY <2>1, ChangeType
  <2>3. held' \in BOOLEAN /\ hasty' \in BOOLEAN
    BY <1>5, Zenon DEF Resize
  <2> QED BY <1>5, <2>1, <2>2, <2>3 DEF Resize
<1> QED BY <1>1, <1>2, <1>3, <1>4, <1>5

\* Every step keeps the types.
LEMMA TypeStep ==
  ASSUME TypeOK, [Next]_vars
  PROVE  TypeOK'
<1>1. CASE UNCHANGED vars BY <1>1 DEF TypeOK, vars, ghostVars
<1> QED BY <1>1, WorkerType, AngelType, OwnerType, CallType DEF Next

\* The constructor leaves well-typed state behind.
LEMMA InitType == Init => TypeOK
<1> SUFFICES ASSUME Init PROVE TypeOK
  OBVIOUS
<1>1. ThreadCount \in Nat /\ Cardinality(Threads) \in Nat
  BY ThreadsAssumption, FS_CardinalityType
<1>2. /\ Repeat("peel", ThreadCount) \in Seq(Statements)
      /\ Repeat("create", ThreadCount) \in Seq(Statements)
      /\ <<"held">> \in Seq(Statements)
  <2>1. "peel" \in Statements /\ "create" \in Statements /\ "held" \in Statements
    BY DEF Statements
  <2> QED BY <1>1, <2>1, RepeatType, StatementsType
<1>3. todo \in Seq(Statements)
  BY <1>2, StatementsType DEF Init
<1>4. stage \in [Threads -> Points \cup Tasks]
  BY DEF Init, Points
<1>5. angel \in [at : {"top", "pop", "find", "kill", "join", "erase", "ended"},
                 id : Threads \cup {Angel}]
  BY DEF Init
<1>6. m_tasks \in [Tasks \cup Special -> Nat]
  BY DEF Init
<1>7. m_ready_to_die \in Seq(Threads)
  BY DEF Init
<1>8. calls \in 0..MaxCalls
  BY CallsAssumption DEF Init
<1> QED BY <1>1, <1>3, <1>4, <1>5, <1>6, <1>7, <1>8 DEF TypeOK, Init

\* Whatever the calls and their interleaving, the state keeps its types:
\* in particular Pop never takes a task that is not queued.
THEOREM TypeCorrect == SafeSpec => []TypeOK
<1>1. Init => TypeOK BY InitType
<1>2. TypeOK /\ [Next]_vars => TypeOK' BY TypeStep
<1> QED BY <1>1, <1>2, PTL DEF SafeSpec
------------------------------------------------------------------------------
(* The angel and its victims. *)

\* The threads that are in the map or about to be: AddThreads has the lock.
Listed == m_threads \cup fresh

Busy == angel.at \in {"find", "kill", "join", "erase"}

\* Past PoisonApple's Push, for good.
Dying == {w \in Threads : stage[w] \in {"sleep", "ended"}}

\* A thread that runs is listed; ...
AliveListed == \A w \in Threads : stage[w] \notin {"none", "ended"} => w \in Listed

\* ... one that waits for the angel is listed, dying, and waits once; ...
VictimsListed ==
  /\ \A i \in DOMAIN m_ready_to_die : m_ready_to_die[i] \in Listed \cap Dying
  /\ \A i, j \in DOMAIN m_ready_to_die :
        i # j => m_ready_to_die[i] # m_ready_to_die[j]

\* ... and so does the one the angel is busy with, which has ended by the
\* time it is erased; ...
VictimListed ==
  /\ Busy => /\ angel.id \in Listed \cap Dying
             /\ \A i \in DOMAIN m_ready_to_die : m_ready_to_die[i] # angel.id
  /\ angel.at = "erase" => stage[angel.id] = "ended"

\* ... and AddThreads inserts what it created before it creates the next.
FreshInserted == fresh # {} => Statement("insert")

\* The inductive invariant behind AngelFinds.
Mourning ==
  AliveListed /\ VictimsListed /\ VictimListed /\ FreshInserted /\ AngelFinds

\* The statements of every call but Stop.
CallStatements == {"peel", "apple", "create", "insert", "notify", "measure", "held"}

\* What is left of Stop once the angel has been joined.
AfterAngel == {<<"interrupt", "join", "stopped">>, <<"join", "stopped">>, <<"stopped">>}

\* The inductive invariant behind StopJoinsAll.
Stopping ==
  /\ \/ m_flag # "STOP" /\ todo \in Seq(CallStatements)
     \/ m_flag = "STOP" /\ todo \in {StopCall, Tail(StopCall)}
     \/ m_flag = "STOP" /\ todo \in AfterAngel /\ angel.at = "ended"
  /\ StopJoinsAll

\* A worker that does not eat an apple only moves itself, to a stage that
\* is neither new nor, if it was dying, alive again.
LEMMA MourningMove ==
  ASSUME TypeOK, TypeOK', Mourning, NEW w \in Threads, NEW s, Goto(w, s),
         stage[w] \notin {"none", "ended"}, stage[w] = "sleep" => s = "ended",
         UNCHANGED <<m_ready_to_die, workerVars>>
  PROVE  Mourning'
<1> USE DEF Mourning, TypeOK, Goto, workerVars
<1>1. Listed' = Listed
  BY DEF Listed
<1>2. Dying \subseteq Dying'
  BY DEF Dying
<1>3. AliveListed'
  BY <1>1 DEF AliveListed
<1>4. VictimsListed'
  BY <1>1, <1>2 DEF VictimsListed
<1>5. VictimListed'
  BY <1>1, <1>2 DEF VictimListed, Busy
<1>6. FreshInserted' /\ AngelFinds'
  BY DEF FreshInserted, AngelFinds, Statement
<1> QED BY <1>3, <1>4, <1>5, <1>6

\* The worker that eats an apple joins the angel's queue.
LEMMA MourningEat ==
  ASSUME TypeOK, TypeOK', Mourning, NEW w \in Threads, EatApple(w)
  PROVE  Mourning'
<1> USE DEF Mourning, TypeOK, EatApple, Goto, workerVars
<1>1. Listed' = Listed
  BY DEF Listed
<1>2. Dying \subseteq Dying' /\ w \in Dying' /\ w \notin Dying /\ w \in Listed
  BY DEF Dying, AliveListed
<1>3. AliveListed'
  BY <1>1 DEF AliveListed
<1>4. VictimsListed'
  <2>1. /\ DOMAIN m_ready_to_die' = 1..(Len(m_ready_to_die) + 1)
        /\ DOMAIN m_ready_to_die = 1..Len(m_ready_to_die)
        /\ m_ready_to_die'[Len(m_ready_to_die) + 1] = w
        /\ \A i \in 1..Len(m_ready_to_die) : m_ready_to_die'[i] = m_ready_to_die[i]
    OBVIOUS
  <2>2. \A i \in 1..Len(m_ready_to_die) : m_ready_to_die[i] \in Listed \cap Dying
    BY <2>1 DEF VictimsListed
  <2>3. \A i, j \in 1..Len(m_ready_to_die) :
          i # j => m_ready_to_die[i] # m_ready_to_die[j]
    BY <2>1 DEF VictimsListed
  <2>4. \A i \in DOMAIN m_ready_to_die' :
          i \in 1..Len(m_ready_to_die) \/ i = Len(m_ready_to_die) + 1
    BY <2>1
  <2>5. \A i \in DOMAIN m_ready_to_die' : m_ready_to_die'[i] \in (Listed \cap Dying)'
    BY <1>1, <1>2, <2>1, <2>2, <2>4
  <2>6. \A i, j \in DOMAIN m_ready_to_die' :
          i # j => m_ready_to_die'[i] # m_ready_to_die'[j]
    BY <1>2, <2>1, <2>2, <2>3, <2>4
  <2> QED BY <2>5, <2>6 DEF VictimsListed
<1>5. VictimListed'
  <2>1. \A i \in DOMAIN m_ready_to_die' :
          \/ i \in DOMAIN m_ready_to_die /\ m_ready_to_die'[i] = m_ready_to_die[i]
          \/ m_ready_to_die'[i] = w
    OBVIOUS
  <2>2. Busy' = Busy /\ angel' = angel /\ (Busy => angel.id # w)
    BY <1>2 DEF Busy, VictimListed
  <2> QED BY <1>1, <1>2, <2>1, <2>2 DEF VictimListed, Busy
<1>6. FreshInserted' /\ AngelFinds'
  BY DEF FreshInserted, AngelFinds, Statement
<1> QED BY <1>3, <1>4, <1>5, <1>6

\* The workers keep Mourning.
LEMMA MourningWorker ==
  ASSUME TypeOK, TypeOK', Mourning, NEW w \in Threads, WorkerStep(w) \/ SpuriousWakeup(w)
  PROVE  Mourning'
<1> USE TasksAssumption DEF TypeOK, Points
<1>1. CASE PopTask(w)
  <2>1. PICK s : Goto(w, s)
    BY <1>1 DEF PopTask
  <2> QED BY <1>1, <2>1, MourningMove DEF PopTask
<1>2. CASE EndTask(w) BY <1>2, MourningMove DEF EndTask
<1>3. CASE Check(w) BY <1>3, MourningMove DEF Check
<1>4. CASE FallAsleep(w) BY <1>4, MourningMove DEF FallAsleep
<1>5. CASE EatApple(w) BY <1>5, MourningEat
<1>6. CASE Die(w) BY <1>6, MourningMove DEF Die
<1>7. CASE SpuriousWakeup(w) BY <1>7, MourningMove DEF SpuriousWakeup
<1> QED BY <1>1, <1>2, <1>3, <1>4, <1>5, <1>6, <1>7 DEF WorkerStep

\* The angel takes a victim from its queue, finds it once AddThreads is out
\* of the map, and erases it alone.
LEMMA MourningAngel ==
  ASSUME TypeOK, TypeOK', Mourning, AngelStep
  PROVE  Mourning'
<1> USE DEF Mourning, TypeOK, AngelAt, angelRest
<1>0. FreshInserted' /\ Dying' = Dying
  BY DEF AngelStep, AngelTop, AngelPop, AngelFind, AngelKill, AngelJoin, AngelErase,
         AngelDie, FreshInserted, Statement, Dying
<1>1. CASE AngelTop \/ AngelDie
  <2>1. Listed' = Listed /\ ~Busy' /\ m_ready_to_die' = m_ready_to_die
    BY <1>1 DEF AngelTop, AngelDie, Listed, Busy
  <2> QED BY <1>0, <1>1, <2>1 DEF AngelTop, AngelDie, AliveListed, VictimsListed,
         VictimListed, AngelFinds, Busy
<1>2. CASE AngelPop
  <2>1. Listed' = Listed
    BY <1>2 DEF AngelPop, Listed
  <2>2. /\ \A i \in DOMAIN m_ready_to_die' :
             /\ i \in DOMAIN m_ready_to_die /\ i + 1 \in DOMAIN m_ready_to_die
             /\ i + 1 # 1
             /\ m_ready_to_die'[i] = m_ready_to_die[i + 1]
        /\ \A i, j \in DOMAIN m_ready_to_die' : i # j => i + 1 # j + 1
        /\ 1 \in DOMAIN m_ready_to_die
        /\ angel'.id = m_ready_to_die[1] /\ angel'.at = "find"
    BY <1>2 DEF AngelPop
  <2>3. AliveListed'
    BY <1>2, <2>1 DEF AngelPop, AliveListed
  <2>4. VictimsListed'
    BY <1>0, <2>1, <2>2 DEF VictimsListed
  <2>5. VictimListed'
    BY <1>0, <2>1, <2>2 DEF VictimsListed, VictimListed, Busy
  <2>6. AngelFinds'
    BY <2>2 DEF AngelFinds
  <2> QED BY <1>0, <2>3, <2>4, <2>5, <2>6
<1>3. CASE AngelFind
  <2>1. Listed' = Listed /\ m_ready_to_die' = m_ready_to_die /\ Busy
    BY <1>3 DEF AngelFind, Listed, Busy
  <2>2. angel.id \in m_threads
    BY <1>3, <2>1 DEF AngelFind, VictimListed, Listed
  <2> QED BY <1>0, <1>3, <2>1, <2>2 DEF AngelFind, AliveListed, VictimsListed,
         VictimListed, AngelFinds, Busy
<1>4. CASE AngelKill \/ AngelJoin
  <2>1. Listed' = Listed /\ m_ready_to_die' = m_ready_to_die /\ Busy
    BY <1>4 DEF AngelKill, AngelJoin, Listed, Busy
  <2> QED BY <1>0, <1>4, <2>1 DEF AngelKill, AngelJoin, AliveListed, VictimsListed,
         VictimListed, AngelFinds, Busy
<1>5. CASE AngelErase
  <2>1. /\ Listed' = Listed \ {angel.id} /\ Busy /\ ~Busy'
        /\ m_ready_to_die' = m_ready_to_die /\ stage' = stage
        /\ stage[angel.id] = "ended"
    BY <1>5 DEF AngelErase, Listed, Busy, VictimListed
  <2>2. AliveListed'
    BY <2>1 DEF AliveListed
  <2>3. VictimsListed'
    BY <1>0, <2>1 DEF VictimsListed, VictimListed
  <2>4. VictimListed' /\ AngelFinds'
    BY <1>5, <2>1 DEF AngelErase, VictimListed, AngelFinds, Busy
  <2> QED BY <1>0, <2>2, <2>3, <2>4
<1> QED BY <1>1, <1>2, <1>3, <1>4, <1>5 DEF AngelStep

\* The owner moves a thread from nowhere to fresh and from there to the map.
LEMMA MourningOwner ==
  ASSUME TypeOK, TypeOK', Mourning,
         \/ OwnerStep
         \/ \E t \in Tasks : Add(t)
         \/ Run \/ Pause \/ Stop
         \/ \E n \in Sizes : Resize(n)
  PROVE  Mourning'
<1> USE DEF Mourning, TypeOK
<1>1. m_ready_to_die' = m_ready_to_die /\ angel' = angel
  BY DEF OwnerStep, Add, Run, Pause, Stop, Resize, PushSpecial, CreateThread,
         InsertThread, NotifyAll, Measure, Return, InterruptAngel, JoinAngel,
         InterruptThreads, JoinThreads, threadVars
<1>2. CASE CreateThread
  <2>1. PICK w \in Threads : stage[w] = "none" /\ Goto(w, "pop") /\ fresh' = {w}
    BY <1>2 DEF CreateThread
  <2>2. fresh = {}
    BY <1>2 DEF CreateThread, FreshInserted, Statement
  <2>3. Listed' = Listed \cup {w} /\ m_threads' = m_threads
    BY <1>2, <2>1, <2>2 DEF Listed, CreateThread
  <2>4. Dying' = Dying
    BY <2>1 DEF Dying, Goto
  <2>5. AliveListed'
    BY <2>1, <2>3 DEF AliveListed, Goto
  <2>6. VictimsListed'
    BY <1>1, <2>3, <2>4 DEF VictimsListed
  <2>7. VictimListed'
    BY <1>1, <2>1, <2>3, <2>4 DEF VictimListed, Busy, Goto
  <2>8. AngelFinds'
    BY <1>1, <2>3 DEF AngelFinds
  <2>9. FreshInserted'
    <3>1. Tail(todo) \in Seq(Statements)
      BY <1>2 DEF CreateThread, Statement
    <3> QED BY <1>2, <3>1 DEF CreateThread, FreshInserted, Statement
  <2> QED BY <2>5, <2>6, <2>7, <2>8, <2>9
<1>3. CASE InsertThread
  <2>1. Listed' = Listed /\ fresh' = {} /\ stage' = stage /\ m_threads \subseteq m_threads'
    BY <1>3 DEF InsertThread, Listed
  <2> QED BY <1>1, <2>1 DEF AliveListed, VictimsListed, VictimListed, AngelFinds,
         FreshInserted, Busy, Dying
<1>4. CASE NotifyAll
  <2>1. Listed' = Listed /\ m_threads' = m_threads /\ fresh = {} /\ fresh' = {}
    BY <1>4 DEF NotifyAll, threadVars, Listed, FreshInserted, Statement
  <2>2. /\ Dying' = Dying
        /\ \A w \in Threads :
             stage'[w] \notin {"none", "ended"} => stage[w] \notin {"none", "ended"}
        /\ \A w \in Threads : stage[w] = "ended" => stage'[w] = "ended"
    BY <1>4 DEF NotifyAll, Dying
  <2>3. AliveListed' /\ VictimsListed' /\ FreshInserted' /\ AngelFinds'
    BY <1>1, <2>1, <2>2 DEF AliveListed, VictimsListed, FreshInserted, AngelFinds
  <2>4. VictimListed'
    BY <1>1, <2>1, <2>2 DEF VictimListed, Busy, Dying
  <2> QED BY <2>3, <2>4
<1>5. ASSUME ~CreateThread, ~InsertThread, ~NotifyAll PROVE Mourning'
  <2>1. m_threads' = m_threads /\ fresh' = fresh /\ stage' = stage
    BY <1>5 DEF OwnerStep, Add, Run, Pause, Stop, Resize, PushSpecial, Measure, Return,
         InterruptAngel, JoinAngel, InterruptThreads, JoinThreads, threadVars
  <2>2. FreshInserted'
    BY <1>5, <2>1 DEF OwnerStep, Add, Run, Pause, Stop, Resize, PushSpecial, Measure,
         Return, InterruptAngel, JoinAngel, InterruptThreads, JoinThreads, Statement,
         FreshInserted, Call, Special
  <2> QED BY <1>1, <2>1, <2>2 DEF AliveListed, VictimsListed, VictimListed, AngelFinds,
         Busy, Dying, Listed
<1> QED BY <1>2, <1>3, <1>4, <1>5

\* Every step keeps Mourning.
LEMMA MourningStep ==
  ASSUME TypeOK, TypeOK', Mourning, [Next]_vars
  PROVE  Mourning'
<1>1. CASE UNCHANGED vars
  BY <1>1 DEF vars, Mourning, AliveListed, VictimsListed, VictimListed, AngelFinds,
     FreshInserted, Statement, Busy, Dying, Listed
<1> QED BY <1>1, MourningWorker, MourningAngel, MourningOwner DEF Next

\* At first there is no thread to mourn.
LEMMA InitMourning == Init => Mourning
BY DEF Init, Mourning, AliveListed, VictimsListed, VictimListed, AngelFinds,
   FreshInserted, Busy

\* Mourning is an invariant.
LEMMA AlwaysMourning == SafeSpec => []Mourning
<1>1. Init => Mourning BY InitMourning
<1>2. TypeOK /\ TypeOK' /\ Mourning /\ [Next]_vars => Mourning' BY MourningStep
<1> QED BY <1>1, <1>2, TypeCorrect, PTL DEF SafeSpec

\* The angel never dereferences m_threads.end(): for any number of threads
\* and any sequence of calls, the thread it looks up is in the map.
THEOREM AngelAlwaysFinds == SafeSpec => []AngelFinds
<1>1. Mourning => AngelFinds BY DEF Mourning
<1> QED BY <1>1, AlwaysMourning, PTL

------------------------------------------------------------------------------
(* Stop. *)

\* Where Stop is, from the statement it is at.
LEMMA StopPlaces ==
  /\ Tail(StopCall) = <<"joinAngel", "interrupt", "join", "stopped">>
  /\ Tail(Tail(StopCall)) = <<"interrupt", "join", "stopped">>
  /\ Tail(<<"interrupt", "join", "stopped">>) = <<"join", "stopped">>
  /\ Tail(<<"join", "stopped">>) = <<"stopped">>
  /\ Head(StopCall) = "interruptAngel"
  /\ Head(Tail(StopCall)) = "joinAngel"
  /\ Head(<<"interrupt", "join", "stopped">>) = "interrupt"
  /\ Head(<<"join", "stopped">>) = "join"
  /\ Head(<<"stopped">>) = "stopped"
<1>1. Tail(StopCall) = <<"joinAngel", "interrupt", "join", "stopped">>
  BY DEF StopCall
<1>2. Tail(<<"joinAngel", "interrupt", "join", "stopped">>)
        = <<"interrupt", "join", "stopped">>
  OBVIOUS
<1>3. Tail(<<"interrupt", "join", "stopped">>) = <<"join", "stopped">>
  OBVIOUS
<1>4. Tail(<<"join", "stopped">>) = <<"stopped">>
  OBVIOUS
<1>5. Head(StopCall) = "interruptAngel"
  BY DEF StopCall
<1>6. Head(<<"joinAngel", "interrupt", "join", "stopped">>) = "joinAngel"
  OBVIOUS
<1>7. Head(<<"interrupt", "join", "stopped">>) = "interrupt"
  OBVIOUS
<1>8. Head(<<"join", "stopped">>) = "join"
  OBVIOUS
<1>9. Head(<<"stopped">>) = "stopped"
  OBVIOUS
<1> QED BY <1>1, <1>2, <1>3, <1>4, <1>5, <1>6, <1>7, <1>8, <1>9, Zenon

\* A sequence of other statements is never a rest of Stop.
LEMMA CallsApart ==
  ASSUME NEW q \in Seq(CallStatements)
  PROVE  /\ q # <<>> => Head(q) \in CallStatements /\ Tail(q) \in Seq(CallStatements)
         /\ q # <<"stopped">>
BY DEF CallStatements

\* Nobody but the owner can undo Stop: workers that have ended stay so.
LEMMA StoppingOther ==
  ASSUME TypeOK, Stopping,
         \/ \E w \in Threads : WorkerStep(w) \/ SpuriousWakeup(w)
         \/ AngelStep
         \/ \E t \in Tasks : Add(t)
  PROVE  Stopping'
<1>1. todo' = todo /\ m_flag' = m_flag
  BY DEF WorkerStep, SpuriousWakeup, PopTask, EndTask, Check, FallAsleep, EatApple, Die,
     workerVars, AngelStep, AngelTop, AngelPop, AngelFind, AngelKill, AngelJoin,
     AngelErase, AngelDie, angelRest, Add
<1>2. angel.at = "ended" => angel' = angel
  BY DEF WorkerStep, SpuriousWakeup, PopTask, EndTask, Check, FallAsleep, EatApple, Die,
     workerVars, AngelStep, AngelTop, AngelPop, AngelFind, AngelKill, AngelJoin,
     AngelErase, AngelDie, Add, threadVars
<1>3. (\A w \in Threads : stage[w] \in {"none", "ended"}) => stage' = stage
  BY TasksAssumption DEF WorkerStep, SpuriousWakeup, PopTask, EndTask, Check, FallAsleep,
     EatApple, Die, AngelStep, AngelTop, AngelPop, AngelFind, AngelKill, AngelJoin,
     AngelErase, AngelDie, angelRest, Add, Points
<1> QED BY <1>1, <1>2, <1>3 DEF Stopping, StopJoinsAll

\* The owner goes through Stop in order: it joins the angel before the
\* threads, and no thread is fresh when it joins those in the map.
LEMMA StoppingOwner ==
  ASSUME TypeOK, Mourning, Stopping, OwnerStep
  PROVE  Stopping'
<1>1. angel' = angel /\ m_flag' = m_flag
  BY DEF OwnerStep, PushSpecial, CreateThread, InsertThread, NotifyAll, Measure, Return,
     InterruptAngel, JoinAngel, InterruptThreads, JoinThreads, threadVars, ownerRest
<1>2. CASE m_flag # "STOP"
  <2>0. todo \in Seq(CallStatements)
    BY <1>2 DEF Stopping
  <2>1. todo # <<>>
    BY DEF OwnerStep, PushSpecial, CreateThread, InsertThread, NotifyAll, Measure, Return,
       InterruptAngel, JoinAngel, InterruptThreads, JoinThreads, Statement
  <2>2. Head(todo) \in CallStatements /\ Tail(todo) \in Seq(CallStatements)
    BY <2>0, <2>1, CallsApart
  <2>3. todo' \in Seq(CallStatements)
    <3>1. CASE CreateThread
      <4>1. <<"insert">> \in Seq(CallStatements)
        BY DEF CallStatements
      <4> QED BY <2>2, <3>1, <4>1 DEF CreateThread
    <3>2. CASE Measure
      <4>1. "peel" \in CallStatements /\ <<"held">> \in Seq(CallStatements)
        BY DEF CallStatements
      <4>2. Cardinality(m_threads) \in Nat
        BY CountType DEF TypeOK
      <4>3. Repeat("peel", Cardinality(m_threads)) \in Seq(CallStatements)
        BY <4>1, <4>2, RepeatType
      <4> QED BY <3>2, <4>1, <4>3 DEF Measure
    <3>3. CASE PushSpecial \/ InsertThread \/ NotifyAll \/ Return
      BY <2>2, <3>3 DEF PushSpecial, InsertThread, NotifyAll, Return
    <3>4. CASE InterruptAngel \/ JoinAngel \/ InterruptThreads \/ JoinThreads
      BY <2>2, <3>4 DEF InterruptAngel, JoinAngel, InterruptThreads, JoinThreads,
         Statement, CallStatements
    <3> QED BY <3>1, <3>2, <3>3, <3>4 DEF OwnerStep
  <2> QED BY <1>1, <1>2, <2>3, CallsApart DEF Stopping, StopJoinsAll
<1>3. CASE m_flag = "STOP"
  <2>1. Head(todo) \in {"interruptAngel", "joinAngel", "interrupt", "join", "stopped"}
    BY <1>3, StopPlaces DEF Stopping, AfterAngel
  <2>2. InterruptAngel \/ JoinAngel \/ InterruptThreads \/ JoinThreads
    BY <2>1 DEF OwnerStep, PushSpecial, CreateThread, InsertThread, NotifyAll, Measure,
       Return, Statement, Special
  <2>3. CASE InterruptAngel
    <3>1. todo = StopCall
      BY <1>3, <2>3, StopPlaces DEF InterruptAngel, Statement, Stopping, AfterAngel
    <3>2. todo' = Tail(StopCall)
      BY <2>3, <3>1 DEF InterruptAngel
    <3> QED BY <1>1, <1>3, <3>2, StopPlaces DEF Stopping, StopJoinsAll
  <2>4. CASE JoinAngel
    <3>1. todo = Tail(StopCall)
      BY <1>3, <2>4, StopPlaces DEF JoinAngel, Statement, Stopping, AfterAngel
    <3>2. todo' = <<"interrupt", "join", "stopped">> /\ angel.at = "ended"
      BY <2>4, <3>1, StopPlaces DEF JoinAngel
    <3> QED BY <1>1, <1>3, <3>2 DEF Stopping, StopJoinsAll, AfterAngel
  <2>5. CASE InterruptThreads
    <3>1. todo = <<"interrupt", "join", "stopped">> /\ angel.at = "ended"
      BY <1>3, <2>5, StopPlaces DEF InterruptThreads, Statement, Stopping, AfterAngel
    <3>2. todo' = <<"join", "stopped">>
      BY <2>5, <3>1, StopPlaces DEF InterruptThreads
    <3> QED BY <1>1, <1>3, <3>1, <3>2 DEF Stopping, StopJoinsAll, AfterAngel
  <2>6. CASE JoinThreads
    <3>1. todo = <<"join", "stopped">> /\ angel.at = "ended"
      BY <1>3, <2>6, StopPlaces DEF JoinThreads, Statement, Stopping, AfterAngel
    <3>2. todo' = <<"stopped">> /\ stage' = stage
      BY <2>6, <3>1, StopPlaces DEF JoinThreads
    <3>3. fresh = {}
      BY <2>6 DEF JoinThreads, Mourning, FreshInserted, Statement
    <3>4. \A w \in Threads : stage[w] \in {"none", "ended"}
      BY <2>6, <3>3 DEF JoinThreads, Mourning, AliveListed, Listed
    <3> QED BY <1>1, <1>3, <3>1, <3>2, <3>4 DEF Stopping, StopJoinsAll, AfterAngel
  <2> QED BY <2>2, <2>3, <2>4, <2>5, <2>6
<1> QED BY <1>2, <1>3

\* A call starts when the one before has returned, and none after Stop.
LEMMA StoppingCall ==
  ASSUME TypeOK, Stopping, Run \/ Pause \/ Stop \/ \E n \in Sizes : Resize(n)
  PROVE  Stopping'
<1>1. CASE Stop
  <2>1. todo' = StopCall /\ m_flag' = "STOP"
    BY <1>1 DEF Stop
  <2> QED BY <2>1 DEF Stopping, StopJoinsAll, StopCall
<1>2. ASSUME Run \/ Pause \/ \E n \in Sizes : Resize(n) PROVE Stopping'
  <2>1. todo' \in Seq(CallStatements)
    <3>1. /\ "apple" \in CallStatements /\ "create" \in CallStatements
          /\ <<"notify">> \in Seq(CallStatements) /\ <<"measure">> \in Seq(CallStatements)
      BY DEF CallStatements
    <3>2. CASE Run \/ Pause
      BY <3>1, <3>2 DEF Run, Pause
    <3>3. ASSUME NEW n \in Sizes, Resize(n) PROVE todo' \in Seq(CallStatements)
      <4>1. Cardinality(m_threads) \in Nat /\ n \in Nat
        BY CountType, CallsAssumption DEF TypeOK
      <4>2. todo' = Change(Cardinality(m_threads), n)
        BY <3>3 DEF Resize
      <4>3. CASE n < Cardinality(m_threads)
        <5>1. /\ Cardinality(m_threads) - n \in Nat
              /\ todo' = Repeat("apple", Cardinality(m_threads) - n)
          BY <4>1, <4>2, <4>3 DEF Change
        <5> QED BY <3>1, <5>1, RepeatType
      <4>4. CASE ~(n < Cardinality(m_threads))
        <5>1. /\ n - Cardinality(m_threads) \in Nat
              /\ todo' = Repeat("create", n - Cardinality(m_threads))
          BY <4>1, <4>2, <4>4 DEF Change
        <5> QED BY <3>1, <5>1, RepeatType
      <4> QED BY <4>3, <4>4
    <3> QED BY <1>2, <3>2, <3>3
  <2>2. m_flag' # "STOP"
    <3>1. todo = <<>>
      BY <1>2 DEF Run, Pause, Resize, Call
    <3>2. m_flag # "STOP"
      BY <3>1 DEF Stopping, StopCall, AfterAngel
    <3> QED BY <1>2, <3>2 DEF Run, Pause, Resize
  <2> QED BY <2>1, <2>2, CallsApart DEF Stopping, StopJoinsAll
<1> QED BY <1>1, <1>2

\* Every step keeps Stopping.
LEMMA StoppingStep ==
  ASSUME TypeOK, Mourning, Stopping, [Next]_vars
  PROVE  Stopping'
<1>1. CASE UNCHANGED vars
  BY <1>1 DEF vars, Stopping, StopJoinsAll
<1> QED BY <1>1, StoppingOther, StoppingOwner, StoppingCall DEF Next

\* The constructor is not Stop.
LEMMA InitStopping == Init => Stopping
<1> SUFFICES ASSUME Init PROVE Stopping
  OBVIOUS
<1>1. ThreadCount \in Nat
  BY ThreadsAssumption, FS_CardinalityType
<1>2. /\ "peel" \in CallStatements /\ "create" \in CallStatements
      /\ <<"held">> \in Seq(CallStatements)
  BY DEF CallStatements
<1>3. /\ Repeat("peel", ThreadCount) \in Seq(CallStatements)
      /\ Repeat("create", ThreadCount) \in Seq(CallStatements)
  BY <1>1, <1>2, RepeatType
<1>4. todo \in Seq(CallStatements)
  BY <1>2, <1>3 DEF Init
<1> QED BY <1>4, CallsApart DEF Init, Stopping, StopJoinsAll

\* Stopping is an invariant.
LEMMA AlwaysStopping == SafeSpec => []Stopping
<1>1. Init => Stopping BY InitStopping
<1>2. TypeOK /\ Mourning /\ Stopping /\ [Next]_vars => Stopping' BY StoppingStep
<1> QED BY <1>1, <1>2, TypeCorrect, AlwaysMourning, PTL DEF SafeSpec

\* When Stop returns, no thread of the pool is alive: neither a worker that
\* ate an apple as the angel was interrupted, nor one that was just added.
THEOREM NoThreadSurvivesStop == SafeSpec => []StopJoinsAll
<1>1. Stopping => StopJoinsAll BY DEF Stopping
<1> QED BY <1>1, AlwaysStopping, PTL

------------------------------------------------------------------------------
(* Counting. *)

\* The places of the statement s in a call.
Places(s, q) == {i \in DOMAIN q : q[i] = s}

\* How often the owner has still to execute s.
Times(s, q) == Cardinality(Places(s, q))

\* A call has a number of places for each statement.
LEMMA TimesType ==
  ASSUME NEW S, NEW q \in Seq(S), NEW s
  PROVE  IsFiniteSet(Places(s, q)) /\ Times(s, q) \in Nat
<1>1. Places(s, q) \in SUBSET (1..Len(q)) /\ Len(q) \in Nat
  BY DEF Places
<1>2. IsFiniteSet(1..Len(q))
  BY <1>1, FS_Interval
<1> QED BY <1>1, <1>2, FS_Subset, FS_CardinalityType DEF Times

\* Executing a statement leaves one place less for it, and as many for others.
LEMMA TimesTail ==
  ASSUME NEW S, NEW q \in Seq(S), q # <<>>, NEW s
  PROVE  /\ Head(q) = s => Times(s, q) = Times(s, Tail(q)) + 1
         /\ Head(q) # s => Times(s, q) = Times(s, Tail(q))
<1> DEFINE P == Places(s, q)
           R == Places(s, Tail(q))
           f == [i \in R |-> i + 1]
<1>1. /\ Tail(q) \in Seq(S) /\ Len(q) \in Nat \ {0} /\ Len(Tail(q)) = Len(q) - 1
      /\ \A i \in 1..(Len(q) - 1) : Tail(q)[i] = q[i + 1]
      /\ Head(q) = q[1]
      /\ DOMAIN q = 1..Len(q) /\ DOMAIN Tail(q) = 1..(Len(q) - 1)
  OBVIOUS
<1>2. /\ \A i \in R : i \in Nat /\ i + 1 \in P \ {1}
      /\ \A j \in P \ {1} : j \in Nat /\ j - 1 \in R /\ (j - 1) + 1 = j
  BY <1>1 DEF Places
<1>3. f \in Bijection(R, P \ {1})
  <2>1. f \in [R -> P \ {1}]
    BY <1>2
  <2>2. \A i, j \in R : f[i] = f[j] => i = j
    BY <1>2
  <2>3. \A j \in P \ {1} : \E i \in R : f[i] = j
    BY <1>2
  <2> HIDE DEF P, R, f
  <2>4. DOMAIN f = R
    BY <2>1
  <2> QED BY <2>1, <2>2, <2>3, <2>4 DEF Bijection, Injection, Surjection, IsInjective
<1>4. IsFiniteSet(R) /\ IsFiniteSet(P) /\ Cardinality(P) \in Nat
  BY <1>1, TimesType DEF Times
<1>5. Cardinality(P \ {1}) = Cardinality(R)
  BY <1>3, <1>4, FS_Bijection DEF ExistsBijection
<1>6. Cardinality(P \ {1}) = IF 1 \in P THEN Cardinality(P) - 1 ELSE Cardinality(P)
  BY <1>4, FS_RemoveElement
<1>7. 1 \in P <=> Head(q) = s
  BY <1>1 DEF Places
<1> HIDE DEF P, R, f
<1>8. /\ Head(q) = s => Cardinality(P) = Cardinality(R) + 1
      /\ Head(q) # s => Cardinality(P) = Cardinality(R)
  BY <1>4, <1>5, <1>6, <1>7
<1> QED BY <1>8 DEF P, R, Times

\* A statement that is put in front.
Before(x, q) == <<x>> \o q

\* It is the first, and the others follow.
LEMMA BeforeType ==
  ASSUME NEW S, NEW q \in Seq(S), NEW x \in S
  PROVE  /\ Before(x, q) \in Seq(S) /\ Before(x, q) # <<>>
         /\ Len(Before(x, q)) = Len(q) + 1
         /\ Head(Before(x, q)) = x /\ Tail(Before(x, q)) = q
<1>1. <<x>> \in Seq(S) /\ Len(<<x>>) = 1 /\ <<x>>[1] = x
  OBVIOUS
<1>2. <<x>> \o q \in Seq(S) /\ Len(<<x>> \o q) = 1 + Len(q) /\ Len(q) \in Nat
  BY <1>1
<1>3. <<x>> \o q # <<>> /\ Head(<<x>> \o q) = x /\ Tail(<<x>> \o q) = q
  BY <1>1, <1>2
<1> QED BY <1>2, <1>3 DEF Before

\* The places after the first.
LEMMA PlacesTail ==
  ASSUME NEW S, NEW q \in Seq(S), q # <<>>
  PROVE  /\ \A s : \A i \in Places(s, Tail(q)) :
               i \in 1..(Len(q) - 1) /\ i + 1 \in Places(s, q)
         /\ \A s : Head(q) # s => \A i \in Places(s, q) :
               i \in 2..Len(q) /\ i - 1 \in Places(s, Tail(q))
<1>1. /\ Tail(q) \in Seq(S) /\ Len(q) \in Nat \ {0} /\ Len(Tail(q)) = Len(q) - 1
      /\ \A i \in 1..(Len(q) - 1) : Tail(q)[i] = q[i + 1]
      /\ Head(q) = q[1]
      /\ DOMAIN q = 1..Len(q) /\ DOMAIN Tail(q) = 1..(Len(q) - 1)
  OBVIOUS
<1>2. \A s : \A i \in Places(s, Tail(q)) :
         i \in 1..(Len(q) - 1) /\ i + 1 \in Places(s, q)
  BY <1>1 DEF Places
<1>3. \A s : Head(q) # s => \A i \in Places(s, q) :
         i \in 2..Len(q) /\ i - 1 \in Places(s, Tail(q))
  BY <1>1 DEF Places
<1> QED BY <1>2, <1>3

\* An unrolled loop.
LEMMA TimesRepeat ==
  ASSUME NEW s, NEW n \in Nat
  PROVE  Times(s, Repeat(s, n)) = n /\ \A r : r # s => Times(r, Repeat(s, n)) = 0
<1>1. Places(s, Repeat(s, n)) = 1..n /\ \A r : r # s => Places(r, Repeat(s, n)) = {}
  BY DEF Places, Repeat
<1>2. Cardinality(1..n) = n
  BY FS_Interval
<1> QED BY <1>1, <1>2, FS_EmptySet DEF Times

\* Peels, then the return.
LEMMA RepeatHeld ==
  ASSUME NEW n \in Nat
  PROVE  LET r == Repeat("peel", n) \o <<"held">>
         IN  /\ Places("peel", r) = 1..n /\ Places("create", r) = {}
             /\ Places("apple", r) = {} /\ Places("measure", r) = {}
             /\ \A i \in Places("held", r) : i = Len(r)
<1> DEFINE q == Repeat("peel", n)
           one == <<"held">>
           r == q \o one
<1>1. q \in Seq({"peel", "held"}) /\ Len(q) = n /\ \A i \in 1..n : q[i] = "peel"
  BY RepeatType
<1>2. one \in Seq({"peel", "held"}) /\ Len(one) = 1 /\ one[1] = "held"
  OBVIOUS
<1> HIDE DEF q, one
<1>3. /\ DOMAIN r = 1..(n + 1) /\ Len(r) = n + 1
      /\ \A i \in 1..n : r[i] = q[i]
      /\ r[n + 1] = one[1]
  <2>1. r \in Seq({"peel", "held"}) /\ Len(r) = n + 1
    <3> DEFINE T == {"peel", "held"}
    <3>1. q \in Seq(T) /\ one \in Seq(T)
      BY <1>1, <1>2
    <3> HIDE DEF T
    <3>2. r \in Seq(T) /\ Len(r) = Len(q) + Len(one)
      BY <3>1
    <3> QED BY <1>1, <1>2, <3>2 DEF T
  <2>2. DOMAIN r = 1..(n + 1)
    BY <2>1
  <2>3. \A i \in 1..n : r[i] = q[i]
    BY <1>1, <1>2
  <2>4. r[n + 1] = one[1]
    BY <1>1, <1>2
  <2> QED BY <2>1, <2>2, <2>3, <2>4
<1> HIDE DEF r
<1>4. DOMAIN r = 1..n \cup {n + 1}
  BY <1>3
<1>5. /\ Places("peel", r) = 1..n /\ Places("create", r) = {}
      /\ Places("apple", r) = {} /\ Places("measure", r) = {}
      /\ \A i \in Places("held", r) : i = Len(r)
  BY <1>1, <1>2, <1>3, <1>4 DEF Places
<1> QED BY <1>5 DEF r, q, one

\* The constructor: peels, threads, then the return.
LEMMA ConstructorCounts ==
  ASSUME NEW n \in Nat
  PROVE  LET r == Repeat("peel", n) \o Repeat("create", n) \o <<"held">>
         IN  /\ Times("peel", r) = n /\ Times("create", r) = n /\ Times("apple", r) = 0
             /\ Places("measure", r) = {}
             /\ \A i \in Places("held", r) : i = Len(r)
<1> DEFINE T == {"peel", "create", "held"}
           p == Repeat("peel", n)
           q == Repeat("create", n)
           one == <<"held">>
           pq == p \o q
           r == pq \o one
<1>1. /\ p \in Seq(T) /\ Len(p) = n /\ \A i \in 1..n : p[i] = "peel"
      /\ q \in Seq(T) /\ Len(q) = n /\ \A i \in 1..n : q[i] = "create"
  BY RepeatType
<1>2. Len(one) = 1 /\ one[1] = "held"
  OBVIOUS
<1>b. one \in Seq(T)
  OBVIOUS
<1> HIDE DEF p, q, one, T
<1>3. pq \in Seq(T)
  BY <1>1
<1>a. Len(pq) = Len(p) + Len(q)
  BY <1>1
<1>4. /\ \A i \in 1..Len(p) : pq[i] = p[i]
      /\ \A i \in (Len(p) + 1)..(Len(p) + Len(q)) : pq[i] = q[i - Len(p)]
  BY <1>1
<1> HIDE DEF pq
<1>5. r \in Seq(T) /\ Len(r) = Len(pq) + Len(one)
  BY <1>3, <1>b
<1>6. /\ \A i \in 1..Len(pq) : r[i] = pq[i]
      /\ r[Len(pq) + 1] = one[1]
  <2>1. /\ \A i \in 1..Len(pq) : r[i] = pq[i]
        /\ \A i \in (Len(pq) + 1)..(Len(pq) + Len(one)) : r[i] = one[i - Len(pq)]
    BY <1>3, <1>b
  <2>2. Len(pq) \in Nat
    BY <1>3
  <2> QED BY <1>2, <2>1, <2>2
<1>7. Len(r) = 2 * n + 1 /\ DOMAIN r = 1..(2 * n + 1)
  BY <1>1, <1>2, <1>a, <1>5
<1> HIDE DEF r
<1>8. /\ \A i \in 1..n : r[i] = "peel"
      /\ \A i \in (n + 1)..(2 * n) : r[i] = "create"
      /\ r[2 * n + 1] = "held"
  BY <1>1, <1>2, <1>a, <1>4, <1>6
<1>9. \A i \in DOMAIN r : i \in 1..n \/ i \in (n + 1)..(2 * n) \/ i = 2 * n + 1
  BY <1>7
<1>10. /\ Places("peel", r) = 1..n /\ Places("create", r) = (n + 1)..(2 * n)
       /\ Places("apple", r) = {} /\ Places("measure", r) = {}
       /\ \A i \in Places("held", r) : i = Len(r)
  BY <1>7, <1>8, <1>9 DEF Places
<1>11. /\ Cardinality(1..n) = n /\ Cardinality((n + 1)..(2 * n)) = n
  BY FS_Interval
<1>12. Times("peel", r) = n /\ Times("create", r) = n /\ Times("apple", r) = 0
  BY <1>10, <1>11, FS_EmptySet, Zenon DEF Times
<1> QED BY <1>10, <1>12 DEF r, pq, p, q, one

\* A call of one statement.
LEMMA TimesOne ==
  ASSUME NEW x
  PROVE  \A r : r # x => Places(r, <<x>>) = {} /\ Times(r, <<x>>) = 0
<1>1. \A r : r # x => Places(r, <<x>>) = {}
  BY DEF Places
<1> QED BY <1>1, FS_EmptySet DEF Times

\* The call that is over.
LEMMA TimesNone == \A s : Places(s, <<>>) = {} /\ Times(s, <<>>) = 0
BY FS_EmptySet DEF Places, Times

------------------------------------------------------------------------------
(* Pause. *)

\* The workers that would take a task of the user's if one were in front.
Loose == {w \in Threads : stage[w] \in {"pop"} \cup Tasks}

\* While the pool is held there is a peel for every loose worker and none is
\* added; ...
Held ==
  held => /\ m_flag = "PAUSE"
          /\ m_tasks["peel"] >= Cardinality(Loose) + Times("create", todo)

\* ... before the constructor or Pause returns some of these peels, and some
\* of the workers, are still to come.
ToBeHeld ==
  Places("held", todo) # {} =>
     /\ m_flag = "PAUSE"
     /\ m_tasks["peel"] + Times("peel", todo) >= Cardinality(Loose) + Times("create", todo)

\* The return is the last statement of a call.
HeldLast == \A i \in Places("held", todo) : i = Len(todo)

\* Pause sets the flag before it reads the number of threads.
FlagFirst == Places("measure", todo) # {} => m_flag = "PAUSE"

\* The inductive invariant behind PauseHolds.
Quiet == Held /\ ToBeHeld /\ HeldLast /\ FlagFirst

\* What becomes of the rest of a call when its next statement is executed.
LEMMA Advance ==
  ASSUME NEW q \in Seq(Statements), q # <<>>,
         NEW r, r = Tail(q) \/ r = Before("insert", Tail(q)),
         \A i \in Places("held", q) : i = Len(q)
  PROVE  /\ \A s \in {"peel", "create", "apple"} :
               /\ Times(s, r) \in Nat /\ Times(s, q) \in Nat
               /\ Head(q) = s => Times(s, q) = Times(s, r) + 1
               /\ Head(q) # s => Times(s, q) = Times(s, r)
         /\ \A s \in {"held", "measure"} : Places(s, r) # {} => Places(s, q) # {}
         /\ \A i \in Places("held", r) : i = Len(r)
<1>1. "insert" \in Statements
  BY DEF Statements
<1>2. Tail(q) \in Seq(Statements) /\ Len(q) \in Nat \ {0} /\ Len(Tail(q)) = Len(q) - 1
  OBVIOUS
<1>3. /\ \A s : Times(s, q) \in Nat /\ Times(s, Tail(q)) \in Nat
      /\ \A s : Head(q) = s => Times(s, q) = Times(s, Tail(q)) + 1
      /\ \A s : Head(q) # s => Times(s, q) = Times(s, Tail(q))
      /\ \A s : \A i \in Places(s, Tail(q)) :
            i \in 1..(Len(q) - 1) /\ i + 1 \in Places(s, q)
  BY <1>2, TimesType, TimesTail, PlacesTail
<1>4. CASE r = Tail(q)
  <2>1. \A i \in Places("held", r) : i = Len(r)
    BY <1>2, <1>3, <1>4
  <2> QED BY <1>3, <1>4, <2>1
<1>5. CASE r = Before("insert", Tail(q))
  <2>1. /\ r \in Seq(Statements) /\ r # <<>> /\ Head(r) = "insert" /\ Tail(r) = Tail(q)
        /\ Len(r) = Len(q)
    <3> DEFINE p == Tail(q)
    <3>1. p \in Seq(Statements) /\ Len(p) = Len(q) - 1
      BY <1>2
    <3> HIDE DEF p
    <3>2. /\ r \in Seq(Statements) /\ r # <<>> /\ Head(r) = "insert" /\ Tail(r) = p
          /\ Len(r) = Len(p) + 1
      BY <1>1, <1>5, <3>1, BeforeType, Zenon DEF p
    <3>3. Len(r) = Len(q)
      <4>1. \A a, b, c \in Int : a = b - 1 /\ c = a + 1 => c = b
        OBVIOUS
      <4>2. Len(p) \in Int /\ Len(r) \in Int /\ Len(q) \in Int
        BY <1>2, <3>1, <3>2
      <4> QED BY <3>1, <3>2, <4>1, <4>2, Zenon
    <3> QED BY <3>2, <3>3, Zenon DEF p
  <2>2. ASSUME NEW s, s # "insert"
        PROVE  /\ Times(s, r) = Times(s, Tail(q))
               /\ \A i \in Places(s, r) : i \in Nat /\ i - 1 \in Places(s, Tail(q))
    <3>1. Times(s, r) = Times(s, Tail(q))
      BY <2>1, <2>2, TimesTail, Zenon
    <3>2. \A i \in Places(s, r) : i \in 2..Len(r) /\ i - 1 \in Places(s, Tail(q))
      BY <2>1, <2>2, PlacesTail, Zenon
    <3>3. \A i \in 2..Len(r) : i \in Nat
      BY <1>2, <2>1
    <3> QED BY <3>1, <3>2, <3>3, Zenon
  <2>3. \A s \in {"held", "measure"} : \A i \in Places(s, r) : i \in Places(s, q)
    BY <1>3, <2>2
  <2>4. \A s \in {"peel", "create", "apple"} : Times(s, r) = Times(s, Tail(q))
    BY <2>2
  <2> QED BY <1>3, <2>1, <2>3, <2>4
<1> QED BY <1>4, <1>5

\* Loose workers can be counted.
LEMMA LooseType == IsFiniteSet(Loose) /\ Cardinality(Loose) \in Nat
BY CountType DEF Loose

\* Steps that make nobody loose and leave peels, flag and owner alone.
LEMMA QuietShrink ==
  ASSUME TypeOK, Quiet, Loose' \subseteq Loose, m_tasks'["peel"] = m_tasks["peel"],
         UNCHANGED <<m_flag, todo, held>>
  PROVE  Quiet'
<1>1. Cardinality(Loose') <= Cardinality(Loose) /\ Cardinality(Loose') \in Nat
  BY LooseType, FS_Subset, FS_CardinalityType
<1>2. Times("create", todo) \in Nat /\ Times("peel", todo) \in Nat
  BY TimesType DEF TypeOK
<1>3. m_tasks["peel"] \in Nat
  BY DEF TypeOK, Special
<1>4. Held'
  BY <1>1, <1>2, <1>3, LooseType DEF Quiet, Held
<1>5. ToBeHeld'
  BY <1>1, <1>2, <1>3, LooseType DEF Quiet, ToBeHeld
<1>6. HeldLast' /\ FlagFirst'
  BY DEF Quiet, HeldLast, FlagFirst
<1> QED BY <1>4, <1>5, <1>6 DEF Quiet

\* A worker that takes a peel is no longer loose.
LEMMA QuietPeel ==
  ASSUME TypeOK, Quiet, NEW w \in Loose, Loose' = Loose \ {w},
         m_tasks'["peel"] = m_tasks["peel"] - 1, UNCHANGED <<m_flag, todo, held>>
  PROVE  Quiet'
<1>1. Cardinality(Loose') = Cardinality(Loose) - 1
  BY LooseType, FS_RemoveElement
<1>2. Times("create", todo) \in Nat /\ Times("peel", todo) \in Nat
  BY TimesType DEF TypeOK
<1>3. m_tasks["peel"] \in Nat
  BY DEF TypeOK, Special
<1>4. Held'
  BY <1>1, <1>2, <1>3, LooseType DEF Quiet, Held
<1>5. ToBeHeld'
  BY <1>1, <1>2, <1>3, LooseType DEF Quiet, ToBeHeld
<1>6. HeldLast' /\ FlagFirst'
  BY DEF Quiet, HeldLast, FlagFirst
<1> QED BY <1>4, <1>5, <1>6 DEF Quiet

\* A worker gets loose from a peel only when the flag is not PAUSE.
LEMMA QuietWorker ==
  ASSUME TypeOK, TypeOK', Quiet, NEW w \in Threads, WorkerStep(w) \/ SpuriousWakeup(w)
  PROVE  Quiet'
<1> USE TasksAssumption DEF Points, Special
<1>0. UNCHANGED <<m_flag, todo, held>>
  BY DEF WorkerStep, SpuriousWakeup, PopTask, EndTask, Check, FallAsleep, EatApple, Die,
     workerVars, ghostVars
<1>1. CASE PopTask(w)
  <2>1. PICK t \in Front :
          /\ m_tasks' = [m_tasks EXCEPT ![t] = @ - 1]
          /\ Goto(w, IF w \in interrupted THEN "ended"
                     ELSE CASE t = "peel"  -> "check"
                            [] t = "apple" -> "eat"
                            [] OTHER       -> t)
    BY <1>1 DEF PopTask
  <2>2. t \in Tasks \cup Special /\ w \in Loose
    BY <1>1 DEF Front, Queued, PopTask, Loose
  <2>3. CASE t = "peel"
    <3>1. m_tasks'["peel"] = m_tasks["peel"] - 1
      BY <2>1, <2>3 DEF TypeOK
    <3>2. stage' = [stage EXCEPT ![w] = IF w \in interrupted THEN "ended" ELSE "check"]
      BY <2>1, <2>3 DEF Goto
    <3>3. Loose' = Loose \ {w}
      BY <3>2 DEF Loose, TypeOK
    <3> QED BY <1>0, <2>2, <3>1, <3>3, QuietPeel
  <2>4. CASE t # "peel"
    <3>1. m_tasks'["peel"] = m_tasks["peel"]
      BY <2>1, <2>4 DEF TypeOK
    <3>2. Loose' \subseteq Loose
      BY <2>1, <2>2 DEF Loose, TypeOK, Goto
    <3> QED BY <1>0, <3>1, <3>2, QuietShrink
  <2> QED BY <2>3, <2>4
<1>2. CASE EndTask(w)
  <2>1. Loose' \subseteq Loose /\ m_tasks' = m_tasks
    BY <1>2 DEF EndTask, Goto, Loose, TypeOK
  <2> QED BY <1>0, <2>1, QuietShrink
<1>3. CASE Check(w)
  <2>1. CASE m_flag = "PAUSE"
    <3>1. Loose' \subseteq Loose /\ m_tasks' = m_tasks
      BY <1>3, <2>1 DEF Check, Goto, Loose, TypeOK
    <3> QED BY <1>0, <3>1, QuietShrink
  <2>2. CASE m_flag # "PAUSE"
    <3>1. ~held /\ Places("held", todo) = {} /\ Places("measure", todo) = {}
      BY <2>2 DEF Quiet, Held, ToBeHeld, FlagFirst
    <3> QED BY <1>0, <3>1 DEF Quiet, Held, ToBeHeld, HeldLast, FlagFirst
  <2> QED BY <2>1, <2>2
<1>4. CASE FallAsleep(w) \/ EatApple(w) \/ Die(w) \/ SpuriousWakeup(w)
  <2>1. Loose' \subseteq Loose /\ m_tasks' = m_tasks
    BY <1>4 DEF FallAsleep, EatApple, Die, SpuriousWakeup, Goto, Loose, TypeOK
  <2> QED BY <1>0, <2>1, QuietShrink
<1> QED BY <1>1, <1>2, <1>3, <1>4 DEF WorkerStep

\* The angel and those who add tasks do not matter.
LEMMA QuietOther ==
  ASSUME TypeOK, TypeOK', Quiet, AngelStep \/ \E t \in Tasks : Add(t)
  PROVE  Quiet'
<1>1. UNCHANGED <<m_flag, todo, held, stage>>
  BY DEF AngelStep, AngelTop, AngelPop, AngelFind, AngelKill, AngelJoin, AngelErase,
     AngelDie, angelRest, ghostVars, Add
<1>2. m_tasks'["peel"] = m_tasks["peel"]
  <2>1. CASE AngelStep
    BY <2>1 DEF AngelStep, AngelTop, AngelPop, AngelFind, AngelKill, AngelJoin,
       AngelErase, AngelDie, angelRest
  <2>2. ASSUME NEW t \in Tasks, Add(t) PROVE m_tasks'["peel"] = m_tasks["peel"]
    <3>1. t # "peel"
      BY TasksAssumption DEF Special
    <3> QED BY <2>2, <3>1 DEF Add, TypeOK, Special
  <2> QED BY <2>1, <2>2
<1>3. Loose' \subseteq Loose
  BY <1>1 DEF Loose
<1> QED BY <1>1, <1>2, <1>3, QuietShrink

\* The owner executes the next statement: HeldLast and FlagFirst go on to
\* hold, and the other two depend on a sum.
LEMMA QuietAdvance ==
  ASSUME TypeOK, Quiet, todo # <<>>, UNCHANGED <<m_flag, held>>,
         todo' = Tail(todo) \/ todo' = Before("insert", Tail(todo)),
         m_tasks'["peel"] \in Nat, Cardinality(Loose') \in Nat,
         m_tasks'["peel"] >= m_tasks["peel"],
         m_tasks'["peel"] + Times("peel", todo') >= m_tasks["peel"] + Times("peel", todo),
         Cardinality(Loose') + Times("create", todo')
            <= Cardinality(Loose) + Times("create", todo)
  PROVE  Quiet'
<1> DEFINE r == todo'
<1>1. /\ todo \in Seq(Statements)
      /\ \A i \in Places("held", todo) : i = Len(todo)
      /\ m_tasks["peel"] \in Nat
  BY DEF TypeOK, Quiet, HeldLast, Special
<1>2. /\ \A s \in {"peel", "create", "apple"} :
            Times(s, r) \in Nat /\ Times(s, todo) \in Nat
      /\ \A s \in {"held", "measure"} : Places(s, r) # {} => Places(s, todo) # {}
      /\ \A i \in Places("held", r) : i = Len(r)
  BY <1>1, Advance
<1> DEFINE p == m_tasks["peel"]        p1 == m_tasks'["peel"]
           k == Times("peel", todo)    k1 == Times("peel", todo')
           l == Cardinality(Loose)     l1 == Cardinality(Loose')
           c == Times("create", todo)  c1 == Times("create", todo')
<1>3. /\ p \in Nat /\ p1 \in Nat /\ k \in Nat /\ k1 \in Nat
      /\ l \in Nat /\ l1 \in Nat /\ c \in Nat /\ c1 \in Nat
      /\ p1 >= p /\ p1 + k1 >= p + k /\ l1 + c1 <= l + c
  BY <1>1, <1>2, LooseType
<1> HIDE DEF p, p1, k, k1, l, l1, c, c1
<1>4. (p >= l + c => p1 >= l1 + c1) /\ (p + k >= l + c => p1 + k1 >= l1 + c1)
  BY <1>3
<1> USE DEF p, p1, k, k1, l, l1, c, c1
<1>a. Held'
  BY <1>4, Zenon DEF Quiet, Held
<1>b. ToBeHeld'
  BY <1>2, <1>4, Zenon DEF Quiet, ToBeHeld
<1>5. HeldLast' /\ FlagFirst'
  BY <1>2 DEF Quiet, HeldLast, FlagFirst
<1> QED BY <1>a, <1>b, <1>5 DEF Quiet

\* Pause asks for a peel for every thread in the map, and the map has all
\* that are alive: nothing is fresh while the owner is in Pause.
LEMMA QuietMeasure ==
  ASSUME TypeOK, Mourning, Quiet, Measure
  PROVE  Quiet'
<1> DEFINE n == Cardinality(m_threads)
           q == Repeat("peel", n)
           r == q \o <<"held">>
<1>1. n \in Nat /\ IsFiniteSet(m_threads)
  BY CountType DEF TypeOK
<1>2. todo' = r /\ UNCHANGED <<m_flag, m_tasks, stage, held>>
  BY DEF Measure, threadVars, ownerRest
<1>3. Loose' = Loose
  BY <1>2 DEF Loose
<1>4. fresh = {}
  BY DEF Measure, Mourning, FreshInserted, Statement
<1>5. Loose \in SUBSET m_threads
  BY <1>4, TasksAssumption DEF Loose, Mourning, AliveListed, Listed, Points
<1>6. Cardinality(Loose) <= n
  BY <1>1, <1>5, FS_Subset
<1>7. m_flag = "PAUSE"
  <2>1. 1 \in Places("measure", todo)
    BY DEF Measure, Statement, Places, TypeOK
  <2> QED BY <2>1 DEF Quiet, FlagFirst
<1>8. /\ Places("peel", r) = 1..n /\ Places("create", r) = {}
      /\ Places("measure", r) = {}
      /\ \A i \in Places("held", r) : i = Len(r)
  BY <1>1, RepeatHeld
<1>9. Times("peel", r) = n /\ Times("create", r) = 0
  <2>1. Cardinality(1..n) = n
    BY <1>1, FS_Interval
  <2> QED BY <1>8, <2>1, FS_EmptySet, Zenon DEF Times
<1>10. m_tasks["peel"] \in Nat /\ Times("create", todo) \in Nat
  BY TimesType DEF TypeOK, Special
<1> HIDE DEF n, q, r
<1>11. Held'
  BY <1>2, <1>3, <1>9, <1>10, LooseType DEF Quiet, Held
<1>12. ToBeHeld'
  BY <1>1, <1>2, <1>3, <1>6, <1>7, <1>9, <1>10, LooseType DEF ToBeHeld
<1>13. HeldLast' /\ FlagFirst'
  BY <1>2, <1>8 DEF HeldLast, FlagFirst
<1> QED BY <1>11, <1>12, <1>13 DEF Quiet

\* The constructor or Pause returns when all peels have been pushed and all
\* threads created.
LEMMA QuietReturn ==
  ASSUME TypeOK, Quiet, Return
  PROVE  Quiet'
<1>1. /\ todo \in Seq(Statements) /\ todo # <<>> /\ Head(todo) = "held"
      /\ todo' = Tail(todo) /\ UNCHANGED <<m_flag, m_tasks, stage>>
  BY DEF Return, Statement, TypeOK, ownerRest
<1>2. 1 \in Places("held", todo) /\ Len(todo) \in Nat \ {0}
  BY <1>1 DEF Places
<1>3. Len(todo) = 1
  BY <1>2 DEF Quiet, HeldLast
<1>4. todo' = <<>>
  BY <1>1, <1>3
<1>5. Times("peel", todo) = 0 /\ Times("create", todo) = 0
  BY <1>1, <1>4, TimesTail, TimesNone, Zenon
<1>6. Loose' = Loose /\ m_tasks["peel"] \in Nat
  BY <1>1 DEF Loose, TypeOK, Special
<1>7. m_flag = "PAUSE" /\ m_tasks["peel"] >= Cardinality(Loose)
  BY <1>2, <1>5, <1>6, LooseType DEF Quiet, ToBeHeld
<1>8. Held'
  <2>1. Times("create", todo') = 0
    BY <1>4, TimesNone
  <2> QED BY <1>1, <1>6, <1>7, <2>1, LooseType DEF Held
<1>9. Places("held", todo') = {} /\ Places("measure", todo') = {}
  BY <1>4, TimesNone
<1> QED BY <1>8, <1>9 DEF Quiet, ToBeHeld, HeldLast, FlagFirst

\* The owner's statements.
LEMMA QuietOwner ==
  ASSUME TypeOK, TypeOK', Mourning, Quiet, OwnerStep
  PROVE  Quiet'
<1>0. /\ todo \in Seq(Statements) /\ m_tasks["peel"] \in Nat /\ m_tasks'["peel"] \in Nat
      /\ \A i \in Places("held", todo) : i = Len(todo)
      /\ UNCHANGED m_flag
  BY DEF TypeOK, Special, Quiet, HeldLast, OwnerStep, PushSpecial, CreateThread,
     InsertThread, NotifyAll, Measure, Return, InterruptAngel, JoinAngel,
     InterruptThreads, JoinThreads, ownerRest
<1>1. CASE PushSpecial
  <2>1. PICK s \in Special : /\ Statement(s)
                             /\ m_tasks' = [m_tasks EXCEPT ![s] = @ + 1]
                             /\ todo' = Tail(todo)
                             /\ UNCHANGED <<ownerRest, threadVars, stage, held>>
    BY <1>1 DEF PushSpecial
  <2>2. todo # <<>> /\ Head(todo) = s /\ s \in {"peel", "apple"} /\ Loose' = Loose
    BY <2>1 DEF Statement, Special, Loose
  <2>3. /\ Times("create", todo') = Times("create", todo)
        /\ Times("create", todo) \in Nat /\ Times("peel", todo') \in Nat
        /\ s = "peel" => Times("peel", todo) = Times("peel", todo') + 1
        /\ s # "peel" => Times("peel", todo) = Times("peel", todo')
    BY <1>0, <2>1, <2>2, Advance
  <2>4. /\ s = "peel" => m_tasks'["peel"] = m_tasks["peel"] + 1
        /\ s # "peel" => m_tasks'["peel"] = m_tasks["peel"]
    BY <2>1 DEF TypeOK, Special
  <2>5. /\ m_tasks'["peel"] >= m_tasks["peel"]
        /\ m_tasks'["peel"] + Times("peel", todo') >= m_tasks["peel"] + Times("peel", todo)
    <3>1. CASE s = "peel"
      <4>1. /\ m_tasks'["peel"] = m_tasks["peel"] + 1 /\ m_tasks["peel"] \in Nat
            /\ Times("peel", todo) = Times("peel", todo') + 1 /\ Times("peel", todo') \in Nat
        BY <1>0, <2>3, <2>4, <3>1
      <4> QED BY <4>1
    <3>2. CASE s # "peel" BY <1>0, <2>3, <2>4, <3>2
    <3> QED BY <3>1, <3>2
  <2>6. /\ Cardinality(Loose') \in Nat
        /\ Cardinality(Loose') + Times("create", todo')
              <= Cardinality(Loose) + Times("create", todo)
    BY <2>2, <2>3, LooseType
  <2> QED BY <1>0, <2>1, <2>2, <2>5, <2>6, QuietAdvance
<1>2. CASE CreateThread
  <2>1. PICK w \in Threads : stage[w] = "none" /\ Goto(w, "pop")
    BY <1>2 DEF CreateThread
  <2>2. /\ todo # <<>> /\ Head(todo) = "create" /\ todo' = Before("insert", Tail(todo))
        /\ UNCHANGED <<m_tasks, held>>
    BY <1>2 DEF CreateThread, Statement, Before
  <2>3. Loose' = Loose \cup {w} /\ w \notin Loose
    BY <2>1, TasksAssumption DEF Loose, Goto, TypeOK, Points
  <2>4. Cardinality(Loose') = Cardinality(Loose) + 1
    BY <2>3, LooseType, FS_AddElement
  <2>5. /\ Times("create", todo) = Times("create", todo') + 1
        /\ Times("create", todo') \in Nat
        /\ Times("peel", todo) = Times("peel", todo') /\ Times("peel", todo) \in Nat
    BY <1>0, <2>2, Advance
  <2>6. /\ Cardinality(Loose') \in Nat
        /\ Cardinality(Loose') + Times("create", todo')
              <= Cardinality(Loose) + Times("create", todo)
    BY <2>4, <2>5, LooseType
  <2> QED BY <1>0, <2>2, <2>5, <2>6, QuietAdvance
<1>3. CASE InsertThread \/ NotifyAll \/ InterruptAngel \/ JoinAngel
           \/ InterruptThreads \/ JoinThreads
  <2>1. /\ todo # <<>> /\ Head(todo) \notin {"peel", "create", "apple"}
        /\ todo' = Tail(todo) /\ UNCHANGED <<m_tasks, held>>
    BY <1>3 DEF InsertThread, NotifyAll, InterruptAngel, JoinAngel, InterruptThreads,
       JoinThreads, Statement
  <2>2. Loose' = Loose
    BY <1>3, TasksAssumption DEF InsertThread, NotifyAll, InterruptAngel, JoinAngel,
       InterruptThreads, JoinThreads, Loose, Points, TypeOK
  <2>3. /\ Times("create", todo) = Times("create", todo')
        /\ Times("create", todo) \in Nat
        /\ Times("peel", todo) = Times("peel", todo') /\ Times("peel", todo) \in Nat
    BY <1>0, <2>1, Advance
  <2>4. /\ Cardinality(Loose') \in Nat
        /\ Cardinality(Loose') + Times("create", todo')
              <= Cardinality(Loose) + Times("create", todo)
    BY <2>2, <2>3, LooseType
  <2> QED BY <1>0, <2>1, <2>3, <2>4, QuietAdvance
<1>4. CASE Measure BY <1>4, QuietMeasure
<1>5. CASE Return BY <1>5, QuietReturn
<1> QED BY <1>1, <1>2, <1>3, <1>4, <1>5 DEF OwnerStep

\* A call replaces the empty rest of the one before.
LEMMA QuietCall ==
  ASSUME TypeOK, Quiet, Run \/ Pause \/ Stop \/ \E n \in Sizes : Resize(n)
  PROVE  Quiet'
<1>1. m_tasks' = m_tasks /\ Loose' = Loose /\ m_tasks["peel"] \in Nat
  BY DEF Run, Pause, Stop, Resize, Loose, TypeOK, Special
<1>2. Places("held", todo') = {} /\ (held' => held /\ Times("create", todo') = 0)
  <2>1. CASE Run
    BY <2>1, TimesOne DEF Run
  <2>2. CASE Pause
    BY <2>2, TimesOne DEF Pause, ghostVars
  <2>3. CASE Stop
    BY <2>3 DEF Stop, StopCall, Places
  <2>4. ASSUME NEW n \in Sizes, Resize(n)
        PROVE  Places("held", todo') = {} /\ (held' => held /\ Times("create", todo') = 0)
    <3> DEFINE len == Cardinality(m_threads)
    <3>1. len \in Nat /\ n \in Nat
      BY CountType, CallsAssumption DEF TypeOK
    <3>2. todo' = Change(len, n) /\ held' = (held /\ n <= len)
      BY <2>4 DEF Resize
    <3> HIDE DEF len
    <3>3. CASE n < len
      <4>1. len - n \in Nat /\ todo' = Repeat("apple", len - n)
        BY <3>1, <3>2, <3>3 DEF Change
      <4>2. Times("create", todo') = 0
        BY <4>1, TimesRepeat
      <4>3. Places("held", todo') = {}
        BY <4>1 DEF Places, Repeat
      <4> QED BY <3>2, <4>2, <4>3
    <3>4. CASE ~(n < len)
      <4>1. n - len \in Nat /\ todo' = Repeat("create", n - len)
        BY <3>1, <3>2, <3>4 DEF Change
      <4>2. held' => n - len = 0
        <5>1. held' => n <= len
          BY <3>2, Zenon
        <5> QED BY <3>1, <3>4, <5>1
      <4>3. Times("create", todo') = n - len
        BY <4>1, TimesRepeat
      <4>4. Places("held", todo') = {}
        BY <4>1 DEF Places, Repeat
      <4> QED BY <3>2, <4>2, <4>3, <4>4
    <3> QED BY <3>3, <3>4
  <2> QED BY <2>1, <2>2, <2>3, <2>4
<1>3. /\ held' => m_flag' = "PAUSE"
      /\ Places("measure", todo') # {} => m_flag' = "PAUSE"
  <2>1. CASE Run
    BY <2>1, TimesOne DEF Run
  <2>2. CASE Pause
    BY <2>2 DEF Pause
  <2>3. CASE Stop
    BY <2>3 DEF Stop, StopCall, Places
  <2>4. ASSUME NEW n \in Sizes, Resize(n), ~Run, ~Pause, ~Stop
        PROVE  /\ held' => m_flag' = "PAUSE"
               /\ Places("measure", todo') # {} => m_flag' = "PAUSE"
    <3>1. m_flag' = m_flag /\ (held' => held)
      BY <2>4 DEF Resize
    <3>2. todo' = Change(Cardinality(m_threads), n)
      BY <2>4 DEF Resize
    <3>3. Places("measure", todo') = {}
      BY <3>2 DEF Places, Repeat, Change
    <3> QED BY <3>1, <3>3 DEF Quiet, Held
  <2> QED BY <2>1, <2>2, <2>3, <2>4
<1>4. Held'
  <2>1. held' => m_tasks["peel"] >= Cardinality(Loose)
    <3>1. Times("create", todo) \in Nat
      BY TimesType DEF TypeOK
    <3> QED BY <1>1, <1>2, <3>1, LooseType DEF Quiet, Held
  <2> QED BY <1>1, <1>2, <1>3, <2>1, LooseType DEF Held
<1> QED BY <1>2, <1>3, <1>4 DEF Quiet, ToBeHeld, HeldLast, FlagFirst

\* The constructor pushes as many peels as it creates threads.
LEMMA InitQuiet == Init => Quiet
<1> SUFFICES ASSUME Init PROVE Quiet
  OBVIOUS
<1>1. ThreadCount \in Nat
  BY ThreadsAssumption, FS_CardinalityType
<1>2. /\ Times("peel", todo) = ThreadCount /\ Times("create", todo) = ThreadCount
      /\ Places("measure", todo) = {}
      /\ \A i \in Places("held", todo) : i = Len(todo)
  BY <1>1, ConstructorCounts DEF Init
<1>3. Loose = {}
  BY TasksAssumption DEF Init, Loose, Points
<1>4. Cardinality(Loose) = 0 /\ m_tasks["peel"] = 0
  BY <1>3, FS_EmptySet DEF Init, Special
<1> QED BY <1>1, <1>2, <1>4 DEF Init, Quiet, Held, ToBeHeld, HeldLast, FlagFirst

\* Every step keeps Quiet.
LEMMA QuietStep ==
  ASSUME TypeOK, TypeOK', Mourning, Quiet, [Next]_vars
  PROVE  Quiet'
<1>1. CASE UNCHANGED vars
  BY <1>1 DEF vars, ghostVars, Quiet, Held, ToBeHeld, HeldLast, FlagFirst, Loose
<1> QED BY <1>1, QuietWorker, QuietOther, QuietOwner, QuietCall DEF Next

\* Quiet is an invariant.
LEMMA AlwaysQuiet == SafeSpec => []Quiet
<1>1. Init => Quiet BY InitQuiet
<1>2. TypeOK /\ TypeOK' /\ Mourning /\ Quiet /\ [Next]_vars => Quiet' BY QuietStep
<1> QED BY <1>1, <1>2, TypeCorrect, AlwaysMourning, PTL DEF SafeSpec

\* While the pool is held, there is a peel in front of the user's tasks for
\* every worker that comes to the queue.
LEMMA PeelInFront ==
  ASSUME TypeOK, TypeOK', Quiet, held, NEW w \in Threads, stage[w] = "pop", [Next]_vars
  PROVE  stage'[w] \notin Tasks
<1> SUFFICES ASSUME stage'[w] \in Tasks PROVE FALSE
  OBVIOUS
<1> USE TasksAssumption DEF Points, Special
<1>1. PICK v \in Threads : WorkerStep(v) \/ SpuriousWakeup(v)
  <2>1. stage'[w] # stage[w] /\ stage'[w] # "check" /\ stage'[w] # "pop"
    OBVIOUS
  <2> QED BY <2>1 DEF Next, vars, AngelStep, AngelTop, AngelPop, AngelFind, AngelKill,
       AngelJoin, AngelErase, AngelDie, angelRest, OwnerStep, PushSpecial, CreateThread,
       InsertThread, NotifyAll, Measure, Return, InterruptAngel, JoinAngel,
       InterruptThreads, JoinThreads, Add, Run, Pause, Stop, Resize, Goto, TypeOK
<1>2. PopTask(w)
  BY <1>1 DEF WorkerStep, SpuriousWakeup, PopTask, EndTask, Check, FallAsleep, EatApple,
     Die, Goto, TypeOK
<1>3. PICK t \in Front :
        Goto(w, IF w \in interrupted THEN "ended"
                ELSE CASE t = "peel"  -> "check"
                       [] t = "apple" -> "eat"
                       [] OTHER       -> t)
  BY <1>2 DEF PopTask
<1>4. t \in Tasks
  BY <1>3 DEF Goto, TypeOK, Front, Queued
<1>5. "peel" \in Queued
  <2>1. w \in Loose
    BY DEF Loose
  <2>2. Cardinality(Loose) > 0
    BY <2>1, LooseType, FS_EmptySet
  <2>3. m_tasks["peel"] \in Nat /\ Times("create", todo) \in Nat
    BY TimesType DEF TypeOK
  <2>4. m_tasks["peel"] > 0
    BY <2>2, <2>3, LooseType DEF Quiet, Held
  <2> QED BY <2>4 DEF Queued
<1>6. Prio("peel") = 4 /\ Prio(t) = Priority[t] /\ Priority[t] \in 1..3
  BY <1>4, PriorityAssumption DEF Prio
<1> QED BY <1>3, <1>5, <1>6 DEF Front

\* A paused pool is paused: once the constructor or Pause has returned, no
\* worker takes a user's task until Run, Stop or a Resize that adds threads,
\* for any number of threads and tasks and any priorities below CRITICAL.
THEOREM PausedPoolIsQuiet == SafeSpec => PauseHolds
<1>1. TypeOK /\ TypeOK' /\ Quiet /\ [Next]_vars
        => [held => \A w \in Threads : stage[w] = "pop" => stage'[w] \notin Tasks]_vars
  BY PeelInFront
<1> QED BY <1>1, TypeCorrect, AlwaysQuiet, PTL DEF SafeSpec, PauseHolds

------------------------------------------------------------------------------
(* The size of the pool. *)

\* The listed threads that have taken an apple.
Sentenced == {w \in Listed : stage[w] \in {"eat", "sleep", "ended"}}

\* Every thread is created before it is listed.
Born == \A w \in Listed : stage[w] # "none"

\* Until Stop only those are interrupted that the angel was told of.
Spared ==
  m_flag # "STOP" => \A w \in Threads \cap interrupted : stage[w] \in {"sleep", "ended"}

\* The listed threads and those to come are the ones asked for and those for
\* whom there is an apple: to be pushed, queued or taken.
Balanced ==
  (~hasty /\ m_flag # "STOP") =>
     Cardinality(Listed) + Times("create", todo)
        = size + Times("apple", todo) + m_tasks["apple"] + Cardinality(Sentenced)

\* Pause reads the number of threads before it does anything else.
MeasureAlone == Places("measure", todo) # {} => todo = <<"measure">>

\* The inductive invariant behind PoolSize.
Sized == Born /\ Spared /\ Balanced /\ MeasureAlone

\* Threads can be counted.
LEMMA ListedType ==
  ASSUME TypeOK
  PROVE  /\ Listed \subseteq Threads /\ IsFiniteSet(Listed) /\ Cardinality(Listed) \in Nat
         /\ IsFiniteSet(Sentenced) /\ Cardinality(Sentenced) \in Nat
<1>1. Listed \subseteq Threads /\ Sentenced \subseteq Threads
  BY DEF TypeOK, Listed, Sentenced
<1> QED BY <1>1, CountType

\* So can statements and apples.
LEMMA CountsType ==
  ASSUME TypeOK
  PROVE  /\ Times("create", todo) \in Nat /\ Times("apple", todo) \in Nat
         /\ m_tasks["apple"] \in Nat /\ size \in Nat
BY TimesType DEF TypeOK, Special

\* A worker moves on and is sentenced as before, or takes an apple.
LEMMA SizedMove ==
  ASSUME TypeOK, Sized, NEW w \in Listed, NEW s, Goto(w, s), s # "none",
         m_flag # "STOP" =>
            /\ w \in interrupted => s \in {"sleep", "ended"}
            /\ \/ /\ s \in {"eat", "sleep", "ended"} <=> w \in Sentenced
                  /\ m_tasks'["apple"] = m_tasks["apple"]
               \/ /\ s \in {"eat", "sleep", "ended"} /\ w \notin Sentenced
                  /\ m_tasks'["apple"] = m_tasks["apple"] - 1,
         UNCHANGED <<interrupted, workerVars>>
  PROVE  Sized'
<1>1. /\ UNCHANGED <<interrupted, m_threads, m_flag, fresh, todo, hasty, size>>
      /\ Listed' = Listed /\ w \in Threads
  BY DEF workerVars, ghostVars, Listed, TypeOK
<1>2. stage' \in [Threads -> {s} \cup Points \cup Tasks]
      /\ \A v \in Threads : stage'[v] = IF v = w THEN s ELSE stage[v]
  BY <1>1 DEF Goto, TypeOK
<1>3. Born'
  BY <1>1, <1>2, ListedType DEF Sized, Born
<1>4. Spared'
  BY <1>1, <1>2 DEF Sized, Spared
<1>5. Balanced'
  <2> SUFFICES ASSUME ~hasty, m_flag # "STOP"
               PROVE  Cardinality(Listed) + Times("create", todo)
                        = size + Times("apple", todo) + m_tasks'["apple"]
                               + Cardinality(Sentenced')
    BY <1>1 DEF Balanced
  <2>1. Cardinality(Listed) + Times("create", todo)
          = size + Times("apple", todo) + m_tasks["apple"] + Cardinality(Sentenced)
    BY DEF Sized, Balanced
  <2>2. CASE (s \in {"eat", "sleep", "ended"} <=> w \in Sentenced)
             /\ m_tasks'["apple"] = m_tasks["apple"]
    <3>1. Sentenced' = Sentenced
      BY <1>1, <1>2, <2>2, ListedType DEF Sentenced
    <3> QED BY <2>1, <2>2, <3>1
  <2>3. CASE s \in {"eat", "sleep", "ended"} /\ w \notin Sentenced
             /\ m_tasks'["apple"] = m_tasks["apple"] - 1
    <3>1. Sentenced' = Sentenced \cup {w}
      BY <1>1, <1>2, <2>3, ListedType DEF Sentenced
    <3>2. Cardinality(Sentenced') = Cardinality(Sentenced) + 1
      BY <2>3, <3>1, ListedType, FS_AddElement
    <3>3. /\ Cardinality(Listed) \in Nat /\ Cardinality(Sentenced) \in Nat
          /\ Times("create", todo) \in Nat /\ Times("apple", todo) \in Nat
          /\ m_tasks["apple"] \in Nat /\ size \in Nat
      BY ListedType, CountsType
    <3>4. m_tasks'["apple"] + Cardinality(Sentenced') = m_tasks["apple"] + Cardinality(Sentenced)
      BY <2>3, <3>2, <3>3
    <3>5. m_tasks'["apple"] \in Int /\ Cardinality(Sentenced') \in Int
      BY <2>3, <3>2, <3>3
    <3> QED BY <2>1, <3>3, <3>4, <3>5
  <2> QED BY <2>2, <2>3
<1>6. MeasureAlone'
  BY <1>1 DEF Sized, MeasureAlone
<1> QED BY <1>3, <1>4, <1>5, <1>6 DEF Sized

\* The workers: only an apple sentences, and until Stop only the sentenced
\* are interrupted and die.
LEMMA SizedWorker ==
  ASSUME TypeOK, Mourning, Sized, NEW w \in Threads, WorkerStep(w) \/ SpuriousWakeup(w)
  PROVE  Sized'
<1> USE TasksAssumption DEF Points, Special
<1>1. w \in Listed
  BY DEF WorkerStep, SpuriousWakeup, PopTask, EndTask, Check, FallAsleep, EatApple, Die,
     Mourning, AliveListed
<1>2. m_flag # "STOP" /\ w \in interrupted => stage[w] \in {"sleep", "ended"}
  BY DEF Sized, Spared
<1>3. w \in Sentenced <=> stage[w] \in {"eat", "sleep", "ended"}
  BY <1>1 DEF Sentenced
<1>4. CASE PopTask(w)
  <2>1. PICK t \in Front :
          /\ m_tasks' = [m_tasks EXCEPT ![t] = @ - 1]
          /\ Goto(w, IF w \in interrupted THEN "ended"
                     ELSE CASE t = "peel"  -> "check"
                            [] t = "apple" -> "eat"
                            [] OTHER       -> t)
    BY <1>4 DEF PopTask
  <2> DEFINE s == IF w \in interrupted THEN "ended"
                  ELSE CASE t = "peel"  -> "check"
                         [] t = "apple" -> "eat"
                         [] OTHER       -> t
  <2>2. t \in Tasks \cup Special /\ w \notin Sentenced
    BY <1>3, <1>4 DEF Front, Queued, PopTask
  <2>3. Goto(w, s) /\ s # "none"
    BY <2>1, <2>2
  <2>4. /\ t = "apple" => m_tasks'["apple"] = m_tasks["apple"] - 1
        /\ t # "apple" => m_tasks'["apple"] = m_tasks["apple"]
    BY <2>1 DEF TypeOK
  <2>5. m_flag # "STOP" =>
          /\ w \notin interrupted
          /\ t = "apple" => s = "eat"
          /\ t # "apple" => s \notin {"eat", "sleep", "ended"}
    BY <1>2, <1>4, <2>2 DEF PopTask
  <2> HIDE DEF s
  <2> QED BY <1>1, <1>4, <2>2, <2>3, <2>4, <2>5, SizedMove DEF PopTask
<1>5. CASE EndTask(w) BY <1>1, <1>2, <1>3, <1>5, SizedMove DEF EndTask
<1>6. CASE Check(w) BY <1>1, <1>2, <1>3, <1>6, SizedMove DEF Check
<1>7. CASE FallAsleep(w) BY <1>1, <1>2, <1>3, <1>7, SizedMove DEF FallAsleep
<1>8. CASE EatApple(w) BY <1>1, <1>2, <1>3, <1>8, SizedMove DEF EatApple
<1>9. CASE Die(w) BY <1>1, <1>2, <1>3, <1>9, SizedMove DEF Die
<1>10. CASE SpuriousWakeup(w) BY <1>1, <1>2, <1>3, <1>10, SizedMove DEF SpuriousWakeup
<1> QED BY <1>4, <1>5, <1>6, <1>7, <1>8, <1>9, <1>10 DEF WorkerStep

\* The angel interrupts who has announced itself, and what it erases from the
\* map was sentenced.
LEMMA SizedAngel ==
  ASSUME TypeOK, Mourning, Sized, AngelStep
  PROVE  Sized'
<1>1. UNCHANGED <<m_flag, m_tasks, fresh, stage, todo, hasty, size>>
  BY DEF AngelStep, AngelTop, AngelPop, AngelFind, AngelKill, AngelJoin, AngelErase,
     AngelDie, angelRest, ghostVars
<1>2. MeasureAlone'
  BY <1>1 DEF Sized, MeasureAlone
<1>3. CASE AngelErase
  <2>1. /\ Listed' = Listed \ {angel.id} /\ angel.id \in Listed
        /\ stage[angel.id] = "ended" /\ interrupted' = interrupted
    BY <1>3 DEF AngelErase, angelRest, Listed, Mourning, VictimListed, Busy
  <2>2. Sentenced' = Sentenced \ {angel.id} /\ angel.id \in Sentenced
    BY <1>1, <2>1 DEF Sentenced
  <2>3. /\ Cardinality(Listed') = Cardinality(Listed) - 1
        /\ Cardinality(Sentenced') = Cardinality(Sentenced) - 1
    BY <2>1, <2>2, ListedType, FS_RemoveElement
  <2>4. Born' /\ Spared'
    BY <1>1, <2>1 DEF Sized, Born, Spared
  <2>5. Balanced'
    <3>1. /\ Cardinality(Listed) \in Nat /\ Cardinality(Sentenced) \in Nat
          /\ Times("create", todo) \in Nat /\ Times("apple", todo) \in Nat
          /\ m_tasks["apple"] \in Nat /\ size \in Nat
      BY ListedType, CountsType
    <3> QED BY <1>1, <2>3, <3>1 DEF Sized, Balanced
  <2> QED BY <1>2, <2>4, <2>5 DEF Sized
<1>4. CASE ~AngelErase
  <2>1. Listed' = Listed
    BY <1>4 DEF AngelStep, AngelTop, AngelPop, AngelFind, AngelKill, AngelJoin, AngelDie,
       angelRest, Listed
  <2>2. Sentenced' = Sentenced
    BY <1>1, <2>1 DEF Sentenced
  <2>3. \A w \in Threads \cap interrupted' :
           w \in interrupted \/ stage[w] \in {"sleep", "ended"}
    BY <1>4 DEF AngelStep, AngelTop, AngelPop, AngelFind, AngelKill, AngelJoin, AngelDie,
       Mourning, VictimListed, Busy, Dying
  <2>4. Born' /\ Spared'
    BY <1>1, <2>1, <2>3 DEF Sized, Born, Spared
  <2>5. Balanced'
    BY <1>1, <2>1, <2>2 DEF Sized, Balanced
  <2> QED BY <1>2, <2>4, <2>5 DEF Sized
<1> QED BY <1>3, <1>4

\* The owner executes a statement: what is pushed, or created, was still to
\* be pushed, or created.
LEMMA SizedAdvance ==
  ASSUME TypeOK, Sized, todo # <<>>, Head(todo) # "measure",
         todo' = Tail(todo) \/ todo' = Before("insert", Tail(todo)), HeldLast,
         UNCHANGED <<m_flag, hasty, size>>,
         Born', Spared',
         m_tasks'["apple"] \in Nat,
         Cardinality(Listed') \in Nat, Cardinality(Sentenced') = Cardinality(Sentenced),
         m_tasks'["apple"] + Times("apple", todo') = m_tasks["apple"] + Times("apple", todo),
         Cardinality(Listed') + Times("create", todo')
            = Cardinality(Listed) + Times("create", todo)
  PROVE  Sized'
<1> DEFINE r == todo'
<1>1. /\ todo \in Seq(Statements)
      /\ \A i \in Places("held", todo) : i = Len(todo)
  BY DEF TypeOK, HeldLast
<1>2. /\ \A s \in {"peel", "create", "apple"} : Times(s, r) \in Nat
      /\ \A s \in {"held", "measure"} : Places(s, r) # {} => Places(s, todo) # {}
  BY <1>1, Advance
<1>3. Balanced'
  <2>1. /\ Cardinality(Listed) \in Nat /\ Cardinality(Sentenced) \in Nat
        /\ Times("create", todo) \in Nat /\ Times("apple", todo) \in Nat
        /\ Times("create", todo') \in Nat /\ Times("apple", todo') \in Nat
        /\ m_tasks["apple"] \in Nat /\ size \in Nat
    BY <1>2, ListedType, CountsType
  <2> SUFFICES ASSUME ~hasty, m_flag # "STOP"
               PROVE  Cardinality(Listed') + Times("create", todo')
                        = size + Times("apple", todo') + m_tasks'["apple"]
                               + Cardinality(Sentenced')
    BY DEF Balanced
  <2>2. Cardinality(Listed) + Times("create", todo)
          = size + Times("apple", todo) + m_tasks["apple"] + Cardinality(Sentenced)
    BY DEF Sized, Balanced
  <2> DEFINE l == Cardinality(Listed) + Times("create", todo)
             l1 == Cardinality(Listed') + Times("create", todo')
             a == Times("apple", todo)   a1 == Times("apple", todo')
             t == m_tasks["apple"]       t1 == m_tasks'["apple"]
             n == Cardinality(Sentenced) n1 == Cardinality(Sentenced')
  <2>3. /\ l1 = l /\ t1 + a1 = t + a /\ n1 = n /\ l = size + a + t + n
        /\ a \in Nat /\ a1 \in Nat /\ t \in Nat /\ t1 \in Nat /\ n \in Nat /\ size \in Nat
    BY <2>1, <2>2
  <2> HIDE DEF l, l1, a, a1, t, t1, n, n1
  <2>4. l1 = size + a1 + t1 + n1
    BY <2>3
  <2> QED BY <2>4 DEF l1, a1, t1, n1
<1>4. MeasureAlone'
  <2>1. Places("measure", todo) = {}
    <3> SUFFICES ASSUME todo = <<"measure">> PROVE FALSE
      BY DEF Sized, MeasureAlone
    <3> QED OBVIOUS
  <2> QED BY <1>2, <2>1 DEF MeasureAlone
<1> QED BY <1>3, <1>4 DEF Sized

\* The owner's statements.
LEMMA SizedOwner ==
  ASSUME TypeOK, TypeOK', Mourning, Stopping, Quiet, Sized, OwnerStep
  PROVE  Sized'
<1>0. /\ todo \in Seq(Statements) /\ m_tasks["apple"] \in Nat /\ m_tasks'["apple"] \in Nat
      /\ \A i \in Places("held", todo) : i = Len(todo)
      /\ HeldLast /\ UNCHANGED <<m_flag, hasty, size>> /\ todo # <<>>
  BY DEF TypeOK, Special, Quiet, HeldLast, OwnerStep, PushSpecial, CreateThread,
     InsertThread, NotifyAll, Measure, Return, InterruptAngel, JoinAngel,
     InterruptThreads, JoinThreads, ownerRest, Statement
<1>1. CASE PushSpecial
  <2>1. PICK s \in Special : /\ Statement(s)
                             /\ m_tasks' = [m_tasks EXCEPT ![s] = @ + 1]
                             /\ todo' = Tail(todo)
                             /\ UNCHANGED <<ownerRest, threadVars, stage, held>>
    BY <1>1 DEF PushSpecial
  <2>2. Head(todo) = s /\ s \in {"peel", "apple"} /\ Listed' = Listed /\ Sentenced' = Sentenced
    BY <2>1 DEF Statement, Special, threadVars, Listed, Sentenced
  <2>3. /\ Times("create", todo') = Times("create", todo)
        /\ Times("apple", todo') \in Nat
        /\ s = "apple" => Times("apple", todo) = Times("apple", todo') + 1
        /\ s # "apple" => Times("apple", todo) = Times("apple", todo')
    BY <1>0, <2>1, <2>2, Advance
  <2>4. /\ s = "apple" => m_tasks'["apple"] = m_tasks["apple"] + 1
        /\ s # "apple" => m_tasks'["apple"] = m_tasks["apple"]
    BY <2>1 DEF TypeOK, Special
  <2>5. m_tasks'["apple"] + Times("apple", todo') = m_tasks["apple"] + Times("apple", todo)
    BY <1>0, <2>3, <2>4
  <2>6. Born' /\ Spared'
    BY <1>0, <2>1, <2>2 DEF Sized, Born, Spared, threadVars
  <2>7. Cardinality(Listed') \in Nat
    BY <2>2, ListedType
  <2> QED BY <1>0, <2>1, <2>2, <2>3, <2>5, <2>6, <2>7, SizedAdvance
<1>2. CASE CreateThread
  <2>1. PICK w \in Threads : stage[w] = "none" /\ Goto(w, "pop") /\ fresh' = {w}
    BY <1>2 DEF CreateThread
  <2>2. /\ Head(todo) = "create" /\ todo' = Before("insert", Tail(todo))
        /\ UNCHANGED <<m_tasks, m_threads, interrupted>>
    BY <1>2 DEF CreateThread, Statement, Before
  <2>3. fresh = {}
    BY <1>2 DEF CreateThread, Mourning, FreshInserted, Statement
  <2>4. Listed' = Listed \cup {w} /\ w \notin Listed
    BY <2>1, <2>2, <2>3 DEF Listed, Sized, Born
  <2>5. \A v \in Threads : stage'[v] = IF v = w THEN "pop" ELSE stage[v]
    BY <2>1 DEF Goto, TypeOK
  <2>6. Sentenced' = Sentenced
    BY <2>4, <2>5, ListedType DEF Sentenced
  <2>7. Cardinality(Listed') = Cardinality(Listed) + 1
    BY <2>4, ListedType, FS_AddElement
  <2>8. /\ Times("create", todo) = Times("create", todo') + 1
        /\ Times("create", todo') \in Nat
        /\ Times("apple", todo) = Times("apple", todo')
    BY <1>0, <2>2, Advance
  <2>9. /\ Cardinality(Listed') \in Nat
        /\ Cardinality(Listed') + Times("create", todo')
              = Cardinality(Listed) + Times("create", todo)
    BY <2>7, <2>8, ListedType
  <2>10. Born'
    BY <2>4, <2>5, ListedType DEF Sized, Born
  <2>11. Spared'
    BY <1>0, <2>1, <2>2, <2>5 DEF Sized, Spared
  <2> QED BY <1>0, <2>2, <2>6, <2>8, <2>9, <2>10, <2>11, SizedAdvance
<1>3. CASE InsertThread \/ NotifyAll \/ Return \/ InterruptAngel \/ JoinAngel
           \/ InterruptThreads \/ JoinThreads
  <2>1. /\ Head(todo) \notin {"peel", "create", "apple", "measure"}
        /\ todo' = Tail(todo) /\ UNCHANGED m_tasks
    BY <1>3 DEF InsertThread, NotifyAll, Return, InterruptAngel, JoinAngel,
       InterruptThreads, JoinThreads, Statement
  <2>2. Listed' = Listed
    BY <1>3 DEF InsertThread, NotifyAll, Return, InterruptAngel, JoinAngel,
       InterruptThreads, JoinThreads, Listed, threadVars
  <2>3. \A w \in Threads :
          /\ stage'[w] = "none" => stage[w] = "none"
          /\ stage'[w] \in {"eat", "sleep", "ended"} <=> stage[w] \in {"eat", "sleep", "ended"}
          /\ stage[w] \in {"sleep", "ended"} => stage'[w] \in {"sleep", "ended"}
    BY <1>3 DEF InsertThread, NotifyAll, Return, InterruptAngel, JoinAngel,
       InterruptThreads, JoinThreads
  <2>4. Sentenced' = Sentenced
    BY <2>2, <2>3, ListedType DEF Sentenced
  <2>5. Born'
    BY <2>2, <2>3, ListedType DEF Sized, Born
  <2>6. Spared'
    <3>1. CASE InterruptThreads
      <4>1. m_flag = "STOP"
        BY <3>1, CallsApart DEF InterruptThreads, Statement, Stopping, CallStatements
      <4> QED BY <1>0, <4>1 DEF Spared
    <3>2. CASE ~InterruptThreads
      <4>1. Threads \cap interrupted' = Threads \cap interrupted
        BY <1>3, <3>2, ThreadsAssumption DEF InsertThread, NotifyAll, Return,
           InterruptAngel, JoinAngel, JoinThreads, threadVars
      <4> QED BY <1>0, <2>3, <4>1 DEF Sized, Spared
    <3> QED BY <3>1, <3>2
  <2>7. /\ Times("create", todo) = Times("create", todo')
        /\ Times("apple", todo) = Times("apple", todo')
    BY <1>0, <2>1, Advance
  <2>8. Cardinality(Listed') \in Nat
    BY <2>2, ListedType
  <2> QED BY <1>0, <2>1, <2>2, <2>4, <2>5, <2>6, <2>7, <2>8, SizedAdvance
<1>4. CASE Measure
  <2> DEFINE n == Cardinality(m_threads)
             r == Repeat("peel", n) \o <<"held">>
  <2>1. /\ todo' = r
        /\ UNCHANGED <<m_tasks, m_threads, fresh, stage, interrupted>>
    BY <1>4 DEF Measure, threadVars
  <2>2. Listed' = Listed /\ Sentenced' = Sentenced
    BY <2>1 DEF Listed, Sentenced
  <2>3. Born' /\ Spared'
    BY <1>0, <2>1, <2>2 DEF Sized, Born, Spared
  <2>4. n \in Nat
    BY CountType DEF TypeOK
  <2>5. /\ Places("create", r) = {} /\ Places("apple", r) = {} /\ Places("measure", r) = {}
    BY <2>4, RepeatHeld
  <2>6. todo = <<"measure">>
    <3>1. 1 \in Places("measure", todo)
      BY <1>0, <1>4 DEF Measure, Statement, Places
    <3> QED BY <3>1 DEF Sized, MeasureAlone
  <2>7. /\ Times("create", todo') = 0 /\ Times("apple", todo') = 0
        /\ Times("create", todo) = 0 /\ Times("apple", todo) = 0
    BY <2>1, <2>5, <2>6, TimesOne, FS_EmptySet, Zenon DEF Times
  <2>8. Balanced'
    BY <1>0, <2>1, <2>2, <2>7 DEF Sized, Balanced
  <2>9. MeasureAlone'
    BY <2>1, <2>5 DEF MeasureAlone
  <2> QED BY <2>3, <2>8, <2>9 DEF Sized
<1> QED BY <1>1, <1>2, <1>3, <1>4 DEF OwnerStep

\* A task of the user's is neither a thread nor an apple.
LEMMA SizedAdd ==
  ASSUME TypeOK, Sized, NEW t \in Tasks, Add(t)
  PROVE  Sized'
<1>1. UNCHANGED <<m_flag, m_threads, fresh, stage, interrupted, todo, hasty, size>>
  BY DEF Add, threadVars, ghostVars
<1>2. m_tasks'["apple"] = m_tasks["apple"]
  <2>1. t # "apple"
    BY TasksAssumption DEF Special
  <2> QED BY <2>1 DEF Add, TypeOK, Special
<1>3. Listed' = Listed /\ Sentenced' = Sentenced
  BY <1>1 DEF Listed, Sentenced
<1> QED BY <1>1, <1>2, <1>3 DEF Sized, Born, Spared, Balanced, MeasureAlone

\* A call.  Resize counts the threads when all that were sentenced before
\* are gone, or else it is hasty.
LEMMA SizedCall ==
  ASSUME TypeOK, Mourning, Stopping, Sized,
         Run \/ Pause \/ Stop \/ \E n \in Sizes : Resize(n)
  PROVE  Sized'
<1>1. todo = <<>> /\ UNCHANGED <<m_tasks, m_threads, fresh, stage, interrupted>>
  BY DEF Run, Pause, Stop, Resize, Call, threadVars
<1>2. m_flag # "STOP" /\ fresh = {}
  BY <1>1 DEF Stopping, StopCall, AfterAngel, Mourning, FreshInserted, Statement
<1>3. Listed' = Listed /\ Sentenced' = Sentenced /\ Listed = m_threads
  BY <1>1, <1>2 DEF Listed, Sentenced
<1>4. Times("create", todo) = 0 /\ Times("apple", todo) = 0
  BY <1>1, TimesNone
<1>5. Born' /\ Spared'
  BY <1>1, <1>2, <1>3 DEF Sized, Born, Spared
<1>6. CASE Run \/ Pause
  <2>1. /\ todo' = <<"notify">> \/ todo' = <<"measure">>
        /\ size' = size /\ (~hasty' => ~hasty)
    <3>1. todo' = <<"notify">> \/ todo' = <<"measure">>
      BY <1>6 DEF Run, Pause
    <3>2. size' = size
      BY <1>6 DEF Run, Pause, ghostVars
    <3>3. ~hasty' => ~hasty
      BY <1>6, Zenon DEF Run, Pause, ghostVars
    <3> QED BY <3>1, <3>2, <3>3
  <2>2. Times("create", todo') = 0 /\ Times("apple", todo') = 0
    BY <2>1, TimesOne
  <2>3. Balanced'
    BY <1>1, <1>2, <1>3, <1>4, <2>1, <2>2 DEF Sized, Balanced
  <2>4. MeasureAlone'
    BY <2>1, TimesOne DEF MeasureAlone
  <2> QED BY <1>5, <2>3, <2>4 DEF Sized
<1>7. CASE Stop
  <2>1. Places("measure", todo') = {} /\ m_flag' = "STOP"
    BY <1>7 DEF Stop, StopCall, Places
  <2> QED BY <1>5, <2>1 DEF Sized, Balanced, MeasureAlone
<1>8. ASSUME NEW n \in Sizes, Resize(n) PROVE Sized'
  <2> DEFINE len == Cardinality(m_threads)
  <2>1. len \in Nat /\ n \in Nat
    BY CountType, CallsAssumption DEF TypeOK
  <2>2. /\ todo' = Change(len, n) /\ size' = n /\ m_flag' = m_flag
        /\ ~hasty' => NoApples
    BY <1>8 DEF Resize
  <2>3. Places("measure", todo') = {}
    BY <2>2 DEF Places, Repeat, Change
  <2>4. ~hasty' => m_tasks["apple"] = 0 /\ Sentenced = {}
    BY <1>3, <2>2 DEF NoApples, Sentenced
  <2>5. ~hasty' => Cardinality(Sentenced) = 0
    BY <2>4, FS_EmptySet
  <2>6. len + Times("create", todo') = n + Times("apple", todo')
    <3> HIDE DEF len
    <3>1. CASE n < len
      <4>1. len - n \in Nat /\ todo' = Repeat("apple", len - n)
        BY <2>1, <2>2, <3>1 DEF Change
      <4>2. Times("create", todo') = 0 /\ Times("apple", todo') = len - n
        BY <4>1, TimesRepeat
      <4> QED BY <2>1, <4>1, <4>2
    <3>2. CASE ~(n < len)
      <4>1. n - len \in Nat /\ todo' = Repeat("create", n - len)
        BY <2>1, <2>2, <3>2 DEF Change
      <4>2. Times("create", todo') = n - len /\ Times("apple", todo') = 0
        BY <4>1, TimesRepeat
      <4> QED BY <2>1, <4>1, <4>2
    <3> QED BY <3>1, <3>2
  <2>7. Times("apple", todo') \in Nat
    <3>1. todo' \in Seq(Statements)
      BY <2>1, <2>2, ChangeType
    <3> QED BY <3>1, TimesType
  <2>8. Balanced'
    <3> SUFFICES ASSUME ~hasty'
                 PROVE  Cardinality(Listed') + Times("create", todo')
                          = size' + Times("apple", todo') + m_tasks'["apple"]
                                  + Cardinality(Sentenced')
      BY DEF Balanced
    <3>1. /\ Cardinality(Listed') = len /\ size' = n
          /\ m_tasks'["apple"] = 0 /\ Cardinality(Sentenced') = 0
      BY <1>1, <1>3, <2>2, <2>4, <2>5
    <3> HIDE DEF len
    <3> QED BY <2>1, <2>6, <2>7, <3>1
  <2> QED BY <1>5, <2>3, <2>8 DEF Sized, MeasureAlone
<1> QED BY <1>6, <1>7, <1>8

\* The constructor is asked for as many threads as it will create.
LEMMA InitSized == Init => Sized
<1> SUFFICES ASSUME Init PROVE Sized
  OBVIOUS
<1>1. ThreadCount \in Nat
  BY ThreadsAssumption, FS_CardinalityType
<1>2. /\ Times("create", todo) = ThreadCount /\ Times("apple", todo) = 0
      /\ Places("measure", todo) = {}
  BY <1>1, ConstructorCounts DEF Init
<1>3. Listed = {} /\ Sentenced = {}
  BY DEF Init, Listed, Sentenced
<1>4. Cardinality(Listed) = 0 /\ Cardinality(Sentenced) = 0 /\ m_tasks["apple"] = 0
  BY <1>3, FS_EmptySet DEF Init, Special
<1>5. Born /\ Spared /\ MeasureAlone
  BY <1>2, <1>3 DEF Init, Born, Spared, MeasureAlone
<1>6. Balanced
  BY <1>1, <1>2, <1>4 DEF Init, Balanced
<1> QED BY <1>5, <1>6 DEF Sized

\* Every step keeps Sized.
LEMMA SizedStep ==
  ASSUME TypeOK, TypeOK', Mourning, Stopping, Quiet, Sized, [Next]_vars
  PROVE  Sized'
<1>1. CASE UNCHANGED vars
  BY <1>1 DEF vars, ghostVars, Sized, Born, Spared, Balanced, MeasureAlone, Listed, Sentenced
<1> QED BY <1>1, SizedWorker, SizedAngel, SizedOwner, SizedAdd, SizedCall DEF Next

\* When a call has been carried out and the sentenced are gone, the pool has
\* the size asked for, unless some call was hasty.
LEMMA SizedGivesSize ==
  ASSUME TypeOK, Mourning, Stopping, Sized
  PROVE  PoolSize
<1> SUFFICES ASSUME ~hasty, todo = <<>>, NoApples PROVE Cardinality(m_threads) = size
  BY DEF PoolSize
<1>1. m_flag # "STOP" /\ fresh = {}
  BY DEF Stopping, StopCall, AfterAngel, Mourning, FreshInserted, Statement
<1>2. Listed = m_threads /\ Sentenced = {} /\ m_tasks["apple"] = 0
  BY <1>1 DEF Listed, Sentenced, NoApples
<1>3. Times("create", todo) = 0 /\ Times("apple", todo) = 0 /\ Cardinality(Sentenced) = 0
  BY <1>2, TimesNone, FS_EmptySet
<1>4. Cardinality(m_threads) \in Nat /\ size \in Nat
  BY <1>2, ListedType, CountsType
<1> QED BY <1>1, <1>2, <1>3, <1>4 DEF Sized, Balanced

\* The pool ends up with the number of threads that the constructor or the
\* last Resize was given, for any number of threads, tasks and calls and
\* whatever workers, angel and owner do in between, if no call was hasty.
THEOREM PoolKeepsItsSize == SafeSpec => []PoolSize
<1>1. Init => Sized BY InitSized
<1>2. TypeOK /\ TypeOK' /\ Mourning /\ Stopping /\ Quiet /\ Sized /\ [Next]_vars => Sized'
  BY SizedStep
<1>3. TypeOK /\ Mourning /\ Stopping /\ Sized => PoolSize
  BY SizedGivesSize
<1> QED BY <1>1, <1>2, <1>3, TypeCorrect, AlwaysMourning, AlwaysStopping, AlwaysQuiet, PTL
        DEF SafeSpec
==============================================================================
