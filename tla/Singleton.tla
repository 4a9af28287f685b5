----------------------------- MODULE Singleton ------------------------------
(***************************************************************************)
(* Singleton<T>: double-checked construction on first use, destruction at  *)
(* exit.  Threads execute lists of statements; a statement that needs the  *)
(* instance of a class is <<"get", c>>, and the constructor's statements   *)
(* take its place if there is no instance yet.                             *)
(***************************************************************************)
EXTENDS Naturals, Sequences, FiniteSets

CONSTANTS Threads,
          Classes,      \* the classes that have a Singleton
          NoThread      \* nobody holds the mutex

ASSUME SingletonAssumption == IsFiniteSet(Threads) /\ NoThread \notin Threads

VARIABLES todo,         \* todo[t]: the statements thread t has to execute
          m_instance,   \* the classes whose m_instance is not NULL
          m_mutex,      \* m_mutex[c]: who is inside c's critical section
          exitFuncs,    \* the ExitFuncs given to atexit, in order
          objects       \* the objects that exist, members of others too

singletonVars == <<todo, m_instance, m_mutex, exitFuncs, objects>>

SingletonInit(statements) ==
    /\ todo = statements
    /\ m_instance = {}
    /\ m_mutex = [c \in Classes |-> NoThread]
    /\ exitFuncs = <<>>
    /\ objects = {}

\* The same for a process that is started again.
SingletonReset(statements) ==
    /\ todo' = statements
    /\ m_instance' = {}
    /\ m_mutex' = [c \in Classes |-> NoThread]
    /\ exitFuncs' = <<>>
    /\ objects' = {}

\* Thread t has come to the statement <<s, x>>.
At(t, s, x) == todo[t] # <<>> /\ Head(todo[t]) = <<s, x>>

\* It executes that statement, and has these to execute before the rest.
Then(t, statements) == todo' = [todo EXCEPT ![t] = statements \o Tail(@)]

Done(t) == Then(t, <<>>)

-----------------------------------------------------------------------------

\* GetInstance: the load outside the mutex.
FirstLoad(t, c) ==
    /\ At(t, "get", c)
    /\ Then(t, IF c \in m_instance THEN <<>> ELSE <<<<"lock", c>>>>)
    /\ UNCHANGED <<m_instance, m_mutex, exitFuncs, objects>>

\* new T(), whose constructor is body, then the store, then atexit.
Build(c, body) == body \o <<<<"store", c>>, <<"atexit", c>>>>

\* Mutant: no second look under the mutex.
LockedLoadOnce(t, c, body) ==
    /\ At(t, "lock", c)
    /\ m_mutex[c] = NoThread
    /\ Then(t, Build(c, body)) /\ m_mutex' = [m_mutex EXCEPT ![c] = t]
    /\ UNCHANGED <<m_instance, exitFuncs, objects>>

\* The load under the mutex.  Without an instance the thread keeps the mutex
\* and constructs one.
LockedLoad(t, c, body) ==
    /\ At(t, "lock", c)
    /\ m_mutex[c] = NoThread
    /\ \/ c \in m_instance /\ Done(t) /\ UNCHANGED m_mutex
       \/ /\ c \notin m_instance
          /\ Then(t, Build(c, body))
          /\ m_mutex' = [m_mutex EXCEPT ![c] = t]
    /\ UNCHANGED <<m_instance, exitFuncs, objects>>

Store(t, c) ==
    /\ At(t, "store", c)
    /\ m_instance' = m_instance \cup {c}
    /\ Done(t)
    /\ UNCHANGED <<m_mutex, exitFuncs, objects>>

\* atexit, and the lock_guard lets go of the mutex.
AtExit(t, c) ==
    /\ At(t, "atexit", c)
    /\ exitFuncs' = Append(exitFuncs, c)
    /\ m_mutex' = [m_mutex EXCEPT ![c] = NoThread]
    /\ Done(t)
    /\ UNCHANGED <<m_instance, objects>>

GetInstance(t, c, body) ==
    FirstLoad(t, c) \/ LockedLoad(t, c, body) \/ Store(t, c) \/ AtExit(t, c)

\* An object comes into being, is used, ceases to exist.
Make(t, o) ==
    /\ At(t, "make", o)
    /\ objects' = objects \cup {o}
    /\ Done(t)
    /\ UNCHANGED <<m_instance, m_mutex, exitFuncs>>

Use(t, o) ==
    /\ At(t, "use", o)
    /\ Done(t)
    /\ UNCHANGED <<m_instance, m_mutex, exitFuncs, objects>>

Drop(t, o) ==
    /\ At(t, "drop", o)
    /\ objects' = objects \ {o}
    /\ Done(t)
    /\ UNCHANGED <<m_instance, m_mutex, exitFuncs>>

\* exit calls the ExitFunc registered last.  It deletes the instance (dtor is
\* what the destructor does) and leaves m_instance as it is.
ExitFunc(t, dtor) ==
    /\ At(t, "exit", "main")
    /\ exitFuncs # <<>>
    /\ exitFuncs' = SubSeq(exitFuncs, 1, Len(exitFuncs) - 1)
    /\ todo' = [todo EXCEPT ![t] = dtor \o @]
    /\ UNCHANGED <<m_instance, m_mutex, objects>>

-----------------------------------------------------------------------------

\* However many threads ask first, one of them constructs: while an instance
\* is on its way nobody else is about to store one, and nobody is once there
\* is one.
OneInstance ==
    \A c \in Classes :
       LET builders == {t \in Threads : \E i \in DOMAIN todo[t] : todo[t][i] = <<"store", c>>}
       IN  Cardinality(builders) <= (IF c \in m_instance THEN 0 ELSE 1)
=============================================================================
