-------------------------- MODULE FrameWork_proofs --------------------------
(***************************************************************************)
(* The life of a process for any number of workers and requests: types,    *)
(* construction on first use, and the order of the log.                    *)
(***************************************************************************)
EXTENDS FrameWork, FiniteSetTheorems, SequenceTheorems, TLAPS

(***************************************************************************)
(* The lists of statements.                                                *)
(***************************************************************************)

\* All statements but those that end a construction, start the logger's
\* thread or wake it up for good.
Ordinary ==
    {s \in Statements : s[1] \notin {"store", "atexit", "thread", "push"}}

\* Lists are put together from short ones.
LEMMA ShortLists ==
    ASSUME NEW S, NEW a \in S, NEW b \in S, NEW c \in S, NEW d \in S, NEW e \in S, NEW f \in S,
           NEW g \in S
    PROVE  /\ <<>> \in Seq(S) /\ <<a>> \in Seq(S) /\ <<a, b>> \in Seq(S) /\ <<a, b, c>> \in Seq(S)
           /\ <<a, b, c, d>> \in Seq(S) /\ <<a, b, c, d, e, f, g>> \in Seq(S)
  OBVIOUS

\* The empty list has every type.
LEMMA NoList == \A S : <<>> \in Seq(S)
  OBVIOUS

\* Which statements are ordinary.
LEMMA OrdinaryStatements ==
    /\ \A c \in Classes : <<"get", c>> \in Ordinary /\ <<"lock", c>> \in Ordinary
    /\ \A o \in Objects : /\ <<"make", o>> \in Ordinary
                          /\ <<"drop", o>> \in Ordinary
                          /\ <<"use", o>> \in Ordinary
    /\ \A key \in ConfigKeys : <<"config", key>> \in Ordinary
    /\ \A message \in Messages : <<"log", message>> \in Ordinary
    /\ \A lib \in Libraries : /\ <<"add", lib>> \in Ordinary
                              /\ <<"task", lib>> \in Ordinary
                              /\ <<"create", lib>> \in Ordinary
                              /\ <<"mv", lib>> \in Ordinary
    /\ \A s \in {"watch", "setup", "throw", "level", "register", "mkfs", "served", "sleep", "up",
                 "exit", "stopMonitor", "createDir", "joinMonitor", "stopMediator", "wait"} :
          <<s, "main">> \in Ordinary
  BY DEF Ordinary, Statements

\* The names that occur in the lists.
LEMMA NamesInLists ==
    /\ {"ConfigManager", "Logger", "FrameWork", "MinionProxy", "Master", "StorageManager"} = Classes
    /\ {"ConfigManager", "Logger", "MinionProxy", "Master", "StorageManager", "m_factory",
        "m_mediator", "m_loader", "proxy"} \subseteq Objects
    /\ Threads = {"main", "monitor", "reactor"} \cup Workers
    /\ {"LOG_PATH", "POLICY", "PLUG_PATH", "PORT_NUM", "NUM_OF_MINIONS", "BLOCK_SIZE",
        "DIR_PATH"} = ConfigKeys
    /\ {"libreadcmd", "libwritecmd"} = Libraries
    /\ {"after mount", "parse data", "dlopen fail", "mkdir dir fail", "nbd open failed"} = Messages
  BY FrameWorkAssumption DEF Objects, ConfigKeys, Libraries, Messages

\* Nothing but the singletons' own steps and the logger's constructor and
\* destructor puts in other statements than ordinary ones.
LEMMA OrdinaryLists ==
    /\ \A key \in ConfigKeys : GET_CONFIG(key) \in Seq(Ordinary)
    /\ \A message \in Messages : LOG(message) \in Seq(Ordinary)
    /\ \A c \in Classes \ {"Logger"} : Ctor(c) \in Seq(Ordinary) /\ Dtor(c) \in Seq(Ordinary)
    /\ \A p \in Programs : Main(p) \in Seq(Ordinary)
    /\ \A lib \in Libraries : /\ Broadcast(lib) \in Seq(Ordinary)
                              /\ ReactorHandler(lib) \in Seq(Ordinary)
    /\ CommandRun \in Seq(Ordinary)
  <1>0. /\ \A p, q \in Seq(Ordinary) : p \o q \in Seq(Ordinary)
        /\ \A s \in Ordinary : <<s>> \in Seq(Ordinary)
        /\ \A s, r \in Ordinary : <<s, r>> \in Seq(Ordinary)
        /\ \A s, r, u \in Ordinary : <<s, r, u>> \in Seq(Ordinary)
        /\ \A s, r, u, v, w, x, y \in Ordinary : <<s, r, u, v, w, x, y>> \in Seq(Ordinary)
    BY ConcatProperties, ShortLists
  <1>g. \A c \in Classes : Get(c) \in Seq(Ordinary)
    BY <1>0, OrdinaryStatements DEF Get
  <1>1. /\ \A key \in ConfigKeys : GET_CONFIG(key) \in Seq(Ordinary)
        /\ \A message \in Messages : LOG(message) \in Seq(Ordinary)
    BY <1>0, <1>g, OrdinaryStatements, NamesInLists DEF GET_CONFIG, LOG
  <1>3. FrameWorkCtor \in Seq(Ordinary)
    <2>1. /\ <<<<"make", "m_factory">>>> \in Seq(Ordinary)
          /\ <<<<"make", "m_mediator">>>> \in Seq(Ordinary)
          /\ <<<<"watch", "main">>, <<"make", "m_loader">>>> \in Seq(Ordinary)
      BY <1>0, OrdinaryStatements, NamesInLists
    <2>. QED
      BY <1>0, <1>g, <1>1, <2>1, NamesInLists DEF FrameWorkCtor
  <1>4. MinionProxyCtor \in Seq(Ordinary)
    <2>1. /\ <<<<"register", "main">>, <<"make", "MinionProxy">>>> \in Seq(Ordinary)
          /\ <<<<"make", "proxy">>>> \in Seq(Ordinary)
      BY <1>0, OrdinaryStatements, NamesInLists
    <2>. QED
      BY <1>0, <1>g, <1>1, <2>1, NamesInLists DEF MinionProxyCtor
  <1>5. MasterCtor \in Seq(Ordinary)
    BY <1>0, <1>1, OrdinaryStatements, NamesInLists DEF MasterCtor
  <1>6. ASSUME NEW c \in Classes \ {"Logger"} PROVE Ctor(c) \in Seq(Ordinary)
    <2>1. CASE c \in {"ConfigManager", "StorageManager"}
      <3>1. Ctor(c) = <<<<"make", c>>>>
        BY <2>1 DEF Ctor
      <3>2. c \in Objects
        BY <2>1, NamesInLists
      <3>3. <<"make", c>> \in Ordinary
        BY <3>2, OrdinaryStatements
      <3>. QED
        BY <1>0, <3>1, <3>3
    <2>2. CASE c \in {"FrameWork", "MinionProxy", "Master"}
      BY <1>3, <1>4, <1>5, <2>2 DEF Ctor
    <2>. QED
      BY <2>1, <2>2, NamesInLists
  <1>7. ASSUME NEW c \in Classes \ {"Logger"} PROVE Dtor(c) \in Seq(Ordinary)
    <2>1. CASE c = "FrameWork"
      <3>1. FrameWorkDtor \in Seq(Ordinary)
        BY <1>0, OrdinaryStatements, NamesInLists DEF FrameWorkDtor
      <3>. QED
        BY <2>1, <3>1 DEF Dtor
    <2>2. CASE c # "FrameWork"
      <3>1. Dtor(c) = <<<<"drop", c>>>>
        BY <1>7, <2>2 DEF Dtor
      <3>2. c \in Objects
        BY <1>7, <2>2, NamesInLists
      <3>3. <<"drop", c>> \in Ordinary
        BY <3>2, OrdinaryStatements
      <3>. QED
        BY <1>0, <3>1, <3>3
    <2>. QED
      BY <2>1, <2>2
  <1>8. InstallLibraries \in Seq(Ordinary) /\ InitConnection \in Seq(Ordinary)
    <2>1. /\ <<<<"mv", "libreadcmd">>, <<"mv", "libwritecmd">>>> \in Seq(Ordinary)
          /\ <<<<"setup", "main">>>> \in Seq(Ordinary)
          /\ <<<<"level", "main">>, <<"make", "proxy">>>> \in Seq(Ordinary)
          /\ <<<<"register", "main">>, <<"mkfs", "main">>, <<"served", "main">>>> \in Seq(Ordinary)
      BY <1>0, OrdinaryStatements, NamesInLists
    <2>2. NbdProxyCtor \in Seq(Ordinary)
      BY <1>0, <1>g, <2>1, NamesInLists DEF NbdProxyCtor
    <2>3. InstallLibraries \in Seq(Ordinary)
      BY <1>0, <1>1, <2>1, NamesInLists DEF InstallLibraries
    <2>. QED
      BY <1>0, <1>g, <1>1, <2>1, <2>2, <2>3, NamesInLists DEF InitConnection
  <1>9. ASSUME NEW p \in Programs PROVE Main(p) \in Seq(Ordinary)
    <2>1. /\ <<<<"sleep", "main">>>> \in Seq(Ordinary) /\ <<<<"up", "main">>>> \in Seq(Ordinary)
          /\ <<<<"exit", "main">>>> \in Seq(Ordinary)
      BY <1>0, OrdinaryStatements
    <2>2. p \in {"minion_exe", "master_test", "framework_test"}
      BY FrameWorkAssumption
    <2>. QED
      BY <1>0, <1>g, <1>8, <2>1, <2>2, NamesInLists DEF Main
  <1>10. ASSUME NEW lib \in Libraries
         PROVE  Broadcast(lib) \in Seq(Ordinary) /\ ReactorHandler(lib) \in Seq(Ordinary)
    <2>1. Notify(lib) \in Seq(Ordinary) /\ ReactorHandler(lib) \in Seq(Ordinary)
      BY <1>0, <1>g, <1>1, OrdinaryStatements, NamesInLists DEF Notify, Register, ReactorHandler
    <2>2. <<<<"use", "m_loader">>>> \in Seq(Ordinary)
      BY <1>0, OrdinaryStatements, NamesInLists
    <2>. QED
      BY <1>0, <2>1, <2>2 DEF Broadcast
  <1>11. CommandRun \in Seq(Ordinary)
    <2>1. /\ <<<<"use", "StorageManager">>>> \in Seq(Ordinary)
          /\ <<<<"use", "MinionProxy">>>> \in Seq(Ordinary)
          /\ <<<<"use", "Master">>>> \in Seq(Ordinary)
          /\ <<<<"wait", "main">>>> \in Seq(Ordinary)
      BY <1>0, OrdinaryStatements, NamesInLists
    <2>2. CommunicateMinion \in Seq(Ordinary)
      BY <2>1, NoList DEF CommunicateMinion
    <2>. QED
      BY <1>0, <1>g, <2>1, <2>2, NamesInLists DEF CommandRun
  <1>. QED
    BY <1>1, <1>6, <1>7, <1>9, <1>10, <1>11

\* The logger's two lists.
LEMMA LoggerLists ==
    /\ Ctor("Logger") = GET_CONFIG("LOG_PATH") \o <<<<"thread", "Logger">>, <<"make", "Logger">>>>
    /\ Dtor("Logger") = <<<<"flag", "Logger">>, <<"push", "stop">>, <<"join", "Logger">>,
                          <<"drop", "Logger">>>>
    /\ Ctor("Logger") \in Seq(Statements) /\ Dtor("Logger") \in Seq(Statements)
    /\ Seq(Ordinary) \subseteq Seq(Statements)
  <1>1. Ordinary \subseteq Statements
    BY DEF Ordinary
  <1>2. Seq(Ordinary) \subseteq Seq(Statements)
    BY <1>1
  <1>3. /\ <<"thread", "Logger">> \in Statements /\ <<"make", "Logger">> \in Statements
        /\ <<"flag", "Logger">> \in Statements /\ <<"push", "stop">> \in Statements
        /\ <<"join", "Logger">> \in Statements /\ <<"drop", "Logger">> \in Statements
    BY <1>1, NamesInLists, OrdinaryStatements DEF Statements
  <1>4. Ctor("Logger") = GET_CONFIG("LOG_PATH") \o <<<<"thread", "Logger">>, <<"make", "Logger">>>>
    BY DEF Ctor, LoggerCtor
  <1>5. Dtor("Logger") = <<<<"flag", "Logger">>, <<"push", "stop">>, <<"join", "Logger">>,
                           <<"drop", "Logger">>>>
    BY DEF Dtor, LoggerDtor
  <1>6. GET_CONFIG("LOG_PATH") \in Seq(Statements)
    BY <1>2, OrdinaryLists, NamesInLists
  <1>7. <<<<"thread", "Logger">>, <<"make", "Logger">>>> \in Seq(Statements)
    BY <1>3
  <1>8. Dtor("Logger") \in Seq(Statements)
    <2>1. \A a, b, c, d \in Statements : <<a, b, c, d>> \in Seq(Statements)
      BY ShortLists
    <2>. QED
      BY <1>3, <1>5, <2>1
  <1>. QED
    BY <1>2, <1>4, <1>5, <1>6, <1>7, <1>8, ConcatProperties

(***************************************************************************)
(* Types.                                                                  *)
(***************************************************************************)

TodoOK == todo \in [Threads -> Seq(Statements)]

ObjectsOK ==
    /\ m_instance \subseteq Classes
    /\ m_mutex \in [Classes -> Threads \cup {NoThread}]
    /\ exitFuncs \in Seq(Classes)
    /\ objects \subseteq Objects

ProcessOK ==
    /\ events \in Seq(Libraries \cup {"dummy_die"})
    /\ m_flag \in {"RUN", "STOP"}
    /\ mon \in {"none", "test", "read", "ended"}
    /\ m_map \subseteq Libraries
    /\ registered \in BOOLEAN
    /\ requests \in Seq(Libraries) /\ tasks \in Seq(Libraries)
    /\ sent \in Nat
    /\ up \in BOOLEAN

WorldOK ==
    /\ program \in Programs
    /\ missing \subseteq ConfigKeys /\ broken \subseteq Libraries \cup {"nbd", "minions"}
    /\ life \in {"running", "exited", "terminated", "killed"}
    /\ home \subseteq Libraries
    /\ asleep \subseteq Workers
    /\ found \subseteq Libraries /\ hurried \in BOOLEAN /\ astray \in BOOLEAN

\* The type invariant in four parts.
LEMMA TypeParts ==
    /\ TypeOK => TodoOK /\ ObjectsOK /\ LoggerTypeOK(Messages) /\ ProcessOK /\ WorldOK
    /\ TodoOK' /\ ObjectsOK' /\ LoggerTypeOK(Messages)' /\ ProcessOK' /\ WorldOK' => TypeOK'
  BY DEF TypeOK, TodoOK, ObjectsOK, ProcessOK, WorldOK

\* What a statement can be about.
LEMMA StatementKinds ==
    ASSUME NEW s, NEW x, <<s, x>> \in Statements
    PROVE  /\ s \in {"get", "lock", "store", "atexit"} => x \in Classes
           /\ s \in {"make", "use", "drop"} => x \in Objects
           /\ s = "config" => x \in ConfigKeys
           /\ s = "log" => x \in Messages
           /\ s \in {"add", "task", "create", "mv"} => x \in Libraries
  BY DEF Statements

\* A thread that has come to a statement.
LEMMA AtType ==
    ASSUME TodoOK, NEW t \in Threads, NEW s, NEW x, At(t, s, x)
    PROVE  /\ todo[t] \in Seq(Statements) /\ todo[t] # <<>> /\ Head(todo[t]) = <<s, x>>
           /\ <<s, x>> \in Statements
  <1>1. todo[t] \in Seq(Statements) /\ todo[t] # <<>> /\ Head(todo[t]) = <<s, x>>
    BY DEF TodoOK, At
  <1>. QED
    BY <1>1

\* A thread executes a statement: what it has to do next is still typed.
LEMMA ThenType ==
    ASSUME TodoOK, NEW t \in Threads, NEW s, NEW x, At(t, s, x),
           NEW p \in Seq(Statements), Then(t, p)
    PROVE  TodoOK' /\ <<s, x>> \in Statements
  <1>1. todo[t] \in Seq(Statements) /\ todo[t] # <<>> /\ Head(todo[t]) = <<s, x>>
    BY DEF TodoOK, At
  <1>2. Head(todo[t]) \in Statements /\ Tail(todo[t]) \in Seq(Statements)
    BY <1>1
  <1>3. p \o Tail(todo[t]) \in Seq(Statements)
    BY <1>2, ConcatProperties
  <1>4. todo' = [todo EXCEPT ![t] = p \o Tail(todo[t])]
    BY DEF Then
  <1>. QED
    BY <1>1, <1>2, <1>3, <1>4 DEF TodoOK

\* Statements that leave the singletons alone.
LEMMA ExecuteType ==
    ASSUME TodoOK, ObjectsOK, NEW t \in Threads, NEW s, NEW x, Execute(t, s, x)
    PROVE  TodoOK' /\ ObjectsOK' /\ <<s, x>> \in Statements
  <1>1. At(t, s, x) /\ Then(t, <<>>) /\ UNCHANGED objectVars /\ <<>> \in Seq(Statements)
    BY DEF Execute, Done
  <1>. QED
    BY <1>1, ThenType DEF ObjectsOK, objectVars

\* The statements of the singletons.
LEMMA SingletonType ==
    ASSUME TodoOK, ObjectsOK, NEW t \in Threads, NEW x,
           GetInstance(t, x, Ctor(x)) \/ Make(t, x) \/ Use(t, x) \/ Drop(t, x)
    PROVE  TodoOK' /\ ObjectsOK'
  <1>0. <<>> \in Seq(Statements)
    OBVIOUS
  <1>1. ASSUME FirstLoad(t, x) PROVE TodoOK' /\ ObjectsOK'
    <2>1. At(t, "get", x) /\ UNCHANGED objectVars
      BY <1>1 DEF FirstLoad, objectVars
    <2>2. <<"get", x>> \in Statements
      BY <2>1, AtType
    <2>3. <<<<"lock", x>>>> \in Seq(Statements)
      <3>1. <<"lock", x>> \in Statements
        BY <2>2, StatementKinds DEF Statements
      <3>. QED
        BY <3>1
    <2>4. PICK p \in Seq(Statements) : Then(t, p)
      BY <1>0, <1>1, <2>3 DEF FirstLoad
    <2>. QED
      BY <2>1, <2>4, ThenType DEF ObjectsOK, objectVars
  <1>2. ASSUME LockedLoad(t, x, Ctor(x)) PROVE TodoOK' /\ ObjectsOK'
    <2>1. At(t, "lock", x) /\ UNCHANGED <<m_instance, exitFuncs, objects>>
      BY <1>2 DEF LockedLoad
    <2>2. <<"lock", x>> \in Statements /\ x \in Classes
      BY <2>1, AtType, StatementKinds
    <2>3. Build(x, Ctor(x)) \in Seq(Statements)
      <3>1. Ctor(x) \in Seq(Statements)
        BY <2>2, OrdinaryLists, LoggerLists
      <3>2. <<"store", x>> \in Statements /\ <<"atexit", x>> \in Statements
        BY <2>2 DEF Statements
      <3>3. <<<<"store", x>>, <<"atexit", x>>>> \in Seq(Statements)
        BY <3>2
      <3>. QED
        BY <3>1, <3>3, ConcatProperties DEF Build
    <2>4. PICK p \in Seq(Statements) : Then(t, p)
      BY <1>0, <1>2, <2>3 DEF LockedLoad, Done
    <2>5. m_mutex' \in [Classes -> Threads \cup {NoThread}]
      BY <1>2 DEF LockedLoad, ObjectsOK
    <2>. QED
      BY <2>1, <2>4, <2>5, ThenType DEF ObjectsOK
  <1>3. ASSUME NEW s, At(t, s, x), Done(t) PROVE TodoOK' /\ <<s, x>> \in Statements
    BY <1>0, <1>3, ThenType DEF Done
  <1>4. ASSUME Store(t, x) PROVE TodoOK' /\ ObjectsOK'
    <2>1. TodoOK' /\ <<"store", x>> \in Statements
      BY <1>3, <1>4 DEF Store
    <2>. QED
      BY <1>4, <2>1, StatementKinds DEF Store, ObjectsOK
  <1>5. ASSUME AtExit(t, x) PROVE TodoOK' /\ ObjectsOK'
    <2>1. TodoOK' /\ <<"atexit", x>> \in Statements
      BY <1>3, <1>5 DEF AtExit
    <2>2. x \in Classes
      BY <2>1, StatementKinds
    <2>3. exitFuncs' \in Seq(Classes) /\ m_mutex' \in [Classes -> Threads \cup {NoThread}]
      BY <1>5, <2>2 DEF AtExit, ObjectsOK
    <2>. QED
      BY <1>5, <2>1, <2>3 DEF AtExit, ObjectsOK
  <1>6. ASSUME Make(t, x) PROVE TodoOK' /\ ObjectsOK'
    <2>1. TodoOK' /\ <<"make", x>> \in Statements
      BY <1>3, <1>6 DEF Make
    <2>. QED
      BY <1>6, <2>1, StatementKinds DEF Make, ObjectsOK
  <1>7. ASSUME Use(t, x) \/ Drop(t, x) PROVE TodoOK' /\ ObjectsOK'
    BY <1>3, <1>7 DEF Use, Drop, ObjectsOK
  <1>. QED
    BY <1>1, <1>2, <1>4, <1>5, <1>6, <1>7 DEF GetInstance

\* What does not change keeps its type.
LEMMA SameType ==
    ASSUME TypeOK
    PROVE  /\ UNCHANGED singletonVars => TodoOK' /\ ObjectsOK'
           /\ UNCHANGED loggerVars => LoggerTypeOK(Messages)'
           /\ UNCHANGED processVars => ProcessOK'
           /\ UNCHANGED worldVars => WorldOK'
  BY TypeParts DEF singletonVars, loggerVars, processVars, worldVars, luckVars, TodoOK, ObjectsOK,
     LoggerTypeOK, ProcessOK, WorldOK

\* The steps of any thread.
LEMMA AnyThreadType ==
    ASSUME TypeOK, NEW t \in Threads, AnyThread(t)
    PROVE  TypeOK'
  <1>. DEFINE x == Head(todo[t])[2]
  <1>0. TodoOK /\ ObjectsOK /\ LoggerTypeOK(Messages) /\ ProcessOK /\ WorldOK
    BY TypeParts
  <1>. HIDE DEF x
  <1>1. CASE SingletonStep(t, x)
    BY <1>0, <1>1, SingletonType, SameType, TypeParts DEF SingletonStep
  <1>7. CASE MakeMediator(t)
    <2>1. TodoOK' /\ ObjectsOK'
      BY <1>0, <1>7, SingletonType DEF MakeMediator
    <2>2. WorldOK'
      BY <1>0, <1>7 DEF MakeMediator, WorldOK
    <2>. QED
      BY <1>7, <2>1, <2>2, SameType, TypeParts DEF MakeMediator
  <1>8. CASE WaitForMinions(t)
    BY <1>0, <1>8, ExecuteType, SameType, TypeParts DEF WaitForMinions
  <1>2. CASE GetConfig(t, x)
    <2>1. TodoOK' /\ ObjectsOK'
      BY <1>0, <1>2, ExecuteType DEF GetConfig
    <2>2. WorldOK'
      BY <1>0, <1>2 DEF GetConfig, WorldOK, luckVars
    <2>. QED
      BY <1>2, <2>1, <2>2, SameType, TypeParts DEF GetConfig
  <1>3. CASE LogMessage(t, x)
    <2>1. TodoOK' /\ ObjectsOK' /\ <<"log", x>> \in Statements
      BY <1>0, <1>3, ExecuteType DEF LogMessage
    <2>2. x \in Messages
      BY <2>1, StatementKinds
    <2>3. LoggerTypeOK(Messages)'
      <3>1. PICK level : Log(level, x)
        BY <1>3 DEF LogMessage
      <3>2. m_message_q \in Seq(Lines(Messages)) /\ x \in Lines(Messages) /\ logged \in Seq(Messages)
        BY <1>0, <2>2 DEF LoggerTypeOK, Lines
      <3>3. Append(m_message_q, x) \in Seq(Lines(Messages)) /\ Append(logged, x) \in Seq(Messages)
        BY <2>2, <3>2
      <3>. QED
        BY <1>0, <3>1, <3>2, <3>3 DEF Log, LoggerTypeOK
    <2>. QED
      BY <1>3, <2>1, <2>3, SameType, TypeParts DEF LogMessage
  <1>4. CASE Add(t, x)
    <2>1. TodoOK' /\ ObjectsOK' /\ <<"add", x>> \in Statements
      BY <1>0, <1>4, ExecuteType DEF Add
    <2>2. ProcessOK'
      BY <1>0, <1>4, <2>1, StatementKinds DEF Add, ProcessOK
    <2>. QED
      BY <1>4, <2>1, <2>2, SameType, TypeParts DEF Add
  <1>5. CASE AddTask(t, x)
    <2>1. TodoOK' /\ ObjectsOK' /\ <<"task", x>> \in Statements
      BY <1>0, <1>5, ExecuteType DEF AddTask
    <2>2. x \in Libraries
      BY <2>1, StatementKinds
    <2>3. ProcessOK'
      BY <1>0, <1>5, <2>2 DEF AddTask, ProcessOK
    <2>. QED
      BY <1>5, <2>1, <2>3, SameType, TypeParts DEF AddTask
  <1>6. CASE Create(t, x)
    <2>0. At(t, "create", x) /\ x \in Libraries
      BY <1>0, <1>6, AtType, StatementKinds DEF Create
    <2>1. At(t, "create", x) /\ Then(t, CommandRun) /\ CommandRun \in Seq(Statements)
      BY <1>6, <2>0, OrdinaryLists, LoggerLists DEF Create
    <2>2. TodoOK'
      BY <1>0, <2>1, ThenType
    <2>3. WorldOK' /\ ObjectsOK'
      BY <1>0, <1>6 DEF Create, WorldOK, ObjectsOK, objectVars, luckVars
    <2>. QED
      BY <1>6, <2>2, <2>3, SameType, TypeParts DEF Create
  <1>. QED
    BY <1>1, <1>2, <1>3, <1>4, <1>5, <1>6, <1>7, <1>8 DEF AnyThread, x

\* The steps of main.
LEMMA MainType ==
    ASSUME TypeOK, MainThread
    PROVE  TypeOK'
  <1>0. TodoOK /\ ObjectsOK /\ LoggerTypeOK(Messages) /\ ProcessOK /\ WorldOK /\ "main" \in Threads
    BY TypeParts, NamesInLists
  <1>1. ASSUME NEW s, NEW x, Execute("main", s, x)
        PROVE  TodoOK' /\ ObjectsOK' /\ <<s, x>> \in Statements
    BY <1>0, <1>1, ExecuteType
  <1>2. ASSUME NEW s, NEW x, At("main", s, x), NEW q \in Seq(Ordinary), Then("main", q),
               UNCHANGED objectVars
        PROVE  TodoOK' /\ ObjectsOK'
    <2>1. q \in Seq(Statements)
      BY LoggerLists
    <2>. QED
      BY <1>0, <1>2, <2>1, ThenType DEF ObjectsOK, objectVars
  <1>3. CASE StartLoggerThread
    <2>1. LoggerTypeOK(Messages)'
      BY <1>0, <1>3 DEF StartLoggerThread, StartLogger, LoggerTypeOK
    <2>. QED
      BY <1>1, <1>3, <2>1, SameType, TypeParts DEF StartLoggerThread
  <1>4. CASE Watch
    <2>1. ProcessOK'
      BY <1>0, <1>4 DEF Watch, ProcessOK
    <2>. QED
      BY <1>1, <1>4, <2>1, SameType, TypeParts DEF Watch
  <1>5. CASE SetupNbdFD
    <2>1. LOG("nbd open failed") \in Seq(Ordinary) /\ <<<<"throw", "main">>>> \in Seq(Ordinary)
      <3>1. <<"throw", "main">> \in Ordinary
        BY OrdinaryStatements
      <3>2. <<<<"throw", "main">>>> \in Seq(Ordinary)
        BY <3>1, ShortLists
      <3>3. LOG("nbd open failed") \in Seq(Ordinary)
        BY OrdinaryLists, NamesInLists
      <3>. QED
        BY <3>2, <3>3
    <2>2. LOG("nbd open failed") \o <<<<"throw", "main">>>> \in Seq(Ordinary) /\ <<>> \in Seq(Ordinary)
      BY <2>1, ConcatProperties, NoList
    <2>3. PICK q \in Seq(Ordinary) : Then("main", q)
      BY <1>5, <2>2 DEF SetupNbdFD
    <2>. QED
      BY <1>2, <1>5, <2>3, SameType, TypeParts DEF SetupNbdFD
  <1>6. CASE Throw
    <2>1. WorldOK'
      BY <1>0, <1>6 DEF Throw, WorldOK, luckVars
    <2>. QED
      BY <1>1, <1>6, <2>1, SameType, TypeParts DEF Throw
  <1>7. CASE SetDebug
    <2>1. LoggerTypeOK(Messages)'
      BY <1>0, <1>7 DEF SetDebug, SetLevel, LoggerTypeOK, NONE, DEBUG
    <2>. QED
      BY <1>1, <1>7, <2>1, SameType, TypeParts DEF SetDebug
  <1>8. CASE RegisterProxy
    <2>1. ProcessOK'
      BY <1>0, <1>8 DEF RegisterProxy, ProcessOK
    <2>. QED
      BY <1>1, <1>8, <2>1, SameType, TypeParts DEF RegisterProxy
  <1>9. ASSUME NEW lib \in Libraries, Move(lib) PROVE TypeOK'
    <2>1. events' \in Seq(Libraries \cup {"dummy_die"})
      BY <1>0, <1>9 DEF Move, ProcessOK
    <2>2. ProcessOK' /\ WorldOK'
      BY <1>0, <1>9, <2>1 DEF Move, ProcessOK, WorldOK, luckVars
    <2>. QED
      BY <1>1, <1>9, <2>2, SameType, TypeParts DEF Move
  <1>10. CASE Served \/ JoinMonitor
    BY <1>1, <1>10, SameType, TypeParts DEF Served, JoinMonitor
  <1>18. CASE Sleep
    <2>1. WorldOK'
      <3>1. hurried' \in BOOLEAN
        BY <1>18 DEF Sleep
      <3>. QED
        BY <1>0, <1>18, <3>1 DEF Sleep, WorldOK
    <2>. QED
      BY <1>1, <1>18, <2>1, SameType, TypeParts DEF Sleep
  <1>11. CASE Mkfs
    <2>1. requests' \in Seq(Libraries)
      BY <1>0, <1>11 DEF Mkfs, ProcessOK, Libraries
    <2>2. ProcessOK'
      BY <1>0, <1>11, <2>1 DEF Mkfs, ProcessOK
    <2>. QED
      BY <1>1, <1>11, <2>2, SameType, TypeParts DEF Mkfs
  <1>12. CASE SayUp
    <2>1. ProcessOK'
      BY <1>0, <1>12 DEF SayUp, ProcessOK
    <2>. QED
      BY <1>1, <1>12, <2>1, SameType, TypeParts DEF SayUp
  <1>13. CASE StopLogger
    <2>1. LoggerTypeOK(Messages)'
      <3>1. CASE StopFlag
        BY <1>0, <3>1 DEF StopFlag, LoggerTypeOK
      <3>2. CASE PushStop
        <4>1. "stop" \in Lines(Messages) /\ m_message_q \in Seq(Lines(Messages))
          BY <1>0 DEF Lines, LoggerTypeOK
        <4>2. Append(m_message_q, "stop") \in Seq(Lines(Messages))
          BY <4>1
        <4>. QED
          BY <1>0, <3>2, <4>2 DEF PushStop, LoggerTypeOK
      <3>3. CASE JoinLogger
        BY <3>3, SameType DEF JoinLogger
      <3>. QED
        BY <1>13, <3>1, <3>2, <3>3 DEF StopLogger
    <2>. QED
      BY <1>1, <1>13, <2>1, SameType, TypeParts DEF StopLogger
  <1>14. CASE StoreStop
    <2>1. ProcessOK'
      BY <1>0, <1>14 DEF StoreStop, ProcessOK
    <2>. QED
      BY <1>1, <1>14, <2>1, SameType, TypeParts DEF StoreStop
  <1>15. CASE CreateDir
    <2>1. LOG("mkdir dir fail") \in Seq(Ordinary) /\ <<>> \in Seq(Ordinary)
      BY OrdinaryLists, NamesInLists, NoList
    <2>2. PICK q \in Seq(Ordinary) : Then("main", q)
      BY <1>15, <2>1 DEF CreateDir, Done
    <2>5. WorldOK'
      BY <1>0, <1>15 DEF CreateDir, WorldOK
    <2>3. events' \in Seq(Libraries \cup {"dummy_die"})
      <3>1. "dummy_die" \in Libraries \cup {"dummy_die"}
            /\ events \in Seq(Libraries \cup {"dummy_die"})
        BY <1>0 DEF ProcessOK
      <3>2. Append(events, "dummy_die") \in Seq(Libraries \cup {"dummy_die"})
        BY <3>1
      <3>. QED
        BY <1>15, <3>1, <3>2 DEF CreateDir
    <2>4. ProcessOK'
      BY <1>0, <1>15, <2>3 DEF CreateDir, ProcessOK
    <2>. QED
      BY <1>2, <1>15, <2>2, <2>4, <2>5, SameType, TypeParts DEF CreateDir
  <1>16. CASE StopMediator
    <2>1. ProcessOK'
      BY <1>0, <1>16 DEF StopMediator, ProcessOK
    <2>. QED
      BY <1>1, <1>16, <2>1, SameType, TypeParts DEF StopMediator
  <1>17. CASE Exit
    <2>1. ASSUME NEW c \in Classes, ExitFunc("main", Dtor(c)) PROVE TodoOK' /\ ObjectsOK'
      <3>1. Dtor(c) \in Seq(Statements)
        BY OrdinaryLists, LoggerLists
      <3>2. todo["main"] \in Seq(Statements) /\ todo' = [todo EXCEPT !["main"] = Dtor(c) \o todo["main"]]
        BY <1>0, <2>1 DEF ExitFunc, TodoOK
      <3>3. Dtor(c) \o todo["main"] \in Seq(Statements)
        BY <3>1, <3>2, ConcatProperties
      <3>4. TodoOK'
        BY <1>0, <3>2, <3>3 DEF TodoOK
      <3>5. exitFuncs' \in Seq(Classes)
        <4>1. exitFuncs \in Seq(Classes) /\ exitFuncs # <<>>
              /\ exitFuncs' = SubSeq(exitFuncs, 1, Len(exitFuncs) - 1)
          BY <1>0, <2>1 DEF ExitFunc, ObjectsOK
        <4>. QED
          BY <4>1, SubSeqProperties
      <3>. QED
        BY <1>0, <2>1, <3>4, <3>5 DEF ExitFunc, ObjectsOK
    <2>2. CASE \E c \in Classes : ExitFunc("main", Dtor(c)) /\ UNCHANGED <<loggerVars, processVars, worldVars>>
      BY <2>1, <2>2, SameType, TypeParts
    <2>3. CASE /\ Execute("main", "exit", "main") /\ life' = "exited"
               /\ UNCHANGED <<loggerVars, processVars, program, missing, broken, home, luckVars>>
      <3>1. WorldOK'
        BY <1>0, <2>3 DEF WorldOK, luckVars
      <3>. QED
        BY <1>1, <2>3, <3>1, SameType, TypeParts
    <2>. QED
      BY <1>17, <2>2, <2>3 DEF Exit
  <1>. QED
    BY <1>3, <1>4, <1>5, <1>6, <1>7, <1>8, <1>9, <1>10, <1>11, <1>12, <1>13, <1>14, <1>15, <1>16,
       <1>17, <1>18 DEF MainThread

\* The other threads and the world.
LEMMA OthersType ==
    ASSUME TypeOK,
           \/ Monitor \/ ReadRequest \/ (\E w \in Workers : TakeTask(w) \/ WakeUp(w)) \/ LoggerThread
           \/ (\E lib \in Libraries : Request(lib) \/ PutLibrary(lib)) \/ Kill \/ Restart
    PROVE  TypeOK'
  <1>0. /\ TodoOK /\ ObjectsOK /\ LoggerTypeOK(Messages) /\ ProcessOK /\ WorldOK
        /\ {"main", "monitor", "reactor"} \cup Workers = Threads
    BY TypeParts, NamesInLists
  <1>1. ASSUME NEW t \in Threads, NEW q \in Seq(Ordinary), Begin(t, q) PROVE TodoOK' /\ ObjectsOK'
    <2>1. q \in Seq(Statements)
      BY LoggerLists
    <2>. QED
      BY <1>0, <1>1, <2>1 DEF Begin, TodoOK, ObjectsOK, objectVars
  <1>2. ASSUME NEW s \in Seq(Libraries), s # <<>> PROVE Head(s) \in Libraries /\ Tail(s) \in Seq(Libraries)
    BY <1>2
  <1>3. CASE Monitor
    <2>1. CASE mon = "test" /\ Begin("monitor", <<>>)
      <3>1. TodoOK' /\ ObjectsOK'
        BY <1>0, <1>1, <2>1, NoList
      <3>2. mon' \in {"ended", "read"} /\ UNCHANGED events
        BY <1>3, <2>1 DEF Monitor
      <3>3. ProcessOK'
        BY <1>0, <1>3, <2>1, <3>2 DEF Monitor, ProcessOK
      <3>. QED
        BY <1>3, <3>1, <3>3, SameType, TypeParts DEF Monitor
    <2>2. CASE mon = "read"
      <3>1. /\ events # <<>> /\ events \in Seq(Libraries \cup {"dummy_die"})
            /\ events' = Tail(events) /\ mon' = "test"
            /\ \/ Begin("monitor", <<>>)
               \/ Head(events) # "dummy_die" /\ Begin("monitor", Broadcast(Head(events)))
        BY <1>0, <1>3, <2>2 DEF Monitor, ProcessOK
      <3>2. Head(events) \in Libraries \cup {"dummy_die"} /\ events' \in Seq(Libraries \cup {"dummy_die"})
        BY <3>1
      <3>3. PICK q \in Seq(Ordinary) : Begin("monitor", q)
        BY <3>1, <3>2, OrdinaryLists, NoList
      <3>4. TodoOK' /\ ObjectsOK'
        BY <1>0, <1>1, <3>3
      <3>5. ProcessOK'
        BY <1>0, <1>3, <2>2, <3>1, <3>2 DEF Monitor, ProcessOK
      <3>. QED
        BY <1>3, <2>2, <3>4, <3>5, SameType, TypeParts DEF Monitor
    <2>. QED
      BY <1>3, <2>1, <2>2 DEF Monitor
  <1>4. CASE ReadRequest
    <2>1. Head(requests) \in Libraries /\ requests' \in Seq(Libraries)
      BY <1>0, <1>2, <1>4 DEF ReadRequest, ProcessOK
    <2>2. TodoOK' /\ ObjectsOK'
      BY <1>0, <1>1, <1>4, <2>1, OrdinaryLists DEF ReadRequest
    <2>3. ProcessOK'
      BY <1>0, <1>4, <2>1 DEF ReadRequest, ProcessOK
    <2>. QED
      BY <1>4, <2>2, <2>3, SameType, TypeParts DEF ReadRequest
  <1>5. ASSUME NEW w \in Workers, TakeTask(w) PROVE TypeOK'
    <2>1. Head(tasks) \in Libraries /\ tasks' \in Seq(Libraries)
      BY <1>0, <1>2, <1>5 DEF TakeTask, ProcessOK
    <2>2. <<<<"create", Head(tasks)>>>> \in Seq(Ordinary)
      <3>1. <<"create", Head(tasks)>> \in Ordinary
        BY <2>1, OrdinaryStatements
      <3>. QED
        BY <3>1
    <2>3. TodoOK' /\ ObjectsOK'
      BY <1>0, <1>1, <1>5, <2>2 DEF TakeTask
    <2>4. ProcessOK'
      BY <1>0, <1>5, <2>1 DEF TakeTask, ProcessOK
    <2>. QED
      BY <1>5, <2>3, <2>4, SameType, TypeParts DEF TakeTask
  <1>12. ASSUME NEW w \in Workers, WakeUp(w) PROVE TypeOK'
    <2>1. WorldOK'
      BY <1>0, <1>12 DEF WakeUp, WorldOK
    <2>. QED
      BY <1>12, <2>1, SameType, TypeParts DEF WakeUp
  <1>6. CASE LoggerThread
    <2>1. LoggerTypeOK(Messages)'
      <3>0. EmptyLine \in Lines(Messages)
        BY DEF Lines
      <3>1. CASE FirstLine
        <4>1. Append(file, EmptyLine) \in Seq(Lines(Messages))
          BY <1>0, <3>0 DEF LoggerTypeOK
        <4>. QED
          BY <1>0, <3>1, <4>1 DEF FirstLine, Write, LoggerTypeOK
      <3>2. CASE NextLine
        <4>1. Head(m_message_q) \in Lines(Messages) /\ Tail(m_message_q) \in Seq(Lines(Messages))
          BY <1>0, <3>2 DEF NextLine, LoggerTypeOK
        <4>. QED
          BY <1>0, <3>2, <4>1 DEF NextLine, Write, LoggerTypeOK
      <3>. QED
        BY <1>6, <3>1, <3>2 DEF LoggerThread, ThreadLogger
    <2>. QED
      BY <1>6, <2>1, SameType, TypeParts DEF LoggerThread
  <1>7. ASSUME NEW lib \in Libraries, Request(lib) PROVE TypeOK'
    <2>1. requests' \in Seq(Libraries) /\ sent' \in Nat
      BY <1>0, <1>7 DEF Request, ProcessOK
    <2>2. ProcessOK'
      BY <1>0, <1>7, <2>1 DEF Request, ProcessOK
    <2>. QED
      BY <1>7, <2>2, SameType, TypeParts DEF Request
  <1>8. ASSUME NEW lib \in Libraries, PutLibrary(lib) PROVE TypeOK'
    <2>1. events' \in Seq(Libraries \cup {"dummy_die"})
      BY <1>0, <1>8 DEF PutLibrary, ProcessOK
    <2>2. ProcessOK' /\ WorldOK'
      BY <1>0, <1>8, <2>1 DEF PutLibrary, ProcessOK, WorldOK, luckVars
    <2>. QED
      BY <1>8, <2>2, SameType, TypeParts DEF PutLibrary
  <1>9. ASSUME NEW q \in Seq(Ordinary), SingletonReset(Fresh(q)), LoggerReset, ProcessReset
        PROVE  TodoOK' /\ ObjectsOK' /\ LoggerTypeOK(Messages)' /\ ProcessOK'
    <2>1. q \in Seq(Statements)
      BY LoggerLists
    <2>2. TodoOK' /\ ObjectsOK'
      BY <1>9, <2>1 DEF SingletonReset, Fresh, TodoOK, ObjectsOK
    <2>3. LoggerTypeOK(Messages)'
      <3>1. DEBUG \in NONE..DEBUG
        BY DEF NONE, DEBUG
      <3>. QED
        BY <1>9, <3>1, NoList DEF LoggerReset, LoggerTypeOK
    <2>4. ProcessOK'
      BY <1>9, NoList DEF ProcessReset, ProcessOK
    <2>. QED
      BY <2>2, <2>3, <2>4
  <1>10. CASE Kill
    <2>1. <<>> \in Seq(Ordinary)
      OBVIOUS
    <2>2. WorldOK'
      BY <1>0, <1>10 DEF Kill, WorldOK
    <2>. QED
      BY <1>9, <1>10, <2>1, <2>2, TypeParts DEF Kill
  <1>11. CASE Restart
    <2>1. Main(program) \in Seq(Ordinary)
      BY <1>0, OrdinaryLists DEF WorldOK
    <2>2. WorldOK'
      BY <1>0, <1>11 DEF Restart, WorldOK
    <2>. QED
      BY <1>9, <1>11, <2>1, <2>2, TypeParts DEF Restart
  <1>. QED
    BY <1>3, <1>4, <1>5, <1>6, <1>7, <1>8, <1>10, <1>11, <1>12

\* The process is well typed in every state, however often it is killed and
\* started again: every statement names a thing of the right kind.
THEOREM TypeCorrect == SafeSpec => []TypeOK
  <1>1. Init => TypeOK
    <2>. SUFFICES ASSUME Init PROVE TypeOK
      OBVIOUS
    <2>1. Main(program) \in Seq(Statements) /\ program \in Programs
      BY OrdinaryLists, LoggerLists DEF Init
    <2>2. TodoOK /\ ObjectsOK
      BY <2>1 DEF Init, SingletonInit, Fresh, TodoOK, ObjectsOK
    <2>3. LoggerTypeOK(Messages)
      <3>1. DEBUG \in NONE..DEBUG
        BY DEF NONE, DEBUG
      <3>. QED
        BY <3>1, NoList DEF Init, LoggerInit, LoggerTypeOK
    <2>4. ProcessOK
      BY NoList DEF Init, ProcessInit, ProcessOK
    <2>5. missing \subseteq ConfigKeys /\ broken \subseteq Libraries \cup {"nbd", "minions"}
      <3>1. KeysRead(program) \subseteq ConfigKeys
        BY <2>1, FrameWorkAssumption DEF KeysRead, ConfigKeys
      <3>2. Needed(program) \subseteq Libraries \cup {"nbd", "minions"}
        BY DEF Needed
      <3>. QED
        BY <3>1, <3>2 DEF Init
    <2>6. /\ life \in {"running", "exited", "terminated", "killed"} /\ home \subseteq Libraries
          /\ asleep \subseteq Workers /\ found \subseteq Libraries
          /\ hurried \in BOOLEAN /\ astray \in BOOLEAN
      BY DEF Init
    <2>. QED
      BY <2>1, <2>2, <2>3, <2>4, <2>5, <2>6 DEF TypeOK, TodoOK, ObjectsOK, ProcessOK
  <1>2. TypeOK /\ [Next]_vars => TypeOK'
    <2>1. TypeOK /\ UNCHANGED vars => TypeOK'
      BY SameType, TypeParts DEF vars
    <2>. QED
      BY <2>1, AnyThreadType, MainType, OthersType DEF Next
  <1>. QED
    BY <1>1, <1>2, PTL DEF SafeSpec

(***************************************************************************)
(* Inductive invariants.                                                   *)
(***************************************************************************)

\* The two statements that end a construction.
Ends(c) == {<<"store", c>>, <<"atexit", c>>}

\* Who has them to execute is inside the critical section.
InSection ==
    \A t \in Threads, c \in Classes :
       \A i \in DOMAIN todo[t] : todo[t][i] \in Ends(c) => m_mutex[c] = t

\* A thread has each of them once, the store first.
StoreFirst ==
    \A t \in Threads, c \in Classes :
       \A i, j \in DOMAIN todo[t] :
          (i < j /\ todo[t][i] \in Ends(c) /\ todo[t][j] \in Ends(c))
             => todo[t][i] = <<"store", c>> /\ todo[t][j] = <<"atexit", c>>

\* What is to be stored is not there yet.
NotYet ==
    \A t \in Threads, c \in Classes :
       \A i \in DOMAIN todo[t] : todo[t][i] = <<"store", c>> => c \notin m_instance

Construction == InSection /\ StoreFirst /\ NotYet

\* Statements in a list: s is there; a is there once at most, with b after
\* it; every b comes after an a.
Has(list, s) == \E i \in DOMAIN list : list[i] = s

OnceBefore(list, a, b) ==
    \A i \in DOMAIN list :
       list[i] = a => /\ \E j \in DOMAIN list : i < j /\ list[j] = b
                      /\ \A k \in DOMAIN list : list[k] = a => k = i

Preceded(list, a, b) ==
    \A j \in DOMAIN list : list[j] = b => \E i \in DOMAIN list : i < j /\ list[i] = a

\* The logger's thread is started once, before the instance is stored.
ThreadOnce ==
    /\ Has(todo["main"], <<"thread", "Logger">>) => writer = "none"
    /\ OnceBefore(todo["main"], <<"thread", "Logger">>, <<"store", "Logger">>)

\* A thread that has been started belongs to an instance, or to one that main
\* is about to store.
Started ==
    \/ writer = "none"
    \/ "Logger" \in m_instance
    \/ Has(todo["main"], <<"store", "Logger">>)

\* The message that wakes the thread up comes after the flag.
FlagFirst == m_stop_flag \/ Preceded(todo["main"], <<"flag", "Logger">>, <<"push", "stop">>)

\* Until the logger is stopped: nothing is in the file before the thread
\* runs, and nothing is lost or out of order once it does.
Flow ==
    \/ m_stop_flag
    \/ writer \in {"none", "start"} /\ file = <<>>
    \/ writer = "pop" /\ file # <<>> /\ file \o m_message_q = <<EmptyLine>> \o logged

\* Nothing has been taken from the queue before.
Unread == (~m_stop_flag /\ writer \in {"none", "start"}) => m_message_q = logged

Duties == ThreadOnce /\ Started /\ FlagFirst
Text == Flow /\ Unread /\ LogInOrder

(***************************************************************************)
(* What a step does to the lists, the mutexes and the logger.              *)
(***************************************************************************)

\* Thread t goes on with q in place of its first n statements.
Rest(s, n) == IF n = 0 THEN s ELSE Tail(s)

Splice(t, q, n) ==
    /\ n = 1 => todo[t] # <<>>
    /\ todo' = [todo EXCEPT ![t] = q \o Rest(todo[t], n)]

sectionVars == <<m_instance, m_mutex>>

\* The steps by what they do, for q among the ordinary lists.
StandsStill == UNCHANGED <<todo, sectionVars>> /\ (ThreadLogger \/ UNCHANGED loggerVars)

TakesUp(t, q) == Splice(t, q, 0) /\ UNCHANGED <<sectionVars, loggerVars>>

GoesOn(t, s, x, q) ==
    /\ At(t, s, x)
    /\ s \notin {"store", "thread", "flag"}
    /\ Splice(t, q, 1)
    /\ UNCHANGED sectionVars
    /\ \/ UNCHANGED loggerVars
       \/ \E level \in Nat, message \in Messages : Log(level, message)
       \/ SetLevel(DEBUG)
       \/ t = "main" /\ s = "push" /\ x = "stop" /\ PushStop

Builds(t, c) ==
    /\ At(t, "lock", c)
    /\ m_mutex[c] = NoThread /\ c \notin m_instance
    /\ Splice(t, Build(c, Ctor(c)), 1)
    /\ m_mutex' = [m_mutex EXCEPT ![c] = t]
    /\ UNCHANGED <<m_instance, loggerVars>>

Stores(t, c) ==
    /\ At(t, "store", c)
    /\ Splice(t, <<>>, 1)
    /\ m_instance' = m_instance \cup {c}
    /\ UNCHANGED <<m_mutex, loggerVars>>

LetsGo(t, c) ==
    /\ At(t, "atexit", c)
    /\ Splice(t, <<>>, 1)
    /\ m_mutex' = [m_mutex EXCEPT ![c] = NoThread]
    /\ UNCHANGED <<m_instance, loggerVars>>

StartsThread ==
    /\ At("main", "thread", "Logger")
    /\ Splice("main", <<>>, 1)
    /\ StartLogger
    /\ UNCHANGED sectionVars

SetsFlag ==
    /\ At("main", "flag", "Logger")
    /\ Splice("main", <<>>, 1)
    /\ StopFlag
    /\ UNCHANGED sectionVars

DestroysLogger == Splice("main", Dtor("Logger"), 0) /\ UNCHANGED <<sectionVars, loggerVars>>

StartsAfresh == \E q \in Seq(Ordinary) : SingletonReset(Fresh(q)) /\ LoggerReset

Kind ==
    \/ StandsStill
    \/ \E t \in Threads, q \in Seq(Ordinary) : TakesUp(t, q)
    \/ \E t \in Threads, q \in Seq(Ordinary) : \E s, x : GoesOn(t, s, x, q)
    \/ \E t \in Threads, c \in Classes : Builds(t, c) \/ Stores(t, c) \/ LetsGo(t, c)
    \/ StartsThread \/ SetsFlag \/ DestroysLogger
    \/ StartsAfresh

\* Executing a statement is a splice.
LEMMA ThenSplices ==
    ASSUME TodoOK, NEW t \in Threads, NEW s, NEW x, At(t, s, x), NEW q \in Seq(Statements), Then(t, q)
    PROVE  Splice(t, q, 1) /\ <<s, x>> \in Statements
  <1>1. todo[t] \in Seq(Statements) /\ todo[t] # <<>> /\ Head(todo[t]) = <<s, x>>
    BY DEF TodoOK, At
  <1>2. <<s, x>> \in Statements
    BY <1>1
  <1>3. todo' = [todo EXCEPT ![t] = q \o Tail(todo[t])]
    BY DEF Then
  <1>4. Rest(todo[t], 1) = Tail(todo[t])
    BY DEF Rest
  <1>. QED
    BY <1>1, <1>2, <1>3, <1>4 DEF Splice

LEMMA ExecuteSplices ==
    ASSUME TodoOK, NEW t \in Threads, NEW s, NEW x, Execute(t, s, x)
    PROVE  /\ At(t, s, x) /\ Splice(t, <<>>, 1) /\ UNCHANGED sectionVars
           /\ <<s, x>> \in Statements
  <1>1. At(t, s, x) /\ Then(t, <<>>) /\ UNCHANGED sectionVars
    BY DEF Execute, Done, objectVars, sectionVars
  <1>. QED
    BY <1>1, ThenSplices, NoList

\* A statement that has nothing to do with the singletons or the logger.
LEMMA ExecuteKind ==
    ASSUME TodoOK, NEW t \in Threads, NEW s, NEW x, Execute(t, s, x),
           s \notin {"store", "thread", "flag"}, UNCHANGED loggerVars
    PROVE  Kind
  <1>1. GoesOn(t, s, x, <<>>) /\ <<>> \in Seq(Ordinary)
    BY ExecuteSplices, NoList DEF GoesOn
  <1>. QED
    BY <1>1 DEF Kind

LEMMA ThenKind ==
    ASSUME TodoOK, NEW t \in Threads, NEW s, NEW x, At(t, s, x), NEW q \in Seq(Ordinary), Then(t, q),
           s \notin {"store", "thread", "flag"}, UNCHANGED <<sectionVars, loggerVars>>
    PROVE  Kind
  <1>1. q \in Seq(Statements)
    BY LoggerLists
  <1>2. GoesOn(t, s, x, q)
    BY <1>1, ThenSplices DEF GoesOn
  <1>. QED
    BY <1>2 DEF Kind

LEMMA BeginKind ==
    ASSUME TodoOK, NEW t \in Threads, NEW q \in Seq(Ordinary), Begin(t, q), UNCHANGED loggerVars
    PROVE  Kind
  <1>1. todo[t] = <<>> /\ todo' = [todo EXCEPT ![t] = q] /\ UNCHANGED sectionVars
    BY DEF Begin, objectVars, sectionVars
  <1>2. q \o <<>> = q
    BY ConcatEmptySeq
  <1>3. TakesUp(t, q)
    BY <1>1, <1>2 DEF TakesUp, Splice, Rest
  <1>. QED
    BY <1>3 DEF Kind

LEMMA SingletonKind ==
    ASSUME TodoOK, NEW t \in Threads, NEW x, UNCHANGED loggerVars,
           GetInstance(t, x, Ctor(x)) \/ Make(t, x) \/ Use(t, x) \/ Drop(t, x)
    PROVE  Kind
  <1>1. ASSUME FirstLoad(t, x) PROVE Kind
    <2>1. At(t, "get", x) /\ UNCHANGED sectionVars
      BY <1>1 DEF FirstLoad, sectionVars
    <2>2. <<"get", x>> \in Statements
      BY <2>1, AtType
    <2>3. <<<<"lock", x>>>> \in Seq(Ordinary) /\ <<>> \in Seq(Ordinary)
      <3>1. x \in Classes
        BY <2>2, StatementKinds
      <3>2. <<"lock", x>> \in Ordinary
        BY <3>1, OrdinaryStatements
      <3>. QED
        BY <3>2, ShortLists
    <2>4. PICK q \in Seq(Ordinary) : Then(t, q)
      <3>1. CASE x \in m_instance
        BY <1>1, <2>3, <3>1 DEF FirstLoad
      <3>2. CASE x \notin m_instance
        BY <1>1, <2>3, <3>2 DEF FirstLoad
      <3>. QED
        BY <3>1, <3>2
    <2>. QED
      BY <2>1, <2>4, ThenKind
  <1>2. ASSUME LockedLoad(t, x, Ctor(x)) PROVE Kind
    <2>1. At(t, "lock", x) /\ m_mutex[x] = NoThread /\ UNCHANGED m_instance
      BY <1>2 DEF LockedLoad
    <2>2. <<"lock", x>> \in Statements /\ x \in Classes
      BY <2>1, AtType, StatementKinds
    <2>3. CASE Done(t) /\ UNCHANGED m_mutex
      <3>1. Then(t, <<>>) /\ UNCHANGED sectionVars
        BY <2>1, <2>3 DEF Done, sectionVars
      <3>2. <<>> \in Seq(Ordinary)
        BY NoList
      <3>3. UNCHANGED <<sectionVars, loggerVars>> /\ "lock" \notin {"store", "thread", "flag"}
        BY <3>1
      <3>. QED
        BY <2>1, <3>1, <3>2, <3>3, ThenKind
    <2>4. CASE x \notin m_instance /\ Then(t, Build(x, Ctor(x))) /\ m_mutex' = [m_mutex EXCEPT ![x] = t]
      <3>1. Build(x, Ctor(x)) \in Seq(Statements)
        <4>1. Ctor(x) \in Seq(Statements)
          BY <2>2, OrdinaryLists, LoggerLists
        <4>2. <<"store", x>> \in Statements /\ <<"atexit", x>> \in Statements
          BY <2>2 DEF Statements
        <4>3. <<<<"store", x>>, <<"atexit", x>>>> \in Seq(Statements)
          BY <4>2
        <4>. QED
          BY <4>1, <4>3, ConcatProperties DEF Build
      <3>2. Builds(t, x)
        BY <2>1, <2>4, <3>1, ThenSplices DEF Builds
      <3>. QED
        BY <2>2, <3>2 DEF Kind
    <2>. QED
      BY <1>2, <2>3, <2>4 DEF LockedLoad
  <1>3. ASSUME NEW s, At(t, s, x), Done(t) PROVE Splice(t, <<>>, 1) /\ <<s, x>> \in Statements
    BY <1>3, ThenSplices, NoList DEF Done
  <1>4. ASSUME Store(t, x) PROVE Kind
    <2>1. Stores(t, x) /\ <<"store", x>> \in Statements
      BY <1>3, <1>4 DEF Store, Stores
    <2>. QED
      BY <2>1, StatementKinds DEF Kind
  <1>5. ASSUME AtExit(t, x) PROVE Kind
    <2>1. LetsGo(t, x) /\ <<"atexit", x>> \in Statements
      BY <1>3, <1>5 DEF AtExit, LetsGo
    <2>. QED
      BY <2>1, StatementKinds DEF Kind
  <1>6. ASSUME Make(t, x) \/ Use(t, x) \/ Drop(t, x) PROVE Kind
    <2>1. PICK s \in {"make", "use", "drop"} : At(t, s, x)
      BY <1>6 DEF Make, Use, Drop
    <2>2. Then(t, <<>>) /\ UNCHANGED sectionVars
      BY <1>6 DEF Make, Use, Drop, Done, sectionVars
    <2>. QED
      BY <2>1, <2>2, ThenKind, NoList
  <1>. QED
    BY <1>1, <1>2, <1>4, <1>5, <1>6 DEF GetInstance

LEMMA AnyThreadKind ==
    ASSUME TypeOK, NEW t \in Threads, AnyThread(t)
    PROVE  Kind
  <1>. DEFINE x == Head(todo[t])[2]
  <1>0. TodoOK
    BY TypeParts
  <1>. HIDE DEF x
  <1>1. CASE SingletonStep(t, x)
    BY <1>0, <1>1, SingletonKind DEF SingletonStep
  <1>7. CASE MakeMediator(t)
    BY <1>0, <1>7, SingletonKind DEF MakeMediator
  <1>8. CASE WaitForMinions(t)
    BY <1>0, <1>8, ExecuteKind DEF WaitForMinions
  <1>2. CASE GetConfig(t, x)
    BY <1>0, <1>2, ExecuteKind DEF GetConfig
  <1>3. CASE LogMessage(t, x)
    <2>1. At(t, "log", x) /\ Splice(t, <<>>, 1) /\ UNCHANGED sectionVars /\ <<"log", x>> \in Statements
      BY <1>0, <1>3, ExecuteSplices DEF LogMessage
    <2>2. x \in Messages
      BY <2>1, StatementKinds
    <2>3. \E level \in Nat, message \in Messages : Log(level, message)
      <3>1. INFORMATION \in Nat /\ ERROR \in Nat
        BY DEF INFORMATION, ERROR
      <3>. QED
        BY <1>3, <2>2, <3>1 DEF LogMessage
    <2>4. GoesOn(t, "log", x, <<>>)
      BY <2>1, <2>3 DEF GoesOn
    <2>5. <<>> \in Seq(Ordinary)
      BY NoList
    <2>. QED
      BY <2>4, <2>5 DEF Kind
  <1>4. CASE Add(t, x)
    BY <1>0, <1>4, ExecuteKind DEF Add
  <1>5. CASE AddTask(t, x)
    BY <1>0, <1>5, ExecuteKind DEF AddTask
  <1>6. CASE Create(t, x)
    <2>0. At(t, "create", x) /\ x \in Libraries
      BY <1>0, <1>6, AtType, StatementKinds DEF Create
    <2>1. Then(t, CommandRun) /\ CommandRun \in Seq(Ordinary)
      BY <1>6, <2>0, OrdinaryLists DEF Create
    <2>2. UNCHANGED <<sectionVars, loggerVars>>
      BY <1>6 DEF Create, objectVars, sectionVars
    <2>. QED
      BY <1>0, <2>0, <2>1, <2>2, ThenKind
  <1>. QED
    BY <1>1, <1>2, <1>3, <1>4, <1>5, <1>6, <1>7, <1>8 DEF AnyThread, x

LEMMA MainKind ==
    ASSUME TypeOK, MainThread
    PROVE  Kind
  <1>0. TodoOK /\ "main" \in Threads /\ <<>> \in Seq(Ordinary)
    BY TypeParts, NamesInLists, NoList
  <1>1. CASE StartLoggerThread
    <2>1. StartsThread
      BY <1>0, <1>1, ExecuteSplices DEF StartLoggerThread, StartsThread
    <2>. QED
      BY <2>1 DEF Kind
  <1>2. CASE SetupNbdFD
    <2>1. LOG("nbd open failed") \o <<<<"throw", "main">>>> \in Seq(Ordinary)
      <3>1. <<"throw", "main">> \in Ordinary
        BY OrdinaryStatements
      <3>2. <<<<"throw", "main">>>> \in Seq(Ordinary)
        BY <3>1, ShortLists
      <3>3. LOG("nbd open failed") \in Seq(Ordinary)
        BY OrdinaryLists, NamesInLists
      <3>. QED
        BY <3>2, <3>3, ConcatProperties
    <2>2. PICK q \in Seq(Ordinary) : Then("main", q)
      <3>1. CASE "nbd" \in broken
        BY <1>2, <2>1, <3>1 DEF SetupNbdFD
      <3>2. CASE "nbd" \notin broken
        BY <1>0, <1>2, <3>2 DEF SetupNbdFD
      <3>. QED
        BY <3>1, <3>2
    <2>3. At("main", "setup", "main") /\ UNCHANGED <<sectionVars, loggerVars>>
      BY <1>2 DEF SetupNbdFD, objectVars, sectionVars
    <2>. QED
      BY <1>0, <2>2, <2>3, ThenKind
  <1>3. CASE SetDebug
    <2>1. GoesOn("main", "level", "main", <<>>)
      BY <1>0, <1>3, ExecuteSplices DEF SetDebug, GoesOn
    <2>. QED
      BY <1>0, <2>1 DEF Kind
  <1>4. CASE Watch \/ Throw \/ RegisterProxy
    BY <1>0, <1>4, ExecuteKind DEF Watch, Throw, RegisterProxy
  <1>5. CASE \E lib \in Libraries : Move(lib)
    BY <1>0, <1>5, ExecuteKind DEF Move
  <1>6. CASE Sleep \/ Served \/ JoinMonitor \/ Mkfs \/ SayUp \/ StoreStop \/ StopMediator
    BY <1>0, <1>6, ExecuteKind DEF Sleep, Served, JoinMonitor, Mkfs, SayUp, StoreStop, StopMediator
  <1>7. CASE StopLogger
    <2>1. CASE Execute("main", "flag", "Logger") /\ StopFlag
      <3>1. SetsFlag
        BY <1>0, <2>1, ExecuteSplices DEF SetsFlag
      <3>. QED
        BY <3>1 DEF Kind
    <2>2. CASE Execute("main", "push", "stop") /\ PushStop
      <3>1. GoesOn("main", "push", "stop", <<>>)
        BY <1>0, <2>2, ExecuteSplices DEF GoesOn
      <3>. QED
        BY <1>0, <3>1 DEF Kind
    <2>3. CASE Execute("main", "join", "Logger") /\ JoinLogger
      BY <1>0, <2>3, ExecuteKind DEF JoinLogger
    <2>. QED
      BY <1>7, <2>1, <2>2, <2>3 DEF StopLogger
  <1>8. CASE CreateDir
    <2>1. LOG("mkdir dir fail") \in Seq(Ordinary)
      BY OrdinaryLists, NamesInLists
    <2>2. PICK q \in Seq(Ordinary) : Then("main", q)
      BY <1>0, <1>8, <2>1 DEF CreateDir, Done
    <2>3. At("main", "createDir", "main") /\ UNCHANGED <<sectionVars, loggerVars>>
      BY <1>8 DEF CreateDir, objectVars, sectionVars
    <2>. QED
      BY <1>0, <2>2, <2>3, ThenKind
  <1>9. CASE Exit
    <2>1. ASSUME NEW c \in Classes, ExitFunc("main", Dtor(c)), UNCHANGED loggerVars PROVE Kind
      <3>1. Splice("main", Dtor(c), 0) /\ UNCHANGED <<sectionVars, loggerVars>>
        BY <2>1 DEF ExitFunc, Splice, Rest, sectionVars
      <3>2. CASE c = "Logger"
        BY <3>1, <3>2 DEF DestroysLogger, Kind
      <3>3. CASE c # "Logger"
        <4>1. Dtor(c) \in Seq(Ordinary)
          BY <3>3, OrdinaryLists
        <4>2. TakesUp("main", Dtor(c))
          BY <3>1 DEF TakesUp
        <4>. QED
          BY <1>0, <4>1, <4>2 DEF Kind
      <3>. QED
        BY <3>2, <3>3
    <2>2. CASE Execute("main", "exit", "main") /\ UNCHANGED loggerVars
      BY <1>0, <2>2, ExecuteKind
    <2>. QED
      BY <1>9, <2>1, <2>2 DEF Exit
  <1>. QED
    BY <1>1, <1>2, <1>3, <1>4, <1>5, <1>6, <1>7, <1>8, <1>9 DEF MainThread

\* Every step is of one of the kinds.
LEMMA StepKind ==
    ASSUME TypeOK, [Next]_vars
    PROVE  Kind
  <1>0. /\ TodoOK /\ ProcessOK /\ WorldOK /\ <<>> \in Seq(Ordinary)
        /\ {"main", "monitor", "reactor"} \cup Workers = Threads
    BY TypeParts, NamesInLists, NoList
  <1>1. CASE UNCHANGED vars
    <2>1. StandsStill
      BY <1>1 DEF vars, StandsStill, singletonVars, sectionVars
    <2>. QED
      BY <2>1 DEF Kind
  <1>2. CASE Monitor
    <2>1. CASE Begin("monitor", <<>>)
      BY <1>0, <1>2, <2>1, BeginKind DEF Monitor
    <2>2. CASE /\ events # <<>>
               /\ Head(events) # "dummy_die" /\ Begin("monitor", Broadcast(Head(events)))
      <3>1. events \in Seq(Libraries \cup {"dummy_die"})
        BY <1>0 DEF ProcessOK
      <3>2. Head(events) \in Libraries \cup {"dummy_die"}
        BY <2>2, <3>1
      <3>3. PICK q \in Seq(Ordinary) : Begin("monitor", q)
        BY <1>0, <2>2, <3>2, OrdinaryLists
      <3>. QED
        BY <1>0, <1>2, <3>3, BeginKind DEF Monitor
    <2>. QED
      BY <1>2, <2>1, <2>2 DEF Monitor
  <1>3. CASE ReadRequest
    <2>1. requests \in Seq(Libraries) /\ requests # <<>>
      BY <1>0, <1>3 DEF ProcessOK, ReadRequest
    <2>2. Head(requests) \in Libraries
      BY <2>1
    <2>3. ReactorHandler(Head(requests)) \in Seq(Ordinary)
      BY <2>2, OrdinaryLists
    <2>. QED
      BY <1>0, <1>3, <2>3, BeginKind DEF ReadRequest
  <1>4. ASSUME NEW w \in Workers, TakeTask(w) PROVE Kind
    <2>1. tasks \in Seq(Libraries) /\ tasks # <<>>
      BY <1>0, <1>4 DEF ProcessOK, TakeTask
    <2>2. Head(tasks) \in Libraries
      BY <2>1
    <2>3. <<"create", Head(tasks)>> \in Ordinary
      BY <2>2, OrdinaryStatements
    <2>4. <<<<"create", Head(tasks)>>>> \in Seq(Ordinary)
      BY <2>3, ShortLists
    <2>. QED
      BY <1>0, <1>4, <2>4, BeginKind DEF TakeTask
  <1>9. CASE \E w \in Workers : WakeUp(w)
    <2>1. StandsStill
      BY <1>9 DEF WakeUp, StandsStill, singletonVars, sectionVars
    <2>. QED
      BY <2>1 DEF Kind
  <1>5. CASE LoggerThread
    <2>1. StandsStill
      BY <1>5 DEF LoggerThread, StandsStill, singletonVars, sectionVars
    <2>. QED
      BY <2>1 DEF Kind
  <1>6. CASE \E lib \in Libraries : Request(lib) \/ PutLibrary(lib)
    <2>1. StandsStill
      BY <1>6 DEF Request, PutLibrary, StandsStill, singletonVars, sectionVars
    <2>. QED
      BY <2>1 DEF Kind
  <1>7. CASE Kill
    <2>1. StartsAfresh
      BY <1>0, <1>7 DEF Kill, StartsAfresh
    <2>. QED
      BY <2>1 DEF Kind
  <1>8. CASE Restart
    <2>1. Main(program) \in Seq(Ordinary)
      BY <1>0, OrdinaryLists DEF WorldOK
    <2>2. StartsAfresh
      BY <1>8, <2>1 DEF Restart, StartsAfresh
    <2>. QED
      BY <2>2 DEF Kind
  <1>. QED
    BY <1>1, <1>2, <1>3, <1>4, <1>5, <1>6, <1>7, <1>8, <1>9, AnyThreadKind, MainKind DEF Next

(***************************************************************************)
(* Construction.                                                           *)
(***************************************************************************)

\* l is s with q in place of its first n statements: where the statements of
\* l come from, and where those of s have gone.
Moved(l, q, s, n) ==
    /\ \A i \in DOMAIN l :
          \/ i \in DOMAIN q /\ l[i] = q[i]
          \/ i > Len(q) /\ i - Len(q) + n \in DOMAIN s /\ l[i] = s[i - Len(q) + n]
    /\ \A k \in DOMAIN s : k > n => k - n + Len(q) \in DOMAIN l /\ l[k - n + Len(q)] = s[k]
    /\ \A i \in DOMAIN q : i \in DOMAIN l /\ l[i] = q[i]

LEMMA Spliced ==
    ASSUME NEW S, NEW q \in Seq(S), NEW s \in Seq(S), NEW n \in {0, 1}, n = 1 => s # <<>>
    PROVE  q \o Rest(s, n) \in Seq(S) /\ Moved(q \o Rest(s, n), q, s, n)
  <1>. DEFINE r == Rest(s, n)
  <1>1. /\ r \in Seq(S) /\ Len(r) = Len(s) - n
        /\ \A i \in 1..Len(r) : i + n \in 1..Len(s) /\ r[i] = s[i + n]
    <2>1. CASE n = 0
      BY <2>1 DEF Rest
    <2>2. CASE n = 1
      BY <2>2, HeadTailProperties DEF Rest
    <2>. QED
      BY <2>1, <2>2
  <1>. HIDE DEF r
  <1>2. /\ q \o r \in Seq(S) /\ Len(q \o r) = Len(q) + Len(r)
        /\ \A i \in 1..(Len(q) + Len(r)) : (q \o r)[i] = IF i <= Len(q) THEN q[i] ELSE r[i - Len(q)]
    BY <1>1, ConcatProperties
  <1>3. DOMAIN q = 1..Len(q) /\ DOMAIN s = 1..Len(s) /\ DOMAIN (q \o r) = 1..(Len(q) + Len(r))
        /\ Len(q) \in Nat /\ Len(s) \in Nat /\ Len(r) \in Nat
    BY <1>1, <1>2
  <1>4. ASSUME NEW i \in DOMAIN (q \o r)
        PROVE  \/ i \in DOMAIN q /\ (q \o r)[i] = q[i]
               \/ i > Len(q) /\ i - Len(q) + n \in DOMAIN s /\ (q \o r)[i] = s[i - Len(q) + n]
    <2>1. CASE i <= Len(q)
      BY <1>2, <1>3, <2>1
    <2>2. CASE i > Len(q)
      <3>1. i - Len(q) \in 1..Len(r) /\ i \in 1..(Len(q) + Len(r)) /\ ~(i <= Len(q))
        BY <1>3, <2>2
      <3>2. (q \o r)[i] = r[i - Len(q)]
        BY <1>2, <3>1
      <3>. QED
        BY <1>1, <1>3, <2>2, <3>1, <3>2
    <2>. QED
      BY <1>3, <2>1, <2>2
  <1>5. ASSUME NEW k \in DOMAIN s, k > n
        PROVE  k - n + Len(q) \in DOMAIN (q \o r) /\ (q \o r)[k - n + Len(q)] = s[k]
    <2>1. k - n \in 1..Len(r) /\ k - n + Len(q) \in 1..(Len(q) + Len(r)) /\ ~(k - n + Len(q) <= Len(q))
      BY <1>1, <1>3, <1>5
    <2>2. r[k - n] = s[k]
      <3>1. \A i \in 1..Len(r) : i + n = k => r[i] = s[k]
        BY <1>1
      <3>2. k \in Int /\ n \in Int
        BY <1>3
      <3>3. (k - n) + n = k
        BY <3>2
      <3>. QED
        BY <2>1, <3>1, <3>3
    <2>3. (q \o r)[k - n + Len(q)] = r[(k - n + Len(q)) - Len(q)] /\ (k - n + Len(q)) - Len(q) = k - n
      BY <1>2, <1>3, <2>1
    <2>. QED
      BY <1>3, <2>1, <2>2, <2>3
  <1>6. ASSUME NEW i \in DOMAIN q PROVE i \in DOMAIN (q \o r) /\ (q \o r)[i] = q[i]
    BY <1>2, <1>3
  <1>. QED
    BY <1>2, <1>4, <1>5, <1>6 DEF r, Moved

\* The lists of the threads after a splice.
LEMMA SplicedLists ==
    ASSUME TodoOK, NEW t \in Threads, NEW q \in Seq(Statements), NEW n \in {0, 1}, Splice(t, q, n)
    PROVE  /\ TodoOK'
           /\ \A u \in Threads : u # t => todo'[u] = todo[u]
           /\ todo'[t] \in Seq(Statements) /\ todo[t] \in Seq(Statements)
           /\ Moved(todo'[t], q, todo[t], n)
  <1>1. todo[t] \in Seq(Statements) /\ (n = 1 => todo[t] # <<>>)
    BY DEF TodoOK, Splice
  <1>2. q \o Rest(todo[t], n) \in Seq(Statements)
    BY <1>1, Spliced
  <1>3. todo'[t] = q \o Rest(todo[t], n) /\ TodoOK' /\ \A u \in Threads : u # t => todo'[u] = todo[u]
    BY <1>2 DEF TodoOK, Splice
  <1>4. Moved(q \o Rest(todo[t], n), q, todo[t], n)
    BY <1>1, Spliced
  <1>. QED
    BY <1>1, <1>2, <1>3, <1>4

\* Nothing in q ends a construction.
NoEnds(q) == \A i \in DOMAIN q : \A c : q[i] \notin Ends(c)

LEMMA NoEndsInLists ==
    /\ \A q \in Seq(Ordinary) : q \in Seq(Statements) /\ NoEnds(q)
    /\ \A c \in Classes : Ctor(c) \in Seq(Statements) /\ NoEnds(Ctor(c))
    /\ NoEnds(Dtor("Logger")) /\ Dtor("Logger") \in Seq(Statements)
    /\ NoEnds(<<>>) /\ <<>> \in Seq(Statements)
  <1>1. \A q \in Seq(Ordinary) : q \in Seq(Statements)
    BY LoggerLists
  <1>2. ASSUME NEW o \in Ordinary, NEW c PROVE o \notin Ends(c)
    BY DEF Ordinary, Ends
  <1>3. ASSUME NEW q \in Seq(Ordinary) PROVE NoEnds(q)
    <2>1. \A i \in DOMAIN q : q[i] \in Ordinary
      OBVIOUS
    <2>. QED
      BY <1>2, <2>1 DEF NoEnds
  <1>4. NoEnds(Ctor("Logger"))
    <2>. DEFINE p == GET_CONFIG("LOG_PATH")
                r == <<<<"thread", "Logger">>, <<"make", "Logger">>>>
    <2>1. p \in Seq(Ordinary) /\ p \in Seq(Statements)
      BY <1>1, OrdinaryLists, NamesInLists
    <2>2. r \in Seq(Statements) /\ Len(r) = 2 /\ r[1] = <<"thread", "Logger">> /\ r[2] = <<"make", "Logger">>
      <3>1. <<"thread", "Logger">> \in Statements /\ <<"make", "Logger">> \in Statements
        BY NamesInLists DEF Statements
      <3>. QED
        BY <3>1
    <2>3. Ctor("Logger") = p \o r
      BY LoggerLists
    <2>4. NoEnds(p)
      BY <1>3, <2>1
    <2>. HIDE DEF p, r
    <2>5. ASSUME NEW i \in DOMAIN (p \o r) PROVE (i \in DOMAIN p /\ (p \o r)[i] = p[i]) \/ (p \o r)[i] \in {r[1], r[2]}
      BY <2>1, <2>2, ConcatProperties
    <2>6. \A c : r[1] \notin Ends(c) /\ r[2] \notin Ends(c)
      BY <2>2 DEF Ends
    <2>. QED
      BY <2>3, <2>4, <2>5, <2>6 DEF NoEnds
  <1>5. NoEnds(Dtor("Logger"))
    <2>1. Dtor("Logger") = <<<<"flag", "Logger">>, <<"push", "stop">>, <<"join", "Logger">>,
                             <<"drop", "Logger">>>>
      BY LoggerLists
    <2>2. \A i \in DOMAIN Dtor("Logger") : Dtor("Logger")[i][1] \in {"flag", "push", "join", "drop"}
      BY <2>1
    <2>3. \A c : \A e \in Ends(c) : e[1] \in {"store", "atexit"}
      BY DEF Ends
    <2>. QED
      BY <2>2, <2>3 DEF NoEnds
  <1>6. \A c \in Classes : NoEnds(Ctor(c)) /\ Ctor(c) \in Seq(Statements)
    BY <1>1, <1>3, <1>4, OrdinaryLists, LoggerLists
  <1>7. <<>> \in Seq(Ordinary)
    BY NoList
  <1>. QED
    BY <1>1, <1>3, <1>5, <1>6, <1>7, LoggerLists

\* Every end of a construction that is in a list after a splice, and not
\* in q, was there before; two of them are in the same order.
LEMMA EndsMove ==
    ASSUME NEW S, NEW l \in Seq(S), NEW q \in Seq(S), NEW s \in Seq(S), NEW n \in {0, 1},
           Moved(l, q, s, n), NEW c, \A i \in DOMAIN q : q[i] \notin Ends(c)
    PROVE  /\ \A i \in DOMAIN l : l[i] \in Ends(c) => \E k \in DOMAIN s : k > n /\ l[i] = s[k]
           /\ \A i, j \in DOMAIN l :
                 (i < j /\ l[i] \in Ends(c) /\ l[j] \in Ends(c))
                    => \E k, m \in DOMAIN s : n < k /\ k < m /\ l[i] = s[k] /\ l[j] = s[m]
  <1>0. /\ DOMAIN l = 1..Len(l) /\ DOMAIN q = 1..Len(q) /\ DOMAIN s = 1..Len(s)
        /\ Len(l) \in Nat /\ Len(q) \in Nat /\ Len(s) \in Nat
    OBVIOUS
  <1>1. ASSUME NEW i \in DOMAIN l, l[i] \in Ends(c)
        PROVE  i > Len(q) /\ i - Len(q) + n \in DOMAIN s /\ l[i] = s[i - Len(q) + n]
    BY <1>1 DEF Moved
  <1>2. ASSUME NEW i \in DOMAIN l, i > Len(q) PROVE i - Len(q) + n > n
    BY <1>0, <1>2
  <1>3. ASSUME NEW i \in DOMAIN l, NEW j \in DOMAIN l, i < j PROVE i - Len(q) + n < j - Len(q) + n
    BY <1>0, <1>3
  <1>4. ASSUME NEW i \in DOMAIN l, NEW j \in DOMAIN l, i < j, l[i] \in Ends(c), l[j] \in Ends(c)
        PROVE  \E k, m \in DOMAIN s : n < k /\ k < m /\ l[i] = s[k] /\ l[j] = s[m]
    <2>1. i > Len(q) /\ i - Len(q) + n \in DOMAIN s /\ l[i] = s[i - Len(q) + n]
      BY <1>1, <1>4
    <2>2. j - Len(q) + n \in DOMAIN s /\ l[j] = s[j - Len(q) + n]
      BY <1>1, <1>4
    <2>3. n < i - Len(q) + n
      BY <1>0, <2>1
    <2>4. i - Len(q) + n < j - Len(q) + n
      BY <1>3, <1>4
    <2>. QED
      BY <2>1, <2>2, <2>3, <2>4
  <1>5. ASSUME NEW i \in DOMAIN l, l[i] \in Ends(c) PROVE \E k \in DOMAIN s : k > n /\ l[i] = s[k]
    <2>1. i > Len(q) /\ i - Len(q) + n \in DOMAIN s /\ l[i] = s[i - Len(q) + n]
      BY <1>1, <1>5
    <2>2. i - Len(q) + n > n
      BY <1>2, <2>1
    <2>. QED
      BY <2>1, <2>2
  <1>. QED
    BY <1>4, <1>5

\* The same for the threads.
LEMMA SpliceEnds ==
    ASSUME TodoOK, NEW t \in Threads, NEW q \in Seq(Statements), NEW n \in {0, 1}, Splice(t, q, n),
           NEW c, \A i \in DOMAIN q : q[i] \notin Ends(c), NEW u \in Threads
    PROVE  /\ \A i \in DOMAIN todo'[u] :
                 todo'[u][i] \in Ends(c)
                    => \E k \in DOMAIN todo[u] : (u = t => k > n) /\ todo'[u][i] = todo[u][k]
           /\ \A i, j \in DOMAIN todo'[u] :
                 (i < j /\ todo'[u][i] \in Ends(c) /\ todo'[u][j] \in Ends(c))
                    => \E k, m \in DOMAIN todo[u] :
                          k < m /\ todo'[u][i] = todo[u][k] /\ todo'[u][j] = todo[u][m]
  <1>1. CASE u # t
    <2>1. todo'[u] = todo[u]
      BY <1>1, SplicedLists
    <2>. QED
      BY <1>1, <2>1
  <1>2. CASE u = t
    <2>. DEFINE l == todo'[t]
                s == todo[t]
    <2>1. l \in Seq(Statements) /\ s \in Seq(Statements) /\ Moved(l, q, s, n)
      BY SplicedLists
    <2>. HIDE DEF l, s
    <2>2. /\ \A i \in DOMAIN l : l[i] \in Ends(c) => \E k \in DOMAIN s : k > n /\ l[i] = s[k]
          /\ \A i, j \in DOMAIN l :
                (i < j /\ l[i] \in Ends(c) /\ l[j] \in Ends(c))
                   => \E k, m \in DOMAIN s : n < k /\ k < m /\ l[i] = s[k] /\ l[j] = s[m]
      BY <2>1, EndsMove
    <2>. QED
      BY <1>2, <2>2 DEF l, s
  <1>. QED
    BY <1>1, <1>2

LEMMA EndsStay ==
    ASSUME TodoOK, NEW t \in Threads, NEW q \in Seq(Statements), NEW n \in {0, 1}, Splice(t, q, n),
           NoEnds(q), NEW u \in Threads, NEW c, NEW i \in DOMAIN todo'[u], todo'[u][i] \in Ends(c)
    PROVE  \E k \in DOMAIN todo[u] : (u = t => k > n) /\ todo'[u][i] = todo[u][k]
  <1>1. \A k \in DOMAIN q : q[k] \notin Ends(c)
    BY DEF NoEnds
  <1>. QED
    BY <1>1, SpliceEnds

\* Lists without ends do not disturb the order of those that are there.
LEMMA OrderKept ==
    ASSUME TodoOK, StoreFirst, NEW t \in Threads, NEW q \in Seq(Statements), NEW n \in {0, 1},
           Splice(t, q, n), NoEnds(q)
    PROVE  StoreFirst'
  <1>. SUFFICES ASSUME NEW u \in Threads, NEW c \in Classes,
                       NEW i \in DOMAIN todo'[u], NEW j \in DOMAIN todo'[u],
                       i < j, todo'[u][i] \in Ends(c), todo'[u][j] \in Ends(c)
                PROVE  todo'[u][i] = <<"store", c>> /\ todo'[u][j] = <<"atexit", c>>
    BY DEF StoreFirst
  <1>1. \A k \in DOMAIN q : q[k] \notin Ends(c)
    BY DEF NoEnds
  <1>2. PICK k, m \in DOMAIN todo[u] : k < m /\ todo'[u][i] = todo[u][k] /\ todo'[u][j] = todo[u][m]
    BY <1>1, SpliceEnds
  <1>. QED
    BY <1>2 DEF StoreFirst

LEMMA UnstoredKept ==
    ASSUME TodoOK, NotYet, NEW t \in Threads, NEW q \in Seq(Statements), NEW n \in {0, 1},
           Splice(t, q, n), NoEnds(q), UNCHANGED m_instance
    PROVE  NotYet'
  <1>. SUFFICES ASSUME NEW u \in Threads, NEW c \in Classes, NEW i \in DOMAIN todo'[u],
                       todo'[u][i] = <<"store", c>>
                PROVE  c \notin m_instance
    BY DEF NotYet
  <1>1. todo'[u][i] \in Ends(c)
    BY DEF Ends
  <1>2. PICK k \in DOMAIN todo[u] : todo[u][k] = <<"store", c>>
    BY <1>1, EndsStay
  <1>. QED
    BY <1>2 DEF NotYet

\* What leaves the mutexes and the instances alone.
LEMMA QuietConstruction ==
    ASSUME TodoOK, Construction, NEW t \in Threads, NEW q \in Seq(Statements), NEW n \in {0, 1},
           Splice(t, q, n), NoEnds(q), UNCHANGED sectionVars
    PROVE  Construction'
  <1>1. ASSUME NEW u \in Threads, NEW c \in Classes, NEW i \in DOMAIN todo'[u], todo'[u][i] \in Ends(c)
        PROVE  \E k \in DOMAIN todo[u] : todo'[u][i] = todo[u][k]
    BY <1>1, EndsStay
  <1>2. InSection'
    BY <1>1 DEF Construction, InSection, sectionVars
  <1>3. NotYet'
    BY UnstoredKept DEF Construction, sectionVars
  <1>. QED
    BY <1>2, <1>3, OrderKept DEF Construction

\* The statement that thread t has come to is the first of its list.
LEMMA FirstStatement ==
    ASSUME TodoOK, NEW t \in Threads, NEW s, NEW x, At(t, s, x)
    PROVE  1 \in DOMAIN todo[t] /\ todo[t][1] = <<s, x>> /\ \A k \in DOMAIN todo[t] : k \in Nat
  <1>1. todo[t] \in Seq(Statements) /\ todo[t] # <<>> /\ Head(todo[t]) = <<s, x>>
    BY AtType
  <1>. QED
    BY <1>1

LEMMA StoreConstruction ==
    ASSUME TodoOK, Construction, NEW t \in Threads, NEW c \in Classes, Stores(t, c)
    PROVE  Construction'
  <1>0. /\ At(t, "store", c) /\ Splice(t, <<>>, 1) /\ m_mutex' = m_mutex
        /\ m_instance' = m_instance \cup {c} /\ NoEnds(<<>>) /\ <<>> \in Seq(Statements) /\ 1 \in {0, 1}
    BY NoEndsInLists DEF Stores
  <1>1. ASSUME NEW u \in Threads, NEW d \in Classes, NEW i \in DOMAIN todo'[u], todo'[u][i] \in Ends(d)
        PROVE  \E k \in DOMAIN todo[u] : (u = t => k > 1) /\ todo'[u][i] = todo[u][k]
    BY <1>0, <1>1, EndsStay
  <1>2. 1 \in DOMAIN todo[t] /\ todo[t][1] = <<"store", c>> /\ \A k \in DOMAIN todo[t] : k \in Nat
    BY <1>0, FirstStatement
  <1>3. InSection'
    BY <1>0, <1>1 DEF Construction, InSection
  <1>4. NotYet'
    <2>. SUFFICES ASSUME NEW u \in Threads, NEW d \in Classes, NEW i \in DOMAIN todo'[u],
                         todo'[u][i] = <<"store", d>>
                  PROVE  d \notin m_instance \cup {c}
      BY <1>0 DEF NotYet
    <2>1. <<"store", d>> \in Ends(d) /\ <<"store", c>> \in Ends(c)
      BY DEF Ends
    <2>2. PICK k \in DOMAIN todo[u] : (u = t => k > 1) /\ todo[u][k] = <<"store", d>>
      BY <1>1, <2>1
    <2>3. d \notin m_instance
      BY <2>2 DEF Construction, NotYet
    <2>4. ASSUME d = c PROVE FALSE
      <3>1. m_mutex[c] = u /\ m_mutex[c] = t
        BY <1>2, <2>1, <2>2, <2>4 DEF Construction, InSection
      <3>2. <<"store", c>> = <<"atexit", c>>
        BY <1>2, <2>1, <2>2, <2>4, <3>1 DEF Construction, StoreFirst
      <3>. QED
        BY <3>2
    <2>. QED
      BY <2>3, <2>4
  <1>. QED
    BY <1>0, <1>3, <1>4, OrderKept DEF Construction

LEMMA LetGoConstruction ==
    ASSUME TodoOK, ObjectsOK, Construction, NEW t \in Threads, NEW c \in Classes, LetsGo(t, c)
    PROVE  Construction'
  <1>0. /\ At(t, "atexit", c) /\ Splice(t, <<>>, 1) /\ m_mutex' = [m_mutex EXCEPT ![c] = NoThread]
        /\ m_instance' = m_instance /\ NoEnds(<<>>) /\ <<>> \in Seq(Statements) /\ 1 \in {0, 1}
    BY NoEndsInLists DEF LetsGo
  <1>1. ASSUME NEW u \in Threads, NEW d \in Classes, NEW i \in DOMAIN todo'[u], todo'[u][i] \in Ends(d)
        PROVE  \E k \in DOMAIN todo[u] : (u = t => k > 1) /\ todo'[u][i] = todo[u][k]
    BY <1>0, <1>1, EndsStay
  <1>2. 1 \in DOMAIN todo[t] /\ todo[t][1] = <<"atexit", c>> /\ \A k \in DOMAIN todo[t] : k \in Nat
    BY <1>0, FirstStatement
  <1>3. InSection'
    <2>. SUFFICES ASSUME NEW u \in Threads, NEW d \in Classes, NEW i \in DOMAIN todo'[u],
                         todo'[u][i] \in Ends(d)
                  PROVE  m_mutex'[d] = u
      BY DEF InSection
    <2>1. <<"atexit", c>> \in Ends(c)
      BY DEF Ends
    <2>2. PICK k \in DOMAIN todo[u] : (u = t => k > 1) /\ todo[u][k] \in Ends(d)
      BY <1>1
    <2>3. m_mutex[d] = u
      BY <2>2 DEF Construction, InSection
    <2>4. ASSUME d = c PROVE FALSE
      <3>1. m_mutex[c] = t
        BY <1>2, <2>1 DEF Construction, InSection
      <3>2. <<"store", c>> = <<"atexit", c>>
        BY <1>2, <2>1, <2>2, <2>3, <2>4, <3>1 DEF Construction, StoreFirst
      <3>. QED
        BY <3>2
    <2>5. m_mutex'[d] = m_mutex[d]
      BY <1>0, <2>4 DEF ObjectsOK
    <2>. QED
      BY <2>3, <2>5
  <1>4. NotYet'
    BY <1>0, UnstoredKept DEF Construction
  <1>. QED
    BY <1>0, <1>3, <1>4, OrderKept DEF Construction

\* The ends in the statements that construct an instance.
LEMMA BuildEnds ==
    ASSUME NEW c \in Classes
    PROVE  /\ Build(c, Ctor(c)) \in Seq(Statements)
           /\ \A i \in DOMAIN Build(c, Ctor(c)), d \in Classes :
                 Build(c, Ctor(c))[i] \in Ends(d)
                    => /\ d = c
                       /\ \/ i = Len(Build(c, Ctor(c))) - 1 /\ Build(c, Ctor(c))[i] = <<"store", c>>
                          \/ i = Len(Build(c, Ctor(c))) /\ Build(c, Ctor(c))[i] = <<"atexit", c>>
  <1>. DEFINE p == Ctor(c)
              r == <<<<"store", c>>, <<"atexit", c>>>>
              l == p \o r
  <1>1. p \in Seq(Statements) /\ NoEnds(p)
    BY NoEndsInLists
  <1>2. r \in Seq(Statements) /\ Len(r) = 2 /\ r[1] = <<"store", c>> /\ r[2] = <<"atexit", c>>
    <2>1. <<"store", c>> \in Statements /\ <<"atexit", c>> \in Statements
      BY DEF Statements
    <2>. QED
      BY <2>1
  <1>3. Build(c, Ctor(c)) = l
    BY DEF Build
  <1>. HIDE DEF p, r
  <1>4. l \in Seq(Statements) /\ Len(l) = Len(p) + 2 /\ Len(p) \in Nat
        /\ \A i \in 1..(Len(p) + 2) : l[i] = IF i <= Len(p) THEN p[i] ELSE r[i - Len(p)]
    <2>1. l \in Seq(Statements) /\ Len(l) = Len(p) + Len(r)
          /\ \A i \in 1..(Len(p) + Len(r)) : l[i] = IF i <= Len(p) THEN p[i] ELSE r[i - Len(p)]
      BY <1>1, <1>2, ConcatProperties
    <2>2. Len(p) \in Nat /\ Len(r) = 2
      BY <1>1, <1>2
    <2>. HIDE DEF l
    <2>. QED
      BY <2>1, <2>2
  <1>5. ASSUME NEW i \in DOMAIN l, NEW d \in Classes, l[i] \in Ends(d)
        PROVE  /\ d = c
               /\ (i = Len(l) - 1 /\ l[i] = <<"store", c>>) \/ (i = Len(l) /\ l[i] = <<"atexit", c>>)
    <2>1. i \in 1..(Len(p) + 2)
      BY <1>4
    <2>2. CASE i <= Len(p)
      BY <1>1, <1>4, <1>5, <2>1, <2>2 DEF NoEnds
    <2>3. CASE i = Len(p) + 1
      <3>1. ~(i <= Len(p)) /\ i - Len(p) = 1 /\ i = Len(l) - 1
        BY <1>4, <2>3
      <3>2. l[i] = <<"store", c>>
        BY <1>2, <1>4, <2>1, <3>1
      <3>3. d = c
        BY <1>5, <3>2 DEF Ends
      <3>. QED
        BY <3>1, <3>2, <3>3
    <2>4. CASE i = Len(p) + 2
      <3>1. ~(i <= Len(p)) /\ i - Len(p) = 2 /\ i = Len(l)
        BY <1>4, <2>4
      <3>2. l[i] = <<"atexit", c>>
        BY <1>2, <1>4, <2>1, <3>1
      <3>3. d = c
        BY <1>5, <3>2 DEF Ends
      <3>. QED
        BY <3>1, <3>2, <3>3
    <2>. QED
      BY <1>4, <2>1, <2>2, <2>3, <2>4
  <1>. QED
    BY <1>3, <1>4, <1>5

LEMMA BuildConstruction ==
    ASSUME TodoOK, ObjectsOK, Construction, NEW t \in Threads, NEW c \in Classes, Builds(t, c)
    PROVE  Construction'
  <1>. DEFINE q == Build(c, Ctor(c))
  <1>0. /\ At(t, "lock", c) /\ Splice(t, q, 1) /\ m_mutex' = [m_mutex EXCEPT ![c] = t]
        /\ m_mutex[c] = NoThread /\ c \notin m_instance /\ m_instance' = m_instance /\ 1 \in {0, 1}
    BY DEF Builds
  <1>1. /\ q \in Seq(Statements)
        /\ \A i \in DOMAIN q, d \in Classes :
              q[i] \in Ends(d) => /\ d = c
                                  /\ \/ i = Len(q) - 1 /\ q[i] = <<"store", c>>
                                     \/ i = Len(q) /\ q[i] = <<"atexit", c>>
    BY BuildEnds
  <1>. HIDE DEF q
  <1>2. \A u \in Threads : \A i \in DOMAIN todo[u] : todo[u][i] \notin Ends(c)
    BY <1>0, SingletonAssumption DEF Construction, InSection
  <1>3. ASSUME NEW d \in Classes, d # c, NEW u \in Threads
        PROVE  /\ \A i \in DOMAIN todo'[u] :
                     todo'[u][i] \in Ends(d) => \E k \in DOMAIN todo[u] : todo'[u][i] = todo[u][k]
               /\ \A i, j \in DOMAIN todo'[u] :
                     (i < j /\ todo'[u][i] \in Ends(d) /\ todo'[u][j] \in Ends(d))
                        => \E k, m \in DOMAIN todo[u] :
                              k < m /\ todo'[u][i] = todo[u][k] /\ todo'[u][j] = todo[u][m]
    <2>1. \A i \in DOMAIN q : q[i] \notin Ends(d)
      BY <1>1, <1>3
    <2>2. /\ \A i \in DOMAIN todo'[u] :
                todo'[u][i] \in Ends(d)
                   => \E k \in DOMAIN todo[u] : (u = t => k > 1) /\ todo'[u][i] = todo[u][k]
          /\ \A i, j \in DOMAIN todo'[u] :
                (i < j /\ todo'[u][i] \in Ends(d) /\ todo'[u][j] \in Ends(d))
                   => \E k, m \in DOMAIN todo[u] :
                         k < m /\ todo'[u][i] = todo[u][k] /\ todo'[u][j] = todo[u][m]
      BY <1>0, <1>1, <2>1, SpliceEnds
    <2>. QED
      BY <2>2
  <1>4. ASSUME NEW u \in Threads, NEW i \in DOMAIN todo'[u], todo'[u][i] \in Ends(c)
        PROVE  /\ u = t
               /\ \/ i = Len(q) - 1 /\ todo'[u][i] = <<"store", c>>
                  \/ i = Len(q) /\ todo'[u][i] = <<"atexit", c>>
    <2>1. u = t
      BY <1>0, <1>1, <1>2, <1>4, SplicedLists
    <2>2. Moved(todo'[t], q, todo[t], 1)
      BY <1>0, <1>1, SplicedLists
    <2>3. i \in DOMAIN q /\ todo'[t][i] = q[i]
      BY <1>2, <1>4, <2>1, <2>2 DEF Moved
    <2>. QED
      BY <1>1, <1>4, <2>1, <2>3
  <1>5. InSection'
    <2>. SUFFICES ASSUME NEW u \in Threads, NEW d \in Classes, NEW i \in DOMAIN todo'[u],
                         todo'[u][i] \in Ends(d)
                  PROVE  m_mutex'[d] = u
      BY DEF InSection
    <2>1. CASE d = c
      BY <1>0, <1>4, <2>1 DEF ObjectsOK
    <2>2. CASE d # c
      <3>1. PICK k \in DOMAIN todo[u] : todo'[u][i] = todo[u][k]
        BY <1>3, <2>2
      <3>2. m_mutex[d] = u
        BY <3>1 DEF Construction, InSection
      <3>. QED
        BY <1>0, <2>2, <3>2 DEF ObjectsOK
    <2>. QED
      BY <2>1, <2>2
  <1>6. StoreFirst'
    <2>. SUFFICES ASSUME NEW u \in Threads, NEW d \in Classes,
                         NEW i \in DOMAIN todo'[u], NEW j \in DOMAIN todo'[u],
                         i < j, todo'[u][i] \in Ends(d), todo'[u][j] \in Ends(d)
                  PROVE  todo'[u][i] = <<"store", d>> /\ todo'[u][j] = <<"atexit", d>>
      BY DEF StoreFirst
    <2>1. CASE d = c
      <3>1. ASSUME NEW k \in {i, j}
            PROVE  \/ k = Len(q) - 1 /\ todo'[u][k] = <<"store", c>>
                   \/ k = Len(q) /\ todo'[u][k] = <<"atexit", c>>
        BY <1>4, <2>1
      <3>2. Len(q) \in Nat
        BY <1>1
      <3>. QED
        BY <2>1, <3>1, <3>2
    <2>2. CASE d # c
      <3>1. PICK k, m \in DOMAIN todo[u] : k < m /\ todo'[u][i] = todo[u][k] /\ todo'[u][j] = todo[u][m]
        BY <1>3, <2>2
      <3>. QED
        BY <3>1 DEF Construction, StoreFirst
    <2>. QED
      BY <2>1, <2>2
  <1>7. NotYet'
    <2>. SUFFICES ASSUME NEW u \in Threads, NEW d \in Classes, NEW i \in DOMAIN todo'[u],
                         todo'[u][i] = <<"store", d>>, d # c
                  PROVE  d \notin m_instance
      BY <1>0 DEF NotYet
    <2>1. todo'[u][i] \in Ends(d)
      BY DEF Ends
    <2>2. PICK k \in DOMAIN todo[u] : todo'[u][i] = todo[u][k]
      BY <1>3, <2>1
    <2>. QED
      BY <2>2 DEF Construction, NotYet
  <1>. QED
    BY <1>5, <1>6, <1>7 DEF Construction

\* A process that has just been started is constructing nothing.
LEMMA FreshLists ==
    ASSUME NEW q \in Seq(Ordinary)
    PROVE  /\ Fresh(q) \in [Threads -> Seq(Ordinary)]
           /\ "main" \in Threads /\ Fresh(q)["main"] = q
           /\ \A u \in Threads : NoEnds(Fresh(q)[u])
  <1>1. "main" \in Threads /\ <<>> \in Seq(Ordinary)
    BY NamesInLists, NoList
  <1>2. Fresh(q) \in [Threads -> Seq(Ordinary)] /\ Fresh(q)["main"] = q
    BY <1>1 DEF Fresh
  <1>3. \A u \in Threads : Fresh(q)[u] \in Seq(Ordinary)
    BY <1>2
  <1>. QED
    BY <1>1, <1>2, <1>3, NoEndsInLists

LEMMA ConstructionStep ==
    ASSUME TypeOK, Construction, Kind
    PROVE  Construction'
  <1>0. TodoOK /\ ObjectsOK /\ "main" \in Threads
    BY TypeParts, NamesInLists
  <1>1. CASE StandsStill
    BY <1>1 DEF StandsStill, sectionVars, Construction, InSection, StoreFirst, NotYet
  <1>2. ASSUME NEW t \in Threads, NEW q \in Seq(Ordinary), TakesUp(t, q) PROVE Construction'
    <2>1. Splice(t, q, 0) /\ UNCHANGED sectionVars /\ q \in Seq(Statements) /\ NoEnds(q) /\ 0 \in {0, 1}
      BY <1>2, NoEndsInLists DEF TakesUp
    <2>. QED
      BY <1>0, <2>1, QuietConstruction
  <1>3. ASSUME NEW t \in Threads, NEW q \in Seq(Ordinary), NEW s, NEW x, GoesOn(t, s, x, q)
        PROVE  Construction'
    <2>1. Splice(t, q, 1) /\ UNCHANGED sectionVars /\ q \in Seq(Statements) /\ NoEnds(q) /\ 1 \in {0, 1}
      BY <1>3, NoEndsInLists DEF GoesOn
    <2>. QED
      BY <1>0, <2>1, QuietConstruction
  <1>4. ASSUME NEW t \in Threads, NEW c \in Classes, Builds(t, c) \/ Stores(t, c) \/ LetsGo(t, c)
        PROVE  Construction'
    BY <1>0, <1>4, BuildConstruction, StoreConstruction, LetGoConstruction
  <1>5. CASE StartsThread \/ SetsFlag
    <2>1. Splice("main", <<>>, 1) /\ UNCHANGED sectionVars /\ <<>> \in Seq(Statements)
          /\ NoEnds(<<>>) /\ 1 \in {0, 1}
      BY <1>5, NoEndsInLists DEF StartsThread, SetsFlag
    <2>. QED
      BY <1>0, <2>1, QuietConstruction
  <1>6. CASE DestroysLogger
    <2>1. Splice("main", Dtor("Logger"), 0) /\ UNCHANGED sectionVars /\ Dtor("Logger") \in Seq(Statements)
          /\ NoEnds(Dtor("Logger")) /\ 0 \in {0, 1}
      BY <1>6, NoEndsInLists DEF DestroysLogger
    <2>. QED
      BY <1>0, <2>1, QuietConstruction
  <1>7. CASE StartsAfresh
    <2>1. PICK q \in Seq(Ordinary) : todo' = Fresh(q)
      BY <1>7 DEF StartsAfresh, SingletonReset
    <2>2. \A u \in Threads : NoEnds(todo'[u])
      BY <2>1, FreshLists
    <2>3. \A u \in Threads, c \in Classes : \A i \in DOMAIN todo'[u] :
             todo'[u][i] \notin Ends(c) /\ todo'[u][i] # <<"store", c>>
      BY <2>2 DEF NoEnds, Ends
    <2>. QED
      BY <2>3 DEF Construction, InSection, StoreFirst, NotYet
  <1>. QED
    BY <1>1, <1>2, <1>3, <1>4, <1>5, <1>6, <1>7 DEF Kind

LEMMA ConstructionInit == Init => Construction
  <1>. SUFFICES ASSUME Init PROVE Construction
    OBVIOUS
  <1>1. Main(program) \in Seq(Ordinary) /\ todo = Fresh(Main(program))
    BY OrdinaryLists DEF Init, SingletonInit
  <1>2. \A u \in Threads : NoEnds(todo[u])
    BY <1>1, FreshLists
  <1>3. \A u \in Threads, c \in Classes : \A i \in DOMAIN todo[u] :
           todo[u][i] \notin Ends(c) /\ todo[u][i] # <<"store", c>>
    BY <1>2 DEF NoEnds, Ends
  <1>. QED
    BY <1>3 DEF Construction, InSection, StoreFirst, NotYet

LEMMA ConstructionAlways == SafeSpec => [](TypeOK /\ Construction)
  <1>1. TypeOK /\ Construction /\ [Next]_vars => Construction'
    BY StepKind, ConstructionStep
  <1>. QED
    BY <1>1, ConstructionInit, TypeCorrect, PTL DEF SafeSpec

\* However many threads ask GetInstance for the same class, and whatever its
\* constructor asks for in turn, one of them constructs: for any number of
\* workers and of restarts.  The second load, under the mutex, is what makes
\* it so.
THEOREM OneConstructor == SafeSpec => []OneInstance
  <1>1. Construction => OneInstance
    <2>. SUFFICES ASSUME Construction, NEW c \in Classes
                  PROVE  LET builders == {t \in Threads : \E i \in DOMAIN todo[t] : todo[t][i] = <<"store", c>>}
                         IN  Cardinality(builders) <= (IF c \in m_instance THEN 0 ELSE 1)
      BY DEF OneInstance
    <2>. DEFINE builders == {t \in Threads : \E i \in DOMAIN todo[t] : todo[t][i] = <<"store", c>>}
    <2>1. <<"store", c>> \in Ends(c)
      BY DEF Ends
    <2>2. builders \subseteq {m_mutex[c]}
      BY <2>1 DEF Construction, InSection
    <2>3. c \in m_instance => builders = {}
      BY DEF Construction, NotYet
    <2>. HIDE DEF builders
    <2>4. builders = {} \/ builders = {m_mutex[c]}
      BY <2>2
    <2>5. Cardinality({}) = 0 /\ Cardinality({m_mutex[c]}) = 1
      BY FS_EmptySet, FS_Singleton
    <2>6. Cardinality(builders) <= (IF c \in m_instance THEN 0 ELSE 1)
      BY <2>3, <2>4, <2>5
    <2>. QED
      BY <2>6 DEF builders
  <1>. QED
    BY <1>1, ConstructionAlways, PTL

(***************************************************************************)
(* The logger: what main has to do.                                        *)
(***************************************************************************)

\* What a splice does to statements that q lacks.
LEMMA HasMoved ==
    ASSUME NEW S, NEW l \in Seq(S), NEW q \in Seq(S), NEW s \in Seq(S), NEW n \in {0, 1},
           Moved(l, q, s, n), NEW o
    PROVE  /\ (Has(l, o) /\ ~Has(q, o)) => Has(s, o)
           /\ (Has(s, o) /\ (n = 1 => s[1] # o)) => Has(l, o)
  <1>1. (Has(l, o) /\ ~Has(q, o)) => Has(s, o)
    BY DEF Has, Moved
  <1>2. ASSUME Has(s, o), n = 1 => s[1] # o PROVE Has(l, o)
    <2>1. PICK k \in DOMAIN s : s[k] = o
      BY <1>2 DEF Has
    <2>2. k > n
      <3>1. k \in Nat /\ k >= 1
        OBVIOUS
      <3>. QED
        BY <1>2, <2>1, <3>1
    <2>3. k - n + Len(q) \in DOMAIN l /\ l[k - n + Len(q)] = s[k]
      BY <2>2 DEF Moved
    <2>. QED
      BY <2>1, <2>3 DEF Has
  <1>. QED
    BY <1>1, <1>2

LEMMA OnceMoved ==
    ASSUME NEW S, NEW l \in Seq(S), NEW q \in Seq(S), NEW s \in Seq(S), NEW n \in {0, 1},
           Moved(l, q, s, n), NEW a, NEW b, OnceBefore(s, a, b), ~Has(q, a)
    PROVE  OnceBefore(l, a, b)
  <1>0. /\ DOMAIN l = 1..Len(l) /\ DOMAIN s = 1..Len(s)
        /\ Len(l) \in Nat /\ Len(q) \in Nat /\ Len(s) \in Nat
    OBVIOUS
  <1>1. ASSUME NEW i \in DOMAIN l, l[i] = a
        PROVE  i > Len(q) /\ i - Len(q) + n \in DOMAIN s /\ s[i - Len(q) + n] = a
    BY <1>1 DEF Moved, Has
  <1>2. ASSUME NEW i \in DOMAIN l, l[i] = a PROVE \E j \in DOMAIN l : i < j /\ l[j] = b
    <2>1. i > Len(q) /\ i - Len(q) + n \in DOMAIN s /\ s[i - Len(q) + n] = a
      BY <1>1, <1>2
    <2>2. PICK j \in DOMAIN s : i - Len(q) + n < j /\ s[j] = b
      BY <2>1 DEF OnceBefore
    <2>3. j > n /\ i < j - n + Len(q)
      BY <1>0, <2>1, <2>2
    <2>4. j - n + Len(q) \in DOMAIN l /\ l[j - n + Len(q)] = b
      BY <2>2, <2>3 DEF Moved
    <2>. QED
      BY <2>3, <2>4
  <1>3. ASSUME NEW i \in DOMAIN l, l[i] = a, NEW k \in DOMAIN l, l[k] = a PROVE k = i
    <2>1. i - Len(q) + n \in DOMAIN s /\ s[i - Len(q) + n] = a
      BY <1>1, <1>3
    <2>2. k - Len(q) + n \in DOMAIN s /\ s[k - Len(q) + n] = a
      BY <1>1, <1>3
    <2>3. k - Len(q) + n = i - Len(q) + n
      BY <2>1, <2>2 DEF OnceBefore
    <2>. QED
      BY <1>0, <2>3
  <1>. QED
    BY <1>2, <1>3 DEF OnceBefore

LEMMA PrecededMoved ==
    ASSUME NEW S, NEW l \in Seq(S), NEW q \in Seq(S), NEW s \in Seq(S), NEW n \in {0, 1},
           Moved(l, q, s, n), NEW a, NEW b, Preceded(s, a, b), n = 1 => s[1] # a,
           Preceded(q, a, b)
    PROVE  Preceded(l, a, b)
  <1>0. /\ DOMAIN l = 1..Len(l) /\ DOMAIN s = 1..Len(s) /\ DOMAIN q = 1..Len(q)
        /\ Len(l) \in Nat /\ Len(q) \in Nat /\ Len(s) \in Nat
    OBVIOUS
  <1>. SUFFICES ASSUME NEW j \in DOMAIN l, l[j] = b PROVE \E i \in DOMAIN l : i < j /\ l[i] = a
    BY DEF Preceded
  <1>1. CASE j \in DOMAIN q /\ l[j] = q[j]
    <2>1. PICK i \in DOMAIN q : i < j /\ q[i] = a
      BY <1>1 DEF Preceded
    <2>2. i \in DOMAIN l /\ l[i] = q[i]
      BY DEF Moved
    <2>. QED
      BY <2>1, <2>2
  <1>2. CASE j > Len(q) /\ j - Len(q) + n \in DOMAIN s /\ l[j] = s[j - Len(q) + n]
    <2>1. PICK i \in DOMAIN s : i < j - Len(q) + n /\ s[i] = a
      BY <1>2 DEF Preceded
    <2>2. i > n
      <3>1. i \in Nat /\ i >= 1
        BY <1>0
      <3>. QED
        BY <2>1, <3>1
    <2>3. i - n + Len(q) \in DOMAIN l /\ l[i - n + Len(q)] = a
      BY <2>1, <2>2 DEF Moved
    <2>4. i - n + Len(q) < j
      BY <1>0, <1>2, <2>1
    <2>. QED
      BY <2>3, <2>4
  <1>. QED
    BY <1>1, <1>2 DEF Moved

\* Of these statements there are none among the ordinary ones.
LEMMA RareStatements ==
    ASSUME NEW q \in Seq(Ordinary)
    PROVE  /\ ~Has(q, <<"thread", "Logger">>) /\ ~Has(q, <<"push", "stop">>)
           /\ \A c : ~Has(q, <<"store", c>>)
  <1>1. \A i \in DOMAIN q : q[i] \in Ordinary
    OBVIOUS
  <1>2. \A o \in Ordinary : o[1] \notin {"store", "atexit", "thread", "push"}
    BY DEF Ordinary
  <1>. QED
    BY <1>1, <1>2 DEF Has

LEMMA EmptyHasNothing ==
    ASSUME NEW o, NEW a
    PROVE  ~Has(<<>>, o) /\ Preceded(<<>>, o, a)
  BY DEF Has, Preceded

LEMMA OnceInFront ==
    ASSUME NEW S, NEW l \in Seq(S), NEW q \in Seq(S), NEW s \in Seq(S), NEW n \in {0, 1},
           Moved(l, q, s, n), NEW a, NEW b, OnceBefore(q, a, b), ~Has(s, a)
    PROVE  OnceBefore(l, a, b)
  <1>1. ASSUME NEW i \in DOMAIN l, l[i] = a PROVE i \in DOMAIN q /\ q[i] = a
    BY <1>1 DEF Moved, Has
  <1>2. ASSUME NEW i \in DOMAIN l, l[i] = a PROVE \E j \in DOMAIN l : i < j /\ l[j] = b
    <2>1. PICK j \in DOMAIN q : i < j /\ q[j] = b
      BY <1>1, <1>2 DEF OnceBefore
    <2>. QED
      BY <2>1 DEF Moved
  <1>3. ASSUME NEW i \in DOMAIN l, l[i] = a, NEW k \in DOMAIN l, l[k] = a PROVE k = i
    BY <1>1, <1>3 DEF OnceBefore
  <1>. QED
    BY <1>2, <1>3 DEF OnceBefore

\* Two statements after a list.
LEMMA TwoMore ==
    ASSUME NEW S, NEW p \in Seq(S), NEW r \in Seq(S), Len(r) = 2
    PROVE  /\ p \o r \in Seq(S) /\ Len(p) \in Nat /\ DOMAIN p = 1..Len(p)
           /\ DOMAIN (p \o r) = 1..(Len(p) + 2) /\ Len(p \o r) = Len(p) + 2
           /\ \A i \in DOMAIN p : i \in 1..(Len(p) + 2) /\ (p \o r)[i] = p[i]
           /\ (p \o r)[Len(p) + 1] = r[1] /\ (p \o r)[Len(p) + 2] = r[2]
  <1>. DEFINE l == p \o r
  <1>1. /\ l \in Seq(S) /\ Len(l) = Len(p) + Len(r)
        /\ \A i \in 1..(Len(p) + Len(r)) : l[i] = IF i <= Len(p) THEN p[i] ELSE r[i - Len(p)]
    BY ConcatProperties
  <1>2. Len(p) \in Nat /\ DOMAIN p = 1..Len(p)
    OBVIOUS
  <1>. HIDE DEF l
  <1>3. Len(l) = Len(p) + 2 /\ DOMAIN l = 1..(Len(p) + 2)
    BY <1>1, <1>2
  <1>4. ASSUME NEW i \in DOMAIN p PROVE i \in 1..(Len(p) + 2) /\ l[i] = p[i]
    BY <1>1, <1>2
  <1>5. ASSUME NEW d \in {1, 2} PROVE l[Len(p) + d] = r[d]
    <2>1. Len(p) + d \in 1..(Len(p) + Len(r)) /\ ~(Len(p) + d <= Len(p)) /\ (Len(p) + d) - Len(p) = d
      BY <1>2
    <2>. QED
      BY <1>1, <2>1
  <1>. QED
    BY <1>1, <1>2, <1>3, <1>4, <1>5 DEF l

\* What constructs an instance: only the logger's constructor starts a
\* thread, and only once.
LEMMA BuildLists ==
    ASSUME NEW c \in Classes
    PROVE  /\ Build(c, Ctor(c)) \in Seq(Statements)
           /\ ~Has(Build(c, Ctor(c)), <<"push", "stop">>)
           /\ c # "Logger" => ~Has(Build(c, Ctor(c)), <<"thread", "Logger">>)
           /\ c = "Logger" => OnceBefore(Build(c, Ctor(c)), <<"thread", "Logger">>, <<"store", "Logger">>)
  <1>. DEFINE r == <<<<"store", c>>, <<"atexit", c>>>>
  <1>1. r \in Seq(Statements) /\ Len(r) = 2 /\ r[1] = <<"store", c>> /\ r[2] = <<"atexit", c>>
    <2>1. <<"store", c>> \in Statements /\ <<"atexit", c>> \in Statements
      BY DEF Statements
    <2>. QED
      BY <2>1
  <1>2. Build(c, Ctor(c)) = Ctor(c) \o r /\ Build(c, Ctor(c)) \in Seq(Statements)
    BY BuildEnds DEF Build
  <1>. HIDE DEF r
  <1>3. CASE c # "Logger"
    <2>1. Ctor(c) \in Seq(Ordinary) /\ Ctor(c) \in Seq(Statements)
      BY <1>3, OrdinaryLists, NoEndsInLists
    <2>. DEFINE p == Ctor(c)
    <2>2. ~Has(p, <<"thread", "Logger">>) /\ ~Has(p, <<"push", "stop">>) /\ p \in Seq(Statements)
      BY <2>1, RareStatements
    <2>. HIDE DEF p
    <2>3. ASSUME NEW i \in DOMAIN (p \o r) PROVE (i \in DOMAIN p /\ (p \o r)[i] = p[i]) \/ (p \o r)[i] \in {r[1], r[2]}
      <3>1. /\ Len(p) \in Nat /\ DOMAIN p = 1..Len(p) /\ DOMAIN (p \o r) = 1..(Len(p) + 2)
            /\ \A j \in DOMAIN p : (p \o r)[j] = p[j]
            /\ (p \o r)[Len(p) + 1] = r[1] /\ (p \o r)[Len(p) + 2] = r[2]
        BY <1>1, <2>2, TwoMore
      <3>2. i \in DOMAIN p \/ i = Len(p) + 1 \/ i = Len(p) + 2
        BY <3>1
      <3>. QED
        BY <3>1, <3>2
    <2>4. ~Has(p \o r, <<"thread", "Logger">>) /\ ~Has(p \o r, <<"push", "stop">>)
      BY <1>1, <2>2, <2>3 DEF Has
    <2>. QED
      BY <1>2, <1>3, <2>4 DEF p
  <1>4. CASE c = "Logger"
    <2>. DEFINE p == GET_CONFIG("LOG_PATH")
                m == <<<<"thread", "Logger">>, <<"make", "Logger">>>>
                l == (p \o m) \o r
    <2>1. p \in Seq(Ordinary) /\ p \in Seq(Statements)
      BY OrdinaryLists, LoggerLists, NamesInLists
    <2>2. ~Has(p, <<"thread", "Logger">>) /\ ~Has(p, <<"push", "stop">>)
      BY <2>1, RareStatements
    <2>3. m \in Seq(Statements) /\ Len(m) = 2 /\ m[1] = <<"thread", "Logger">> /\ m[2] = <<"make", "Logger">>
      <3>1. <<"thread", "Logger">> \in Statements /\ <<"make", "Logger">> \in Statements
        BY NamesInLists DEF Statements
      <3>. QED
        BY <3>1
    <2>4. Build(c, Ctor(c)) = l
      BY <1>2, <1>4, LoggerLists
    <2>. HIDE DEF p, m
    <2>5. /\ p \o m \in Seq(Statements) /\ Len(p \o m) = Len(p) + 2 /\ Len(p) \in Nat
          /\ \A i \in DOMAIN p : (p \o m)[i] = p[i]
          /\ (p \o m)[Len(p) + 1] = m[1] /\ (p \o m)[Len(p) + 2] = m[2]
      BY <2>1, <2>3, TwoMore
    <2>6. /\ l \in Seq(Statements) /\ Len(l) = Len(p) + 4
          /\ \A i \in 1..(Len(p) + 2) : l[i] = (p \o m)[i]
          /\ l[Len(p) + 3] = r[1] /\ l[Len(p) + 4] = r[2]
      <3>. DEFINE k == p \o m
      <3>1. k \in Seq(Statements) /\ Len(k) = Len(p) + 2 /\ Len(p) \in Nat
        BY <2>5
      <3>. HIDE DEF k
      <3>2. /\ k \o r \in Seq(Statements) /\ Len(k \o r) = Len(k) + 2 /\ DOMAIN k = 1..Len(k)
            /\ \A i \in DOMAIN k : (k \o r)[i] = k[i]
            /\ (k \o r)[Len(k) + 1] = r[1] /\ (k \o r)[Len(k) + 2] = r[2]
        BY <1>1, <3>1, TwoMore
      <3>3. Len(k) + 1 = Len(p) + 3 /\ Len(k) + 2 = Len(p) + 4
        BY <3>1
      <3>4. l = k \o r
        BY DEF k
      <3>. HIDE DEF l
      <3>5. /\ l \in Seq(Statements) /\ Len(l) = Len(p) + 4
            /\ \A i \in 1..(Len(p) + 2) : l[i] = k[i]
            /\ l[Len(p) + 3] = r[1] /\ l[Len(p) + 4] = r[2]
        BY <3>1, <3>2, <3>3, <3>4
      <3>. QED
        BY <3>5 DEF k
    <2>. HIDE DEF l
    <2>7. DOMAIN l = 1..(Len(p) + 4) /\ DOMAIN p = 1..Len(p)
      BY <2>1, <2>5, <2>6
    <2>8. l[Len(p) + 1] = <<"thread", "Logger">> /\ l[Len(p) + 2] = <<"make", "Logger">>
          /\ l[Len(p) + 3] = <<"store", "Logger">> /\ l[Len(p) + 4] = <<"atexit", "Logger">>
      <3>1. Len(p) + 1 \in 1..(Len(p) + 2) /\ Len(p) + 2 \in 1..(Len(p) + 2)
        BY <2>5
      <3>. QED
        BY <1>1, <1>4, <2>3, <2>5, <2>6, <3>1
    <2>9. \A i \in DOMAIN p : l[i] = p[i]
      <3>1. \A i \in DOMAIN p : i \in 1..(Len(p) + 2)
        BY <2>5, <2>7
      <3>. QED
        BY <2>5, <2>6, <3>1
    <2>10. ASSUME NEW i \in DOMAIN l
           PROVE  i \in DOMAIN p \/ i = Len(p) + 1 \/ i = Len(p) + 2 \/ i = Len(p) + 3 \/ i = Len(p) + 4
      BY <2>5, <2>7
    <2>11. ~Has(l, <<"push", "stop">>)
      BY <2>2, <2>8, <2>9, <2>10 DEF Has
    <2>12. \A i \in DOMAIN l : l[i] = <<"thread", "Logger">> => i = Len(p) + 1
      BY <2>2, <2>8, <2>9, <2>10 DEF Has
    <2>13. Len(p) + 3 \in DOMAIN l /\ Len(p) + 1 < Len(p) + 3
      BY <2>5, <2>7
    <2>14. OnceBefore(l, <<"thread", "Logger">>, <<"store", "Logger">>)
      BY <2>8, <2>12, <2>13 DEF OnceBefore
    <2>. QED
      BY <1>2, <1>4, <2>4, <2>11, <2>14
  <1>. QED
    BY <1>3, <1>4

\* The list of main after a splice.
LEMMA MainList ==
    ASSUME TodoOK, NEW t \in Threads, NEW q \in Seq(Statements), NEW n \in {0, 1}, Splice(t, q, n)
    PROVE  /\ todo["main"] \in Seq(Statements) /\ todo'["main"] \in Seq(Statements)
           /\ t # "main" => todo'["main"] = todo["main"]
           /\ t = "main" => Moved(todo'["main"], q, todo["main"], n)
  <1>1. "main" \in Threads
    BY NamesInLists
  <1>. QED
    BY <1>1, SplicedLists DEF TodoOK

\* Steps that neither start the thread nor construct the logger.
LEMMA QuietDuties ==
    ASSUME TodoOK, Duties, NEW t \in Threads, NEW q \in Seq(Statements), NEW n \in {0, 1},
           Splice(t, q, n),
           t = "main" => /\ ~Has(q, <<"thread", "Logger">>)
                         /\ Preceded(q, <<"flag", "Logger">>, <<"push", "stop">>),
           (t = "main" /\ n = 1 /\ todo["main"][1] = <<"store", "Logger">>) => "Logger" \in m_instance',
           (t = "main" /\ n = 1 /\ todo["main"][1] = <<"flag", "Logger">>) => m_stop_flag',
           UNCHANGED writer, m_stop_flag => m_stop_flag', m_instance \subseteq m_instance'
    PROVE  Duties'
  <1>1. CASE t # "main"
    <2>1. todo'["main"] = todo["main"]
      BY <1>1, MainList
    <2>. QED
      BY <2>1 DEF Duties, ThreadOnce, Started, FlagFirst
  <1>2. CASE t = "main"
    <2>. DEFINE l == todo'["main"]
                s == todo["main"]
    <2>1. /\ l \in Seq(Statements) /\ s \in Seq(Statements) /\ Moved(l, q, s, n)
          /\ ~Has(q, <<"thread", "Logger">>)
          /\ Preceded(q, <<"flag", "Logger">>, <<"push", "stop">>)
          /\ (n = 1 /\ s[1] = <<"store", "Logger">>) => "Logger" \in m_instance'
          /\ (n = 1 /\ s[1] = <<"flag", "Logger">>) => m_stop_flag'
      BY <1>2, MainList
    <2>2. /\ Has(s, <<"thread", "Logger">>) => writer = "none"
          /\ OnceBefore(s, <<"thread", "Logger">>, <<"store", "Logger">>)
          /\ writer = "none" \/ "Logger" \in m_instance \/ Has(s, <<"store", "Logger">>)
          /\ m_stop_flag \/ Preceded(s, <<"flag", "Logger">>, <<"push", "stop">>)
      BY DEF Duties, ThreadOnce, Started, FlagFirst
    <2>. HIDE DEF l, s
    <2>3. Has(l, <<"thread", "Logger">>) => writer = "none"
      BY <2>1, <2>2, HasMoved
    <2>4. OnceBefore(l, <<"thread", "Logger">>, <<"store", "Logger">>)
      BY <2>1, <2>2, OnceMoved
    <2>5. writer = "none" \/ "Logger" \in m_instance' \/ Has(l, <<"store", "Logger">>)
      <3>1. CASE n = 1 /\ s[1] = <<"store", "Logger">>
        BY <2>1, <3>1
      <3>2. CASE ~(n = 1 /\ s[1] = <<"store", "Logger">>)
        BY <2>1, <2>2, <3>2, HasMoved
      <3>. QED
        BY <3>1, <3>2
    <2>6. m_stop_flag' \/ Preceded(l, <<"flag", "Logger">>, <<"push", "stop">>)
      <3>1. CASE n = 1 /\ s[1] = <<"flag", "Logger">>
        BY <2>1, <3>1
      <3>2. CASE ~(n = 1 /\ s[1] = <<"flag", "Logger">>)
        BY <2>1, <2>2, <3>2, PrecededMoved
      <3>. QED
        BY <3>1, <3>2
    <2>. QED
      BY <2>3, <2>4, <2>5, <2>6 DEF l, Duties, ThreadOnce, Started, FlagFirst
  <1>. QED
    BY <1>1, <1>2

\* Where there is no such message, there is none too early.
LEMMA NoneTooEarly ==
    ASSUME NEW q, NEW a, NEW b, ~Has(q, b)
    PROVE  Preceded(q, a, b)
  BY DEF Has, Preceded

LEMMA BuildDuties ==
    ASSUME TodoOK, Construction, Duties, NEW t \in Threads, NEW c \in Classes, Builds(t, c)
    PROVE  Duties'
  <1>. DEFINE q == Build(c, Ctor(c))
  <1>1. /\ At(t, "lock", c) /\ Splice(t, q, 1) /\ m_mutex[c] = NoThread /\ c \notin m_instance
        /\ m_instance' = m_instance /\ writer' = writer /\ m_stop_flag' = m_stop_flag /\ 1 \in {0, 1}
    BY DEF Builds, loggerVars
  <1>2. /\ q \in Seq(Statements) /\ ~Has(q, <<"push", "stop">>)
        /\ c # "Logger" => ~Has(q, <<"thread", "Logger">>)
        /\ c = "Logger" => OnceBefore(q, <<"thread", "Logger">>, <<"store", "Logger">>)
        /\ Preceded(q, <<"flag", "Logger">>, <<"push", "stop">>)
    BY BuildLists, NoneTooEarly
  <1>. HIDE DEF q
  <1>3. todo[t][1] = <<"lock", c>> /\ todo[t][1] # <<"store", "Logger">> /\ todo[t][1] # <<"flag", "Logger">>
    BY <1>1, FirstStatement
  <1>4. CASE t # "main" \/ c # "Logger"
    BY <1>1, <1>2, <1>3, <1>4, QuietDuties
  <1>5. CASE t = "main" /\ c = "Logger"
    <2>. DEFINE l == todo'["main"]
                s == todo["main"]
    <2>1. /\ l \in Seq(Statements) /\ s \in Seq(Statements) /\ Moved(l, q, s, 1)
          /\ s[1] # <<"flag", "Logger">>
      BY <1>1, <1>2, <1>3, <1>5, MainList
    <2>2. ~Has(s, <<"store", "Logger">>)
      <3>1. <<"store", "Logger">> \in Ends("Logger") /\ NoThread \notin Threads
        BY SingletonAssumption DEF Ends
      <3>. QED
        BY <1>1, <1>5, <3>1 DEF Construction, InSection, Has
    <2>3. /\ OnceBefore(s, <<"thread", "Logger">>, <<"store", "Logger">>)
          /\ writer = "none"
          /\ m_stop_flag \/ Preceded(s, <<"flag", "Logger">>, <<"push", "stop">>)
      BY <1>1, <1>5, <2>2 DEF Duties, ThreadOnce, Started, FlagFirst
    <2>. HIDE DEF l, s
    <2>4. ~Has(s, <<"thread", "Logger">>)
      BY <2>2, <2>3 DEF OnceBefore, Has
    <2>5. OnceBefore(l, <<"thread", "Logger">>, <<"store", "Logger">>)
      BY <1>1, <1>2, <1>5, <2>1, <2>4, OnceInFront
    <2>6. m_stop_flag \/ Preceded(l, <<"flag", "Logger">>, <<"push", "stop">>)
      BY <1>1, <1>2, <2>1, <2>3, PrecededMoved
    <2>. QED
      BY <1>1, <2>3, <2>5, <2>6 DEF l, Duties, ThreadOnce, Started, FlagFirst
  <1>. QED
    BY <1>4, <1>5

LEMMA StartDuties ==
    ASSUME TodoOK, Duties, StartsThread
    PROVE  Duties' /\ writer = "none"
  <1>1. /\ At("main", "thread", "Logger") /\ Splice("main", <<>>, 1)
        /\ m_instance' = m_instance /\ m_stop_flag' = m_stop_flag /\ 1 \in {0, 1}
        /\ "main" \in Threads /\ <<>> \in Seq(Statements)
    BY NamesInLists, NoList DEF StartsThread, StartLogger, sectionVars
  <1>. DEFINE l == todo'["main"]
              s == todo["main"]
  <1>2. l \in Seq(Statements) /\ s \in Seq(Statements) /\ Moved(l, <<>>, s, 1)
    BY <1>1, MainList
  <1>3. 1 \in DOMAIN s /\ s[1] = <<"thread", "Logger">>
    BY <1>1, FirstStatement
  <1>4. /\ Has(s, <<"thread", "Logger">>) => writer = "none"
        /\ OnceBefore(s, <<"thread", "Logger">>, <<"store", "Logger">>)
        /\ m_stop_flag \/ Preceded(s, <<"flag", "Logger">>, <<"push", "stop">>)
    BY DEF Duties, ThreadOnce, FlagFirst
  <1>. HIDE DEF l, s
  <1>5. writer = "none" /\ Has(s, <<"store", "Logger">>)
    BY <1>3, <1>4 DEF Has, OnceBefore
  <1>6. s[1] # <<"store", "Logger">> /\ s[1] # <<"flag", "Logger">>
    BY <1>3
  <1>7. Has(l, <<"store", "Logger">>)
    BY <1>1, <1>2, <1>5, <1>6, HasMoved
  <1>8. m_stop_flag \/ Preceded(l, <<"flag", "Logger">>, <<"push", "stop">>)
    BY <1>1, <1>2, <1>4, <1>6, PrecededMoved, EmptyHasNothing
  <1>9. ~Has(l, <<"thread", "Logger">>)
    <2>. SUFFICES ASSUME NEW i \in DOMAIN l, l[i] = <<"thread", "Logger">> PROVE FALSE
      BY DEF Has
    <2>1. i \in Nat /\ i >= 1 /\ Len(<<>>) = 0
      BY <1>2
    <2>2. i - 0 + 1 \in DOMAIN s /\ l[i] = s[i - 0 + 1]
      BY <1>2, <2>1 DEF Moved
    <2>3. i - 0 + 1 = 1
      BY <1>3, <1>4, <2>2 DEF OnceBefore
    <2>. QED
      BY <2>1, <2>3
  <1>10. OnceBefore(l, <<"thread", "Logger">>, <<"store", "Logger">>)
    BY <1>9 DEF Has, OnceBefore
  <1>. QED
    BY <1>1, <1>5, <1>7, <1>8, <1>9, <1>10 DEF l, Duties, ThreadOnce, Started, FlagFirst

LEMMA DutiesStep ==
    ASSUME TypeOK, Construction, Duties, Kind
    PROVE  Duties'
  <1>0. TodoOK /\ "main" \in Threads /\ 0 \in {0, 1} /\ 1 \in {0, 1}
    BY TypeParts, NamesInLists
  <1>1. ASSUME NEW q \in Seq(Ordinary)
        PROVE  /\ q \in Seq(Statements) /\ ~Has(q, <<"thread", "Logger">>)
               /\ Preceded(q, <<"flag", "Logger">>, <<"push", "stop">>)
    BY RareStatements, NoneTooEarly, NoEndsInLists
  <1>2. /\ <<>> \in Seq(Statements) /\ ~Has(<<>>, <<"thread", "Logger">>)
        /\ Preceded(<<>>, <<"flag", "Logger">>, <<"push", "stop">>)
    BY NoList, EmptyHasNothing
  <1>3. ASSUME UNCHANGED loggerVars PROVE writer' = writer /\ m_stop_flag' = m_stop_flag
    BY <1>3 DEF loggerVars
  <1>4. CASE StandsStill
    <2>1. todo' = todo /\ m_instance' = m_instance /\ m_stop_flag' = m_stop_flag
      BY <1>4 DEF StandsStill, sectionVars, loggerVars, ThreadLogger, FirstLine, NextLine
    <2>2. writer' = writer \/ (writer # "none" /\ writer' # "none")
      BY <1>4 DEF StandsStill, loggerVars, ThreadLogger, FirstLine, NextLine, Write
    <2>. QED
      BY <2>1, <2>2 DEF Duties, ThreadOnce, Started, FlagFirst
  <1>5. ASSUME NEW t \in Threads, NEW q \in Seq(Ordinary), TakesUp(t, q) PROVE Duties'
    <2>1. Splice(t, q, 0) /\ m_instance' = m_instance /\ writer' = writer /\ m_stop_flag' = m_stop_flag
      BY <1>3, <1>5 DEF TakesUp, sectionVars
    <2>. QED
      BY <1>0, <1>1, <2>1, QuietDuties
  <1>6. ASSUME NEW t \in Threads, NEW q \in Seq(Ordinary), NEW s, NEW x, GoesOn(t, s, x, q) PROVE Duties'
    <2>1. Splice(t, q, 1) /\ m_instance' = m_instance /\ At(t, s, x) /\ s \notin {"store", "thread", "flag"}
      BY <1>6 DEF GoesOn, sectionVars
    <2>2. writer' = writer /\ m_stop_flag' = m_stop_flag
      BY <1>6 DEF GoesOn, loggerVars, Log, SetLevel, PushStop
    <2>3. todo[t][1] # <<"store", "Logger">> /\ todo[t][1] # <<"flag", "Logger">>
      BY <1>0, <2>1, FirstStatement
    <2>. QED
      BY <1>0, <1>1, <2>1, <2>2, <2>3, QuietDuties
  <1>7. ASSUME NEW t \in Threads, NEW c \in Classes, Builds(t, c) PROVE Duties'
    BY <1>0, <1>7, BuildDuties
  <1>8. ASSUME NEW t \in Threads, NEW c \in Classes, Stores(t, c) PROVE Duties'
    <2>1. /\ Splice(t, <<>>, 1) /\ m_instance' = m_instance \cup {c} /\ At(t, "store", c)
          /\ writer' = writer /\ m_stop_flag' = m_stop_flag
      BY <1>3, <1>8 DEF Stores
    <2>2. todo[t][1] = <<"store", c>>
      BY <1>0, <2>1, FirstStatement
    <2>3. todo[t][1] # <<"flag", "Logger">> /\ (todo[t][1] = <<"store", "Logger">> => "Logger" \in m_instance')
      BY <2>1, <2>2
    <2>. QED
      BY <1>0, <1>2, <2>1, <2>3, QuietDuties
  <1>9. ASSUME NEW t \in Threads, NEW c \in Classes, LetsGo(t, c) PROVE Duties'
    <2>1. /\ Splice(t, <<>>, 1) /\ m_instance' = m_instance /\ At(t, "atexit", c)
          /\ writer' = writer /\ m_stop_flag' = m_stop_flag
      BY <1>3, <1>9 DEF LetsGo
    <2>2. todo[t][1] = <<"atexit", c>>
      BY <1>0, <2>1, FirstStatement
    <2>3. todo[t][1] # <<"flag", "Logger">> /\ todo[t][1] # <<"store", "Logger">>
      BY <2>2
    <2>. QED
      BY <1>0, <1>2, <2>1, <2>3, QuietDuties
  <1>10. CASE StartsThread
    BY <1>0, <1>10, StartDuties
  <1>11. CASE SetsFlag
    <2>1. /\ Splice("main", <<>>, 1) /\ m_instance' = m_instance /\ At("main", "flag", "Logger")
          /\ writer' = writer /\ m_stop_flag'
      BY <1>11 DEF SetsFlag, StopFlag, sectionVars
    <2>2. todo["main"][1] # <<"store", "Logger">>
      BY <1>0, <2>1, FirstStatement
    <2>. QED
      BY <1>0, <1>2, <2>1, <2>2, QuietDuties
  <1>12. CASE DestroysLogger
    <2>. DEFINE q == Dtor("Logger")
    <2>1. Splice("main", q, 0) /\ m_instance' = m_instance /\ writer' = writer /\ m_stop_flag' = m_stop_flag
      BY <1>3, <1>12 DEF DestroysLogger, sectionVars
    <2>2. /\ q \in Seq(Statements) /\ DOMAIN q = 1..4 /\ q[1] = <<"flag", "Logger">>
          /\ q[2] = <<"push", "stop">> /\ q[3] = <<"join", "Logger">> /\ q[4] = <<"drop", "Logger">>
      BY LoggerLists
    <2>. HIDE DEF q
    <2>3. ~Has(q, <<"thread", "Logger">>)
      BY <2>2 DEF Has
    <2>4. Preceded(q, <<"flag", "Logger">>, <<"push", "stop">>)
      BY <2>2 DEF Preceded
    <2>. QED
      BY <1>0, <2>1, <2>2, <2>3, <2>4, QuietDuties
  <1>13. CASE StartsAfresh
    <2>1. PICK q \in Seq(Ordinary) : todo' = Fresh(q) /\ writer' = "none"
      BY <1>13 DEF StartsAfresh, SingletonReset, LoggerReset
    <2>2. todo'["main"] = q
      BY <2>1, FreshLists
    <2>3. ~Has(q, <<"thread", "Logger">>) /\ Preceded(q, <<"flag", "Logger">>, <<"push", "stop">>)
      BY <1>1
    <2>4. OnceBefore(q, <<"thread", "Logger">>, <<"store", "Logger">>)
      BY <2>3 DEF Has, OnceBefore
    <2>. QED
      BY <2>1, <2>2, <2>3, <2>4 DEF Duties, ThreadOnce, Started, FlagFirst
  <1>. QED
    BY <1>4, <1>5, <1>6, <1>7, <1>8, <1>9, <1>10, <1>11, <1>12, <1>13 DEF Kind

(***************************************************************************)
(* The logger: queue and file.                                             *)
(***************************************************************************)

\* A line goes from the queue to the file, a message to the end of the queue.
LEMMA HandOver ==
    ASSUME NEW S, NEW f \in Seq(S), NEW q \in Seq(S), q # <<>>
    PROVE  Append(f, Head(q)) \o Tail(q) = f \o q
  <1>. DEFINE l == Append(f, Head(q)) \o Tail(q)
              m == f \o q
  <1>1. Head(q) \in S /\ Tail(q) \in Seq(S) /\ Len(Tail(q)) = Len(q) - 1 /\ Len(q) \in Nat \ {0}
        /\ Head(q) = q[1] /\ \A i \in 1..(Len(q) - 1) : Tail(q)[i] = q[i + 1]
    BY HeadTailProperties, EmptySeq
  <1>2. /\ Append(f, Head(q)) \in Seq(S) /\ Len(Append(f, Head(q))) = Len(f) + 1 /\ Len(f) \in Nat
        /\ \A i \in 1..Len(f) : Append(f, Head(q))[i] = f[i]
        /\ Append(f, Head(q))[Len(f) + 1] = Head(q)
    BY <1>1, AppendProperties
  <1>3. /\ l \in Seq(S) /\ Len(l) = (Len(f) + 1) + (Len(q) - 1)
        /\ \A i \in 1..Len(l) : l[i] = IF i <= Len(f) + 1 THEN Append(f, Head(q))[i]
                                      ELSE Tail(q)[i - (Len(f) + 1)]
    BY <1>1, <1>2, ConcatProperties
  <1>4. /\ m \in Seq(S) /\ Len(m) = Len(f) + Len(q)
        /\ \A i \in 1..Len(m) : m[i] = IF i <= Len(f) THEN f[i] ELSE q[i - Len(f)]
    BY ConcatProperties
  <1>. HIDE DEF l, m
  <1>5. Len(l) = Len(m) /\ Len(m) \in Nat
    BY <1>1, <1>2, <1>3, <1>4
  <1>6. ASSUME NEW i \in 1..Len(m) PROVE l[i] = m[i]
    <2>0. i \in Nat /\ i >= 1 /\ i <= Len(f) + Len(q)
      BY <1>4, <1>5
    <2>1. CASE i <= Len(f)
      <3>1. l[i] = Append(f, Head(q))[i]
        BY <1>2, <1>3, <1>5, <2>0, <2>1
      <3>2. m[i] = f[i] /\ i \in 1..Len(f)
        BY <1>2, <1>4, <2>0, <2>1
      <3>. QED
        BY <1>2, <3>1, <3>2
    <2>2. CASE i = Len(f) + 1
      <3>0. i \in 1..Len(l) /\ i <= Len(f) + 1
        BY <1>2, <1>5, <2>2
      <3>1. l[i] = Head(q)
        BY <1>2, <1>3, <2>2, <3>0
      <3>2. i - Len(f) = 1 /\ ~(i <= Len(f))
        BY <1>2, <2>2
      <3>3. m[i] = q[1]
        BY <1>4, <3>2
      <3>. QED
        BY <1>1, <3>1, <3>3
    <2>3. CASE i > Len(f) + 1
      <3>1. i - (Len(f) + 1) \in 1..(Len(q) - 1) /\ ~(i <= Len(f) + 1) /\ ~(i <= Len(f))
            /\ (i - (Len(f) + 1)) + 1 = i - Len(f)
        BY <1>1, <1>2, <2>0, <2>3
      <3>2. l[i] = Tail(q)[i - (Len(f) + 1)]
        BY <1>3, <1>5, <3>1
      <3>3. m[i] = q[i - Len(f)]
        BY <1>4, <3>1
      <3>4. Tail(q)[i - (Len(f) + 1)] = q[(i - (Len(f) + 1)) + 1]
        BY <1>1, <3>1
      <3>. QED
        BY <3>1, <3>2, <3>3, <3>4
    <2>. QED
      BY <1>2, <2>0, <2>1, <2>2, <2>3
  <1>7. l = m
    BY <1>3, <1>4, <1>5, <1>6, SeqEqual
  <1>. QED
    BY <1>7 DEF l, m

LEMMA AddLast ==
    ASSUME NEW S, NEW f \in Seq(S), NEW q \in Seq(S), NEW x \in S
    PROVE  f \o Append(q, x) = Append(f \o q, x)
  OBVIOUS

\* The file is the beginning of what was logged.
LEMMA InTheFile ==
    ASSUME NEW S, NEW f \in Seq(S), NEW q \in Seq(S), NEW g \in Seq(S), NEW e \in S,
           f \o q = <<e>> \o g
    PROVE  \A i \in 2..Len(f) : i <= Len(g) + 1 /\ f[i] = g[i - 1]
  <1>1. <<e>> \in Seq(S) /\ Len(<<e>>) = 1 /\ Len(f) \in Nat /\ Len(g) \in Nat /\ Len(q) \in Nat
    OBVIOUS
  <1>2. /\ Len(f \o q) = Len(f) + Len(q)
        /\ \A i \in 1..(Len(f) + Len(q)) : (f \o q)[i] = IF i <= Len(f) THEN f[i] ELSE q[i - Len(f)]
    BY ConcatProperties
  <1>. DEFINE h == <<e>>
  <1>3. /\ Len(h \o g) = Len(h) + Len(g)
        /\ \A i \in 1..(Len(h) + Len(g)) : (h \o g)[i] = IF i <= Len(h) THEN h[i] ELSE g[i - Len(h)]
    <2>1. h \in Seq(S)
      BY <1>1
    <2>. HIDE DEF h
    <2>. QED
      BY <2>1, ConcatProperties
  <1>4. Len(h) = 1 /\ f \o q = h \o g
    BY <1>1
  <1>. HIDE DEF h
  <1>. SUFFICES ASSUME NEW i \in 2..Len(f) PROVE i <= Len(g) + 1 /\ f[i] = g[i - 1]
    OBVIOUS
  <1>5. Len(f) + Len(q) = 1 + Len(g)
    BY <1>2, <1>3, <1>4
  <1>6. i \in 1..(Len(f) + Len(q)) /\ i \in 1..(Len(h) + Len(g)) /\ i <= Len(f) /\ ~(i <= Len(h))
        /\ i <= Len(g) + 1 /\ i - Len(h) = i - 1
    BY <1>1, <1>4, <1>5
  <1>7. (f \o q)[i] = f[i] /\ (h \o g)[i] = g[i - Len(h)]
    BY <1>2, <1>3, <1>6
  <1>. QED
    BY <1>4, <1>6, <1>7

LEMMA TextStep ==
    ASSUME LoggerTypeOK(Messages), Text,
           \/ UNCHANGED loggerVars
           \/ ThreadLogger
           \/ \E level \in Nat, message \in Messages : Log(level, message)
           \/ SetLevel(DEBUG)
           \/ PushStop /\ m_stop_flag
           \/ StartLogger /\ writer = "none"
           \/ StopFlag
           \/ LoggerReset
    PROVE  Text'
  <1>. DEFINE S == Lines(Messages)
  <1>0. /\ m_message_q \in Seq(S) /\ file \in Seq(S) /\ logged \in Seq(S) /\ EmptyLine \in S
        /\ Messages \subseteq S /\ writer \in {"none", "start", "pop", "ended"} /\ m_stop_flag \in BOOLEAN
    <2>1. Messages \subseteq S /\ EmptyLine \in S
      BY DEF Lines
    <2>2. Seq(Messages) \subseteq Seq(S)
      BY <2>1
    <2>. QED
      BY <2>1, <2>2 DEF LoggerTypeOK
  <1>. HIDE DEF S
  <1>1. CASE UNCHANGED loggerVars
    BY <1>1 DEF loggerVars, Text, Flow, Unread, LogInOrder
  <1>2. CASE FirstLine
    <2>1. CASE m_stop_flag
      BY <1>2, <2>1 DEF FirstLine, Write, Text, Flow, Unread, LogInOrder
    <2>2. CASE ~m_stop_flag
      <3>1. /\ file = <<>> /\ m_message_q = logged /\ writer' = "pop" /\ file' = Append(<<>>, EmptyLine)
            /\ m_message_q' = logged /\ logged' = logged /\ m_stop_flag' = m_stop_flag
        BY <1>2, <2>2 DEF FirstLine, Write, Text, Flow, Unread
      <3>2. Append(<<>>, EmptyLine) = <<EmptyLine>> /\ <<EmptyLine>> # <<>>
        OBVIOUS
      <3>. QED
        BY <2>2, <3>1, <3>2 DEF Text, Flow, Unread, LogInOrder
    <2>. QED
      BY <2>1, <2>2
  <1>3. CASE NextLine
    <2>1. CASE m_stop_flag
      BY <1>3, <2>1 DEF NextLine, Write, Text, Flow, Unread, LogInOrder
    <2>2. CASE ~m_stop_flag
      <3>1. /\ m_message_q # <<>> /\ writer' = "pop" /\ file' = Append(file, Head(m_message_q))
            /\ m_message_q' = Tail(m_message_q) /\ logged' = logged /\ m_stop_flag' = m_stop_flag
            /\ file # <<>> /\ file \o m_message_q = <<EmptyLine>> \o logged
        BY <1>3, <2>2 DEF NextLine, Write, Text, Flow
      <3>2. Append(file, Head(m_message_q)) \o Tail(m_message_q) = file \o m_message_q
        BY <1>0, <3>1, HandOver
      <3>3. Append(file, Head(m_message_q)) # <<>>
        BY <1>0, <3>1
      <3>. QED
        BY <2>2, <3>1, <3>2, <3>3 DEF Text, Flow, Unread, LogInOrder
    <2>. QED
      BY <2>1, <2>2
  <1>4. ASSUME NEW level \in Nat, NEW message \in Messages, Log(level, message) PROVE Text'
    <2>1. CASE UNCHANGED <<m_message_q, logged>>
      BY <1>4, <2>1 DEF Log, Text, Flow, Unread, LogInOrder
    <2>2. CASE m_message_q' = Append(m_message_q, message) /\ logged' = Append(logged, message)
      <3>1. writer' = writer /\ file' = file /\ m_stop_flag' = m_stop_flag /\ message \in S
        BY <1>0, <1>4 DEF Log
      <3>2. CASE ~m_stop_flag
        <4>1. /\ file \o Append(m_message_q, message) = Append(file \o m_message_q, message)
              /\ <<EmptyLine>> \o Append(logged, message) = Append(<<EmptyLine>> \o logged, message)
          <5>1. <<EmptyLine>> \in Seq(S)
            BY <1>0
          <5>2. file \o Append(m_message_q, message) = Append(file \o m_message_q, message)
            BY <1>0, <3>1, AddLast
          <5>3. <<EmptyLine>> \o Append(logged, message)
                  = Append(<<EmptyLine>> \o logged, message)
            BY <1>0, <3>1, <5>1, AddLast
          <5>. QED
            BY <5>2, <5>3
        <4>. QED
          BY <2>2, <3>1, <3>2, <4>1 DEF Text, Flow, Unread, LogInOrder
      <3>3. CASE m_stop_flag
        <4>1. \A i \in 2..Len(file) : i <= Len(logged) + 1 /\ file[i] = logged[i - 1]
          BY <3>3 DEF Text, LogInOrder
        <4>2. Len(logged') = Len(logged) + 1 /\ Len(logged) \in Nat /\ Len(file) \in Nat
              /\ \A i \in 1..Len(logged) : logged'[i] = logged[i]
          BY <1>0, <2>2, <3>1, AppendProperties
        <4>3. ASSUME NEW i \in 2..Len(file) PROVE i <= Len(logged') + 1 /\ file[i] = logged'[i - 1]
          <5>1. i <= Len(logged) + 1 /\ file[i] = logged[i - 1]
            BY <4>1
          <5>2. i - 1 \in 1..Len(logged)
            BY <4>2, <5>1
          <5>. QED
            BY <4>2, <5>1, <5>2
        <4>. QED
          BY <3>1, <3>3, <4>3 DEF Text, Flow, Unread, LogInOrder
      <3>. QED
        BY <3>2, <3>3
    <2>. QED
      BY <1>4, <2>1, <2>2 DEF Log
  <1>5. CASE SetLevel(DEBUG)
    BY <1>5 DEF SetLevel, Text, Flow, Unread, LogInOrder
  <1>6. CASE PushStop /\ m_stop_flag
    BY <1>6 DEF PushStop, Text, Flow, Unread, LogInOrder
  <1>7. CASE StartLogger /\ writer = "none"
    BY <1>7 DEF StartLogger, Text, Flow, Unread, LogInOrder
  <1>8. CASE StopFlag
    <2>1. m_stop_flag' /\ file' = file /\ logged' = logged
      BY <1>8 DEF StopFlag
    <2>2. \A i \in 2..Len(file) : i <= Len(logged) + 1 /\ file[i] = logged[i - 1]
      <3>1. CASE m_stop_flag
        BY <3>1 DEF Text, LogInOrder
      <3>2. CASE ~m_stop_flag /\ file = <<>>
        BY <3>2
      <3>3. CASE file \o m_message_q = <<EmptyLine>> \o logged
        BY <1>0, <3>3, InTheFile
      <3>. QED
        BY <1>0, <3>1, <3>2, <3>3 DEF Text, Flow
    <2>. QED
      BY <2>1, <2>2 DEF Text, Flow, Unread, LogInOrder
  <1>9. CASE LoggerReset
    BY <1>9 DEF LoggerReset, Text, Flow, Unread, LogInOrder
  <1>. QED
    BY <1>1, <1>2, <1>3, <1>4, <1>5, <1>6, <1>7, <1>8, <1>9 DEF ThreadLogger

\* The message that wakes the thread up is pushed when the flag is set.
LEMMA StepText ==
    ASSUME TypeOK, Construction, Duties, Text, Kind
    PROVE  Text'
  <1>0. TodoOK /\ LoggerTypeOK(Messages) /\ "main" \in Threads
    BY TypeParts, NamesInLists
  <1>1. CASE StandsStill
    BY <1>0, <1>1, TextStep DEF StandsStill
  <1>2. ASSUME UNCHANGED loggerVars PROVE Text'
    BY <1>0, <1>2, TextStep
  <1>3. ASSUME NEW t \in Threads, NEW q \in Seq(Ordinary), NEW s, NEW x, GoesOn(t, s, x, q) PROVE Text'
    <2>1. CASE t = "main" /\ s = "push" /\ x = "stop" /\ PushStop
      <3>1. 1 \in DOMAIN todo["main"] /\ todo["main"][1] = <<"push", "stop">>
            /\ \A k \in DOMAIN todo["main"] : k \in Nat
        BY <1>0, <1>3, <2>1, FirstStatement DEF GoesOn
      <3>2. todo["main"] \in Seq(Statements)
        BY <1>0 DEF TodoOK
      <3>3. \A i \in DOMAIN todo["main"] : ~(i < 1)
        BY <3>2
      <3>4. m_stop_flag
        BY <3>1, <3>3 DEF Duties, FlagFirst, Preceded
      <3>. QED
        BY <1>0, <2>1, <3>4, TextStep
    <2>. QED
      BY <1>0, <1>3, <2>1, TextStep DEF GoesOn
  <1>4. CASE StartsThread
    BY <1>0, <1>4, StartDuties, TextStep DEF StartsThread
  <1>5. CASE SetsFlag
    BY <1>0, <1>5, TextStep DEF SetsFlag
  <1>6. CASE StartsAfresh
    BY <1>0, <1>6, TextStep DEF StartsAfresh
  <1>. QED
    BY <1>1, <1>2, <1>3, <1>4, <1>5, <1>6
       DEF Kind, TakesUp, Builds, Stores, LetsGo, DestroysLogger

LEMMA LoggingInit == Init => Duties /\ Text
  <1>. SUFFICES ASSUME Init PROVE Duties /\ Text
    OBVIOUS
  <1>. DEFINE q == Main(program)
  <1>1. q \in Seq(Ordinary) /\ todo = Fresh(q)
    BY OrdinaryLists DEF Init, SingletonInit
  <1>. HIDE DEF q
  <1>2. todo["main"] = q
    BY <1>1, FreshLists
  <1>3. ~Has(q, <<"thread", "Logger">>) /\ Preceded(q, <<"flag", "Logger">>, <<"push", "stop">>)
    BY <1>1, RareStatements, NoneTooEarly
  <1>4. OnceBefore(q, <<"thread", "Logger">>, <<"store", "Logger">>)
    BY <1>3 DEF Has, OnceBefore
  <1>5. LoggerInit
    BY DEF Init
  <1>6. Duties
    BY <1>2, <1>3, <1>4, <1>5 DEF LoggerInit, Duties, ThreadOnce, Started, FlagFirst
  <1>. QED
    BY <1>5, <1>6 DEF LoggerInit, Text, Flow, Unread, LogInOrder

\* The file holds what was logged in the order it was logged, by any number
\* of threads, none twice and none lost until the logger is stopped.  That
\* the thread is started once, and that the flag is set before the message
\* that wakes the thread up, are what makes it so.
THEOREM LogIsInOrder == SafeSpec => []LogInOrder
  <1>1. TypeOK /\ Construction /\ Duties /\ Text /\ [Next]_vars => Duties' /\ Text'
    BY StepKind, DutiesStep, StepText
  <1>2. Text => LogInOrder
    BY DEF Text
  <1>. QED
    BY <1>1, <1>2, LoggingInit, ConstructionAlways, PTL DEF SafeSpec
=============================================================================
