----------------------------- MODULE FrameWork ------------------------------
(***************************************************************************)
(* The life of a process: main and what it constructs - FrameWork with its *)
(* factory, pool, mediator and plug-in monitor, ConfigManager, Logger, and *)
(* the proxy of a master or a minion - and the threads that come with it.  *)
(* Requests may arrive as soon as a proxy is registered; the commands for  *)
(* them come from libraries that main moves into the plug-in directory     *)
(* and the monitor's thread loads.  The process may be killed and started  *)
(* again; the files stay where they were.                                  *)
(*                                                                         *)
(* Reactor, pool and monitor are taken for what Mediator, ThreadPool and   *)
(* DirMonitor show of them.  A library and the command it registers have   *)
(* one name.                                                               *)
(***************************************************************************)
EXTENDS Singleton, Logger

CONSTANTS Workers,      \* the pool's threads
          Programs,     \* the executables to look at
          MaxRequests   \* bound: requests in the life of a process, mkfs apart

Libraries == {"libreadcmd", "libwritecmd"}

\* Where a constructor reads several keys in a row, the first stands for all.
ConfigKeys == {"LOG_PATH", "POLICY", "PLUG_PATH", "PORT_NUM", "NUM_OF_MINIONS",
               "BLOCK_SIZE", "DIR_PATH"}

ASSUME FrameWorkAssumption ==
    /\ {"main", "monitor", "reactor"} \cap Workers = {}
    /\ Threads = {"main", "monitor", "reactor"} \cup Workers
    /\ Classes = {"ConfigManager", "Logger", "FrameWork", "MinionProxy", "Master",
                  "StorageManager"}
    /\ Programs \subseteq {"minion_exe", "master_test", "framework_test"}
    /\ MaxRequests \in Nat

VARIABLES program,      \* the executable
          missing,      \* keys its configuration file lacks
          broken,       \* libraries and the device, if they cannot be opened;
                        \* "minions" if one of them never answers
          life,         \* "running", or how the process ended
          home,         \* the libraries in the working directory
          events,       \* what inotify has queued
          m_flag,       \* DirMonitor's
          mon,          \* where the monitor's thread is
          m_map,        \* the factory's keys
          registered,   \* a proxy is registered
          requests,     \* requests not yet read, in order
          tasks,        \* the pool's tasks
          sent,         \* how many requests there have been, mkfs apart
          up,           \* main has said that the process is up
          asleep,       \* workers for which the pool's Run came too early
          found,        \* ghost: the libraries at home when it was started
          hurried,      \* ghost: sleep(3) was over before they were loaded
          astray        \* ghost: CreateDir's file is not in the directory

processVars == <<events, m_flag, mon, m_map, registered, requests, tasks, sent, up>>
luckVars == <<asleep, found, hurried, astray>>
worldVars == <<program, missing, broken, life, home, luckVars>>
vars == <<singletonVars, loggerVars, processVars, worldVars>>

-----------------------------------------------------------------------------
(* What is executed, as lists of statements. *)

Get(c) == <<<<"get", c>>>>
GET_CONFIG(key) == Get("ConfigManager") \o <<<<"config", key>>>>
LOG(message) == Get("Logger") \o <<<<"log", message>>>>

\* FrameWork::FrameWork: the logger, the factory, the pool, the mediator
\* with the reactor's thread, the plug-ins: first DirMonitor, then DllLoader.
FrameWorkCtor ==
    Get("Logger") \o <<<<"make", "m_factory">>>> \o GET_CONFIG("POLICY")
    \o <<<<"make", "m_mediator">>>> \o GET_CONFIG("PLUG_PATH")
    \o <<<<"watch", "main">>, <<"make", "m_loader">>>>

\* Mutant: the constructor logs.
LoggerCtorLogs ==
    GET_CONFIG("LOG_PATH") \o <<<<"thread", "Logger">>, <<"make", "Logger">>>>
    \o LOG("mkdir dir fail")

LoggerCtor == GET_CONFIG("LOG_PATH") \o <<<<"thread", "Logger">>, <<"make", "Logger">>>>

\* Mutant: the proxy registers itself before its socket is made.
MinionProxyRegistersFirst ==
    GET_CONFIG("PORT_NUM") \o Get("FrameWork")
    \o <<<<"register", "main">>, <<"make", "proxy">>, <<"make", "MinionProxy">>>>

\* MinionProxy registers itself before its constructor has returned.
MinionProxyCtor ==
    GET_CONFIG("PORT_NUM") \o <<<<"make", "proxy">>>>
    \o Get("FrameWork") \o <<<<"register", "main">>, <<"make", "MinionProxy">>>>

MasterCtor == GET_CONFIG("NUM_OF_MINIONS") \o <<<<"make", "Master">>>>

Ctor(c) ==
    CASE c = "FrameWork"   -> FrameWorkCtor
      [] c = "Logger"      -> LoggerCtor
      [] c = "MinionProxy" -> MinionProxyCtor
      [] c = "Master"      -> MasterCtor
      [] OTHER             -> <<<<"make", c>>>>

NbdProxyCtor ==
    <<<<"setup", "main">>>> \o Get("Logger") \o <<<<"level", "main">>, <<"make", "proxy">>>>

\* Master::InitConnection: mkfs and mount are requests to the process itself.
InitConnection ==
    GET_CONFIG("BLOCK_SIZE") \o NbdProxyCtor
    \o Get("FrameWork") \o <<<<"register", "main">>, <<"mkfs", "main">>, <<"served", "main">>>>
    \o GET_CONFIG("DIR_PATH") \o LOG("after mount")

InstallLibraries ==
    GET_CONFIG("PLUG_PATH") \o <<<<"mv", "libreadcmd">>, <<"mv", "libwritecmd">>>>

\* Mutant: the proxy does not wait for the libraries.
MainNoSleep(p) ==
    CASE p = "minion_exe" ->
            Get("FrameWork") \o InstallLibraries
            \o Get("MinionProxy") \o <<<<"up", "main">>>>
      [] p = "master_test" ->
            Get("FrameWork") \o InstallLibraries
            \o Get("Master") \o InitConnection \o <<<<"up", "main">>>>
      [] p = "framework_test" ->
            Get("FrameWork") \o <<<<"exit", "main">>>>

Main(p) ==
    CASE p = "minion_exe" ->
            Get("FrameWork") \o InstallLibraries \o <<<<"sleep", "main">>>>
            \o Get("MinionProxy") \o <<<<"up", "main">>>>
      [] p = "master_test" ->
            Get("FrameWork") \o InstallLibraries \o <<<<"sleep", "main">>>>
            \o Get("Master") \o InitConnection \o <<<<"up", "main">>>>
      [] p = "framework_test" ->
            Get("FrameWork") \o <<<<"exit", "main">>>>

\* The keys that the program will look up.
KeysRead(p) ==
    {"LOG_PATH", "POLICY", "PLUG_PATH"} \cup
    CASE p = "minion_exe"     -> {"PORT_NUM"}
      [] p = "master_test"    -> {"NUM_OF_MINIONS", "BLOCK_SIZE", "DIR_PATH"}
      [] p = "framework_test" -> {}

\* What it needs from outside: libraries, the device, the minions.
Needed(p) == Libraries \cup IF p = "master_test" THEN {"nbd", "minions"} ELSE {}

\* Mutant: the logger's thread is woken before the flag is set.
LoggerDtorSwapped ==
    <<<<"push", "stop">>, <<"flag", "Logger">>, <<"join", "Logger">>, <<"drop", "Logger">>>>

LoggerDtor ==
    <<<<"flag", "Logger">>, <<"push", "stop">>, <<"join", "Logger">>, <<"drop", "Logger">>>>

\* Mutant: the factory is declared after the plug-ins and goes first.
FrameWorkDtorFactoryFirst ==
    <<<<"drop", "m_factory">>, <<"drop", "m_loader">>, <<"stopMonitor", "main">>,
      <<"createDir", "main">>, <<"joinMonitor", "main">>, <<"stopMediator", "main">>,
      <<"drop", "m_mediator">>>>

\* The members of FrameWork, last to first: plug-ins, of them DllLoader with
\* its callback before DirMonitor, mediator, factory.
FrameWorkDtor ==
    <<<<"drop", "m_loader">>, <<"stopMonitor", "main">>, <<"createDir", "main">>,
      <<"joinMonitor", "main">>, <<"stopMediator", "main">>, <<"drop", "m_mediator">>,
      <<"drop", "m_factory">>>>

Dtor(c) ==
    CASE c = "FrameWork" -> FrameWorkDtor
      [] c = "Logger"    -> LoggerDtor
      [] OTHER           -> <<<<"drop", c>>>>

\* A library's constructor function, run by dlopen.
Register(lib) == Get("FrameWork") \o <<<<"add", lib>>>>

\* DllLoader::Notify.
Notify(lib) ==
    IF lib \in broken THEN LOG("dlopen fail") ELSE Register(lib)

\* Dispatcher::Broadcast: the callback of the loader is called, and stood on
\* until the iterator has moved on.
Broadcast(lib) == <<<<"use", "m_loader">>>> \o Notify(lib) \o <<<<"use", "m_loader">>>>

\* Mediator::ReactorHandler with the proxy's ParseData.
ReactorHandler(key) == LOG("parse data") \o <<<<"task", key>>>>

\* CommunicateMinion: the request is sent again until the minion answers.
CommunicateMinion == <<<<"wait", "main">>>>

\* Command::Run of the program's commands, reads and writes alike; the line in
\* the log that a bad reply is worth to a master's command is left out.
CommandRun ==
    IF program = "minion_exe"
    THEN Get("StorageManager") \o <<<<"use", "StorageManager">>>>
         \o Get("MinionProxy") \o <<<<"use", "MinionProxy">>>>
    ELSE Get("Master") \o CommunicateMinion \o <<<<"use", "Master">>>>

-----------------------------------------------------------------------------

Objects == (Classes \ {"FrameWork"}) \cup {"m_factory", "m_mediator", "m_loader", "proxy"}
Messages == {"after mount", "parse data", "dlopen fail", "mkdir dir fail",
             "nbd open failed"}
Statements ==
    ({"get", "lock", "store", "atexit"} \X Classes)
    \cup ({"make", "use", "drop"} \X Objects)
    \cup ({"config"} \X ConfigKeys)
    \cup ({"log"} \X Messages)
    \cup ({"add", "task", "create", "mv"} \X Libraries)
    \cup ({"thread", "flag", "join"} \X {"Logger"})
    \cup ({"push"} \X {"stop"})
    \cup ({"watch", "setup", "throw", "level", "register", "mkfs", "served", "sleep", "up",
           "exit", "stopMonitor", "createDir", "joinMonitor", "stopMediator", "wait"} \X {"main"})

\* The types.
TypeOK ==
    /\ todo \in [Threads -> Seq(Statements)]
    /\ m_instance \subseteq Classes
    /\ m_mutex \in [Classes -> Threads \cup {NoThread}]
    /\ exitFuncs \in Seq(Classes)
    /\ objects \subseteq Objects
    /\ LoggerTypeOK(Messages)
    /\ program \in Programs
    /\ missing \subseteq ConfigKeys /\ broken \subseteq Libraries \cup {"nbd", "minions"}
    /\ life \in {"running", "exited", "terminated", "killed"}
    /\ home \subseteq Libraries
    /\ events \in Seq(Libraries \cup {"dummy_die"})
    /\ m_flag \in {"RUN", "STOP"}
    /\ mon \in {"none", "test", "read", "ended"}
    /\ m_map \subseteq Libraries
    /\ registered \in BOOLEAN
    /\ requests \in Seq(Libraries) /\ tasks \in Seq(Libraries)
    /\ sent \in Nat
    /\ up \in BOOLEAN
    /\ asleep \subseteq Workers
    /\ found \subseteq Libraries /\ hurried \in BOOLEAN /\ astray \in BOOLEAN

\* The state of a process that has just been started.
Fresh(statements) == [t \in Threads |-> IF t = "main" THEN statements ELSE <<>>]

ProcessInit ==
    /\ events = <<>>
    /\ m_flag = "RUN"
    /\ mon = "none"
    /\ m_map = {}
    /\ registered = FALSE
    /\ requests = <<>> /\ tasks = <<>>
    /\ sent = 0
    /\ up = FALSE

ProcessReset ==
    /\ events' = <<>>
    /\ m_flag' = "RUN"
    /\ mon' = "none"
    /\ m_map' = {}
    /\ registered' = FALSE
    /\ requests' = <<>> /\ tasks' = <<>>
    /\ sent' = 0
    /\ up' = FALSE

Init ==
    /\ program \in Programs
    /\ SingletonInit(Fresh(Main(program)))
    /\ LoggerInit
    /\ ProcessInit
    /\ \/ missing = {} /\ broken \in {{}} \cup {{f} : f \in Needed(program)}
       \/ missing \in {{k} : k \in KeysRead(program)} /\ broken = {}
    /\ life = "running"
    /\ home = Libraries
    /\ asleep = {} /\ found = Libraries /\ hurried = FALSE /\ astray = FALSE

-----------------------------------------------------------------------------
(* Statements of any thread. *)

objectVars == <<m_instance, m_mutex, exitFuncs, objects>>

\* Thread t executes the statement <<s, x>>, which is about other things than
\* the singletons.
Execute(t, s, x) == At(t, s, x) /\ Done(t) /\ UNCHANGED objectVars

SingletonStep(t, x) ==
    /\ \/ GetInstance(t, x, Ctor(x)) \/ Use(t, x) \/ Drop(t, x)
       \/ x # "m_mediator" /\ Make(t, x)
    /\ UNCHANGED <<loggerVars, processVars, worldVars>>

\* The mediator's constructor calls Run of the pool.  A worker that has read
\* m_flag and is not asleep yet falls asleep afterwards.
MakeMediator(t) ==
    /\ Make(t, "m_mediator")
    /\ asleep' \in SUBSET Workers
    /\ UNCHANGED <<loggerVars, processVars, program, missing, broken, life, home,
                   found, hurried, astray>>

\* GetConfig: an exception that nobody catches when the key is missing.
GetConfig(t, key) ==
    /\ Execute(t, "config", key)
    /\ life' = IF key \in missing THEN "terminated" ELSE life
    /\ UNCHANGED <<loggerVars, processVars, program, missing, broken, home, luckVars>>

LogMessage(t, message) ==
    /\ Execute(t, "log", message)
    /\ Log(IF message \in {"parse data", "after mount"} THEN INFORMATION ELSE ERROR, message)
    /\ UNCHANGED <<processVars, worldVars>>

\* FrameWork::RegisterCmd: Factory::Add.
Add(t, lib) ==
    /\ Execute(t, "add", lib)
    /\ m_map' = m_map \cup {lib}
    /\ UNCHANGED <<loggerVars, events, m_flag, mon, registered, requests, tasks, sent, up,
                   worldVars>>

\* The mediator hands the request to the pool.
AddTask(t, key) ==
    /\ Execute(t, "task", key)
    /\ tasks' = Append(tasks, key)
    /\ UNCHANGED <<loggerVars, events, m_flag, mon, m_map, registered, requests, sent, up,
                   worldVars>>

\* CmdFactoryTask::Do: Factory::Create and Run.  WrongKey, thrown as a
\* pointer, leaves RunThread and ends the process.
Create(t, key) ==
    /\ At(t, "create", key)
    /\ Then(t, CommandRun)
    /\ life' = IF key \in m_map THEN life ELSE "terminated"
    /\ UNCHANGED <<objectVars, loggerVars, processVars, program, missing, broken, home, luckVars>>

\* A command waits for its minions, for ever if one of them does not answer.
WaitForMinions(t) ==
    /\ Execute(t, "wait", "main")
    /\ "minions" \notin broken
    /\ UNCHANGED <<loggerVars, processVars, worldVars>>

AnyThread(t) ==
    /\ life = "running"
    /\ todo[t] # <<>>
    /\ LET x == Head(todo[t])[2]
       IN  SingletonStep(t, x) \/ MakeMediator(t) \/ GetConfig(t, x) \/ LogMessage(t, x)
           \/ Add(t, x) \/ AddTask(t, x) \/ Create(t, x) \/ WaitForMinions(t)

-----------------------------------------------------------------------------
(* Statements of main. *)

\* The end of Logger's constructor.
StartLoggerThread ==
    /\ Execute("main", "thread", "Logger")
    /\ StartLogger
    /\ UNCHANGED <<processVars, worldVars>>

\* The directory is watched and the monitor's thread started.
Watch ==
    /\ Execute("main", "watch", "main")
    /\ mon' = "test"
    /\ UNCHANGED <<loggerVars, events, m_flag, m_map, registered, requests, tasks, sent, up,
                   worldVars>>

SetDebug ==
    /\ Execute("main", "level", "main")
    /\ SetLevel(DEBUG)
    /\ UNCHANGED <<processVars, worldVars>>

\* NbdProxy::SetupNbdFD: a call that fails is logged and ends in an exception
\* that nobody catches.
SetupNbdFD ==
    /\ At("main", "setup", "main")
    /\ Then("main", IF "nbd" \in broken
                    THEN LOG("nbd open failed") \o <<<<"throw", "main">>>> ELSE <<>>)
    /\ UNCHANGED <<objectVars, loggerVars, processVars, worldVars>>

Throw ==
    /\ Execute("main", "throw", "main")
    /\ life' = "terminated"
    /\ UNCHANGED <<loggerVars, processVars, program, missing, broken, home, luckVars>>

RegisterProxy ==
    /\ Execute("main", "register", "main")
    /\ registered' = TRUE
    /\ UNCHANGED <<loggerVars, events, m_flag, mon, m_map, requests, tasks, sent, up, worldVars>>

\* system("mv ..."): fails without a word if the library is not there.
Move(lib) ==
    /\ Execute("main", "mv", lib)
    /\ home' = home \ {lib}
    /\ events' = IF lib \in home THEN Append(events, lib) ELSE events
    /\ UNCHANGED <<loggerVars, m_flag, mon, m_map, registered, requests, tasks, sent, up,
                   program, missing, broken, life, luckVars>>

\* The plug-in monitor has dealt with everything in the directory.
CaughtUp == events = <<>> /\ todo["monitor"] = <<>>

\* sleep(3), which is as long as it is.
Sleep ==
    /\ Execute("main", "sleep", "main")
    /\ hurried' = (hurried \/ ~CaughtUp)
    /\ UNCHANGED <<loggerVars, processVars, program, missing, broken, life, home,
                   asleep, found, astray>>

\* mkfs writes to the device and waits for the answers.
Mkfs ==
    /\ Execute("main", "mkfs", "main")
    /\ requests' = Append(requests, "libwritecmd")
    /\ UNCHANGED <<loggerVars, events, m_flag, mon, m_map, registered, tasks, sent, up, worldVars>>

Served ==
    /\ Execute("main", "served", "main")
    /\ requests = <<>> /\ tasks = <<>>
    /\ \A t \in Threads \ {"main", "monitor"} : todo[t] = <<>>
    /\ UNCHANGED <<loggerVars, processVars, worldVars>>

SayUp ==
    /\ Execute("main", "up", "main")
    /\ up' = TRUE
    /\ UNCHANGED <<loggerVars, events, m_flag, mon, m_map, registered, requests, tasks, sent,
                   worldVars>>

StopLogger ==
    /\ \/ Execute("main", "flag", "Logger") /\ StopFlag
       \/ Execute("main", "push", "stop") /\ PushStop
       \/ Execute("main", "join", "Logger") /\ JoinLogger
    /\ UNCHANGED <<processVars, worldVars>>

StoreStop ==
    /\ Execute("main", "stopMonitor", "main")
    /\ m_flag' = "STOP"
    /\ UNCHANGED <<loggerVars, events, mon, m_map, registered, requests, tasks, sent, up,
                   worldVars>>

\* CreateDir puts a file into the directory at m_path.  The string m_path was
\* taken from is long gone: if its bytes are gone as well, the file is put
\* wherever the bytes there are now say, or there is no such directory, no
\* file and a line in the log; in both cases the monitor hears nothing.
CreateDir ==
    /\ At("main", "createDir", "main")
    /\ \/ Done("main") /\ events' = Append(events, "dummy_die") /\ UNCHANGED astray
       \/ Done("main") /\ astray' = TRUE /\ UNCHANGED events
       \/ Then("main", LOG("mkdir dir fail")) /\ astray' = TRUE /\ UNCHANGED events
    /\ UNCHANGED <<objectVars, loggerVars, m_flag, mon, m_map, registered, requests, tasks,
                   sent, up, program, missing, broken, life, home, asleep, found, hurried>>

JoinMonitor ==
    /\ Execute("main", "joinMonitor", "main")
    /\ mon = "ended" /\ todo["monitor"] = <<>>
    /\ UNCHANGED <<loggerVars, processVars, worldVars>>

\* ~Mediator: no worker and no handler runs any more.
StopMediator ==
    /\ Execute("main", "stopMediator", "main")
    /\ \A t \in Threads \ {"main", "monitor"} : todo[t] = <<>>
    /\ registered' = FALSE
    /\ UNCHANGED <<loggerVars, events, m_flag, mon, m_map, requests, tasks, sent, up, worldVars>>

\* main returns: exit calls the functions given to atexit, then ends.
Exit ==
    \/ \E c \in Classes :
          /\ exitFuncs # <<>> /\ c = exitFuncs[Len(exitFuncs)]
          /\ ExitFunc("main", Dtor(c))
          /\ UNCHANGED <<loggerVars, processVars, worldVars>>
    \/ /\ exitFuncs = <<>>
       /\ Execute("main", "exit", "main")
       /\ life' = "exited"
       /\ UNCHANGED <<loggerVars, processVars, program, missing, broken, home, luckVars>>

MainThread ==
    /\ life = "running"
    /\ \/ StartLoggerThread \/ Watch \/ SetupNbdFD \/ Throw \/ SetDebug \/ RegisterProxy
       \/ \E lib \in Libraries : Move(lib)
       \/ Sleep \/ Mkfs \/ Served \/ SayUp
       \/ StopLogger \/ StoreStop \/ CreateDir \/ JoinMonitor \/ StopMediator \/ Exit

-----------------------------------------------------------------------------
(* The other threads take up work, and the world around the process. *)

Begin(t, statements) ==
    /\ life = "running"
    /\ todo[t] = <<>>
    /\ todo' = [todo EXCEPT ![t] = statements]
    /\ UNCHANGED objectVars

\* DirMonitor::Monitor: the test of the loop, and the next event, of which
\* the loader hears from its subscription on until its callback is deleted.
Monitor ==
    \/ /\ mon = "test"
       /\ Begin("monitor", <<>>)
       /\ mon' = IF m_flag = "STOP" THEN "ended" ELSE "read"
       /\ UNCHANGED <<loggerVars, events, m_flag, m_map, registered, requests, tasks, sent, up,
                      worldVars>>
    \/ /\ mon = "read"
       /\ events # <<>>
       /\ Begin("monitor",
                IF Head(events) = "dummy_die" \/ m_flag = "STOP" \/ "m_loader" \notin objects
                THEN <<>> ELSE Broadcast(Head(events)))
       /\ events' = Tail(events)
       /\ mon' = "test"
       /\ UNCHANGED <<loggerVars, m_flag, m_map, registered, requests, tasks, sent, up,
                      worldVars>>

ReadRequest ==
    /\ registered
    /\ requests # <<>>
    /\ Begin("reactor", ReactorHandler(Head(requests)))
    /\ requests' = Tail(requests)
    /\ UNCHANGED <<loggerVars, events, m_flag, mon, m_map, registered, tasks, sent, up, worldVars>>

TakeTask(w) ==
    /\ w \notin asleep
    /\ tasks # <<>>
    /\ Begin(w, <<<<"create", Head(tasks)>>>>)
    /\ tasks' = Tail(tasks)
    /\ UNCHANGED <<loggerVars, events, m_flag, mon, m_map, registered, requests, sent, up,
                   worldVars>>

\* A worker that missed the Run wakes up spuriously after all.
WakeUp(w) ==
    /\ life = "running"
    /\ w \in asleep
    /\ asleep' = asleep \ {w}
    /\ UNCHANGED <<singletonVars, loggerVars, processVars, program, missing, broken, life, home,
                   found, hurried, astray>>

LoggerThread == life = "running" /\ ThreadLogger
                /\ UNCHANGED <<singletonVars, processVars, worldVars>>

\* The kernel or the master sends a request; a master's disk is used once it
\* is mounted, a minion has a port as soon as it is registered.
Request(key) ==
    /\ life = "running"
    /\ registered
    /\ program = "master_test" => up
    /\ sent < MaxRequests
    /\ sent' = sent + 1
    /\ requests' = Append(requests, key)
    /\ UNCHANGED <<singletonVars, loggerVars, events, m_flag, mon, m_map, registered, tasks, up,
                   worldVars>>

\* Somebody puts a library into the directory of a running process.
PutLibrary(lib) ==
    /\ life = "running"
    /\ mon # "none"
    /\ program = "framework_test"
    /\ lib \in home
    /\ home' = home \ {lib}
    /\ events' = Append(events, lib)
    /\ UNCHANGED <<singletonVars, loggerVars, m_flag, mon, m_map, registered, requests, tasks,
                   sent, up, program, missing, broken, life, luckVars>>

\* The process is killed, or falls over a callback that was deleted.  What it
\* had in memory is gone.
Kill ==
    /\ life = "running"
    /\ life' = "killed"
    /\ SingletonReset(Fresh(<<>>))
    /\ LoggerReset
    /\ ProcessReset
    /\ asleep' = {}
    /\ UNCHANGED <<program, missing, broken, home, found, hurried, astray>>

\* It is started again.  The libraries are wherever they are by now, unless
\* they were built again.
Restart ==
    /\ life \in {"terminated", "killed"}
    /\ life' = "running"
    /\ home' \in {home, Libraries}
    /\ SingletonReset(Fresh(Main(program)))
    /\ LoggerReset
    /\ ProcessReset
    /\ asleep' = {} /\ found' = home' /\ hurried' = FALSE /\ astray' = FALSE
    /\ UNCHANGED <<program, missing, broken>>

Next ==
    \/ \E t \in Threads : AnyThread(t)
    \/ MainThread
    \/ Monitor
    \/ ReadRequest
    \/ \E w \in Workers : TakeTask(w) \/ WakeUp(w)
    \/ LoggerThread
    \/ \E lib \in Libraries : Request(lib) \/ PutLibrary(lib)
    \/ Kill
    \/ Restart

SafeSpec == Init /\ [][Next]_vars

\* Every thread that can run does; the mutexes of the singletons are fair
\* enough that nobody waits for ever.  Nobody is obliged to wake spuriously,
\* to send requests, to touch the directory or to kill the process.
Fairness ==
    /\ WF_vars(AnyThread("main") \/ MainThread)
    /\ WF_vars(AnyThread("monitor") \/ Monitor)
    /\ WF_vars(AnyThread("reactor") \/ ReadRequest)
    /\ \A w \in Workers : WF_vars(AnyThread(w) \/ TakeTask(w))
    /\ WF_vars(LoggerThread)

Spec == SafeSpec /\ Fairness

-----------------------------------------------------------------------------

\* The object that a statement is about to use, if any.
Needs(statement) ==
    CASE statement[1] = "config"             -> "ConfigManager"
      [] statement[1] \in {"log", "level"}   -> "Logger"
      [] statement[1] \in {"add", "create"}  -> "m_factory"
      [] statement[1] = "register"           -> "m_mediator"
      [] statement[1] = "task"               -> "proxy"
      [] statement[1] = "use"                -> statement[2]
      [] OTHER                               -> "nothing"

\* main is destroying the plug-ins and has not joined the monitor yet.
Unloading == \E i \in DOMAIN todo["main"] : todo["main"][i] = <<"joinMonitor", "main">>

\* What a thread uses exists: it has been constructed to the end and its
\* destructor has not got to it, though m_instance is never reset, threads
\* run during construction and at exit, and a proxy is in use before its
\* constructor has returned.  The one exception is the loader's callback: it
\* is deleted before the monitor is told to stop, and the monitor may be about
\* to call it, or in it.
UsesLive ==
    \A t \in Threads :
       (life = "running" /\ todo[t] # <<>>) =>
          \/ Needs(Head(todo[t])) \in objects \cup {"nothing"}
          \/ t = "monitor" /\ Needs(Head(todo[t])) = "m_loader" /\ Unloading

\* When main says that the master or the minion is up, the commands of every
\* library that it found and that can be loaded are registered, and the next
\* request finds them, if they were loaded by the time main woke up.
UpMeansReady == up /\ ~hurried => found \ broken \subseteq m_map

\* Create, on a worker, knows the command it is asked for: the process ends by
\* an exception only if its configuration or a file was bad, a library was
\* not there any more or was not loaded in the three seconds main allows.
DiesOnlyOfBadFiles ==
    life = "terminated" =>
       missing # {} \/ broken \ {"minions"} # {} \/ found # Libraries \/ hurried

\* A server that is started comes up, though a master's mkfs needs its own
\* reactor, workers and plug-ins to be served; or it ends; or, a master, it
\* waits for ever, for a minion or for workers that all missed the Run.  Up
\* or ended it stays until it is killed or started again.
ComesUp ==
    []<>(program # "framework_test" =>
            \/ up \/ life # "running"
            \/ program = "master_test" /\ (asleep = Workers \/ "minions" \in broken))

\* A process whose main returns ends: monitor, reactor, workers and logger
\* are all joined, in an order in which none waits for another, unless the
\* file that should wake the monitor went astray.
ExitReturns == []<>(program = "framework_test" => life # "running" \/ astray)

\* The test of the framework ends.
TestEnds == []<>(program = "framework_test" => life # "running")

\* The logger keeps up: again and again everything logged so far is in the
\* file, unless the logger is stopped or the process ends.
LoggedIsWritten ==
    []<>(Len(file) = Len(logged) + 1 \/ writer = "none" \/ m_stop_flag \/ life # "running")
=============================================================================
