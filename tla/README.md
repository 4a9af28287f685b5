# DistributedDisk: TLA+ models, checks and proofs

DistributedDisk (`src/projects/fs_project`) is a network block device. The
kernel reads and writes a disk of 4096-byte blocks through an NBD socket; a
**master** process turns every request into a command and keeps each block on
two **minion** processes, which it reaches over UDP. Both processes are built
on the same framework: a reactor, a mediator, a thread pool over a waitable
priority queue, a factory of commands, and plug-ins loaded from a watched
directory.

This directory holds TLA+ models of these parts, the TLC configurations that
check them on small instances, and proofs that TLAPS checks for every value of
the constants. Paths below are relative to `src/projects/fs_project`.

```
tlc   -workers 2 -config MCWaitableQueue.cfg MCWaitableQueue
tlapm WaitableQueue_proofs.tla
```

## 1. Inventory

### Parts, their state and their operations

| part | state | operations | module |
|---|---|---|---|
| WaitableQueue (`waitable_queue/`) | container, mutex, condition variable | Push, Pop, Pop with timeout | WaitableQueue, QueueService |
| PQWrapper (`waitable_queue/`) | priority queue | push, front, pop | WaitableQueue (`Ordered = FALSE`), ThreadPool |
| ThreadPool (`thread_pool/`) | flag, task queue, map of threads, queue of dying threads | constructor, Add, Run, Pause, Resize, Stop; workers; angel of death | ThreadPool |
| FutureTask (`thread_pool/`) | promise | Do, IsReady, GetValue | ThreadPool |
| Reactor (`reactor/`) | map of handlers, stop flag, list of ready descriptors | Add, Remove, Stop, Run | Reactor |
| Mediator (`mediator/`) | map of proxies, reactor, pool | RegisterProxy, UnRegisterProxy, ReactorHandler, destructor | Mediator |
| Dispatcher, Callback (`dispatcher_callback/`) | list of subscribers, back pointers | Subscribe, UnSubscribe, Broadcast, both destructors | Dispatcher |
| DirMonitor (`dir_monitor_dllloader/`) | inotify descriptor, flag, thread | Monitor, StopMonitor | DirMonitor |
| DllLoader, PlugPlay (`dir_monitor_dllloader/`, `framework/`) | callback, open libraries | Notify, construction, destruction | DirMonitor |
| Raid, MinionManager, MinionData | numbered minions, fixed at start | ChooseMinions | Raid |
| ProtocolTranslator, app_protocol | id counter | TranslateRequest, TranslateReply | Protocol |
| UDP sockets (`socket/`, `udpsocket/`) | receive buffer; server: `m_client_sockaddr` | Send, Receive with and without timeout | Protocol, Minion, Master |
| MinionProxy, MinReadCmd, MinWriteCmd, StorageManager | pending header, client address, map of blocks | ParseData/Read, Run, Reply, Store, Load | Minion |
| NbdProxy, Master, ReadCmd, WriteCmd | NBD socket, mutex; per command: stage and reply | ParseData, Run, CommunicateMinion, Reply | Master |
| Singleton (`singlton/`) | instance pointer, mutex, exit functions | GetInstance, ExitFunc | Singleton |
| Logger (`logger/`) | level, stop flag, queue, thread | constructor, SetLevel, Log, destructor | Logger |
| ConfigManager (`config_manager/`) | keys of the configuration file | GetConfig | FrameWork |
| Factory (`factory/`) | map from keys to creators | Add, Create | FrameWork |
| FrameWork and the executables | members in their order; statements of main | constructor, RegisterCmd, RegisterProxy, destructor; start, kill, restart | FrameWork |

### How they interact

The reactor's thread of the master finds the NBD socket readable and calls
`NbdProxy::ParseData` through the mediator; the command it makes becomes a task
of the pool. A worker runs it: the command opens a UDP socket per minion, sends,
waits up to four seconds, resends, and finally writes the answer to the NBD
socket under the master's mutex. In a minion, the reactor's thread parses
datagrams and a worker stores, loads and answers. Reactor, worker and kernel
share sockets and a few fields without further synchronisation. Plug-ins are
loaded by a thread of their own, which notifies the loader through a dispatcher;
loading one registers its command with the factory. Everything is reached through
singletons, some of which construct others, and every thread may log.

### What is hard here

* wakeups: a woken thread that loses its item to a newcomer, a timed wait that
  reports a timeout although it was notified, `notify_all` without the mutex
  (WaitableQueue, ThreadPool);
* threads controlled by tasks in their own queue, and joined by a thread that is
  itself interrupted (ThreadPool);
* UDP: loss, retries of what was already done, late answers, crashes of minions,
  and an address field shared by two threads (data path);
* two-part replies on a socket that several workers share (Master);
* call-backs that change the list they are called from (Dispatcher, Reactor);
* start-up and shut-down races: Stop before Run, destruction during a broadcast,
  requests that arrive before the plug-ins that serve them, the first use of a
  singleton by several threads, and the order of destruction at exit;
* a process that is killed and started again over the files it left behind.

`PROJECT.json` lists the hazards one by one, each at its line and with the
properties that would notice it going wrong.

## 2. Modules

```
QueueService <--refines-- WaitableQueue <-- WaitableQueue_proofs
                          ThreadPool    <-- ThreadPool_proofs
Raid <- Protocol <- Master, Minion <- DistributedDisk <-- DistributedDisk_proofs
                                      DistributedDisk --refines--> NbdService
                     DistributedDisk_proofs <-- OneWorker_proofs
Reactor <- Mediator <-- Mediator_proofs
Dispatcher <-instance- DirMonitor
Dispatcher <-- Dispatcher_proofs
Singleton, Logger <- FrameWork <-- FrameWork_proofs <-- FrameWorkLife_proofs
```

Every `MC*` module instantiates one of them for TLC. A definition marked
`Mutant:` is a plausible mistake in the definition after it. It is part of no
specification; putting it in place of that definition must make a property fail,
which shows that the property depends on the code.

**WaitableQueue.** One action is one critical section of the mutex; `Push`
includes `notify_one`, which is called with the mutex still held. A thread in
Pop enters, waits, is notified (or spuriously woken) or expires. `wait_until` may
report a timeout to a thread that has been notified (`Expire` from both stages),
and Pop then returns false without another look at the queue: the wakeup is gone,
and an item may lie beside a thread that sleeps. `lapsed` counts how often this
has happened since the queue was last empty; `given` and `taken` are history
variables. *QueueService* is the same without mutex or waiting: a pipe. A timed
Pop that lets an item lie jilts the other callers (`Jilt`): the pipe owes them
nothing until it has been empty.

**ThreadPool.** Workers, the angel of death and the owner are three kinds of
processes. The owner's calls are lists of statements (`todo`), so that workers
run between any two of them; `fresh` is the thread that AddThreads has created
and not yet entered into the map. The two queues are used atomically. For the
queue of the dying, a std::queue, the refinement of QueueService justifies that;
for the priority queue of tasks `WakeupsNotLost`, which is proved of either
container: no item lies beside a sleeper that nobody wakes, since workers, angel
and logger call Pop without a timeout (`lapsed` stays 0). Policy and niceness of
threads are left out. `ready` holds the tasks whose promise is set (FutureTask).
`held`, `size` and `hasty` are ghosts: whether a Pause is in force, the size
asked for, and whether the owner has called Run or Resize before the pool was
done with what came before.

**Raid, Protocol, Minion, Master, DistributedDisk.** `ChooseMinions` is the
code's arithmetic on the byte offset. A command has one socket per minion it
talks to, `<<c, leg>>`, which exists while CommunicateMinion runs; datagrams
sent to a closed one vanish. The minion's server socket keeps the last sender
(`client`), and `Reply` uses it whatever it is by then. A write's header goes
out without its block (`offsetof(Request_t, m_block)`), so the minion takes the
next datagram for the block. What `Store` and `Load` do with bytes is modelled
by its effect: the stored block is `Garbage`, since the datagram that stood in
for it was a header and Load copies from the wrong address. The kernel's end of
the NBD socket parses replies: a header, for a read followed by a block; when it
reads something that is no header it shuts the socket down. It does not send
overlapping requests with a write among them, as the block layer does not.
`faults` counts the faults still to come and the ghost `late` says whether a
command has given up waiting for an answer that was still under way. *NbdService*
is the promise to the kernel: each request is answered once, except that a read
whose two minions both failed may be dropped, as `ReadCmd::Run` does.

**Reactor, Mediator.** `Reactor::Run` is modelled step by step: the store to the
flag, its test, select with the sets built before it, the list of ready
descriptors, and the handlers. The owner constructs the mediator, registers
proxies and destroys it statement by statement; a handler may unregister any
descriptor, its own included (as `reactor_test.cpp:80` does). The constructor's
call of the pool's Run meets workers that have just been created: each is in its
SleepingPeel, which reads the flag, waits, and may miss the notification
(finding 1). Past that a worker takes tasks; the queue is a number of tasks per
descriptor here.

**Dispatcher, DirMonitor.** A loop over the subscribers stands on the callback
it is calling; whatever happens while it stands there happens inside that call.
DirMonitor takes the dispatcher as an instance and uses it from two threads: the
monitor's, which broadcasts, and the owner's, which subscribes and deletes. The
directory is external: files are moved, copied and deleted, and inotify queues
an event for each change once the watch is set. dlopen is given the bare file
name, so the plug-in directory has to be on the library path; the model takes
that for granted. It also takes `m_path` for a valid string, as in the monitor's
own tests; what FrameWork makes of it is in FrameWork.

**Singleton, Logger, FrameWork.** Each thread has a list of statements, `todo`;
a constructor puts its own statements in front of the caller's rest, so one
singleton's construction nests in another's with both mutexes held.
`GetInstance` is modelled load by load (the unlocked test, the lock, the second
test, the construction, the store, atexit). *Logger* is its thread with the
round it lags behind, its level, and its queue, which is the pipe that
WaitableQueue implements. *FrameWork* is one process from main to its end, for
three programs: a minion (`minion_exe`), the master (`master_test`) and the
framework's own test (`framework_test`, the only one that returns from main and
runs the exit functions). Reactor, pool and monitor are taken for what
Mediator, ThreadPool and DirMonitor show of them; which workers the mediator's
Run came too early for is a choice made when the mediator is made (`asleep`), and
such a worker takes tasks again only after a spurious wakeup. A command of the
master, read or write, waits for its minions, for ever if one of them never answers
(`WaitForMinions`). The plug-ins are destroyed as `PlugPlay` declares them: first
the loader with its callback, then the directory monitor, whose thread may still
be calling it. The process may be killed at any moment and started again;
libraries already moved away stay where they are, unless somebody has built them
again, and `sleep(3)` is as long as it is. Where a constructor reads several
configuration keys in a row the first stands for all of them. `CreateDir` has
three outcomes because `m_path` dangles (finding 4): the file is made in the
directory, or somewhere else, or not at all. The log's path dangles as well
(`logger.cpp:22`); `file` is what is given to `m_log_fd`, wherever that leads.

Ghosts of FrameWork: `found` (the libraries at home when the process was
started), `hurried` (main woke from its sleep before the monitor had dealt with
what was moved), `astray` (the file that should wake the monitor is not in its
directory). They are set by what happens and guard nothing.

## 3. Runs

| run | instance | shows |
|---|---|---|
| queue | 3 consumers, plain or timed, 4 pushes | `NoLostWakeup`, `ExactlyOnceInOrder`, refinement of QueueService with its liveness |
| pool | 3 threads, 1 task, sizes 0 to 2, 4 calls in any order and at any moment | `AngelFinds`, `StopJoinsAll`, `PauseHolds`, `StopReturns`; without a hasty call also `PoolSize` and `TasksRun` |
| pool_run *(violation)* | 1 thread, one Run | a Run right after construction can be lost, and `AddedTasksDone` fails |
| disk_chaos | 3 minions, 3 commands, 2 workers, 2 tasks in a minion's queue; a loss, a crash; answers may be late | `Placement`, `ClientAskedHere` |
| disk_service | 2 minions, a write and a read of a block, 1 worker, 2 tasks in a minion's queue; a loss, two socket errors, a crash; answers may be late | refinement of NbdService with its liveness; `OwnReply`, `Replicated`, `WrittenBlockFound`, each for the behaviours it speaks of |
| disk_assert *(violation)* | 2 reads, 2 workers | replies interleave and the assert of write_all fails |
| disk_readback *(violation)* | a write and a read | the read returns something else |
| dispatcher | 3 callbacks, 2 dispatchers | `CallsOnlyLive`, `NoDeadDispatcher`, `EveryoneHears`, `BroadcastEnds` |
| plugins | 2 plug-ins, 3 queued events, destroyed at rest | `PlugInsLoaded`, `StopMonitorReturns` |
| mediator | 2 descriptors, 2 requests each, a worker in its peel | `ReadsOnlyReady`, `HandlerFindsProxy`, `DtorReturns`; `RequestsServed` unless every worker missed the Run |
| framework | `framework_test`, `minion_exe` and `master_test`, 2 workers, 1 request; a key, library, device or minion bad; libraries arriving at any moment of the test, exit included; kills and restarts, with and without libraries built again | `OneInstance`, `UsesLive`, `UpMeansReady`, `DiesOnlyOfBadFiles`, `LogInOrder`, `ComesUp`, `LoggedIsWritten`; `ExitReturns` unless the file went astray |
| framework_exit *(violation)* | `framework_test` | main may never return from the exit functions |

### Why the bounds are enough

* Queue: three consumers are one that sleeps, one that is notified and one that
  barges in, or times out with its wakeup; four pushes let every one of them be
  notified more than once.
* Pool: three threads allow one that is dying, one that is fresh and one at
  work; four calls allow every pair of calls followed by Run and Stop. One task
  is enough, because what competes with it are the pool's own peels and apples.
* Data path: three minions are the least number where "one of the two minions of
  a block" excludes somebody. Two blocks and a write and a read of one of them give
  conflicts on a block and on a minion. `InboxCap` is small so that a full buffer
  drops datagrams. `MaxTasks = 2` lets a second request overwrite the client's
  address while the first is queued, which is what `ClientAskedHere` and
  `OwnReply` are about; more in the queue would overwrite the one field again.
  With one worker the second request at a minion is a resent one or the next
  command's, so a write and a read of the same block are enough in `disk_service`.
  Each kind of fault can hit every step, and two errors can hit both legs of one read.
* Dispatcher: three callbacks are the one being called, one before and one after
  it in the list; two dispatchers let one outlive the other.
* Mediator: two descriptors are one whose handler runs and one that it removes;
  two requests each let a descriptor be ready twice in a row. One worker is
  enough: tasks are served when any worker is past its peel.
* Plug-ins: two files and three events let events of both mix in one read.
* FrameWork: two workers, so that the Run of the pool may be lost on one of them
  and not on the other; main, monitor, reactor and a worker contend for singletons;
  two libraries allow one that is registered and one that is not. One bad file at a
  time meets each of the places that can fail. One request, to which the master
  adds its mkfs before. With `MaxRequests = 2` both workers can be at work at once;
  the invariants hold there too (1.3 million states, PROPERTIES left out), but the
  liveness properties take too long. The proofs have any number of requests and
  workers.

Deadlock is checked where the system never stops (queues, dispatcher). The other
configurations switch it off, because their systems come to rest: all commands
answered, the pool stopped, the mediator or the monitor destroyed, the bounded
calls used up.

### Assumptions named by a constant

* `NumWorkers = 1` in `disk_service`: the repository's
  configuration has 4, for which `disk_assert` shows that the promise at the NBD
  socket is broken.
* `Hasty` (Mediator): whether it may be destroyed before its thread runs.
* `Calm`: the plug-in directory is at rest when the PlugPlay is destroyed.
* `MaySubscribe`, `MayDie` (Dispatcher): a callback has one dispatcher at a time,
  subscribes to none that is being destroyed and does not die in its own Notify.
  The class keeps a single back pointer and an unguarded iterator, so these are
  its users' obligations, and the repository's one user meets them on one thread.

DistributedDisk's `Restart`, after which a minion serves again, takes for granted
that its libraries were built again (finding 11).

Other properties of the environment are history variables instead of constants, so
that the runs contain both kinds of behaviour and the properties say which they
are about. `Smooth` (from `late` and `faults`) says that no answer has come late
and no socket has failed so far; `OwnReply`, `Replicated` and `WrittenBlockFound`
are about such behaviours, losses included, since a late answer reaches the
wrong command (nothing compares ids) and a failed leg of a write goes unnoticed.
`OwnReply` covers any number of crashes, and `Replicated` one, which leaves one
copy; `WrittenBlockFound` covers none, as a restarted minion has forgotten its
blocks. In the pool `hasty` plays this part, in the queue `lapsed`, in FrameWork
`found`, `hurried` and `astray`. `RequestsServed` and `ComesUp` name the state in
which every worker has missed the mediator's Run (`AllAsleep`, `asleep = Workers`),
and `ComesUp` a master one of whose minions never answers: these are the ways in
which the code does stay behind, and the properties say that there is no other.

### Fairness

Weak fairness of every thread's own steps, and nothing else: threads that can
run do run, tasks of the user and ParseData return, a crashed minion is started
again (as the operator of the system has to), a blocked Receive with a timeout
eventually has a datagram or times out, and select returns after at most seven
seconds. In FrameWork that is one condition per thread, the logger's included, and
nothing about how long a sleep is. No fairness is assumed of the network, of faults, of the kernel sending
requests, of owners making calls, of the directory changing or of spurious
wakeups. The liveness properties hold although notified threads can be overtaken
each time by others, because the queues only promise that *somebody* is served.

## 4. Findings

Four runs expect a violation; `PROJECT.json` quotes the lines.

1. `thread_pool_impl.cpp:101` - Run changes the flag and notifies without the
   mutex; a worker between its test and its wait sleeps for ever (pool_run).
   `mediator.cpp:33` makes just that call right after the pool's construction,
   hence the exceptions in `RequestsServed` and `ComesUp`.
2. `read_command.cpp:72-73` with `nbd_proxy.cpp:160` - a read's header and block
   are written under two acquisitions of the mutex (disk_assert).
3. `write_command.cpp:50`, `storage.cpp:40` - a write's block is not sent, and
   Load copies from the map entry itself (disk_readback).
4. `framework.cpp:34` - PlugPlay is given the `c_str()` of a temporary, which
   DirMonitor keeps as `m_path` (`dir_monitor.hpp:54`); at exit the file that
   should wake the monitor's thread is created there. When the bytes are gone
   the join never returns, and neither does the test of `framework_test.cpp:16-19`
   (framework_exit).
More things the code does are admitted by a model and named in a comment or in a
property's exception, or stand behind a constant whose other value shows them.

5. `waitable_queue_impl.hpp:38` - a timed Pop that was notified and timed out
   leaves its item beside a sleeper: `lapsed` in `NoLostWakeup`, `Jilt` in
   QueueService. No part of the system calls the timed Pop.
6. `thread_pool_impl.cpp:160` - Resize counts threads that the Resize before has
   sentenced: Resize(0) and then Resize(1) at once leave no thread. `PoolSize`
   and `TasksRun` would fail without their exception for `hasty`.
7. `dir_monitor_impl.cpp:172` - the loader's callback is deleted while the
   monitor's thread may be in it or about to call it, since PlugPlay destroys the
   loader before the monitor. In FrameWork it happens, and `UsesLive` says that
   nothing else of the kind does; in DirMonitor `Calm = FALSE` makes
   `D!CallsOnlyLive` fail.
8. `reactor.cpp:42` - Run forgets a Stop that came first: with `Hasty = TRUE` in
   Mediator `DtorReturns` fails.
9. `reactor.cpp:42` - Run does not end when all descriptors are removed, although
   the comment at `reactor.hpp:31` says so ("blocking, until all FD's are removed
   or Stop() called"): the loop tests the stop flag only and selects on empty sets.
   Reactor has it as the code has it, and `RequestsServed` depends on that: the
   mediator starts Run before any proxy registers, and a descriptor registered after
   the last one was removed is served.
10. `factory_impl.hpp:24` - a request for a command whose plug-in took longer than
   main's `sleep(3)` ends the process: `hurried` in `DiesOnlyOfBadFiles`.
11. `minion_exe.cpp:18-23`, also `master_test.cpp:26` - a process that is started
   again finds its libraries already moved; the new watch reports nothing, no
   command is registered, and main says it is up all the same. The first request
   then ends the process: `found` in `UpMeansReady` and `DiesOnlyOfBadFiles`.

Two more were met while reading and no run is about them. A LOG_ERROR in the
constructor of ConfigManager (`config_manager.cpp:49`) asks for the Logger that is
being constructed by the same thread and would deadlock; the tokenizer never
throws, so it is not reached. GetLoggerPath's branch for a missing path
(`logger.cpp:22`) is dead, since GetConfig throws first.

## 5. Proofs

tlapm proves the following for any finite number of threads, minions and
commands, any bounds, and any priorities and offsets, from the named ASSUMEs of
the modules (finite sets of threads, positive counts, marker values distinct
from data), which TLC evaluates on each run.

**WaitableQueue_proofs.** `TypeCorrect`, `WakeupsNotLost`, `InOrder`,
`ImplementsService`. `NoLostWakeup` is inductive together with the types, and it
is a counting fact: while anybody sleeps, the threads that are notified and the
wakeups that lapsed are together at least as many as the items queued. A Push
adds one to both sides, or nobody sleeps; a Pop takes at most one from each; a
notified thread that times out moves from one count to the other. The obvious "a sleeper implies an empty queue" is
false, because notify_one only marks a thread that still has to get the mutex.
`ImplementsService` is the safety part of the refinement; its fairness is left
to TLC. `TypeCorrect` and `WakeupsNotLost` hold for both containers, the
std::queue and PQWrapper; `InOrder` and `ImplementsService` speak of the
std::queue. The run has the std::queue; ThreadPool exercises the priorities.

**DistributedDisk_proofs.** `CopiesApart`, `TypeCorrect`, `PlacementHolds`,
`ClientAskedHereHolds`. `Placement` alone is not inductive: what a minion stores
comes from a request that has been through its receive buffer, its half-read
header and its task queue. `Located` adds that at each of these stations a
request is at a minion that its socket was opened for (`RequestsBelong`). It is
the same invariant that keeps `m_client_sockaddr` local, in the face of loss,
duplicates, errors and crashes. `TypeCorrect` includes the bound on running
commands and that a read is answered only with a reply in hand.

**OneWorker_proofs.** What holds at the NBD socket and at the command's own
socket when the master has one worker (`NumWorkers = 1`, the assumption of each
theorem; with two, `disk_assert` shows the promise at the NBD socket broken and a
reply can be another command's). Minions, commands, offsets, faults and the
bounds on a minion's buffer and queue are any.

* `ImplementsService`, the safety part of the refinement of NbdService. `InStep`
  says that the kernel expects a block just when the one running command is about
  to send it, and `Accounted` that the NBD socket holds each request sent and not
  yet parsed, once. From these each step maps to a step of NbdService or a stutter.
* `RepliesAreOwn` (`OwnReply`). Nothing compares ids, so that the reply in hand is
  one's own is a fact about every place where an older one could survive. In a
  smooth behaviour the requests and replies under way belong to the running
  command and its current leg; a crash takes what was on its way with it.
* `WrittenBlocksAreFound` (`WrittenBlockFound`) and `CopiesAreKept` (`Replicated`,
  for two minions or more: with one there is only one place to keep a copy). They add
  that a leg of a write which got its reply has its entry at the minion, and how
  many entries the crashes so far can have cost.

**ThreadPool_proofs.** `TypeCorrect`, `AngelAlwaysFinds`,
`NoThreadSurvivesStop`, `PausedPoolIsQuiet`, `PoolKeepsItsSize`. `Mourning`
relates four places a thread id can be: the
map, the hands of AddThreads, the queue of the dying and the angel. Whoever
lives is listed; whoever waits for the angel is listed, past its apple, and
there once; what is fresh is inserted next. `Stopping` says which statements can
be left of the current call, and that the angel has ended once Stop has joined
it; with `Mourning` it leaves no thread outside the map that Stop's join could
miss. The other two are counts. `Quiet`: while the pool is held the queue has a peel for each
worker that is at the queue or in a user's task, and before Pause or the
constructor has returned the peels still to be pushed make up the difference to the workers
still to be created; Pause's count of m_threads suffices because nobody alive is
outside the map then. `Sized`: the threads listed and still to be created are the
size asked for plus the apples, whether still to be pushed, queued or taken.

**Mediator_proofs.** `TypeCorrect`, `NeverBlocksInRead` (`ReadsOnlyReady`),
`ProxyAlwaysThere` (`HandlerFindsProxy`). What a handler does can invalidate the
rest of the list of ready descriptors. `ListFresh` says that the list has each
descriptor once and that those not yet served have something to read, and
`Registering` and `Known` that a descriptor in the reactor's map has its proxy,
which is there first and goes last.

**Dispatcher_proofs.** `TypeCorrect`, `LoopsStandOnLive` (`CallsOnlyLive`),
`NobodyCallsTheDead` (`NoDeadDispatcher`), `BroadcastReachesAll`
(`EveryoneHears`). Lists and back pointers agree (`Subscribed`, `Pointed`),
except behind the loop of a dispatcher's destructor, which has already cut the
pointers there; `Hearing` says who has been notified in terms of who is ahead of the
cursor. The lemmas say what push_front and remove do to the order of a list.

**FrameWork_proofs.** `TypeCorrect`, `OneConstructor` (`OneInstance`),
`LogIsInOrder` (`LogInOrder`). Each thread has its own list of statements, and a
statement may put others in front of the rest. `Construction` says that a thread
that still has to store a class's instance, or to register its exit function,
holds that class's mutex, that it has each of the two once, the store first, and
that nobody has a store left once the instance is there; `OneInstance` follows
from there being one holder of a mutex. `Duties` says that the logger's thread is started once and
that its stop flag is set before it is told to end, and `Text` that file and
queue make up what was logged.

**FrameWorkLife_proofs.** `UsesWhatIsThere` (`UsesLive`), `UpIsReady`
(`UpMeansReady`) and `DiesOfBadFiles` (`DiesOnlyOfBadFiles`), for each of the three
programs and any workers, requests, kills and restarts, whatever libraries are
there at a restart and however long main sleeps. What the properties except, the
code does: the loader's callback at exit (finding 7), a library that was not there
any more (finding 11) or not loaded in time (finding 10).

A statement is safe because of what stands before it in its thread's list, so
the argument is about lists.

* *Orders.* `Neat`: every statement comes after one that gets the class it
  relies on, a store after the construction of what the instance owes (`Owes`), a use of the proxy after
  its construction. Each list of the code (constructors, destructors, LOG,
  GET_CONFIG, Notify, a command's Run, the two halves of main) is neat, and the
  lemmas `...Moved` say what replacing the first statement by a list does to an
  order.
* *Steps.* `StepTaken`: with the types, every step of Next executes one statement
  (`Executes`), calls an exit function (`Destroys`), has a thread take up work
  (`MonitorBegins`, `WorkBegins`), starts a process (`Starts`), or leaves what
  matters here alone (`Stays`).
* *Lists.* Which statements a thread can have in which program, and for main of a
  server the order of moving libraries, sleeping, and serving.
* *Core*, inductive together with the types, `Construction` (see above) and
  `Lists`. `Alive`: whoever relies on an instance has it or gets it before
  (`Covered`), an instance that can be had is complete (`Live`, `Made`,
  `ProxyMade`; of framework_test's FrameWork the loader goes before the rest, and
  `Attended` says that the monitor then misses it only while main is in the
  destructor of the plug-ins), or framework_test is past joining its monitor (`Over`).
  `Monitored`: while the monitor's thread runs there is a logger and there is a
  FrameWork, or main, which holds FrameWork's mutex, is about to store it, so
  the monitor's thread constructs neither. `Serving`: requests exist only when FrameWork
  and the proxy do. `Course`: framework_test asks for FrameWork, constructs
  it, returns, destroys it and then the rest, and the only exit function that
  drops what others use runs after the monitor has been joined.
* *Loading.* A library that the process found, that can be loaded and is not in
  the factory is on its way: at home with main's `mv` to come, in an inotify event
  of a monitor that has its loader (`Expecting`), or in the hands of the monitor's
  thread; and then main has not slept, or woke too early, and the monitor runs.
  `up` comes after the sleep, which gives `UpMeansReady`. With `Serving`, a worker
  that calls Create does so after the sleep, which gives `DiesOnlyOfBadFiles`.

None of the three is inductive, and neither are `Alive` and `Monitored` one without the
other: what the monitor's thread may use depends on where main is in FrameWork's
constructor or destructor.

**Left to TLC.** All properties under fairness (`TasksRun`, `AddedTasksDone`,
`StopReturns`, `RequestsServed`, `DtorReturns`, `BroadcastEnds`, `PlugInsLoaded`,
`StopMonitorReturns`, `ComesUp`, `ExitReturns`, `LoggedIsWritten`, and
the liveness in the two refinements), because TLAPS does not handle ENABLED.
Every invariant of a passing run is a theorem. The run of DirMonitor checks
liveness only.

## 6. What the models leave out of the parts they model

* One NBD request is one block, and requests are reads and writes; no
  disconnect, flush or trim. DistributedDisk begins with the device set up;
  FrameWork has the set-up, which fails as a whole or not at all, and mkfs and
  mount as the process's first requests.
* Failure of system calls other than Receive, dlopen, creating the file that
  wakes the monitor, and the NBD set-up; of memory allocation and of thread
  creation.
* Data races on the hash tables of Reactor, Mediator, Factory and ThreadPool: the
  maps are sets with atomic operations. The angel's iterator, kept over an unlocked join,
  is a thread id.
* The log: one line stands for all that a handler writes in a row; the line that
  a bad reply is worth to a master's command, and the formatting of lines, are
  left out.
* Ids of requests: no code compares them. Addresses of minions are their
  numbers; the parsing of addresses in `master.cpp` is not modelled.
* One thread owns a pool, a mediator or a PlugPlay and makes all the calls, as
  in the executables. UnRegisterProxy is called on the reactor's thread only.

## 7. Parts that are not modelled

* `nbd_proxy/nbd_proxy_master.cpp`, `udpsocket/udp_socket.cpp`,
  `reactor/reactor_server.cpp`, `include/` and `dispatcher/` are earlier versions
  or copies that no executable builds; `minion_proxy1/` and `minion_proxy2/` hold
  the same code.
* NbdProxy's destructor and NBD_DISCONNECT: the executables never leave main, so
  they are never reached.
* Parsing of minions' addresses (`StringToIp` in `master.cpp`, whose shift of 26
  instead of 16 is harmless for 127.0.0.1) and tokenising of the configuration
  file: pure functions of strings whose result no property depends on beyond
  "the key is there".
* Tests and stand-ins, which are used as statements of what the code should do.

## 8. Plan

Done, in this order: the queue, because everything blocks on it; the data path,
because it is what the system is for; the pool; dispatcher and plug-ins; reactor
and mediator; singletons, logger and the life of a process. What is left of the
code is listed in section 7.

Proved since: every invariant that a run checks, of the queue, the data path,
the pool, the mediator, the dispatcher and a process's life, and the safety part
of both refinements.

Next, if the code grows: a registration in Reactor, Mediator or Factory that
races a lookup, once these maps have a lock whose sections can be modelled; and
NBD_CMD_DISC and flush in NbdProxy, once it tells them from writes.
