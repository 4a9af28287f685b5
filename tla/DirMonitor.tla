----------------------------- MODULE DirMonitor -----------------------------
(***************************************************************************)
(* PlugPlay: DirMonitor watches the plug-in directory on a thread of its   *)
(* own and broadcasts what happens there; DllLoader, its one subscriber,   *)
(* opens the libraries that are added.  The owner's thread constructs the  *)
(* two and destroys them in the opposite order, while the directory        *)
(* changes.                                                                *)
(*                                                                         *)
(* The dispatcher is the one of module Dispatcher, used from two threads.  *)
(***************************************************************************)
EXTENDS Naturals, Sequences

CONSTANTS Files,        \* the plug-ins that come and go in the directory
          MaxEvents,    \* bound: events in the inotify queue
          Calm          \* TRUE: nothing happens in the directory, and the
                        \* monitor has caught up, when the owner begins to
                        \* destroy the PlugPlay

ASSUME DirAssumption ==
    "dummy_die" \notin Files /\ MaxEvents \in Nat \ {0} /\ Calm \in BOOLEAN

VARIABLES dir,          \* the files in the directory
          partial,      \* those of them that are still being copied
          events,       \* what inotify has queued for m_fd
          m_flag,
          mon,          \* where the monitor's thread is
          buf,          \* events read and not yet dealt with
          opened,       \* libraries dlopen has loaded
          todo,         \* remaining statements of the owner's call
          life          \* what the owner is at

VARIABLES m_subscribers, m_dispatcher, alive, mode, cursor, audience, heard

D == INSTANCE Dispatcher
        WITH Callbacks <- {"m_callback"}, Dispatchers <- {"the_dispatcher"},
             None <- "NULL", End <- "end"

dispatcherVars == <<m_subscribers, m_dispatcher, alive, mode, cursor, audience, heard>>
monitorVars == <<dir, partial, events, m_flag, mon, buf, opened, todo, life>>
vars == <<monitorVars, dispatcherVars>>

\* What the watch asks for.
Masks == {"IN_CREATE", "IN_MOVED_TO", "IN_DELETE", "IN_MOVED_FROM", "IN_MODIFY"}

Ctor == <<"monitor", "subscribe">>

\* Mutant: the file that wakes the monitor is created before m_flag is set.
DtorSwapped == <<"deleteCallback", "create", "stop", "join", "remove", "dispatcher">>

\* ~DllLoader, then ~DirMonitor with StopMonitor in it.
Dtor == <<"deleteCallback", "stop", "create", "join", "remove", "dispatcher">>

Init ==
    /\ dir = {} /\ partial = {}
    /\ events = <<>>
    /\ m_flag = "RUN"
    /\ mon = "none"
    /\ buf = <<>>
    /\ opened = {}
    /\ todo = Ctor
    /\ life = "ctor"
    /\ D!Init

-----------------------------------------------------------------------------
(* The directory. *)

\* inotify queues the events asked for once the watch is set.
Queue(f, mask) ==
    events' = IF mon # "none" /\ mask \in Masks
              THEN Append(events, [name |-> f, mask |-> mask])
              ELSE events

Change(f, mask, there, copying) ==
    /\ Len(events) < MaxEvents
    /\ ~(Calm /\ life \in {"dtor", "gone"})
    /\ Queue(f, mask)
    /\ dir' = there
    /\ partial' = copying
    /\ UNCHANGED <<m_flag, mon, buf, opened, todo, life, dispatcherVars>>

MoveIn(f)   == f \notin dir /\ Change(f, "IN_MOVED_TO", dir \cup {f}, partial)
CopyIn(f)   == f \notin dir /\ Change(f, "IN_CREATE", dir \cup {f}, partial \cup {f})
Copied(f)   == f \in partial /\ Change(f, "IN_MODIFY", dir, partial \ {f})
MoveOut(f)  == f \in dir \ partial /\ Change(f, "IN_MOVED_FROM", dir \ {f}, partial)
Delete(f)   == f \in dir /\ Change(f, "IN_DELETE", dir \ {f}, partial \ {f})

-----------------------------------------------------------------------------
(* The monitor's thread. *)

monitorRest == <<dir, partial, m_flag, todo, life>>

\* Mutant: files that are moved in are overlooked.
TranslateCreateOnly(e) ==
    [name |-> e.name,
     type |-> IF e.mask = "IN_CREATE" THEN "ADD"
              ELSE IF e.mask \in {"IN_DELETE", "IN_MOVED_FROM"} THEN "REMOVE"
              ELSE "MODIFIED"]

TranslateINotifyToEvent(e) ==
    [name |-> e.name,
     type |-> IF e.mask \in {"IN_CREATE", "IN_MOVED_TO"} THEN "ADD"
              ELSE IF e.mask \in {"IN_DELETE", "IN_MOVED_FROM"} THEN "REMOVE"
              ELSE "MODIFIED"]

\* The condition of the while loop.
TestFlag ==
    /\ mon = "test"
    /\ mon' = IF m_flag = "STOP" THEN "ended" ELSE "read"
    /\ UNCHANGED <<monitorRest, events, buf, opened, dispatcherVars>>

\* read returns all the events there are, and blocks while there are none.
Read ==
    /\ mon = "read"
    /\ events # <<>>
    /\ buf' = [i \in DOMAIN events |-> TranslateINotifyToEvent(events[i])]
    /\ events' = <<>>
    /\ mon' = "next"
    /\ UNCHANGED <<monitorRest, opened, dispatcherVars>>

\* The for loop has no event left, or breaks off because of m_flag ...
LeaveLoop ==
    /\ mon = "next"
    /\ buf = <<>> \/ m_flag = "STOP"
    /\ buf' = <<>>
    /\ mon' = "test"
    /\ UNCHANGED <<monitorRest, events, opened, dispatcherVars>>

\* ... or broadcasts the next event.
Broadcast ==
    /\ mon = "next"
    /\ buf # <<>>
    /\ m_flag # "STOP"
    /\ D!Broadcast("the_dispatcher")
    /\ mon' = "broadcast"
    /\ UNCHANGED <<monitorRest, events, buf, opened>>

\* DllLoader::Notify: dlopen of what was added.  It fails, with a line in
\* the log, when the file is gone or not all there.
Notify ==
    /\ mon = "broadcast"
    /\ cursor["the_dispatcher"] \in alive
    /\ D!Notify("the_dispatcher")
    /\ LET e == Head(buf)
       IN  opened' = IF e.type = "ADD" /\ e.name \in dir \ partial
                     THEN opened \cup {e.name} ELSE opened
    /\ UNCHANGED <<monitorRest, events, buf, mon>>

BroadcastReturns ==
    /\ mon = "broadcast"
    /\ D!BroadcastReturns("the_dispatcher")
    /\ buf' = Tail(buf)
    /\ mon' = "next"
    /\ UNCHANGED <<monitorRest, events, opened>>

Monitor == TestFlag \/ Read \/ LeaveLoop \/ Broadcast \/ Notify \/ BroadcastReturns

-----------------------------------------------------------------------------
(* The owner's thread. *)

Statement(s) == todo # <<>> /\ Head(todo) = s /\ todo' = Tail(todo)

\* The constructor of DirMonitor: watch the directory, start the thread.
StartMonitor ==
    /\ Statement("monitor")
    /\ mon' = "test"
    /\ UNCHANGED <<dir, partial, events, m_flag, buf, opened, life, dispatcherVars>>

\* The constructor of DllLoader: a new Callback, subscribed.
SubscribeLoader ==
    /\ Statement("subscribe")
    /\ alive' = {"m_callback"}
    /\ m_subscribers' = [m_subscribers EXCEPT !["the_dispatcher"] = <<"m_callback">> \o @]
    /\ m_dispatcher' = [m_dispatcher EXCEPT !["m_callback"] = "the_dispatcher"]
    /\ life' = "up"
    /\ UNCHANGED <<dir, partial, events, m_flag, mon, buf, opened,
                   mode, cursor, audience, heard>>

CaughtUp == mon = "read" /\ events = <<>>

\* The PlugPlay is destroyed.
Destroy ==
    /\ life = "up"
    /\ Calm => CaughtUp
    /\ life' = "dtor"
    /\ todo' = Dtor
    /\ UNCHANGED <<dir, partial, events, m_flag, mon, buf, opened, dispatcherVars>>

\* ~DllLoader deletes the callback, whatever the monitor is doing.
DeleteCallback ==
    /\ Statement("deleteCallback")
    /\ D!CallbackDtor("m_callback")
    /\ UNCHANGED <<dir, partial, events, m_flag, mon, buf, opened, life>>

StoreStop ==
    /\ Statement("stop")
    /\ m_flag' = "STOP"
    /\ UNCHANGED <<dir, partial, events, mon, buf, opened, life, dispatcherVars>>

\* CreateDir: a file whose creation makes read return.
CreateDummy ==
    /\ Statement("create")
    /\ dir' = dir \cup {"dummy_die"}
    /\ Queue("dummy_die", "IN_CREATE")
    /\ UNCHANGED <<partial, m_flag, mon, buf, opened, life, dispatcherVars>>

Join ==
    /\ Statement("join")
    /\ mon = "ended"
    /\ UNCHANGED <<dir, partial, events, m_flag, mon, buf, opened, life, dispatcherVars>>

\* RemoveDir, and the two descriptors are closed.
RemoveDummy ==
    /\ Statement("remove")
    /\ dir' = dir \ {"dummy_die"}
    /\ events' = <<>>
    /\ UNCHANGED <<partial, m_flag, mon, buf, opened, life, dispatcherVars>>

\* The last shared_ptr to the dispatcher goes; it has no subscriber left for
\* its destructor to tell.
DropDispatcher ==
    /\ Statement("dispatcher")
    /\ mode' = [mode EXCEPT !["the_dispatcher"] = "dead"]
    /\ life' = "gone"
    /\ UNCHANGED <<dir, partial, events, m_flag, mon, buf, opened,
                   m_subscribers, m_dispatcher, alive, cursor, audience, heard>>

Owner ==
    \/ StartMonitor \/ SubscribeLoader
    \/ DeleteCallback \/ StoreStop \/ CreateDummy \/ Join \/ RemoveDummy
    \/ DropDispatcher

Next ==
    \/ Monitor
    \/ Owner
    \/ Destroy
    \/ \E f \in Files : MoveIn(f) \/ CopyIn(f) \/ Copied(f) \/ MoveOut(f) \/ Delete(f)

SafeSpec == Init /\ [][Next]_vars

\* The two threads run.  Nobody has to touch the directory or to exit.
Spec == SafeSpec /\ WF_vars(Monitor) /\ WF_vars(Owner)

-----------------------------------------------------------------------------

\* The news that f was added has not reached the loader yet.
Added(f) ==
    \/ \E i \in DOMAIN events :
          events[i].name = f /\ events[i].mask \in {"IN_CREATE", "IN_MOVED_TO"}
    \/ \E i \in DOMAIN buf :
          buf[i] = [name |-> f, type |-> "ADD"] /\ (i > 1 \/ mon = "next")

\* A plug-in that is moved into the directory of a running framework is
\* loaded, unless it is taken away or the framework goes first, however many
\* events come in while the monitor is busy.
PlugInsLoaded ==
    \A f \in Files :
       (life = "up" /\ f \in dir \ partial /\ Added(f))
          ~> (f \in opened \/ f \notin dir \ partial \/ life # "up")

\* StopMonitor gets the monitor's thread out of read and returns.
StopMonitorReturns == (life = "dtor") ~> (life = "gone")
==============================================================================
