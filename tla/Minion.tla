------------------------------- MODULE Minion -------------------------------
(***************************************************************************)
(* The minion process: MinionProxy on the reactor's thread, MinReadCmd and *)
(* MinWriteCmd on the one worker thread the minions' configuration gives   *)
(* the pool, StorageManager in memory.                                     *)
(*                                                                         *)
(* The two threads share the server socket's m_client_sockaddr: every      *)
(* Receive overwrites it, every Send uses whatever it holds by then.       *)
(***************************************************************************)
EXTENDS Protocol, SequencesExt

CONSTANTS MaxTasks,     \* bound: tasks waiting in a minion's pool
          Nobody        \* no request, no address

ASSUME MaxTasksAssumption == MaxTasks \in Nat \ {0}
ASSUME NobodyAssumption ==
    Nobody \notin Request_t /\ Nobody \notin Addresses /\ Nobody # Garbage

VARIABLES header,       \* header[m]: the write whose block Read waits for
          client,       \* client[m]: m_client_sockaddr
          tasks,        \* tasks[m]: the commands in the pool's queue
          m_map         \* m_map[m]: StorageManager's map, Nobody: no entry

minionVars == <<header, client, tasks, m_map>>

MinionTypeOK ==
    /\ header \in [Minions -> Request_t \cup {Nobody}]
    /\ client \in [Minions -> Addresses \cup {Nobody}]
    /\ tasks \in [Minions -> Seq(Request_t)]
    /\ m_map \in [Minions -> [Keys -> Commands \cup {Garbage, Nobody}]]

NothingStored == [k \in Keys |-> Nobody]

MinionInit ==
    /\ header = [m \in Minions |-> Nobody]
    /\ client = [m \in Minions |-> Nobody]
    /\ tasks = [m \in Minions |-> <<>>]
    /\ m_map = [m \in Minions |-> NothingStored]

-----------------------------------------------------------------------------

\* Receive on the server socket: takes the datagram, remembers its sender.
Receive(m) ==
    /\ m \in up
    /\ inbox[m] # <<>>
    /\ Len(tasks[m]) < MaxTasks
    /\ inbox' = [inbox EXCEPT ![m] = Tail(@)]
    /\ client' = [client EXCEPT ![m] = Head(inbox[m]).from]

\* The reactor calls ParseData: Read takes a datagram for a header.  A read
\* becomes a task of the pool; a write makes Read wait for one more
\* datagram, and the reactor with it.
ReadHeader(m) ==
    /\ header[m] = Nobody
    /\ Receive(m)
    /\ LET req == Head(inbox[m])
       IN  IF req.m_type = "write"
           THEN header' = [header EXCEPT ![m] = req] /\ UNCHANGED tasks
           ELSE tasks' = [tasks EXCEPT ![m] = Append(@, req)] /\ UNCHANGED header
    /\ UNCHANGED <<up, rx, m_map>>

\* The second Receive of Read: whatever datagram comes next, from anybody,
\* is the block.  The write becomes a task of the pool.
ReadBlock(m) ==
    /\ header[m] # Nobody
    /\ Receive(m)
    /\ tasks' = [tasks EXCEPT ![m] = Append(@, header[m])]
    /\ header' = [header EXCEPT ![m] = Nobody]
    /\ UNCHANGED <<up, rx, m_map>>

\* Mutant: the test for an existing entry is inverted.
StoreExistingOnly(m, key) ==
    m_map' = IF m_map[m][key] = Nobody THEN m_map ELSE [m_map EXCEPT ![m][key] = Garbage]

\* StorageManager::Store.  The datagrams that reach ReadBlock are headers,
\* so the 4096 bytes are a header on top of an uninitialised buffer.
Store(m, key) == m_map' = [m_map EXCEPT ![m][key] = Garbage]

\* StorageManager::Load: a missing block is reported; a present one is not
\* copied, the map's own memory behind the pointer to it is.
LoadError(m, key) == IF m_map[m][key] = Nobody THEN "BLOCK_NOT_FOUNED" ELSE "NONE"
LoadBlock(m, key) == Garbage

\* MinionProxy::Reply sends to the address the socket remembers.
Reply(m, rep) == rx' = AfterReply(client[m], rep)

MinWriteCmd(m, req) ==
    /\ Store(m, req.m_offset)
    /\ Reply(m, TranslateReply(req, "NONE", Garbage))

MinReadCmd(m, req) ==
    /\ UNCHANGED m_map
    /\ Reply(m, TranslateReply(req, LoadError(m, req.m_offset), LoadBlock(m, req.m_offset)))

\* The worker takes any task of the queue (equal priorities, ties broken by
\* address) and executes it.
Serve(m) ==
    /\ m \in up
    /\ \E k \in 1..Len(tasks[m]) :
          /\ tasks' = [tasks EXCEPT ![m] = RemoveAt(@, k)]
          /\ \/ tasks[m][k].m_type = "write" /\ MinWriteCmd(m, tasks[m][k])
             \/ tasks[m][k].m_type = "read" /\ MinReadCmd(m, tasks[m][k])
    /\ UNCHANGED <<up, inbox, header, client>>

\* Everything a minion holds is in memory and goes with the process.
Crash(m) ==
    /\ m \in up
    /\ up' = up \ {m}
    /\ inbox' = [inbox EXCEPT ![m] = <<>>]
    /\ header' = [header EXCEPT ![m] = Nobody]
    /\ client' = [client EXCEPT ![m] = Nobody]
    /\ tasks' = [tasks EXCEPT ![m] = <<>>]
    /\ m_map' = [m_map EXCEPT ![m] = NothingStored]
    /\ UNCHANGED rx

Restart(m) ==
    /\ m \notin up
    /\ up' = up \cup {m}
    /\ UNCHANGED <<inbox, rx, minionVars>>
=============================================================================
