--------------------------- MODULE DistributedDisk ---------------------------
(***************************************************************************)
(* The whole data path: the kernel, the master and the minions, joined by  *)
(* the loopback network, with the faults the code meets.                   *)
(***************************************************************************)
EXTENDS Master, Minion

CONSTANT Faults         \* bound: how often each kind of fault may happen

ASSUME FaultsAssumption == Faults \in [{"lose", "error", "crash"} -> Nat]

VARIABLES faults,       \* how often it may still happen
          late          \* history: a command's four seconds were over while
                        \* a minion could still have answered

faultVars == <<faults, late>>

vars == <<netVars, minionVars, masterVars, faultVars>>

TypeOK ==
    /\ NetTypeOK
    /\ MinionTypeOK
    /\ MasterTypeOK
    /\ faults \in [{"lose", "error", "crash"} -> Nat]
    /\ late \in BOOLEAN

Init ==
    /\ NetInit
    /\ MinionInit
    /\ MasterInit
    /\ faults = Faults
    /\ late = FALSE

Spend(kind) ==
    /\ faults[kind] > 0
    /\ faults' = [faults EXCEPT ![kind] = @ - 1]
    /\ UNCHANGED late

\* No minion has anything left to do: it could not answer any later.
Idle == \A m \in Minions : inbox[m] = <<>> /\ tasks[m] = <<>>

\* The network loses a request, or a reply nobody has read yet.
Lose ==
    /\ Spend("lose")
    /\ \/ /\ \E m \in Minions :
                inbox[m] # <<>> /\ inbox' = [inbox EXCEPT ![m] = Tail(@)]
          /\ UNCHANGED rx
       \/ /\ \E a \in Addresses :
                rx[a] \notin {Closed, Empty} /\ rx' = [rx EXCEPT ![a] = Empty]
          /\ UNCHANGED inbox
    /\ UNCHANGED <<up, minionVars, masterVars>>

MasterStep(c) ==
    /\ \/ Start(c) /\ UNCHANGED late
       \/ Received(c) /\ UNCHANGED late
       \/ TimedOut(c) /\ late' = (late \/ ~Idle)
       \/ WriteReply(c) /\ UNCHANGED late
       \/ WriteBlock(c) /\ UNCHANGED late
    /\ UNCHANGED <<minionVars, faults>>

MasterParse == ParseData /\ UNCHANGED <<minionVars, faultVars>>

MinionRead(m) == (ReadHeader(m) \/ ReadBlock(m)) /\ UNCHANGED <<masterVars, faultVars>>
MinionServe(m) == Serve(m) /\ UNCHANGED <<masterVars, faultVars>>
MinionRestart(m) == Restart(m) /\ UNCHANGED <<masterVars, faultVars>>

Next ==
    \/ MasterParse
    \/ \E c \in Commands :
          \/ KernelSend(c) /\ UNCHANGED <<minionVars, faultVars>>
          \/ MasterStep(c)
          \/ ReceiveFailed(c) /\ Spend("error") /\ UNCHANGED minionVars
    \/ \E m \in Minions :
          \/ MinionRead(m)
          \/ MinionServe(m)
          \/ Crash(m) /\ Spend("crash") /\ UNCHANGED masterVars
          \/ MinionRestart(m)
    \/ Lose

SafeSpec == Init /\ [][Next]_vars

\* Every thread runs: the two reactors, the workers, the kernel.  A minion
\* that crashed is started again.  A command blocked in Receive eventually
\* gets a reply or a timeout.  The kernel need not send anything.
Fairness ==
    /\ WF_vars(MasterParse)
    /\ \A c \in Commands : WF_vars(MasterStep(c))
    /\ \A m \in Minions :
          WF_vars(MinionRead(m)) /\ WF_vars(MinionServe(m)) /\ WF_vars(MinionRestart(m))

Spec == SafeSpec /\ Fairness

------------------------------------------------------------------------------

\* Whatever is lost, late, duplicated or mixed up between the master and the
\* minions, a minion only ever stores blocks that ChooseMinions places there.
Placement ==
    \A m \in Minions, k \in Keys :
       m_map[m][k] # Nobody => m \in {ChooseMinions(k)[1], ChooseMinions(k)[2]}

\* A minion replies to whoever wrote to it last, but never to a command that
\* was talking to another minion: each leg has a socket of its own.
ClientAskedHere ==
    \A m \in Minions : client[m] # Nobody => Target(client[m]) = m

\* The assert in write_all: a write to the NBD socket never fails.  It holds
\* while the master has one worker, since nothing comes between a read's
\* reply and its block, and the kernel keeps its place in the stream.
WritesSucceed == ~aborted

Happened(kind) == Faults[kind] - faults[kind]

\* Minions answered in time and no socket reported an error.
Smooth == ~late /\ Happened("error") = 0

\* With one worker, the reply a command finds at its socket answers its own
\* request, though nothing compares ids, m_client_sockaddr is shared, a
\* write's own retry has to stand in for its block and minions crash.
OwnReply ==
    Smooth => \A a \in Addresses : rx[a] \notin {Closed, Empty} => rx[a].m_id = a[1]

\* The redundancy the two copies are for.  When the kernel is told that a
\* write is done, both minions have an entry for it; a minion that crashes
\* takes its copies with it and nothing restores them, but as long as there
\* has been one crash the other copy is there.
Replicated ==
    Smooth /\ Happened("crash") <= 1 =>
       \A k \in Keys : image[k] # Unwritten =>
          Cardinality({leg \in Legs : m_map[ChooseMinions(k)[leg]][k] # Nobody})
             >= 2 - Happened("crash")

\* A read of a block that was written is not answered out of a minion that
\* has never heard of it.  A crash ends this: a read does not turn to the
\* second minion when the first reports BLOCK_NOT_FOUNED.
WrittenBlockFound ==
    Smooth /\ Happened("crash") = 0 =>
       \A c \in Commands :
          (stage[c] \in {"reply", "block"} /\ Type[c] = "read" /\ image[Key[c]] # Unwritten)
             => rep[c].m_error = "NONE"

\* What a minion is for: when nothing goes wrong, the block a read is about
\* to hand to the kernel is the block that was written there last.
ReadReturnsWritten ==
    Smooth /\ Happened("crash") = 0 =>
       \A c \in Commands :
          (stage[c] = "block" /\ Type[c] = "read" /\ image[Key[c]] # Unwritten)
             => rep[c].m_block = image[Key[c]]

\* The promise made at the NBD socket (NbdService): every request is
\* answered once, except for reads both of whose legs have failed.
Service == INSTANCE NbdService
              WITH Reads <- {c \in Commands : Type[c] = "read"},
                   waiting <- {c \in InFlight : stage[c] # "failed"},
                   answered <- {c \in Commands : answer[c] # Empty},
                   dropped <- {c \in Commands : stage[c] = "failed"}

RefinesService == Service!Spec
==============================================================================
