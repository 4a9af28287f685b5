----------------------- MODULE DistributedDisk_proofs -----------------------
(***************************************************************************)
(* The data path for any number of minions, workers, commands and faults.  *)
(***************************************************************************)
EXTENDS DistributedDisk, FiniteSetTheorems, SequenceTheorems, TLAPS

(***************************************************************************)
(* Raid.                                                                   *)
(***************************************************************************)

\* Every block is placed on minions that exist.
LEMMA PlacedInRange ==
    ASSUME NEW offset \in Nat
    PROVE  /\ ChooseMinions(offset)[1] \in Minions
           /\ ChooseMinions(offset)[2] \in Minions
  BY NumMinionsAssumption DEF ChooseMinions, Minions

\* With two minions or more, the two copies of a block are on different ones.
THEOREM CopiesApart ==
    ASSUME NEW offset \in Nat, NumMinions >= 2
    PROVE  ChooseMinions(offset)[1] # ChooseMinions(offset)[2]
  <1>. DEFINE m == offset % NumMinions
  <1>1. m \in 0..(NumMinions - 1)
    BY NumMinionsAssumption
  <1>2. CASE m + 1 < NumMinions
    <2>1. (m + 1) % NumMinions = m + 1
      BY <1>1, <1>2, NumMinionsAssumption
    <2>. QED
      BY <1>1, <2>1 DEF ChooseMinions
  <1>3. CASE m + 1 = NumMinions
    <2>1. (m + 1) % NumMinions = 0
      BY <1>1, <1>3, NumMinionsAssumption
    <2>. QED
      BY <1>1, <1>3, <2>1, NumMinionsAssumption DEF ChooseMinions
  <1>. QED
    BY <1>1, <1>2, <1>3, NumMinionsAssumption

\* A socket's minion exists.
LEMMA TargetInRange ==
    ASSUME NEW a \in Addresses
    PROVE  /\ Target(a) \in Minions
           /\ Target(a) \in {ChooseMinions(Key[a[1]])[1], ChooseMinions(Key[a[1]])[2]}
           /\ TranslateRequest(a) \in Request_t
  BY CommandsAssumption, PlacedInRange
  DEF Addresses, Legs, Target, TranslateRequest, Request_t, Keys

(***************************************************************************)
(* Types.                                                                  *)
(***************************************************************************)

\* Sending and replying keep the receive buffers and the sockets typed.
LEMMA AfterSendType ==
    ASSUME NetTypeOK, NEW a \in Addresses
    PROVE  AfterSend(a) \in [Minions -> Seq(Request_t)]
  BY TargetInRange DEF NetTypeOK, AfterSend

\* A reply keeps the types of the sockets and their addresses.
LEMMA AfterReplyType ==
    ASSUME NetTypeOK, NEW a, NEW r \in Reply_t
    PROVE  AfterReply(a, r) \in [Addresses -> {Closed, Empty} \cup Reply_t]
  BY DEF NetTypeOK, AfterReply

\* Taking one of the tasks leaves a sequence of the others.
LEMMA RemoveAtType ==
    ASSUME NEW S, NEW s \in Seq(S), NEW k \in 1..Len(s)
    PROVE  /\ RemoveAt(s, k) \in Seq(S)
           /\ \A i \in 1..Len(RemoveAt(s, k)) : \E j \in 1..Len(s) : RemoveAt(s, k)[i] = s[j]
  <1>. DEFINE p == SubSeq(s, 1, k - 1)
              q == SubSeq(s, k + 1, Len(s))
  <1>1. /\ p \in Seq(S) /\ Len(p) = k - 1
        /\ \A i \in 1..(k - 1) : p[i] = s[i]
    OBVIOUS
  <1>2. /\ q \in Seq(S) /\ Len(q) = Len(s) - k
        /\ \A i \in 1..(Len(s) - k) : q[i] = s[k + i]
    OBVIOUS
  <1>3. RemoveAt(s, k) = p \o q
    BY DEF RemoveAt
  <1>. HIDE DEF p, q
  <1>4. p \o q \in Seq(S) /\ Len(p \o q) = Len(s) - 1
    <2>1. p \o q \in Seq(S) /\ Len(p \o q) = Len(p) + Len(q)
      BY <1>1, <1>2, ConcatProperties
    <2>. QED
      BY <1>1, <1>2, <2>1
  <1>5. ASSUME NEW i \in 1..Len(p \o q)
        PROVE  \E j \in 1..Len(s) : (p \o q)[i] = s[j]
    <2>1. CASE i <= k - 1
      <3>1. (p \o q)[i] = p[i]
        BY <1>1, <1>2, <2>1
      <3>. QED
        BY <1>1, <2>1, <3>1
    <2>2. CASE i > k - 1
      <3>1. i - (k - 1) \in 1..(Len(s) - k)
        BY <1>4, <2>2
      <3>2. (p \o q)[i] = q[i - (k - 1)]
        BY <1>1, <1>2, <1>4, <2>2
      <3>3. q[i - (k - 1)] = s[k + (i - (k - 1))]
        BY <1>2, <3>1
      <3>4. k + (i - (k - 1)) = i + 1 /\ i + 1 \in 1..Len(s)
        BY <1>4
      <3>. QED
        BY <3>2, <3>3, <3>4
    <2>. QED
      BY <1>4, <2>1, <2>2
  <1>. QED
    BY <1>3, <1>4, <1>5

\* The pool: no action but Start adds to the running commands, and Start
\* adds one while there is a free worker.
LEMMA RunningBound ==
    ASSUME MasterTypeOK, NEW c \in Commands, NEW t \in Stages, Goto(c, t),
           \/ t \notin {"leg1", "leg2", "reply", "block"}
           \/ c \in Running
           \/ Cardinality(Running) < NumWorkers
    PROVE  /\ stage' \in [Commands -> Stages]
           /\ Cardinality(Running)' <= NumWorkers
           /\ \A d \in Commands \ {c} : rep'[d] = rep[d] => HasReply(d)'
           /\ t \notin {"reply", "block"} => HasReply(c)'
  <1>1. stage' \in [Commands -> Stages]
    BY DEF Goto, MasterTypeOK
  <1>0. /\ \A d \in Commands \ {c} : rep'[d] = rep[d] => HasReply(d)'
        /\ t \notin {"reply", "block"} => HasReply(c)'
    BY DEF Goto, MasterTypeOK, HasReply
  <1>2. Running \subseteq Commands /\ IsFiniteSet(Running) /\ Cardinality(Running) \in Nat
    BY CommandsAssumption, FS_Subset, FS_CardinalityType DEF Running
  <1>3. CASE Running' \subseteq Running
    <2>1. Cardinality(Running') <= Cardinality(Running) /\ Cardinality(Running') \in Nat
      BY <1>2, <1>3, FS_Subset, FS_CardinalityType
    <2>. QED
      BY <1>0, <1>1, <1>2, <2>1, NumWorkersAssumption DEF MasterTypeOK
  <1>4. CASE ~(Running' \subseteq Running)
    <2>1. Running' = Running \cup {c} /\ c \notin Running /\ Cardinality(Running) < NumWorkers
      BY <1>4 DEF Running, Goto, MasterTypeOK
    <2>2. Cardinality(Running') = Cardinality(Running) + 1
      BY <1>2, <2>1, FS_AddElement
    <2>. QED
      BY <1>0, <1>1, <1>2, <2>1, <2>2, NumWorkersAssumption
  <1>. QED
    BY <1>0, <1>3, <1>4

\* The socket operations of CommunicateMinion.
LEMMA SocketType ==
    ASSUME NetTypeOK, NEW c \in Commands, NEW leg \in Legs
    PROVE  /\ OpenAndSend(c, leg) => NetTypeOK'
           /\ CloseSockets(c) => NetTypeOK'
           /\ (inbox' = AfterSend(<<c, leg>>) /\ UNCHANGED <<up, rx>>) => NetTypeOK'
           /\ LegOf(c) \in Legs
  <1>1. AfterSend(<<c, leg>>) \in [Minions -> Seq(Request_t)]
    BY AfterSendType DEF Addresses
  <1>. QED
    BY <1>1 DEF NetTypeOK, OpenAndSend, CloseSockets, LegOf, Legs

\* Every action of the master and of the kernel keeps the types.
LEMMA MasterType ==
    ASSUME NetTypeOK, MasterTypeOK, NEW c \in Commands
    PROVE  /\ KernelSend(c) => NetTypeOK' /\ MasterTypeOK'
           /\ ParseData => NetTypeOK' /\ MasterTypeOK'
           /\ Start(c) => NetTypeOK' /\ MasterTypeOK'
           /\ Received(c) => NetTypeOK' /\ MasterTypeOK'
           /\ TimedOut(c) => NetTypeOK' /\ MasterTypeOK'
           /\ ReceiveFailed(c) => NetTypeOK' /\ MasterTypeOK'
           /\ WriteReply(c) => NetTypeOK' /\ MasterTypeOK'
           /\ WriteBlock(c) => NetTypeOK' /\ MasterTypeOK'
  <1>0. ASSUME UNCHANGED netVars PROVE NetTypeOK'
    BY <1>0 DEF NetTypeOK, netVars
  <1>1. ASSUME KernelSend(c) PROVE NetTypeOK' /\ MasterTypeOK'
    <2>1. Goto(c, "sent") /\ "sent" \in Stages /\ nbd' \in Seq(Commands)
      BY <1>1 DEF KernelSend, Stages, MasterTypeOK
    <2>. QED
      BY <1>0, <1>1, <2>1, RunningBound DEF KernelSend, MasterTypeOK
  <1>2. ASSUME ParseData PROVE NetTypeOK' /\ MasterTypeOK'
    <2>1. /\ Head(nbd) \in Commands /\ Goto(Head(nbd), "queued") /\ "queued" \in Stages
          /\ nbd' \in Seq(Commands)
      BY <1>2 DEF ParseData, Stages, MasterTypeOK
    <2>. QED
      BY <1>0, <1>2, <2>1, RunningBound DEF ParseData, MasterTypeOK
  <1>3. ASSUME Start(c) PROVE NetTypeOK' /\ MasterTypeOK'
    <2>1. Goto(c, "leg1") /\ "leg1" \in Stages /\ Cardinality(Running) < NumWorkers
      BY <1>3 DEF Start, Stages
    <2>2. NetTypeOK'
      BY <1>3, SocketType DEF Start, Legs
    <2>. QED
      BY <1>3, <2>1, <2>2, RunningBound DEF Start, MasterTypeOK
  <1>4. ASSUME Received(c) PROVE NetTypeOK' /\ MasterTypeOK'
    <2>1. c \in Running
      BY <1>4 DEF Received, Running
    <2>2. PICK t \in Stages : Goto(c, t)
      BY <1>4 DEF Received, Stages
    <2>3. NetTypeOK'
      BY <1>4, SocketType DEF Received, Legs
    <2>4. rx[<<c, LegOf(c)>>] \in Reply_t
      BY <1>4, SocketType DEF Received, DatagramFor, NetTypeOK, Addresses, Legs
    <2>5. /\ rep' \in [Commands -> Reply_t \cup {Empty}]
          /\ \A d \in Commands \ {c} : rep'[d] = rep[d]
          /\ HasReply(c)'
      BY <1>4, <2>4 DEF Received, DatagramFor, MasterTypeOK, HasReply
    <2>. QED
      BY <1>4, <2>1, <2>2, <2>3, <2>5, RunningBound DEF Received, MasterTypeOK
  <1>5. ASSUME TimedOut(c) PROVE NetTypeOK' /\ MasterTypeOK'
    <2>1. NetTypeOK'
      BY <1>5, SocketType DEF TimedOut, LegOf, Legs
    <2>. QED
      BY <1>5, <2>1 DEF TimedOut, masterVars, MasterTypeOK, Running, HasReply
  <1>6. ASSUME ReceiveFailed(c) PROVE NetTypeOK' /\ MasterTypeOK'
    <2>1. c \in Running
      BY <1>6 DEF ReceiveFailed, Running
    <2>2. PICK t \in Stages : Goto(c, t)
      BY <1>6 DEF ReceiveFailed, Stages
    <2>3. NetTypeOK'
      BY <1>6, SocketType DEF ReceiveFailed, Legs
    <2>4. HasReply(c)'
      BY <1>6 DEF ReceiveFailed, Goto, MasterTypeOK, HasReply
    <2>. QED
      BY <1>6, <2>1, <2>2, <2>3, <2>4, RunningBound DEF ReceiveFailed, MasterTypeOK
  <1>7. ASSUME NEW d \in Commands, NEW data \in Data, Answered(d, data)
        PROVE  /\ answer' \in [Commands -> {Empty} \cup Data]
               /\ image' \in [Keys -> Commands \cup {Unwritten}]
    <2>1. answer \in [Commands -> {Empty} \cup Data] /\ answer' = [answer EXCEPT ![d] = data]
      BY <1>7 DEF Answered, MasterTypeOK
    <2>2. CASE Type[d] = "write"
      <3>1. image \in [Keys -> Commands \cup {Unwritten}] /\ image' = [image EXCEPT ![Key[d]] = d]
        BY <1>7, <2>2 DEF Answered, MasterTypeOK
      <3>. QED
        BY <2>1, <3>1
    <2>3. CASE Type[d] # "write"
      BY <1>7, <2>1, <2>3 DEF Answered, MasterTypeOK
    <2>. QED
      BY <2>2, <2>3
  <1>8. ASSUME WriteFails(c) PROVE NetTypeOK' /\ MasterTypeOK'
    BY <1>0, <1>8 DEF WriteFails, MasterTypeOK, Running, HasReply
  <1>9. ASSUME WriteReply(c), ~WriteFails(c) PROVE NetTypeOK' /\ MasterTypeOK'
    <2>1. c \in Running
      BY <1>9 DEF WriteReply, Running
    <2>2. PICK t \in Stages : Goto(c, t)
      BY <1>9 DEF WriteReply, Stages
    <2>3. UNCHANGED <<netVars, nbd, rep, aborted>>
      BY <1>9 DEF WriteReply
    <2>4. HasReply(c)'
      <3>1. /\ stage[c] = "reply" /\ rep' = rep /\ HasReply(c)
            /\ stage' = [stage EXCEPT ![c] = IF Type[c] = "read" THEN "block" ELSE "done"]
        BY <1>9, <2>3 DEF WriteReply, Goto, MasterTypeOK
      <3>2. stage'[c] = IF Type[c] = "read" THEN "block" ELSE "done"
        BY <3>1 DEF MasterTypeOK
      <3>. QED
        BY <3>1, <3>2 DEF HasReply
    <2>5. kernel' \in ParserStates
      <3>1. \/ kernel' = BlockOf(c, TRUE)
            \/ kernel' = kernel
            \/ kernel.expects = "block" /\ kernel' = BlockOf(kernel.of, FALSE)
        BY <1>9 DEF WriteReply
      <3>2. kernel \in ParserStates
        BY DEF MasterTypeOK
      <3>3. ASSUME NEW d \in Commands, NEW b \in BOOLEAN PROVE BlockOf(d, b) \in ParserStates
        BY DEF ParserStates, BlockOf
      <3>4. kernel.expects = "block" => kernel.of \in Commands
        BY <3>2 DEF ParserStates, Header, Dead
      <3>. QED
        BY <3>1, <3>2, <3>3, <3>4
    <2>6. /\ answer' \in [Commands -> {Empty} \cup Data]
          /\ image' \in [Keys -> Commands \cup {Unwritten}]
      <3>1. CASE UNCHANGED <<answer, image>>
        BY <3>1 DEF MasterTypeOK
      <3>2. CASE Answered(c, c)
        BY <1>7, <3>2 DEF Data
      <3>. QED
        BY <1>9, <3>1, <3>2 DEF WriteReply
    <2>. QED
      BY <1>0, <2>1, <2>2, <2>3, <2>4, <2>5, <2>6, RunningBound DEF MasterTypeOK
  <1>10. ASSUME WriteBlock(c), ~WriteFails(c) PROVE NetTypeOK' /\ MasterTypeOK'
    <2>1. c \in Running
      BY <1>10 DEF WriteBlock, Running
    <2>2. Goto(c, "done") /\ "done" \in Stages
      BY <1>10 DEF WriteBlock, Stages
    <2>3. UNCHANGED <<netVars, nbd, rep, aborted>>
      BY <1>10 DEF WriteBlock
    <2>4. kernel' \in {Header, Dead}
      BY <1>10 DEF WriteBlock
    <2>5. PICK d \in Commands, data \in Data : Answered(d, data)
      <3>1. CASE kernel = BlockOf(c, TRUE) /\ Answered(c, rep[c].m_block)
        BY <1>10, <3>1 DEF WriteBlock, MasterTypeOK, HasReply, Reply_t, Data
      <3>2. CASE kernel.expects = "block" /\ Answered(kernel.of, Garbage)
        BY <3>2 DEF MasterTypeOK, ParserStates, Header, Dead, Data
      <3>. QED
        BY <1>10, <3>1, <3>2 DEF WriteBlock
    <2>. QED
      BY <1>0, <1>7, <2>1, <2>2, <2>3, <2>4, <2>5, RunningBound DEF MasterTypeOK, ParserStates
  <1>. QED
    BY <1>1, <1>2, <1>3, <1>4, <1>5, <1>6, <1>8, <1>9, <1>10

\* Every action of a minion keeps the types.
LEMMA MinionType ==
    ASSUME NetTypeOK, MinionTypeOK, NEW m \in Minions
    PROVE  /\ ReadHeader(m) => NetTypeOK' /\ MinionTypeOK'
           /\ ReadBlock(m) => NetTypeOK' /\ MinionTypeOK'
           /\ Serve(m) => NetTypeOK' /\ MinionTypeOK'
           /\ Crash(m) => NetTypeOK' /\ MinionTypeOK'
           /\ Restart(m) => NetTypeOK' /\ MinionTypeOK'
  <1>1. ASSUME Receive(m)
        PROVE  /\ Head(inbox[m]) \in Request_t
               /\ inbox' \in [Minions -> Seq(Request_t)]
               /\ client' \in [Minions -> Addresses \cup {Nobody}]
    <2>1. Head(inbox[m]) \in Request_t /\ Tail(inbox[m]) \in Seq(Request_t)
      BY <1>1 DEF Receive, NetTypeOK
    <2>2. Head(inbox[m]).from \in Addresses
      BY <2>1 DEF Request_t
    <2>. QED
      BY <1>1, <2>1, <2>2 DEF Receive, NetTypeOK, MinionTypeOK
  <1>2. ASSUME ReadHeader(m) PROVE NetTypeOK' /\ MinionTypeOK'
    <2>1. NetTypeOK' /\ client' \in [Minions -> Addresses \cup {Nobody}] /\ m_map' = m_map
      BY <1>1, <1>2 DEF ReadHeader, NetTypeOK
    <2>2. Head(inbox[m]) \in Request_t
      BY <1>1, <1>2 DEF ReadHeader
    <2>3. header' \in [Minions -> Request_t \cup {Nobody}]
      BY <1>2, <2>2 DEF ReadHeader, MinionTypeOK
    <2>4. tasks' \in [Minions -> Seq(Request_t)]
      <3>1. \/ tasks' = tasks
            \/ tasks' = [tasks EXCEPT ![m] = Append(tasks[m], Head(inbox[m]))]
        BY <1>2 DEF ReadHeader
      <3>2. Append(tasks[m], Head(inbox[m])) \in Seq(Request_t)
        BY <2>2 DEF MinionTypeOK
      <3>. QED
        BY <3>1, <3>2 DEF MinionTypeOK
    <2>. QED
      BY <2>1, <2>3, <2>4 DEF MinionTypeOK
  <1>3. ASSUME ReadBlock(m) PROVE NetTypeOK' /\ MinionTypeOK'
    <2>1. header[m] \in Request_t
      BY <1>3 DEF ReadBlock, MinionTypeOK
    <2>. QED
      BY <1>1, <1>3, <2>1 DEF ReadBlock, NetTypeOK, MinionTypeOK
  <1>4. ASSUME Serve(m) PROVE NetTypeOK' /\ MinionTypeOK'
    <2>1. PICK k \in 1..Len(tasks[m]) :
             /\ tasks' = [tasks EXCEPT ![m] = RemoveAt(@, k)]
             /\ \/ /\ Store(m, tasks[m][k].m_offset)
                   /\ rx' = AfterReply(client[m],
                               TranslateReply(tasks[m][k], "NONE", Garbage))
                \/ /\ UNCHANGED m_map
                   /\ rx' = AfterReply(client[m],
                               TranslateReply(tasks[m][k],
                                              LoadError(m, tasks[m][k].m_offset),
                                              LoadBlock(m, tasks[m][k].m_offset)))
      BY <1>4 DEF Serve, MinWriteCmd, MinReadCmd, Reply
    <2>2. tasks[m] \in Seq(Request_t) /\ tasks[m][k] \in Request_t
      BY DEF MinionTypeOK
    <2>3. tasks' \in [Minions -> Seq(Request_t)]
      BY <2>1, <2>2, RemoveAtType DEF MinionTypeOK
    <2>4. \A e \in {"NONE", "BLOCK_NOT_FOUNED"} :
             TranslateReply(tasks[m][k], e, Garbage) \in Reply_t
      BY <2>2 DEF TranslateReply, Reply_t, Request_t
    <2>5. /\ LoadError(m, tasks[m][k].m_offset) \in {"NONE", "BLOCK_NOT_FOUNED"}
          /\ LoadBlock(m, tasks[m][k].m_offset) = Garbage
      BY DEF LoadError, LoadBlock
    <2>6. rx' \in [Addresses -> {Closed, Empty} \cup Reply_t]
      BY <2>1, <2>4, <2>5, AfterReplyType
    <2>7. m_map' \in [Minions -> [Keys -> Commands \cup {Garbage, Nobody}]]
      <3>1. m_map \in [Minions -> [Keys -> Commands \cup {Garbage, Nobody}]]
        BY DEF MinionTypeOK
      <3>2. \A key : [m_map[m] EXCEPT ![key] = Garbage] \in [Keys -> Commands \cup {Garbage, Nobody}]
        BY <3>1
      <3>3. \A key : m_map' = [m_map EXCEPT ![m][key] = Garbage]
                        => m_map' = [m_map EXCEPT ![m] = [m_map[m] EXCEPT ![key] = Garbage]]
        OBVIOUS
      <3>. QED
        BY <2>1, <3>1, <3>2, <3>3 DEF Store
    <2>. QED
      BY <1>4, <2>3, <2>6, <2>7 DEF Serve, NetTypeOK, MinionTypeOK
  <1>5. ASSUME Crash(m) PROVE NetTypeOK' /\ MinionTypeOK'
    BY <1>5 DEF Crash, NothingStored, NetTypeOK, MinionTypeOK
  <1>6. ASSUME Restart(m) PROVE NetTypeOK' /\ MinionTypeOK'
    BY <1>6 DEF Restart, minionVars, NetTypeOK, MinionTypeOK
  <1>. QED
    BY <1>2, <1>3, <1>4, <1>5, <1>6

\* The fault budget stays a budget, and losing a datagram keeps the types.
LEMMA FaultType ==
    ASSUME TypeOK
    PROVE  /\ \A kind \in {"lose", "error", "crash"} :
                 Spend(kind) => faults' \in [{"lose", "error", "crash"} -> Nat]
           /\ Lose => NetTypeOK'
  <1>1. ASSUME NEW kind \in {"lose", "error", "crash"}, Spend(kind)
        PROVE  faults' \in [{"lose", "error", "crash"} -> Nat]
    BY <1>1 DEF Spend, TypeOK
  <1>2. ASSUME Lose PROVE NetTypeOK'
    <2>1. CASE inbox' = inbox
      BY <1>2, <2>1 DEF Lose, NetTypeOK, TypeOK
    <2>2. CASE rx' = rx
      <3>1. CASE inbox' = inbox
        BY <1>2, <2>2, <3>1 DEF Lose, NetTypeOK, TypeOK
      <3>2. CASE inbox' # inbox
        <4>1. PICK m \in Minions : inbox[m] # <<>> /\ inbox' = [inbox EXCEPT ![m] = Tail(@)]
          BY <1>2, <3>2 DEF Lose
        <4>2. inbox \in [Minions -> Seq(Request_t)] /\ Tail(inbox[m]) \in Seq(Request_t)
          BY <4>1 DEF TypeOK, NetTypeOK
        <4>. QED
          BY <1>2, <2>2, <4>1, <4>2 DEF Lose, NetTypeOK, TypeOK
      <3>. QED
        BY <3>1, <3>2
    <2>. QED
      BY <1>2, <2>1, <2>2 DEF Lose
  <1>. QED
    BY <1>1, <1>2

\* late is a truth value: a timeout sets it or leaves it, nothing else does.
LEMMA LateType ==
    ASSUME TypeOK, [Next]_vars
    PROVE  late' \in BOOLEAN
  <1>0. late \in BOOLEAN
    BY DEF TypeOK
  <1>1. ASSUME NEW c \in Commands, MasterStep(c) PROVE late' \in BOOLEAN
    <2>1. late' = late \/ late' = (late \/ ~Idle)
      BY <1>1, Zenon DEF MasterStep
    <2>. QED
      BY <1>0, <2>1, Zenon
  <1>2. ASSUME Next, ~\E c \in Commands : MasterStep(c) PROVE late' = late
    BY <1>2, Zenon DEF Next, MasterParse, MinionRead, MinionServe, MinionRestart,
                      Lose, Spend, faultVars
  <1>3. ASSUME UNCHANGED vars PROVE late' = late
    BY <1>3 DEF vars, faultVars
  <1>. QED
    BY <1>0, <1>1, <1>2, <1>3

\* Every step of the system keeps the types.
LEMMA TypeStep == TypeOK /\ [Next]_vars => TypeOK'
  <1>. SUFFICES ASSUME TypeOK, [Next]_vars PROVE TypeOK'
    OBVIOUS
  <1>0. /\ NetTypeOK /\ MinionTypeOK /\ MasterTypeOK
        /\ UNCHANGED netVars => NetTypeOK'
        /\ UNCHANGED minionVars => MinionTypeOK'
        /\ UNCHANGED masterVars => MasterTypeOK'
        /\ UNCHANGED faults => faults' \in [{"lose", "error", "crash"} -> Nat]
        /\ UNCHANGED faultVars => UNCHANGED faults
        /\ late' \in BOOLEAN
    BY LateType DEF TypeOK, faultVars, netVars, minionVars, masterVars,
           NetTypeOK, MinionTypeOK, MasterTypeOK, Running, HasReply
  <1>1. CASE MasterParse
    <2>1. PICK c \in Commands : c = Head(nbd)
      BY <1>1 DEF MasterParse, ParseData, TypeOK, MasterTypeOK
    <2>. QED
      BY <1>0, <1>1, <2>1, MasterType DEF MasterParse, TypeOK
  <1>2. ASSUME NEW c \in Commands, KernelSend(c), UNCHANGED <<minionVars, faultVars>> PROVE TypeOK'
    BY <1>0, <1>2, MasterType DEF TypeOK
  <1>3. ASSUME NEW c \in Commands, MasterStep(c) PROVE TypeOK'
    BY <1>0, <1>3, MasterType DEF MasterStep, TypeOK
  <1>4. ASSUME NEW c \in Commands, ReceiveFailed(c), Spend("error"), UNCHANGED minionVars
        PROVE  TypeOK'
    BY <1>0, <1>4, MasterType, FaultType DEF TypeOK
  <1>5. ASSUME NEW m \in Minions, MinionRead(m) \/ MinionServe(m) \/ MinionRestart(m)
        PROVE  TypeOK'
    BY <1>0, <1>5, MinionType DEF MinionRead, MinionServe, MinionRestart, TypeOK
  <1>6. ASSUME NEW m \in Minions, Crash(m), Spend("crash"), UNCHANGED masterVars
        PROVE  TypeOK'
    BY <1>0, <1>6, MinionType, FaultType DEF TypeOK
  <1>7. CASE Lose
    BY <1>0, <1>7, FaultType DEF Lose, TypeOK
  <1>8. CASE UNCHANGED vars
    BY <1>0, <1>8 DEF vars, TypeOK
  <1>. QED
    BY <1>1, <1>2, <1>3, <1>4, <1>5, <1>6, <1>7, <1>8 DEF Next

\* The system is well typed in every state, never runs more commands than the
\* pool has workers, and never answers a read without a minion's reply.
THEOREM TypeCorrect == SafeSpec => []TypeOK
  <1>1. Init => TypeOK
    <2>. SUFFICES ASSUME Init PROVE TypeOK
      OBVIOUS
    <2>1. NetTypeOK
      BY DEF Init, NetInit, NetTypeOK
    <2>2. MinionTypeOK
      BY DEF Init, MinionInit, MinionTypeOK, NothingStored
    <2>3. Running = {} /\ \A c \in Commands : HasReply(c)
      BY DEF Init, MasterInit, Running, HasReply
    <2>4. MasterTypeOK
      <3>1. Cardinality(Running) <= NumWorkers
        BY <2>3, FS_EmptySet, NumWorkersAssumption
      <3>2. MasterTypeOK
        <4>1. stage \in [Commands -> Stages]
          BY DEF Init, MasterInit, Stages
        <4>2. nbd \in Seq(Commands) /\ kernel \in ParserStates
          BY DEF Init, MasterInit, ParserStates
        <4>3. aborted \in BOOLEAN
          BY DEF Init, MasterInit
        <4>4. /\ rep \in [Commands -> Reply_t \cup {Empty}]
              /\ answer \in [Commands -> {Empty} \cup Data]
              /\ image \in [Keys -> Commands \cup {Unwritten}]
          BY DEF Init, MasterInit
        <4>. QED
          BY <2>3, <3>1, <4>1, <4>2, <4>3, <4>4 DEF MasterTypeOK
      <3>. QED
        BY <3>2
    <2>. QED
      BY <2>1, <2>2, <2>4, FaultsAssumption DEF Init, TypeOK
  <1>. QED
    BY <1>1, TypeStep, PTL DEF SafeSpec

(***************************************************************************)
(* Where blocks are stored and who is answered.                            *)
(*                                                                         *)
(* Placement and ClientAskedHere are about m_map and m_client_sockaddr,    *)
(* which are filled from requests that have been through the network, the  *)
(* reactor and the pool.  The inductive invariant says of every request at *)
(* every one of these stations that it is at a minion it was meant for.    *)
(***************************************************************************)

Belongs(m, req) ==
    /\ Target(req.from) = m
    /\ m \in {ChooseMinions(req.m_offset)[1], ChooseMinions(req.m_offset)[2]}

AllBelong(m, q) == \A i \in 1..Len(q) : Belongs(m, q[i])

RequestsBelong ==
    \A m \in Minions :
       /\ AllBelong(m, inbox[m])
       /\ AllBelong(m, tasks[m])
       /\ header[m] # Nobody => Belongs(m, header[m])

Located == RequestsBelong /\ ClientAskedHere /\ Placement

\* A request goes to a minion it belongs to.
LEMMA SendBelongs ==
    ASSUME NetTypeOK, RequestsBelong, UNCHANGED <<tasks, header>>,
           \/ UNCHANGED inbox
           \/ \E a \in Addresses : inbox' = AfterSend(a)
    PROVE  RequestsBelong'
  <1>1. CASE UNCHANGED inbox
    BY <1>1 DEF RequestsBelong, AllBelong
  <1>2. CASE inbox' # inbox
    <2>1. PICK a \in Addresses : inbox' = AfterSend(a)
      BY <1>2
    <2>2. inbox' = [inbox EXCEPT ![Target(a)] = Append(@, TranslateRequest(a))]
      BY <1>2, <2>1 DEF AfterSend
    <2>3. Belongs(Target(a), TranslateRequest(a))
      BY TargetInRange DEF Belongs, TranslateRequest
    <2>4. TranslateRequest(a) \in Request_t /\ inbox[Target(a)] \in Seq(Request_t)
      BY TargetInRange DEF NetTypeOK
    <2>5. AllBelong(Target(a), Append(inbox[Target(a)], TranslateRequest(a)))
      BY <2>3, <2>4, TargetInRange DEF RequestsBelong, AllBelong
    <2>. QED
      BY <2>2, <2>5, TargetInRange DEF RequestsBelong, NetTypeOK
  <1>. QED
    BY <1>1, <1>2

\* What the network, the reactor and the worker take out of a queue and put
\* into another one is still where it belongs.
LEMMA QueuesBelong ==
    ASSUME NEW m, NEW q \in Seq(Request_t), AllBelong(m, q)
    PROVE  /\ q # <<>> => AllBelong(m, Tail(q)) /\ Belongs(m, Head(q))
           /\ \A r \in Request_t : Belongs(m, r) => AllBelong(m, Append(q, r))
           /\ \A k \in 1..Len(q) : AllBelong(m, RemoveAt(q, k)) /\ Belongs(m, q[k])
  <1>1. q # <<>> => AllBelong(m, Tail(q)) /\ Belongs(m, Head(q))
    BY DEF AllBelong
  <1>2. \A r \in Request_t : Belongs(m, r) => AllBelong(m, Append(q, r))
    BY DEF AllBelong
  <1>3. ASSUME NEW k \in 1..Len(q) PROVE AllBelong(m, RemoveAt(q, k)) /\ Belongs(m, q[k])
    BY RemoveAtType DEF AllBelong
  <1>. QED
    BY <1>1, <1>2, <1>3

\* Requests stay where they belong on their way through a minion.
LEMMA MinionBelongs ==
    ASSUME TypeOK, RequestsBelong, NEW m \in Minions,
           ReadHeader(m) \/ ReadBlock(m) \/ Serve(m) \/ Crash(m)
    PROVE  RequestsBelong'
  <1>0. /\ inbox \in [Minions -> Seq(Request_t)]
        /\ tasks \in [Minions -> Seq(Request_t)]
        /\ header \in [Minions -> Request_t \cup {Nobody}]
        /\ AllBelong(m, inbox[m]) /\ AllBelong(m, tasks[m])
        /\ header[m] # Nobody => Belongs(m, header[m])
    BY DEF TypeOK, NetTypeOK, MinionTypeOK, RequestsBelong
  <1>. SUFFICES /\ AllBelong(m, inbox'[m]) /\ AllBelong(m, tasks'[m])
                /\ header'[m] # Nobody => Belongs(m, header'[m])
    BY <1>0 DEF RequestsBelong, ReadHeader, ReadBlock, Receive, Serve, Crash
  <1>1. CASE ReadHeader(m)
    <2>1. inbox'[m] = Tail(inbox[m]) /\ inbox[m] # <<>> /\ Head(inbox[m]) \in Request_t
      BY <1>0, <1>1 DEF ReadHeader, Receive
    <2>2. AllBelong(m, inbox'[m]) /\ Belongs(m, Head(inbox[m]))
      BY <1>0, <2>1, QueuesBelong
    <2>3. \/ header'[m] = Head(inbox[m]) /\ tasks'[m] = tasks[m]
          \/ header'[m] = header[m] /\ tasks'[m] = Append(tasks[m], Head(inbox[m]))
      BY <1>0, <1>1 DEF ReadHeader
    <2>. QED
      BY <1>0, <2>1, <2>2, <2>3, QueuesBelong
  <1>2. CASE ReadBlock(m)
    <2>1. inbox'[m] = Tail(inbox[m]) /\ inbox[m] # <<>>
      BY <1>0, <1>2 DEF ReadBlock, Receive
    <2>2. header'[m] = Nobody /\ tasks'[m] = Append(tasks[m], header[m])
      BY <1>0, <1>2 DEF ReadBlock
    <2>3. header[m] \in Request_t /\ Belongs(m, header[m])
      BY <1>0, <1>2 DEF ReadBlock
    <2>. QED
      BY <1>0, <2>1, <2>2, <2>3, QueuesBelong
  <1>3. CASE Serve(m)
    <2>1. PICK k \in 1..Len(tasks[m]) : tasks' = [tasks EXCEPT ![m] = RemoveAt(@, k)]
      BY <1>3 DEF Serve
    <2>2. tasks'[m] = RemoveAt(tasks[m], k) /\ UNCHANGED <<inbox, header>>
      BY <1>0, <1>3, <2>1 DEF Serve
    <2>. QED
      BY <1>0, <2>2, QueuesBelong
  <1>4. CASE Crash(m)
    BY <1>0, <1>4 DEF Crash, AllBelong
  <1>. QED
    BY <1>1, <1>2, <1>3, <1>4

\* Outside the minions, steps send requests or leave the queues alone.
LEMMA OutsideStep ==
    ASSUME TypeOK, Next
    PROVE  \/ /\ UNCHANGED minionVars
              /\ \/ UNCHANGED inbox
                 \/ \E a \in Addresses : inbox' = AfterSend(a)
                 \/ Lose
           \/ \E m \in Minions : ReadHeader(m) \/ ReadBlock(m) \/ Serve(m) \/ Crash(m)
  <1>. DEFINE Sends == UNCHANGED inbox \/ \E a \in Addresses : inbox' = AfterSend(a)
  <1>0. \A c \in Commands, leg \in Legs : <<c, leg>> \in Addresses
    BY DEF Addresses
  <1>1. ASSUME NEW c \in Commands, MasterStep(c) PROVE UNCHANGED minionVars /\ Sends
    <2>1. CASE Start(c)
      BY <1>0, <1>1, <2>1 DEF MasterStep, Start, OpenAndSend, Legs
    <2>2. CASE Received(c)
      BY <1>0, <1>1, <2>2 DEF MasterStep, Received, OpenAndSend, CloseSockets, Legs
    <2>3. CASE TimedOut(c)
      BY <1>0, <1>1, <2>3 DEF MasterStep, TimedOut, LegOf, Legs
    <2>4. CASE WriteReply(c)
      BY <1>1, <2>4 DEF MasterStep, WriteReply, WriteFails, netVars
    <2>5. CASE WriteBlock(c)
      BY <1>1, <2>5 DEF MasterStep, WriteBlock, WriteFails, netVars
    <2>. QED
      BY <1>1, <2>1, <2>2, <2>3, <2>4, <2>5 DEF MasterStep
  <1>2. ASSUME NEW c \in Commands, ReceiveFailed(c), UNCHANGED minionVars
        PROVE  UNCHANGED minionVars /\ Sends
    BY <1>0, <1>2 DEF ReceiveFailed, OpenAndSend, CloseSockets, Legs
  <1>3. ASSUME NEW c \in Commands, KernelSend(c) /\ UNCHANGED <<minionVars, faultVars>>
        PROVE  UNCHANGED minionVars /\ Sends
    BY <1>3 DEF KernelSend, netVars
  <1>4. ASSUME MasterParse PROVE UNCHANGED minionVars /\ Sends
    BY <1>4 DEF MasterParse, ParseData, netVars
  <1>5. ASSUME NEW m \in Minions, MinionRestart(m) PROVE UNCHANGED minionVars /\ Sends
    BY <1>5 DEF MinionRestart, Restart, minionVars
  <1>6. ASSUME Lose PROVE UNCHANGED minionVars
    BY <1>6 DEF Lose
  <1>. QED
    BY <1>1, <1>2, <1>3, <1>4, <1>5, <1>6 DEF Next, MinionRead, MinionServe

\* A minion's own steps: a new client is the sender of a request that
\* belongs here, and so is a new key the key of one.
LEMMA LocatedInMinion ==
    ASSUME TypeOK, Located, NEW m \in Minions,
           ReadHeader(m) \/ ReadBlock(m) \/ Serve(m) \/ Crash(m)
    PROVE  ClientAskedHere' /\ Placement'
  <1>0. /\ inbox[m] \in Seq(Request_t) /\ AllBelong(m, inbox[m])
        /\ tasks[m] \in Seq(Request_t) /\ AllBelong(m, tasks[m])
        /\ client \in [Minions -> Addresses \cup {Nobody}]
        /\ m_map \in [Minions -> [Keys -> Commands \cup {Garbage, Nobody}]]
    BY DEF TypeOK, NetTypeOK, MinionTypeOK, Located, RequestsBelong
  <1>1. CASE ReadHeader(m) \/ ReadBlock(m)
    <2>1. /\ inbox[m] # <<>> /\ m_map' = m_map
          /\ client' = [client EXCEPT ![m] = Head(inbox[m]).from]
      BY <1>1 DEF ReadHeader, ReadBlock, Receive
    <2>2. Target(Head(inbox[m]).from) = m
      BY <1>0, <2>1, QueuesBelong DEF Belongs
    <2>3. ClientAskedHere'
      BY <1>0, <2>1, <2>2 DEF Located, ClientAskedHere
    <2>. QED
      BY <2>1, <2>3 DEF Located, Placement
  <1>2. CASE Serve(m)
    <2>1. PICK k \in 1..Len(tasks[m]) : m_map' = m_map \/ Store(m, tasks[m][k].m_offset)
      BY <1>2 DEF Serve, MinWriteCmd, MinReadCmd
    <2>2. client' = client
      BY <1>2 DEF Serve
    <2>3. ClientAskedHere'
      BY <2>2 DEF Located, ClientAskedHere
    <2>4. CASE m_map' = m_map
      BY <2>3, <2>4 DEF Located, Placement
    <2>5. CASE Store(m, tasks[m][k].m_offset)
      <3>. DEFINE key == tasks[m][k].m_offset
      <3>1. m \in {ChooseMinions(key)[1], ChooseMinions(key)[2]}
        BY <1>0, QueuesBelong DEF Belongs
      <3>2. m_map' = [m_map EXCEPT ![m][key] = Garbage]
        BY <2>5 DEF Store
      <3>. HIDE DEF key
      <3>3. ASSUME NEW n \in Minions, NEW l \in Keys, m_map'[n][l] # Nobody
            PROVE  n \in {ChooseMinions(l)[1], ChooseMinions(l)[2]}
        <4>1. CASE n = m /\ l = key
          BY <3>1, <4>1
        <4>2. CASE n # m \/ l # key
          <5>1. m_map'[n][l] = m_map[n][l]
            BY <1>0, <3>2, <4>2
          <5>. QED
            BY <3>3, <5>1 DEF Located, Placement
        <4>. QED
          BY <4>1, <4>2
      <3>. QED
        BY <2>3, <3>3 DEF Placement
    <2>. QED
      BY <2>1, <2>4, <2>5
  <1>3. CASE Crash(m)
    <2>1. /\ client' = [client EXCEPT ![m] = Nobody]
          /\ m_map' = [m_map EXCEPT ![m] = NothingStored]
      BY <1>3 DEF Crash
    <2>2. ClientAskedHere'
      BY <1>0, <2>1 DEF Located, ClientAskedHere
    <2>3. Placement'
      BY <1>0, <2>1 DEF Located, Placement, NothingStored
    <2>. QED
      BY <2>2, <2>3
  <1>. QED
    BY <1>1, <1>2, <1>3

\* Located is inductive relative to the types.
LEMMA LocatedStep == TypeOK /\ Located /\ [Next]_vars => Located'
  <1>. SUFFICES ASSUME TypeOK, Located, [Next]_vars PROVE Located'
    OBVIOUS
  <1>0. NetTypeOK /\ RequestsBelong
    BY DEF TypeOK, Located
  <1>1. ASSUME UNCHANGED minionVars PROVE ClientAskedHere' /\ Placement'
    BY <1>1 DEF minionVars, Located, ClientAskedHere, Placement
  <1>2. CASE UNCHANGED vars
    BY <1>0, <1>1, <1>2, SendBelongs DEF vars, netVars, minionVars, Located
  <1>3. ASSUME UNCHANGED minionVars, Lose PROVE RequestsBelong'
    <2>1. CASE inbox' = inbox
      BY <1>0, <1>3, <2>1, SendBelongs DEF minionVars
    <2>2. CASE inbox' # inbox
      <3>1. PICK m \in Minions : inbox[m] # <<>> /\ inbox' = [inbox EXCEPT ![m] = Tail(@)]
        BY <1>3, <2>2 DEF Lose
      <3>2. inbox[m] \in Seq(Request_t) /\ AllBelong(m, inbox[m])
        BY <1>0 DEF NetTypeOK, RequestsBelong
      <3>3. AllBelong(m, Tail(inbox[m]))
        BY <3>1, <3>2, QueuesBelong
      <3>. QED
        BY <1>0, <1>3, <3>1, <3>3 DEF NetTypeOK, RequestsBelong, minionVars
    <2>. QED
      BY <2>1, <2>2
  <1>4. ASSUME UNCHANGED minionVars,
               UNCHANGED inbox \/ \E a \in Addresses : inbox' = AfterSend(a)
        PROVE  RequestsBelong'
    BY <1>0, <1>4, SendBelongs DEF minionVars
  <1>5. ASSUME NEW m \in Minions, ReadHeader(m) \/ ReadBlock(m) \/ Serve(m) \/ Crash(m)
        PROVE  Located'
    BY <1>0, <1>5, MinionBelongs, LocatedInMinion DEF Located
  <1>. QED
    BY <1>1, <1>2, <1>3, <1>4, <1>5, OutsideStep DEF Located

\* The inductive invariant holds in every state.
LEMMA AlwaysLocated == SafeSpec => []Located
  <1>1. Init => Located
    BY DEF Init, NetInit, MinionInit, NothingStored, Located, RequestsBelong, AllBelong,
           ClientAskedHere, Placement
  <1>. QED
    BY <1>1, TypeCorrect, LocatedStep, PTL DEF SafeSpec

\* For any number of minions and commands, under loss, retries, crashes and
\* socket errors, a minion stores only blocks ChooseMinions places there.
THEOREM PlacementHolds == SafeSpec => []Placement
  <1>1. Located => Placement
    BY DEF Located
  <1>. QED
    BY <1>1, AlwaysLocated, PTL

\* And a minion never has for a client a socket that asked another minion.
THEOREM ClientAskedHereHolds == SafeSpec => []ClientAskedHere
  <1>1. Located => ClientAskedHere
    BY DEF Located
  <1>. QED
    BY <1>1, AlwaysLocated, PTL
=============================================================================
