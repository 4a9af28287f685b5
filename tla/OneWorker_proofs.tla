-------------------------- MODULE OneWorker_proofs --------------------------
(***************************************************************************)
(* What the data path promises while the master's pool has one worker, for *)
(* any number of minions, commands and faults: the NBD stream stays in     *)
(* step, every request is answered once, and, as long as the minions are   *)
(* in time, replies and copies are where they should be.                   *)
(***************************************************************************)
EXTENDS DistributedDisk_proofs

InLeg == {c \in Commands : stage[c] \in {"leg1", "leg2"}}

\* At most one command is between its start and its last write.
Alone == \A c, d \in Running : c = d

\* The kernel is in the middle of a block exactly while the read it belongs
\* to is about to write it.
InStep ==
    /\ ~aborted
    /\ \A c \in Commands : stage[c] = "block" => Type[c] = "read" /\ kernel = BlockOf(c, TRUE)
    /\ kernel # Header => \E c \in Commands : stage[c] = "block" /\ kernel = BlockOf(c, TRUE)

\* The NBD socket holds the requests that were sent and not yet parsed, each
\* once; the kernel has the answers of the commands that are done.
Accounted ==
    /\ \A i \in 1..Len(nbd) : stage[nbd[i]] = "sent"
    /\ \A i, j \in 1..Len(nbd) : nbd[i] = nbd[j] => i = j
    /\ \A c \in Commands : answer[c] # Empty <=> stage[c] = "done"


(***************************************************************************)
(* The NBD stream.                                                         *)
(***************************************************************************)

\* One worker, one running command.
LEMMA OneRuns == ASSUME NumWorkers = 1, TypeOK PROVE Alone
  <1>1. IsFiniteSet(Running) /\ Cardinality(Running) <= 1 /\ Cardinality(Running) \in Nat
    BY CommandsAssumption, FS_Subset, FS_CardinalityType DEF Running, TypeOK, MasterTypeOK
  <1>. SUFFICES ASSUME NEW c \in Running, NEW d \in Running, c # d PROVE FALSE
    BY DEF Alone
  <1>2. Cardinality({c, d}) = 2
    <2>1. IsFiniteSet({c}) /\ Cardinality({c}) = 1
      BY FS_Singleton
    <2>2. Cardinality({c} \cup {d}) = 2
      BY <2>1, FS_AddElement
    <2>. QED
      BY <2>2
  <1>3. Cardinality({c, d}) <= Cardinality(Running)
    BY <1>1, FS_Subset
  <1>. QED
    BY <1>1, <1>2, <1>3

\* The actions that leave the kernel's parser and its answers alone move one
\* command, and not to or from its block or its end.
LEMMA QuietSteps ==
    ASSUME TypeOK, Next
    PROVE  \/ \E c \in Commands : WriteReply(c) \/ WriteBlock(c) \/ KernelSend(c)
           \/ ParseData /\ UNCHANGED <<kernel, answer, aborted>>
           \/ UNCHANGED <<stage, nbd, kernel, answer, aborted>>
           \/ \E c \in Commands :
                 /\ \/ Start(c) /\ Goto(c, "leg1")
                    \/ Received(c) /\ (Goto(c, "leg2") \/ Goto(c, "reply"))
                    \/ ReceiveFailed(c) /\ \/ Goto(c, "leg2")
                                           \/ Goto(c, "reply")
                                           \/ Goto(c, "failed") /\ Type[c] = "read"
                 /\ stage[c] \in {"queued", "leg1", "leg2"}
                 /\ UNCHANGED <<nbd, kernel, answer, aborted>>
  <1>1. CASE MasterParse
    BY <1>1 DEF MasterParse, ParseData
  <1>2. ASSUME NEW c \in Commands, MasterStep(c), ~WriteReply(c), ~WriteBlock(c)
        PROVE  \/ UNCHANGED <<stage, nbd, kernel, answer, aborted>>
               \/ /\ \/ Start(c) /\ Goto(c, "leg1")
                     \/ Received(c) /\ (Goto(c, "leg2") \/ Goto(c, "reply"))
                  /\ stage[c] \in {"queued", "leg1", "leg2"}
                  /\ UNCHANGED <<nbd, kernel, answer, aborted>>
    BY <1>2 DEF MasterStep, Start, Received, TimedOut, masterVars
  <1>3. ASSUME NEW c \in Commands, ReceiveFailed(c)
        PROVE  /\ \/ Goto(c, "leg2")
                  \/ Goto(c, "reply")
                  \/ Goto(c, "failed") /\ Type[c] = "read"
               /\ stage[c] \in {"queued", "leg1", "leg2"}
               /\ UNCHANGED <<nbd, kernel, answer, aborted>>
    BY <1>3, CommandsAssumption DEF ReceiveFailed
  <1>4. ASSUME UNCHANGED masterVars PROVE UNCHANGED <<stage, nbd, kernel, answer, aborted>>
    BY <1>4 DEF masterVars
  <1>. QED
    BY <1>1, <1>2, <1>3, <1>4 DEF Next, MinionRead, MinionServe, MinionRestart, Lose

\* InStep is inductive: between a read's reply and its block nothing is
\* written to the socket, since only the command that runs writes.
LEMMA InStepStep ==
    ASSUME TypeOK, Alone, InStep, Accounted, Next
    PROVE  InStep'
  <1>0. stage \in [Commands -> Stages]
    BY DEF TypeOK, MasterTypeOK
  <1>1. ASSUME NEW c \in Commands, NEW t, Goto(c, t), stage[c] # "block", t # "block",
               UNCHANGED <<kernel, aborted>>
        PROVE  InStep'
    BY <1>0, <1>1 DEF InStep, Goto
  <1>2. ASSUME NEW c \in Commands, WriteReply(c) PROVE InStep'
    <2>1. stage[c] = "reply"
      BY <1>2 DEF WriteReply
    <2>2. kernel = Header
      <3>. SUFFICES ASSUME kernel # Header PROVE FALSE
        OBVIOUS
      <3>1. PICK d \in Commands : stage[d] = "block"
        BY DEF InStep
      <3>. QED
        BY <2>1, <3>1 DEF Alone, Running
    <2>3. Header # Dead /\ Header.expects # "block"
      BY DEF Header, Dead
    <2>4. \A d \in Commands : stage[d] # "block"
      BY <2>1 DEF Alone, Running
    <2>5. CASE Type[c] = "read"
      <3>1. kernel' = BlockOf(c, TRUE) /\ Goto(c, "block") /\ UNCHANGED aborted
        BY <1>2, <2>2, <2>3, <2>5 DEF WriteReply, WriteFails
      <3>. QED
        BY <1>0, <2>4, <2>5, <3>1 DEF InStep, Goto
    <2>6. CASE Type[c] # "read"
      <3>1. kernel' = kernel /\ Goto(c, "done") /\ UNCHANGED aborted
        BY <1>2, <2>2, <2>3, <2>6, CommandsAssumption DEF WriteReply, WriteFails
      <3>. QED
        BY <1>1, <2>1, <3>1
    <2>. QED
      BY <2>5, <2>6
  <1>3. ASSUME NEW c \in Commands, WriteBlock(c) PROVE InStep'
    <2>1. stage[c] = "block" /\ kernel = BlockOf(c, TRUE)
      BY <1>3 DEF WriteBlock, InStep
    <2>2. BlockOf(c, TRUE) # Dead
      BY DEF BlockOf, Dead
    <2>3. kernel' = Header /\ Goto(c, "done") /\ UNCHANGED aborted
      BY <1>3, <2>1, <2>2 DEF WriteBlock, WriteFails
    <2>4. \A d \in Commands : stage[d] = "block" => d = c
      BY <2>1 DEF Alone, Running
    <2>. QED
      BY <1>0, <2>3, <2>4 DEF InStep, Goto
  <1>4. ASSUME NEW c \in Commands, KernelSend(c) PROVE InStep'
    BY <1>1, <1>4 DEF KernelSend
  <1>5. CASE ParseData /\ UNCHANGED <<kernel, answer, aborted>>
    <2>1. /\ Head(nbd) \in Commands /\ Goto(Head(nbd), "queued")
          /\ stage[Head(nbd)] = "sent"
      BY <1>5 DEF ParseData, TypeOK, MasterTypeOK, Accounted
    <2>. QED
      BY <1>1, <1>5, <2>1
  <1>6. CASE UNCHANGED <<stage, nbd, kernel, answer, aborted>>
    BY <1>6 DEF InStep
  <1>7. ASSUME NEW c \in Commands, stage[c] \in {"queued", "leg1", "leg2"},
               \E t \in {"leg1", "leg2", "reply", "failed"} : Goto(c, t),
               UNCHANGED <<kernel, aborted>>
        PROVE  InStep'
    BY <1>1, <1>7
  <1>. QED
    BY <1>2, <1>3, <1>4, <1>5, <1>6, <1>7, QuietSteps

\* With InStep, a write of the master is the whole of a write's answer, or
\* the head or the block of a read's.
LEMMA WritesInStep ==
    ASSUME TypeOK, Alone, InStep, NEW c \in Commands
    PROVE  /\ WriteReply(c) => /\ stage[c] = "reply"
                               /\ \/ Type[c] = "read" /\ Goto(c, "block") /\ UNCHANGED <<answer, image>>
                                  \/ Type[c] = "write" /\ Goto(c, "done") /\ Answered(c, c)
           /\ WriteBlock(c) => /\ stage[c] = "block" /\ Goto(c, "done")
                               /\ Answered(c, rep[c].m_block)
                               /\ rep[c].m_block \in Data
  <1>1. ASSUME WriteReply(c)
        PROVE  /\ stage[c] = "reply"
               /\ \/ Type[c] = "read" /\ Goto(c, "block") /\ UNCHANGED <<answer, image>>
                  \/ Type[c] = "write" /\ Goto(c, "done") /\ Answered(c, c)
    <2>1. stage[c] = "reply"
      BY <1>1 DEF WriteReply
    <2>2. kernel = Header
      <3>. SUFFICES ASSUME kernel # Header PROVE FALSE
        OBVIOUS
      <3>1. PICK d \in Commands : stage[d] = "block"
        BY DEF InStep
      <3>. QED
        BY <2>1, <3>1 DEF Alone, Running
    <2>3. Header # Dead /\ Header.expects # "block"
      BY DEF Header, Dead
    <2>. QED
      BY <1>1, <2>1, <2>2, <2>3, CommandsAssumption DEF WriteReply, WriteFails
  <1>2. ASSUME WriteBlock(c)
        PROVE  /\ stage[c] = "block" /\ Goto(c, "done")
               /\ Answered(c, rep[c].m_block)
               /\ rep[c].m_block \in Data
    <2>1. stage[c] = "block" /\ kernel = BlockOf(c, TRUE)
      BY <1>2 DEF WriteBlock, InStep
    <2>2. BlockOf(c, TRUE) # Dead
      BY DEF BlockOf, Dead
    <2>3. rep[c] \in Reply_t
      BY <2>1 DEF TypeOK, MasterTypeOK, HasReply
    <2>4. rep[c].m_block \in Data
      BY <2>3 DEF Reply_t, Data
    <2>. QED
      BY <1>2, <2>1, <2>2, <2>4 DEF WriteBlock, WriteFails
  <1>. QED
    BY <1>1, <1>2

\* Moving one command that is neither in the socket nor at its end.
LEMMA AccountedMove ==
    ASSUME TypeOK, Accounted, NEW c \in Commands, NEW t, Goto(c, t),
           stage[c] \notin {"sent", "done"}, t \notin {"sent", "done"},
           UNCHANGED <<nbd, answer>>
    PROVE  Accounted'
  <1>1. stage' = [stage EXCEPT ![c] = t] /\ stage \in [Commands -> Stages]
        /\ nbd \in Seq(Commands)
    BY DEF Goto, TypeOK, MasterTypeOK
  <1>2. ASSUME NEW i \in 1..Len(nbd) PROVE stage'[nbd[i]] = "sent"
    <2>1. nbd[i] \in Commands /\ stage[nbd[i]] = "sent"
      BY <1>1 DEF Accounted
    <2>. QED
      BY <1>1, <2>1
  <1>. QED
    BY <1>1, <1>2 DEF Accounted

\* The answer to a command that runs.
LEMMA AccountedAnswer ==
    ASSUME TypeOK, Accounted, NEW c \in Commands, NEW data \in Data,
           stage[c] \in {"reply", "block"}, Goto(c, "done"), Answered(c, data), UNCHANGED nbd
    PROVE  Accounted'
  <1>1. /\ stage' = [stage EXCEPT ![c] = "done"] /\ stage \in [Commands -> Stages]
        /\ answer' = [answer EXCEPT ![c] = data] /\ answer \in [Commands -> {Empty} \cup Data]
        /\ nbd \in Seq(Commands)
    BY DEF Goto, Answered, TypeOK, MasterTypeOK
  <1>2. data # Empty
    BY MarksAssumption DEF Data
  <1>3. ASSUME NEW i \in 1..Len(nbd) PROVE stage'[nbd[i]] = "sent"
    <2>1. nbd[i] \in Commands /\ stage[nbd[i]] = "sent"
      BY <1>1 DEF Accounted
    <2>. QED
      BY <1>1, <2>1
  <1>4. ASSUME NEW d \in Commands PROVE answer'[d] # Empty <=> stage'[d] = "done"
    BY <1>1, <1>2 DEF Accounted
  <1>. QED
    BY <1>1, <1>3, <1>4 DEF Accounted

\* Requests are parsed once and answered once.
LEMMA AccountedStep ==
    ASSUME TypeOK, Alone, InStep, Accounted, Next
    PROVE  Accounted'
  <1>0. stage \in [Commands -> Stages] /\ nbd \in Seq(Commands)
    BY DEF TypeOK, MasterTypeOK
  <1>1. ASSUME NEW c \in Commands, WriteReply(c) PROVE Accounted'
    <2>1. UNCHANGED nbd
      BY <1>1 DEF WriteReply, WriteFails
    <2>. QED
      BY <1>1, <2>1, WritesInStep, AccountedMove, AccountedAnswer DEF Data
  <1>2. ASSUME NEW c \in Commands, WriteBlock(c) PROVE Accounted'
    <2>1. UNCHANGED nbd
      BY <1>2 DEF WriteBlock, WriteFails
    <2>. QED
      BY <1>2, <2>1, WritesInStep, AccountedAnswer
  <1>3. ASSUME NEW c \in Commands, KernelSend(c) PROVE Accounted'
    <2>1. /\ stage[c] = "new" /\ stage' = [stage EXCEPT ![c] = "sent"]
          /\ nbd' = Append(nbd, c) /\ answer' = answer
      BY <1>3 DEF KernelSend, Goto
    <2>2. \A i \in 1..Len(nbd) : nbd[i] \in Commands /\ nbd[i] # c
      BY <1>0, <2>1 DEF Accounted
    <2>3. Len(nbd') = Len(nbd) + 1 /\ nbd'[Len(nbd) + 1] = c
          /\ \A i \in 1..Len(nbd) : nbd'[i] = nbd[i]
      BY <1>0, <2>1
    <2>4. \A i \in 1..Len(nbd') : stage'[nbd'[i]] = "sent"
      BY <1>0, <2>1, <2>2, <2>3 DEF Accounted
    <2>5. \A i, j \in 1..Len(nbd') : nbd'[i] = nbd'[j] => i = j
      BY <1>0, <2>2, <2>3 DEF Accounted
    <2>6. \A d \in Commands : answer'[d] # Empty <=> stage'[d] = "done"
      BY <1>0, <2>1 DEF Accounted
    <2>. QED
      BY <2>4, <2>5, <2>6 DEF Accounted
  <1>4. CASE ParseData /\ UNCHANGED <<kernel, answer, aborted>>
    <2>1. /\ nbd # <<>> /\ nbd' = Tail(nbd) /\ answer' = answer
          /\ stage' = [stage EXCEPT ![Head(nbd)] = "queued"]
      BY <1>4 DEF ParseData, Goto
    <2>2. /\ Len(nbd') = Len(nbd) - 1 /\ Len(nbd) >= 1 /\ Head(nbd) = nbd[1]
          /\ \A i \in 1..Len(nbd') : i + 1 \in 1..Len(nbd) /\ nbd'[i] = nbd[i + 1]
      BY <1>0, <2>1
    <2>3. ASSUME NEW i \in 1..Len(nbd')
          PROVE  /\ nbd'[i] = nbd[i + 1] /\ nbd'[i] \in Commands /\ stage[nbd'[i]] = "sent"
                 /\ nbd'[i] # Head(nbd)
      <3>1. i + 1 \in 1..Len(nbd) /\ 1 \in 1..Len(nbd) /\ i + 1 # 1
        BY <1>0, <2>2
      <3>. QED
        BY <1>0, <2>2, <3>1 DEF Accounted
    <2>4. \A i \in 1..Len(nbd') : stage'[nbd'[i]] = "sent"
      BY <1>0, <2>1, <2>3
    <2>5. ASSUME NEW i \in 1..Len(nbd'), NEW j \in 1..Len(nbd'), nbd'[i] = nbd'[j] PROVE i = j
      <3>1. i + 1 = j + 1
        BY <2>2, <2>3, <2>5 DEF Accounted
      <3>. QED
        BY <3>1
    <2>6. stage[Head(nbd)] = "sent" /\ Head(nbd) \in Commands
      BY <1>0, <2>2 DEF Accounted
    <2>7. \A d \in Commands : answer'[d] # Empty <=> stage'[d] = "done"
      BY <1>0, <2>1, <2>6 DEF Accounted
    <2>. QED
      BY <2>4, <2>5, <2>7 DEF Accounted
  <1>5. CASE UNCHANGED <<stage, nbd, kernel, answer, aborted>>
    BY <1>5 DEF Accounted
  <1>6. ASSUME NEW c \in Commands, stage[c] \in {"queued", "leg1", "leg2"},
               \E t \in {"leg1", "leg2", "reply", "failed"} : Goto(c, t),
               UNCHANGED <<nbd, answer>>
        PROVE  Accounted'
    BY <1>6, AccountedMove
  <1>. QED
    BY <1>1, <1>2, <1>3, <1>4, <1>5, <1>6, QuietSteps

\* The inductive invariant of the NBD stream.
LEMMA StreamHolds == ASSUME NumWorkers = 1 PROVE SafeSpec => [](InStep /\ Accounted)
  <1>1. Init => InStep /\ Accounted
    <2>. SUFFICES ASSUME Init PROVE InStep /\ Accounted
      OBVIOUS
    <2>1. /\ stage = [c \in Commands |-> "new"] /\ nbd = <<>> /\ kernel = Header
          /\ answer = [c \in Commands |-> Empty] /\ aborted = FALSE
      BY DEF Init, MasterInit
    <2>. QED
      BY <2>1 DEF InStep, Accounted
  <1>2. TypeOK /\ InStep /\ Accounted /\ [Next]_vars => (InStep /\ Accounted)'
    <2>. SUFFICES ASSUME TypeOK, InStep, Accounted, [Next]_vars
                  PROVE  (InStep /\ Accounted)'
      OBVIOUS
    <2>1. CASE UNCHANGED vars
      <3>1. UNCHANGED masterVars
        BY <2>1 DEF vars
      <3>2. InStep'
        BY <3>1 DEF masterVars, InStep
      <3>3. Accounted'
        BY <3>1 DEF masterVars, Accounted
      <3>. QED
        BY <3>2, <3>3
    <2>. QED
      BY <2>1, OneRuns, InStepStep, AccountedStep
  <1>. QED
    BY <1>1, <1>2, TypeCorrect, PTL DEF SafeSpec

(***************************************************************************)
(* Refinement of NbdService, but for its fairness.                         *)
(***************************************************************************)

\* A step of the data path is a request, an answer or a dropped read at the
\* NBD socket, or is not seen there.
LEMMA ServiceStep ==
    ASSUME TypeOK, Alone, InStep, Accounted, Next
    PROVE  Service!Next \/ UNCHANGED Service!vars
  <1>. DEFINE waiting == {c \in InFlight : stage[c] # "failed"}
              answered == {c \in Commands : answer[c] # Empty}
              dropped == {c \in Commands : stage[c] = "failed"}
  <1>0. stage \in [Commands -> Stages]
    BY DEF TypeOK, MasterTypeOK
  <1>1. /\ waiting = {c \in Commands : stage[c] \notin {"new", "done", "failed"}}
        /\ waiting' = {c \in Commands : stage'[c] \notin {"new", "done", "failed"}}
        /\ answered = {c \in Commands : stage[c] = "done"}
        /\ answered' = {c \in Commands : stage'[c] = "done"}
        /\ dropped' = {c \in Commands : stage'[c] = "failed"}
    BY AccountedStep DEF Accounted, InFlight
  <1>2. ASSUME NEW c \in Commands, NEW t, Goto(c, t) PROVE stage' = [stage EXCEPT ![c] = t]
    BY <1>2 DEF Goto
  <1>. HIDE DEF waiting, answered
  <1>3. ASSUME NEW c \in Commands, NEW t, Goto(c, t), stage[c] \notin {"new", "done", "failed"},
               t \notin {"new", "done", "failed"}
        PROVE  UNCHANGED <<waiting, answered, dropped>>
    BY <1>0, <1>1, <1>2, <1>3
  <1>4. ASSUME NEW c \in Commands, Goto(c, "done"), stage[c] \notin {"new", "done", "failed"}
        PROVE  /\ c \in waiting /\ waiting' = waiting \ {c}
               /\ answered' = answered \cup {c} /\ dropped' = dropped
    BY <1>0, <1>1, <1>2, <1>4
  <1>5. ASSUME NEW c \in Commands, Goto(c, "failed"), stage[c] \notin {"new", "done", "failed"}
        PROVE  /\ c \in waiting /\ waiting' = waiting \ {c}
               /\ dropped' = dropped \cup {c} /\ answered' = answered
    BY <1>0, <1>1, <1>2, <1>5
  <1>6. ASSUME NEW c \in Commands, Goto(c, "sent"), stage[c] = "new"
        PROVE  /\ c \notin waiting \cup answered \cup dropped
               /\ waiting' = waiting \cup {c} /\ UNCHANGED <<answered, dropped>>
    BY <1>0, <1>1, <1>2, <1>6
  <1>. HIDE DEF dropped
  <1>7. ASSUME UNCHANGED <<waiting, answered, dropped>> PROVE UNCHANGED Service!vars
    BY <1>7 DEF waiting, answered, dropped, Service!vars
  <1>8. ASSUME NEW c \in Commands, WriteReply(c) PROVE Service!Next \/ UNCHANGED Service!vars
    <2>1. CASE Goto(c, "block") /\ stage[c] = "reply"
      BY <1>3, <1>7, <2>1
    <2>2. CASE Goto(c, "done") /\ stage[c] = "reply"
      BY <1>4, <2>2 DEF waiting, answered, dropped, Service!Next, Service!Answer
    <2>. QED
      BY <1>8, <2>1, <2>2, WritesInStep
  <1>9. ASSUME NEW c \in Commands, WriteBlock(c) PROVE Service!Next \/ UNCHANGED Service!vars
    <2>1. Goto(c, "done") /\ stage[c] = "block"
      BY <1>9, WritesInStep
    <2>. QED
      BY <1>4, <2>1 DEF waiting, answered, dropped, Service!Next, Service!Answer
  <1>10. ASSUME NEW c \in Commands, KernelSend(c) PROVE Service!Next \/ UNCHANGED Service!vars
    <2>1. Goto(c, "sent") /\ stage[c] = "new"
      BY <1>10 DEF KernelSend
    <2>. QED
      BY <1>6, <2>1 DEF waiting, answered, dropped, Service!Next, Service!Send
  <1>11. CASE ParseData
    <2>1. /\ Head(nbd) \in Commands /\ Goto(Head(nbd), "queued")
          /\ stage[Head(nbd)] = "sent"
      BY <1>11 DEF ParseData, TypeOK, MasterTypeOK, Accounted
    <2>. QED
      BY <1>3, <1>7, <2>1
  <1>12. CASE UNCHANGED <<stage, nbd, kernel, answer, aborted>>
    BY <1>7, <1>12 DEF waiting, answered, dropped, InFlight
  <1>13. ASSUME NEW c \in Commands, stage[c] \in {"queued", "leg1", "leg2"},
                \E t \in {"leg1", "leg2", "reply"} : Goto(c, t)
         PROVE  Service!Next \/ UNCHANGED Service!vars
    BY <1>3, <1>7, <1>13
  <1>14. ASSUME NEW c \in Commands, stage[c] \in {"queued", "leg1", "leg2"},
                Goto(c, "failed"), Type[c] = "read"
         PROVE  Service!Next \/ UNCHANGED Service!vars
    BY <1>5, <1>14 DEF waiting, answered, dropped, Service!Next, Service!Drop
  <1>. QED
    BY <1>8, <1>9, <1>10, <1>11, <1>12, <1>13, <1>14, QuietSteps

\* With one worker the data path implements NbdService: a request is answered
\* at most once, never after it was dropped, and only a read is ever dropped.
THEOREM ImplementsService ==
    ASSUME NumWorkers = 1
    PROVE  SafeSpec => Service!Init /\ [][Service!Next]_Service!vars
  <1>1. Init => Service!Init
    BY DEF Init, MasterInit, Service!Init, InFlight
  <1>2. TypeOK /\ InStep /\ Accounted /\ [Next]_vars => [Service!Next]_Service!vars
    <2>1. CASE UNCHANGED vars
      BY <2>1 DEF vars, masterVars, Service!vars, InFlight
    <2>. QED
      BY <2>1, OneRuns, ServiceStep
  <1>. QED
    BY <1>1, <1>2, TypeCorrect, StreamHolds, PTL DEF SafeSpec

(***************************************************************************)
(* Requests, replies and copies, while the minions answer in time and no   *)
(* socket reports an error (Smooth).  Requests and replies may be lost and *)
(* minions crash.                                                          *)
(*                                                                         *)
(* Nothing in the code matches a reply to a request, or a block to its     *)
(* header.  That they fit rests on there being one exchange at a time:     *)
(* the request of the command that runs is in one place at most, and       *)
(* nothing else is under way anywhere.                                     *)
(***************************************************************************)

Socket(c) == <<c, LegOf(c)>>

HasDatagram(a) == rx[a] \notin {Closed, Empty}

\* Nothing on its way to minion m or in it.
Quiet(m) == inbox[m] = <<>> /\ tasks[m] = <<>> /\ header[m] = Nobody

Resting == (\A a \in Addresses : rx[a] = Closed) /\ (\A m \in Minions : Quiet(m))

\* The request sent through socket a is on its way to minion m, in m's pool,
\* answered, or lost.  The header of a write may be waiting for the retry
\* that stands in for its block.
Exchange(a, m) ==
    /\ header[m] # Nobody => header[m] = TranslateRequest(a) /\ Type[a[1]] = "write"
    /\ \/ inbox[m] = <<TranslateRequest(a)>> /\ tasks[m] = <<>> /\ rx[a] = Empty
       \/ /\ inbox[m] = <<>> /\ tasks[m] = <<TranslateRequest(a)>> /\ rx[a] = Empty
          /\ header[m] = Nobody /\ client[m] = a
       \/ Quiet(m) /\ HasDatagram(a) /\ rx[a].m_id = a[1]
       \/ inbox[m] = <<>> /\ tasks[m] = <<>> /\ rx[a] = Empty

Busy(a) ==
    /\ \A b \in Addresses \ {a} : rx[b] = Closed
    /\ \A m \in Minions \ {Target(a)} : Quiet(m)
    /\ Exchange(a, Target(a))

OneExchange ==
    /\ InLeg = {} => Resting
    /\ \A c \in InLeg : Busy(Socket(c))

Spent == \A kind \in {"lose", "error", "crash"} : faults[kind] <= Faults[kind]

\* Faults only add up.
LEMMA SpentStep ==
    ASSUME TypeOK, Spent, [Next]_vars
    PROVE  /\ Spent'
           /\ \A kind \in {"lose", "error", "crash"} :
                 /\ Happened(kind) \in Nat /\ Happened(kind)' \in Nat
                 /\ Happened(kind)' = Happened(kind) \/ Happened(kind)' = Happened(kind) + 1
           /\ Smooth' => Smooth
  <1>0. /\ faults \in [{"lose", "error", "crash"} -> Nat]
        /\ Faults \in [{"lose", "error", "crash"} -> Nat]
        /\ late \in BOOLEAN /\ late' \in BOOLEAN
    BY FaultsAssumption, LateType DEF TypeOK
  <1>1. \/ faults' = faults /\ (late => late')
        \/ \E kind \in {"lose", "error", "crash"} : Spend(kind)
    BY DEF Next, MasterParse, MasterStep, MinionRead, MinionServe, MinionRestart, Lose,
           faultVars, vars
  <1>2. CASE faults' = faults
    <2>1. Spent' /\ \A kind \in {"lose", "error", "crash"} : Happened(kind) \in Nat
      BY <1>0, <1>2 DEF Spent, Happened
    <2>2. \A kind \in {"lose", "error", "crash"} : Happened(kind)' = Happened(kind)
      BY <1>2 DEF Happened
    <2>3. late => late'
      BY <1>1 DEF Spend
    <2>. QED
      BY <2>1, <2>2, <2>3 DEF Smooth
  <1>3. ASSUME NEW kind \in {"lose", "error", "crash"}, Spend(kind)
        PROVE  /\ Spent'
               /\ \A k \in {"lose", "error", "crash"} :
                     /\ Happened(k) \in Nat /\ Happened(k)' \in Nat
                     /\ Happened(k)' = Happened(k) \/ Happened(k)' = Happened(k) + 1
               /\ late' = late
    BY <1>0, <1>3 DEF Spend, Spent, Happened
  <1>4. ASSUME NEW kind \in {"lose", "error", "crash"}, Spend(kind)
        PROVE  Smooth' => Smooth
    <2>1. /\ Happened("error") \in Nat /\ Happened("error")' \in Nat
          /\ Happened("error")' = Happened("error") \/ Happened("error")' = Happened("error") + 1
          /\ late' = late
      BY <1>3, <1>4
    <2>. QED
      BY <2>1 DEF Smooth
  <1>. QED
    BY <1>1, <1>2, <1>3, <1>4

\* While everything is smooth no socket has reported an error.
LEMMA NoError == ASSUME TypeOK, Spent, Smooth', Spend("error") PROVE FALSE
  <1>1. Happened("error")' = 0 /\ faults' = [faults EXCEPT !["error"] = @ - 1]
    BY DEF Smooth, Spend
  <1>2. /\ faults \in [{"lose", "error", "crash"} -> Nat]
        /\ Faults \in [{"lose", "error", "crash"} -> Nat]
        /\ faults["error"] <= Faults["error"]
    BY FaultsAssumption DEF TypeOK, Spent
  <1>3. faults'["error"] = faults["error"] - 1
    BY <1>1, <1>2
  <1>. QED
    BY <1>1, <1>2, <1>3 DEF Happened

\* Sockets and their minions.
LEMMA SocketFacts ==
    ASSUME NEW c \in Commands, NEW leg \in Legs
    PROVE  /\ <<c, leg>> \in Addresses
           /\ Target(<<c, leg>>) \in Minions
           /\ TranslateRequest(<<c, leg>>) \in Request_t
           /\ TranslateRequest(<<c, leg>>).from = <<c, leg>>
           /\ TranslateRequest(<<c, leg>>).m_id = c
           /\ TranslateRequest(<<c, leg>>).m_type = Type[c]
           /\ TranslateRequest(<<c, leg>>).m_offset = Key[c]
  BY TargetInRange DEF Addresses, TranslateRequest

\* A command in a leg is the only one, and everything else is quiet.
LEMMA BusyWith ==
    ASSUME TypeOK, Alone, OneExchange, NEW c \in Commands, stage[c] \in {"leg1", "leg2"}
    PROVE  /\ InLeg = {c}
           /\ LegOf(c) \in Legs /\ Socket(c) \in Addresses /\ Target(Socket(c)) \in Minions
           /\ Busy(Socket(c))
  <1>1. c \in InLeg /\ InLeg \subseteq Running
    BY DEF InLeg, Running
  <1>. QED
    BY <1>1, SocketFacts DEF Alone, OneExchange, LegOf, Legs, Socket

\* A step that moves no command in or out of a leg and leaves the network and
\* the minions alone.
LEMMA ExchangeUntouched ==
    ASSUME OneExchange, UNCHANGED <<netVars, minionVars>>, InLeg' = InLeg,
           \A c \in InLeg : stage'[c] = stage[c]
    PROVE  OneExchange'
  <1>1. \A c \in InLeg : Socket(c)' = Socket(c)
    BY DEF Socket, LegOf
  <1>2. UNCHANGED <<inbox, rx, header, client, tasks>>
    BY DEF netVars, minionVars
  <1>3. Resting => Resting'
    BY <1>2 DEF Resting, Quiet
  <1>4. ASSUME NEW a PROVE Busy(a) => Busy(a)'
    BY <1>2 DEF Busy, Exchange, Quiet, HasDatagram
  <1>5. ASSUME NEW c \in InLeg' PROVE Busy(Socket(c))'
    <2>1. Busy(Socket(c)) /\ Socket(c)' = Socket(c)
      BY <1>1 DEF OneExchange
    <2>2. Busy(Socket(c))' <=> Busy(Socket(c))
      BY <1>2, <2>1 DEF Busy, Exchange, Quiet, HasDatagram
    <2>. QED
      BY <2>1, <2>2
  <1>. QED
    BY <1>3, <1>5 DEF OneExchange

\* A command that is the only one in a leg.
LEMMA ExchangeOf ==
    ASSUME NEW c \in Commands, NEW a, InLeg' = {c}, Socket(c)' = a,
           \A b \in Addresses \ {a} : rx'[b] = Closed,
           \A m \in Minions \ {Target(a)} : Quiet(m)',
           \/ inbox'[Target(a)] = <<TranslateRequest(a)>> /\ tasks'[Target(a)] = <<>> /\ rx'[a] = Empty
           \/ /\ inbox'[Target(a)] = <<>> /\ tasks'[Target(a)] = <<TranslateRequest(a)>>
              /\ rx'[a] = Empty /\ header'[Target(a)] = Nobody /\ client'[Target(a)] = a
           \/ Quiet(Target(a))' /\ rx'[a] \notin {Closed, Empty} /\ rx'[a].m_id = a[1]
           \/ inbox'[Target(a)] = <<>> /\ tasks'[Target(a)] = <<>> /\ rx'[a] = Empty,
           header'[Target(a)] # Nobody =>
              header'[Target(a)] = TranslateRequest(a) /\ Type[a[1]] = "write"
    PROVE  OneExchange'
  BY DEF OneExchange, Busy, Exchange, HasDatagram, Quiet

\* A leg begins with everything quiet.
LEMMA LegBegins ==
    ASSUME TypeOK, \A m \in Minions : Quiet(m), NEW c \in Commands, NEW leg \in Legs,
           \A b \in Addresses : b[1] # c => rx[b] = Closed,
           OpenAndSend(c, leg), UNCHANGED minionVars,
           InLeg' = {c}, Socket(c)' = <<c, leg>>
    PROVE  OneExchange'
  <1>. DEFINE a == <<c, leg>>
              m == Target(a)
              r == TranslateRequest(a)
  <1>1. a \in Addresses /\ m \in Minions /\ r \in Request_t
    BY SocketFacts
  <1>2. /\ inbox \in [Minions -> Seq(Request_t)]
        /\ rx' = [b \in Addresses |-> IF b = a THEN Empty ELSE IF b[1] = c THEN Closed ELSE rx[b]]
        /\ inbox' = inbox \/ inbox' = [inbox EXCEPT ![m] = Append(@, r)]
        /\ UNCHANGED <<header, tasks, client>>
    BY DEF OpenAndSend, AfterSend, TypeOK, NetTypeOK, minionVars
  <1>3. inbox[m] = <<>> /\ tasks[m] = <<>> /\ header[m] = Nobody
    BY <1>1 DEF Quiet
  <1>. HIDE DEF m, r, a
  <1>4. rx'[a] = Empty /\ \A b \in Addresses \ {a} : rx'[b] = Closed
    BY <1>1, <1>2
  <1>5. inbox'[m] = <<r>> \/ inbox'[m] = <<>>
    BY <1>1, <1>2, <1>3
  <1>6. \A n \in Minions \ {m} : Quiet(n)'
    BY <1>2 DEF Quiet
  <1>. QED
    BY <1>2, <1>3, <1>4, <1>5, <1>6, ExchangeOf DEF m, r, a

\* The steps of the master, while replies are in time.
LEMMA ExchangeMaster ==
    ASSUME NumWorkers = 1, TypeOK, Alone, Accounted, OneExchange, NEW c \in Commands,
           UNCHANGED minionVars
    PROVE  /\ Start(c) => OneExchange'
           /\ Received(c) => OneExchange'
           /\ TimedOut(c) /\ Idle => OneExchange'
           /\ KernelSend(c) \/ WriteReply(c) \/ WriteBlock(c) => OneExchange'
           /\ ParseData => OneExchange'
  <1>0. stage \in [Commands -> Stages]
    BY DEF TypeOK, MasterTypeOK
  <1>1. ASSUME Start(c) PROVE OneExchange'
    <2>1. IsFiniteSet(Running) /\ Cardinality(Running) \in Nat /\ Cardinality(Running) < 1
      BY <1>1, CommandsAssumption, FS_Subset, FS_CardinalityType DEF Running, Start
    <2>2. Running = {}
      BY <2>1, FS_EmptySet
    <2>3. InLeg = {} /\ Resting
      BY <2>2 DEF InLeg, Running, OneExchange
    <2>4. stage' = [stage EXCEPT ![c] = "leg1"] /\ OpenAndSend(c, 1)
      BY <1>1 DEF Start, Goto
    <2>5. InLeg' = {c} /\ Socket(c)' = <<c, 1>>
      BY <1>0, <2>3, <2>4 DEF InLeg, Socket, LegOf
    <2>. QED
      BY <2>3, <2>4, <2>5, LegBegins DEF Resting, Legs
  <1>2. ASSUME Received(c) PROVE OneExchange'
    <2>1. stage[c] \in {"leg1", "leg2"} /\ HasDatagram(Socket(c))
      BY <1>2 DEF Received, DatagramFor, HasDatagram, Socket
    <2>2. InLeg = {c} /\ Busy(Socket(c)) /\ Socket(c) \in Addresses
      BY <2>1, BusyWith
    <2>3. \A m \in Minions : Quiet(m)
      BY <2>1, <2>2 DEF Busy, Exchange, HasDatagram
    <2>4. \A b \in Addresses : b[1] # c => rx[b] = Closed
      BY <2>2 DEF Busy, Socket
    <2>5. CASE Goto(c, "leg2") /\ OpenAndSend(c, 2)
      <3>1. InLeg' = {c} /\ Socket(c)' = <<c, 2>>
        BY <1>0, <2>2, <2>5 DEF InLeg, Socket, LegOf, Goto
      <3>. QED
        BY <2>3, <2>4, <2>5, <3>1, LegBegins DEF Legs
    <2>6. CASE Goto(c, "reply") /\ CloseSockets(c)
      <3>1. InLeg' = {}
        BY <1>0, <2>2, <2>6 DEF InLeg, Goto
      <3>2. \A b \in Addresses : rx'[b] = Closed
        BY <2>4, <2>6 DEF CloseSockets
      <3>3. \A m \in Minions : Quiet(m)'
        BY <2>3, <2>6 DEF CloseSockets, Quiet, minionVars
      <3>. QED
        BY <3>1, <3>2, <3>3 DEF OneExchange, Resting
    <2>. QED
      BY <1>2, <2>5, <2>6 DEF Received
  <1>3. ASSUME TimedOut(c), Idle PROVE OneExchange'
    <2>. DEFINE a == Socket(c)
                m == Target(a)
                r == TranslateRequest(a)
    <2>1. stage[c] \in {"leg1", "leg2"} /\ rx[a] = Empty
      BY <1>3 DEF TimedOut, Socket
    <2>2. InLeg = {c} /\ Busy(a) /\ a \in Addresses /\ m \in Minions
      BY <2>1, BusyWith
    <2>3. InLeg' = {c} /\ Socket(c)' = a
      BY <1>3, <2>2 DEF TimedOut, masterVars, InLeg, Socket, LegOf
    <2>4. /\ inbox \in [Minions -> Seq(Request_t)]
          /\ inbox' = inbox \/ inbox' = [inbox EXCEPT ![m] = Append(@, r)]
          /\ UNCHANGED <<rx, header, tasks, client>>
      BY <1>3 DEF TimedOut, AfterSend, TypeOK, NetTypeOK, minionVars, Socket
    <2>5. inbox[m] = <<>> /\ tasks[m] = <<>> /\ r \in Request_t
      BY <1>3, <2>2, TargetInRange DEF Idle
    <2>6. header[m] # Nobody => header[m] = r /\ Type[a[1]] = "write"
      BY <2>2 DEF Busy, Exchange
    <2>7. /\ \A b \in Addresses \ {a} : rx[b] = Closed
          /\ \A n \in Minions \ {m} : Quiet(n)
      BY <2>2 DEF Busy
    <2>. HIDE DEF m, r, a
    <2>8. inbox'[m] = <<r>> \/ inbox'[m] = <<>>
      BY <2>2, <2>4, <2>5
    <2>9. \A n \in Minions \ {m} : Quiet(n)'
      BY <2>4, <2>7 DEF Quiet
    <2>. QED
      BY <2>1, <2>3, <2>4, <2>5, <2>6, <2>7, <2>8, <2>9, ExchangeOf DEF m, r, a
  <1>4. ASSUME NEW d \in Commands, NEW t, Goto(d, t), stage[d] \notin {"leg1", "leg2"},
               t \notin {"leg1", "leg2"}, UNCHANGED netVars
        PROVE  OneExchange'
    <2>1. InLeg' = InLeg /\ \A e \in InLeg : stage'[e] = stage[e]
      BY <1>0, <1>4 DEF Goto, InLeg
    <2>. QED
      BY <1>4, <2>1, ExchangeUntouched
  <1>5. ASSUME WriteFails(c) PROVE OneExchange'
    <2>1. InLeg' = InLeg /\ \A e \in InLeg : stage'[e] = stage[e]
      BY <1>5 DEF WriteFails, InLeg
    <2>. QED
      BY <1>5, <2>1, ExchangeUntouched DEF WriteFails
  <1>6. ASSUME KernelSend(c) PROVE OneExchange'
    BY <1>4, <1>6 DEF KernelSend
  <1>7. ASSUME WriteReply(c), ~WriteFails(c) PROVE OneExchange'
    BY <1>4, <1>7 DEF WriteReply
  <1>8. ASSUME WriteBlock(c), ~WriteFails(c) PROVE OneExchange'
    BY <1>4, <1>8 DEF WriteBlock
  <1>9. ASSUME ParseData PROVE OneExchange'
    <2>1. /\ Head(nbd) \in Commands /\ Goto(Head(nbd), "queued")
          /\ stage[Head(nbd)] = "sent"
      BY <1>9 DEF ParseData, TypeOK, MasterTypeOK, Accounted
    <2>. QED
      BY <1>4, <1>9, <2>1 DEF ParseData
  <1>. QED
    BY <1>1, <1>2, <1>3, <1>5, <1>6, <1>7, <1>8, <1>9

\* What a minion takes in or serves is the request of the command that runs.
LEMMA AtWork ==
    ASSUME TypeOK, Alone, OneExchange, NEW m \in Minions, ~Quiet(m)
    PROVE  \E c \in Commands :
              /\ stage[c] \in {"leg1", "leg2"} /\ InLeg = {c}
              /\ Busy(Socket(c)) /\ Target(Socket(c)) = m /\ Socket(c) \in Addresses
  <1>1. PICK c \in InLeg : TRUE
    BY DEF OneExchange, Resting
  <1>2. c \in Commands /\ stage[c] \in {"leg1", "leg2"}
    BY <1>1 DEF InLeg
  <1>3. InLeg = {c} /\ Busy(Socket(c)) /\ Socket(c) \in Addresses
    BY <1>2, BusyWith
  <1>4. Target(Socket(c)) = m
    BY <1>3 DEF Busy
  <1>. QED
    BY <1>2, <1>3, <1>4

\* The worker of a minion serves the request of the command that runs, and
\* its reply goes to that command's socket.
LEMMA ServesOwn ==
    ASSUME TypeOK, Alone, OneExchange, NEW m \in Minions, Serve(m)
    PROVE  \E c \in Commands : \E e \in {"NONE", "BLOCK_NOT_FOUNED"} :
              /\ stage[c] \in {"leg1", "leg2"} /\ InLeg = {c}
              /\ Busy(Socket(c)) /\ Target(Socket(c)) = m /\ Socket(c) \in Addresses
              /\ Quiet(m)'
              /\ rx' = [rx EXCEPT ![Socket(c)] =
                          TranslateReply(TranslateRequest(Socket(c)), e, Garbage)]
              /\ TranslateReply(TranslateRequest(Socket(c)), e, Garbage) \in Reply_t
              /\ \/ Type[c] = "write" /\ Store(m, Key[c])
                 \/ Type[c] = "read" /\ UNCHANGED m_map /\ e = LoadError(m, Key[c])
  <1>0. /\ inbox \in [Minions -> Seq(Request_t)]
        /\ tasks \in [Minions -> Seq(Request_t)]
    BY DEF TypeOK, NetTypeOK, MinionTypeOK
  <1>1. PICK k \in 1..Len(tasks[m]) :
           /\ tasks' = [tasks EXCEPT ![m] = RemoveAt(@, k)]
           /\ \/ tasks[m][k].m_type = "write" /\ MinWriteCmd(m, tasks[m][k])
              \/ tasks[m][k].m_type = "read" /\ MinReadCmd(m, tasks[m][k])
    BY DEF Serve
  <1>2. tasks[m] # <<>>
    BY <1>0, <1>1
  <1>3. PICK c \in Commands :
           /\ stage[c] \in {"leg1", "leg2"} /\ InLeg = {c}
           /\ Busy(Socket(c)) /\ Target(Socket(c)) = m /\ Socket(c) \in Addresses
    BY <1>2, AtWork DEF Quiet
  <1>. DEFINE a == Socket(c)
              r == TranslateRequest(a)
  <1>4. /\ inbox[m] = <<>> /\ tasks[m] = <<r>> /\ rx[a] = Empty
        /\ header[m] = Nobody /\ client[m] = a
    BY <1>2, <1>3 DEF Busy, Exchange, Quiet
  <1>5. r \in Request_t /\ r.m_type = Type[c] /\ r.m_offset = Key[c]
    BY <1>3, TargetInRange DEF TranslateRequest, Socket
  <1>6. k = 1 /\ tasks[m][k] = r
    BY <1>1, <1>4
  <1>7. RemoveAt(tasks[m], k) = <<>>
    <2>1. RemoveAt(<<r>>, 1) = SubSeq(<<r>>, 1, 0) \o SubSeq(<<r>>, 2, 1)
      BY DEF RemoveAt
    <2>2. SubSeq(<<r>>, 1, 0) = <<>> /\ SubSeq(<<r>>, 2, 1) = <<>>
      OBVIOUS
    <2>. QED
      BY <1>4, <1>6, <2>1, <2>2
  <1>8. Quiet(m)'
    BY <1>0, <1>1, <1>4, <1>7 DEF Quiet, Serve
  <1>9. PICK e \in {"NONE", "BLOCK_NOT_FOUNED"} :
           /\ rx' = AfterReply(a, TranslateReply(r, e, Garbage))
           /\ \/ Type[c] = "write" /\ Store(m, Key[c])
              \/ Type[c] = "read" /\ UNCHANGED m_map /\ e = LoadError(m, Key[c])
    BY <1>1, <1>4, <1>5, <1>6 DEF MinWriteCmd, MinReadCmd, Reply, LoadError, LoadBlock
  <1>10. TranslateReply(r, e, Garbage) \in Reply_t
    BY <1>5 DEF TranslateReply, Reply_t, Request_t
  <1>. QED
    BY <1>3, <1>4, <1>8, <1>9, <1>10 DEF AfterReply

\* The steps of a minion.
LEMMA ExchangeMinion ==
    ASSUME TypeOK, Alone, OneExchange, NEW m \in Minions, UNCHANGED stage
    PROVE  /\ ReadHeader(m) \/ ReadBlock(m) => OneExchange'
           /\ Serve(m) => OneExchange'
           /\ Crash(m) => OneExchange'
           /\ Restart(m) => OneExchange'
  <1>0. /\ InLeg' = InLeg /\ \A c \in InLeg : stage'[c] = stage[c] /\ Socket(c)' = Socket(c)
        /\ inbox \in [Minions -> Seq(Request_t)]
        /\ tasks \in [Minions -> Seq(Request_t)]
        /\ header \in [Minions -> Request_t \cup {Nobody}]
        /\ client \in [Minions -> Addresses \cup {Nobody}]
        /\ rx \in [Addresses -> {Closed, Empty} \cup Reply_t]
    BY DEF InLeg, Socket, LegOf, TypeOK, NetTypeOK, MinionTypeOK
  <1>1. ASSUME Receive(m), ReadHeader(m) \/ ReadBlock(m) PROVE OneExchange'
    <2>1. inbox[m] # <<>> /\ inbox' = [inbox EXCEPT ![m] = Tail(@)]
          /\ client' = [client EXCEPT ![m] = Head(inbox[m]).from]
      BY <1>1 DEF Receive
    <2>2. PICK c \in Commands :
             /\ stage[c] \in {"leg1", "leg2"} /\ InLeg = {c}
             /\ Busy(Socket(c)) /\ Target(Socket(c)) = m /\ Socket(c) \in Addresses
      BY <2>1, AtWork DEF Quiet
    <2>. DEFINE a == Socket(c)
                r == TranslateRequest(a)
    <2>3. /\ inbox[m] = <<r>> /\ tasks[m] = <<>> /\ rx[a] = Empty
          /\ header[m] # Nobody => header[m] = r /\ Type[a[1]] = "write"
      BY <2>1, <2>2 DEF Busy, Exchange, Quiet
    <2>4. /\ a \in Addresses /\ r \in Request_t /\ r.from = a /\ r.m_type = Type[a[1]]
          /\ r # Nobody
      BY <2>2, TargetInRange, NobodyAssumption DEF TranslateRequest
    <2>5. /\ \A b \in Addresses \ {a} : rx[b] = Closed
          /\ \A n \in Minions \ {m} : Quiet(n)
          /\ InLeg' = {c} /\ Socket(c)' = a /\ Target(a) = m
      BY <1>0, <2>2 DEF Busy
    <2>6. UNCHANGED rx
      BY <1>1 DEF ReadHeader, ReadBlock
    <2>. HIDE DEF a, r
    <2>7. inbox'[m] = <<>> /\ client'[m] = a
      BY <1>0, <2>1, <2>3, <2>4
    <2>8. \/ tasks'[m] = <<>> /\ header'[m] = r /\ Type[a[1]] = "write"
          \/ tasks'[m] = <<r>> /\ header'[m] = Nobody
      <3>1. CASE ReadHeader(m)
        <4>1. header[m] = Nobody /\ Head(inbox[m]) = r
          BY <2>3, <3>1 DEF ReadHeader
        <4>2. \/ r.m_type = "write" /\ header' = [header EXCEPT ![m] = r] /\ tasks' = tasks
              \/ tasks' = [tasks EXCEPT ![m] = Append(@, r)] /\ header' = header
          BY <3>1, <4>1 DEF ReadHeader
        <4>. QED
          BY <1>0, <2>3, <2>4, <4>1, <4>2
      <3>2. CASE ReadBlock(m)
        <4>1. /\ header[m] = r /\ tasks' = [tasks EXCEPT ![m] = Append(@, r)]
              /\ header' = [header EXCEPT ![m] = Nobody]
          BY <2>3, <3>2 DEF ReadBlock
        <4>. QED
          BY <1>0, <2>3, <2>4, <4>1
      <3>. QED
        BY <1>1, <3>1, <3>2
    <2>9. \A n \in Minions \ {m} : Quiet(n)'
      <3>1. \A n \in Minions \ {m} :
               inbox'[n] = inbox[n] /\ tasks'[n] = tasks[n] /\ header'[n] = header[n]
        BY <1>0, <1>1, <2>1 DEF ReadHeader, ReadBlock
      <3>. QED
        BY <2>5, <3>1 DEF Quiet
    <2>10. \A b \in Addresses \ {a} : rx'[b] = Closed
      BY <2>5, <2>6
    <2>11. rx'[a] = Empty
      BY <2>3, <2>6
    <2>. QED
      BY <2>5, <2>7, <2>8, <2>9, <2>10, <2>11, ExchangeOf DEF r
  <1>2. ASSUME Serve(m) PROVE OneExchange'
    <2>1. PICK c \in Commands, e \in {"NONE", "BLOCK_NOT_FOUNED"} :
              /\ stage[c] \in {"leg1", "leg2"} /\ InLeg = {c}
              /\ Busy(Socket(c)) /\ Target(Socket(c)) = m /\ Socket(c) \in Addresses
              /\ Quiet(m)'
              /\ rx' = [rx EXCEPT ![Socket(c)] =
                          TranslateReply(TranslateRequest(Socket(c)), e, Garbage)]
              /\ TranslateReply(TranslateRequest(Socket(c)), e, Garbage) \in Reply_t
      BY <1>2, ServesOwn
    <2>. DEFINE a == Socket(c)
                reply == TranslateReply(TranslateRequest(a), e, Garbage)
    <2>2. /\ \A b \in Addresses \ {a} : rx[b] = Closed
          /\ \A n \in Minions \ {m} : Quiet(n)
          /\ InLeg' = {c} /\ Socket(c)' = a /\ Target(a) = m
      BY <1>0, <2>1 DEF Busy
    <2>3. reply \in Reply_t /\ reply.m_id = a[1]
      BY <2>1 DEF TranslateReply, TranslateRequest
    <2>4. a \in Addresses /\ rx' = [rx EXCEPT ![a] = reply]
      BY <2>1
    <2>. HIDE DEF a, reply
    <2>5. /\ rx'[a] = reply /\ reply \notin {Closed, Empty}
          /\ \A b \in Addresses \ {a} : rx'[b] = Closed
      BY <1>0, <2>2, <2>3, <2>4, MarksAssumption
    <2>6. \A n \in Minions \ {m} : tasks'[n] = tasks[n] /\ UNCHANGED <<inbox, header>>
      BY <1>0, <1>2 DEF Serve
    <2>7. \A n \in Minions : Quiet(n)'
      BY <2>1, <2>2, <2>6 DEF Quiet
    <2>8. header'[m] = Nobody
      BY <2>1 DEF Quiet
    <2>. QED
      BY <2>2, <2>3, <2>5, <2>7, <2>8, ExchangeOf
  <1>3. ASSUME Crash(m) PROVE OneExchange'
    <2>1. /\ inbox'[m] = <<>> /\ tasks'[m] = <<>> /\ header'[m] = Nobody /\ rx' = rx
          /\ \A n \in Minions \ {m} :
                inbox'[n] = inbox[n] /\ tasks'[n] = tasks[n] /\ header'[n] = header[n]
                /\ client'[n] = client[n]
      BY <1>0, <1>3 DEF Crash
    <2>2. Quiet(m)' /\ \A n \in Minions : Quiet(n) => Quiet(n)'
      BY <2>1 DEF Quiet
    <2>3. CASE InLeg = {}
      BY <1>0, <2>1, <2>2, <2>3 DEF OneExchange, Resting
    <2>4. CASE InLeg # {}
      <3>1. PICK c \in Commands : stage[c] \in {"leg1", "leg2"}
        BY <2>4 DEF InLeg
      <3>. DEFINE a == Socket(c)
      <3>2. InLeg = {c} /\ Busy(a) /\ a \in Addresses /\ Target(a) \in Minions
        BY <3>1, BusyWith
      <3>3. InLeg' = {c} /\ Socket(c)' = a
        BY <1>0, <3>2
      <3>. HIDE DEF a
      <3>4. /\ \A b \in Addresses \ {a} : rx'[b] = Closed
            /\ \A n \in Minions \ {Target(a)} : Quiet(n)'
        BY <2>1, <2>2, <3>2 DEF Busy
      <3>5. CASE Target(a) = m
        <4>1. rx[a] = Empty \/ (rx[a] \notin {Closed, Empty} /\ rx[a].m_id = a[1])
          BY <3>2, <3>5 DEF Busy, Exchange, HasDatagram
        <4>. QED
          BY <2>1, <2>2, <3>3, <3>4, <3>5, <4>1, ExchangeOf
      <3>6. CASE Target(a) # m
        <4>1. /\ inbox'[Target(a)] = inbox[Target(a)] /\ tasks'[Target(a)] = tasks[Target(a)]
              /\ header'[Target(a)] = header[Target(a)] /\ client'[Target(a)] = client[Target(a)]
              /\ rx'[a] = rx[a]
          BY <2>1, <3>2, <3>6
        <4>2. Exchange(a, Target(a))
          BY <3>2 DEF Busy
        <4>. QED
          BY <3>3, <3>4, <4>1, <4>2, ExchangeOf DEF Exchange, Quiet, HasDatagram
      <3>. QED
        BY <3>5, <3>6
    <2>. QED
      BY <2>3, <2>4
  <1>4. ASSUME Restart(m) PROVE OneExchange'
    <2>1. UNCHANGED <<inbox, rx, header, client, tasks>>
      BY <1>4 DEF Restart, minionVars
    <2>2. CASE InLeg = {}
      BY <1>0, <2>1, <2>2 DEF OneExchange, Resting, Quiet
    <2>3. CASE InLeg # {}
      <3>1. PICK c \in Commands : stage[c] \in {"leg1", "leg2"}
        BY <2>3 DEF InLeg
      <3>2. InLeg = {c} /\ Busy(Socket(c)) /\ Socket(c)' = Socket(c)
        BY <1>0, <3>1, BusyWith
      <3>3. Busy(Socket(c))' <=> Busy(Socket(c))
        BY <2>1, <3>2 DEF Busy, Exchange, Quiet, HasDatagram
      <3>. QED
        BY <1>0, <2>3, <3>2, <3>3 DEF OneExchange
    <2>. QED
      BY <2>2, <2>3
  <1>. QED
    BY <1>1, <1>2, <1>3, <1>4 DEF ReadHeader, ReadBlock

\* A lost datagram leaves nothing under way.
LEMMA ExchangeLose ==
    ASSUME TypeOK, Alone, OneExchange, Lose
    PROVE  OneExchange'
  <1>0. /\ InLeg' = InLeg /\ \A c \in InLeg : Socket(c)' = Socket(c)
        /\ UNCHANGED <<tasks, header, client>>
        /\ inbox \in [Minions -> Seq(Request_t)]
        /\ rx \in [Addresses -> {Closed, Empty} \cup Reply_t]
    BY DEF Lose, masterVars, minionVars, InLeg, Socket, LegOf, TypeOK, NetTypeOK
  <1>1. ASSUME NEW m \in Minions, inbox[m] # <<>>, inbox' = [inbox EXCEPT ![m] = Tail(@)],
               UNCHANGED rx
        PROVE  OneExchange'
    <2>1. PICK c \in Commands :
             /\ stage[c] \in {"leg1", "leg2"} /\ InLeg = {c}
             /\ Busy(Socket(c)) /\ Target(Socket(c)) = m /\ Socket(c) \in Addresses
      BY <1>1, AtWork DEF Quiet
    <2>. DEFINE a == Socket(c)
                r == TranslateRequest(a)
    <2>2. /\ inbox[m] = <<r>> /\ tasks[m] = <<>> /\ rx[a] = Empty
          /\ header[m] # Nobody => header[m] = r /\ Type[a[1]] = "write"
      BY <1>1, <2>1 DEF Busy, Exchange, Quiet
    <2>3. /\ \A b \in Addresses \ {a} : rx[b] = Closed
          /\ \A n \in Minions \ {m} : Quiet(n)
          /\ InLeg' = {c} /\ Socket(c)' = a /\ Target(a) = m
      BY <1>0, <2>1 DEF Busy
    <2>. HIDE DEF a, r
    <2>4. inbox'[m] = <<>> /\ \A n \in Minions \ {m} : inbox'[n] = inbox[n]
      BY <1>0, <1>1, <2>2
    <2>5. \A n \in Minions \ {m} : Quiet(n)'
      BY <1>0, <2>3, <2>4 DEF Quiet
    <2>. QED
      BY <1>0, <1>1, <2>2, <2>3, <2>4, <2>5, ExchangeOf DEF r
  <1>2. ASSUME NEW b \in Addresses, rx[b] \notin {Closed, Empty},
               rx' = [rx EXCEPT ![b] = Empty], UNCHANGED inbox
        PROVE  OneExchange'
    <2>1. InLeg # {}
      BY <1>2 DEF OneExchange, Resting
    <2>2. PICK c \in Commands : stage[c] \in {"leg1", "leg2"}
      BY <2>1 DEF InLeg
    <2>. DEFINE a == Socket(c)
    <2>3. InLeg = {c} /\ Busy(a) /\ a \in Addresses /\ Target(a) \in Minions
      BY <2>2, BusyWith
    <2>4. b = a
      BY <1>2, <2>3 DEF Busy
    <2>5. Quiet(Target(a))
      BY <1>2, <2>3, <2>4 DEF Busy, Exchange
    <2>6. /\ \A n \in Minions : Quiet(n)'
          /\ InLeg' = {c} /\ Socket(c)' = a
      BY <1>0, <1>2, <2>3, <2>5 DEF Busy, Quiet
    <2>7. rx'[a] = Empty /\ \A d \in Addresses \ {a} : rx'[d] = Closed
      BY <1>0, <1>2, <2>3, <2>4 DEF Busy
    <2>. HIDE DEF a
    <2>8. inbox'[Target(a)] = <<>> /\ tasks'[Target(a)] = <<>> /\ header'[Target(a)] = Nobody
      BY <2>3, <2>6 DEF Quiet
    <2>. QED
      BY <2>6, <2>7, <2>8, ExchangeOf
  <1>. QED
    BY <1>1, <1>2 DEF Lose

\* There is one exchange at a time, as long as everything is in time.
LEMMA ExchangeStep ==
    ASSUME NumWorkers = 1, TypeOK, Alone, Accounted, Spent, OneExchange, Next, Smooth'
    PROVE  OneExchange'
  <1>1. CASE MasterParse
    <2>1. Head(nbd) \in Commands
      BY <1>1 DEF MasterParse, ParseData, TypeOK, MasterTypeOK
    <2>. QED
      BY <1>1, <2>1, ExchangeMaster DEF MasterParse
  <1>2. ASSUME NEW c \in Commands, KernelSend(c), UNCHANGED <<minionVars, faultVars>>
        PROVE  OneExchange'
    BY <1>2, ExchangeMaster
  <1>3. ASSUME NEW c \in Commands, MasterStep(c) PROVE OneExchange'
    <2>1. CASE TimedOut(c) /\ late' = (late \/ ~Idle)
      <3>1. Idle
        BY <2>1 DEF Smooth
      <3>. QED
        BY <1>3, <2>1, <3>1, ExchangeMaster DEF MasterStep
    <2>. QED
      BY <1>3, <2>1, ExchangeMaster DEF MasterStep
  <1>4. ~Spend("error")
    BY NoError
  <1>5. ASSUME NEW m \in Minions,
               \/ MinionRead(m) \/ MinionServe(m) \/ MinionRestart(m)
               \/ Crash(m) /\ UNCHANGED masterVars
        PROVE  OneExchange'
    <2>1. UNCHANGED stage
      BY <1>5 DEF MinionRead, MinionServe, MinionRestart, masterVars
    <2>. QED
      BY <1>5, <2>1, ExchangeMinion DEF MinionRead, MinionServe, MinionRestart
  <1>6. CASE Lose
    BY <1>6, ExchangeLose
  <1>. QED
    BY <1>1, <1>2, <1>3, <1>4, <1>5, <1>6 DEF Next

Held(k, leg) == m_map[ChooseMinions(k)[leg]][k] # Nobody

\* The kernel knows that k was written, or the master is about to tell it.
Acknowledged(k) ==
    \/ image[k] # Unwritten
    \/ \E c \in Commands :
          /\ Type[c] = "write" /\ Key[c] = k
          /\ stage[c] = "reply" \/ (stage[c] = "leg2" /\ HasDatagram(<<c, 2>>))

\* The first minion of write c has answered.
FirstStored(c) ==
    /\ Type[c] = "write"
    /\ stage[c] = "leg2" \/ (stage[c] = "leg1" /\ HasDatagram(<<c, 1>>))

\* Without a crash both copies are there, with one crash one of them is.
BothHeld ==
    Happened("crash") = 0 =>
       /\ \A k \in Keys : Acknowledged(k) => Held(k, 1) /\ Held(k, 2)
       /\ \A c \in Commands : FirstStored(c) => Held(Key[c], 1)

OneHeld ==
    Happened("crash") = 1 => \A k \in Keys : Acknowledged(k) => Held(k, 1) \/ Held(k, 2)

\* A read of a written block has found it, from the minion's reply on.
Found ==
    Happened("crash") = 0 =>
       \A c \in Commands : Type[c] = "read" /\ image[Key[c]] # Unwritten =>
          /\ stage[c] \in {"reply", "block"} => rep[c].m_error = "NONE"
          /\ \A leg \in Legs : HasDatagram(<<c, leg>>) => rx[<<c, leg>>].m_error = "NONE"

\* The kernel is told of a write that both minions have answered, and the
\* first answered before the second was asked.
LEMMA NothingNew ==
    ASSUME TypeOK, Alone, InStep, Accounted, Next, Smooth', Spent,
           \A m \in Minions : ~MinionServe(m)
    PROVE  /\ \A k \in Keys : Acknowledged(k)' => Acknowledged(k)
           /\ \A c \in Commands : FirstStored(c)' => FirstStored(c)
  <1>0. /\ stage \in [Commands -> Stages]
        /\ image \in [Keys -> Commands \cup {Unwritten}]
        /\ \A c \in Commands, leg \in Legs : <<c, leg>> \in Addresses
        /\ rx \in [Addresses -> {Closed, Empty} \cup Reply_t]
    BY DEF TypeOK, NetTypeOK, MasterTypeOK, Addresses
  <1>. DEFINE Goal == /\ \A k \in Keys : Acknowledged(k)' => Acknowledged(k)
                      /\ \A c \in Commands : FirstStored(c)' => FirstStored(c)
  <1>1. ASSUME NEW c \in Commands, NEW t, Goto(c, t),
               t \notin {"leg1", "leg2"}, t = "reply" => Type[c] = "read",
               UNCHANGED image, UNCHANGED rx
        PROVE  Goal
    BY <1>0, <1>1 DEF Goto, Acknowledged, FirstStored, HasDatagram
  <1>2. ASSUME NEW c \in Commands, Start(c) PROVE Goal
    <2>1. /\ stage' = [stage EXCEPT ![c] = "leg1"] /\ image' = image
          /\ rx' = [a \in Addresses |-> IF a = <<c, 1>> THEN Empty
                                        ELSE IF a[1] = c THEN Closed ELSE rx[a]]
      BY <1>2 DEF Start, Goto, OpenAndSend
    <2>2. ASSUME NEW d \in Commands \ {c}, NEW leg \in Legs
          PROVE  HasDatagram(<<d, leg>>)' <=> HasDatagram(<<d, leg>>)
      BY <1>0, <2>1 DEF HasDatagram
    <2>3. ~HasDatagram(<<c, 1>>)'
      BY <1>0, <2>1 DEF HasDatagram, Legs
    <2>4. stage'[c] = "leg1" /\ \A d \in Commands \ {c} : stage'[d] = stage[d]
      BY <1>0, <2>1
    <2>. QED
      BY <2>1, <2>2, <2>3, <2>4 DEF Acknowledged, FirstStored, Legs
  <1>3. ASSUME NEW c \in Commands, Received(c) PROVE Goal
    <2>1. /\ image' = image /\ stage[c] \in {"leg1", "leg2"} /\ HasDatagram(<<c, LegOf(c)>>)
          /\ \A a \in Addresses : a[1] # c => rx'[a] = rx[a]
      BY <1>3 DEF Received, DatagramFor, HasDatagram, OpenAndSend, CloseSockets
    <2>2. ASSUME NEW d \in Commands \ {c}, NEW leg \in Legs
          PROVE  HasDatagram(<<d, leg>>)' <=> HasDatagram(<<d, leg>>)
      BY <1>0, <2>1 DEF HasDatagram
    <2>3. CASE Type[c] = "write" /\ stage[c] = "leg1"
      <3>1. /\ stage' = [stage EXCEPT ![c] = "leg2"]
            /\ rx' = [a \in Addresses |-> IF a = <<c, 2>> THEN Empty
                                          ELSE IF a[1] = c THEN Closed ELSE rx[a]]
        BY <1>3, <2>3 DEF Received, Goto, OpenAndSend
      <3>2. ~HasDatagram(<<c, 2>>)'
        BY <1>0, <3>1 DEF HasDatagram, Legs
      <3>3. FirstStored(c)
        BY <2>1, <2>3 DEF FirstStored, LegOf
      <3>4. stage'[c] = "leg2" /\ \A d \in Commands \ {c} : stage'[d] = stage[d]
        BY <1>0, <3>1
      <3>. QED
        BY <2>1, <2>2, <3>2, <3>3, <3>4 DEF Acknowledged, FirstStored, Legs
    <2>4. CASE ~(Type[c] = "write" /\ stage[c] = "leg1")
      <3>1. stage' = [stage EXCEPT ![c] = "reply"]
        BY <1>3, <2>4 DEF Received, Goto
      <3>2. stage'[c] = "reply" /\ \A d \in Commands \ {c} : stage'[d] = stage[d]
        BY <1>0, <3>1
      <3>3. Type[c] = "write" => stage[c] = "leg2" /\ HasDatagram(<<c, 2>>)
        BY <2>1, <2>4 DEF LegOf
      <3>. QED
        BY <2>1, <2>2, <3>2, <3>3 DEF Acknowledged, FirstStored, Legs
    <2>. QED
      BY <2>3, <2>4
  <1>4. ASSUME UNCHANGED <<stage, image>>,
               \A a \in Addresses : HasDatagram(a)' => HasDatagram(a)
        PROVE  Goal
    BY <1>0, <1>4 DEF Acknowledged, FirstStored, Legs
  <1>5. ASSUME NEW c \in Commands, WriteReply(c) PROVE Goal
    <2>1. UNCHANGED rx /\ stage[c] = "reply"
      BY <1>5 DEF WriteReply, WriteFails, netVars
    <2>2. CASE Type[c] = "read" /\ Goto(c, "block") /\ UNCHANGED <<answer, image>>
      BY <1>1, <2>1, <2>2
    <2>3. CASE Type[c] = "write" /\ Goto(c, "done") /\ Answered(c, c)
      <3>1. image' = [image EXCEPT ![Key[c]] = c] /\ stage' = [stage EXCEPT ![c] = "done"]
        BY <2>3 DEF Answered, Goto
      <3>2. Acknowledged(Key[c])
        BY <2>1, <2>3 DEF Acknowledged
      <3>3. \A k \in Keys \ {Key[c]} : image'[k] = image[k]
        BY <1>0, <3>1
      <3>4. stage'[c] = "done" /\ \A d \in Commands \ {c} : stage'[d] = stage[d]
        BY <1>0, <3>1
      <3>. QED
        BY <2>1, <3>2, <3>3, <3>4 DEF Acknowledged, FirstStored, HasDatagram
    <2>. QED
      BY <1>5, <2>2, <2>3, WritesInStep
  <1>6. ASSUME NEW c \in Commands, WriteBlock(c) PROVE Goal
    <2>1. UNCHANGED rx
      BY <1>6 DEF WriteBlock, WriteFails, netVars
    <2>2. /\ stage[c] = "block" /\ Goto(c, "done") /\ Answered(c, rep[c].m_block)
          /\ Type[c] = "read"
      BY <1>6, WritesInStep DEF InStep
    <2>. QED
      BY <1>1, <2>1, <2>2 DEF Answered
  <1>7. CASE MasterParse
    <2>1. /\ Head(nbd) \in Commands /\ Goto(Head(nbd), "queued") /\ UNCHANGED <<rx, image>>
      BY <1>7 DEF MasterParse, ParseData, TypeOK, MasterTypeOK, netVars
    <2>. QED
      BY <1>1, <2>1
  <1>8. ASSUME NEW c \in Commands, KernelSend(c) PROVE Goal
    <2>1. Goto(c, "sent") /\ UNCHANGED <<rx, image>>
      BY <1>8 DEF KernelSend, netVars
    <2>. QED
      BY <1>1, <2>1
  <1>9. ASSUME NEW c \in Commands, TimedOut(c) PROVE Goal
    BY <1>4, <1>9 DEF TimedOut, masterVars, HasDatagram
  <1>10. ~Spend("error")
    BY NoError
  <1>11. ASSUME NEW m \in Minions,
                \/ MinionRead(m) \/ MinionRestart(m)
                \/ Crash(m) /\ UNCHANGED masterVars
         PROVE  Goal
    <2>1. UNCHANGED <<stage, image, rx>>
      BY <1>11 DEF MinionRead, ReadHeader, ReadBlock, MinionRestart, Restart, Crash, masterVars
    <2>. QED
      BY <1>4, <2>1 DEF HasDatagram
  <1>12. CASE Lose
    <2>1. UNCHANGED <<stage, image>>
      BY <1>12 DEF Lose, masterVars
    <2>2. rx' = rx \/ \E b \in Addresses : rx' = [rx EXCEPT ![b] = Empty]
      BY <1>12 DEF Lose
    <2>3. \A a \in Addresses : HasDatagram(a)' => HasDatagram(a)
      BY <1>0, <2>2 DEF HasDatagram
    <2>. QED
      BY <1>4, <2>1, <2>3
  <1>. QED
    BY <1>2, <1>3, <1>5, <1>6, <1>7, <1>8, <1>9, <1>10, <1>11, <1>12 DEF Next, MasterStep

\* A copy once stored stays, except for the copies of a minion that crashes.
LEMMA HeldStays ==
    ASSUME TypeOK, Next, NEW k \in Keys, NEW leg \in Legs, Held(k, leg)
    PROVE  Held(k, leg)' \/ (Crash(ChooseMinions(k)[leg]) /\ Spend("crash"))
  <1>0. /\ m_map \in [Minions -> [Keys -> Commands \cup {Garbage, Nobody}]]
        /\ tasks \in [Minions -> Seq(Request_t)]
    BY DEF TypeOK, MinionTypeOK
  <1>1. PICK n \in Minions : n = ChooseMinions(k)[leg]
    <2>1. k \in Nat
      BY CommandsAssumption DEF Keys
    <2>. QED
      BY <2>1, PlacedInRange DEF Legs
  <1>2. CASE UNCHANGED m_map
    BY <1>2 DEF Held
  <1>3. ASSUME NEW m \in Minions, Serve(m) PROVE Held(k, leg)'
    <2>1. PICK i \in 1..Len(tasks[m]) : m_map' = m_map \/ Store(m, tasks[m][i].m_offset)
      BY <1>3 DEF Serve, MinWriteCmd, MinReadCmd
    <2>2. CASE Store(m, tasks[m][i].m_offset)
      <3>1. m_map' = [m_map EXCEPT ![m][tasks[m][i].m_offset] = Garbage]
        BY <2>2 DEF Store
      <3>2. m_map'[n][k] = m_map[n][k] \/ m_map'[n][k] = Garbage
        BY <1>0, <3>1
      <3>. QED
        BY <1>1, <3>2, NobodyAssumption DEF Held
    <2>3. CASE m_map' = m_map
      BY <2>3 DEF Held
    <2>. QED
      BY <2>1, <2>2, <2>3
  <1>4. ASSUME NEW m \in Minions, Crash(m), m # n PROVE Held(k, leg)'
    BY <1>0, <1>1, <1>4 DEF Crash, Held
  <1>5. UNCHANGED m_map \/ \E m \in Minions : Serve(m) \/ (Crash(m) /\ Spend("crash"))
    BY DEF Next, MasterParse, MasterStep, MinionRead, ReadHeader, ReadBlock, MinionServe,
           MinionRestart, Restart, Lose, minionVars
  <1>. QED
    BY <1>1, <1>2, <1>3, <1>4, <1>5

\* The worker's step: a write that is answered is stored.
LEMMA ServeCopies ==
    ASSUME TypeOK, Alone, OneExchange, NEW m \in Minions, MinionServe(m)
    PROVE  (BothHeld => BothHeld') /\ (OneHeld => OneHeld')
  <1>0. /\ m_map \in [Minions -> [Keys -> Commands \cup {Garbage, Nobody}]]
        /\ rx \in [Addresses -> {Closed, Empty} \cup Reply_t]
        /\ UNCHANGED <<stage, image>> /\ Happened("crash")' = Happened("crash")
        /\ Serve(m) /\ Next
    BY DEF TypeOK, NetTypeOK, MinionTypeOK, MinionServe, masterVars, faultVars, Happened, Next
  <1>1. \A k \in Keys, leg \in Legs : Held(k, leg) => Held(k, leg)'
    <2>. SUFFICES ASSUME NEW k \in Keys, NEW leg \in Legs, Held(k, leg) PROVE Held(k, leg)'
      OBVIOUS
    <2>1. CASE Spend("crash")
      <3>1. /\ faults' = faults /\ faults' = [faults EXCEPT !["crash"] = @ - 1]
            /\ faults \in [{"lose", "error", "crash"} -> Nat]
        BY <2>1 DEF Spend, MinionServe, faultVars, TypeOK
      <3>2. faults["crash"] = faults["crash"] - 1 /\ faults["crash"] \in Nat
        BY <3>1
      <3>. QED
        BY <3>2
    <2>. QED
      BY <1>0, <2>1, HeldStays
  <1>2. PICK c \in Commands, e \in {"NONE", "BLOCK_NOT_FOUNED"} :
           /\ stage[c] \in {"leg1", "leg2"} /\ Target(Socket(c)) = m /\ Socket(c) \in Addresses
           /\ rx' = [rx EXCEPT ![Socket(c)] =
                       TranslateReply(TranslateRequest(Socket(c)), e, Garbage)]
           /\ Type[c] = "write" => Store(m, Key[c])
    BY <1>0, CommandsAssumption, ServesOwn
  <1>3. /\ LegOf(c) \in Legs /\ Key[c] \in Keys /\ Socket(c) = <<c, LegOf(c)>>
        /\ m = ChooseMinions(Key[c])[LegOf(c)]
        /\ \A d \in Commands, leg \in Legs : <<d, leg>> \in Addresses
    BY <1>2 DEF LegOf, Legs, Keys, Socket, Target, Addresses
  <1>4. ASSUME Type[c] = "write", NEW leg \in Legs, leg = LegOf(c) PROVE Held(Key[c], leg)'
    <2>1. m_map' = [m_map EXCEPT ![m][Key[c]] = Garbage]
      BY <1>2, <1>4 DEF Store
    <2>2. m_map'[m][Key[c]] = Garbage
      BY <1>0, <1>3, <2>1
    <2>. QED
      BY <1>3, <1>4, <2>2, NobodyAssumption DEF Held
  <1>5. ASSUME NEW d \in Commands, NEW leg \in Legs, HasDatagram(<<d, leg>>)'
        PROVE  HasDatagram(<<d, leg>>) \/ (d = c /\ leg = LegOf(c))
    <2>1. <<d, leg>> # Socket(c) => rx'[<<d, leg>>] = rx[<<d, leg>>]
      BY <1>0, <1>2, <1>3
    <2>. QED
      BY <1>3, <1>5, <2>1 DEF HasDatagram
  <1>6. ASSUME NEW k \in Keys, Acknowledged(k)'
        PROVE  \/ Acknowledged(k)
               \/ k = Key[c] /\ Type[c] = "write" /\ LegOf(c) = 2 /\ stage[c] = "leg2"
    BY <1>0, <1>2, <1>5, <1>6 DEF Acknowledged, LegOf, Legs
  <1>7. ASSUME NEW d \in Commands, FirstStored(d)'
        PROVE  FirstStored(d) \/ (d = c /\ Type[c] = "write" /\ LegOf(c) = 1)
    BY <1>0, <1>5, <1>7 DEF FirstStored, Legs
  <1>8. ASSUME BothHeld PROVE BothHeld'
    <2>. SUFFICES ASSUME Happened("crash") = 0
                  PROVE  /\ \A k \in Keys : Acknowledged(k)' => Held(k, 1)' /\ Held(k, 2)'
                         /\ \A d \in Commands : FirstStored(d)' => Held(Key[d], 1)'
      BY <1>0 DEF BothHeld
    <2>1. ASSUME NEW k \in Keys, Acknowledged(k)' PROVE Held(k, 1)' /\ Held(k, 2)'
      <3>1. CASE Acknowledged(k)
        BY <1>1, <1>8, <3>1 DEF BothHeld, Legs
      <3>2. CASE k = Key[c] /\ Type[c] = "write" /\ LegOf(c) = 2 /\ stage[c] = "leg2"
        <4>1. Held(k, 1)
          BY <1>8, <3>2 DEF BothHeld, FirstStored
        <4>2. Held(k, 2)'
          BY <1>4, <3>2 DEF Legs
        <4>. QED
          BY <1>1, <4>1, <4>2 DEF Legs
      <3>. QED
        BY <1>6, <2>1, <3>1, <3>2
    <2>2. ASSUME NEW d \in Commands, FirstStored(d)' PROVE Held(Key[d], 1)'
      <3>1. CASE FirstStored(d)
        <4>1. Held(Key[d], 1) /\ Key[d] \in Keys
          BY <1>8, <3>1 DEF BothHeld, Keys
        <4>. QED
          BY <1>1, <4>1 DEF Legs
      <3>2. CASE d = c /\ Type[c] = "write" /\ LegOf(c) = 1
        BY <1>4, <3>2 DEF Legs
      <3>. QED
        BY <1>7, <2>2, <3>1, <3>2
    <2>. QED
      BY <2>1, <2>2
  <1>9. ASSUME OneHeld PROVE OneHeld'
    <2>. SUFFICES ASSUME Happened("crash") = 1, NEW k \in Keys, Acknowledged(k)'
                  PROVE  Held(k, 1)' \/ Held(k, 2)'
      BY <1>0 DEF OneHeld
    <2>1. CASE Acknowledged(k)
      BY <1>1, <1>9, <2>1 DEF OneHeld, Legs
    <2>2. CASE k = Key[c] /\ Type[c] = "write" /\ LegOf(c) = 2
      BY <1>4, <2>2 DEF Legs
    <2>. QED
      BY <1>6, <2>1, <2>2
  <1>. QED
    BY <1>8, <1>9

\* Copies survive every step, but for those of a minion that crashes.
LEMMA BothHeldStep ==
    ASSUME TypeOK, Alone, InStep, Accounted, Spent, OneExchange, BothHeld, Next, Smooth'
    PROVE  BothHeld'
  <1>1. CASE \E m \in Minions : MinionServe(m)
    BY <1>1, ServeCopies
  <1>2. CASE \A m \in Minions : ~MinionServe(m)
    <2>. SUFFICES ASSUME Happened("crash")' = 0
                  PROVE  /\ \A k \in Keys : Acknowledged(k)' => Held(k, 1)' /\ Held(k, 2)'
                         /\ \A d \in Commands : FirstStored(d)' => Held(Key[d], 1)'
      BY DEF BothHeld
    <2>1. Happened("crash") = 0
      <3>1. /\ Happened("crash") \in Nat
            /\ Happened("crash")' = Happened("crash") \/ Happened("crash")' = Happened("crash") + 1
        BY SpentStep
      <3>. QED
        BY <3>1
    <2>2. ~Spend("crash")
      <3>. SUFFICES ASSUME Spend("crash") PROVE FALSE
        OBVIOUS
      <3>1. /\ faults \in [{"lose", "error", "crash"} -> Nat]
            /\ Faults \in [{"lose", "error", "crash"} -> Nat]
            /\ faults' = [faults EXCEPT !["crash"] = @ - 1]
            /\ Faults["crash"] - faults["crash"] = 0 /\ Faults["crash"] - faults'["crash"] = 0
        BY <2>1, FaultsAssumption DEF TypeOK, Spend, Happened
      <3>2. faults'["crash"] = faults["crash"] - 1
        BY <3>1
      <3>. QED
        BY <3>1, <3>2
    <2>3. \A k \in Keys, leg \in Legs : Held(k, leg) => Held(k, leg)'
      BY <2>2, HeldStays
    <2>4. \A d \in Commands : Key[d] \in Keys
      BY DEF Keys
    <2>. QED
      BY <1>2, <2>1, <2>3, <2>4, NothingNew DEF BothHeld, Legs
  <1>. QED
    BY <1>1, <1>2

\* One crash leaves one of two copies that are on different minions.
LEMMA OneHeldStep ==
    ASSUME NumMinions >= 2, TypeOK, Alone, InStep, Accounted, Spent, OneExchange,
           BothHeld, OneHeld, Next, Smooth'
    PROVE  OneHeld'
  <1>1. CASE \E m \in Minions : MinionServe(m)
    BY <1>1, ServeCopies
  <1>2. CASE \A m \in Minions : ~MinionServe(m)
    <2>. SUFFICES ASSUME Happened("crash")' = 1, NEW k \in Keys, Acknowledged(k)'
                  PROVE  Held(k, 1)' \/ Held(k, 2)'
      BY DEF OneHeld
    <2>1. Acknowledged(k)
      BY <1>2, NothingNew
    <2>2. CASE Spend("crash")
      <3>1. Happened("crash") = 0
        <4>1. /\ faults \in [{"lose", "error", "crash"} -> Nat]
              /\ Faults \in [{"lose", "error", "crash"} -> Nat]
              /\ faults' = [faults EXCEPT !["crash"] = @ - 1]
              /\ Faults["crash"] - faults'["crash"] = 1
          BY <2>2, FaultsAssumption DEF TypeOK, Spend, Happened
        <4>2. faults'["crash"] = faults["crash"] - 1
          BY <4>1
        <4>. QED
          BY <4>1, <4>2 DEF Happened
      <3>2. Held(k, 1) /\ Held(k, 2)
        BY <2>1, <3>1 DEF BothHeld
      <3>3. k \in Nat /\ ChooseMinions(k)[1] # ChooseMinions(k)[2]
        BY CommandsAssumption, CopiesApart DEF Keys
      <3>4. ~(Crash(ChooseMinions(k)[1]) /\ Crash(ChooseMinions(k)[2]))
        <4>. SUFFICES ASSUME Crash(ChooseMinions(k)[1]), Crash(ChooseMinions(k)[2]) PROVE FALSE
          OBVIOUS
        <4>1. /\ up' = up \ {ChooseMinions(k)[1]} /\ up' = up \ {ChooseMinions(k)[2]}
              /\ ChooseMinions(k)[1] \in up
          BY DEF Crash
        <4>. QED
          BY <3>3, <4>1
      <3>. QED
        BY <3>2, <3>4, HeldStays DEF Legs
    <2>3. CASE ~Spend("crash")
      <3>1. Happened("crash") = 1
        <4>1. faults' = faults \/ Spend("lose") \/ Spend("error")
          BY <2>3 DEF Next, MasterParse, MasterStep, MinionRead, MinionServe, MinionRestart, Lose,
                 faultVars
        <4>2. faults'["crash"] = faults["crash"]
          BY <4>1 DEF Spend, TypeOK
        <4>. QED
          BY <4>2 DEF Happened
      <3>2. Held(k, 1) \/ Held(k, 2)
        BY <2>1, <3>1 DEF OneHeld
      <3>. QED
        BY <2>3, <3>2, HeldStays DEF Legs
    <2>. QED
      BY <2>2, <2>3
  <1>. QED
    BY <1>1, <1>2

\* A reply waits only at the socket of the command that runs.
LEMMA DatagramRuns ==
    ASSUME OneExchange, NEW c \in Commands, NEW leg \in Legs, HasDatagram(<<c, leg>>)
    PROVE  c \in Running
  <1>1. <<c, leg>> \in Addresses /\ rx[<<c, leg>>] # Closed
    BY DEF Addresses, HasDatagram
  <1>2. PICK d \in InLeg : TRUE
    BY <1>1 DEF OneExchange, Resting
  <1>3. Socket(d) = <<c, leg>>
    BY <1>1, <1>2 DEF OneExchange, Busy
  <1>. QED
    BY <1>2, <1>3 DEF Socket, InLeg, Running

\* The block a read asks for is there when the minion looks for it, and no
\* write comes between its look and the end of the read.
LEMMA FoundStep ==
    ASSUME TypeOK, Alone, InStep, Accounted, Spent, OneExchange, BothHeld, Found, Next, Smooth'
    PROVE  Found'
  <1>0. /\ stage \in [Commands -> Stages]
        /\ rx \in [Addresses -> {Closed, Empty} \cup Reply_t]
        /\ rep \in [Commands -> Reply_t \cup {Empty}]
        /\ \A c \in Commands, leg \in Legs : <<c, leg>> \in Addresses
        /\ \A c \in Commands : Key[c] \in Keys
    BY DEF TypeOK, NetTypeOK, MasterTypeOK, Addresses, Keys
  <1>. SUFFICES ASSUME Happened("crash")' = 0 PROVE Found'
    BY DEF Found
  <1>1. Happened("crash") = 0
    <2>1. /\ Happened("crash") \in Nat
          /\ Happened("crash")' = Happened("crash") \/ Happened("crash")' = Happened("crash") + 1
      BY SpentStep
    <2>. QED
      BY <2>1
  <1>2. ASSUME UNCHANGED <<image, rep>>,
               \A d \in Commands : stage'[d] \in {"reply", "block"} => stage[d] \in {"reply", "block"},
               \A a \in Addresses : HasDatagram(a)' => rx'[a] = rx[a]
        PROVE  Found'
    BY <1>0, <1>1, <1>2 DEF Found, HasDatagram
  <1>3. ASSUME NEW d \in Commands, NEW t, Goto(d, t), UNCHANGED <<image, rep, rx>>,
               t \in {"reply", "block"} => stage[d] \in {"reply", "block"}
        PROVE  Found'
    <2>1. \A e \in Commands : stage'[e] \in {"reply", "block"} => stage[e] \in {"reply", "block"}
      BY <1>0, <1>3 DEF Goto
    <2>. QED
      BY <1>2, <1>3, <2>1
  <1>4. CASE MasterParse
    <2>1. /\ Head(nbd) \in Commands /\ Goto(Head(nbd), "queued") /\ UNCHANGED <<rx, image, rep>>
      BY <1>4 DEF MasterParse, ParseData, TypeOK, MasterTypeOK, netVars
    <2>. QED
      BY <1>3, <2>1
  <1>5. ASSUME NEW d \in Commands, KernelSend(d) PROVE Found'
    <2>1. Goto(d, "sent") /\ UNCHANGED <<rx, image, rep>>
      BY <1>5 DEF KernelSend, netVars
    <2>. QED
      BY <1>3, <2>1
  <1>6. ASSUME NEW d \in Commands, Start(d) PROVE Found'
    <2>1. /\ stage' = [stage EXCEPT ![d] = "leg1"] /\ UNCHANGED <<image, rep>>
          /\ rx' = [a \in Addresses |-> IF a = <<d, 1>> THEN Empty
                                        ELSE IF a[1] = d THEN Closed ELSE rx[a]]
      BY <1>6 DEF Start, Goto, OpenAndSend
    <2>2. \A e \in Commands : stage'[e] \in {"reply", "block"} => stage[e] \in {"reply", "block"}
      BY <1>0, <2>1
    <2>3. \A a \in Addresses : HasDatagram(a)' => rx'[a] = rx[a]
      BY <2>1 DEF HasDatagram
    <2>. QED
      BY <1>2, <2>1, <2>2, <2>3
  <1>7. ASSUME NEW d \in Commands, Received(d) PROVE Found'
    <2>1. /\ UNCHANGED image /\ HasDatagram(<<d, LegOf(d)>>) /\ LegOf(d) \in Legs
          /\ rep' = [rep EXCEPT ![d] = rx[<<d, LegOf(d)>>]]
      BY <1>7 DEF Received, DatagramFor, HasDatagram, LegOf, Legs
    <2>2. /\ \A a \in Addresses : HasDatagram(a)' => rx'[a] = rx[a]
          /\ \A e \in Commands \ {d} : stage'[e] = stage[e]
      BY <1>0, <1>7 DEF Received, Goto, OpenAndSend, CloseSockets, HasDatagram
    <2>3. ASSUME NEW c \in Commands, Type[c] = "read", image[Key[c]] # Unwritten
          PROVE  /\ stage'[c] \in {"reply", "block"} => rep'[c].m_error = "NONE"
                 /\ \A leg \in Legs : HasDatagram(<<c, leg>>)' => rx'[<<c, leg>>].m_error = "NONE"
      <3>1. \A leg \in Legs : HasDatagram(<<c, leg>>) => rx[<<c, leg>>].m_error = "NONE"
        BY <1>1, <2>3 DEF Found
      <3>2. \A leg \in Legs : HasDatagram(<<c, leg>>)' => rx'[<<c, leg>>].m_error = "NONE"
        BY <1>0, <2>2, <3>1 DEF HasDatagram
      <3>3. CASE c = d
        BY <1>0, <2>1, <3>1, <3>2, <3>3
      <3>4. CASE c # d
        <4>1. rep'[c] = rep[c] /\ stage'[c] = stage[c]
          BY <1>0, <2>1, <2>2, <3>4
        <4>. QED
          BY <1>1, <2>3, <3>2, <4>1 DEF Found
      <3>. QED
        BY <3>3, <3>4
    <2>. QED
      BY <2>1, <2>3 DEF Found
  <1>8. ASSUME UNCHANGED <<stage, image, rep>>,
               \A a \in Addresses : HasDatagram(a)' => rx'[a] = rx[a]
        PROVE  Found'
    BY <1>2, <1>8
  <1>9. ASSUME NEW d \in Commands, TimedOut(d) PROVE Found'
    BY <1>8, <1>9 DEF TimedOut, masterVars
  <1>10. ASSUME NEW d \in Commands, WriteReply(d) PROVE Found'
    <2>1. UNCHANGED <<rx, rep>> /\ stage[d] = "reply"
      BY <1>10 DEF WriteReply, WriteFails, netVars
    <2>2. CASE Type[d] = "read" /\ Goto(d, "block") /\ UNCHANGED <<answer, image>>
      BY <1>3, <2>1, <2>2
    <2>3. CASE Type[d] = "write" /\ Goto(d, "done")
      <3>1. ASSUME NEW c \in Commands, Type[c] = "read"
            PROVE  /\ stage'[c] \notin {"reply", "block"}
                   /\ \A leg \in Legs : ~HasDatagram(<<c, leg>>)'
        <4>1. c # d /\ c \notin Running
          BY <2>1, <2>3, <3>1 DEF Alone, Running
        <4>2. stage'[c] = stage[c]
          BY <1>0, <2>3, <4>1 DEF Goto
        <4>3. \A leg \in Legs : ~HasDatagram(<<c, leg>>)
          BY <4>1, DatagramRuns
        <4>. QED
          BY <2>1, <4>1, <4>2, <4>3 DEF Running, HasDatagram
      <3>. QED
        BY <3>1 DEF Found
    <2>. QED
      BY <1>10, <2>2, <2>3, WritesInStep
  <1>11. ASSUME NEW d \in Commands, WriteBlock(d) PROVE Found'
    <2>1. UNCHANGED <<rx, rep>>
      BY <1>11 DEF WriteBlock, WriteFails, netVars
    <2>2. Goto(d, "done") /\ UNCHANGED image
      BY <1>11, WritesInStep DEF InStep, Answered
    <2>. QED
      BY <1>3, <2>1, <2>2
  <1>12. ~Spend("error")
    BY NoError
  <1>13. ASSUME NEW m \in Minions,
                \/ MinionRead(m) \/ MinionRestart(m)
                \/ Crash(m) /\ UNCHANGED masterVars
         PROVE  Found'
    <2>1. UNCHANGED <<stage, image, rep, rx>>
      BY <1>13 DEF MinionRead, ReadHeader, ReadBlock, MinionRestart, Restart, Crash, masterVars
    <2>. QED
      BY <1>8, <2>1
  <1>14. CASE Lose
    <2>1. UNCHANGED <<stage, image, rep>>
      BY <1>14 DEF Lose, masterVars
    <2>2. rx' = rx \/ \E b \in Addresses : rx' = [rx EXCEPT ![b] = Empty]
      BY <1>14 DEF Lose
    <2>3. \A a \in Addresses : HasDatagram(a)' => rx'[a] = rx[a]
      BY <1>0, <2>2 DEF HasDatagram
    <2>. QED
      BY <1>8, <2>1, <2>3
  <1>15. ASSUME NEW m \in Minions, MinionServe(m) PROVE Found'
    <2>0. UNCHANGED <<stage, image, rep>> /\ Serve(m)
      BY <1>15 DEF MinionServe, masterVars
    <2>1. PICK d \in Commands, e \in {"NONE", "BLOCK_NOT_FOUNED"} :
             /\ Target(Socket(d)) = m /\ Socket(d) \in Addresses
             /\ rx' = [rx EXCEPT ![Socket(d)] =
                         TranslateReply(TranslateRequest(Socket(d)), e, Garbage)]
             /\ Type[d] = "read" => e = LoadError(m, Key[d])
      BY <2>0, CommandsAssumption, ServesOwn
    <2>2. ASSUME NEW c \in Commands, Type[c] = "read", image[Key[c]] # Unwritten,
                 NEW leg \in Legs, HasDatagram(<<c, leg>>)'
          PROVE  rx'[<<c, leg>>].m_error = "NONE"
      <3>1. CASE <<c, leg>> # Socket(d)
        <4>1. rx'[<<c, leg>>] = rx[<<c, leg>>]
          BY <1>0, <2>1, <3>1
        <4>. QED
          BY <1>1, <2>2, <4>1 DEF Found, HasDatagram
      <3>2. CASE <<c, leg>> = Socket(d)
        <4>1. c = d /\ m = ChooseMinions(Key[c])[leg]
          BY <2>1, <3>2 DEF Socket, Target
        <4>2. Acknowledged(Key[c]) /\ Key[c] \in Keys
          BY <1>0, <2>2 DEF Acknowledged
        <4>3. Held(Key[c], leg)
          BY <1>1, <4>2 DEF BothHeld, Legs
        <4>4. e = "NONE"
          BY <2>1, <2>2, <4>1, <4>3 DEF Held, LoadError
        <4>5. rx'[<<c, leg>>] = TranslateReply(TranslateRequest(Socket(d)), e, Garbage)
          BY <1>0, <2>1, <3>2
        <4>. QED
          BY <4>4, <4>5 DEF TranslateReply
      <3>. QED
        BY <3>1, <3>2
    <2>3. ASSUME NEW c \in Commands, Type[c] = "read", image[Key[c]] # Unwritten,
                 stage[c] \in {"reply", "block"}
          PROVE  rep[c].m_error = "NONE"
      BY <1>1, <2>3 DEF Found
    <2>. QED
      BY <2>0, <2>2, <2>3 DEF Found
  <1>. QED
    BY <1>4, <1>5, <1>6, <1>7, <1>9, <1>10, <1>11, <1>12, <1>13, <1>14, <1>15
    DEF Next, MasterStep

\* The inductive invariant while everything is in time.
InTime == Smooth => OneExchange /\ BothHeld /\ Found

\* InTime holds in the initial states, where nothing is open, under way or
\* acknowledged.
LEMMA InTimeInit == Init => Spent /\ InTime /\ OneHeld
  <1>. SUFFICES ASSUME Init PROVE Spent /\ InTime /\ OneHeld
    OBVIOUS
  <1>1. /\ stage = [c \in Commands |-> "new"] /\ rx = [a \in Addresses |-> Closed]
        /\ image = [k \in Keys |-> Unwritten] /\ faults = Faults
        /\ inbox = [m \in Minions |-> <<>>] /\ tasks = [m \in Minions |-> <<>>]
        /\ header = [m \in Minions |-> Nobody]
        /\ \A c \in Commands, leg \in Legs : <<c, leg>> \in Addresses
    BY DEF Init, NetInit, MinionInit, MasterInit, Addresses
  <1>2. Spent
    BY <1>1, FaultsAssumption DEF Spent
  <1>3. OneExchange
    <2>1. InLeg = {} /\ Resting
      BY <1>1 DEF InLeg, Resting, Quiet
    <2>. QED
      BY <2>1 DEF OneExchange
  <1>4. /\ \A k \in Keys : ~Acknowledged(k)
        /\ \A c \in Commands : ~FirstStored(c)
    BY <1>1 DEF Acknowledged, FirstStored
  <1>5. Found
    BY <1>1 DEF Found, Keys
  <1>. QED
    BY <1>2, <1>3, <1>4, <1>5 DEF InTime, BothHeld, OneHeld

\* The exchange and the copies depend on these variables only.
LEMMA InTimeStutter ==
    ASSUME UNCHANGED vars
    PROVE  (InTime => InTime') /\ (OneHeld => OneHeld')
  <1>1. /\ UNCHANGED <<stage, rx, image, faults, inbox, tasks, header, client, m_map, rep, late>>
    BY DEF vars, netVars, minionVars, masterVars, faultVars
  <1>2. /\ Smooth' = Smooth /\ Happened("crash")' = Happened("crash")
        /\ \A k : Acknowledged(k)' <=> Acknowledged(k)
        /\ \A c : FirstStored(c)' <=> FirstStored(c)
        /\ \A k, leg : Held(k, leg)' <=> Held(k, leg)
    BY <1>1 DEF Smooth, Happened, Acknowledged, FirstStored, Held, HasDatagram
  <1>3. OneExchange => OneExchange'
    BY <1>1, ExchangeUntouched DEF vars, InLeg
  <1>4. Found => Found'
    BY <1>1, <1>2 DEF Found, HasDatagram
  <1>. QED
    BY <1>2, <1>3, <1>4 DEF InTime, BothHeld, OneHeld

\* InTime holds in every state.
LEMMA AlwaysInTime == ASSUME NumWorkers = 1 PROVE SafeSpec => [](Spent /\ InTime)
  <1>1. /\ TypeOK /\ InStep /\ Accounted /\ Spent /\ InTime /\ [Next]_vars
        => Spent' /\ InTime'
    <2>. SUFFICES ASSUME TypeOK, InStep, Accounted, Spent, InTime, [Next]_vars
                  PROVE  Spent' /\ InTime'
      OBVIOUS
    <2>1. Alone /\ Spent' /\ (Smooth' => Smooth)
      BY OneRuns, SpentStep
    <2>2. CASE UNCHANGED vars
      BY <2>1, <2>2, InTimeStutter
    <2>3. CASE Next
      BY <2>1, <2>3, ExchangeStep, BothHeldStep, FoundStep DEF InTime
    <2>. QED
      BY <2>2, <2>3
  <1>. QED
    BY <1>1, InTimeInit, TypeCorrect, StreamHolds, PTL DEF SafeSpec

\* With one worker every reply answers the request it is taken for, through
\* losses, retries and crashes, though the code never compares ids.
THEOREM RepliesAreOwn == ASSUME NumWorkers = 1 PROVE SafeSpec => []OwnReply
  <1>1. TypeOK /\ InTime => OwnReply
    <2>. SUFFICES ASSUME TypeOK, OneExchange, NEW a \in Addresses, rx[a] \notin {Closed, Empty}
                  PROVE  rx[a].m_id = a[1]
      BY DEF InTime, OwnReply
    <2>1. PICK c \in InLeg : TRUE
      BY DEF OneExchange, Resting
    <2>2. Busy(Socket(c))
      BY <2>1 DEF OneExchange
    <2>3. a = Socket(c)
      BY <2>2 DEF Busy
    <2>. QED
      BY <2>2, <2>3 DEF Busy, Exchange
  <1>. QED
    BY <1>1, TypeCorrect, AlwaysInTime, PTL

\* With one worker a read of a block the kernel has written is never told
\* that there is no such block, as long as no minion crashes.
THEOREM WrittenBlocksAreFound == ASSUME NumWorkers = 1 PROVE SafeSpec => []WrittenBlockFound
  <1>1. InTime => WrittenBlockFound
    BY DEF InTime, Found, WrittenBlockFound
  <1>. QED
    BY <1>1, AlwaysInTime, PTL

\* With one worker and two minions or more, a block the kernel knows to be
\* written has both its copies, and one of them after a crash.
THEOREM CopiesAreKept ==
    ASSUME NumWorkers = 1, NumMinions >= 2
    PROVE  SafeSpec => []Replicated
  <1>1. /\ TypeOK /\ InStep /\ Accounted /\ Spent /\ InTime /\ (Smooth => OneHeld) /\ [Next]_vars
        => (Smooth => OneHeld)'
    <2>. SUFFICES ASSUME TypeOK, InStep, Accounted, Spent, InTime, Smooth => OneHeld,
                         [Next]_vars, Smooth'
                  PROVE  OneHeld'
      OBVIOUS
    <2>1. Alone /\ Smooth
      BY OneRuns, SpentStep
    <2>2. CASE UNCHANGED vars
      BY <2>1, <2>2, InTimeStutter
    <2>3. CASE Next
      BY <2>1, <2>3, OneHeldStep DEF InTime
    <2>. QED
      BY <2>2, <2>3
  <1>2. Init => (Smooth => OneHeld)
    BY InTimeInit
  <1>3. TypeOK /\ Spent /\ InTime /\ (Smooth => OneHeld) => Replicated
    <2>. SUFFICES ASSUME TypeOK, Spent, BothHeld, OneHeld, Happened("crash") <= 1,
                         NEW k \in Keys, image[k] # Unwritten
                  PROVE  Cardinality({leg \in Legs : Held(k, leg)}) >= 2 - Happened("crash")
      BY DEF InTime, Replicated, Held
    <2>1. Acknowledged(k)
      BY DEF Acknowledged
    <2>2. Happened("crash") \in Nat
      BY FaultsAssumption DEF TypeOK, Spent, Happened
    <2>3. CASE Happened("crash") = 0
      <3>1. {leg \in Legs : Held(k, leg)} = {1} \cup {2}
        BY <2>1, <2>3 DEF BothHeld, Legs
      <3>2. Cardinality({1} \cup {2}) = 2
        <4>1. IsFiniteSet({1}) /\ Cardinality({1}) = 1 /\ 2 \notin {1}
          BY FS_Singleton
        <4>2. Cardinality({1} \cup {2}) = 1 + 1
          BY <4>1, FS_AddElement
        <4>. QED
          BY <4>2
      <3>. QED
        BY <2>3, <3>1, <3>2
    <2>4. CASE Happened("crash") = 1
      <3>1. {leg \in Legs : Held(k, leg)} # {} /\ {leg \in Legs : Held(k, leg)} \subseteq {1} \cup {2}
        BY <2>1, <2>4 DEF OneHeld, Legs
      <3>2. IsFiniteSet({1} \cup {2})
        BY FS_Singleton, FS_AddElement
      <3>. DEFINE L == {leg \in Legs : Held(k, leg)}
      <3>. HIDE DEF L
      <3>3. L # {} /\ IsFiniteSet(L)
        BY <3>1, <3>2, FS_Subset DEF L
      <3>4. Cardinality(L) \in Nat /\ Cardinality(L) # 0
        BY <3>3, FS_CardinalityType, FS_EmptySet
      <3>. QED
        BY <2>4, <3>4 DEF L
    <2>. QED
      BY <2>2, <2>3, <2>4
  <1>. QED
    BY <1>1, <1>2, <1>3, TypeCorrect, StreamHolds, AlwaysInTime, PTL DEF SafeSpec
=============================================================================
