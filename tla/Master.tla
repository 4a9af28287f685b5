------------------------------- MODULE Master -------------------------------
(***************************************************************************)
(* The master process, from the NBD socket to the minions and back:        *)
(* NbdProxy on the reactor's thread, ReadCmd and WriteCmd on the pool's    *)
(* workers, Master::Reply under its mutex; and the kernel's end of the NBD *)
(* socket.                                                                 *)
(*                                                                         *)
(* A command goes through these stages:                                    *)
(*   "new"      the kernel has not sent it                                 *)
(*   "sent"     in the NBD socket                                          *)
(*   "queued"   parsed, a task of the pool                                 *)
(*   "leg1"     a worker is in CommunicateMinion with its first minion     *)
(*   "leg2"     ... with its second minion                                 *)
(*   "reply"    about to write the nbd_reply                               *)
(*   "block"    (a read) about to write the block that follows it          *)
(*   "done"     returned after its last write                              *)
(*   "failed"   (a read) returned without a reply                          *)
(***************************************************************************)
EXTENDS Protocol

CONSTANTS NumWorkers,   \* the pool's threads
          Unwritten     \* a block of the disk that was never written

ASSUME NumWorkersAssumption == NumWorkers \in Nat \ {0}
ASSUME UnwrittenAssumption == Unwritten \notin Commands

VARIABLES stage,        \* stage[c]
          nbd,          \* requests in the NBD socket, in order
          rep,          \* rep[c]: the Reply_t on the command's stack
          kernel,       \* the kernel's reply parser: what it expects next
          answer,       \* answer[c]: what the kernel took for c's reply
          image,        \* image[k]: the block the kernel knows to be at k
          aborted       \* an assert of write_all has failed

masterVars == <<stage, nbd, rep, kernel, answer, image, aborted>>

Stages == {"new", "sent", "queued", "leg1", "leg2", "reply", "block", "done", "failed"}

Running == {c \in Commands : stage[c] \in {"leg1", "leg2", "reply", "block"}}
InFlight == {c \in Commands : stage[c] # "new" /\ answer[c] = Empty}

\* The kernel expects a reply header, or the block of a read that started
\* at its header, or it has given the socket up.
Header == [expects |-> "header"]
BlockOf(c, clean) == [expects |-> "block", of |-> c, clean |-> clean]
Dead == [expects |-> "nothing"]

ParserStates ==
    {Header, Dead} \cup [expects : {"block"}, of : Commands, clean : BOOLEAN]

Data == Commands \cup {Garbage}

\* A read that answers the kernel has a reply to answer with.
HasReply(c) ==
    (Type[c] = "read" /\ stage[c] = "reply") \/ stage[c] = "block" => rep[c] # Empty

MasterTypeOK ==
    /\ stage \in [Commands -> Stages]
    /\ nbd \in Seq(Commands)
    /\ rep \in [Commands -> Reply_t \cup {Empty}]
    /\ kernel \in ParserStates
    /\ answer \in [Commands -> {Empty} \cup Data]
    /\ image \in [Keys -> Commands \cup {Unwritten}]
    /\ aborted \in BOOLEAN
    /\ Cardinality(Running) <= NumWorkers
    /\ \A c \in Commands : HasReply(c)

MasterInit ==
    /\ stage = [c \in Commands |-> "new"]
    /\ nbd = <<>>
    /\ rep = [c \in Commands |-> Empty]
    /\ kernel = Header
    /\ answer = [c \in Commands |-> Empty]
    /\ image = [k \in Keys |-> Unwritten]
    /\ aborted = FALSE

Goto(c, s) == stage' = [stage EXCEPT ![c] = s]

-----------------------------------------------------------------------------

\* The kernel sends a request.  It does not start a write of a block while
\* another request for that block is out, nor a request during a write.
KernelSend(c) ==
    /\ stage[c] = "new"
    /\ kernel # Dead
    /\ \A d \in InFlight :
          Key[d] = Key[c] => Type[c] = "read" /\ Type[d] = "read"
    /\ Goto(c, "sent")
    /\ nbd' = Append(nbd, c)
    /\ UNCHANGED <<netVars, rep, kernel, answer, image, aborted>>

\* The reactor calls ParseData, which reads one request and a write's block
\* with it, and the mediator adds the task to the pool.
ParseData ==
    /\ ~aborted
    /\ nbd # <<>>
    /\ nbd' = Tail(nbd)
    /\ Goto(Head(nbd), "queued")
    /\ UNCHANGED <<netVars, rep, kernel, answer, image, aborted>>

\* CommunicateMinion opens a socket for the leg and sends the request; the
\* socket of the leg before is gone.
OpenAndSend(c, leg) ==
    /\ rx' = [a \in Addresses |-> IF a = <<c, leg>> THEN Empty
                                  ELSE IF a[1] = c THEN Closed ELSE rx[a]]
    /\ inbox' = AfterSend(<<c, leg>>)
    /\ UNCHANGED up

CloseSockets(c) ==
    /\ rx' = [a \in Addresses |-> IF a[1] = c THEN Closed ELSE rx[a]]
    /\ UNCHANGED <<up, inbox>>

LegOf(c) == IF stage[c] = "leg1" THEN 1 ELSE 2

\* A free worker takes any task of the pool and enters the first leg.
Start(c) ==
    /\ ~aborted
    /\ stage[c] = "queued"
    /\ Cardinality(Running) < NumWorkers
    /\ Goto(c, "leg1")
    /\ OpenAndSend(c, 1)
    /\ UNCHANGED <<nbd, rep, kernel, answer, image, aborted>>

\* ClientUDPSocket::Receive finds a datagram before its timeout.
DatagramFor(c) == rx[<<c, LegOf(c)>>] \notin {Closed, Empty}

\* Mutant: a write is content with its first minion.
ReceivedOneLeg(c) ==
    /\ ~aborted
    /\ stage[c] \in {"leg1", "leg2"}
    /\ DatagramFor(c)
    /\ rep' = [rep EXCEPT ![c] = rx[<<c, LegOf(c)>>]]
    /\ Goto(c, "reply")
    /\ CloseSockets(c)
    /\ UNCHANGED <<nbd, kernel, answer, image, aborted>>

\* Receive returned true: CommunicateMinion returns whatever arrived.  A
\* read has its reply, a write goes on to its second minion.
Received(c) ==
    /\ ~aborted
    /\ stage[c] \in {"leg1", "leg2"}
    /\ DatagramFor(c)
    /\ rep' = [rep EXCEPT ![c] = rx[<<c, LegOf(c)>>]]
    /\ IF Type[c] = "write" /\ stage[c] = "leg1"
       THEN Goto(c, "leg2") /\ OpenAndSend(c, 2)
       ELSE Goto(c, "reply") /\ CloseSockets(c)
    /\ UNCHANGED <<nbd, kernel, answer, image, aborted>>

\* Mutant: wait again, without sending once more.
TimedOutNoResend(c) ==
    /\ ~aborted
    /\ stage[c] \in {"leg1", "leg2"}
    /\ rx[<<c, LegOf(c)>>] = Empty
    /\ UNCHANGED <<netVars, masterVars>>

\* Mutant: a retry sends two datagrams, header and block apart.
TimedOutTwoDatagrams(c) ==
    /\ ~aborted
    /\ stage[c] \in {"leg1", "leg2"}
    /\ rx[<<c, LegOf(c)>>] = Empty
    /\ LET a == <<c, LegOf(c)>>
       IN  inbox' = [inbox EXCEPT ![Target(a)] =
                       @ \o <<TranslateRequest(a), TranslateRequest(a)>>]
    /\ UNCHANGED <<up, rx, masterVars>>

\* Receive returned false with EAGAIN, after four seconds: send once more
\* and wait again, without end.
TimedOut(c) ==
    /\ ~aborted
    /\ stage[c] \in {"leg1", "leg2"}
    /\ rx[<<c, LegOf(c)>>] = Empty
    /\ inbox' = AfterSend(<<c, LegOf(c)>>)
    /\ UNCHANGED <<up, rx, masterVars>>

\* Mutant: a failed leg is taken for a good one.
ReceiveFailedUnnoticed(c) ==
    /\ ~aborted
    /\ stage[c] \in {"leg1", "leg2"}
    /\ Goto(c, "reply")
    /\ CloseSockets(c)
    /\ UNCHANGED <<nbd, rep, kernel, answer, image, aborted>>

\* Receive returned false with any other error: the leg has failed.  A read
\* tries its second minion and then gives up without a word to the kernel;
\* a write takes no notice.
ReceiveFailed(c) ==
    /\ ~aborted
    /\ stage[c] \in {"leg1", "leg2"}
    /\ \/ stage[c] = "leg1" /\ Goto(c, "leg2") /\ OpenAndSend(c, 2)
       \/ /\ stage[c] = "leg2"
          /\ Goto(c, IF Type[c] = "write" THEN "reply" ELSE "failed")
          /\ CloseSockets(c)
    /\ UNCHANGED <<nbd, rep, kernel, answer, image, aborted>>

\* The kernel has c's reply, with the block data if c is a read.
Answered(c, data) ==
    /\ answer' = [answer EXCEPT ![c] = data]
    /\ image' = IF Type[c] = "write" THEN [image EXCEPT ![Key[c]] = c] ELSE image

\* write_all on a socket the kernel has shut down: the assert fails.
WriteFails(c) ==
    /\ kernel = Dead
    /\ aborted' = TRUE
    /\ UNCHANGED <<netVars, stage, nbd, rep, kernel, answer, image>>

\* Master::Reply writes the nbd_reply of c under the mutex, and lets go of
\* the mutex.  In the middle of a block the kernel takes it for data.
WriteReply(c) ==
    /\ ~aborted
    /\ stage[c] = "reply"
    /\ \/ WriteFails(c)
       \/ /\ kernel # Dead
          /\ Goto(c, IF Type[c] = "read" THEN "block" ELSE "done")
          /\ \/ /\ kernel = Header
                /\ Type[c] = "read"
                /\ kernel' = BlockOf(c, TRUE)
                /\ UNCHANGED <<answer, image>>
             \/ /\ kernel = Header
                /\ Type[c] = "write"
                /\ Answered(c, c)
                /\ UNCHANGED kernel
             \/ /\ kernel.expects = "block"
                /\ kernel' = BlockOf(kernel.of, FALSE)
                /\ UNCHANGED <<answer, image>>
          /\ UNCHANGED <<netVars, nbd, rep, aborted>>

\* The second Master::Reply of a read writes the block.  If the kernel was
\* given another header first, the block it was filling ends in the middle
\* of this one, the rest is taken for a header with a wrong magic, and the
\* kernel shuts the socket down.
WriteBlock(c) ==
    /\ ~aborted
    /\ stage[c] = "block"
    /\ \/ WriteFails(c)
       \/ /\ kernel # Dead
          /\ Goto(c, "done")
          /\ \/ /\ kernel = BlockOf(c, TRUE)
                /\ Answered(c, rep[c].m_block)
                /\ kernel' = Header
             \/ /\ kernel.expects = "block" /\ kernel # BlockOf(c, TRUE)
                /\ Answered(kernel.of, Garbage)
                /\ kernel' = Dead
          /\ UNCHANGED <<netVars, nbd, rep, aborted>>
=============================================================================
