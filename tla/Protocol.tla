------------------------------ MODULE Protocol ------------------------------
(***************************************************************************)
(* What the master and the minions say to each other, and the sockets they *)
(* say it through: Request_t and Reply_t, ProtocolTranslator,              *)
(* ClientUDPSocket and ServerUDPSocket over the loopback interface.        *)
(*                                                                         *)
(* A command talks to one minion at a time, each time through a socket of  *)
(* its own.  The socket of command c for its first or second minion has    *)
(* the address <<c, leg>>, leg being 1 or 2; it dies when the command      *)
(* leaves CommunicateMinion.                                               *)
(*                                                                         *)
(* Blocks: command c, when it is a write, writes the block named c.        *)
(***************************************************************************)
EXTENDS Raid, Sequences, FiniteSets

CONSTANTS Commands,     \* the requests the kernel sends, by NBD handle
          Type,         \* Type[c]: NBD_CMD_READ or NBD_CMD_WRITE
          Key,          \* Key[c]: the byte offset the request is for
          InboxCap,     \* bound: datagrams in a minion's receive buffer
          Garbage,      \* the contents of a buffer nobody filled
          Closed,       \* no socket at that address
          Empty         \* a socket with no datagram to read

ASSUME CommandsAssumption ==
    /\ IsFiniteSet(Commands)
    /\ Type \in [Commands -> {"read", "write"}]
    /\ Key \in [Commands -> Nat]
ASSUME InboxAssumption == InboxCap \in Nat \ {0}

Keys == {Key[c] : c \in Commands}
Legs == {1, 2}
Addresses == Commands \X Legs

\* Mutant: counts the legs from the minion after the first.
TargetOffByOne(a) == (ChooseMinions(Key[a[1]])[1] + a[2]) % NumMinions

\* The minion a command talks to through a socket.
Target(a) == ChooseMinions(Key[a[1]])[a[2]]

Request_t == [from : Addresses, m_id : Commands, m_type : {"read", "write"},
              m_offset : Keys]

Reply_t == [m_id : Commands, m_type : {"read", "write"},
            m_error : {"NONE", "BLOCK_NOT_FOUNED"}, m_block : Commands \cup {Garbage}]

ASSUME MarksAssumption ==
    /\ Garbage \notin Commands /\ Closed # Empty
    /\ \A mark \in {Closed, Empty} : mark \notin Reply_t \cup Commands \cup {Garbage}

VARIABLES up,           \* minions whose process runs and has bound its port
          inbox,        \* inbox[m]: datagrams in m's receive buffer
          rx            \* rx[a]: Closed, Empty, or the reply waiting at a

netVars == <<up, inbox, rx>>

NetTypeOK ==
    /\ up \subseteq Minions
    /\ inbox \in [Minions -> Seq(Request_t)]
    /\ rx \in [Addresses -> {Closed, Empty} \cup Reply_t]

NetInit ==
    /\ up = Minions
    /\ inbox = [m \in Minions |-> <<>>]
    /\ rx = [a \in Addresses |-> Closed]

\* Mutant: one socket serves both legs.
TranslateOneSocket(a) ==
    [from |-> <<a[1], 1>>, m_id |-> a[1], m_type |-> Type[a[1]], m_offset |-> Key[a[1]]]

\* Only the header goes out (offsetof(Request_t, m_block) bytes), for a
\* write too; the address of the socket stands for its source.  The id is
\* the value of TranslateRequest's counter, here the command's own name.
TranslateRequest(a) ==
    [from |-> a, m_id |-> a[1], m_type |-> Type[a[1]], m_offset |-> Key[a[1]]]

TranslateReply(req, error, block) ==
    [m_id |-> req.m_id, m_type |-> req.m_type, m_error |-> error, m_block |-> block]

\* The receive buffers after sendto from the socket at a: a datagram to a
\* port nobody has bound, or to a full buffer, is lost.
AfterSend(a) ==
    LET m == Target(a)
    IN  IF m \in up /\ Len(inbox[m]) < InboxCap
        THEN [inbox EXCEPT ![m] = Append(@, TranslateRequest(a))]
        ELSE inbox

\* The sockets after sendto to the address a: lost if the socket is gone.
\* A socket is read once, so of two replies only the first is of interest.
AfterReply(a, rep) ==
    IF rx[a] = Empty THEN [rx EXCEPT ![a] = rep] ELSE rx
=============================================================================
