------------------------------- MODULE Logger -------------------------------
(***************************************************************************)
(* Logger: Log puts a message into m_message_q, a WaitableQueue; the       *)
(* logging thread takes it out and writes it to the file.  The queue is    *)
(* the pipe of module QueueService.  GetLoggerPath returns a path whose    *)
(* string is gone: where the file of m_log_fd is, and whether it could be  *)
(* opened, has no effect on the program, and is left open here.            *)
(***************************************************************************)
EXTENDS Naturals, Sequences

NONE == 0
ERROR == 1
INFORMATION == 3
DEBUG == 4

VARIABLES m_message_q,      \* messages pushed and not popped
          m_current_level,
          m_stop_flag,
          writer,           \* where ThreadLogger is
          file,             \* the lines given to m_log_fd
          logged            \* ghost: the messages that passed the level, in order

loggerVars == <<m_message_q, m_current_level, m_stop_flag, writer, file, logged>>

\* The string that ThreadLogger starts with.
EmptyLine == ""

Lines(messages) == messages \cup {EmptyLine, "stop"}

LoggerTypeOK(messages) ==
    /\ m_message_q \in Seq(Lines(messages))
    /\ m_current_level \in NONE..DEBUG
    /\ m_stop_flag \in BOOLEAN
    /\ writer \in {"none", "start", "pop", "ended"}
    /\ file \in Seq(Lines(messages))
    /\ logged \in Seq(messages)

LoggerInit ==
    /\ m_message_q = <<>>
    /\ m_current_level = DEBUG
    /\ m_stop_flag = FALSE
    /\ writer = "none"
    /\ file = <<>>
    /\ logged = <<>>

\* The process is started again; opening the log file empties it.
LoggerReset ==
    /\ m_message_q' = <<>>
    /\ m_current_level' = DEBUG
    /\ m_stop_flag' = FALSE
    /\ writer' = "none"
    /\ file' = <<>>
    /\ logged' = <<>>

\* The end of the constructor: the file is open, the thread is started.
StartLogger ==
    /\ writer' = "start"
    /\ UNCHANGED <<m_message_q, m_current_level, m_stop_flag, file, logged>>

\* Mutant: one level too many.
SetLevelOffByOne(level) ==
    /\ m_current_level' = level + 1
    /\ UNCHANGED <<m_message_q, m_stop_flag, writer, file, logged>>

SetLevel(level) ==
    /\ m_current_level' = level
    /\ UNCHANGED <<m_message_q, m_stop_flag, writer, file, logged>>

Log(level, message) ==
    /\ IF m_current_level >= level
       THEN /\ m_message_q' = Append(m_message_q, message)
            /\ logged' = Append(logged, message)
       ELSE UNCHANGED <<m_message_q, logged>>
    /\ UNCHANGED <<m_current_level, m_stop_flag, writer, file>>

\* Mutant: the line is held back until the next one comes.
WriteHeldBack(line) ==
    /\ writer' = IF m_stop_flag THEN "ended" ELSE "pop"
    /\ file' = IF m_stop_flag \/ m_message_q # <<>> THEN file ELSE Append(file, line)

\* Mutant: the thread ends when it finds the queue empty.
WriteUntilEmpty(line) ==
    /\ writer' = IF m_stop_flag \/ m_message_q = <<>> THEN "ended" ELSE "pop"
    /\ file' = IF m_stop_flag THEN file ELSE Append(file, line)

\* The head of ThreadLogger's loop: leave it if the flag is set, or write.
Write(line) ==
    /\ writer' = IF m_stop_flag THEN "ended" ELSE "pop"
    /\ file' = IF m_stop_flag THEN file ELSE Append(file, line)

\* The first time round there is nothing to write yet but an empty line.
FirstLine ==
    /\ writer = "start"
    /\ Write(EmptyLine)
    /\ UNCHANGED <<m_message_q, m_current_level, m_stop_flag, logged>>

\* Pop returns a message, and the loop comes round.  Nobody sees the thread
\* between the two.
NextLine ==
    /\ writer = "pop"
    /\ m_message_q # <<>>
    /\ Write(Head(m_message_q))
    /\ m_message_q' = Tail(m_message_q)
    /\ UNCHANGED <<m_current_level, m_stop_flag, logged>>

ThreadLogger == FirstLine \/ NextLine

\* The destructor: the flag, a message to wake the thread up, the join.
StopFlag ==
    /\ m_stop_flag' = TRUE
    /\ UNCHANGED <<m_message_q, m_current_level, writer, file, logged>>

PushStop ==
    /\ m_message_q' = Append(m_message_q, "stop")
    /\ UNCHANGED <<m_current_level, m_stop_flag, writer, file, logged>>

JoinLogger == writer = "ended" /\ UNCHANGED loggerVars

-----------------------------------------------------------------------------

\* The file begins with an empty line.  After it come the messages in the
\* order they were logged, from whatever thread, none twice; until the logger
\* is stopped the ones that are not there yet are on their way.
LogInOrder ==
    IF m_stop_flag
    THEN \A i \in 2..Len(file) : i <= Len(logged) + 1 /\ file[i] = logged[i - 1]
    ELSE file # <<>> => file \o m_message_q = <<EmptyLine>> \o logged
=============================================================================
