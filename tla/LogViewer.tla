------------------------------ MODULE LogViewer -----------------------------
(* The live log: a container that keeps writing lines, the EventSource that replays   *)
(* its tail on every connection, and the buffer between the two.  Lines wait in       *)
(* `pending` and reach the screen in batches, on a timer or on Resume.  A line is its  *)
(* number in the container's output; filtering and scrolling only select from the      *)
(* buffer and are left out.                                                            *)
EXTENDS Integers, Sequences, SequencesExt

CONSTANTS Limits,                                   \* the tail lengths on offer
          MaxLines, MaxConnections, MaxCommands     \* bounds of the model

VARIABLES
    emitted,                  \* lines the container has written
    source,                   \* the connection: closed, or its next line
    streamed, paused, limit,  \* the viewer's state
    pending, restart, fresh,  \* its refs
    flushTimer,               \* the cap the running timer's flush will use, 0 if none runs
    connections, commands

view   == <<streamed, paused, limit>>
buffer == <<pending, restart, fresh>>
vars   == <<emitted, source, view, buffer, flushTimer, connections, commands>>

Closed == 0
newest(lines, n) == SubSeq(lines, Max({1, Len(lines) - n + 1}), Len(lines))

Init ==
    /\ emitted = 0 /\ source = Closed
    /\ streamed = <<>> /\ paused = FALSE /\ limit \in Limits
    /\ pending = <<>> /\ restart = FALSE /\ fresh = FALSE /\ flushTimer = 0
    /\ connections = 0 /\ commands = 0

Emit ==
    /\ emitted < MaxLines
    /\ emitted' = emitted + 1
    /\ UNCHANGED <<source, view, buffer, flushTimer, connections, commands>>

\* Fault: a new connection's tail is appended to what is there.
Open_Appends ==
    /\ source = Closed /\ connections < MaxConnections
    /\ connections' = connections + 1
    /\ source' = Max({1, emitted - limit + 1})
    /\ UNCHANGED <<emitted, view, buffer, flushTimer, commands>>

\* The server answers a connection with the tail and follows from there.
Open ==
    /\ source = Closed /\ connections < MaxConnections
    /\ connections' = connections + 1
    /\ source' = Max({1, emitted - limit + 1})
    /\ restart' = TRUE
    /\ UNCHANGED <<emitted, view, pending, fresh, flushTimer, commands>>

Drop ==
    /\ source # Closed
    /\ source' = Closed
    /\ UNCHANGED <<emitted, view, buffer, flushTimer, connections, commands>>

\* The first line of a connection starts the buffer over.  Past twice the cap only the
\* newest lines could still reach the screen.
ReceiveLog ==
    /\ source # Closed /\ source <= emitted
    /\ source' = source + 1
    /\ restart' = FALSE
    /\ fresh' = (fresh \/ restart)
    /\ LET waiting == Append(IF restart THEN <<>> ELSE pending, source)
       IN pending' = IF Len(waiting) > 2 * limit THEN newest(waiting, limit) ELSE waiting
    /\ flushTimer' = IF paused \/ flushTimer # 0 THEN flushTimer ELSE limit
    /\ UNCHANGED <<emitted, view, connections, commands>>

flush(cap) ==
    /\ streamed' = newest((IF fresh THEN <<>> ELSE streamed) \o pending, cap)
    /\ pending' = <<>> /\ fresh' = FALSE /\ flushTimer' = 0

TimerFires ==
    /\ flushTimer # 0
    /\ flush(flushTimer)
    /\ UNCHANGED <<emitted, source, paused, limit, restart, connections, commands>>

-----------------------------------------------------------------------------
(* The reader. *)
Command == commands < MaxCommands /\ commands' = commands + 1

Pause ==
    /\ Command /\ ~paused
    /\ paused' = TRUE
    /\ UNCHANGED <<emitted, source, streamed, limit, buffer, flushTimer, connections>>

Resume ==
    /\ Command /\ paused
    /\ paused' = FALSE
    /\ flush(limit)
    /\ UNCHANGED <<emitted, source, limit, restart, connections>>

Clear ==
    /\ Command
    /\ streamed' = <<>>
    /\ UNCHANGED <<emitted, source, paused, limit, buffer, flushTimer, connections>>

\* Another limit is another address: the source is closed and opened anew.
SetLimit ==
    /\ Command
    /\ limit' \in Limits \ {limit}
    /\ source' = Closed
    /\ UNCHANGED <<emitted, streamed, paused, buffer, flushTimer, connections>>

Next ==
    \/ Emit \/ Open \/ Drop \/ ReceiveLog \/ TimerFires
    \/ Pause \/ Resume \/ Clear \/ SetLimit

Spec == Init /\ [][Next]_vars

-----------------------------------------------------------------------------
TypeOK ==
    /\ emitted \in 0..MaxLines /\ source \in 0..MaxLines + 1
    /\ ToSet(streamed) \cup ToSet(pending) \subseteq 1..emitted
    /\ {paused, restart, fresh} \subseteq BOOLEAN
    /\ limit \in Limits /\ flushTimer \in Limits \cup {0}

(* The screen is a stretch of the container's output: no reconnection, pause, trimmed *)
(* backlog or late timer repeats a line, swaps two or leaves one out.  While the tail   *)
(* of a new connection is on its way the old screen stands and may be missing lines: a  *)
(* backlog trimmed for a short limit is flushed under the longer one chosen since.      *)
Stretch(lines) == \A i \in 1..Len(lines) - 1 : lines[i + 1] = lines[i] + 1
NothingRepeatedOrSkipped == source # Closed /\ ~restart /\ ~fresh => Stretch(streamed)
=============================================================================
