--------------------------- MODULE StreamsProofs ----------------------------
(* What holds of the pages that live on a stream or on what another tab wrote, for every   *)
(* value of the constants: the dashboard's refetches, the live log, the inbox's marks.      *)
EXTENDS Streams, Integers, SequenceTheorems, FiniteSetTheorems, TLAPS

\* A step of the composition is a step of the model it is about, or leaves it alone.
LEMMA StreamMoves ==
  ASSUME [StreamsNext]_streamsVars
  PROVE  /\ client' = client
         /\ client = "events" => [Events!Next]_(Events!vars)
         /\ client = "log" => [Log!Next]_(Log!vars)
         /\ client = "inbox" => [Marks!Next]_(Marks!vars)
<1>1. CASE StreamsNext
  BY <1>1 DEF StreamsNext
<1>2. CASE UNCHANGED streamsVars
  <2>1. client' = client /\ UNCHANGED eventsVars /\ UNCHANGED logVars /\ UNCHANGED inboxVars
    BY <1>2 DEF streamsVars
  <2>2. UNCHANGED Events!vars
    BY <2>1 DEF eventsVars, Events!vars, Events!manager, Events!stream, Events!debounce,
       Events!page, Events!history, Events!counts
  <2>3. UNCHANGED Log!vars
    BY <2>1 DEF logVars, Log!vars, Log!view, Log!buffer
  <2>4. UNCHANGED Marks!vars
    BY <2>1 DEF inboxVars, Marks!vars, Marks!server, Marks!tabs
  <2> QED BY <2>1, <2>2, <2>3, <2>4
<1> QED BY <1>1, <1>2

-----------------------------------------------------------------------------
(* The dashboard's refetches. *)

\* What will still make the page read again.
Due ==
    \/ timer # Events!NoTimer \/ queue > 0 \/ unpublished
    \/ (opened /\ source_events # "open")

\* The version the page shows, or is about to show, is the manager's unless a read is due.
\* A read in flight may be older than what it will replace: it counts, the screen does not.
Told ==
    ~unseen /\ ~failed /\ ~dropped =>
        /\ fetch_events = Events!Idle => screen = server_events \/ Due
        /\ fetch_events.at = "answered" => fetch_events.version = server_events \/ Due

Buffered ==
    /\ queue \in Nat /\ (queue > 0 => Events!subscribed)
    /\ fetch_events = Events!Idle <=> fetch_events.at = "idle"
    /\ fetch_events.at \in {"idle", "sent", "answered"}
    /\ opened \in BOOLEAN /\ unpublished \in BOOLEAN

\* What is left of the delay fits under the ceiling.
UnderCeiling ==
    /\ timer \in 0..Delay \cup {Events!NoTimer}
    /\ pendingSince \in Nat /\ waited \in Nat
    /\ timer = Events!NoTimer => waited = 0 /\ pendingSince = 0
    /\ timer # Events!NoTimer => waited = pendingSince /\ waited + timer < Ceiling + Delay

EventsInv == Buffered /\ Told /\ UnderCeiling

-----------------------------------------------------------------------------

LEMMA EventsInit == Events!Init => EventsInv
<1> SUFFICES ASSUME Events!Init PROVE EventsInv
  OBVIOUS
<1>1. fetch_events.at = "sent" /\ fetch_events # Events!Idle
  BY DEF Events!Init, Events!Idle
<1>2. Buffered
  <2>1. queue = 0 /\ opened = FALSE /\ unpublished = FALSE
    BY DEF Events!Init
  <2>2. queue \in Nat /\ (queue > 0 => Events!subscribed)
    BY <2>1
  <2>3. opened \in BOOLEAN /\ unpublished \in BOOLEAN
    BY <2>1
  <2>4. (fetch_events = Events!Idle <=> fetch_events.at = "idle") /\
          fetch_events.at \in {"idle", "sent", "answered"}
    BY <1>1
  <2> QED BY <2>2, <2>3, <2>4 DEF Buffered
<1>3. Told
  BY <1>1 DEF Told
<1>4. UnderCeiling
  BY DEF Events!Init, UnderCeiling
<1> QED BY <1>2, <1>3, <1>4 DEF EventsInv

\* A refresh asked for is due within the ceiling, and leaves a timer set.
LEMMA refreshKeeps ==
  ASSUME UnderCeiling, Events!refresh PROVE UnderCeiling' /\ timer' # Events!NoTimer
<1>1. CASE timer = Events!NoTimer
  <2>1. pendingSince' = 0 /\ waited' = 0
    BY <1>1 DEF Events!refresh
  <2>2. timer' = IF 0 >= Ceiling THEN 0 ELSE Delay
    BY <2>1 DEF Events!refresh
  <2> QED BY <2>1, <2>2, StreamsAssumption DEF UnderCeiling, Events!NoTimer
<1>2. CASE timer # Events!NoTimer
  <2>1. pendingSince' = pendingSince /\ waited' = waited
    BY <1>2 DEF Events!refresh
  <2>2. timer' = IF pendingSince >= Ceiling THEN 0 ELSE Delay
    BY <2>1 DEF Events!refresh
  <2>3. timer \in 0..Delay /\ waited = pendingSince /\ waited + timer < Ceiling + Delay
    BY <1>2 DEF UnderCeiling
  <2> QED BY <2>1, <2>2, <2>3, StreamsAssumption DEF UnderCeiling, Events!NoTimer
<1> QED BY <1>1, <1>2

LEMMA ManagerSteps ==
  ASSUME EventsInv, Events!Change \/ Events!Publish PROVE EventsInv'
<1>1. UNCHANGED <<source_events, opened, timer, pendingSince, fetch_events, screen, failed,
        dropped, waited>>
  BY DEF Events!Change, Events!Publish, Events!stream, Events!debounce, Events!page
<1>2. UnderCeiling'
  BY <1>1 DEF EventsInv, UnderCeiling, Events!NoTimer
<1>3. CASE Events!Change
  <2>1. unpublished' = TRUE /\ queue' = queue
    BY <1>3 DEF Events!Change, Events!stream
  <2>2. Due'
    BY <2>1 DEF Due
  <2> QED BY <1>1, <1>2, <2>1, <2>2 DEF EventsInv, Buffered, Told, Events!subscribed, Events!Idle
<1>4. CASE Events!Publish
  <2>1. unpublished' = FALSE /\ server_events' = server_events
        /\ unseen' = (unseen \/ (~opened /\ ~Events!subscribed))
    BY <1>4 DEF Events!Publish
  <2>2. /\ Events!subscribed => queue' \in Nat \ {0}
        /\ ~Events!subscribed => queue' = queue
    BY <1>4, StreamsAssumption DEF Events!Publish, EventsInv, Buffered
  <2>3. Buffered'
    BY <1>1, <2>1, <2>2 DEF EventsInv, Buffered, Events!subscribed, Events!Idle
  <2>4. unseen' \/ Due'
    <3>1. CASE Events!subscribed
      BY <2>2, <3>1 DEF Due
    <3>2. CASE ~Events!subscribed /\ opened
      BY <1>1, <3>2 DEF Due, Events!subscribed
    <3>3. CASE ~Events!subscribed /\ ~opened
      BY <2>1, <3>3
    <3> QED BY <3>1, <3>2, <3>3
  <2>5. Told'
    BY <2>4 DEF Told
  <2> QED BY <1>2, <2>3, <2>5 DEF EventsInv
<1> QED BY <1>3, <1>4

LEMMA StreamSteps ==
  ASSUME EventsInv, Events!Subscribe \/ Events!Break \/ Events!Retry PROVE EventsInv'
<1>1. UNCHANGED <<server_events, opened, timer, pendingSince, fetch_events, screen, failed,
        dropped, waited>>
  BY DEF Events!Subscribe, Events!Break, Events!Retry, Events!manager, Events!debounce,
     Events!page, Events!history
<1>2. UnderCeiling'
  BY <1>1 DEF EventsInv, UnderCeiling, Events!NoTimer
<1>3. CASE Events!Subscribe \/ Events!Retry
  <2>1. source_events' \in {"subscribed", "retrying"} /\ UNCHANGED <<unpublished, unseen>>
    BY <1>3 DEF Events!Subscribe, Events!Retry, Events!manager, Events!history
  <2>2. ~Events!subscribed /\ queue = 0 /\ queue' = 0
    BY <1>3 DEF Events!Subscribe, Events!Retry, EventsInv, Buffered, Events!subscribed
  <2>3. Due => Due'
    BY <1>1, <2>1, <2>2 DEF Due, Events!NoTimer
  <2>4. Buffered' /\ Told'
    BY <1>1, <2>1, <2>2, <2>3 DEF EventsInv, Buffered, Told, Events!Idle
  <2> QED BY <1>2, <2>4 DEF EventsInv
<1>4. CASE Events!Break
  <2>1. source_events' = "lost" /\ queue' = 0 /\ unpublished' \in BOOLEAN /\
          unseen' = (unseen \/ ~opened)
    BY <1>4 DEF Events!Break, EventsInv, Buffered
  <2>2. unseen' \/ Due'
    <3>1. CASE opened
      BY <1>1, <2>1, <3>1 DEF Due
    <3>2. CASE ~opened
      BY <2>1, <3>2
    <3> QED BY <3>1, <3>2
  <2>3. Buffered' /\ Told'
    BY <1>1, <2>1, <2>2 DEF EventsInv, Buffered, Told, Events!Idle
  <2> QED BY <1>2, <2>3 DEF EventsInv
<1> QED BY <1>3, <1>4

LEMMA PageSteps ==
  ASSUME EventsInv, Events!Opens \/ Events!Receive \/ Events!Tick PROVE EventsInv'
<1>1. UNCHANGED <<server_events, unpublished, fetch_events, screen, unseen, failed, dropped>>
  BY DEF Events!Opens, Events!Receive, Events!Tick, Events!manager, Events!page, Events!history
<1>2. UnderCeiling'
  <2>1. CASE Events!refresh
    BY <2>1, refreshKeeps DEF EventsInv
  <2>2. CASE UNCHANGED <<Events!debounce, waited>>
    BY <2>2 DEF EventsInv, UnderCeiling, Events!debounce, Events!NoTimer
  <2>3. CASE Events!Tick
    <3>1. timer \in 1..Delay /\ waited = pendingSince /\ waited + timer < Ceiling + Delay
      BY <2>3, StreamsAssumption DEF Events!Tick, EventsInv, UnderCeiling
    <3>2. timer' = timer - 1 /\ pendingSince' = pendingSince + 1 /\ waited' = waited + 1
      BY <2>3 DEF Events!Tick
    <3> QED BY <3>1, <3>2, StreamsAssumption DEF EventsInv, UnderCeiling, Events!NoTimer
  <2> QED BY <2>1, <2>2, <2>3 DEF Events!Opens, Events!Receive
<1>3. Buffered'
  <2>1. queue' \in Nat /\ (queue' > 0 => Events!subscribed')
    BY DEF Events!Opens, Events!Receive, Events!Tick, Events!stream, EventsInv, Buffered,
       Events!subscribed
  <2>2. opened' \in BOOLEAN
    BY DEF Events!Opens, Events!Receive, Events!Tick, Events!stream, EventsInv, Buffered
  <2> QED BY <1>1, <2>1, <2>2 DEF EventsInv, Buffered, Events!Idle
<1>4. Due => Due'
  <2>1. CASE Events!refresh
    BY <2>1, refreshKeeps DEF EventsInv, Due
  <2>2. CASE Events!Opens /\ ~opened /\ UNCHANGED <<Events!debounce, waited>>
    BY <1>1, <2>2 DEF Events!Opens, Due, Events!debounce, Events!NoTimer
  <2>3. CASE Events!Tick
    BY <2>3, <1>2, StreamsAssumption DEF Events!Tick, Due, EventsInv, UnderCeiling, Events!NoTimer
  <2> QED BY <2>1, <2>2, <2>3 DEF Events!Opens, Events!Receive
<1>5. Told'
  BY <1>1, <1>4 DEF EventsInv, Told, Events!Idle
<1> QED BY <1>2, <1>3, <1>5 DEF EventsInv

LEMMA FetchSteps ==
  ASSUME EventsInv, Events!invalidateQueries \/ Events!ReadServer \/ Events!ReadLands \/
          Events!ReadFails PROVE EventsInv'
<1>1. UNCHANGED <<server_events, unpublished, source_events, queue, opened>>
  BY DEF Events!invalidateQueries, Events!ReadServer, Events!ReadLands, Events!ReadFails,
     Events!manager, Events!stream
<1>2. UnderCeiling'
  <2>1. CASE Events!invalidateQueries
    BY <2>1 DEF Events!invalidateQueries, UnderCeiling
  <2>2. CASE UNCHANGED <<Events!debounce, waited>>
    BY <2>2 DEF EventsInv, UnderCeiling, Events!debounce, Events!NoTimer
  <2> QED BY <2>1, <2>2 DEF Events!ReadServer, Events!ReadLands, Events!ReadFails
<1>3. Buffered' /\ Told'
  <2>1. CASE Events!invalidateQueries /\ (loaded_events \/ fetch_events = Events!Idle)
    <3>1. fetch_events'.at = "sent" /\ fetch_events' # Events!Idle
      BY <2>1 DEF Events!invalidateQueries, Events!Idle
    <3> QED BY <1>1, <3>1 DEF EventsInv, Buffered, Told, Events!subscribed, Events!Idle
  <2>5. CASE Events!invalidateQueries /\ ~(loaded_events \/ fetch_events = Events!Idle)
    <3>1. /\ UNCHANGED fetch_events /\ fetch_events # Events!Idle
          /\ dropped' = (dropped \/ (fetch_events.at = "answered" /\
                                     fetch_events.version # server_events))
      BY <2>5 DEF Events!invalidateQueries
    <3> QED BY <1>1, <3>1 DEF EventsInv, Buffered, Told, Events!subscribed, Events!Idle
  <2>2. CASE Events!ReadServer
    <3>1. fetch_events'.at = "answered" /\ fetch_events' # Events!Idle /\
            fetch_events'.version = server_events
      BY <2>2 DEF Events!ReadServer, Events!Idle
    <3> QED BY <1>1, <3>1 DEF EventsInv, Buffered, Told, Events!subscribed, Events!Idle
  <2>3. CASE Events!ReadLands
    <3>1. fetch_events' = Events!Idle /\ fetch_events'.at = "idle" /\
            screen' = fetch_events.version /\ fetch_events.at = "answered"
      BY <2>3 DEF Events!ReadLands, Events!Idle
    <3>2. UNCHANGED <<timer, unseen, failed, dropped>>
      BY <2>3 DEF Events!ReadLands, Events!debounce, Events!history
    <3>3. Due <=> Due'
      BY <1>1, <3>2 DEF Due, Events!NoTimer
    <3> QED BY <1>1, <3>1, <3>2, <3>3 DEF EventsInv, Buffered, Told, Events!subscribed,
       Events!Idle
  <2>4. CASE Events!ReadFails
    <3>1. fetch_events' = Events!Idle /\ fetch_events'.at = "idle" /\ failed' = TRUE
      BY <2>4 DEF Events!ReadFails, Events!Idle
    <3> QED BY <1>1, <3>1 DEF EventsInv, Buffered, Told, Events!subscribed, Events!Idle
  <2> QED BY <2>1, <2>2, <2>3, <2>4, <2>5
<1> QED BY <1>2, <1>3 DEF EventsInv

LEMMA EventsNext == EventsInv /\ [Events!Next]_(Events!vars) => EventsInv'
<1> SUFFICES ASSUME EventsInv, [Events!Next]_(Events!vars) PROVE EventsInv'
  OBVIOUS
<1>1. CASE UNCHANGED Events!vars
  BY <1>1 DEF Events!vars, Events!manager, Events!stream, Events!debounce, Events!page,
     Events!history, EventsInv, Buffered, Told, Due, UnderCeiling, Events!subscribed,
     Events!Idle, Events!NoTimer
<1> QED BY <1>1, ManagerSteps, StreamSteps, PageSteps, FetchSteps DEF Events!Next

(* With its announcements read and its refetch back, the page shows what the manager holds, *)
(* for any buffer, delay and ceiling, through broken streams, swallowed events and buffers   *)
(* that overflow, unless the refetch was asked of a first load whose answer was on its way    *)
(* (useSystemEvents in lib/sse.ts, EventBus).                                                 *)
THEOREM QuietIsCurrent == StreamsSpec => []QuietMeansCurrent
<1> DEFINE Inv == client = "events" => EventsInv
<1>1. StreamsInit => Inv
  BY EventsInit DEF StreamsInit
<1>2. Inv /\ [StreamsNext]_streamsVars => Inv'
  BY StreamMoves, EventsNext
<1>3. Inv => QuietMeansCurrent
  BY DEF EventsInv, Told, Due, QuietMeansCurrent, Events!QuietMeansCurrent, Events!Quiet
<1> QED BY <1>1, <1>2, <1>3, PTL DEF StreamsSpec

(* No event waits longer than the ceiling and one delay for its refetch, however steady the  *)
(* stream of events behind it (the debounce of useSystemEvents in lib/sse.ts).               *)
THEOREM NobodyStarves == StreamsSpec => []NoStarvation
<1> DEFINE Inv == client = "events" => EventsInv
<1>1. StreamsInit => Inv
  BY EventsInit DEF StreamsInit
<1>2. Inv /\ [StreamsNext]_streamsVars => Inv'
  BY StreamMoves, EventsNext
<1>3. Inv => NoStarvation
  BY StreamsAssumption DEF EventsInv, UnderCeiling, NoStarvation, Events!NoStarvation
<1> QED BY <1>1, <1>2, <1>3, PTL DEF StreamsSpec

-----------------------------------------------------------------------------
(* The live log. *)

\* A stretch of the output whose last line, if there is one, comes just before line n.
Ends(lines, n) == Log!Stretch(lines) /\ (lines # <<>> => lines[Len(lines)] = n - 1)

\* While a connection's lines arrive, those that wait go on where those on screen ended.
\* Only a backlog that was trimmed does not, and then it is enough to fill the screen alone.
Onwards ==
    source_log # Log!Closed /\ ~restart =>
        /\ Ends(pending, source_log)
        /\ ~fresh =>
            /\ Log!Stretch(streamed)
            /\ flushTimer \in {0, limit}
            /\ Ends(streamed \o pending, source_log) \/ Len(pending) >= limit

LogTypes ==
    /\ emitted \in Nat /\ source_log \in Nat
    /\ streamed \in Seq(Nat) /\ pending \in Seq(Nat)
    /\ limit \in Limits /\ flushTimer \in Limits \cup {0}
    /\ paused \in BOOLEAN /\ restart \in BOOLEAN /\ fresh \in BOOLEAN

LogInv == LogTypes /\ Onwards

LEMMA MaxOfTwo ==
  ASSUME NEW a \in Int, NEW b \in Int
  PROVE  Log!Max({a, b}) = IF a >= b THEN a ELSE b
BY DEF Log!Max

\* The newest n lines: all of them if there are no more.
LEMMA NewestAll ==
  ASSUME NEW lines \in Seq(Nat), NEW n \in Nat, Len(lines) <= n
  PROVE  Log!newest(lines, n) = lines
<1>1. Len(lines) \in Nat /\ SubSeq(lines, 1, Len(lines)) = lines
  OBVIOUS
<1>2. Log!Max({1, Len(lines) - n + 1}) = 1
  BY <1>1, MaxOfTwo
<1> QED BY <1>1, <1>2 DEF Log!newest

LEMMA NewestSome ==
  ASSUME NEW lines \in Seq(Nat), NEW n \in Nat, Len(lines) > n
  PROVE  /\ Log!newest(lines, n) \in Seq(Nat) /\ Len(Log!newest(lines, n)) = n
         /\ \A i \in 1..n : Log!newest(lines, n)[i] = lines[Len(lines) - n + i]
<1>1. Len(lines) \in Nat
  OBVIOUS
<1>2. Log!Max({1, Len(lines) - n + 1}) = Len(lines) - n + 1
  BY <1>1, MaxOfTwo
<1>3. Log!newest(lines, n) = SubSeq(lines, Len(lines) - n + 1, Len(lines))
  BY <1>2 DEF Log!newest
<1>4. ASSUME NEW first \in Nat, first = Len(lines) - n + 1
      PROVE  /\ SubSeq(lines, first, Len(lines)) \in Seq(Nat)
             /\ Len(SubSeq(lines, first, Len(lines))) = n
             /\ \A i \in 1..n : SubSeq(lines, first, Len(lines))[i] = lines[Len(lines) - n + i]
  <2>1. first \in 1..Len(lines) + 1 /\ Len(lines) - first + 1 = n
    BY <1>1, <1>4
  <2>2. /\ SubSeq(lines, first, Len(lines)) \in Seq(Nat)
        /\ Len(SubSeq(lines, first, Len(lines))) = Len(lines) - first + 1
        /\ \A i \in 1..Len(lines) - first + 1 :
              SubSeq(lines, first, Len(lines))[i] = lines[first + i - 1]
    BY <1>1, <2>1
  <2>3. \A i \in 1..n : first + i - 1 = Len(lines) - n + i
    BY <1>1, <1>4
  <2> QED BY <2>1, <2>2, <2>3
<1>5. Len(lines) - n + 1 \in Nat
  BY <1>1
<1> QED BY <1>3, <1>4, <1>5

LEMMA NewestType ==
  ASSUME NEW lines \in Seq(Nat), NEW n \in Nat
  PROVE  Log!newest(lines, n) \in Seq(Nat)
<1>1. Len(lines) \in Nat
  OBVIOUS
<1> QED BY <1>1, NewestAll, NewestSome

\* What is left of such a stretch ends where it ended.
LEMMA NewestEnds ==
  ASSUME NEW lines \in Seq(Nat), NEW n \in Nat, NEW next \in Nat, Ends(lines, next)
  PROVE  Ends(Log!newest(lines, n), next)
<1>1. CASE Len(lines) <= n
  <2>1. Log!newest(lines, n) = lines
    BY <1>1, NewestAll
  <2> QED BY <2>1
<1>2. CASE Len(lines) > n
  <2> DEFINE rest == Log!newest(lines, n)
  <2>1. /\ rest \in Seq(Nat) /\ Len(rest) = n
        /\ \A i \in 1..n : rest[i] = lines[Len(lines) - n + i]
    BY <1>2, NewestSome
  <2> HIDE DEF rest
  <2>l. Len(lines) \in Nat
    OBVIOUS
  <2>2. ASSUME NEW i \in 1..Len(rest) - 1 PROVE rest[i + 1] = rest[i] + 1
    <3>i. i \in 1..n - 1
      BY <2>1
    <3>1. Len(lines) - n + i \in 1..Len(lines) - 1 /\ i \in 1..n /\ i + 1 \in 1..n
      BY <1>2, <2>l, <3>i
    <3>2. lines[(Len(lines) - n + i) + 1] = lines[Len(lines) - n + i] + 1
      BY <3>1 DEF Ends, Log!Stretch
    <3>3. (Len(lines) - n + i) + 1 = Len(lines) - n + (i + 1)
      BY <2>l, <2>1, <3>1
    <3> QED BY <2>1, <3>1, <3>2, <3>3
  <2>3. rest # <<>> => rest[Len(rest)] = next - 1
    BY <1>2, <2>l, <2>1 DEF Ends
  <2>4. Ends(rest, next)
    BY <2>2, <2>3 DEF Ends, Log!Stretch
  <2> QED BY <2>4 DEF rest
<1>3. Len(lines) \in Nat
  OBVIOUS
<1> QED BY <1>1, <1>2, <1>3

LEMMA AppendEnds ==
  ASSUME NEW lines \in Seq(Nat), NEW next \in Nat, Ends(lines, next)
  PROVE  Ends(Append(lines, next), next + 1)
<1>1. /\ Len(Append(lines, next)) = Len(lines) + 1 /\ Len(lines) \in Nat
      /\ \A i \in 1..Len(lines) : Append(lines, next)[i] = lines[i]
      /\ Append(lines, next)[Len(lines) + 1] = next
  OBVIOUS
<1>2. ASSUME NEW i \in 1..Len(Append(lines, next)) - 1
      PROVE  Append(lines, next)[i + 1] = Append(lines, next)[i] + 1
  <2>1. CASE i < Len(lines)
    <3>1. i \in 1..Len(lines) - 1 /\ i + 1 \in 1..Len(lines)
      BY <1>1, <2>1
    <3> QED BY <1>1, <3>1 DEF Ends, Log!Stretch
  <2>2. CASE i = Len(lines)
    <3>1. lines # <<>> /\ lines[Len(lines)] = next - 1
      BY <1>1, <2>2 DEF Ends
    <3> QED BY <1>1, <2>2, <3>1
  <2> QED BY <1>1, <2>1, <2>2
<1> QED BY <1>1, <1>2 DEF Ends, Log!Stretch

\* Of a screen and the lines that wait, those that wait suffice if they are enough.
LEMMA NewestOfTwo ==
  ASSUME NEW a \in Seq(Nat), NEW b \in Seq(Nat), NEW n \in Nat, n <= Len(b)
  PROVE  Log!newest(a \o b, n) = Log!newest(b, n)
<1> DEFINE both == a \o b
<1>1. /\ both \in Seq(Nat) /\ Len(both) = Len(a) + Len(b) /\ Len(a) \in Nat /\ Len(b) \in Nat
      /\ \A i \in 1..Len(b) : both[Len(a) + i] = b[i]
  OBVIOUS
<1> HIDE DEF both
<1>2. /\ Log!newest(both, n) \in Seq(Nat) /\ Len(Log!newest(both, n)) = n
      /\ \A i \in 1..n : Log!newest(both, n)[i] = both[Len(both) - n + i]
  <2>1. CASE Len(both) <= n
    <3>1. Len(both) = n /\ Log!newest(both, n) = both
      BY <1>1, <2>1, NewestAll
    <3>2. \A i \in 1..n : Len(both) - n + i = i
      BY <3>1
    <3> QED BY <1>1, <3>1, <3>2
  <2>2. CASE Len(both) > n
    BY <1>1, <2>2, NewestSome
  <2> QED BY <1>1, <2>1, <2>2
<1>3. /\ Log!newest(b, n) \in Seq(Nat) /\ Len(Log!newest(b, n)) = n
      /\ \A i \in 1..n : Log!newest(b, n)[i] = b[Len(b) - n + i]
  <2>1. CASE Len(b) <= n
    <3>1. Len(b) = n /\ Log!newest(b, n) = b
      BY <1>1, <2>1, NewestAll
    <3>2. \A i \in 1..n : Len(b) - n + i = i
      BY <3>1
    <3> QED BY <1>1, <3>1, <3>2
  <2>2. CASE Len(b) > n
    BY <1>1, <2>2, NewestSome
  <2> QED BY <1>1, <2>1, <2>2
<1>4. ASSUME NEW i \in 1..n PROVE both[Len(both) - n + i] = b[Len(b) - n + i]
  <2>1. Len(b) - n + i \in 1..Len(b) /\ Len(both) - n + i = Len(a) + (Len(b) - n + i)
    BY <1>1
  <2> QED BY <1>1, <2>1
<1>5. Log!newest(both, n) = Log!newest(b, n)
  BY <1>2, <1>3, <1>4, SeqEqual
<1> QED BY <1>5 DEF both

\* The screen after a flush goes on to where the lines that waited ended.
LEMMA FlushEnds ==
  ASSUME LogInv, source_log # Log!Closed, ~restart, NEW cap \in Limits, Log!flush(cap),
         fresh \/ cap = limit
  PROVE  Ends(streamed', source_log)
<1>1. cap \in Nat /\ source_log \in Nat /\ pending \in Seq(Nat) /\ streamed \in Seq(Nat)
  BY StreamsAssumption DEF LogInv, LogTypes
<1>2. Ends(pending, source_log)
  BY DEF LogInv, Onwards
<1>3. CASE fresh
  <2>1. <<>> \o pending = pending
    BY <1>1
  <2>2. streamed' = Log!newest(pending, cap)
    BY <1>3, <2>1 DEF Log!flush
  <2> QED BY <1>1, <1>2, <2>2, NewestEnds
<1>4. CASE ~fresh
  <2>1. streamed' = Log!newest(streamed \o pending, cap)
    BY <1>4 DEF Log!flush
  <2>2. streamed \o pending \in Seq(Nat)
    BY <1>1
  <2>3. CASE Ends(streamed \o pending, source_log)
    BY <1>1, <2>1, <2>2, <2>3, NewestEnds
  <2>4. CASE Len(pending) >= limit
    <3>1. cap = limit /\ cap <= Len(pending)
      BY <1>1, <1>4, <2>4
    <3>2. streamed' = Log!newest(pending, cap)
      BY <1>1, <2>1, <3>1, NewestOfTwo
    <3> QED BY <1>1, <1>2, <3>2, NewestEnds
  <2> QED BY <1>4, <2>3, <2>4 DEF LogInv, Onwards
<1> QED BY <1>3, <1>4

\* With nothing that waits, a screen that ends where the connection goes on will do.
LEMMA Flushed ==
  ASSUME NEW a \in Seq(Nat), NEW n \in Nat, Ends(a, n)
  PROVE  Ends(<<>>, n) /\ Ends(a \o <<>>, n) /\ Log!Stretch(a)
<1>1. a \o <<>> = a
  OBVIOUS
<1>2. Ends(<<>>, n)
  BY DEF Ends, Log!Stretch
<1> QED BY <1>1, <1>2 DEF Ends

LEMMA FlushKeeps ==
  ASSUME LogInv, NEW cap \in Limits, Log!flush(cap),
         fresh \/ cap = limit \/ restart \/ source_log = Log!Closed,
         UNCHANGED <<emitted, source_log, limit, restart>>, paused' \in BOOLEAN
  PROVE  LogInv'
<1>1. cap \in Nat /\ pending \in Seq(Nat) /\ streamed \in Seq(Nat) /\ source_log \in Nat
  BY StreamsAssumption DEF LogInv, LogTypes
<1>2. streamed' \in Seq(Nat)
  <2>1. <<>> \o pending \in Seq(Nat) /\ streamed \o pending \in Seq(Nat)
    BY <1>1
  <2> QED BY <1>1, <2>1, NewestType DEF Log!flush
<1>3. pending' = <<>> /\ fresh' = FALSE /\ flushTimer' = 0
  BY DEF Log!flush
<1>4. LogTypes'
  <2>1. pending' \in Seq(Nat) /\ flushTimer' \in Limits \cup {0}
    BY <1>3
  <2>2. fresh' \in BOOLEAN
    BY <1>3, Zenon
  <2> QED BY <1>2, <2>1, <2>2 DEF LogInv, LogTypes
<1>5. ASSUME source_log # Log!Closed, ~restart PROVE Ends(streamed', source_log)
  BY <1>5, FlushEnds
<1>6. Onwards'
  <2> SUFFICES ASSUME source_log # Log!Closed, ~restart
               PROVE  /\ Ends(pending', source_log) /\ Log!Stretch(streamed')
                      /\ Ends(streamed' \o pending', source_log)
    BY <1>3 DEF Onwards, Ends, Log!Stretch, Log!Closed
  <2>1. Ends(streamed', source_log)
    BY <1>5
  <2> QED BY <1>1, <1>2, <1>3, <2>1, Flushed
<1> QED BY <1>4, <1>6 DEF LogInv

\* What waits and what is on screen stay; the connection is closed, or about to start over.
LEMMA Unconnected ==
  ASSUME LogInv, source_log' = Log!Closed \/ restart', source_log' \in Nat, limit' \in Limits,
         restart' \in BOOLEAN, UNCHANGED <<emitted, streamed, paused, pending, fresh, flushTimer>>
  PROVE  LogInv'
BY DEF LogInv, LogTypes, Onwards

LEMMA ConnectionSteps ==
  ASSUME LogInv, Log!Open \/ Log!Drop \/ Log!SetLimit PROVE LogInv'
<1>1. UNCHANGED <<emitted, streamed, paused, pending, fresh, flushTimer>>
  BY DEF Log!Open, Log!Drop, Log!SetLimit, Log!view, Log!buffer
<1>2. source_log' = Log!Closed \/ restart'
  BY DEF Log!Open, Log!Drop, Log!SetLimit
<1>3. limit' \in Limits /\ restart' \in BOOLEAN
  BY DEF Log!Open, Log!Drop, Log!SetLimit, Log!view, Log!buffer, LogInv, LogTypes
<1>4. source_log' \in Nat
  <2>1. CASE Log!Open
    <3>1. emitted \in Nat /\ limit \in Nat
      BY StreamsAssumption DEF LogInv, LogTypes
    <3>2. source_log' = Log!Max({1, emitted - limit + 1})
      BY <2>1 DEF Log!Open
    <3> QED BY <3>1, <3>2, MaxOfTwo
  <2>2. CASE Log!Drop \/ Log!SetLimit
    BY <2>2 DEF Log!Drop, Log!SetLimit, Log!Closed
  <2> QED BY <2>1, <2>2
<1> QED BY <1>1, <1>2, <1>3, <1>4, Unconnected

\* A line that arrives goes on where the last one ended.
LEMMA ReceiveKeeps ==
  ASSUME LogInv, Log!ReceiveLog PROVE LogInv'
<1> DEFINE before == IF restart THEN <<>> ELSE pending
           waiting == Append(before, source_log)
<1>1. /\ source_log \in Nat /\ source_log # Log!Closed /\ limit \in Nat \ {0} /\ limit \in Limits
      /\ pending \in Seq(Nat) /\ streamed \in Seq(Nat)
  BY StreamsAssumption DEF LogInv, LogTypes, Log!ReceiveLog
<1>2. before \in Seq(Nat) /\ Ends(before, source_log)
  <2>1. CASE restart
    BY <2>1 DEF Ends, Log!Stretch
  <2>2. CASE ~restart
    BY <1>1, <2>2 DEF LogInv, Onwards
  <2> QED BY <2>1, <2>2
<1>3. /\ pending' = IF Len(waiting) > 2 * limit THEN Log!newest(waiting, limit) ELSE waiting
      /\ source_log' = source_log + 1 /\ restart' = FALSE
      /\ UNCHANGED <<emitted, streamed, paused, limit>>
  BY DEF Log!ReceiveLog, Log!view
<1>4. fresh' = (fresh \/ restart)
  BY DEF Log!ReceiveLog
<1>5. flushTimer' = flushTimer \/ flushTimer' = limit
  BY DEF Log!ReceiveLog
<1> HIDE DEF before
<1>6. waiting \in Seq(Nat) /\ Ends(waiting, source_log + 1) /\ Len(waiting) \in Nat
  BY <1>1, <1>2, AppendEnds
<1>7. pending' \in Seq(Nat) /\ Ends(pending', source_log')
  <2>1. Log!newest(waiting, limit) \in Seq(Nat)
    BY <1>1, <1>6, NewestType
  <2>2. Ends(Log!newest(waiting, limit), source_log + 1)
    <3>1. source_log + 1 \in Nat /\ limit \in Nat
      BY <1>1
    <3> HIDE DEF waiting
    <3> QED BY <1>6, <3>1, NewestEnds
  <2> HIDE DEF waiting
  <2> QED BY <1>3, <1>6, <2>1, <2>2
<1>8. LogTypes'
  <2>1. fresh' \in BOOLEAN /\ restart' \in BOOLEAN
    BY <1>3, <1>4, Zenon DEF LogInv, LogTypes
  <2>2. flushTimer' \in Limits \cup {0} /\ source_log' \in Nat
    BY <1>1, <1>3, <1>5 DEF LogInv, LogTypes
  <2> QED BY <1>3, <1>7, <2>1, <2>2 DEF LogInv, LogTypes
<1>9. ASSUME ~fresh'
      PROVE  /\ Log!Stretch(streamed) /\ flushTimer' \in {0, limit}
             /\ Ends(streamed \o pending', source_log') \/ Len(pending') >= limit
  <2>1. ~fresh /\ ~restart
    BY <1>4, <1>9
  <2>2. /\ Log!Stretch(streamed) /\ flushTimer \in {0, limit}
        /\ Ends(streamed \o pending, source_log) \/ Len(pending) >= limit
    BY <1>1, <2>1 DEF LogInv, Onwards
  <2>3. before = pending
    BY <2>1 DEF before
  <2>4. CASE Len(waiting) > 2 * limit
    <3>1. Len(Log!newest(waiting, limit)) = limit
      <4>1. Len(waiting) > limit
        BY <1>1, <1>6, <2>4
      <4> QED BY <1>1, <1>6, <4>1, NewestSome
    <3>2. pending' = Log!newest(waiting, limit)
      BY <1>3, <2>4
    <3> QED BY <1>1, <1>5, <2>2, <3>1, <3>2
  <2>5. CASE ~(Len(waiting) > 2 * limit)
    <3>1. pending' = Append(pending, source_log)
      BY <1>3, <2>3, <2>5
    <3>2. CASE Ends(streamed \o pending, source_log)
      <4>1. streamed \o Append(pending, source_log) = Append(streamed \o pending, source_log)
        BY <1>1
      <4>2. streamed \o pending \in Seq(Nat)
        BY <1>1
      <4>3. Ends(Append(streamed \o pending, source_log), source_log + 1)
        BY <1>1, <3>2, <4>2, AppendEnds
      <4> QED BY <1>3, <1>5, <2>2, <3>1, <4>1, <4>3
    <3>3. CASE Len(pending) >= limit
      <4>1. Len(pending') = Len(pending) + 1 /\ Len(pending) \in Nat
        BY <1>1, <3>1
      <4> QED BY <1>1, <1>5, <2>2, <3>3, <4>1
    <3> QED BY <2>2, <3>2, <3>3
  <2> QED BY <2>4, <2>5
<1>10. Onwards'
  BY <1>3, <1>7, <1>9 DEF Onwards
<1> QED BY <1>8, <1>10 DEF LogInv

LEMMA FlushSteps ==
  ASSUME LogInv, Log!TimerFires \/ Log!Resume PROVE LogInv'
<1>1. CASE Log!TimerFires
  <2>1. flushTimer \in Limits /\ Log!flush(flushTimer) /\ paused' \in BOOLEAN
        /\ UNCHANGED <<emitted, source_log, limit, restart>>
    BY <1>1 DEF Log!TimerFires, LogInv, LogTypes
  <2>2. fresh \/ flushTimer = limit \/ restart \/ source_log = Log!Closed
    BY <1>1 DEF Log!TimerFires, LogInv, Onwards
  <2> QED BY <2>1, <2>2, FlushKeeps
<1>2. CASE Log!Resume
  <2>1. limit \in Limits /\ Log!flush(limit) /\ UNCHANGED <<emitted, source_log, limit, restart>>
    BY <1>2 DEF Log!Resume, LogInv, LogTypes
  <2>2. paused' \in BOOLEAN
    BY <1>2, Zenon DEF Log!Resume
  <2> QED BY <2>1, <2>2, FlushKeeps
<1> QED BY <1>1, <1>2

LEMMA OtherLogSteps ==
  ASSUME LogInv, Log!Emit \/ Log!Pause \/ Log!Clear PROVE LogInv'
<1>1. UNCHANGED <<source_log, limit, pending, restart, fresh, flushTimer>>
  BY DEF Log!Emit, Log!Pause, Log!Clear, Log!view, Log!buffer
<1>2. emitted' \in Nat
  BY DEF Log!Emit, Log!Pause, Log!Clear, LogInv, LogTypes
<1>3. paused' \in BOOLEAN
  <2>1. paused' = TRUE \/ paused' = paused
    BY DEF Log!Emit, Log!Pause, Log!Clear, Log!view
  <2> QED BY <2>1 DEF LogInv, LogTypes
<1>4. streamed' = streamed \/ streamed' = <<>>
  BY DEF Log!Emit, Log!Pause, Log!Clear, Log!view
<1>5. LogTypes'
  <2>1. streamed' \in Seq(Nat)
    <3>1. streamed \in Seq(Nat) /\ <<>> \in Seq(Nat)
      BY DEF LogInv, LogTypes
    <3> QED BY <1>4, <3>1
  <2>2. restart' \in BOOLEAN /\ fresh' \in BOOLEAN
    BY <1>1 DEF LogInv, LogTypes
  <2> QED BY <1>1, <1>2, <1>3, <2>1, <2>2 DEF LogInv, LogTypes
<1>6. CASE streamed' = streamed
  BY <1>1, <1>5, <1>6 DEF LogInv, Onwards
<1>7. CASE streamed' = <<>>
  <2>1. streamed' \o pending' = pending
    BY <1>1, <1>7 DEF LogInv, LogTypes
  <2>2. Log!Stretch(streamed')
    BY <1>7 DEF Log!Stretch
  <2> QED BY <1>1, <1>5, <2>1, <2>2 DEF LogInv, Onwards
<1> QED BY <1>4, <1>6, <1>7

LEMMA LogStarts == Log!Init => LogInv
<1> SUFFICES ASSUME Log!Init PROVE LogInv
  OBVIOUS
<1>1. LogTypes
  <2>1. paused = FALSE /\ restart = FALSE /\ fresh = FALSE
    BY DEF Log!Init
  <2>2. paused \in BOOLEAN /\ restart \in BOOLEAN /\ fresh \in BOOLEAN
    BY <2>1, Zenon
  <2> QED BY <2>2 DEF Log!Init, LogTypes, Log!Closed
<1>2. Onwards
  BY DEF Log!Init, Onwards
<1> QED BY <1>1, <1>2 DEF LogInv

LEMMA LogSteps == LogInv /\ [Log!Next]_(Log!vars) => LogInv'
<1> SUFFICES ASSUME LogInv, [Log!Next]_(Log!vars) PROVE LogInv'
  OBVIOUS
<1>1. CASE UNCHANGED Log!vars
  BY <1>1 DEF Log!vars, Log!view, Log!buffer, LogInv, LogTypes, Onwards
<1> QED BY <1>1, ConnectionSteps, ReceiveKeeps, FlushSteps, OtherLogSteps DEF Log!Next

(* The screen is a stretch of the container's output, for any tail lengths and however many *)
(* lines and connections: no reconnection, pause, trimmed backlog or timer that fires late   *)
(* repeats a line or leaves one out (log-viewer.tsx).                                         *)
THEOREM ScreenIsAStretch == StreamsSpec => []NothingRepeatedOrSkipped
<1> DEFINE Inv == client = "log" => LogInv
<1>1. StreamsInit => Inv
  BY LogStarts DEF StreamsInit
<1>2. Inv /\ [StreamsNext]_streamsVars => Inv'
  BY StreamMoves, LogSteps
<1>3. Inv => NothingRepeatedOrSkipped
  BY DEF LogInv, Onwards, NothingRepeatedOrSkipped, Log!NothingRepeatedOrSkipped
<1> QED BY <1>1, <1>2, <1>3, PTL DEF StreamsSpec

-----------------------------------------------------------------------------
(* The inbox's marks. *)

LEMMA SameCount == ASSUME NEW S PROVE Marks!Cardinality(S) = Cardinality(S)
BY DEF Cardinality, Marks!Cardinality

\* The server lists no more than it is asked for: each row by how many are newer.
LEMMA ListIsShort ==
  ASSUME NEW rows \in SUBSET Nat, IsFiniteSet(rows)
  PROVE  /\ Marks!recent(rows) \subseteq rows /\ IsFiniteSet(Marks!recent(rows))
         /\ Cardinality(Marks!recent(rows)) <= ListedRows
<1> DEFINE above(d) == {e \in rows : e > d}
           listed == Marks!recent(rows)
           place == [d \in listed |-> Cardinality(above(d))]
<1>1. ASSUME NEW d \in rows PROVE IsFiniteSet(above(d)) /\ Cardinality(above(d)) \in Nat
  <2>1. above(d) \subseteq rows
    OBVIOUS
  <2> HIDE DEF above
  <2> QED BY <2>1, FS_Subset, FS_CardinalityType
<1>2. listed = {d \in rows : Cardinality(above(d)) < ListedRows}
  BY SameCount DEF Marks!recent
<1>3. ASSUME NEW d \in rows, NEW e \in rows,
        d < e PROVE Cardinality(above(e)) < Cardinality(above(d))
  <2>1. above(e) \subseteq above(d) /\ e \in above(d) /\ e \notin above(e)
    <3>1. \A x \in rows : x > e => x > d
      BY <1>3
    <3>2. e > d /\ ~(e > e)
      BY <1>3
    <3> QED BY <3>1, <3>2
  <2>2. Cardinality(above(e)) <= Cardinality(above(d)) /\
          Cardinality(above(e)) # Cardinality(above(d))
    <3> HIDE DEF above
    <3> QED BY <1>1, <2>1, FS_Subset
  <2> QED BY <1>1, <2>2
<1>4. place \in Injection(listed, 0..ListedRows - 1)
  <2>1. ASSUME NEW d \in listed PROVE place[d] \in 0..ListedRows - 1
    <3> HIDE DEF above, listed
    <3>1. d \in rows /\ Cardinality(above(d)) < ListedRows
      BY <1>2
    <3>2. Cardinality(above(d)) \in 0..ListedRows - 1
      BY <1>1, <3>1, FewTabs
    <3> QED BY <3>2
  <2>2. ASSUME NEW d \in listed, NEW e \in listed, place[d] = place[e] PROVE d = e
    <3>1. d \in rows /\ e \in rows /\ Cardinality(above(d)) = Cardinality(above(e))
      BY <1>2, <2>2
    <3> HIDE DEF above, listed, place
    <3>2. ~(d < e) /\ ~(e < d)
      BY <1>1, <1>3, <3>1
    <3> QED BY <3>1, <3>2
  <2> QED BY <2>1, <2>2 DEF Injection, IsInjective
<1>5. IsFiniteSet(0..ListedRows - 1) /\ Cardinality(0..ListedRows - 1) = ListedRows
  <2>1. 0 \in Int /\ ListedRows - 1 \in Int /\ ~(0 > ListedRows - 1)
    BY FewTabs
  <2>2. ListedRows - 1 - 0 + 1 = ListedRows
    BY FewTabs
  <2> QED BY <2>1, <2>2, FS_Interval
<1> HIDE DEF place, listed
<1>6. IsFiniteSet(listed) /\ Cardinality(listed) <= ListedRows
  BY <1>4, <1>5, FS_Injection
<1> QED BY <1>2, <1>6 DEF listed

\* Short lists, one per tab, hold few ids between them.
LEMMA UnionIsShort ==
  ASSUME NEW T, IsFiniteSet(T), NEW lists, NEW n \in Nat,
         \A t \in T : IsFiniteSet(lists[t]) /\ Cardinality(lists[t]) <= n
  PROVE  LET all == UNION {lists[t] : t \in T}
         IN  IsFiniteSet(all) /\ Cardinality(all) <= Cardinality(T) * n
<1> DEFINE all == UNION {lists[t] : t \in T}
           nth(t) == CHOOSE f : f \in Bijection(1..Cardinality(lists[t]), lists[t])
           dom == {p \in T \X (1..n) : p[2] <= Cardinality(lists[p[1]])}
           pick == [p \in dom |-> nth(p[1])[p[2]]]
<1>1. ASSUME NEW t \in T
      PROVE  Cardinality(lists[t]) \in Nat /\ nth(t) \in Bijection(1..Cardinality(lists[t]),
              lists[t])
  <2>1. ExistsBijection(1..Cardinality(lists[t]), lists[t]) /\ Cardinality(lists[t]) \in Nat
    BY FS_CardinalityType
  <2> QED BY <2>1 DEF ExistsBijection
<1>2. IsFiniteSet(T \X (1..n)) /\ Cardinality(T \X (1..n)) = Cardinality(T) * n
  <2>1. IsFiniteSet(1..n) /\ Cardinality(1..n) = n
    <3>1. 1 \in Int /\ n \in Int
      OBVIOUS
    <3>2. IsFiniteSet(1..n) /\ Cardinality(1..n) = IF 1 > n THEN 0 ELSE n - 1 + 1
      BY <3>1, FS_Interval
    <3> QED BY <3>2
  <2> QED BY <2>1, FS_Product
<1>3. pick \in Surjection(dom, all)
  <2> HIDE DEF nth
  <2>1. ASSUME NEW p \in dom PROVE pick[p] \in all
    <3>1. p[1] \in T /\ p[2] \in 1..n /\ p[2] <= Cardinality(lists[p[1]])
      OBVIOUS
    <3>2. p[2] \in 1..Cardinality(lists[p[1]])
      BY <1>1, <3>1
    <3>3. nth(p[1])[p[2]] \in lists[p[1]]
      BY <1>1, <3>1, <3>2 DEF Bijection, Injection, Surjection
    <3> QED BY <3>1, <3>3
  <2>2. ASSUME NEW x \in all PROVE \E p \in dom : pick[p] = x
    <3>1. PICK t \in T : x \in lists[t]
      OBVIOUS
    <3>2. PICK i \in 1..Cardinality(lists[t]) : nth(t)[i] = x
      BY <1>1, <3>1 DEF Bijection, Surjection
    <3>3. i \in 1..n /\ i <= Cardinality(lists[t])
      BY <1>1, <3>2
    <3>4. <<t, i>> \in dom
      BY <3>3
    <3>5. pick[<<t, i>>] = x
      BY <3>2, <3>4
    <3> QED BY <3>4, <3>5
  <2>3. pick \in [dom -> all]
    <3> HIDE DEF all, dom
    <3> QED BY <2>1
  <2> HIDE DEF all, dom, pick
  <2> QED BY <2>2, <2>3 DEF Surjection
<1>4. IsFiniteSet(dom) /\ Cardinality(dom) <= Cardinality(T) * n
  <2>1. dom \in SUBSET (T \X (1..n))
    OBVIOUS
  <2> HIDE DEF dom
  <2> QED BY <1>2, <2>1, FS_Subset
<1>5. IsFiniteSet(all) /\ Cardinality(all) <= Cardinality(dom)
  <2> HIDE DEF all, dom, pick
  <2> QED BY <1>3, <1>4, FS_Surjection
<1>6. Cardinality(all) \in Nat /\ Cardinality(dom) \in Nat /\ Cardinality(T) * n \in Nat
  <2>1. Cardinality(T) \in Nat
    BY FS_CardinalityType
  <2>2. Cardinality(T) * n \in Nat
    BY <2>1
  <2> HIDE DEF all, dom
  <2> QED BY <1>4, <1>5, <2>2, FS_CardinalityType
<1> HIDE DEF all, dom
<1>7. Cardinality(all) <= Cardinality(T) * n
  BY <1>4, <1>5, <1>6
<1> QED BY <1>5, <1>7 DEF all

\* A kept list has an id once, and what was added after an id lies in S.
Unique(q) == \A i, j \in 1..Len(q) : q[i] = q[j] => i = j
Behind(q, d, S) == \E i \in 1..Len(q) : q[i] = d /\ \A j \in i + 1..Len(q) : q[j] \in S

LEMMA Removed ==
  ASSUME NEW q \in Seq(Nat), Unique(q), NEW id
  PROVE  LET r == Marks!RemoveFirst(q, id)
         IN  /\ r \in Seq(Nat) /\ Unique(r) /\ Len(r) <= Len(q)
             /\ \A i \in 1..Len(r) : r[i] # id /\ \E j \in 1..Len(q) : r[i] = q[j]
             /\ \A d, S : Behind(q, d, S) /\ d # id => Behind(r, d, S)
<1>l. Len(q) \in Nat
  OBVIOUS
<1>1. CASE ~\E i \in 1..Len(q) : q[i] = id
  BY <1>1, <1>l DEF Marks!RemoveFirst
<1>2. ASSUME NEW n \in 1..Len(q), q[n] = id
      PROVE  LET r == Marks!RemoveFirst(q, id)
             IN  /\ r \in Seq(Nat) /\ Unique(r) /\ Len(r) <= Len(q)
                 /\ \A i \in 1..Len(r) : r[i] # id /\ \E j \in 1..Len(q) : r[i] = q[j]
                 /\ \A d, S : Behind(q, d, S) /\ d # id => Behind(r, d, S)
  <2> DEFINE r == SubSeq(q, 1, n - 1) \o SubSeq(q, n + 1, Len(q))
             from(i) == IF i < n THEN i ELSE i + 1
  <2>1. Marks!RemoveFirst(q, id) = r
    <3>1. {i \in 1..Len(q) : q[i] = id} = {n}
      BY <1>2 DEF Unique
    <3>2. Marks!Min({n}) = n
      BY DEF Marks!Min
    <3>3. Marks!SelectInSeq(q, LAMBDA v : v = id) = n
      BY <3>1, <3>2 DEF Marks!SelectInSeq
    <3> QED BY <1>2, <3>3 DEF Marks!RemoveFirst, Marks!RemoveAt
  <2>2. /\ r \in Seq(Nat) /\ Len(r) = Len(q) - 1
        /\ \A i \in 1..Len(q) - 1 : r[i] = q[from(i)]
    <3> DEFINE a == SubSeq(q, 1, n - 1)
               b == SubSeq(q, n + 1, Len(q))
    <3>1. a \in Seq(Nat) /\ Len(a) = n - 1 /\ \A i \in 1..n - 1 : a[i] = q[i]
      BY <1>l
    <3>2. b \in Seq(Nat) /\ Len(b) = Len(q) - n /\ \A i \in 1..Len(q) - n : b[i] = q[n + i]
      BY <1>l
    <3> HIDE DEF a, b
    <3>3. a \o b \in Seq(Nat) /\ Len(a \o b) = Len(q) - 1
      <4>1. a \o b \in Seq(Nat) /\ Len(a \o b) = Len(a) + Len(b)
        BY <3>1, <3>2, ConcatProperties
      <4>2. n - 1 + (Len(q) - n) = Len(q) - 1
        BY <1>l
      <4> QED BY <3>1, <3>2, <4>1, <4>2
    <3>4. ASSUME NEW i \in 1..Len(q) - 1 PROVE (a \o b)[i] = q[from(i)]
      <4>1. CASE i < n
        <5>1. i \in 1..Len(a)
          BY <1>l, <3>1, <4>1
        <5>2. (a \o b)[i] = a[i]
          BY <3>1, <3>2, <5>1
        <5> QED BY <3>1, <4>1, <5>1, <5>2
      <4>2. CASE ~(i < n)
        <5>1. i - (n - 1) \in 1..Len(q) - n /\ n + (i - (n - 1)) = i + 1
          BY <1>l, <4>2
        <5>2. i \in 1..Len(a) + Len(b) /\ Len(a) = n - 1 /\ ~(i <= Len(a))
          BY <1>l, <3>1, <3>2, <4>2
        <5>3. (a \o b)[i] = b[i - Len(a)]
          BY <3>1, <3>2, <5>2, ConcatProperties
        <5> QED BY <3>2, <4>2, <5>1, <5>2, <5>3
      <4> QED BY <4>1, <4>2
    <3> QED BY <3>3, <3>4 DEF a, b
  <2> HIDE DEF r
  <2>3. ASSUME NEW i \in 1..Len(r)
        PROVE  from(i) \in 1..Len(q) /\ from(i) # n /\ r[i] = q[from(i)]
    <3>1. i \in 1..Len(q) - 1
      BY <2>2
    <3>2. from(i) \in 1..Len(q) /\ from(i) # n
      BY <1>l, <3>1
    <3> QED BY <2>2, <3>1, <3>2
  <2>4. \A i, j \in 1..Len(r) : from(i) = from(j) => i = j
    <3>1. \A i, j \in 1..Len(q) - 1 : from(i) = from(j) => i = j
      BY <1>l
    <3> QED BY <2>2, <3>1
  <2>5. \A i, j \in 1..Len(r) : i < j => from(i) < from(j)
    <3>1. \A i, j \in 1..Len(q) - 1 : i < j => from(i) < from(j)
      BY <1>l
    <3> QED BY <2>2, <3>1
  <2> HIDE DEF from
  <2>6. Unique(r)
    BY <2>3, <2>4 DEF Unique
  <2>7. \A i \in 1..Len(r) : r[i] # id /\ \E j \in 1..Len(q) : r[i] = q[j]
    BY <1>2, <2>3 DEF Unique
  <2>8. ASSUME NEW d, NEW S, Behind(q, d, S), d # id PROVE Behind(r, d, S)
    <3>1. PICK m \in 1..Len(q) : q[m] = d /\ \A j \in m + 1..Len(q) : q[j] \in S
      BY <2>8 DEF Behind
    <3>2. m # n
      BY <1>2, <2>8, <3>1
    <3>3. PICK k \in 1..Len(r) : from(k) = m
      <4>1. CASE m < n
        <5>1. m \in 1..Len(r) /\ from(m) = m
          BY <1>l, <2>2, <4>1 DEF from
        <5> QED BY <5>1
      <4>2. CASE m > n
        <5>1. m - 1 \in 1..Len(r) /\ from(m - 1) = m
          BY <1>l, <2>2, <4>2 DEF from
        <5> QED BY <5>1
      <4> QED BY <3>2, <4>1, <4>2
    <3>4. r[k] = d
      BY <2>3, <3>1, <3>3
    <3>5. ASSUME NEW j \in k + 1..Len(r) PROVE r[j] \in S
      <4>1. j \in 1..Len(r) /\ k < j
        OBVIOUS
      <4>2. from(j) \in 1..Len(q) /\ m < from(j)
        BY <2>3, <2>5, <3>3, <4>1
      <4>3. from(j) \in m + 1..Len(q)
        BY <1>l, <4>2
      <4> QED BY <4>3, <2>3, <3>1, <4>1, <4>2
    <3> QED BY <3>4, <3>5 DEF Behind
  <2> QED BY <1>l, <2>1, <2>2, <2>6, <2>7, <2>8
<1> QED BY <1>1, <1>2

LEMMA Appended ==
  ASSUME NEW q \in Seq(Nat), Unique(q), NEW id \in Nat, ~\E i \in 1..Len(q) : q[i] = id
  PROVE  LET r == Append(q, id)
         IN  /\ r \in Seq(Nat) /\ Unique(r) /\ Len(r) = Len(q) + 1
             /\ \A i \in 1..Len(r) : r[i] = id \/ \E j \in 1..Len(q) : r[i] = q[j]
             /\ \A d, S : Behind(q, d, S) /\ id \in S => Behind(r, d, S)
             /\ \A S : Behind(r, id, S)
<1> DEFINE r == Append(q, id)
<1>1. /\ r \in Seq(Nat) /\ Len(r) = Len(q) + 1 /\ Len(q) \in Nat
      /\ \A i \in 1..Len(q) : r[i] = q[i]
      /\ r[Len(q) + 1] = id
  OBVIOUS
<1> HIDE DEF r
<1>2. \A i \in 1..Len(r) : i = Len(q) + 1 \/ i \in 1..Len(q)
  BY <1>1
<1>3. Unique(r)
  BY <1>1, <1>2 DEF Unique
<1>4. \A i \in 1..Len(r) : r[i] = id \/ \E j \in 1..Len(q) : r[i] = q[j]
  BY <1>1, <1>2
<1>5. ASSUME NEW d, NEW S, Behind(q, d, S), id \in S PROVE Behind(r, d, S)
  <2>1. PICK m \in 1..Len(q) : q[m] = d /\ \A j \in m + 1..Len(q) : q[j] \in S
    BY <1>5 DEF Behind
  <2>2. m \in 1..Len(r) /\ r[m] = d
    BY <1>1, <2>1
  <2>3. ASSUME NEW j \in m + 1..Len(r) PROVE r[j] \in S
    <3>1. j = Len(q) + 1 \/ j \in m + 1..Len(q)
      <4>1. Len(r) = Len(q) + 1 /\ Len(q) \in Nat /\ m \in Nat
        BY <1>1
      <4>2. j \in Int /\ m + 1 <= j /\ j <= Len(r)
        BY <4>1
      <4> QED BY <4>1, <4>2
    <3>2. \A x \in m + 1..Len(q) : x \in 1..Len(q)
      BY <1>1
    <3> QED BY <1>1, <1>5, <2>1, <3>1, <3>2
  <2> QED BY <2>2, <2>3 DEF Behind
<1>6. ASSUME NEW S PROVE Behind(r, id, S)
  <2>1. Len(q) + 1 \in 1..Len(r)
    BY <1>1
  <2>2. \A j \in (Len(q) + 1) + 1..Len(r) : FALSE
    BY <1>1
  <2> QED BY <1>1, <2>1, <2>2 DEF Behind
<1>7. /\ r \in Seq(Nat) /\ Unique(r) /\ Len(r) = Len(q) + 1
      /\ \A i \in 1..Len(r) : r[i] = id \/ \E j \in 1..Len(q) : r[i] = q[j]
      /\ \A d, S : Behind(q, d, S) /\ id \in S => Behind(r, d, S)
      /\ \A S : Behind(r, id, S)
  BY <1>1, <1>3, <1>4, <1>5, <1>6
<1> QED BY <1>7 DEF r

\* The limit drops nothing that fewer ids than are kept were added after.
LEMMA Trimmed ==
  ASSUME NEW q \in Seq(Nat), Unique(q)
  PROVE  LET r == Marks!trimmed(q)
         IN  /\ r \in Seq(Nat) /\ Unique(r) /\ Len(r) <= Keep
             /\ \A i \in 1..Len(r) : \E j \in 1..Len(q) : r[i] = q[j]
             /\ \A d, S : /\ Behind(q, d, S) /\ IsFiniteSet(S) /\ Cardinality(S) < Keep
                          => Behind(r, d, S)
<1>l. Len(q) \in Nat /\ Keep \in Nat
  BY FewTabs
<1>1. CASE Len(q) <= Keep
  <2>1. Marks!trimmed(q) = q
    <3>1. SubSeq(q, 1, Len(q)) = q
      BY <1>l
    <3>2. ~(Len(q) > Keep)
      BY <1>1, <1>l
    <3> QED BY <3>1, <3>2 DEF Marks!trimmed
  <2> QED BY <1>1, <2>1
<1>2. CASE Len(q) > Keep
  <2> DEFINE cut == Len(q) - Keep
             r == SubSeq(q, cut + 1, Len(q))
  <2>1. Marks!trimmed(q) = r
    BY <1>2 DEF Marks!trimmed
  <2>2. cut \in Nat /\ Len(q) = cut + Keep /\ cut > 0
    BY <1>l, <1>2
  <2> HIDE DEF cut
  <2>3. r \in Seq(Nat) /\ Len(r) = Keep /\ \A i \in 1..Keep : r[i] = q[cut + i]
    BY <1>l, <2>2
  <2> HIDE DEF r
  <2>4. \A i \in 1..Keep : cut + i \in 1..Len(q)
    BY <1>l, <2>2
  <2>5. Unique(r)
    <3>1. \A i, j \in 1..Keep : cut + i = cut + j => i = j
      BY <1>l, <2>2
    <3> QED BY <2>3, <2>4, <3>1 DEF Unique
  <2>6. ASSUME NEW d, NEW S, Behind(q, d, S), IsFiniteSet(S), Cardinality(S) < Keep
        PROVE  Behind(r, d, S)
    <3>1. PICK m \in 1..Len(q) : q[m] = d /\ \A j \in m + 1..Len(q) : q[j] \in S
      BY <2>6 DEF Behind
    <3>2. m > cut
      <4> SUFFICES ASSUME m <= cut PROVE FALSE
        BY <2>2
      <4> DEFINE f == [j \in m + 1..Len(q) |-> q[j]]
      <4>1. f \in Injection(m + 1..Len(q), S)
        <5>1. \A i, j \in m + 1..Len(q) : i \in 1..Len(q) /\ j \in 1..Len(q)
          BY <1>l
        <5>2. \A i, j \in m + 1..Len(q) : f[i] = f[j] => i = j
          BY <5>1 DEF Unique
        <5> QED BY <3>1, <5>2 DEF Injection, IsInjective
      <4>2. IsFiniteSet(m + 1..Len(q)) /\ Cardinality(m + 1..Len(q)) = Len(q) - m
        <5>1. m + 1 \in Int /\ Len(q) \in Int
          BY <1>l
        <5>2. Len(q) - (m + 1) + 1 = Len(q) - m /\ (m + 1 > Len(q) => m = Len(q))
          BY <1>l
        <5>3. m = Len(q) => Len(q) - m = 0 /\ m + 1 > Len(q)
          BY <1>l
        <5> QED BY <5>1, <5>2, <5>3, FS_Interval
      <4> HIDE DEF f
      <4>3. Cardinality(m + 1..Len(q)) <= Cardinality(S)
        BY <2>6, <4>1, FS_Injection
      <4>4. Cardinality(S) \in Nat
        BY <2>6, FS_CardinalityType
      <4> QED BY <1>l, <2>2, <2>6, <4>2, <4>3, <4>4
    <3>3. m - cut \in 1..Len(r) /\ cut + (m - cut) = m
      BY <1>l, <2>2, <2>3, <3>2
    <3>4. r[m - cut] = d
      BY <2>3, <3>1, <3>3
    <3>5. ASSUME NEW j \in m - cut + 1..Len(r) PROVE r[j] \in S
      <4>1. j \in 1..Keep /\ cut + j \in m + 1..Len(q)
        BY <1>l, <2>2, <2>3, <3>2
      <4> QED BY <2>3, <3>1, <4>1
    <3> QED BY <3>3, <3>4, <3>5 DEF Behind
  <2>7. Len(r) <= Keep
    BY <1>l, <2>3
  <2> QED BY <2>1, <2>3, <2>4, <2>5, <2>6, <2>7
<1> QED BY <1>l, <1>1, <1>2

-----------------------------------------------------------------------------
\* Around a listed deployment only so many stand: those a list that has it has below it.
Beside(d, B, rows, lists) ==
    /\ IsFiniteSet(B) /\ Cardinality(B) <= ListedRows
    /\ Marks!recent(rows) \cap 1..d \subseteq B
    /\ \A t \in Tabs : d \in lists[t] => lists[t] \cap 1..d \subseteq B

\* All that can be marked after a mark on d while d stays listed: fewer than are kept.
Enough(d, S, rows, lists) ==
    /\ IsFiniteSet(S) /\ Cardinality(S) < Keep
    /\ Marks!recent(rows) \ {d} \subseteq S
    /\ \A t \in Tabs : lists[t] \ {d} \subseteq S
    /\ d + 1..d + ListedRows - 1 \subseteq S

TabsOK(new, rows, lists, todo) ==
    /\ new \in 0..MaxDeployments /\ rows \subseteq 1..new
    /\ lists \in [Tabs -> SUBSET (1..new)] /\ todo \in [Tabs -> SUBSET Marks!Calls]
    /\ \A t \in Tabs : /\ IsFiniteSet(lists[t]) /\ Cardinality(lists[t]) <= ListedRows
                       /\ \A c \in todo[t] : c.id \in lists[t]

\* What is kept is what was marked last, of the deployments there are.
KeptOK(q, marked, new) ==
    /\ q \in Seq(Nat) /\ Unique(q) /\ Len(q) <= Keep
    /\ \A i \in 1..Len(q) : q[i] \in Marks!Ids /\ marked[q[i]]
    /\ \A d \in Marks!Ids : marked[d] => d <= new

StoreOK(kept, marks, new) ==
    /\ kept \in [Marks!Keys -> Seq(Nat)] /\ marks \in [Marks!Keys -> [Marks!Ids -> BOOLEAN]]
    /\ \A key \in Marks!Keys : KeptOK(kept[key], marks[key], new)

\* A deployment in its place: nothing newer is gone, and a mark on it is safe.
Safe(d, new, rows, lists, kept, marks) ==
    /\ d..new \subseteq rows
    /\ \E B : Beside(d, B, rows, lists)
    /\ \A key \in Marks!Keys : marks[key][d] =>
          \E S : Enough(d, S, rows, lists) /\ Behind(kept[key], d, S)

Placed(new, rows, lists, kept, marks, out) ==
    \A d \in Marks!recent(rows) \ out : Safe(d, new, rows, lists, kept, marks)

InboxInv ==
    /\ TabsOK(newest, deployments, list_inbox, calls)
    /\ StoreOK(stored_inbox, last, newest)
    /\ Placed(newest, deployments, list_inbox, stored_inbox, last, left)

-----------------------------------------------------------------------------
LEMMA NewerAreListed ==
  ASSUME NEW rows \in SUBSET Nat, IsFiniteSet(rows), NEW d \in Marks!recent(rows),
         NEW e \in rows, d <= e
  PROVE  e \in Marks!recent(rows)
<1> DEFINE above(x) == {y \in rows : y > x}
<1>1. d \in rows /\ Cardinality(above(d)) < ListedRows
  BY SameCount DEF Marks!recent
<1>2. above(e) \subseteq above(d)
  <2>1. \A y \in rows : y > e => y > d
    BY <1>1
  <2> QED BY <2>1
<1>3. above(d) \subseteq rows
  OBVIOUS
<1>4. Cardinality(above(e)) < ListedRows
  <2> HIDE DEF above
  <2>1. IsFiniteSet(above(d)) /\ IsFiniteSet(above(e)) /\
          Cardinality(above(e)) <= Cardinality(above(d))
    BY <1>2, <1>3, FS_Subset
  <2>2. Cardinality(above(e)) \in Nat /\ Cardinality(above(d)) \in Nat
    BY <2>1, FS_CardinalityType
  <2> QED BY <1>1, <2>1, <2>2, FewTabs
<1> QED BY <1>4, SameCount DEF Marks!recent

\* A listed deployment with all newer ones there is one of the last few.
LEMMA NewerAreFew ==
  ASSUME NEW new \in Nat, NEW rows \in SUBSET (1..new), NEW d \in Marks!recent(rows),
         d..new \subseteq rows
  PROVE  new <= d + ListedRows - 1 /\ d + 1..new \subseteq d + 1..d + ListedRows - 1
<1> DEFINE above == {y \in rows : y > d}
<1>1. d \in rows /\ d \in 1..new /\ Cardinality(above) < ListedRows
  BY SameCount DEF Marks!recent
<1>2. above = d + 1..new
  <2>1. \A y \in rows : y > d => y \in d + 1..new
    BY <1>1
  <2>2. \A y \in d + 1..new : y \in rows /\ y > d
    BY <1>1
  <2> QED BY <2>1, <2>2
<1>3. Cardinality(d + 1..new) = new - d
  <2>1. d + 1 \in Int /\ new \in Int /\ (d + 1 > new => new - d = 0) /\
          new - (d + 1) + 1 = new - d
    BY <1>1
  <2> QED BY <2>1, FS_Interval
<1>4. new - d < ListedRows
  BY <1>1, <1>2, <1>3
<1>5. new <= d + ListedRows - 1
  BY <1>1, <1>4, FewTabs
<1> QED BY <1>1, <1>5, FewTabs

\* What can be marked after a mark made now: the list d stands in, what is newer and what may
\* still come while d is listed, and the lists of the other tabs.
LEMMA EnoughRoom ==
  ASSUME NEW new, NEW rows, NEW lists, NEW todo, TabsOK(new, rows, lists, todo),
         NEW t \in Tabs, NEW d \in Marks!recent(rows) \cap lists[t], d..new \subseteq rows,
         NEW B, Beside(d, B, rows, lists)
  PROVE  \E S : Enough(d, S, rows, lists)
<1> DEFINE others == Tabs \ {t}
           all == UNION {lists[o] : o \in others}
           coming == d + 1..d + ListedRows - 1
           below == B \ {d}
           S == (below \cup coming) \cup all
<1>1. IsFiniteSet(others) /\ Cardinality(others) = Cardinality(Tabs) - 1 /\
        Cardinality(Tabs) \in Nat
  BY FewTabs, FS_RemoveElement, FS_CardinalityType
<1>2. IsFiniteSet(all) /\ Cardinality(all) <= Cardinality(others) * ListedRows
  <2>1. \A o \in others : IsFiniteSet(lists[o]) /\ Cardinality(lists[o]) <= ListedRows
    BY DEF TabsOK
  <2> HIDE DEF others
  <2> QED BY <1>1, <2>1, FewTabs, UnionIsShort
<1>3. new \in Nat /\ rows \subseteq 1..new /\ d \in 1..new /\ d \in rows
  BY FewTabs DEF TabsOK, Marks!recent
<1>4. IsFiniteSet(coming) /\ Cardinality(coming) = ListedRows - 1
  <2>1. /\ d + 1 \in Int /\ d + ListedRows - 1 \in Int
        /\ d + 1 > d + ListedRows - 1 => ListedRows - 1 = 0
        /\ d + ListedRows - 1 - (d + 1) + 1 = ListedRows - 1
    BY <1>3, FewTabs
  <2> DEFINE a == d + 1
             b == d + ListedRows - 1
  <2>2. a \in Int /\ b \in Int /\ (a > b => ListedRows - 1 = 0) /\ b - a + 1 = ListedRows - 1
    BY <1>3, <2>1, FewTabs
  <2> HIDE DEF a, b
  <2>3. IsFiniteSet(a..b) /\ Cardinality(a..b) = ListedRows - 1
    BY <2>2, FS_Interval
  <2> QED BY <2>3 DEF a, b
<1>5. IsFiniteSet(below) /\ Cardinality(below) <= ListedRows - 1
  <2>1. d \in B /\ IsFiniteSet(B) /\ Cardinality(B) <= ListedRows
    BY <1>3 DEF Beside
  <2>2. Cardinality(B) \in Nat /\ IsFiniteSet(below) /\ Cardinality(below) = Cardinality(B) - 1
    BY <2>1, FS_RemoveElement, FS_CardinalityType
  <2> QED BY <2>1, <2>2, FewTabs
<1>6. ASSUME NEW P, NEW Q, IsFiniteSet(P), IsFiniteSet(Q)
      PROVE  /\ IsFiniteSet(P \cup Q) /\ Cardinality(P \cup Q) \in Nat
             /\ Cardinality(P) \in Nat /\ Cardinality(Q) \in Nat
             /\ Cardinality(P \cup Q) <= Cardinality(P) + Cardinality(Q)
  <2>1. /\ IsFiniteSet(P \cup Q) /\ IsFiniteSet(P \cap Q)
        /\ Cardinality(P \cup Q) = Cardinality(P) + Cardinality(Q) - Cardinality(P \cap Q)
    BY <1>6, FS_Union, FS_Intersection
  <2>2. Cardinality(P \cup Q) \in Nat /\ Cardinality(P \cap Q) \in Nat /\
        Cardinality(P) \in Nat /\ Cardinality(Q) \in Nat
    BY <1>6, <2>1, FS_CardinalityType
  <2> QED BY <2>1, <2>2
<1>7. IsFiniteSet(S) /\ Cardinality(S) < Keep
  <2> HIDE DEF below, coming, all
  <2>1. /\ IsFiniteSet(below \cup coming) /\ Cardinality(below \cup coming) \in Nat
        /\ Cardinality(below \cup coming) <= 2 * (ListedRows - 1)
    <3>1. /\ IsFiniteSet(below \cup coming) /\ Cardinality(below \cup coming) \in Nat
          /\ Cardinality(below) \in Nat /\ Cardinality(coming) \in Nat
          /\ Cardinality(below \cup coming) <= Cardinality(below) + Cardinality(coming)
      BY <1>4, <1>5, <1>6
    <3> QED BY <1>4, <1>5, <3>1, FewTabs
  <2>2. /\ IsFiniteSet(S) /\ Cardinality(S) \in Nat /\ Cardinality(all) \in Nat
        /\ Cardinality(S) <= Cardinality(below \cup coming) + Cardinality(all)
    <3> DEFINE near == below \cup coming
    <3>1. IsFiniteSet(near)
      BY <2>1
    <3> HIDE DEF near
    <3>2. /\ IsFiniteSet(near \cup all) /\ Cardinality(near \cup all) \in Nat
          /\ Cardinality(all) \in Nat
          /\ Cardinality(near \cup all) <= Cardinality(near) + Cardinality(all)
      BY <1>2, <1>6, <3>1
    <3> QED BY <3>2 DEF near
  <2> DEFINE product == Cardinality(others) * ListedRows
             whole == (Cardinality(Tabs) + 1) * ListedRows
  <2>3. whole = product + 2 * ListedRows /\ product \in Nat
    <3> DEFINE o == Cardinality(others)
    <3>1. o \in Int /\ Cardinality(Tabs) + 1 = o + 2 /\ ListedRows \in Int
      BY <1>1, FewTabs
    <3> HIDE DEF o
    <3>2. (o + 2) * ListedRows = o * ListedRows + 2 * ListedRows
      BY <3>1
    <3>3. o \in Nat
      <4>1. IsFiniteSet(others)
        BY <1>1
      <4> HIDE DEF others
      <4> QED BY <4>1, FS_CardinalityType DEF o
    <3>4. o * ListedRows \in Nat
      BY <3>3, FewTabs
    <3> QED BY <3>1, <3>2, <3>4 DEF o
  <2>4. Cardinality(all) <= product /\ Keep >= whole - 1 /\ Keep \in Nat
    BY <1>2, FewTabs
  <2> HIDE DEF product, whole, S
  <2> QED BY <2>1, <2>2, <2>3, <2>4, FewTabs
<1>8. ASSUME NEW e \in 1..new, e # d PROVE e < d \/ e \in coming
  <2>1. new <= d + ListedRows - 1
    BY <1>3, NewerAreFew
  <2>2. e \in Int /\ d \in Int /\ e <= new /\ e # d
    BY <1>3, <1>8
  <2>3. e < d \/ (d + 1 <= e /\ e <= d + ListedRows - 1)
    BY <1>3, <2>1, <2>2, FewTabs
  <2>4. d + ListedRows - 1 \in Int
    BY <1>3, FewTabs
  <2> QED BY <2>2, <2>3, <2>4
<1>9. Marks!recent(rows) \ {d} \subseteq S
  <2>1. ASSUME NEW e \in Marks!recent(rows), e # d PROVE e \in S
    <3>1. e \in 1..new
      BY <1>3 DEF Marks!recent
    <3>2. e < d => e \in B
      BY <1>3, <3>1 DEF Beside
    <3> QED BY <1>8, <2>1, <3>1, <3>2
  <2> QED BY <2>1
<1>10. ASSUME NEW o \in Tabs, NEW e \in lists[o], e # d PROVE e \in S
  <2>1. CASE o # t
    BY <2>1
  <2>2. CASE o = t
    <3>1. e \in 1..new
      BY DEF TabsOK
    <3>2. e < d => e \in B
      BY <1>3, <2>2, <3>1 DEF Beside
    <3> QED BY <1>8, <1>10, <3>1, <3>2
  <2> QED BY <2>1, <2>2
<1>11. Enough(d, S, rows, lists)
  <2>1. coming \subseteq S
    OBVIOUS
  <2>2. \A o \in Tabs : lists[o] \ {d} \subseteq S
    BY <1>10
  <2> HIDE DEF S
  <2> QED BY <1>7, <1>9, <2>1, <2>2 DEF Enough
<1> HIDE DEF S
<1> QED BY <1>11

-----------------------------------------------------------------------------
LEMMA KeyNames == ASSUME NEW key \in Marks!Keys PROVE key = "read" \/ key = "dismissed"
BY DEF Marks!Keys

\* The rows and what is listed of them are finite and numbered.
LEMMA RowsOf ==
  ASSUME NEW new, NEW rows, NEW lists, NEW todo, TabsOK(new, rows, lists, todo)
  PROVE  /\ new \in Nat /\ rows \in SUBSET (1..new) /\ rows \in SUBSET Nat /\ IsFiniteSet(rows)
         /\ Marks!recent(rows) \subseteq rows /\ IsFiniteSet(Marks!recent(rows))
         /\ Cardinality(Marks!recent(rows)) <= ListedRows
<1>1. new \in Nat /\ rows \in SUBSET (1..new)
  BY FewTabs DEF TabsOK
<1>2. rows \in SUBSET Nat
  BY <1>1
<1>3. IsFiniteSet(rows)
  <2>1. 1 \in Int /\ new \in Int
    BY <1>1
  <2>2. IsFiniteSet(1..new)
    BY <2>1, FS_Interval
  <2> QED BY <1>1, <2>2, FS_Subset
<1> QED BY <1>1, <1>2, <1>3, ListIsShort

LEMMA InboxInit == Marks!Init => InboxInv
<1> SUFFICES ASSUME Marks!Init PROVE InboxInv
  OBVIOUS
<1>0. /\ newest = ListedRows /\ deployments = 1..newest /\ left = {}
      /\ stored_inbox = [key \in Marks!Keys |-> <<>>]
      /\ list_inbox = [t \in Tabs |-> Marks!recent(deployments)]
      /\ calls = [t \in Tabs |-> {}]
      /\ last = [key \in Marks!Keys |-> [d \in Marks!Ids |-> FALSE]]
  BY DEF Marks!Init
<1>1. /\ newest \in 0..MaxDeployments /\ newest \in Nat /\ deployments \in SUBSET Nat
      /\ IsFiniteSet(deployments)
  <2>1. newest \in 0..MaxDeployments /\ newest \in Nat /\ 1 \in Int /\ newest \in Int
    BY <1>0, FewTabs
  <2> QED BY <1>0, <2>1, FS_Interval
<1>2. /\ Marks!recent(deployments) \subseteq deployments
      /\ IsFiniteSet(Marks!recent(deployments))
      /\ Cardinality(Marks!recent(deployments)) <= ListedRows
  BY <1>1, ListIsShort
<1>3. TabsOK(newest, deployments, list_inbox, calls)
  <2>1. list_inbox \in [Tabs -> SUBSET (1..newest)]
    BY <1>0, <1>2
  <2>2. calls \in [Tabs -> SUBSET Marks!Calls]
    BY <1>0
  <2> QED BY <1>0, <1>1, <1>2, <2>1, <2>2 DEF TabsOK
<1>4. StoreOK(stored_inbox, last, newest)
  <2>1. stored_inbox \in [Marks!Keys -> Seq(Nat)] /\
          \A key \in Marks!Keys : stored_inbox[key] = <<>>
    BY <1>0
  <2>2. last \in [Marks!Keys -> [Marks!Ids -> BOOLEAN]]
    BY <1>0
  <2>3. ASSUME NEW key \in Marks!Keys PROVE KeptOK(stored_inbox[key], last[key], newest)
    <3>1. stored_inbox[key] = <<>> /\ \A d \in Marks!Ids : last[key][d] = FALSE
      BY <1>0
    <3>2. Len(stored_inbox[key]) = 0 /\ stored_inbox[key] \in Seq(Nat)
      BY <3>1
    <3> QED BY <3>1, <3>2, FewTabs DEF KeptOK, Unique
  <2> QED BY <2>1, <2>2, <2>3 DEF StoreOK
<1>5. ASSUME NEW d \in Marks!recent(deployments)
      PROVE  Safe(d, newest, deployments, list_inbox, stored_inbox, last)
  <2>1. d \in 1..newest
    BY <1>0, <1>2
  <2>2. d..newest \subseteq deployments
    BY <1>0, <1>1, <2>1
  <2>3. Beside(d, Marks!recent(deployments), deployments, list_inbox)
    BY <1>0, <1>2 DEF Beside
  <2>4. d \in Marks!Ids
    BY <1>1, <2>1, FewTabs DEF Marks!Ids
  <2>5. \A key \in Marks!Keys : ~last[key][d]
    BY <1>0, <2>4
  <2> QED BY <2>2, <2>3, <2>5 DEF Safe
<1> QED BY <1>3, <1>4, <1>5 DEF InboxInv, Placed

-----------------------------------------------------------------------------
LEMMA DeployKeeps == ASSUME InboxInv, Marks!Deploy PROVE InboxInv'
<1> DEFINE new == newest + 1
           rows == deployments \cup {new}
<1>0. /\ newest < MaxDeployments /\ newest' = new /\ deployments' = rows
      /\ left' = left \cup (Marks!recent(deployments) \ Marks!recent(rows))
      /\ UNCHANGED <<stored_inbox, list_inbox, calls, last>>
  BY DEF Marks!Deploy, Marks!tabs
<1>1. /\ newest \in Nat /\ deployments \in SUBSET (1..newest) /\ deployments \in SUBSET Nat
      /\ IsFiniteSet(deployments)
  BY RowsOf DEF InboxInv
<1>2. new \in 0..MaxDeployments /\ rows \subseteq 1..new /\ 1..newest \subseteq 1..new
  BY <1>0, <1>1, FewTabs
<1>3. TabsOK(new, rows, list_inbox, calls)
  <2>1. list_inbox \in [Tabs -> SUBSET (1..new)]
    BY <1>2 DEF InboxInv, TabsOK
  <2> QED BY <1>2, <2>1 DEF InboxInv, TabsOK
<1>4. StoreOK(stored_inbox, last, new)
  <2>1. ASSUME NEW key \in Marks!Keys PROVE KeptOK(stored_inbox[key], last[key], new)
    <3>1. KeptOK(stored_inbox[key], last[key], newest)
      BY DEF InboxInv, StoreOK
    <3>2. \A d \in Marks!Ids : d <= newest => d <= new
      BY <1>1, FewTabs DEF Marks!Ids
    <3> QED BY <3>1, <3>2 DEF KeptOK
  <2> QED BY <2>1 DEF InboxInv, StoreOK
<1>5. rows \in SUBSET Nat /\ IsFiniteSet(rows)
  <2>1. new \in Nat
    BY <1>1
  <2>2. IsFiniteSet(rows)
    BY <1>1, FS_AddElement
  <2> QED BY <1>1, <2>1, <2>2
<1>6. ASSUME NEW d \in Marks!recent(rows), d # new PROVE d \in Marks!recent(deployments)
  <2> DEFINE above == {e \in deployments : e > d}
             aboveNow == {e \in rows : e > d}
  <2>1. d \in deployments /\ Cardinality(aboveNow) < ListedRows
    BY <1>6, SameCount DEF Marks!recent
  <2>2. above \subseteq aboveNow /\ aboveNow \subseteq rows
    OBVIOUS
  <2>3. Cardinality(above) < ListedRows
    <3> HIDE DEF above, aboveNow, rows
    <3>1. IsFiniteSet(aboveNow)
      BY <1>5, <2>2, FS_Subset
    <3>2. IsFiniteSet(above) /\ Cardinality(above) <= Cardinality(aboveNow)
      BY <2>2, <3>1, FS_Subset
    <3>3. Cardinality(above) \in Nat /\ Cardinality(aboveNow) \in Nat
      BY <3>1, <3>2, FS_CardinalityType
    <3> QED BY <2>1, <3>2, <3>3, FewTabs
  <2> QED BY <2>1, <2>3, SameCount DEF Marks!recent
<1>7. ASSUME NEW d \in Marks!recent(rows) \ left'
      PROVE  Safe(d, new, rows, list_inbox, stored_inbox, last)
  <2>1. CASE d = new
    <3>1. d..new \subseteq rows
      BY <1>1, <2>1
    <3>2. Beside(d, Marks!recent(rows), rows, list_inbox)
      <4>1. IsFiniteSet(Marks!recent(rows)) /\ Cardinality(Marks!recent(rows)) <= ListedRows
        BY <1>5, ListIsShort
      <4>2. \A t \in Tabs : d \notin list_inbox[t]
        <5>1. ~(new \in 1..newest)
          BY <1>1
        <5> QED BY <2>1, <5>1 DEF InboxInv, TabsOK
      <4> QED BY <4>1, <4>2 DEF Beside
    <3>3. \A key \in Marks!Keys : ~last[key][d]
      <4>1. new \in Marks!Ids /\ ~(new <= newest)
        BY <1>0, <1>1, FewTabs DEF Marks!Ids
      <4> QED BY <2>1, <4>1 DEF InboxInv, StoreOK, KeptOK
    <3> QED BY <3>1, <3>2, <3>3 DEF Safe
  <2>2. CASE d # new
    <3>1. d \in Marks!recent(deployments) \ left
      BY <1>0, <1>6, <2>2
    <3>2. Safe(d, newest, deployments, list_inbox, stored_inbox, last)
      BY <3>1 DEF InboxInv, Placed
    <3>3. d..new \subseteq rows
      <4>1. \A e \in d..new : e = new \/ e \in d..newest
        <5>1. d \in Nat
          BY <1>1, <3>1 DEF Marks!recent
        <5> QED BY <1>1, <5>1
      <4> QED BY <3>2, <4>1 DEF Safe
    <3>4. new \in d + 1..d + ListedRows - 1
      <4>1. new \in Nat /\ rows \in SUBSET (1..new) /\ d \in 1..newest
        BY <1>1, <1>2, <3>1 DEF Marks!recent
      <4>2. new <= d + ListedRows - 1
        BY <3>3, <4>1, NewerAreFew
      <4> QED BY <1>1, <4>1, <4>2, FewTabs
    <3>5. \A e \in Marks!recent(rows) : e # new => e \in Marks!recent(deployments)
      BY <1>6
    <3>6. ASSUME NEW B, Beside(d, B, deployments, list_inbox) PROVE Beside(d, B, rows, list_inbox)
      <4>1. ~(new \in 1..d)
        <5>1. d \in 1..newest
          BY <1>1, <3>1 DEF Marks!recent
        <5> QED BY <1>1, <5>1
      <4> QED BY <3>5, <3>6, <4>1 DEF Beside
    <3>7. ASSUME NEW S, Enough(d, S, deployments, list_inbox) PROVE Enough(d, S, rows, list_inbox)
      BY <3>4, <3>5, <3>7 DEF Enough
    <3> QED BY <3>2, <3>3, <3>6, <3>7 DEF Safe
  <2> QED BY <2>1, <2>2
<1> QED BY <1>0, <1>3, <1>4, <1>7 DEF InboxInv, Placed

LEMMA DeleteKeeps == ASSUME InboxInv, Marks!Delete PROVE InboxInv'
<1>0. /\ deployments' \subseteq deployments
      /\ left' = IF Marks!recent(deployments') = Marks!recent(deployments)
                 THEN left ELSE left \cup deployments
      /\ UNCHANGED <<newest, stored_inbox, list_inbox, calls, last>>
  BY DEF Marks!Delete, Marks!tabs
<1>1. /\ newest \in Nat /\ deployments \in SUBSET (1..newest) /\ deployments \in SUBSET Nat
      /\ IsFiniteSet(deployments)
  BY RowsOf DEF InboxInv
<1>2. TabsOK(newest, deployments', list_inbox, calls)
  BY <1>0 DEF InboxInv, TabsOK
<1>3. Marks!recent(deployments') \subseteq deployments'
  BY DEF Marks!recent
<1>4. ASSUME NEW d \in Marks!recent(deployments') \ left'
      PROVE  Safe(d, newest, deployments', list_inbox, stored_inbox, last)
  <2>1. Marks!recent(deployments') = Marks!recent(deployments) /\ left' = left
    BY <1>0, <1>3
  <2>2. Safe(d, newest, deployments, list_inbox, stored_inbox, last)
    BY <2>1 DEF InboxInv, Placed
  <2>3. d..newest \subseteq deployments'
    <3>1. ASSUME NEW e \in d..newest PROVE e \in deployments'
      <4>1. d \in Nat /\ e \in deployments
        BY <1>1, <2>1, <2>2 DEF Safe, Marks!recent
      <4>2. d <= e
        BY <1>1, <4>1
      <4>3. e \in Marks!recent(deployments)
        BY <1>1, <2>1, <4>1, <4>2, NewerAreListed
      <4> QED BY <1>3, <2>1, <4>3
    <3> QED BY <3>1
  <2> QED BY <2>1, <2>2, <2>3 DEF Safe, Beside, Enough
<1> QED BY <1>0, <1>2, <1>4 DEF InboxInv, Placed

\* A tab reads the list again: all it then shows is listed.
LEMMA RefetchKeeps ==
  ASSUME InboxInv, NEW t \in Tabs, calls[t] = {},
         list_inbox' = [list_inbox EXCEPT ![t] = Marks!recent(deployments)],
         UNCHANGED <<newest, deployments, stored_inbox, calls, last, left>>
  PROVE  InboxInv'
<1> DEFINE listed == Marks!recent(deployments)
<1>1. /\ newest \in Nat /\ deployments \in SUBSET (1..newest)
      /\ listed \subseteq deployments /\ IsFiniteSet(listed) /\ Cardinality(listed) <= ListedRows
  BY RowsOf DEF InboxInv
<1>2. list_inbox \in [Tabs -> SUBSET (1..newest)]
  BY DEF InboxInv, TabsOK
<1>3. \A o \in Tabs : list_inbox'[o] = IF o = t THEN listed ELSE list_inbox[o]
  BY <1>2
<1> HIDE DEF listed
<1>4. list_inbox' \in [Tabs -> SUBSET (1..newest)]
  <2>1. listed \in SUBSET (1..newest)
    BY <1>1
  <2> QED BY <1>2, <2>1 DEF listed
<1>5. TabsOK(newest, deployments, list_inbox', calls)
  BY <1>1, <1>3, <1>4 DEF InboxInv, TabsOK
<1>6. ASSUME NEW d \in listed \ left
      PROVE  Safe(d, newest, deployments, list_inbox', stored_inbox, last)
  <2>1. Safe(d, newest, deployments, list_inbox, stored_inbox, last)
    BY DEF listed, InboxInv, Placed
  <2>2. ASSUME NEW B, Beside(d, B, deployments, list_inbox)
        PROVE  Beside(d, B, deployments, list_inbox')
    BY <1>3, <2>2 DEF Beside, listed
  <2>3. ASSUME NEW S, Enough(d, S, deployments, list_inbox)
        PROVE  Enough(d, S, deployments, list_inbox')
    BY <1>3, <2>3 DEF Enough, listed
  <2> QED BY <2>1, <2>2, <2>3 DEF Safe
<1> QED BY <1>5, <1>6 DEF InboxInv, Placed, listed

-----------------------------------------------------------------------------
\* What one call makes of a kept list.
Written(q, id, on) == Marks!trimmed(Marks!with(q, id, on))

LEMMA WriteKeeps ==
  ASSUME NEW q, NEW marked \in [Marks!Ids -> BOOLEAN], NEW new, KeptOK(q, marked, new),
         NEW id \in Marks!Ids, id <= new, NEW on \in BOOLEAN
  PROVE  /\ KeptOK(Written(q, id, on), [marked EXCEPT ![id] = on], new)
         /\ \A d, S : /\ Behind(q, d, S) /\ (d # id \/ on) /\ (id \in S \/ d = id)
                      /\ IsFiniteSet(S) /\ Cardinality(S) < Keep
                      => Behind(Written(q, id, on), d, S)
         /\ \A S : /\ on /\ ~marked[id] /\ IsFiniteSet(S) /\ Cardinality(S) < Keep
                   => Behind(Written(q, id, on), id, S)
<1> DEFINE next == Marks!with(q, id, on)
           r == Marks!trimmed(next)
           now == [marked EXCEPT ![id] = on]
<1>1. /\ q \in Seq(Nat) /\ Unique(q) /\ Len(q) <= Keep
      /\ \A i \in 1..Len(q) : q[i] \in Marks!Ids /\ marked[q[i]]
      /\ \A d \in Marks!Ids : marked[d] => d <= new
  BY DEF KeptOK
<1>2. id \in Nat
  BY FewTabs DEF Marks!Ids
<1>3. \A d \in Marks!Ids : now[d] = IF d = id THEN on ELSE marked[d]
  OBVIOUS
<1>4. /\ next \in Seq(Nat) /\ Unique(next)
      /\ \A i \in 1..Len(next) : next[i] \in Marks!Ids /\ now[next[i]]
      /\ \A d, S : Behind(q, d, S) /\ (d # id \/ on) /\ (id \in S \/ d = id)
                  => Behind(next, d, S)
      /\ \A S : on /\ ~marked[id] => Behind(next, id, S)
  <2> HIDE DEF now
  <2>1. CASE ~on
    <3>1. next = Marks!RemoveFirst(q, id)
      BY <2>1 DEF Marks!with
    <3>2. /\ next \in Seq(Nat) /\ Unique(next)
          /\ \A i \in 1..Len(next) : next[i] # id /\ \E j \in 1..Len(q) : next[i] = q[j]
          /\ \A d, S : Behind(q, d, S) /\ d # id => Behind(next, d, S)
      BY <1>1, <3>1, Removed
    <3> HIDE DEF next
    <3>3. \A i \in 1..Len(next) : next[i] \in Marks!Ids /\ now[next[i]]
      BY <1>1, <1>3, <3>2
    <3> QED BY <2>1, <3>2, <3>3
  <2>2. CASE on /\ \E i \in 1..Len(q) : q[i] = id
    <3>1. next = q
      BY <2>2 DEF Marks!with, Marks!Contains
    <3>2. marked[id]
      BY <1>1, <2>2
    <3> HIDE DEF next
    <3>3. \A i \in 1..Len(q) : now[q[i]]
      BY <1>1, <1>3, <2>2
    <3> QED BY <1>1, <2>2, <3>1, <3>2, <3>3
  <2>3. CASE on /\ ~\E i \in 1..Len(q) : q[i] = id
    <3>1. next = Append(q, id)
      BY <2>3 DEF Marks!with, Marks!Contains
    <3>2. /\ next \in Seq(Nat) /\ Unique(next)
          /\ \A i \in 1..Len(next) : next[i] = id \/ \E j \in 1..Len(q) : next[i] = q[j]
          /\ \A d, S : Behind(q, d, S) /\ id \in S => Behind(next, d, S)
          /\ \A S : Behind(next, id, S)
      <4>1. ~\E i \in 1..Len(q) : q[i] = id
        BY <2>3
      <4> HIDE DEF next
      <4> QED BY <1>1, <1>2, <3>1, <4>1, Appended
    <3> HIDE DEF next
    <3>3. ASSUME NEW i \in 1..Len(next) PROVE next[i] \in Marks!Ids /\ now[next[i]]
      <4>1. CASE next[i] = id
        BY <1>3, <2>3, <4>1
      <4>2. CASE next[i] # id
        BY <1>1, <1>3, <3>2, <4>2
      <4> QED BY <4>1, <4>2
    <3>4. \A d, S : Behind(q, d, S) => d # id
      BY <2>3 DEF Behind
    <3> QED BY <3>2, <3>3, <3>4
  <2> QED BY <2>1, <2>2, <2>3
<1> HIDE DEF next
<1>5. /\ r \in Seq(Nat) /\ Unique(r) /\ Len(r) <= Keep
      /\ \A i \in 1..Len(r) : \E j \in 1..Len(next) : r[i] = next[j]
      /\ \A d, S : /\ Behind(next, d, S) /\ IsFiniteSet(S) /\ Cardinality(S) < Keep
                   => Behind(r, d, S)
  BY <1>4, Trimmed
<1> HIDE DEF r
<1>6. KeptOK(r, now, new)
  <2>1. \A i \in 1..Len(r) : r[i] \in Marks!Ids /\ now[r[i]]
    BY <1>4, <1>5
  <2>2. \A d \in Marks!Ids : now[d] => d <= new
    BY <1>1, <1>3
  <2> HIDE DEF now
  <2> QED BY <1>5, <2>1, <2>2 DEF KeptOK
<1>7. r = Written(q, id, on)
  BY DEF r, next, Written
<1> QED BY <1>4, <1>5, <1>6, <1>7

LEMMA CallKeeps ==
  ASSUME InboxInv, NEW t \in Tabs, NEW todo \in SUBSET Marks!Calls,
         \A c \in todo : c.id \in list_inbox[t], Marks!Call(t, todo)
  PROVE  InboxInv'
<1>1. PICK c \in todo :
        /\ Marks!write(t, c.key, c.id, c.on)
        /\ calls' = [calls EXCEPT ![t] = todo \ {c}]
        /\ last' = [last EXCEPT ![c.key][c.id] = c.on]
        /\ UNCHANGED <<newest, deployments, list_inbox, left>>
  BY DEF Marks!Call, Marks!server
<1> DEFINE key == c.key
           id == c.id
           on == c.on
           kept == Written(stored_inbox[key], id, on)
<1>2. key \in Marks!Keys /\ id \in Marks!Ids /\ on \in BOOLEAN /\ id \in list_inbox[t]
  BY DEF Marks!Calls
<1>3. /\ stored_inbox \in [Marks!Keys -> Seq(Nat)]
      /\ last \in [Marks!Keys -> [Marks!Ids -> BOOLEAN]]
      /\ \A k \in Marks!Keys : KeptOK(stored_inbox[k], last[k], newest)
  BY DEF InboxInv, StoreOK
<1>4. stored_inbox' = [stored_inbox EXCEPT ![key] = kept]
  BY <1>1 DEF Marks!write, Written
<1>5. last' = [last EXCEPT ![key] = [last[key] EXCEPT ![id] = on]]
  BY <1>1
<1> HIDE DEF key, id, on, kept
<1>6. /\ list_inbox \in [Tabs -> SUBSET (1..newest)] /\ calls \in [Tabs -> SUBSET Marks!Calls]
      /\ newest \in Nat /\ id \in 1..newest /\ id <= newest /\ id \in Nat
  <2>1. list_inbox \in [Tabs -> SUBSET (1..newest)] /\ newest \in Nat
        /\ calls \in [Tabs -> SUBSET Marks!Calls]
    BY FewTabs DEF InboxInv, TabsOK
  <2>2. id \in 1..newest
    BY <1>2, <2>1
  <2> QED BY <2>1, <2>2
<1>7. /\ KeptOK(kept, [last[key] EXCEPT ![id] = on], newest)
      /\ \A d, S : /\ Behind(stored_inbox[key], d, S) /\ (d # id \/ on) /\ (id \in S \/ d = id)
                   /\ IsFiniteSet(S) /\ Cardinality(S) < Keep
                   => Behind(kept, d, S)
      /\ \A S : /\ on /\ ~last[key][id] /\ IsFiniteSet(S) /\ Cardinality(S) < Keep
                => Behind(kept, id, S)
  <2>1. last[key] \in [Marks!Ids -> BOOLEAN] /\ KeptOK(stored_inbox[key], last[key], newest)
    BY <1>2, <1>3
  <2> QED BY <1>2, <1>6, <2>1, WriteKeeps DEF kept
<1>8. TabsOK(newest, deployments, list_inbox, calls')
  <2>1. calls' \in [Tabs -> SUBSET Marks!Calls]
    BY <1>1, <1>6
  <2>2. \A o \in Tabs : calls'[o] = IF o = t THEN todo \ {c} ELSE calls[o]
    BY <1>1, <1>6
  <2> QED BY <2>1, <2>2 DEF InboxInv, TabsOK
<1>9. /\ \A k \in Marks!Keys : stored_inbox'[k] = IF k = key THEN kept ELSE stored_inbox[k]
      /\ \A k \in Marks!Keys : k # key => last'[k] = last[k]
      /\ last'[key] = [last[key] EXCEPT ![id] = on]
  BY <1>2, <1>3, <1>4, <1>5
<1>10. StoreOK(stored_inbox', last', newest)
  <2>1. kept \in Seq(Nat)
    BY <1>7 DEF KeptOK
  <2>2. stored_inbox' \in [Marks!Keys -> Seq(Nat)]
    BY <1>3, <1>4, <2>1
  <2>3. last' \in [Marks!Keys -> [Marks!Ids -> BOOLEAN]]
    BY <1>2, <1>3, <1>5
  <2>4. \A k \in Marks!Keys : KeptOK(stored_inbox'[k], last'[k], newest)
    BY <1>3, <1>7, <1>9
  <2> QED BY <2>2, <2>3, <2>4 DEF StoreOK
<1>11. ASSUME NEW d \in Marks!recent(deployments) \ left
       PROVE  Safe(d, newest, deployments, list_inbox, stored_inbox', last')
  <2>1. Safe(d, newest, deployments, list_inbox, stored_inbox, last)
    BY DEF InboxInv, Placed
  <2>2. ASSUME NEW k \in Marks!Keys, last'[k][d]
        PROVE  \E S : Enough(d, S, deployments, list_inbox) /\ Behind(stored_inbox'[k], d, S)
    <3>1. CASE k # key
      BY <1>9, <2>1, <2>2, <3>1 DEF Safe
    <3>d. d \in Marks!Ids
      <4>1. d \in 1..newest
        BY RowsOf DEF InboxInv
      <4>2. newest \in 0..MaxDeployments
        BY DEF InboxInv, TabsOK
      <4> QED BY <4>1, <4>2, FewTabs DEF Marks!Ids
    <3>2. CASE k = key /\ last[key][d]
      <4>1. PICK S : Enough(d, S, deployments, list_inbox) /\ Behind(stored_inbox[key], d, S)
        BY <1>2, <2>1, <3>2 DEF Safe
      <4>2. id \in S \/ d = id
        BY <1>2, <4>1 DEF Enough
      <4>3. d # id \/ on
        BY <1>2, <1>3, <1>9, <2>2, <3>2, <3>d
      <4>4. Behind(kept, d, S)
        BY <1>7, <4>1, <4>2, <4>3 DEF Enough
      <4> QED BY <1>9, <3>2, <4>1, <4>4
    <3>3. CASE k = key /\ ~last[key][d]
      <4>1. d = id /\ on
        BY <1>2, <1>3, <1>9, <2>2, <3>3, <3>d
      <4>2. PICK B : Beside(d, B, deployments, list_inbox)
        BY <2>1 DEF Safe
      <4>3. PICK S : Enough(d, S, deployments, list_inbox)
        BY <1>2, <2>1, <4>1, <4>2, EnoughRoom DEF InboxInv, Safe
      <4>4. Behind(kept, d, S)
        BY <1>7, <3>3, <4>1, <4>3 DEF Enough
      <4> QED BY <1>9, <3>3, <4>3, <4>4
    <3> QED BY <3>1, <3>2, <3>3
  <2> QED BY <2>1, <2>2 DEF Safe
<1> QED BY <1>1, <1>8, <1>10, <1>11 DEF InboxInv, Placed

LEMMA CommandKeeps ==
  ASSUME InboxInv, NEW t \in Tabs, NEW key \in Marks!Keys, NEW on \in BOOLEAN,
         NEW items \in SUBSET list_inbox[t], Marks!Command(t, key, items, on)
  PROVE  InboxInv'
<1> DEFINE todo == {[key |-> key, id |-> d, on |-> on] : d \in items}
<1>1. Marks!Call(t, todo)
  BY DEF Marks!Command
<1>2. items \subseteq Marks!Ids
  <2>1. newest \in 0..MaxDeployments /\ items \subseteq 1..newest
    BY DEF InboxInv, TabsOK
  <2>2. 1..newest \subseteq 1..MaxDeployments
    BY <2>1, FewTabs
  <2> QED BY <2>1, <2>2 DEF Marks!Ids
<1>3. todo \in SUBSET Marks!Calls
  BY <1>2 DEF Marks!Calls
<1>4. \A c \in todo : c.id \in list_inbox[t]
  OBVIOUS
<1> QED BY <1>1, <1>3, <1>4, CallKeeps

LEMMA InboxSteps == InboxInv /\ [Marks!Next]_(Marks!vars) => InboxInv'
<1> SUFFICES ASSUME InboxInv, [Marks!Next]_(Marks!vars) PROVE InboxInv'
  OBVIOUS
<1>1. CASE UNCHANGED Marks!vars
  BY <1>1 DEF Marks!vars, Marks!server, Marks!tabs, InboxInv
<1>2. ASSUME NEW t \in Tabs, Marks!Refetch(t) \/ Marks!Reload(t) PROVE InboxInv'
  <2>1. /\ calls[t] = {}
        /\ list_inbox' = [list_inbox EXCEPT ![t] = Marks!recent(deployments)]
        /\ UNCHANGED <<newest, deployments, stored_inbox, calls, last, left>>
    BY <1>2 DEF Marks!Refetch, Marks!Reload, Marks!idle, Marks!server
  <2> QED BY <2>1, RefetchKeeps
<1>3. ASSUME NEW t \in Tabs, Marks!GoOn(t) PROVE InboxInv'
  <2>1. calls[t] \in SUBSET Marks!Calls /\ \A c \in calls[t] : c.id \in list_inbox[t]
    BY DEF InboxInv, TabsOK
  <2> QED BY <1>3, <2>1, CallKeeps DEF Marks!GoOn
<1>4. ASSUME NEW t \in Tabs, Marks!toggleRead(t) \/ Marks!dismiss(t) \/ Marks!markAllRead(t)
                             \/ Marks!clearRead(t) PROVE InboxInv'
  <2>1. /\ Marks!notifications(t) \in SUBSET list_inbox[t]
        /\ Marks!read(t) \in SUBSET list_inbox[t] /\ Marks!unread(t) \in SUBSET list_inbox[t]
    BY DEF Marks!notifications, Marks!read, Marks!unread
  <2>2. "read" \in Marks!Keys /\ "dismissed" \in Marks!Keys
    BY DEF Marks!Keys
  <2>3. ASSUME NEW key \in Marks!Keys, NEW on \in BOOLEAN, NEW d \in list_inbox[t],
               Marks!Command(t, key, {d}, on)
        PROVE  InboxInv'
    <3>1. {d} \in SUBSET list_inbox[t]
      OBVIOUS
    <3> QED BY <2>3, <3>1, CommandKeeps
  <2>4. CASE Marks!toggleRead(t)
    BY <2>1, <2>2, <2>3, <2>4 DEF Marks!toggleRead
  <2>5. CASE Marks!dismiss(t)
    BY <2>1, <2>2, <2>3, <2>5 DEF Marks!dismiss
  <2>6. CASE Marks!markAllRead(t)
    BY <2>1, <2>2, <2>6, CommandKeeps DEF Marks!markAllRead
  <2>7. CASE Marks!clearRead(t)
    BY <2>1, <2>2, <2>7, CommandKeeps DEF Marks!clearRead
  <2> QED BY <1>4, <2>4, <2>5, <2>6, <2>7
<1> QED BY <1>1, <1>2, <1>3, <1>4, DeployKeeps, DeleteKeeps DEF Marks!Next

(* For as many tabs as the kept ids are enough for, which is four with twenty deployments     *)
(* listed and a hundred ids kept, the last mark any of them made on a deployment holds while  *)
(* the deployment keeps its place in the list: no other tab's write or running handler undoes *)
(* it and the limit does not drop it (useStoredIds in deployment-inbox.tsx).                  *)
THEOREM MarksHold == StreamsSpec => []MarksSurvive
<1> DEFINE Inv == client = "inbox" => InboxInv
<1>1. StreamsInit => Inv
  BY InboxInit DEF StreamsInit
<1>2. Inv /\ [StreamsNext]_streamsVars => Inv'
  BY StreamMoves, InboxSteps
<1>3. Inv => MarksSurvive
  <2> SUFFICES ASSUME InboxInv, NEW key \in Marks!Keys, NEW d \in Marks!recent(deployments) \ left
               PROVE  d \in Marks!readIds(key) <=> last[key][d]
    BY DEF MarksSurvive, Marks!MarksSurvive
  <2>1. KeptOK(stored_inbox[key], last[key], newest) /\ stored_inbox[key] \in Seq(Nat)
    BY DEF InboxInv, StoreOK, KeptOK
  <2>2. d \in Marks!readIds(key) <=> \E i \in 1..Len(stored_inbox[key]) : stored_inbox[key][i] = d
    <3>1. DOMAIN stored_inbox[key] = 1..Len(stored_inbox[key])
      BY <2>1
    <3> QED BY <3>1 DEF Marks!readIds, Marks!ToSet
  <2>3. d \in Marks!readIds(key) => last[key][d]
    BY <2>1, <2>2 DEF KeptOK
  <2>4. last[key][d] => d \in Marks!readIds(key)
    <3>1. Safe(d, newest, deployments, list_inbox, stored_inbox, last)
      BY DEF InboxInv, Placed
    <3> QED BY <2>2, <3>1 DEF Safe, Behind
  <2> QED BY <2>3, <2>4
<1> QED BY <1>1, <1>2, <1>3, PTL DEF StreamsSpec
=============================================================================
