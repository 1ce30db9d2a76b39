---------------------------- MODULE SystemEvents ----------------------------
(* How the dashboard keeps itself current without polling: the system event stream, *)
(* the debounce that turns a burst of events into one round of refetches, and the    *)
(* refetch.  The manager's state is a version number, every active query one copy    *)
(* of it, an event a unit in the subscription's buffer: what it says is not used.    *)
EXTENDS Naturals

CONSTANTS Capacity,              \* the subscription's buffer
          Delay, Ceiling,        \* the debounce and its limit, in ticks
          MaxChanges, MaxBreaks, MaxFaults    \* bounds of the model

VARIABLES
    server, unpublished,    \* the manager: its version, and a write not yet announced
    source,                 \* the EventSource, from the browser's and the manager's end
    queue,                  \* published to this subscription and not yet received
    opened,                 \* the page's ref: one open has been seen
    timer, pendingSince,    \* the debounce: ticks left, and ticks since the first event
    fetch, screen, loaded,  \* the round of refetches, what the page shows, whether it shows anything
    unseen, failed, dropped,    \* history: changes before the first subscription, a failed fetch,
                                \* and changes whose refetch was not begun
    waited,                 \* history: ticks since the oldest event not yet acted on
    breaks, faults

manager  == <<server, unpublished>>
stream   == <<source, queue, opened>>
debounce == <<timer, pendingSince>>
page     == <<fetch, screen, loaded>>
history  == <<unseen, failed, dropped>>
counts   == <<breaks, faults>>
vars     == <<manager, stream, debounce, page, history, waited, counts>>

NoTimer == Ceiling + Delay + 1
Idle    == [at |-> "idle"]
subscribed == source \in {"subscribed", "open"}

Init ==
    /\ server = 0 /\ unpublished = FALSE
    /\ source = "connecting" /\ queue = 0 /\ opened = FALSE
    /\ timer = NoTimer /\ pendingSince = 0
    /\ fetch = [at |-> "sent"] /\ screen = 0 /\ loaded = FALSE    \* the page's first load
    /\ unseen = FALSE /\ failed = FALSE /\ dropped = FALSE /\ waited = 0
    /\ breaks = 0 /\ faults = 0

-----------------------------------------------------------------------------
(* The manager.  A handler writes its row and then tells the bus. *)
Change ==
    /\ ~unpublished /\ server < MaxChanges
    /\ server' = server + 1 /\ unpublished' = TRUE
    /\ unseen' = (unseen \/ (~opened /\ ~subscribed))
    /\ UNCHANGED <<stream, debounce, page, failed, dropped, waited, counts>>

\* A full buffer loses the event.
Publish ==
    /\ unpublished /\ unpublished' = FALSE
    /\ queue' = IF subscribed /\ queue < Capacity THEN queue + 1 ELSE queue
    /\ unseen' = (unseen \/ (~opened /\ ~subscribed))
    /\ UNCHANGED <<server, source, opened, debounce, page, failed, dropped, waited, counts>>

-----------------------------------------------------------------------------
(* The stream. *)
Subscribe ==
    /\ source \in {"connecting", "retrying"}
    /\ source' = "subscribed" /\ queue' = 0
    /\ UNCHANGED <<manager, opened, debounce, page, history, waited, counts>>

\* The connection breaks, or the manager restarts: the buffer goes with it, and with
\* a manager that stops between a write and its event the event is never published.
Break ==
    /\ subscribed /\ breaks < MaxBreaks
    /\ breaks' = breaks + 1
    /\ source' = "lost" /\ queue' = 0
    /\ unpublished' \in {unpublished, FALSE}
    /\ unseen' = (unseen \/ ~opened)
    /\ UNCHANGED <<server, opened, debounce, page, failed, dropped, waited, faults>>

\* The browser's own retry, or the three seconds after an answer that closed the source.
Retry ==
    /\ source = "lost" /\ source' = "retrying"
    /\ UNCHANGED <<manager, queue, opened, debounce, page, history, waited, counts>>

-----------------------------------------------------------------------------
\* Fault: every event puts the refresh off again, however long that has been going on.
refresh_NoCeiling ==
    /\ pendingSince' = IF timer = NoTimer THEN 0 ELSE pendingSince
    /\ timer' = Delay
    /\ waited' = IF timer = NoTimer THEN 0 ELSE waited

(* The debounce.  A timer that is due runs before time moves on. *)
refresh ==
    /\ pendingSince' = IF timer = NoTimer THEN 0 ELSE pendingSince
    /\ timer' = IF pendingSince' >= Ceiling THEN 0 ELSE Delay
    /\ waited' = IF timer = NoTimer THEN 0 ELSE waited

\* Fault: a stream that opens again asks for nothing.
Opens_NoRefresh ==
    /\ source = "subscribed" /\ source' = "open"
    /\ opened' = TRUE
    /\ UNCHANGED <<manager, queue, debounce, page, waited, history, counts>>

Opens ==
    /\ source = "subscribed" /\ source' = "open"
    /\ opened' = TRUE
    /\ IF opened THEN refresh ELSE UNCHANGED <<debounce, waited>>
    /\ UNCHANGED <<manager, queue, page, history, counts>>

Receive ==
    /\ source = "open" /\ queue > 0
    /\ queue' = queue - 1
    /\ refresh
    /\ UNCHANGED <<manager, source, opened, page, history, counts>>

Tick ==
    /\ timer \notin {NoTimer, 0}
    /\ timer' = timer - 1
    /\ pendingSince' = pendingSince + 1 /\ waited' = waited + 1
    /\ UNCHANGED <<manager, stream, page, history, counts>>

-----------------------------------------------------------------------------
(* The refetch: a new round cancels the one in flight, but a first load, which has no    *)
(* data to fall back on, goes on as it is, and when it ends it counts as the new round.   *)
invalidateQueries ==
    /\ timer = 0
    /\ timer' = NoTimer /\ pendingSince' = 0 /\ waited' = 0
    /\ IF loaded \/ fetch = Idle
         THEN fetch' = [at |-> "sent"] /\ failed' = FALSE /\ UNCHANGED dropped
         ELSE /\ dropped' = (dropped \/ (fetch.at = "answered" /\ fetch.version # server))
              /\ UNCHANGED <<fetch, failed>>
    /\ UNCHANGED <<manager, stream, screen, loaded, unseen, counts>>

ReadServer ==
    /\ fetch.at = "sent"
    /\ fetch' = [at |-> "answered", version |-> server]
    /\ unseen' = FALSE /\ dropped' = FALSE
    /\ UNCHANGED <<manager, stream, debounce, screen, loaded, failed, waited, counts>>

ReadLands ==
    /\ fetch.at = "answered"
    /\ screen' = fetch.version /\ loaded' = TRUE /\ fetch' = Idle
    /\ UNCHANGED <<manager, stream, debounce, history, waited, counts>>

\* The query's one retry has failed too.
ReadFails ==
    /\ fetch.at = "sent" /\ faults < MaxFaults
    /\ faults' = faults + 1
    /\ fetch' = Idle /\ failed' = TRUE
    /\ UNCHANGED <<manager, stream, debounce, screen, loaded, unseen, dropped, waited, breaks>>

Next ==
    \/ Change \/ Publish \/ Subscribe \/ Break \/ Retry \/ Opens \/ Receive \/ Tick
    \/ invalidateQueries \/ ReadServer \/ ReadLands \/ ReadFails

Spec == Init /\ [][Next]_vars

-----------------------------------------------------------------------------
TypeOK ==
    /\ server \in 0..MaxChanges /\ unpublished \in BOOLEAN
    /\ source \in {"connecting", "subscribed", "open", "lost", "retrying"}
    /\ queue \in 0..Capacity /\ opened \in BOOLEAN
    /\ timer \in 0..Delay \cup {NoTimer} /\ pendingSince \in Nat /\ waited \in Nat
    /\ fetch \in {Idle, [at |-> "sent"]} \cup [at : {"answered"}, version : 0..MaxChanges]
    /\ screen \in 0..MaxChanges /\ loaded \in BOOLEAN
    /\ {unseen, failed, dropped} \subseteq BOOLEAN
    /\ breaks \in 0..MaxBreaks /\ faults \in 0..MaxFaults

Quiet ==
    /\ source = "open" /\ queue = 0 /\ ~unpublished
    /\ timer = NoTimer /\ fetch = Idle

(* Once the stream is open, the announcements are read and the refetch they asked for  *)
(* is back, the page shows the manager's state, through broken streams, restarts that   *)
(* swallow an event and buffers that overflow (useSystemEvents, "every open after the   *)
(* first refetches what they changed").  Exempt until the next read are a change made   *)
(* after the first load's read and before the first subscription, a refetch that        *)
(* failed, and one that was asked for while the answer to a first load was on its way.  *)
QuietMeansCurrent == Quiet /\ ~unseen /\ ~failed /\ ~dropped => screen = server

(* A stream of events that never lets the debounce run out still refreshes within the  *)
(* ceiling (useSystemEvents: "a container in a crash loop restarts faster than the      *)
(* debounce and would starve it forever").                                              *)
NoStarvation == waited < Ceiling + Delay
=============================================================================
