------------------------------- MODULE Streams ------------------------------
(* The pages that live on a stream or on what another tab wrote: the dashboard's refetches, *)
(* the live log, the inbox's marks.                                                         *)
EXTENDS Clients, Naturals, FiniteSets

CONSTANTS
    Capacity, Delay, Ceiling, MaxChanges, MaxBreaks,    \* SystemEvents
    Limits, MaxLines, MaxConnections,                   \* LogViewer
    Tabs, Projects, ListedRows, Keep, MaxDeployments,   \* Inbox
    StreamFaults, StreamCommands

\* A subscription holds an event, the debounce waits, a tail has lines.
ASSUME StreamsAssumption ==
    /\ Capacity \in Nat \ {0} /\ Delay \in Nat \ {0} /\ Ceiling \in Nat
    /\ Limits \subseteq Nat \ {0}

\* What a browser keeps outlasts what its tabs can mark after an id: every tab its list, and the
\* lists that can stand around that id.  With twenty listed and a hundred kept, four tabs.
ASSUME FewTabs ==
    /\ IsFiniteSet(Tabs) /\ Keep \in Nat
    /\ ListedRows \in Nat \ {0} /\ MaxDeployments \in Nat /\ ListedRows <= MaxDeployments
    /\ Keep >= (Cardinality(Tabs) + 1) * ListedRows - 1

VARIABLES
    server_events, unpublished, source_events, queue, opened, timer, pendingSince, fetch_events,
    screen, loaded_events, unseen, failed, dropped, waited, breaks, faults_events,
    emitted, source_log, streamed, paused, limit, pending, restart, fresh, flushTimer, connections,
    commands_log,
    deployments, newest, stored_inbox, ids, list_inbox, calls, last, left, commands_inbox

Events == INSTANCE SystemEvents WITH
    MaxFaults <- StreamFaults, server <- server_events, source <- source_events,
    fetch <- fetch_events, loaded <- loaded_events, faults <- faults_events
Log == INSTANCE LogViewer WITH
    MaxCommands <- StreamCommands, source <- source_log, commands <- commands_log
Marks == INSTANCE Inbox WITH
    Listed <- ListedRows, MaxCommands <- StreamCommands, stored <- stored_inbox, list <- list_inbox,
    commands <- commands_inbox

eventsVars == <<server_events, unpublished, source_events, queue, opened, timer, pendingSince,
    fetch_events, screen, loaded_events, unseen, failed, dropped, waited, breaks, faults_events>>
logVars == <<emitted, source_log, streamed, paused, limit, pending, restart, fresh, flushTimer,
    connections, commands_log>>
inboxVars ==
    <<deployments, newest, stored_inbox, ids, list_inbox, calls, last, left, commands_inbox>>
streamsVars == <<client, eventsVars, logVars, inboxVars>>

\* A model that this behaviour is not about.
NoEvents ==
    server_events = "none" /\ unpublished = "none" /\ source_events = "none" /\ queue = "none" /\
    opened = "none" /\ timer = "none" /\ pendingSince = "none" /\ fetch_events = "none" /\
    screen = "none" /\ loaded_events = "none" /\ unseen = "none" /\ failed = "none" /\
    dropped = "none" /\ waited = "none" /\ breaks = "none" /\ faults_events = "none"
NoLog ==
    emitted = "none" /\ source_log = "none" /\ streamed = "none" /\ paused = "none" /\
    limit = "none" /\ pending = "none" /\ restart = "none" /\ fresh = "none" /\
    flushTimer = "none" /\ connections = "none" /\ commands_log = "none"
NoMarks ==
    deployments = "none" /\ newest = "none" /\ stored_inbox = "none" /\ ids = "none" /\
    list_inbox = "none" /\ calls = "none" /\ last = "none" /\ left = "none" /\ commands_inbox = "none"

StreamsInit ==
    /\ IF client = "events" THEN Events!Init ELSE NoEvents
    /\ IF client = "log" THEN Log!Init ELSE NoLog
    /\ IF client = "inbox" THEN Marks!Init ELSE NoMarks

StreamsNext ==
    /\ client' = client
    /\ IF client = "events" THEN Events!Next ELSE UNCHANGED eventsVars
    /\ IF client = "log" THEN Log!Next ELSE UNCHANGED logVars
    /\ IF client = "inbox" THEN Marks!Next ELSE UNCHANGED inboxVars

StreamsSpec == StreamsInit /\ [][StreamsNext]_streamsVars

-----------------------------------------------------------------------------
\* Every model's own type invariant.
StreamsTypes ==
    /\ client = "events" => Events!TypeOK
    /\ client = "log" => Log!TypeOK
    /\ client = "inbox" => Marks!TypeOK

\* System events: a page that has taken in what it was told shows what the manager holds
\* (lib/sse.ts).
QuietMeansCurrent == client = "events" => Events!QuietMeansCurrent

\* System events: a steady stream of them cannot put the refresh off (lib/sse.ts).
NoStarvation == client = "events" => Events!NoStarvation

\* Live log: the screen is a stretch of the output, through reconnections, pauses and
\* backlogs (log-viewer.tsx).
NothingRepeatedOrSkipped == client = "log" => Log!NothingRepeatedOrSkipped

\* Inbox: a mark made in one tab survives the writes of another (deployment-inbox.tsx).
MarksSurvive == client = "inbox" => Marks!MarksSurvive
=============================================================================
