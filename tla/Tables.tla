------------------------------- MODULE Tables -------------------------------
(* The pages that work through a list one request at a time, and the gate before them: bulk *)
(* actions, the studio's table, sign-in.                                                    *)
EXTENDS Clients, Naturals

CONSTANTS
    Kinds, BulkRuns, MaxServices,                 \* BulkActions
    Cells, MaxRows, TableCommands, TableSaves,    \* StudioTable
    GateFaults, MaxVisits,                        \* AuthGate
    TableFaults

VARIABLES
    server_bulk, lastId, services, picked, run, moving, error_bulk, flights, acted, excused_bulk,
    runs_bulk, faults_bulk,
    engine, db, page, data_studio, fetch_studio, updates, inserts, deletes, selected, save_studio,
    error_studio, added, excused_studio, commands_studio, saves, faults_studio,
    users, cookie, setup, session, pathname, next, form_gate, wanted, bound, stale, faults_gate, visits

Bulk == INSTANCE BulkActions WITH
    MaxRuns <- BulkRuns, MaxFaults <- TableFaults, server <- server_bulk, error <- error_bulk,
    excused <- excused_bulk, runs <- runs_bulk, faults <- faults_bulk
Studio == INSTANCE StudioTable WITH
    Values <- Cells, MaxCommands <- TableCommands, MaxSaves <- TableSaves,
    MaxFaults <- TableFaults, data <- data_studio, fetch <- fetch_studio, save <- save_studio,
    error <- error_studio, excused <- excused_studio, commands <- commands_studio,
    faults <- faults_studio
Gate == INSTANCE AuthGate WITH
    MaxFaults <- GateFaults, form <- form_gate, faults <- faults_gate

bulkVars == <<server_bulk, lastId, services, picked, run, moving, error_bulk, flights, acted,
    excused_bulk, runs_bulk, faults_bulk>>
studioVars == <<engine, db, page, data_studio, fetch_studio, updates, inserts, deletes, selected,
    save_studio, error_studio, added, excused_studio, commands_studio, saves, faults_studio>>
gateVars == <<users, cookie, setup, session, pathname, next, form_gate, wanted, bound,
    stale, faults_gate, visits>>
tablesVars == <<client, bulkVars, studioVars, gateVars>>

\* A model that this behaviour is not about.
NoBulk ==
    server_bulk = "none" /\ lastId = "none" /\ services = "none" /\ picked = "none" /\
    run = "none" /\ moving = "none" /\ error_bulk = "none" /\ flights = "none" /\ acted = "none"
    /\ excused_bulk = "none" /\ runs_bulk = "none" /\ faults_bulk = "none"
NoStudio ==
    engine = "none" /\ db = "none" /\ page = "none" /\ data_studio = "none" /\
    fetch_studio = "none" /\ updates = "none" /\ inserts = "none" /\ deletes = "none" /\
    selected = "none" /\ save_studio = "none" /\ error_studio = "none" /\ added = "none" /\
    excused_studio = "none" /\ commands_studio = "none" /\ saves = "none" /\
    faults_studio = "none"
NoGate ==
    users = "none" /\ cookie = "none" /\ setup = "none" /\ session = "none" /\ pathname = "none"
    /\ next = "none" /\ form_gate = "none" /\ wanted = "none" /\ bound = "none"
    /\ stale = "none" /\ faults_gate = "none" /\ visits = "none"

TablesInit ==
    /\ IF client = "bulk" THEN Bulk!Init ELSE NoBulk
    /\ IF client = "studio" THEN Studio!Init ELSE NoStudio
    /\ IF client = "gate" THEN Gate!Init ELSE NoGate

TablesNext ==
    /\ client' = client
    /\ IF client = "bulk" THEN Bulk!Next ELSE UNCHANGED bulkVars
    /\ IF client = "studio" THEN Studio!Next ELSE UNCHANGED studioVars
    /\ IF client = "gate" THEN Gate!Next ELSE UNCHANGED gateVars

TablesSpec == TablesInit /\ [][TablesNext]_tablesVars

-----------------------------------------------------------------------------
\* Every model's own type invariant.
TablesTypes ==
    /\ client = "bulk" => Bulk!TypeOK
    /\ client = "studio" => Studio!TypeOK
    /\ client = "gate" => Gate!TypeOK

\* Bulk actions: a run that stopped half-way names what it did (service-bulk-actions.tsx).
ErrorNamesWhatWasDone == client = "bulk" => Bulk!ErrorNamesWhatWasDone

\* Bulk actions: no copy is given a name that is taken (service-bulk-actions.tsx).
CopiesGetFreeNames == client = "bulk" => Bulk!CopiesGetFreeNames

\* Studio: a row added once is inserted once, through refused and retried saves
\* (studio.index.tsx).
NothingWrittenTwice == client = "studio" => Studio!NothingWrittenTwice

\* Sign-in: the page asked for is the page reached, whichever answer came first, unless the
\* visitor did not wait for the form (auth-gate.tsx, login.tsx).
DeepLinkSurvives == client = "gate" => Gate!DeepLinkSurvives
=============================================================================
