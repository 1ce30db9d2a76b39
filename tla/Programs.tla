------------------------------ MODULE Programs ------------------------------
(* The programs that work beside the manager's requests: the self-update and its script,   *)
(* the scheduled tasks, the migration from Dokploy.                                        *)
EXTENDS Clients, Naturals

CONSTANTS
    OldVersion, NewVersion, MaxStarts, MaxTimeouts, MaxStale, UpdateFaults,    \* SelfUpdate
    Kept, TaskRuns, MaxDeadlines, TaskEdits,       \* ScheduledTasks
    Apps, Composes, Databases, MaxWrites, MaxFailures,    \* DokployMigration
    ProgramFaults, ProgramCrashes

\* Retention keeps at least one run of a task (bin/manager.rs keeps twenty).
ASSUME ProgramsAssumption == Kept \in Nat \ {0}

VARIABLES
    file, launches, leftover, updater, pc_update, previous, recorded, topology, kept, stack,
    manager, seen, unreachable, posting, lapses_update, excused_update, starts, faults_update,
    timeouts, stales, crashes_update,
    task, rows, up, running, execution, processes, list_tasks, runningIds, pressed, toggle,
    form_tasks, lost, runs_tasks, faults_tasks, deadlines, crashes_tasks,
    edits_tasks,
    alive, data_dokploy, exporter, pc_dokploy, todo, step, created, renamedHosts, env, imported,
    deployed, importer, failures

Update == INSTANCE SelfUpdate WITH
    Old <- OldVersion, New <- NewVersion,
    MaxFaults <- UpdateFaults, MaxCrashes <- ProgramCrashes, pc <- pc_update,
    lapses <- lapses_update, excused <- excused_update, faults <- faults_update,
    crashes <- crashes_update
Tasks == INSTANCE ScheduledTasks WITH
    MaxRuns <- TaskRuns, MaxEdits <- TaskEdits, MaxFaults <- ProgramFaults,
    MaxCrashes <- ProgramCrashes, list <- list_tasks, form <- form_tasks,
    runs <- runs_tasks, faults <- faults_tasks,
    crashes <- crashes_tasks, edits <- edits_tasks
Dokploy == INSTANCE DokployMigration WITH
    data <- data_dokploy, pc <- pc_dokploy

updateVars == <<file, launches, leftover, updater, pc_update, previous, recorded, topology, kept,
    stack, manager, seen, unreachable, posting, lapses_update, excused_update, starts,
    faults_update, timeouts, stales, crashes_update>>
tasksVars == <<task, rows, up, running, execution, processes, list_tasks, runningIds, pressed,
    toggle, form_tasks, lost, runs_tasks, faults_tasks, deadlines, crashes_tasks,
    edits_tasks>>
dokployVars == <<alive, data_dokploy, exporter, pc_dokploy, todo, step, created, renamedHosts,
    env, imported, deployed, importer, failures>>
programsVars == <<client, updateVars, tasksVars, dokployVars>>

\* A model that this behaviour is not about.
NoUpdate ==
    file = "none" /\ launches = "none" /\ leftover = "none" /\ updater = "none" /\
    pc_update = "none" /\ previous = "none" /\ recorded = "none" /\ topology = "none" /\
    kept = "none" /\ stack = "none" /\ manager = "none" /\ seen = "none" /\ unreachable = "none"
    /\ posting = "none" /\ lapses_update = "none" /\ excused_update = "none" /\ starts = "none" /\
    faults_update = "none" /\ timeouts = "none" /\ stales = "none" /\ crashes_update = "none"
NoTasks ==
    task = "none" /\ rows = "none" /\ up = "none" /\ running = "none" /\ execution = "none" /\
    processes = "none" /\ list_tasks = "none" /\ runningIds = "none" /\ pressed = "none" /\
    toggle = "none" /\ form_tasks = "none" /\ lost = "none" /\ runs_tasks = "none" /\
            faults_tasks = "none" /\ deadlines = "none" /\ crashes_tasks = "none"
    /\ edits_tasks = "none"
NoDokploy ==
    alive = "none" /\ data_dokploy = "none" /\ exporter = "none" /\ pc_dokploy = "none" /\
    todo = "none" /\ step = "none" /\ created = "none" /\ renamedHosts = "none" /\ env = "none" /\
    imported = "none" /\ deployed = "none" /\ importer = "none" /\ failures = "none"

ProgramsInit ==
    /\ IF client = "update" THEN Update!Init ELSE NoUpdate
    /\ IF client = "tasks" THEN Tasks!Init ELSE NoTasks
    /\ IF client = "dokploy" THEN Dokploy!Init ELSE NoDokploy

ProgramsNext ==
    /\ client' = client
    /\ IF client = "update" THEN Update!Next ELSE UNCHANGED updateVars
    /\ IF client = "tasks" THEN Tasks!Next ELSE UNCHANGED tasksVars
    /\ IF client = "dokploy" THEN Dokploy!Next ELSE UNCHANGED dokployVars

ProgramsSpec == ProgramsInit /\ [][ProgramsNext]_programsVars

-----------------------------------------------------------------------------
\* Every model's own type invariant.
ProgramsTypes ==
    /\ client = "update" => Update!TypeOK
    /\ client = "tasks" => Tasks!TypeOK
    /\ client = "dokploy" => Dokploy!TypeOK

\* Self-update: once an update is over, the recorded version is the one that runs
\* (updater/mod.rs, update.sh).
RecordedVersionRuns == client = "update" => Update!RecordedVersionRuns

\* Self-update: a launch removes a working updater only where the claim could not be had
\* (updater/mod.rs).
ClaimProtectsTheUpdater == [][client = "update" => Update!ClaimProtectsTheUpdater]_programsVars

\* Scheduled tasks: the run history and the runner agree on what runs (schedule/mod.rs).
RunsAreAccounted == client = "tasks" => Tasks!RunsAreAccounted

\* Migration: a project put to work on vexdock has all its data (migrate-dokploy.ts).
NothingLeftBehind == client = "dokploy" => Dokploy!NothingLeftBehind
=============================================================================
