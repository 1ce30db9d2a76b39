--------------------------- MODULE ScheduledTasks ---------------------------
(* One scheduled task: the manager's runner, which the clock and the Run button both  *)
(* call, the run rows it keeps, and the list page with its switch and its form.  A     *)
(* command is a process in the service's container: it outlives the request that       *)
(* started it.  What a task runs, and when, is left out; a tick may find it due.       *)
EXTENDS Naturals, FiniteSets

CONSTANTS Kept,                                             \* runs retention leaves per task
          MaxRuns, MaxFaults, MaxDeadlines, MaxCrashes, MaxEdits    \* bounds of the model

VARIABLES
    task,                 \* the row: "enabled", "paused" or "deleted"
    rows,                 \* its runs, by number: an outcome, or "open"
    up, running,          \* the manager, and its set of claimed tasks
    execution,            \* the claimed execution
    processes,            \* the commands alive in the container, by the run that started them
    list,                 \* the page: the task as last read
    runningIds, pressed,  \* runs the page waits for, and requests not yet answered
    toggle, form,         \* the switch's PATCH and the edit form
    lost,                 \* history: a result was not written
    runs, faults, deadlines, crashes, edits

server  == <<task, rows, up, running, execution>>
page    == <<list, runningIds, pressed, toggle, form>>
counts  == <<runs, faults, deadlines, crashes, edits>>
vars    == <<server, processes, page, lost, counts>>

Idle  == [at |-> "idle"]
Open  == {r \in DOMAIN rows : rows[r] = "open"}
Drop(r) == [n \in DOMAIN rows \ {r} |-> rows[n]]
Fault == faults < MaxFaults /\ faults' = faults + 1

Init ==
    /\ task \in {"enabled", "paused"} /\ rows = [r \in {} |-> "open"]
    /\ up = TRUE /\ running = FALSE /\ execution = Idle
    /\ processes = {}
    /\ list = task /\ runningIds = 0 /\ pressed = 0 /\ toggle = Idle /\ form = Idle
    /\ lost = FALSE
    /\ runs = 0 /\ faults = 0 /\ deadlines = 0 /\ crashes = 0 /\ edits = 0

-----------------------------------------------------------------------------
(* The runner.  One claim per task keeps the tick and the button apart. *)
Claim(by) ==
    /\ ~running /\ runs < MaxRuns
    /\ running' = TRUE /\ runs' = runs + 1
    /\ execution' = [at |-> "claimed", run |-> runs', by |-> by]

\* A tick that finds the task claimed logs and skips it.
Tick ==
    /\ up /\ task = "enabled"
    /\ Claim("clock")
    /\ UNCHANGED <<task, rows, up, processes, page, lost, faults, deadlines, crashes, edits>>

RunTask ==
    /\ up /\ pressed > 0 /\ task # "deleted"
    /\ Claim("page")
    /\ pressed' = pressed - 1
    /\ UNCHANGED <<task, rows, up, processes, list, runningIds, toggle, form, lost, faults,
            deadlines, crashes, edits>>

Release ==
    /\ running' = FALSE /\ execution' = Idle
    /\ runningIds' = IF execution.by = "page" /\
            runningIds > 0 THEN runningIds - 1 ELSE runningIds

\* A row that cannot be inserted, the task having been deleted for one, ends the run.
StartRun ==
    /\ up /\ execution.at = "claimed"
    /\ \/ /\ task # "deleted"
          /\ rows' = [n \in DOMAIN rows \cup {execution.run} |-> IF n = execution.run THEN "open" ELSE rows[n]]
          /\ execution' = [execution EXCEPT !.at = "started"]
          /\ UNCHANGED <<running, runningIds, faults>>
       \/ /\ IF task = "deleted" THEN UNCHANGED faults ELSE Fault
          /\ Release /\ UNCHANGED rows
    /\ UNCHANGED <<task, up, processes, list, pressed, toggle, form, lost, runs, deadlines,
            crashes, edits>>

\* No container, or a refused exec, is a failed run.
Exec ==
    /\ up /\ execution.at = "started"
    /\ \/ /\ processes' = processes \cup {execution.run}
          /\ execution' = [execution EXCEPT !.at = "executing"]
          /\ UNCHANGED faults
       \/ /\ Fault
          /\ execution' = [at |-> "ended", run |-> execution.run, by |-> execution.by,
                  outcome |-> "failed"]
          /\ UNCHANGED processes
    /\ UNCHANGED <<task, rows, up, running, page, lost, runs, deadlines, crashes, edits>>

Exit(r) ==
    /\ r \in processes
    /\ processes' = processes \ {r}
    /\ UNCHANGED <<server, page, lost, counts>>

Collect ==
    /\ up /\ execution.at = "executing" /\ execution.run \notin processes
    /\ \E outcome \in {"success", "failed"} :
        execution' = [at |-> "ended", run |-> execution.run, by |-> execution.by,
                outcome |-> outcome]
    /\ UNCHANGED <<task, rows, up, running, processes, page, lost, counts>>

\* The wait is given up after thirty minutes, or with its stream; the command is not told.
GiveUp ==
    /\ up /\ execution.at = "executing"
    /\ \/ deadlines < MaxDeadlines /\ deadlines' = deadlines + 1 /\ UNCHANGED faults
       \/ Fault /\ UNCHANGED deadlines
    /\ execution' = [at |-> "ended", run |-> execution.run, by |-> execution.by,
            outcome |-> "failed"]
    /\ UNCHANGED <<task, rows, up, running, processes, page, lost, runs, crashes, edits>>

\* The update of a row retention removed changes nothing; one that fails leaves it open.
FinishRun ==
    /\ up /\ execution.at = "ended"
    /\ \/ /\ rows' = [n \in DOMAIN rows |-> IF n = execution.run THEN execution.outcome ELSE rows[n]]
          /\ UNCHANGED <<lost, faults>>
       \/ /\ Fault /\ lost' = TRUE
          /\ UNCHANGED rows
    /\ Release
    /\ UNCHANGED <<task, up, processes, list, pressed, toggle, form, runs, deadlines, crashes,
            edits>>

-----------------------------------------------------------------------------
(* Retention, deletion, and the manager's own restarts. *)
PruneRuns ==
    /\ up
    /\ \E r \in DOMAIN rows :
        /\ Cardinality({n \in DOMAIN rows : n > r}) >= Kept
        /\ rows' = [n \in {k \in DOMAIN rows : Cardinality({j \in DOMAIN rows : j > k}) < Kept} |-> rows[n]]
    /\ UNCHANGED <<task, up, running, execution, processes, page, lost, counts>>

\* The process stops: requests end, claims go, commands go on.
Crash ==
    /\ up /\ crashes < MaxCrashes
    /\ crashes' = crashes + 1
    /\ up' = FALSE /\ running' = FALSE /\ execution' = Idle
    /\ pressed' = 0 /\ runningIds' = 0
    /\ toggle' = Idle /\ form' = IF form.at = "sent" THEN [form EXCEPT !.at = "open"] ELSE form
    /\ UNCHANGED <<task, rows, processes, list, lost, runs, faults, deadlines, edits>>

\* Fault: a boot leaves the rows as they were.
Boot_NoRecovery ==
    /\ ~up /\ up' = TRUE
    /\ lost' = FALSE
    /\ UNCHANGED <<task, rows, running, execution, processes, page, counts>>

\* recover_interrupted_task_runs, before the runner's loop is spawned; a failure is only logged.
Boot ==
    /\ ~up /\ up' = TRUE
    /\ \/ /\ rows' = [n \in DOMAIN rows |-> IF rows[n] = "open" THEN "interrupted" ELSE rows[n]]
          /\ lost' = FALSE /\ UNCHANGED faults
       \/ /\ Fault /\ lost' = TRUE
          /\ UNCHANGED rows
    /\ UNCHANGED <<task, running, execution, processes, page, runs, deadlines, crashes, edits>>

-----------------------------------------------------------------------------
(* The page. *)
Refetch ==
    /\ up /\ list # task
    /\ list' = task
    /\ UNCHANGED <<server, processes, runningIds, pressed, toggle, form, lost, counts>>

\* The row's button waits while the page waits for a run of it.
Run ==
    /\ up /\ list # "deleted" /\ runningIds = 0
    /\ pressed' = pressed + 1 /\ runningIds' = runningIds + 1
    /\ UNCHANGED <<server, processes, list, toggle, form, lost, counts>>

\* 409 while the task is claimed, 404 once it is gone: the row shows why.
Refuse ==
    /\ up /\ pressed > 0 /\ (running \/ task = "deleted")
    /\ pressed' = pressed - 1 /\ runningIds' = runningIds - 1
    /\ UNCHANGED <<server, processes, list, toggle, form, lost, counts>>

Flip(state) == IF state = "enabled" THEN "paused" ELSE "enabled"

Toggle ==
    /\ up /\ list # "deleted" /\ toggle = Idle /\ edits < MaxEdits
    /\ edits' = edits + 1
    /\ toggle' = [at |-> "sent", to |-> Flip(list)]
    /\ UNCHANGED <<server, processes, list, runningIds, pressed, form, lost, runs, faults,
            deadlines, crashes>>

UpdateTask(request) ==
    /\ up /\ request.at = "sent"
    /\ task' = IF task = "deleted" THEN task ELSE request.to

ToggleWrites ==
    /\ UpdateTask(toggle)
    /\ toggle' = IF task = "deleted" THEN Idle ELSE [toggle EXCEPT !.at = "written"]
    /\ UNCHANGED <<rows, up, running, execution, processes, list, runningIds, pressed, form,
            lost, counts>>

\* The switch is released once the list has been read again.
ToggleDone ==
    /\ up /\ toggle.at = "written"
    /\ toggle' = Idle /\ list' = task
    /\ UNCHANGED <<server, processes, runningIds, pressed, form, lost, counts>>

\* The form carries every field as it was when it was opened, the switch's among them.
Edit ==
    /\ form = Idle /\ list # "deleted" /\ edits < MaxEdits
    /\ edits' = edits + 1
    /\ form' = [at |-> "open", to |-> list]
    /\ UNCHANGED <<server, processes, list, runningIds, pressed, toggle, lost, runs, faults,
            deadlines, crashes>>

\* Closing the dialog drops the edit, but waits for a request on its way.
Close ==
    /\ form.at = "open" /\ form' = Idle
    /\ UNCHANGED <<server, processes, list, runningIds, pressed, toggle, lost, counts>>

SaveTask ==
    /\ up /\ form.at = "open"
    /\ \E to \in {form.to, Flip(form.to)} : form' = [at |-> "sent", to |-> to]
    /\ UNCHANGED <<server, processes, list, runningIds, pressed, toggle, lost, counts>>

SaveWrites ==
    /\ UpdateTask(form)
    /\ form' = Idle /\ list' = task'
    /\ UNCHANGED <<rows, up, running, execution, processes, runningIds, pressed, toggle, lost,
            counts>>

Delete ==
    /\ up /\ list # "deleted" /\ task # "deleted"
    /\ task' = "deleted" /\ list' = "deleted"
    /\ rows' = [r \in {} |-> "open"]
    /\ form' = Idle
    /\ UNCHANGED <<up, running, execution, processes, runningIds, pressed, toggle, lost, counts>>

Next ==
    \/ Tick \/ RunTask \/ StartRun \/ Exec \/ Collect \/ GiveUp \/ FinishRun
    \/ \E r \in processes : Exit(r)
    \/ PruneRuns \/ Crash \/ Boot
    \/ Refetch \/ Run \/ Refuse \/ Toggle \/ ToggleWrites \/ ToggleDone
    \/ Edit \/ Close \/ SaveTask \/ SaveWrites \/ Delete

Spec == Init /\ [][Next]_vars

-----------------------------------------------------------------------------
TypeOK ==
    /\ task \in {"enabled", "paused", "deleted"} /\ list \in {"enabled", "paused", "deleted"}
    /\ \A r \in DOMAIN rows : r \in 1..MaxRuns /\ rows[r] \in {"open", "success", "failed",
            "interrupted"}
    /\ up \in BOOLEAN /\ running \in BOOLEAN
    /\ execution.at \in {"idle", "claimed", "started", "executing", "ended"}
    /\ processes \subseteq 1..MaxRuns
    /\ runningIds \in 0..1 /\ pressed \in 0..1
    /\ toggle.at \in {"idle", "sent", "written"} /\ form.at \in {"idle", "open", "sent"}

Executing(r) == execution # Idle /\ execution.run = r

(* The history tells what runs.  While the manager is up, a run shown as still going  *)
(* is the one it is executing, unless its result could not be written, and the row of *)
(* the run it executes is there and open: retention never takes it, a restart leaves   *)
(* no row open behind it, and a switch, a save or a press between changes nothing of   *)
(* that ("so the UI never shows an execution nothing is running",                      *)
(* database/tasks.rs:175).                                                             *)
RunsAreAccounted ==
    /\ up /\ ~lost => \A r \in Open : Executing(r)
    /\ up /\ execution.at \in {"started", "executing", "ended"} /\ task # "deleted" =>
            execution.run \in Open

(* What AlreadyRunning is for: "a slow job must not pile up on itself, from the tick or *)
(* from run now" (schedule/mod.rs:30-31).                                               *)
NeverPilesUp == Cardinality(processes) <= 1
=============================================================================
