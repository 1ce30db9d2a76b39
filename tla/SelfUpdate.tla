----------------------------- MODULE SelfUpdate -----------------------------
(* The platform's own update: the About page that asks for it, the manager that claims  *)
(* the state file and launches a detached updater container, and the script in that     *)
(* container, which swaps the version, recreates the stack and rolls back on failure.    *)
(* The stack that is recreated contains the manager.  Finding releases, the backup's     *)
(* contents, the image cleanup and the move of a legacy root are left out.               *)
EXTENDS Naturals, FiniteSets

CONSTANTS Old, New,                                          \* versions
          MaxStarts, MaxFaults, MaxTimeouts, MaxStale, MaxCrashes   \* bounds of the model

VARIABLES
    file,                       \* update-state.json: phase, and whether it has gone stale
    launches,                   \* the manager's launches, each at its step
    leftover,                   \* docker commands a launch no longer waits for
    updater,                    \* the container: absent, working, exited
    pc, previous,               \* the script in it
    recorded, topology, kept,   \* VERSION in .env, compose.yml and its backup
    stack, manager,             \* the version the containers run, or Partial; whether the manager answers
    seen, unreachable, posting, \* the page's cached state, its error, its update mutation
    lapses, excused,            \* history: why a claim was not believed; why the versions may differ
    starts, faults, timeouts, stales, crashes

script   == <<pc, previous>>
disk     == <<recorded, topology, kept>>
platform == <<stack, manager>>
page     == <<seen, unreachable, posting>>
history  == <<lapses, excused>>
bounds   == <<starts, faults, timeouts, stales, crashes>>
vars     == <<file, launches, leftover, updater, script, disk, platform, page, history, bounds>>

Active   == {"backup", "pulling", "restarting"}
Settled  == {"idle", "done", "rolled-back"}
Rolling  == {"restore version", "restore compose", "recreate again", "wait again"}
Swapping == {"pulling", "keep compose", "set version", "fetch", "pull", "restarting", "recreate", "wait", "finish",
             "roll back"}
Partial  == "partial"    \* some containers run the one version, some the other
write(phase) == file' = [phase |-> phase, stale |-> FALSE]
active == file.phase \in Active /\ ~file.stale
Launching == {i \in DOMAIN launches : launches[i] # "over"}
At(i, step) == launches' = [launches EXCEPT ![i] = step]

Init ==
    /\ file = [phase |-> "idle", stale |-> FALSE]
    /\ launches = <<>> /\ leftover = {}
    /\ updater = "absent" /\ pc = "none" /\ previous = Old
    /\ recorded = Old /\ topology = Old /\ kept = Old
    /\ stack = Old /\ manager = "up"
    /\ seen = "idle" /\ unreachable = FALSE /\ posting = 0
    /\ lapses = {} /\ excused = {}
    /\ starts = 0 /\ faults = 0 /\ timeouts = 0 /\ stales = 0 /\ crashes = 0

-----------------------------------------------------------------------------
(* The page: a poll, and a button that is off while it knows of an update moving. *)
canUpdate == manager = "up" /\ stack # New /\ seen \notin Active /\ posting = 0

Poll ==
    /\ IF manager = "up"
         THEN seen' = (IF file.stale THEN "idle" ELSE file.phase) /\ unreachable' = FALSE
         ELSE unreachable' = TRUE /\ UNCHANGED seen
    /\ <<seen', unreachable'>> # <<seen, unreachable>>
    /\ UNCHANGED <<file, launches, leftover, updater, script, disk, platform, posting, history, bounds>>

\* Fault: the state file is written without looking at it.
Claim_Unchecked(i, own) ==
    /\ manager = "up"
    /\ i \notin DOMAIN launches /\ i = starts + 1 /\ starts < MaxStarts
    /\ starts' = i
    /\ own => canUpdate
    /\ write("backup")
    /\ launches' = [j \in 1..i |-> IF j = i THEN "backup" ELSE launches[j]]
    /\ posting' = IF own THEN i ELSE posting
    /\ lapses' = IF file.stale THEN lapses \cup {"stale"} ELSE lapses
    /\ UNCHANGED <<leftover, updater, script, disk, platform, seen, unreachable, excused, faults, timeouts, stales, crashes>>

\* POST /api/system/update, claimed under the lock: by the page's button or another client.
Claim(i, own) ==
    /\ manager = "up" /\ ~active
    /\ i \notin DOMAIN launches /\ i = starts + 1 /\ starts < MaxStarts
    /\ starts' = i
    /\ own => canUpdate
    /\ write("backup")
    /\ launches' = [j \in 1..i |-> IF j = i THEN "backup" ELSE launches[j]]
    /\ posting' = IF own THEN i ELSE posting
    /\ lapses' = IF file.stale THEN lapses \cup {"stale"} ELSE lapses
    /\ UNCHANGED <<leftover, updater, script, disk, platform, seen, unreachable, excused, faults, timeouts, stales, crashes>>

\* The answer to the page's request; a success seeds its cache.
Answered(i, phase) ==
    /\ seen' = IF posting = i THEN phase ELSE seen
    /\ posting' = IF posting = i THEN 0 ELSE posting
    /\ UNCHANGED unreachable

-----------------------------------------------------------------------------
(* The launch: a backup, the removal of the last container, the start of a new one. *)
Backup(i) ==
    /\ launches[i] = "backup" /\ At(i, "remove")
    /\ UNCHANGED <<file, leftover, updater, script, disk, platform, page, history, bounds>>

removed ==
    /\ updater' = "absent" /\ pc' = "none"
    /\ excused' = IF updater = "working" THEN excused \cup {"updater removed"} ELSE excused
    /\ UNCHANGED previous

Remove(i) ==
    /\ launches[i] = "remove" /\ At(i, "run")
    /\ removed
    /\ UNCHANGED <<file, leftover, disk, platform, page, lapses, bounds>>

\* The container's name is taken while another one has it.
started == updater = "absent" /\ updater' = "working" /\ pc' = "pulling" /\ previous' = recorded

Run(i) ==
    /\ launches[i] = "run" /\ At(i, "over")
    /\ started
    /\ Answered(i, "backup")
    /\ UNCHANGED <<file, leftover, disk, platform, history, bounds>>

Failing(i) ==
    /\ At(i, "over") /\ write("idle") /\ Answered(i, seen)
    /\ UNCHANGED <<updater, script, disk, platform>>

LaunchFails(i) ==
    /\ i \in Launching
    /\ (launches[i] = "run" /\ updater # "absent") \/ faults < MaxFaults
    /\ faults' = IF faults < MaxFaults THEN faults + 1 ELSE faults
    /\ Failing(i)
    /\ UNCHANGED <<leftover, history, starts, timeouts, stales, crashes>>

\* The deadline drops the launch but not the docker command it is waiting for.
TimesOut(i) ==
    /\ i \in Launching /\ timeouts < MaxTimeouts
    /\ timeouts' = timeouts + 1
    /\ Failing(i)
    /\ leftover' = leftover \cup ({launches[i]} \cap {"remove", "run"})
    /\ lapses' = lapses \cup {"timed out"}
    /\ UNCHANGED <<excused, starts, faults, stales, crashes>>

Leftover(command) ==
    /\ leftover' = leftover \ {command}
    /\ \/ command = "remove" /\ removed
       \/ command = "run" /\ started /\ UNCHANGED excused
    /\ UNCHANGED <<file, launches, disk, platform, page, lapses, bounds>>

-----------------------------------------------------------------------------
(* The script. *)
Goes(from, to) == updater = "working" /\ pc = from /\ pc' = to

WritePulling ==
    /\ Goes("pulling", "keep compose") /\ write("pulling")
    /\ UNCHANGED <<launches, leftover, updater, previous, disk, platform, page, history, bounds>>

KeepCompose ==
    /\ Goes("keep compose", "set version") /\ kept' = topology
    /\ UNCHANGED <<file, launches, leftover, updater, previous, recorded, topology, platform, page, history, bounds>>

SetVersion ==
    /\ Goes("set version", "fetch") /\ recorded' = New
    /\ UNCHANGED <<file, launches, leftover, updater, previous, topology, kept, platform, page, history, bounds>>

Fetch ==
    /\ Goes("fetch", "pull") /\ topology' = New
    /\ UNCHANGED <<file, launches, leftover, updater, previous, recorded, kept, platform, page, history, bounds>>

Pull ==
    /\ Goes("pull", "restarting")
    /\ UNCHANGED <<file, launches, leftover, updater, previous, disk, platform, page, history, bounds>>

WriteRestarting ==
    /\ Goes("restarting", "recreate") /\ write("restarting")
    /\ UNCHANGED <<launches, leftover, updater, previous, disk, platform, page, history, bounds>>

\* compose up recreates the manager too, and with it goes any launch it was driving.
recreatedAt(version) ==
    /\ stack' = version /\ manager' = "starting"
    /\ launches' = [i \in DOMAIN launches |-> "over"] /\ posting' = 0
    /\ UNCHANGED <<seen, unreachable>>

\* It may fail before it touches anything, half-way, or over the last container.
halfRecreated ==
    \/ UNCHANGED <<platform, launches, page>>
    \/ \E version \in {Partial, recorded} : recreatedAt(version)
    \/ stack' = Partial /\ UNCHANGED <<manager, launches, page>>

Recreate ==
    /\ Goes("recreate", "wait") /\ recreatedAt(recorded)
    /\ excused' = excused \ {"recreate failed"}
    /\ UNCHANGED <<file, leftover, updater, previous, disk, lapses, bounds>>

ManagerBoots ==
    /\ manager = "starting" /\ manager' = "up"
    /\ UNCHANGED <<file, launches, leftover, updater, script, disk, stack, page, history, bounds>>

Healthy ==
    /\ manager = "up" /\ Goes("wait", "finish")
    /\ UNCHANGED <<file, launches, leftover, updater, previous, disk, platform, page, history, bounds>>

Finish ==
    /\ Goes("finish", "remove self") /\ write("done")
    /\ UNCHANGED <<launches, leftover, updater, previous, disk, platform, page, history, bounds>>

RemoveSelf ==
    /\ Goes("remove self", "none") /\ updater' = "absent"
    /\ UNCHANGED <<file, launches, leftover, previous, disk, platform, page, history, bounds>>

\* A failure the script looks for.
rollback ==
    /\ faults < MaxFaults /\ faults' = faults + 1
    /\ updater = "working" /\ pc \in {"fetch", "pull", "recreate", "wait"}
    /\ pc' = "roll back"
    /\ IF pc = "recreate" THEN halfRecreated ELSE UNCHANGED <<platform, launches, page>>
    /\ UNCHANGED <<file, leftover, updater, previous, disk, history, starts, timeouts, stales, crashes>>

\* The phase is the final one from here on, and the rest follows.
WriteRolledBack ==
    /\ Goes("roll back", "restore version") /\ write("rolled-back")
    /\ UNCHANGED <<launches, leftover, updater, previous, disk, platform, page, history, bounds>>

RestoreVersion ==
    /\ Goes("restore version", "restore compose") /\ recorded' = previous
    /\ UNCHANGED <<file, launches, leftover, updater, previous, topology, kept, platform, page, history, bounds>>

\* Fault: the version goes back and the compose file does not.
RestoreCompose_Skipped ==
    /\ Goes("restore compose", "recreate again")
    /\ UNCHANGED <<file, launches, leftover, updater, previous, disk, platform, page, history, bounds>>

RestoreCompose ==
    /\ Goes("restore compose", "recreate again") /\ topology' = kept
    /\ UNCHANGED <<file, launches, leftover, updater, previous, recorded, kept, platform, page, history, bounds>>

\* A stack that is the recorded one already has nothing to recreate.
RecreateAgain ==
    /\ Goes("recreate again", "wait again")
    /\ IF stack = recorded THEN UNCHANGED <<platform, launches, page>> ELSE recreatedAt(recorded)
    /\ excused' = excused \ {"recreate failed"}
    /\ UNCHANGED <<file, leftover, updater, previous, disk, lapses, bounds>>

\* The second failure is only logged, and the script goes on.
RecreateFailsAgain ==
    /\ Goes("recreate again", "wait again")
    /\ IF stack = recorded THEN UNCHANGED <<platform, launches, page>> ELSE halfRecreated
    /\ excused' = excused \cup {"recreate failed"}
    /\ UNCHANGED <<file, leftover, updater, previous, disk, lapses, bounds>>

Exit ==
    /\ Goes("wait again", "none")
    /\ updater' = "exited"
    /\ UNCHANGED <<file, launches, leftover, previous, disk, platform, page, history, bounds>>

\* A command nobody checks fails, such as a state write on a full disk: `set -e` stops there,
\* in the rollback as anywhere else.
Abort ==
    /\ updater = "working"
    /\ pc \in {"pulling", "keep compose", "set version", "fetch", "restarting", "finish",
               "roll back", "restore version", "restore compose"}
    /\ faults < MaxFaults /\ faults' = faults + 1
    /\ updater' = "exited" /\ pc' = "none"
    /\ excused' = excused \cup {"aborted"}
    /\ UNCHANGED <<file, launches, leftover, previous, disk, platform, page, lapses, starts, timeouts, stales, crashes>>

-----------------------------------------------------------------------------
\* Half an hour without a phase: the file is no longer believed.
GoesStale ==
    /\ file.phase \in Active /\ ~file.stale /\ Launching = {} /\ stales < MaxStale
    /\ stales' = stales + 1
    /\ file' = [file EXCEPT !.stale = TRUE]
    /\ UNCHANGED <<launches, leftover, updater, script, disk, platform, page, history, starts, faults, timeouts, crashes>>

\* The host reboots: compose restarts the stack, nothing restarts the updater.
HostCrash ==
    /\ crashes < MaxCrashes /\ crashes' = crashes + 1
    /\ updater' = (IF updater = "working" THEN "exited" ELSE updater) /\ pc' = "none"
    /\ launches' = [i \in DOMAIN launches |-> "over"] /\ leftover' = {} /\ posting' = 0
    /\ manager' = "starting"
    /\ excused' = IF updater = "working" THEN excused \cup {"host crash"} ELSE excused
    /\ UNCHANGED <<file, previous, disk, stack, seen, unreachable, lapses, starts, faults, timeouts, stales>>

-----------------------------------------------------------------------------
Script == WritePulling \/ KeepCompose \/ SetVersion \/ Fetch \/ Pull \/ WriteRestarting \/ Recreate \/ Healthy
          \/ Finish \/ RemoveSelf \/ rollback \/ WriteRolledBack \/ RestoreVersion \/ RestoreCompose
          \/ RecreateAgain \/ RecreateFailsAgain \/ Exit \/ Abort
Launch(i) == Backup(i) \/ Remove(i) \/ Run(i) \/ LaunchFails(i) \/ TimesOut(i)

Next ==
    \/ Poll \/ \E i \in 1..MaxStarts, own \in BOOLEAN : Claim(i, own)
    \/ \E i \in DOMAIN launches : Launch(i)
    \/ \E command \in leftover : Leftover(command)
    \/ Script \/ ManagerBoots \/ GoesStale \/ HostCrash

Spec == Init /\ [][Next]_vars

-----------------------------------------------------------------------------
TypeOK ==
    /\ file.phase \in Active \cup Settled /\ file.stale \in BOOLEAN
    /\ \A i \in DOMAIN launches : launches[i] \in {"backup", "remove", "run", "over"}
    /\ leftover \subseteq {"remove", "run"}
    /\ updater \in {"absent", "working", "exited"} /\ manager \in {"up", "starting"}
    /\ pc \in {"none", "remove self"} \cup Swapping \cup Rolling
    /\ {previous, recorded, topology, kept} \subseteq {Old, New} /\ stack \in {Old, New, Partial}
    /\ seen \in Active \cup Settled /\ posting \in 0..MaxStarts

(* "Every failure after the version is written must come back through here, otherwise  *)
(* ... the new version recorded and the old containers still running" (update.sh:135):  *)
(* once an update is over, done or rolled back, the recorded version and the compose     *)
(* file go together, and the containers with them where the rollback could recreate the  *)
(* stack; unless the updater was cut short, by others or by a command nobody checks.     *)
RecordedVersionRuns ==
    updater # "working" =>
        /\ excused \subseteq {"recreate failed"} => recorded = topology
        /\ excused = {} => recorded = stack

(* The same comment, of the script alone: whichever of its commands fails, an updater    *)
(* that nobody cut short leaves no new version over old containers.                      *)
EveryFailureRollsBack ==
    updater # "working" /\ excused \subseteq {"aborted"} => ~(recorded = New /\ stack = Old)

(* "Claiming the state file under the lock is what makes two simultaneous requests one   *)
(* update" (updater/mod.rs:230): a launch removes a working updater only where the claim  *)
(* was not to be had: a launch that timed out, a stale file, or a rollback under way.     *)
ClaimProtectsTheUpdater ==
    \A i \in DOMAIN launches : Remove(i) =>
        updater # "working" \/ pc \in Rolling \cup {"remove self"} \/ lapses # {}

(* The comment above that claim: "a second start would kill one mid-recreate".  With no   *)
(* timeout, stale file or crash, no launch removes an updater that is recreating the       *)
(* stack.                                                                                  *)
NoUpdaterKilledMidRecreate ==
    [][\A i \in DOMAIN launches : Remove(i) => pc \notin {"recreate", "wait", "recreate again", "wait again"}]_vars
=============================================================================
