--------------------------- MODULE ProgramsProofs ---------------------------
(* What holds of the programs beside the manager's requests, for every value of the         *)
(* constants: the self-update, the scheduled tasks and the migration.  The three share       *)
(* nothing, so each has an inductive invariant over its own variables.                       *)
EXTENDS Programs, FiniteSetTheorems, TLAPS

\* A step of the composition is a step of the model it is about, or leaves it alone.
LEMMA ProgramMoves ==
  ASSUME [ProgramsNext]_programsVars
  PROVE  /\ client' = client
         /\ client = "update" => [Update!Next]_(Update!vars)
         /\ client = "tasks" => [Tasks!Next]_(Tasks!vars)
         /\ client = "dokploy" => [Dokploy!Next]_(Dokploy!vars)
<1>1. CASE ProgramsNext
  BY <1>1 DEF ProgramsNext
<1>2. CASE UNCHANGED programsVars
  <2>1. client' = client /\ UNCHANGED updateVars /\ UNCHANGED tasksVars /\ UNCHANGED dokployVars
    BY <1>2 DEF programsVars
  <2>2. UNCHANGED Update!vars
    BY <2>1 DEF updateVars, Update!vars, Update!script, Update!disk, Update!platform, Update!page,
       Update!history, Update!bounds
  <2>3. UNCHANGED Tasks!vars
    BY <2>1 DEF tasksVars, Tasks!vars, Tasks!server, Tasks!page, Tasks!counts
  <2>4. UNCHANGED Dokploy!vars
    BY <2>1 DEF dokployVars, Dokploy!vars, Dokploy!dokploy, Dokploy!script, Dokploy!vexdock
  <2> QED BY <2>1, <2>2, <2>3, <2>4
<1> QED BY <1>1, <1>2

-----------------------------------------------------------------------------
(* The self-update. *)

-----------------------------------------------------------------------------
(* What the disk holds at each step of a script that was never cut short. *)

\* What the script recorded goes with the compose file, but for the steps that change one
\* after the other.
OnDisk ==
    /\ updater # "working" => recorded = topology
    /\ updater = "working" =>
        /\ pc_update # "none"
        /\ pc_update \in {"pulling", "keep compose", "set version"} =>
            recorded = previous /\ topology = previous
        /\ pc_update \in {"set version", "fetch", "pull", "restarting", "recreate", "wait",
                "roll back", "restore version", "restore compose"} =>
            kept = previous
        /\ pc_update = "fetch" => recorded = NewVersion
        /\ pc_update = "restore compose" => recorded = previous
        /\ pc_update \in {"pull", "restarting", "recreate", "wait", "finish", "remove self",
                "recreate again", "wait again"} =>
            recorded = topology

\* The stack follows when it has been recreated.
OnStack ==
    updater # "working" \/ pc_update \in {"wait", "finish", "remove self", "wait again"} =>
        recorded = stack

Whole     == excused_update \subseteq {"recreate failed"}
Positions == {"none", "remove self"} \cup Update!Swapping \cup Update!Rolling
DiskInv   ==
    /\ pc_update \in Positions
    /\ Whole => OnDisk
    /\ excused_update = {} => OnStack

\* The steps of the script, which leave the history alone or settle it.
LEMMA ScriptOnDisk ==
  ASSUME DiskInv, Update!Script, ~Update!Abort PROVE DiskInv'
<1>1. updater = "working"
  BY DEF Update!Script, Update!Goes, Update!WritePulling, Update!KeepCompose, Update!SetVersion,
     Update!Fetch, Update!Pull, Update!WriteRestarting, Update!Recreate, Update!Healthy,
     Update!Finish, Update!RemoveSelf, Update!rollback, Update!WriteRolledBack,
     Update!RestoreVersion, Update!RestoreCompose, Update!RecreateAgain,
     Update!RecreateFailsAgain, Update!Exit
<1>2. CASE Update!WritePulling \/ Update!Pull \/ Update!WriteRestarting
  <2>1. /\ UNCHANGED <<updater, previous, recorded, topology, kept, stack, excused_update>>
        /\ \/ pc_update = "pulling" /\ pc_update' = "keep compose"
           \/ pc_update = "pull" /\ pc_update' = "restarting"
           \/ pc_update = "restarting" /\ pc_update' = "recreate"
    BY <1>2 DEF Update!WritePulling, Update!Pull, Update!WriteRestarting, Update!Goes,
       Update!disk, Update!platform, Update!history
  <2> QED BY <1>1, <2>1 DEF DiskInv, OnDisk, OnStack, Whole, Positions, Update!Swapping
<1>3. CASE Update!KeepCompose
  <2>1. /\ UNCHANGED <<updater, previous, recorded, topology, stack, excused_update>>
        /\ pc_update = "keep compose" /\ pc_update' = "set version" /\ kept' = topology
    BY <1>3 DEF Update!KeepCompose, Update!Goes, Update!platform, Update!history
  <2> QED BY <1>1, <2>1 DEF DiskInv, OnDisk, OnStack, Whole, Positions, Update!Swapping
<1>4. CASE Update!SetVersion
  <2>1. /\ UNCHANGED <<updater, previous, topology, kept, stack, excused_update>>
        /\ pc_update = "set version" /\ pc_update' = "fetch" /\ recorded' = NewVersion
    BY <1>4 DEF Update!SetVersion, Update!Goes, Update!platform, Update!history
  <2> QED BY <1>1, <2>1 DEF DiskInv, OnDisk, OnStack, Whole, Positions, Update!Swapping
<1>5. CASE Update!Fetch
  <2>1. /\ UNCHANGED <<updater, previous, recorded, kept, stack, excused_update>>
        /\ pc_update = "fetch" /\ pc_update' = "pull" /\ topology' = NewVersion
    BY <1>5 DEF Update!Fetch, Update!Goes, Update!platform, Update!history
  <2> QED BY <1>1, <2>1 DEF DiskInv, OnDisk, OnStack, Whole, Positions, Update!Swapping
<1>6. CASE Update!Recreate \/ Update!RecreateAgain
  <2>1. /\ UNCHANGED <<updater, previous, recorded, topology, kept>> /\ stack' = recorded
        /\ excused_update' = excused_update \ {"recreate failed"}
        /\ \/ pc_update = "recreate" /\ pc_update' = "wait"
           \/ pc_update = "recreate again" /\ pc_update' = "wait again"
    BY <1>6 DEF Update!Recreate, Update!RecreateAgain, Update!recreatedAt, Update!Goes,
       Update!disk, Update!platform
  <2>2. Whole' => Whole
    BY <2>1 DEF Whole
  <2> QED BY <1>1, <2>1, <2>2 DEF DiskInv, OnDisk, OnStack, Positions, Update!Swapping,
         Update!Rolling
<1>7. CASE Update!RecreateFailsAgain
  <2>1. /\ UNCHANGED <<updater, previous, recorded, topology, kept>>
        /\ excused_update' = excused_update \cup {"recreate failed"}
        /\ pc_update = "recreate again" /\ pc_update' = "wait again"
    BY <1>7 DEF Update!RecreateFailsAgain, Update!Goes, Update!disk
  <2>2. (Whole' => Whole) /\ excused_update' # {}
    BY <2>1 DEF Whole
  <2> QED BY <1>1, <2>1, <2>2 DEF DiskInv, OnDisk, OnStack, Positions, Update!Rolling
<1>8. CASE Update!Healthy \/ Update!Finish
  <2>1. /\ UNCHANGED <<updater, previous, recorded, topology, kept, stack, excused_update>>
        /\ \/ pc_update = "wait" /\ pc_update' = "finish"
           \/ pc_update = "finish" /\ pc_update' = "remove self"
    BY <1>8 DEF Update!Healthy, Update!Finish, Update!Goes, Update!disk, Update!platform,
       Update!history
  <2> QED BY <1>1, <2>1 DEF DiskInv, OnDisk, OnStack, Whole, Positions, Update!Swapping
<1>9. CASE Update!RemoveSelf \/ Update!Exit
  <2>1. /\ UNCHANGED <<recorded, topology, stack, excused_update>>
        /\ pc_update \in {"remove self", "wait again"}
        /\ pc_update' = "none" /\ updater' # "working"
    BY <1>9 DEF Update!RemoveSelf, Update!Exit, Update!Goes, Update!disk, Update!platform,
       Update!history
  <2> QED BY <1>1, <2>1 DEF DiskInv, OnDisk, OnStack, Whole, Positions
<1>10. CASE Update!rollback
  <2>1. /\ pc_update \in {"fetch", "pull", "recreate", "wait"} /\ pc_update' = "roll back"
        /\ UNCHANGED <<updater, previous, kept, excused_update>>
    BY <1>10 DEF Update!rollback, Update!disk, Update!history
  <2> QED BY <1>1, <2>1 DEF DiskInv, OnDisk, OnStack, Whole, Positions, Update!Swapping
<1>11. CASE Update!WriteRolledBack
  <2>1. /\ pc_update = "roll back" /\ pc_update' = "restore version"
        /\ UNCHANGED <<updater, previous, kept, excused_update>>
    BY <1>11 DEF Update!WriteRolledBack, Update!Goes, Update!disk, Update!history
  <2> QED BY <1>1, <2>1 DEF DiskInv, OnDisk, OnStack, Whole, Positions, Update!Rolling
<1>12. CASE Update!RestoreVersion
  <2>1. /\ pc_update = "restore version" /\ pc_update' = "restore compose"
        /\ recorded' = previous /\ UNCHANGED <<updater, previous, kept, excused_update>>
    BY <1>12 DEF Update!RestoreVersion, Update!Goes, Update!history
  <2> QED BY <1>1, <2>1 DEF DiskInv, OnDisk, OnStack, Whole, Positions, Update!Rolling
<1>13. CASE Update!RestoreCompose
  <2>1. /\ pc_update = "restore compose" /\ pc_update' = "recreate again"
        /\ topology' = kept /\ UNCHANGED <<updater, previous, recorded, kept, excused_update>>
    BY <1>13 DEF Update!RestoreCompose, Update!Goes, Update!history
  <2> QED BY <1>1, <2>1 DEF DiskInv, OnDisk, OnStack, Whole, Positions, Update!Rolling
<1> QED BY <1>2, <1>3, <1>4, <1>5, <1>6, <1>7, <1>8, <1>9, <1>10, <1>11, <1>12, <1>13 DEF
   Update!Script

\* What a script that was cut short leaves behind is excused.
CutShort == excused_update' \cap {"updater removed", "aborted", "host crash"} # {}

\* A container that starts finds the three that agree; one that is removed at work, is cut
\* short by the host or stops at a failed command is excused.
LEMMA ContainerOnDisk ==
  ASSUME DiskInv, UNCHANGED <<Update!disk, stack>>,
         \/ Update!removed
         \/ Update!started /\ UNCHANGED excused_update
         \/ UNCHANGED <<updater, Update!script, excused_update>>
         \/ updater = "working" /\ pc_update' = "none" /\ CutShort
         \/ updater # "working" /\ updater' = updater /\ pc_update' = "none" /\
                 excused_update' = excused_update
  PROVE  DiskInv'
<1>0. UNCHANGED <<recorded, topology, kept>>
  BY DEF Update!disk
<1>1. CASE pc_update' = "none" /\ CutShort
  BY <1>1 DEF DiskInv, Whole, CutShort, Positions
<1>2. CASE /\ updater # "working" /\ updater' # "working" /\ pc_update' = "none"
           /\ excused_update' = excused_update
  BY <1>0, <1>2 DEF DiskInv, OnDisk, OnStack, Whole, Positions
<1>3. CASE Update!removed
  <2>1. /\ pc_update' = "none" /\ updater' # "working"
        /\ updater = "working" => CutShort
        /\ updater # "working" => excused_update' = excused_update
    BY <1>3 DEF Update!removed, CutShort
  <2> QED BY <1>1, <1>2, <2>1
<1>4. CASE Update!started /\ UNCHANGED excused_update
  <2>1. updater # "working" /\ updater' = "working" /\ pc_update' = "pulling"
        /\ previous' = recorded
    BY <1>4 DEF Update!started
  <2> QED BY <1>0, <1>4, <2>1 DEF DiskInv, OnDisk, OnStack, Whole, Positions, Update!Swapping
<1>5. CASE UNCHANGED <<updater, Update!script, excused_update>>
  <2>1. UNCHANGED <<pc_update, previous>>
    BY <1>5 DEF Update!script
  <2> QED BY <1>0, <1>5, <2>1 DEF DiskInv, OnDisk, OnStack, Whole
<1> QED BY <1>1, <1>2, <1>3, <1>4, <1>5

LEMMA NextDisk == DiskInv /\ [Update!Next]_(Update!vars) => DiskInv'
<1> SUFFICES ASSUME DiskInv, [Update!Next]_(Update!vars) PROVE DiskInv'
  OBVIOUS
<1>1. CASE Update!Script /\ ~Update!Abort
  BY <1>1, ScriptOnDisk
<1>2. CASE Update!Abort
  <2>1. updater = "working" /\ pc_update' = "none" /\ CutShort /\
          UNCHANGED <<Update!disk, stack>>
    BY <1>2 DEF Update!Abort, Update!platform, CutShort
  <2> QED BY <2>1, ContainerOnDisk
<1>3. CASE Update!Poll \/ Update!GoesStale \/ Update!ManagerBoots \/ UNCHANGED Update!vars
  <2>1. UNCHANGED <<Update!disk, stack, updater, Update!script, excused_update>>
    BY <1>3 DEF Update!Poll, Update!GoesStale, Update!ManagerBoots, Update!vars, Update!platform,
       Update!history
  <2> QED BY <2>1, ContainerOnDisk
<1>4. ASSUME NEW i \in 1..MaxStarts, NEW own \in BOOLEAN, Update!Claim(i, own) PROVE DiskInv'
  <2>1. UNCHANGED <<Update!disk, stack, updater, Update!script, excused_update>>
    BY <1>4 DEF Update!Claim, Update!platform
  <2> QED BY <2>1, ContainerOnDisk
<1>5. ASSUME NEW i \in DOMAIN launches, Update!Launch(i) PROVE DiskInv'
  <2>1. CASE Update!Backup(i) \/ Update!LaunchFails(i) \/ Update!TimesOut(i)
    <3>1. UNCHANGED <<Update!disk, stack, updater, Update!script, excused_update>>
      BY <2>1 DEF Update!Backup, Update!LaunchFails, Update!TimesOut, Update!Failing,
         Update!platform, Update!history
    <3> QED BY <3>1, ContainerOnDisk
  <2>2. CASE Update!Remove(i)
    <3>1. Update!removed /\ UNCHANGED <<Update!disk, stack>>
      BY <2>2 DEF Update!Remove, Update!platform
    <3> QED BY <3>1, ContainerOnDisk
  <2>3. CASE Update!Run(i)
    <3>1. Update!started /\ UNCHANGED <<Update!disk, stack, excused_update>>
      BY <2>3 DEF Update!Run, Update!platform, Update!history
    <3> QED BY <3>1, ContainerOnDisk
  <2> QED BY <1>5, <2>1, <2>2, <2>3 DEF Update!Launch
<1>6. ASSUME NEW command \in leftover, Update!Leftover(command) PROVE DiskInv'
  <2>1. UNCHANGED <<Update!disk, stack>> /\ (Update!removed \/ (Update!started /\
          UNCHANGED excused_update))
    BY <1>6 DEF Update!Leftover, Update!platform
  <2> QED BY <2>1, ContainerOnDisk
<1>7. CASE Update!HostCrash
  <2>1. UNCHANGED <<Update!disk, stack>> /\ pc_update' = "none"
    BY <1>7 DEF Update!HostCrash
  <2>2. CASE updater = "working"
    <3>1. CutShort
      BY <1>7, <2>2 DEF Update!HostCrash, CutShort
    <3> QED BY <2>1, <2>2, <3>1, ContainerOnDisk
  <2>3. CASE updater # "working"
    <3>1. updater' = updater /\ excused_update' = excused_update
      BY <1>7, <2>3 DEF Update!HostCrash
    <3> QED BY <2>1, <2>3, <3>1, ContainerOnDisk
  <2> QED BY <2>2, <2>3
<1> QED BY <1>1, <1>2, <1>3, <1>4, <1>5, <1>6, <1>7 DEF Update!Next

(* Once an update is over, done or rolled back, the recorded version and the compose file     *)
(* agree, whichever step failed, unless the updater was cut short; and the running containers  *)
(* with them, unless the rollback could not recreate the stack (update.sh, Updater::launch).   *)
THEOREM VersionRuns == ProgramsSpec => []RecordedVersionRuns
<1> DEFINE Inv == client = "update" => DiskInv
<1>1. ProgramsInit => Inv
  BY DEF ProgramsInit, Update!Init, DiskInv, OnDisk, OnStack, Whole, Positions
<1>2. Inv /\ [ProgramsNext]_programsVars => Inv'
  BY ProgramMoves, NextDisk
<1>3. Inv => RecordedVersionRuns
  BY DEF DiskInv, OnDisk, OnStack, Whole, RecordedVersionRuns, Update!RecordedVersionRuns
<1> QED BY <1>1, <1>2, <1>3, PTL DEF ProgramsSpec

-----------------------------------------------------------------------------
(* Whom the claim keeps apart, while every claim can be believed. *)

Working(steps) == updater = "working" /\ pc_update \in steps

\* One launch at a time, over a file that says so and beside no updater that swaps; and an
\* updater that swaps is announced by the file.
Claimed ==
    /\ leftover = {}
    /\ \A i, j \in Update!Launching : i = j
    /\ Update!Launching # {} => file.phase = "backup" /\ ~file.stale /\ ~Working(Update!Swapping)
    /\ Working(Update!Swapping) => file.phase \in Update!Active

Files    == [phase : Update!Active \cup Update!Settled, stale : BOOLEAN]
ClaimInv ==
    /\ pc_update \in Positions /\ file \in Files
    /\ updater = "working" => pc_update # "none"
    /\ launches = [i \in DOMAIN launches |-> launches[i]]
    /\ lapses_update = {} => Claimed

\* The launches are numbered in the order they were claimed.
LaunchesNumbered == starts \in Nat /\ DOMAIN launches = 1..starts

LEMMA NextLaunchesNumbered == LaunchesNumbered /\ [Update!Next]_(Update!vars) => LaunchesNumbered'
<1> SUFFICES ASSUME LaunchesNumbered, [Update!Next]_(Update!vars) PROVE LaunchesNumbered'
  OBVIOUS
<1>1. ASSUME NEW i \in 1..MaxStarts, NEW own \in BOOLEAN, Update!Claim(i,
        own) PROVE LaunchesNumbered'
  <2>1. i = starts + 1 /\ starts' = i /\ DOMAIN launches' = 1..i
    BY <1>1 DEF Update!Claim
  <2> QED BY <2>1 DEF LaunchesNumbered
<1>2. CASE Update!Script
  <2>1. starts' = starts
    BY <1>2 DEF Update!Script, Update!WritePulling, Update!KeepCompose, Update!SetVersion,
       Update!Fetch, Update!Pull, Update!WriteRestarting, Update!Recreate, Update!Healthy,
       Update!Finish, Update!RemoveSelf, Update!rollback, Update!WriteRolledBack,
       Update!RestoreVersion, Update!RestoreCompose, Update!RecreateAgain,
       Update!RecreateFailsAgain, Update!Exit, Update!Abort, Update!bounds
  <2>2. UNCHANGED launches \/ launches' = [i \in DOMAIN launches |-> "over"]
    BY <1>2 DEF Update!Script, Update!WritePulling, Update!KeepCompose, Update!SetVersion,
       Update!Fetch, Update!Pull, Update!WriteRestarting, Update!Recreate, Update!recreatedAt,
       Update!halfRecreated, Update!Healthy, Update!Finish, Update!RemoveSelf, Update!rollback,
       Update!WriteRolledBack, Update!RestoreVersion, Update!RestoreCompose,
       Update!RecreateAgain, Update!RecreateFailsAgain, Update!Exit, Update!Abort
  <2> QED BY <2>1, <2>2 DEF LaunchesNumbered
<1>3. ASSUME NEW i \in DOMAIN launches, Update!Launch(i) PROVE LaunchesNumbered'
  BY <1>3 DEF Update!Launch, Update!Backup, Update!Remove, Update!Run, Update!LaunchFails,
     Update!TimesOut, Update!Failing, Update!At, Update!bounds, LaunchesNumbered
<1>4. CASE Update!Poll \/ Update!ManagerBoots \/ Update!GoesStale \/ Update!HostCrash \/
        UNCHANGED Update!vars \/ \E command \in leftover : Update!Leftover(command)
  BY <1>4 DEF Update!Poll, Update!ManagerBoots, Update!GoesStale, Update!HostCrash, Update!vars,
     Update!bounds, Update!Leftover, LaunchesNumbered
<1> QED BY <1>1, <1>2, <1>3, <1>4 DEF Update!Next

LEMMA FileWrites ==
  ASSUME NEW phase \in Update!Active \cup Update!Settled, Update!write(phase)
  PROVE  file' \in Files /\ file'.phase = phase /\ ~file'.stale
BY DEF Update!write, Files

\* The script's own steps: while a launch is under way none of them swaps.
LEMMA ScriptClaim == ASSUME ClaimInv, Update!Script PROVE ClaimInv'
<1>1. /\ updater = "working" /\ UNCHANGED <<leftover, lapses_update>>
      /\ updater' \in {"working", "absent", "exited"}
  BY DEF Update!Script, Update!Goes, Update!WritePulling, Update!KeepCompose, Update!SetVersion,
     Update!Fetch, Update!Pull, Update!WriteRestarting, Update!Recreate, Update!Healthy,
     Update!Finish, Update!RemoveSelf, Update!rollback, Update!WriteRolledBack,
     Update!RestoreVersion, Update!RestoreCompose, Update!RecreateAgain,
     Update!RecreateFailsAgain, Update!Exit, Update!Abort, Update!history
<1>2. /\ launches' = [i \in DOMAIN launches |-> launches'[i]]
      /\ Update!Launching' \subseteq Update!Launching
  <2>1. CASE UNCHANGED launches
    BY <2>1 DEF ClaimInv, Update!Launching
  <2>2. CASE launches' = [i \in DOMAIN launches |-> "over"]
    BY <2>2 DEF Update!Launching
  <2> QED BY <2>1, <2>2 DEF Update!Script, Update!WritePulling, Update!KeepCompose,
     Update!SetVersion, Update!Fetch, Update!Pull, Update!WriteRestarting, Update!Recreate,
     Update!recreatedAt, Update!halfRecreated, Update!Healthy, Update!Finish,
     Update!RemoveSelf, Update!rollback, Update!WriteRolledBack, Update!RestoreVersion,
     Update!RestoreCompose, Update!RecreateAgain, Update!RecreateFailsAgain, Update!Exit,
     Update!Abort
<1>3. CASE Update!WritePulling \/ Update!WriteRestarting
  <2>1. /\ pc_update \in Update!Swapping /\ pc_update' \in Update!Swapping /\
          updater' = "working" /\ UNCHANGED launches
        /\ file' \in Files /\ file'.phase \in Update!Active
    BY <1>1, <1>3, FileWrites DEF Update!WritePulling, Update!WriteRestarting, Update!Goes,
       Update!Swapping, Update!Active
  <2>2. lapses_update = {} => Update!Launching = {}
    BY <1>1, <2>1 DEF ClaimInv, Claimed, Working
  <2> QED BY <1>1, <1>2, <2>1, <2>2 DEF ClaimInv, Claimed, Positions, Update!Swapping
<1>4. CASE Update!Finish \/ Update!WriteRolledBack
  <2>1. /\ pc_update \in Update!Swapping /\ pc_update' \in {"remove self", "restore version"} /\
          updater' = "working"
        /\ file' \in Files
    BY <1>1, <1>4, FileWrites DEF Update!Finish, Update!WriteRolledBack, Update!Goes,
       Update!Swapping, Update!Settled
  <2>2. lapses_update = {} => Update!Launching = {}
    BY <1>1, <2>1 DEF ClaimInv, Claimed, Working
  <2> QED BY <1>1, <1>2, <2>1, <2>2 DEF ClaimInv, Claimed, Working, Positions, Update!Rolling,
     Update!Swapping
<1>5. CASE Update!KeepCompose \/ Update!SetVersion \/ Update!Fetch \/ Update!Pull \/
        Update!Recreate \/ Update!Healthy \/ Update!rollback
  <2>1. pc_update \in Update!Swapping /\ pc_update' \in Update!Swapping /\
          updater' = "working" /\ UNCHANGED file
    BY <1>1, <1>5 DEF Update!KeepCompose, Update!SetVersion, Update!Fetch, Update!Pull,
       Update!Recreate, Update!Healthy, Update!rollback, Update!Goes, Update!Swapping
  <2>2. lapses_update = {} => Update!Launching = {}
    BY <1>1, <2>1 DEF ClaimInv, Claimed, Working
  <2> QED BY <1>1, <1>2, <2>1, <2>2 DEF ClaimInv, Claimed, Working, Positions, Update!Swapping
<1>6. CASE Update!RestoreVersion \/ Update!RestoreCompose \/ Update!RecreateAgain \/
        Update!RecreateFailsAgain
  <2>1. pc_update' \in Update!Rolling /\ updater' = "working" /\ UNCHANGED file
    BY <1>1, <1>6 DEF Update!RestoreVersion, Update!RestoreCompose, Update!RecreateAgain,
       Update!RecreateFailsAgain, Update!Goes, Update!Rolling
  <2> QED BY <1>1, <1>2, <2>1 DEF ClaimInv, Claimed, Working, Positions, Update!Rolling,
     Update!Swapping
<1>7. CASE Update!RemoveSelf \/ Update!Exit \/ Update!Abort
  <2>1. pc_update' = "none" /\ updater' # "working" /\ UNCHANGED file
    BY <1>7 DEF Update!RemoveSelf, Update!Exit, Update!Abort, Update!Goes
  <2> QED BY <1>1, <1>2, <2>1 DEF ClaimInv, Claimed, Working, Positions
<1> QED BY <1>3, <1>4, <1>5, <1>6, <1>7 DEF Update!Script

\* A claim that is believed finds no launch and no updater that swaps.
LEMMA ClaimClaim ==
  ASSUME ClaimInv, LaunchesNumbered, NEW i \in 1..MaxStarts, NEW own \in BOOLEAN,
          Update!Claim(i, own) PROVE ClaimInv'
<1>1. /\ UNCHANGED <<leftover, updater, pc_update>> /\ ~Update!active
      /\ launches' = [j \in 1..i |-> IF j = i THEN "backup" ELSE launches[j]]
      /\ lapses_update' = IF file.stale THEN lapses_update \cup {"stale"} ELSE lapses_update
  BY DEF Update!Claim, Update!script
<1>2. file' \in Files /\ file'.phase = "backup" /\ ~file'.stale
  BY FileWrites DEF Update!Claim, Update!Active
<1>3. CASE lapses_update' = {}
  <2>1. ~file.stale /\ lapses_update = {}
    BY <1>1, <1>3
  <2>2. file.phase \notin Update!Active
    BY <1>1, <2>1 DEF Update!active
  <2>3. Update!Launching = {} /\ ~Working(Update!Swapping)
    BY <2>1, <2>2 DEF ClaimInv, Claimed, Update!Active
  <2>4. i = starts + 1
    BY DEF Update!Claim
  <2>5. ASSUME NEW j \in Update!Launching', j # i PROVE FALSE
    <3>1. j \in 1..i /\ launches'[j] = launches[j] /\ launches[j] # "over"
      BY <1>1, <2>5 DEF Update!Launching
    <3>2. j \in DOMAIN launches
      BY <3>1, <2>4, <2>5 DEF LaunchesNumbered
    <3> QED BY <3>1, <3>2, <2>3 DEF Update!Launching
  <2> QED BY <1>1, <1>2, <2>1, <2>3, <2>5 DEF ClaimInv, Claimed, Working
<1>4. CASE lapses_update' # {}
  BY <1>1, <1>2, <1>4 DEF ClaimInv
<1> QED BY <1>3, <1>4

LEMMA LaunchClaim ==
  ASSUME ClaimInv, NEW i \in DOMAIN launches, Update!Launch(i) PROVE ClaimInv'
<1>1. CASE Update!Backup(i) \/ Update!Remove(i)
  <2>1. /\ i \in Update!Launching /\ Update!Launching' = Update!Launching /\ UNCHANGED <<file,
          leftover, lapses_update>>
        /\ launches' = [j \in DOMAIN launches |-> launches'[j]]
    BY <1>1 DEF Update!Backup, Update!Remove, Update!At, Update!Launching, Update!history,
       ClaimInv
  <2>2. (UNCHANGED <<updater, pc_update>>) \/ (updater' = "absent" /\ pc_update' = "none")
    BY <1>1 DEF Update!Backup, Update!Remove, Update!removed, Update!script
  <2> QED BY <2>1, <2>2 DEF ClaimInv, Claimed, Working, Positions
<1>2. CASE Update!Run(i) \/ Update!LaunchFails(i) \/ Update!TimesOut(i)
  <2>1. /\ i \in Update!Launching /\ Update!Launching' = Update!Launching \ {i}
        /\ launches' = [j \in DOMAIN launches |-> launches'[j]]
    BY <1>2 DEF Update!Run, Update!LaunchFails, Update!TimesOut, Update!Failing, Update!At,
       Update!Launching, ClaimInv
  <2>2. lapses_update = {} => Update!Launching' = {}
    BY <2>1 DEF ClaimInv, Claimed
  <2>3. CASE Update!Run(i)
    <3>1. /\ updater' = "working" /\ pc_update' = "pulling" /\ UNCHANGED <<file, leftover,
            lapses_update>>
      BY <2>3 DEF Update!Run, Update!started, Update!history
    <3>2. lapses_update = {} => file.phase = "backup"
      BY <2>1 DEF ClaimInv, Claimed
    <3> QED BY <2>1, <2>2, <3>1, <3>2 DEF ClaimInv, Claimed, Working, Positions, Update!Swapping,
       Update!Active
  <2>4. CASE Update!LaunchFails(i)
    <3>1. UNCHANGED <<updater, pc_update, leftover, lapses_update>>
      BY <2>4 DEF Update!LaunchFails, Update!Failing, Update!script, Update!history
    <3>2. file' \in Files
      BY <2>4, FileWrites DEF Update!LaunchFails, Update!Failing, Update!Settled
    <3>3. lapses_update = {} => ~Working(Update!Swapping)
      BY <2>1 DEF ClaimInv, Claimed
    <3> QED BY <2>1, <2>2, <3>1, <3>2, <3>3 DEF ClaimInv, Claimed, Working
  <2>5. CASE Update!TimesOut(i)
    <3>1. UNCHANGED <<updater, pc_update>> /\ lapses_update' # {}
      BY <2>5 DEF Update!TimesOut, Update!Failing, Update!script
    <3>2. file' \in Files
      BY <2>5, FileWrites DEF Update!TimesOut, Update!Failing, Update!Settled
    <3> QED BY <2>1, <3>1, <3>2 DEF ClaimInv
  <2> QED BY <1>2, <2>3, <2>4, <2>5
<1> QED BY <1>1, <1>2 DEF Update!Launch

LEMMA OtherClaim ==
  ASSUME ClaimInv,
         \/ Update!Poll \/ Update!ManagerBoots \/ Update!GoesStale \/ Update!HostCrash \/
                 UNCHANGED Update!vars
         \/ \E command \in leftover : Update!Leftover(command)
  PROVE  ClaimInv'
<1>1. CASE Update!Poll \/ Update!ManagerBoots \/ UNCHANGED Update!vars
  <2>1. UNCHANGED <<file, launches, leftover, updater, pc_update, lapses_update>>
    BY <1>1 DEF Update!Poll, Update!ManagerBoots, Update!vars, Update!script, Update!history
  <2> QED BY <2>1 DEF ClaimInv, Claimed, Update!Launching, Working
<1>2. CASE Update!GoesStale
  <2>1. /\ UNCHANGED <<launches, leftover, updater, pc_update, lapses_update>> /\
          Update!Launching = {}
        /\ file' = [file EXCEPT !.stale = TRUE]
    BY <1>2 DEF Update!GoesStale, Update!script, Update!history
  <2>2. file' \in Files /\ file'.phase = file.phase /\ Update!Launching' = {}
    BY <2>1 DEF ClaimInv, Files, Update!Launching
  <2> QED BY <2>1, <2>2 DEF ClaimInv, Claimed, Working
<1>3. CASE Update!HostCrash
  <2>1. /\ UNCHANGED <<file, lapses_update>> /\ leftover' = {} /\ updater' # "working" /\
          pc_update' = "none"
        /\ launches' = [i \in DOMAIN launches |-> "over"]
    BY <1>3 DEF Update!HostCrash
  <2>2. Update!Launching' = {}
    BY <2>1 DEF Update!Launching
  <2> QED BY <2>1, <2>2 DEF ClaimInv, Claimed, Working, Positions
<1>4. CASE \E command \in leftover : Update!Leftover(command)
  <2>1. PICK command \in leftover : Update!Leftover(command)
    BY <1>4
  <2>2. lapses_update # {}
    BY <2>1 DEF ClaimInv, Claimed
  <2>3. /\ UNCHANGED <<file, launches, lapses_update>>
        /\ (updater' = "absent" /\ pc_update' = "none") \/ (updater' = "working" /\
                pc_update' = "pulling")
    BY <2>1 DEF Update!Leftover, Update!removed, Update!started
  <2> QED BY <2>2, <2>3 DEF ClaimInv, Positions, Update!Swapping
<1> QED BY <1>1, <1>2, <1>3, <1>4

LEMMA NextClaim == ClaimInv /\ LaunchesNumbered /\ [Update!Next]_(Update!vars) => ClaimInv'
BY ScriptClaim, ClaimClaim, LaunchClaim, OtherClaim DEF Update!Next

(* A launch removes an updater at work only during a rollback or its last step, or after a   *)
(* claim could not be believed, however many starts are tried (Updater::start, Updater::launch). *)
THEOREM UpdaterProtected == ProgramsSpec => ClaimProtectsTheUpdater
<1> DEFINE Inv == client = "update" => ClaimInv /\ LaunchesNumbered
           Promise == client = "update" => Update!ClaimProtectsTheUpdater
<1>1. ProgramsInit => Inv
  <2>1. Update!Init => ClaimInv /\ LaunchesNumbered
    BY DEF Update!Init, ClaimInv, Claimed, Working, Update!Launching, Files, Positions,
       Update!Active, Update!Settled, LaunchesNumbered
  <2> QED BY <2>1 DEF ProgramsInit
<1>2. Inv /\ [ProgramsNext]_programsVars => Inv'
  BY ProgramMoves, NextClaim, NextLaunchesNumbered
<1>3. Inv => Promise
  <2> SUFFICES ASSUME client = "update", ClaimInv, NEW i \in DOMAIN launches, Update!Remove(i),
                      updater = "working", lapses_update = {}
               PROVE  pc_update \in Update!Rolling \cup {"remove self"}
    BY DEF Update!ClaimProtectsTheUpdater
  <2>1. i \in Update!Launching
    BY DEF Update!Remove, Update!Launching
  <2>2. pc_update \notin Update!Swapping /\ pc_update # "none"
    BY <2>1 DEF ClaimInv, Claimed, Working
  <2> QED BY <2>2 DEF ClaimInv, Positions
<1>4. Inv /\ [ProgramsNext]_programsVars => [Promise]_programsVars
  BY <1>3
<1> QED BY <1>1, <1>2, <1>4, PTL DEF ProgramsSpec, ClaimProtectsTheUpdater

-----------------------------------------------------------------------------
(* The scheduled tasks. *)

Executions ==
    [at : {"claimed", "started", "executing"}, run : Nat, by : {"clock", "page"}]
        \cup [at : {"ended"}, run : Nat, by : {"clock", "page"}, outcome : {"success", "failed"}]

\* One run is executed at a time, it is the last one claimed, and nothing is while the
\* manager is down.
OneAtATime ==
    /\ runs_tasks \in Nat
    /\ execution \in {Tasks!Idle} \cup Executions
    /\ running = (execution # Tasks!Idle)
    /\ execution # Tasks!Idle => execution.run = runs_tasks /\ runs_tasks > 0 /\ up

\* Whatever has a row or a process was claimed; the run claimed last has neither before
\* it starts.
Numbered ==
    /\ DOMAIN rows \subseteq 1..runs_tasks
    /\ rows = [r \in DOMAIN rows |-> rows[r]]
    /\ processes \subseteq 1..runs_tasks
    /\ execution.at = "claimed" => runs_tasks \notin DOMAIN rows /\ runs_tasks \notin processes

\* An open row belongs to the run under way, and the row of the run under way is open.
Accounted ==
    /\ up /\ ~lost => \A r \in Tasks!Open : Tasks!Executing(r)
    /\ execution.at \in {"started", "executing", "ended"} /\ task # "deleted" =>
            runs_tasks \in Tasks!Open

TaskInv == OneAtATime /\ Numbered /\ Accounted
-----------------------------------------------------------------------------

LEMMA ExecutionSteps ==
  ASSUME execution \in {Tasks!Idle} \cup Executions
  PROVE  /\ execution.at \in {"idle", "claimed", "started", "executing", "ended"}
         /\ execution = Tasks!Idle <=> execution.at = "idle"
         /\ execution # Tasks!Idle => execution.run \in Nat /\ execution.by \in {"clock", "page"}
BY DEF Tasks!Idle, Executions

\* The step of an execution changes, its run and its origin do not.
LEMMA StepOn ==
  ASSUME execution \in Executions, execution.at # "ended",
         NEW place \in {"claimed", "started", "executing"}
  PROVE  /\ [execution EXCEPT !.at = place] \in Executions
         /\ [execution EXCEPT !.at = place].at = place
         /\ [execution EXCEPT !.at = place].run = execution.run
<1>1. execution \in [at : {"claimed", "started", "executing"}, run : Nat, by : {"clock", "page"}]
  BY DEF Executions
<1> QED BY <1>1 DEF Executions

\* The page's own steps: nothing the invariant is about changes, and a deleted task stays so.
LEMMA PageSteps ==
  ASSUME TaskInv, UNCHANGED <<rows, up, running, execution, processes, lost,
          runs_tasks>>,
         task' # "deleted" => task # "deleted"
  PROVE  TaskInv'
BY DEF TaskInv, OneAtATime, Numbered, Accounted, Tasks!Open, Tasks!Executing, Tasks!Idle

LEMMA ClaimKeeps ==
  ASSUME TaskInv, up, NEW by \in {"clock", "page"}, Tasks!Claim(by),
         UNCHANGED <<task, rows, up, processes, lost>>
  PROVE  TaskInv'
<1>1. execution = Tasks!Idle
  BY DEF TaskInv, OneAtATime, Tasks!Claim
<1>2. execution' = [at |-> "claimed", run |-> runs_tasks + 1, by |-> by] /\ running' = TRUE /\
        runs_tasks' = runs_tasks + 1
  BY DEF Tasks!Claim, TaskInv, OneAtATime
<1>3. OneAtATime'
  <2>1. execution' \in Executions /\ execution' # Tasks!Idle /\ execution'.run = runs_tasks'
    BY <1>2 DEF TaskInv, OneAtATime, Executions, Tasks!Idle
  <2>2. runs_tasks' \in Nat /\ runs_tasks' > 0
    BY <1>2 DEF TaskInv, OneAtATime
  <2> QED BY <1>2, <2>1, <2>2 DEF OneAtATime
<1>4. Numbered'
  BY <1>2 DEF TaskInv, Numbered, OneAtATime
<1>5. Accounted'
  <2>1. up' /\ ~lost' => Tasks!Open' = {}
    BY <1>1 DEF TaskInv, Accounted, Tasks!Open, Tasks!Executing
  <2> QED BY <1>2, <2>1 DEF Accounted
<1> QED BY <1>3, <1>4, <1>5 DEF TaskInv

LEMMA StillRunning ==
  ASSUME execution' \in Executions, execution'.run = runs_tasks, runs_tasks' = runs_tasks,
          runs_tasks \in Nat, runs_tasks > 0,
         up', running' = TRUE
  PROVE  OneAtATime'
<1>1. execution' # Tasks!Idle
  BY DEF Executions, Tasks!Idle
<1> QED BY <1>1 DEF OneAtATime

\* What a release gives back.
LEMMA ReleaseKeeps ==
  ASSUME TaskInv, execution # Tasks!Idle, Tasks!Release, UNCHANGED runs_tasks
  PROVE  OneAtATime' /\ execution'.at = "idle"
BY DEF TaskInv, OneAtATime, Tasks!Release, Tasks!Idle

LEMMA StartRunKeeps == TaskInv /\ Tasks!StartRun => TaskInv'
<1> SUFFICES ASSUME TaskInv, Tasks!StartRun PROVE TaskInv'
  OBVIOUS
<1>1. /\ execution.at = "claimed" /\ execution # Tasks!Idle /\ execution \in Executions
      /\ execution.run = runs_tasks /\ up /\ runs_tasks \in Nat /\ runs_tasks > 0
  BY ExecutionSteps DEF Tasks!StartRun, TaskInv, OneAtATime, Tasks!Idle
<1>2. runs_tasks \notin DOMAIN rows /\ runs_tasks \notin processes
  BY <1>1 DEF TaskInv, Numbered
<1>3. ~lost => Tasks!Open = {}
  BY <1>1, <1>2 DEF TaskInv, Accounted, Tasks!Open, Tasks!Executing
<1>5. UNCHANGED <<task, up, processes, lost, runs_tasks>>
  BY DEF Tasks!StartRun
<1>6. CASE /\ task # "deleted"
           /\ rows' = [n \in DOMAIN rows \cup {execution.run} |-> IF n = execution.run THEN "open" ELSE rows[n]]
           /\ execution' = [execution EXCEPT !.at = "started"]
           /\ UNCHANGED <<running, runningIds, faults_tasks>>
  <2>1. execution' \in Executions /\ execution'.at = "started" /\ execution'.run = runs_tasks
    BY <1>1, <1>6, StepOn
  <2>2. OneAtATime'
    BY <1>1, <1>5, <1>6, <2>1 DEF TaskInv, OneAtATime, Executions, Tasks!Idle
  <2>3. Numbered'
    BY <1>1, <1>5, <1>6, <2>1 DEF TaskInv, Numbered
  <2>4. Accounted'
    BY <1>1, <1>3, <1>5, <1>6, <2>1 DEF Accounted, Tasks!Open, Tasks!Executing, Executions,
       Tasks!Idle
  <2> QED BY <2>2, <2>3, <2>4 DEF TaskInv
<1>7. CASE Tasks!Release /\ UNCHANGED rows
  <2>1. OneAtATime' /\ execution'.at = "idle"
    BY <1>1, <1>5, <1>7, ReleaseKeeps
  <2>2. Numbered'
    BY <1>5, <1>7, <2>1 DEF TaskInv, Numbered
  <2>3. Accounted'
    BY <1>3, <1>5, <1>7, <2>1 DEF Accounted, Tasks!Open
  <2> QED BY <2>1, <2>2, <2>3 DEF TaskInv
<1> QED BY <1>6, <1>7 DEF Tasks!StartRun

LEMMA ExecKeeps == TaskInv /\ Tasks!Exec => TaskInv'
<1> SUFFICES ASSUME TaskInv, Tasks!Exec PROVE TaskInv'
  OBVIOUS
<1>1. /\ execution.at = "started" /\ execution # Tasks!Idle /\ execution \in Executions
      /\ execution.run = runs_tasks /\ up /\ runs_tasks \in Nat /\ runs_tasks > 0 /\
              running = TRUE
      /\ execution.by \in {"clock", "page"}
  BY ExecutionSteps DEF Tasks!Exec, TaskInv, OneAtATime, Tasks!Idle
<1>2. UNCHANGED <<task, rows, up, running, lost, runs_tasks>>
  BY DEF Tasks!Exec
<1>4. CASE /\ processes' = processes \cup {execution.run}
           /\ execution' = [execution EXCEPT !.at = "executing"]
  <2>1. execution' \in Executions /\ execution'.at = "executing" /\ execution'.run = runs_tasks
    BY <1>1, <1>4, StepOn
  <2>2. OneAtATime'
    BY <1>1, <1>2, <2>1, StillRunning
  <2>3. Numbered'
    BY <1>1, <1>2, <1>4, <2>1 DEF TaskInv, Numbered
  <2>4. Accounted'
    <3>1. execution' # Tasks!Idle
      BY <2>1 DEF Tasks!Idle
    <3>2. up' /\ ~lost' => \A r \in Tasks!Open' : Tasks!Executing(r)'
      BY <1>1, <1>2, <2>1, <3>1 DEF TaskInv, Accounted, Tasks!Open, Tasks!Executing
    <3>3. task' # "deleted" => runs_tasks' \in Tasks!Open'
      BY <1>1, <1>2 DEF TaskInv, Accounted, Tasks!Open
    <3> QED BY <2>1, <3>2, <3>3 DEF Accounted
  <2> QED BY <2>2, <2>3, <2>4 DEF TaskInv
<1>5. CASE /\ execution' = [at |-> "ended", run |-> execution.run, by |-> execution.by,
                          outcome |-> "failed"]
           /\ UNCHANGED processes
  <2>1. execution' \in Executions /\ execution'.at = "ended" /\ execution'.run = runs_tasks
    BY <1>1, <1>5 DEF Executions
  <2>2. OneAtATime'
    BY <1>1, <1>2, <2>1, StillRunning
  <2>3. Numbered'
    BY <1>1, <1>2, <1>5, <2>1 DEF TaskInv, Numbered
  <2>4. Accounted'
    BY <1>1, <1>2, <1>5, <2>1 DEF TaskInv, Accounted, Tasks!Open, Tasks!Executing,
       Executions, Tasks!Idle
  <2> QED BY <2>2, <2>3, <2>4 DEF TaskInv
<1> QED BY <1>4, <1>5 DEF Tasks!Exec

\* Collect and GiveUp: the execution is over.
LEMMA EndedKeeps ==
  ASSUME TaskInv, execution.at = "executing",
         NEW outcome \in {"success", "failed"},
         execution' = [at |-> "ended", run |-> execution.run, by |-> execution.by,
                 outcome |-> outcome],
         UNCHANGED <<task, rows, up, running, processes, lost, runs_tasks>>
  PROVE  TaskInv'
<1>1. /\ execution # Tasks!Idle /\ execution \in Executions
      /\ execution.run = runs_tasks /\ up /\ runs_tasks \in Nat /\ runs_tasks > 0 /\
              running = TRUE
      /\ execution.by \in {"clock", "page"}
  BY ExecutionSteps DEF TaskInv, OneAtATime, Tasks!Idle
<1>2. execution' \in Executions /\ execution'.at = "ended" /\ execution'.run = runs_tasks
  BY <1>1 DEF Executions
<1>3. OneAtATime'
  BY <1>1, <1>2, StillRunning
<1>4. Numbered'
  BY <1>1, <1>2 DEF TaskInv, Numbered
<1>5. Accounted'
  BY <1>1, <1>2 DEF TaskInv, Accounted, Tasks!Open, Tasks!Executing, Executions, Tasks!Idle
<1> QED BY <1>3, <1>4, <1>5 DEF TaskInv

LEMMA FinishRunKeeps == TaskInv /\ Tasks!FinishRun => TaskInv'
<1> SUFFICES ASSUME TaskInv, Tasks!FinishRun PROVE TaskInv'
  OBVIOUS
<1>1. /\ execution.at = "ended" /\ execution # Tasks!Idle /\ execution \in Executions
      /\ execution.run = runs_tasks /\ execution.outcome \in {"success", "failed"}
  BY ExecutionSteps DEF Tasks!FinishRun, TaskInv, OneAtATime, Tasks!Idle, Executions
<1>2. Tasks!Release /\ UNCHANGED <<task, up, processes, runs_tasks>>
  BY DEF Tasks!FinishRun
<1>3. OneAtATime' /\ execution'.at = "idle"
  BY <1>1, <1>2, ReleaseKeeps
<1>4. /\ DOMAIN rows' = DOMAIN rows /\ rows' = [n \in DOMAIN rows |-> rows'[n]]
      /\ up' /\ ~lost' => Tasks!Open' = {}
  <2>1. CASE /\ rows' = [n \in DOMAIN rows |-> IF n = execution.run THEN execution.outcome ELSE rows[n]]
             /\ UNCHANGED lost
    BY <1>1, <1>2, <2>1 DEF TaskInv, Accounted, Tasks!Open, Tasks!Executing
  <2>2. CASE lost' = TRUE /\ UNCHANGED rows
    BY <2>2 DEF TaskInv, Numbered
  <2> QED BY <2>1, <2>2 DEF Tasks!FinishRun
<1>5. Numbered'
  BY <1>2, <1>3, <1>4 DEF TaskInv, Numbered
<1>6. Accounted'
  BY <1>1, <1>2, <1>3, <1>4 DEF TaskInv, Accounted
<1> QED BY <1>3, <1>5, <1>6 DEF TaskInv

\* The instance counts as the library does.
LEMMA SameCount == ASSUME NEW S PROVE Tasks!Cardinality(S) = Cardinality(S)
BY DEF Cardinality, Tasks!Cardinality

LEMMA PruneKeeps == Kept \in Nat \ {0} /\ TaskInv /\ Tasks!PruneRuns => TaskInv'
<1> SUFFICES ASSUME Kept \in Nat \ {0}, TaskInv, Tasks!PruneRuns PROVE TaskInv'
  OBVIOUS
<1> DEFINE young == {k \in DOMAIN rows : Tasks!Cardinality({j \in DOMAIN rows : j > k}) < Kept}
<1>1. rows' = [n \in young |-> rows[n]] /\ young \subseteq DOMAIN rows
  BY DEF Tasks!PruneRuns
<1>2. UNCHANGED <<task, up, running, execution, processes, lost, runs_tasks>>
  BY DEF Tasks!PruneRuns, Tasks!counts
<1>3. runs_tasks \in DOMAIN rows => runs_tasks \in young
  <2>1. {j \in DOMAIN rows : j > runs_tasks} = {}
    BY DEF TaskInv, OneAtATime, Numbered
  <2>2. Tasks!Cardinality({j \in DOMAIN rows : j > runs_tasks}) = 0
    BY <2>1, FS_EmptySet, SameCount
  <2> QED BY <2>2
<1>4. OneAtATime'
  BY <1>2 DEF TaskInv, OneAtATime, Tasks!Idle
<1>5. Numbered'
  BY <1>1, <1>2 DEF TaskInv, Numbered
<1>6. Tasks!Open' \subseteq Tasks!Open /\ (runs_tasks \in Tasks!Open =>
        runs_tasks \in Tasks!Open')
  BY <1>1, <1>3 DEF Tasks!Open
<1>7. Accounted'
  BY <1>2, <1>6 DEF TaskInv, Accounted, Tasks!Executing, Tasks!Idle
<1> QED BY <1>4, <1>5, <1>7 DEF TaskInv

LEMMA RestartKeeps == TaskInv /\ (Tasks!Crash \/ Tasks!Boot) => TaskInv'
<1>1. ASSUME TaskInv, Tasks!Crash PROVE TaskInv'
  <2>1. /\ up' = FALSE /\ running' = FALSE /\ execution' = Tasks!Idle
        /\ UNCHANGED <<task, rows, processes, runs_tasks>>
    BY <1>1 DEF Tasks!Crash
  <2>2. OneAtATime'
    BY <1>1, <2>1 DEF TaskInv, OneAtATime
  <2>3. Numbered' /\ Accounted'
    BY <1>1, <2>1 DEF TaskInv, Numbered, Accounted, Tasks!Idle
  <2> QED BY <2>2, <2>3 DEF TaskInv
<1>2. ASSUME TaskInv, Tasks!Boot PROVE TaskInv'
  <2>1. execution = Tasks!Idle /\ execution.at = "idle"
    BY <1>2 DEF TaskInv, OneAtATime, Tasks!Boot, Tasks!Idle
  <2>2. UNCHANGED <<task, running, execution, processes, runs_tasks>>
    BY <1>2 DEF Tasks!Boot, Tasks!page
  <2>3. OneAtATime'
    BY <1>2, <2>1, <2>2 DEF TaskInv, OneAtATime
  <2>4. /\ DOMAIN rows' = DOMAIN rows /\ rows' = [n \in DOMAIN rows |-> rows'[n]]
        /\ ~lost' => Tasks!Open' = {}
    <3>1. CASE /\ rows' = [n \in DOMAIN rows |-> IF rows[n] = "open" THEN "interrupted" ELSE rows[n]]
               /\ lost' = FALSE
      BY <3>1 DEF Tasks!Open
    <3>2. CASE lost' = TRUE /\ UNCHANGED rows
      BY <1>2, <3>2 DEF TaskInv, Numbered
    <3> QED BY <1>2, <3>1, <3>2 DEF Tasks!Boot
  <2>5. Numbered' /\ Accounted'
    BY <1>2, <2>1, <2>2, <2>4 DEF TaskInv, Numbered, Accounted
  <2> QED BY <2>3, <2>5 DEF TaskInv
<1> QED BY <1>1, <1>2

LEMMA ExitKeeps == ASSUME TaskInv, NEW r \in processes, Tasks!Exit(r) PROVE TaskInv'
<1>1. /\ processes' = processes \ {r}
      /\ UNCHANGED <<task, rows, up, running, execution, lost, runs_tasks>>
  BY DEF Tasks!Exit, Tasks!server, Tasks!counts
<1> QED BY <1>1 DEF TaskInv, OneAtATime, Numbered, Accounted, Tasks!Open, Tasks!Executing,
   Tasks!Idle

LEMMA DeleteKeeps == TaskInv /\ Tasks!Delete => TaskInv'
<1> SUFFICES ASSUME TaskInv, Tasks!Delete PROVE TaskInv'
  OBVIOUS
<1>1. /\ task' = "deleted" /\ rows' = [r \in {} |-> "open"]
      /\ UNCHANGED <<up, running, execution, processes, lost, runs_tasks>>
  BY DEF Tasks!Delete, Tasks!counts
<1>2. OneAtATime'
  BY <1>1 DEF TaskInv, OneAtATime, Tasks!Idle
<1>3. Numbered'
  BY <1>1 DEF TaskInv, Numbered
<1>4. Accounted'
  BY <1>1 DEF TaskInv, Accounted, Tasks!Open
<1> QED BY <1>2, <1>3, <1>4 DEF TaskInv

-----------------------------------------------------------------------------

LEMMA TaskInit == Tasks!Init => TaskInv
<1> SUFFICES ASSUME Tasks!Init PROVE TaskInv
  OBVIOUS
<1>1. execution = Tasks!Idle /\ running = FALSE /\ runs_tasks = 0 /\ processes = {} /\
        rows = [r \in {} |-> "open"]
  BY DEF Tasks!Init
<1> QED BY <1>1 DEF TaskInv, OneAtATime, Numbered, Accounted, Tasks!Open, Tasks!Idle

LEMMA TaskNext == Kept \in Nat \ {0} /\ TaskInv /\ [Tasks!Next]_(Tasks!vars) => TaskInv'
<1> SUFFICES ASSUME Kept \in Nat \ {0}, TaskInv, [Tasks!Next]_(Tasks!vars) PROVE TaskInv'
  OBVIOUS
<1>1. CASE Tasks!Tick
  BY <1>1, ClaimKeeps DEF Tasks!Tick
<1>2. CASE Tasks!RunTask
  BY <1>2, ClaimKeeps DEF Tasks!RunTask
<1>3. CASE Tasks!StartRun \/ Tasks!Exec \/ Tasks!FinishRun
  BY <1>3, StartRunKeeps, ExecKeeps, FinishRunKeeps
<1>4. CASE Tasks!Collect
  <2>1. execution.at = "executing"
    BY <1>4 DEF Tasks!Collect
  <2>2. UNCHANGED <<task, rows, up, running, processes, lost, runs_tasks>>
    BY <1>4 DEF Tasks!Collect, Tasks!counts
  <2>3. PICK outcome \in {"success", "failed"} :
          execution' = [at |-> "ended", run |-> execution.run, by |-> execution.by,
                  outcome |-> outcome]
    BY <1>4 DEF Tasks!Collect
  <2> QED BY <2>1, <2>2, <2>3, EndedKeeps
<1>5. CASE Tasks!GiveUp
  <2>1. /\ execution.at = "executing"
        /\ execution' = [at |-> "ended", run |-> execution.run, by |-> execution.by,
                outcome |-> "failed"]
    BY <1>5 DEF Tasks!GiveUp
  <2>2. UNCHANGED <<task, rows, up, running, processes, lost, runs_tasks>>
    BY <1>5 DEF Tasks!GiveUp
  <2> QED BY <2>1, <2>2, EndedKeeps
<1>6. ASSUME NEW r \in processes, Tasks!Exit(r) PROVE TaskInv'
  BY <1>6, ExitKeeps
<1>7. CASE Tasks!PruneRuns \/ Tasks!Crash \/ Tasks!Boot \/ Tasks!Delete
  BY <1>7, PruneKeeps, RestartKeeps, DeleteKeeps
<1>8. CASE Tasks!Refetch \/ Tasks!Run \/ Tasks!Refuse \/ Tasks!Toggle \/ Tasks!ToggleDone \/
        Tasks!Edit \/ Tasks!Close \/ Tasks!SaveTask
  <2>1. UNCHANGED <<task, rows, up, running, execution, processes, lost,
          runs_tasks>>
    BY <1>8 DEF Tasks!Refetch, Tasks!Run, Tasks!Refuse, Tasks!Toggle, Tasks!ToggleDone,
       Tasks!Edit, Tasks!Close, Tasks!SaveTask, Tasks!server, Tasks!counts
  <2> QED BY <2>1, PageSteps
<1>9. CASE Tasks!ToggleWrites \/ Tasks!SaveWrites
  <2>1. UNCHANGED <<rows, up, running, execution, processes, lost, runs_tasks>>
    BY <1>9 DEF Tasks!ToggleWrites, Tasks!SaveWrites, Tasks!UpdateTask,
       Tasks!counts
  <2>2. task' # "deleted" => task # "deleted"
    BY <1>9 DEF Tasks!ToggleWrites, Tasks!SaveWrites, Tasks!UpdateTask
  <2> QED BY <2>1, <2>2, PageSteps
<1>10. CASE UNCHANGED Tasks!vars
  BY <1>10, PageSteps DEF Tasks!vars, Tasks!server, Tasks!counts
<1> QED BY <1>1, <1>2, <1>3, <1>4, <1>5, <1>6, <1>7, <1>8, <1>9, <1>10 DEF Tasks!Next

(* A run shown as going is the one the manager executes, and the row of the run it        *)
(* executes is there and open, for every retention that keeps a run, any number of runs,   *)
(* restarts and edits (schedule/mod.rs, database/tasks.rs).                                *)
THEOREM RunsAccounted == ProgramsSpec => []RunsAreAccounted
<1> DEFINE Inv == client = "tasks" => TaskInv
<1>1. ProgramsInit => Inv
  BY TaskInit DEF ProgramsInit
<1>2. Inv /\ [ProgramsNext]_programsVars => Inv'
  BY ProgramMoves, TaskNext, ProgramsAssumption
<1>3. Inv => RunsAreAccounted
  <2> SUFFICES ASSUME TaskInv PROVE Tasks!RunsAreAccounted
    BY DEF RunsAreAccounted
  <2>1. execution.at \in {"started", "executing", "ended"} =>
          execution # Tasks!Idle /\ execution.run = runs_tasks
    BY DEF TaskInv, OneAtATime, Tasks!Idle
  <2> QED BY <2>1 DEF TaskInv, Accounted, Tasks!RunsAreAccounted, Tasks!Executing
<1> QED BY <1>1, <1>2, <1>3, PTL DEF ProgramsSpec

-----------------------------------------------------------------------------
(* The migration. *)

\* The stages before a volume is copied, and those after all of them are.
Creating == {"postgres", "apps", "composes"}
Early    == Creating \cup {"stopApps", "stopComposes"}
Stages   == Early \cup {"volumes", "dumps", "stopPostgres", "deploy"}

Shape ==
    /\ pc_dokploy \in Stages \cup Dokploy!Finished
    /\ alive \subseteq Dokploy!Stores /\ todo \subseteq Dokploy!Stores
    /\ data_dokploy = [s \in Dokploy!Stores |-> data_dokploy[s]]
    /\ imported = [s \in Dokploy!Stores |-> imported[s]]
    /\ env = [p \in Dokploy!Programs |-> env[p]]
    /\ created \subseteq Dokploy!Stores /\ renamedHosts \subseteq Databases

\* The throwaway services exist inside the body of the volumes' loop only.
Throwaway ==
    pc_dokploy # "failed" =>
        /\ step # "next" => pc_dokploy = "volumes"
        /\ step \in {"next", "importing", "exporting", "packed", "transfer failed", "exported"}
        /\ exporter = IF step \in {"exporting", "packed", "transfer failed"} THEN 1 ELSE 0
        /\ importer \in BOOLEAN /\ (step = "next" => ~importer)

\* Every service is created, with its variables, once its loop has passed it.
Created ==
    pc_dokploy # "failed" =>
        /\ \A d \in Databases :
            (d \in created /\ d \in renamedHosts) \/ (pc_dokploy = "postgres" /\ d \in todo)
        /\ \A p \in Apps :
            (p \in created /\ env[p] = "new") \/ pc_dokploy = "postgres" \/
                    (pc_dokploy = "apps" /\ p \in todo)
        /\ \A p \in Composes :
            \/ p \in created /\ env[p] = "new"
            \/ pc_dokploy \in {"postgres", "apps"} \/ (pc_dokploy = "composes" /\ p \in todo)

\* Every program is stopped before a volume is copied, and every database at the end.
Stopped ==
    pc_dokploy # "failed" =>
        /\ \A p \in Apps :
            p \notin alive \/ pc_dokploy \in Creating \/ (pc_dokploy = "stopApps" /\ p \in todo)
        /\ \A p \in Composes :
            p \notin alive \/ pc_dokploy \in Creating \cup {"stopApps"} \/
                    (pc_dokploy = "stopComposes" /\ p \in todo)
        /\ \A d \in Databases :
            \/ d \notin alive \/ pc_dokploy \in Early \cup {"volumes", "dumps"}
            \/ (pc_dokploy = "stopPostgres" /\ d \in todo)

\* A copy that was made is the data as it is now.
Copied ==
    pc_dokploy # "failed" =>
        /\ pc_dokploy \in Early => \A s \in Dokploy!Stores : imported[s] = Dokploy!Nothing
        /\ \A s \in Dokploy!Stores : imported[s] \in {Dokploy!Nothing, data_dokploy[s]}
        /\ \A p \in Dokploy!Programs : imported[p] = data_dokploy[p] \/ pc_dokploy \in Early \/
                (pc_dokploy = "volumes" /\ p \in todo)
        /\ \A d \in Databases :
            imported[d] = data_dokploy[d] \/ pc_dokploy \in Early \cup {"volumes"} \/
                    (pc_dokploy = "dumps" /\ d \in todo)

\* A project at work is the last thing a run leaves.
MigrationInv ==
    /\ Shape /\ Throwaway /\ Created /\ Stopped /\ Copied
    /\ deployed => pc_dokploy \in Dokploy!Finished /\ Dokploy!NothingLeftBehind

-----------------------------------------------------------------------------

LEMMA Parts == Dokploy!Programs = Apps \cup Composes /\
        Dokploy!Stores = Dokploy!Programs \cup Databases
BY DEF Dokploy!Programs, Dokploy!Stores

LEMMA MigrationInit == Dokploy!Init => MigrationInv
BY Parts DEF Dokploy!Init, MigrationInv, Shape, Throwaway, Created, Stopped, Copied, Stages,
   Early, Creating, Dokploy!NoCopies, Dokploy!NoVariables

LEMMA InvSound == MigrationInv => Dokploy!NothingLeftBehind
BY DEF MigrationInv, Dokploy!NothingLeftBehind

\* A run that fails leaves what a running one had, and owes nothing.
LEMMA Failed ==
  ASSUME MigrationInv, ~deployed', pc_dokploy' = "failed", UNCHANGED <<todo, step>>,
         alive' \subseteq alive, data_dokploy' = data_dokploy,
         imported' = [s \in Dokploy!Stores |-> imported'[s]],
         env' = [p \in Dokploy!Programs |-> env'[p]],
         created' \subseteq Dokploy!Stores, renamedHosts' \subseteq Databases
  PROVE  MigrationInv'
BY DEF MigrationInv, Shape, Throwaway, Created, Stopped, Copied, Dokploy!Finished

\* A program that writes is not stopped yet, and nothing is copied yet; or a run has failed,
\* and the operator started it again.
LEMMA WriteKeeps == ASSUME MigrationInv, NEW p \in Dokploy!Programs,
        Dokploy!Write(p) PROVE MigrationInv'
<1>1. UNCHANGED <<alive, exporter, pc_dokploy, todo, step, created, renamedHosts, env,
        imported, deployed, importer>>
  BY DEF Dokploy!Write, Dokploy!script, Dokploy!vexdock
<1>2. /\ p \in alive /\ data_dokploy' = [s \in Dokploy!Stores |-> data_dokploy'[s]]
      /\ \A s \in Dokploy!Stores \ alive : data_dokploy'[s] = data_dokploy[s]
  BY DEF Dokploy!Write, MigrationInv, Shape
<1>3. pc_dokploy \in Early \cup {"failed"}
  BY <1>2, Parts DEF MigrationInv, Shape, Stopped, Stages, Dokploy!Finished, Early, Creating
<1>4. Shape'
  BY <1>1, <1>2 DEF MigrationInv, Shape
<1>5. Copied'
  BY <1>1, <1>3, Parts DEF MigrationInv, Copied
<1>6. Throwaway' /\ Created' /\ Stopped'
  BY <1>1 DEF MigrationInv, Throwaway, Created, Stopped
<1>7. deployed' => pc_dokploy' \in Dokploy!Finished /\ Dokploy!NothingLeftBehind'
  BY <1>1, <1>2 DEF MigrationInv, Dokploy!NothingLeftBehind
<1> QED BY <1>4, <1>5, <1>6, <1>7 DEF MigrationInv

\* What a loop's body leaves: the same stage with one visit fewer, outside the volumes.
LEMMA NextLoopKeeps == MigrationInv /\ Dokploy!NextLoop => MigrationInv'
<1> SUFFICES ASSUME MigrationInv, Dokploy!NextLoop PROVE MigrationInv'
  OBVIOUS
<1>1. /\ UNCHANGED <<alive, data_dokploy, exporter, created, renamedHosts, env, imported,
        deployed, importer>>
      /\ step = "next" /\ step' = "next" /\ todo = {} /\
              pc_dokploy' = Dokploy!After[pc_dokploy] /\
                      todo' = Dokploy!Loop[Dokploy!After[pc_dokploy]]
  BY DEF Dokploy!NextLoop, Dokploy!dokploy, Dokploy!vexdock
<1>2. pc_dokploy \in Early \cup {"volumes", "dumps", "stopPostgres"}
  BY DEF Dokploy!NextLoop, MigrationInv, Shape, Stages, Dokploy!Finished
<1>3. \/ pc_dokploy = "postgres" /\ pc_dokploy' = "apps" /\ todo' = Apps
      \/ pc_dokploy = "apps" /\ pc_dokploy' = "composes" /\ todo' = Composes
      \/ pc_dokploy = "composes" /\ pc_dokploy' = "stopApps" /\ todo' = Apps
      \/ pc_dokploy = "stopApps" /\ pc_dokploy' = "stopComposes" /\ todo' = Composes
      \/ pc_dokploy = "stopComposes" /\ pc_dokploy' = "volumes" /\ todo' = Dokploy!Programs
      \/ pc_dokploy = "volumes" /\ pc_dokploy' = "dumps" /\ todo' = Databases
      \/ pc_dokploy = "dumps" /\ pc_dokploy' = "stopPostgres" /\ todo' = Databases
      \/ pc_dokploy = "stopPostgres" /\ pc_dokploy' = "deploy" /\ todo' = {}
  BY <1>1, <1>2 DEF Dokploy!After, Dokploy!Loop, Early, Creating
<1>4. Shape'
  BY <1>1, <1>3, Parts DEF MigrationInv, Shape, Stages, Early, Creating
<1>5. Throwaway'
  BY <1>1, <1>3 DEF MigrationInv, Throwaway
<1>6. Created'
  BY <1>1, <1>3 DEF MigrationInv, Created
<1>7. Stopped'
  BY <1>1, <1>3 DEF MigrationInv, Stopped, Early, Creating
<1>8. Copied'
  BY <1>1, <1>3, Parts DEF MigrationInv, Copied, Early, Creating
<1>9. ~deployed'
  BY <1>1, <1>2 DEF MigrationInv, Dokploy!Finished, Early, Creating
<1> QED BY <1>4, <1>5, <1>6, <1>7, <1>8, <1>9 DEF MigrationInv

LEMMA createPostgresKeeps ==
  ASSUME MigrationInv, NEW d \in Databases, Dokploy!createPostgres(d) PROVE MigrationInv'
<1>1. /\ UNCHANGED <<alive, data_dokploy, exporter, env, imported, deployed, importer>>
      /\ pc_dokploy = "postgres" /\ step = "next"
      /\ created' = created \cup {d} /\ renamedHosts' = renamedHosts \cup {d}
  BY DEF Dokploy!createPostgres, Dokploy!In, Dokploy!dokploy
<1>2. ~deployed'
  BY <1>1 DEF MigrationInv, Dokploy!Finished
<1>3. CASE pc_dokploy' = pc_dokploy /\ step' = "next" /\ todo' = todo \ {d}
  <2>1. Shape'
    BY <1>1, <1>3, Parts DEF MigrationInv, Shape
  <2>2. Throwaway'
    BY <1>1, <1>3 DEF MigrationInv, Throwaway
  <2>3. Created' /\ Stopped' /\ Copied'
    BY <1>1, <1>3 DEF MigrationInv, Created, Stopped, Copied, Early, Creating
  <2> QED BY <1>2, <2>1, <2>2, <2>3 DEF MigrationInv
<1>4. CASE Dokploy!Ends
  BY <1>1, <1>2, <1>4, Parts, Failed DEF MigrationInv, Shape, Dokploy!Ends
<1> QED BY <1>3, <1>4 DEF Dokploy!createPostgres, Dokploy!Visited

LEMMA createProgramKeeps ==
  ASSUME MigrationInv, NEW p \in Dokploy!Programs,
         Dokploy!createApp(p) \/ Dokploy!createCompose(p)
  PROVE  MigrationInv'
<1>1. /\ UNCHANGED <<alive, data_dokploy, exporter, renamedHosts, imported, deployed, importer>>
      /\ pc_dokploy \in {"apps", "composes"} /\ step = "next"
      /\ created' = created \cup {p} /\ Dokploy!putVariables(p) /\ Dokploy!Visited(p)
  BY DEF Dokploy!createApp, Dokploy!createCompose, Dokploy!createProgram, Dokploy!In,
     Dokploy!dokploy
<1>2. renamedHosts = Databases
  BY <1>1 DEF MigrationInv, Created, Shape
<1>3. env' = [env EXCEPT ![p] = "new"]
  BY <1>1, <1>2 DEF Dokploy!putVariables
<1>4. env' = [q \in Dokploy!Programs |-> env'[q]] /\
        \A q \in Dokploy!Programs : env'[q] = IF q = p THEN "new" ELSE env[q]
  BY <1>3 DEF MigrationInv, Shape
<1>5. ~deployed'
  BY <1>1 DEF MigrationInv, Dokploy!Finished
<1>6. CASE pc_dokploy' = pc_dokploy /\ step' = "next" /\ todo' = todo \ {p}
  <2>1. Shape'
    BY <1>1, <1>4, <1>6, Parts DEF MigrationInv, Shape
  <2>2. Throwaway'
    BY <1>1, <1>6 DEF MigrationInv, Throwaway
  <2>3. Created'
    BY <1>1, <1>4, <1>6, Parts DEF MigrationInv, Created
  <2>4. Stopped' /\ Copied'
    BY <1>1, <1>6 DEF MigrationInv, Stopped, Copied, Early, Creating
  <2> QED BY <1>5, <2>1, <2>2, <2>3, <2>4 DEF MigrationInv
<1>7. CASE Dokploy!Ends
  BY <1>1, <1>4, <1>5, <1>7, Parts, Failed DEF MigrationInv, Shape, Dokploy!Ends
<1> QED BY <1>1, <1>6, <1>7 DEF Dokploy!Visited

LEMMA StopKeeps ==
  ASSUME MigrationInv, NEW s \in Dokploy!Stores, NEW loop \in {"stopApps", "stopComposes",
          "stopPostgres"},
         Dokploy!Stop(loop, s)
  PROVE  MigrationInv'
<1>1. /\ UNCHANGED <<data_dokploy, exporter, created, renamedHosts, env, imported, deployed,
        importer>>
      /\ pc_dokploy = loop /\ step = "next" /\ alive' = alive \ {s} /\ Dokploy!Visited(s)
  BY DEF Dokploy!Stop, Dokploy!In, Dokploy!vexdock
<1>2. ~deployed'
  BY <1>1 DEF MigrationInv, Dokploy!Finished
<1>3. CASE pc_dokploy' = pc_dokploy /\ step' = "next" /\ todo' = todo \ {s}
  <2>1. Shape'
    BY <1>1, <1>3 DEF MigrationInv, Shape
  <2>2. Throwaway' /\ Created' /\ Copied'
    BY <1>1, <1>3 DEF MigrationInv, Throwaway, Created, Copied, Early, Creating
  <2>3. Stopped'
    BY <1>1, <1>3 DEF MigrationInv, Stopped, Early, Creating
  <2> QED BY <1>2, <2>1, <2>2, <2>3 DEF MigrationInv
<1>4. CASE Dokploy!Ends
  BY <1>1, <1>2, <1>4, Failed DEF MigrationInv, Shape, Dokploy!Ends
<1> QED BY <1>1, <1>3, <1>4 DEF Dokploy!Visited

\* The body of the volumes' loop up to its last step.
LEMMA VolumeKeeps ==
  ASSUME MigrationInv,
         \/ Dokploy!Exporter \/ Dokploy!DeleteExporter
         \/ \E p \in Dokploy!Programs : Dokploy!Importer(p) \/ Dokploy!Pack(p)
  PROVE  MigrationInv'
<1>1. /\ UNCHANGED <<alive, data_dokploy, created, renamedHosts, env, deployed, todo>>
      /\ pc_dokploy = "volumes"
  BY DEF Dokploy!Importer, Dokploy!Exporter, Dokploy!Pack, Dokploy!DeleteExporter, Dokploy!In,
     Dokploy!Inside, Dokploy!Ends, Dokploy!dokploy, Dokploy!vexdock
<1>2. /\ imported' = [s \in Dokploy!Stores |-> imported'[s]]
      /\ \A s \in Dokploy!Stores : imported'[s] \in {imported[s], data_dokploy[s]}
  BY <1>1 DEF Dokploy!Importer, Dokploy!Exporter, Dokploy!Pack, Dokploy!DeleteExporter,
     Dokploy!In, Dokploy!vexdock, MigrationInv, Shape
<1>3. ~deployed'
  BY <1>1 DEF MigrationInv, Dokploy!Finished
<1>4. CASE Dokploy!Ends
  BY <1>1, <1>2, <1>3, <1>4, Failed DEF MigrationInv, Shape, Dokploy!Ends
<1>5. CASE pc_dokploy' = "volumes" /\ ~Dokploy!Ends
  <2>1. Shape'
    BY <1>1, <1>2, <1>5 DEF MigrationInv, Shape, Stages, Dokploy!Finished
  <2>2. Throwaway'
    <3>1. CASE Dokploy!Exporter
      <4>1. /\ step = "importing" /\ step' = "exporting" /\ exporter' = exporter + 1
            /\ importer' = importer
        BY <1>5, <3>1 DEF Dokploy!Exporter, Dokploy!Inside, Dokploy!vexdock
      <4> QED BY <1>1, <1>5, <4>1 DEF MigrationInv, Throwaway
    <3>2. CASE Dokploy!DeleteExporter
      <4>1. /\ step = "packed" /\ step' = "exported" /\ exporter' = exporter - 1
            /\ importer' = importer
        BY <1>5, <3>2 DEF Dokploy!DeleteExporter, Dokploy!Inside, Dokploy!vexdock
      <4> QED BY <1>1, <1>5, <4>1 DEF MigrationInv, Throwaway
    <3>3. ASSUME NEW p \in Dokploy!Programs, Dokploy!Importer(p) PROVE Throwaway'
      BY <1>1, <1>5, <3>3 DEF Dokploy!Importer, Dokploy!In, Dokploy!Inside, MigrationInv,
         Throwaway
    <3>4. ASSUME NEW p \in Dokploy!Programs, Dokploy!Pack(p) PROVE Throwaway'
      BY <1>1, <1>5, <3>4 DEF Dokploy!Pack, MigrationInv, Throwaway
    <3> QED BY <3>1, <3>2, <3>3, <3>4
  <2>3. Created' /\ Stopped'
    BY <1>1, <1>5 DEF MigrationInv, Created, Stopped
  <2>4. Copied'
    BY <1>1, <1>2, <1>5, Parts DEF MigrationInv, Copied, Early, Creating
  <2> QED BY <1>3, <2>1, <2>2, <2>3, <2>4 DEF MigrationInv
<1>6. Dokploy!Ends \/ pc_dokploy' = "volumes"
  BY <1>1 DEF Dokploy!Importer, Dokploy!Exporter, Dokploy!Pack, Dokploy!DeleteExporter,
     Dokploy!Inside
<1> QED BY <1>4, <1>5, <1>6

LEMMA DeleteImporterKeeps ==
  ASSUME MigrationInv, NEW p \in Dokploy!Programs, Dokploy!DeleteImporter(p) PROVE MigrationInv'
<1>1. /\ UNCHANGED <<alive, data_dokploy, exporter, created, renamedHosts, env, imported,
        deployed>>
      /\ pc_dokploy = "volumes" /\ step = "exported" /\ Dokploy!Visited(p)
      /\ importer' = FALSE /\ imported[p] # Dokploy!Nothing
  BY DEF Dokploy!DeleteImporter, Dokploy!dokploy
<1>2. ~deployed'
  BY <1>1 DEF MigrationInv, Dokploy!Finished
<1>3. CASE pc_dokploy' = pc_dokploy /\ step' = "next" /\ todo' = todo \ {p}
  <2>1. Shape' /\ Throwaway' /\ Created' /\ Stopped'
    BY <1>1, <1>3 DEF MigrationInv, Shape, Throwaway, Created, Stopped
  <2>2. imported[p] = data_dokploy[p]
    BY <1>1, Parts DEF MigrationInv, Copied
  <2>3. Copied'
    BY <1>1, <1>3, <2>2 DEF MigrationInv, Copied, Early, Creating
  <2> QED BY <1>2, <2>1, <2>3 DEF MigrationInv
<1>4. CASE Dokploy!Ends
  BY <1>1, <1>2, <1>4, Failed DEF MigrationInv, Shape, Dokploy!Ends
<1> QED BY <1>1, <1>3, <1>4 DEF Dokploy!Visited

LEMMA restoreDumpKeeps ==
  ASSUME MigrationInv, NEW d \in Databases, Dokploy!restoreDump(d) PROVE MigrationInv'
<1>1. /\ UNCHANGED <<alive, data_dokploy, exporter, created, renamedHosts, env, deployed,
        importer>>
      /\ pc_dokploy = "dumps" /\ step = "next" /\ Dokploy!Visited(d)
      /\ imported' = [imported EXCEPT ![d] = data_dokploy[d]]
  BY DEF Dokploy!restoreDump, Dokploy!In, Dokploy!dokploy
<1>2. /\ imported' = [s \in Dokploy!Stores |-> imported'[s]]
      /\ \A s \in Dokploy!Stores : imported'[s] = IF s = d THEN data_dokploy[s] ELSE imported[s]
  BY <1>1 DEF MigrationInv, Shape
<1>3. ~deployed'
  BY <1>1 DEF MigrationInv, Dokploy!Finished
<1>4. CASE pc_dokploy' = pc_dokploy /\ step' = "next" /\ todo' = todo \ {d}
  <2>1. Shape' /\ Throwaway' /\ Created' /\ Stopped'
    BY <1>1, <1>2, <1>4 DEF MigrationInv, Shape, Throwaway, Created, Stopped
  <2>2. /\ \A s \in Dokploy!Stores : imported[s] \in {Dokploy!Nothing, data_dokploy[s]}
        /\ \A p \in Dokploy!Programs : imported[p] = data_dokploy[p]
        /\ \A e \in Databases : imported[e] = data_dokploy[e] \/ e \in todo
    BY <1>1 DEF MigrationInv, Copied, Early, Creating
  <2>3. \A e \in Databases : imported'[e] = data_dokploy'[e] \/ e \in todo'
    BY <1>1, <1>2, <1>4, <2>2, Parts
  <2>4. \A s \in Dokploy!Stores : imported'[s] \in {Dokploy!Nothing, data_dokploy'[s]}
    BY <1>1, <1>2, <2>2
  <2>5. \A p \in Dokploy!Programs : imported'[p] = data_dokploy'[p]
    BY <1>1, <1>2, <2>2, Parts
  <2>6. Copied'
    BY <1>1, <1>4, <2>3, <2>4, <2>5 DEF Copied, Early, Creating
  <2> QED BY <1>3, <2>1, <2>6 DEF MigrationInv
<1>5. CASE Dokploy!Ends
  BY <1>1, <1>2, <1>3, <1>5, Failed DEF MigrationInv, Shape, Dokploy!Ends
<1> QED BY <1>1, <1>4, <1>5 DEF Dokploy!Visited

\* The last request: nothing is left to visit, so everything the property asks for is there,
\* whether the answer comes or is lost.
LEMMA DeployKeeps == MigrationInv /\ Dokploy!Deploy => MigrationInv'
<1> SUFFICES ASSUME MigrationInv, Dokploy!Deploy PROVE MigrationInv'
  OBVIOUS
<1>1. /\ UNCHANGED <<alive, data_dokploy, exporter, created, renamedHosts, env, imported,
        importer, todo, step>>
      /\ pc_dokploy = "deploy" /\ pc_dokploy' \in Dokploy!Finished
  BY DEF Dokploy!Deploy, Dokploy!Ends, Dokploy!Finished, Dokploy!dokploy
<1>2. Shape' /\ Throwaway'
  BY <1>1 DEF MigrationInv, Shape, Throwaway, Dokploy!Finished
<1>3. Created' /\ Stopped' /\ Copied'
  <2>1. CASE pc_dokploy' = "done"
    BY <1>1, <2>1 DEF MigrationInv, Created, Stopped, Copied, Early, Creating
  <2>2. CASE pc_dokploy' = "failed"
    BY <2>2 DEF Created, Stopped, Copied
  <2> QED BY <1>1, <2>1, <2>2 DEF Dokploy!Finished
<1>4. \A s \in Dokploy!Stores : imported[s] = data_dokploy[s]
  BY <1>1, Parts DEF MigrationInv, Copied, Early, Creating
<1>5. created = Dokploy!Stores /\ \A p \in Dokploy!Programs : env[p] = "new"
  BY <1>1, Parts DEF MigrationInv, Created, Shape
<1>6. alive = {}
  BY <1>1, Parts DEF MigrationInv, Stopped, Shape, Early, Creating
<1>7. exporter = 0 /\ ~importer
  BY <1>1 DEF MigrationInv, Throwaway
<1>8. Dokploy!NothingLeftBehind'
  BY <1>1, <1>4, <1>5, <1>6, <1>7 DEF Dokploy!NothingLeftBehind
<1> QED BY <1>1, <1>2, <1>3, <1>8 DEF MigrationInv

\* A failed run promises nothing, and the next one starts over.
LEMMA FailureKeeps ==
  ASSUME MigrationInv, Dokploy!Fail \/ (\E s \in Dokploy!Stores : Dokploy!Restart(s)) \/
          Dokploy!Rerun PROVE MigrationInv'
<1>1. CASE Dokploy!Fail
  <2>1. UNCHANGED <<alive, data_dokploy, exporter, created, renamedHosts, env, imported,
          deployed, importer>>
    BY <1>1 DEF Dokploy!Fail, Dokploy!dokploy, Dokploy!vexdock
  <2>2. ~deployed'
    BY <1>1, <2>1 DEF Dokploy!Fail, Dokploy!Finished, MigrationInv
  <2>3. CASE Dokploy!Ends
    BY <2>1, <2>2, <2>3, Failed DEF MigrationInv, Shape, Dokploy!Ends
  <2>4. CASE step = "exporting" /\ step' = "transfer failed" /\ UNCHANGED <<pc_dokploy, todo>>
    <3>1. Throwaway'
      BY <2>1, <2>4 DEF MigrationInv, Throwaway
    <3> QED BY <2>1, <2>2, <2>4, <3>1 DEF MigrationInv, Shape, Created, Stopped, Copied
  <2> QED BY <1>1, <2>3, <2>4 DEF Dokploy!Fail
<1>2. CASE \E s \in Dokploy!Stores : Dokploy!Restart(s)
  <2>1. PICK s \in Dokploy!Stores : Dokploy!Restart(s)
    BY <1>2
  <2>2. /\ pc_dokploy = "failed" /\ alive' = alive \cup {s}
        /\ UNCHANGED <<data_dokploy, exporter, pc_dokploy, todo, created, renamedHosts, env,
                imported, deployed, importer>>
    BY <2>1 DEF Dokploy!Restart, Dokploy!script, Dokploy!vexdock
  <2>3. deployed' => pc_dokploy' \in Dokploy!Finished /\ Dokploy!NothingLeftBehind'
    BY <2>2 DEF MigrationInv, Dokploy!NothingLeftBehind
  <2> QED BY <2>2, <2>3 DEF MigrationInv, Shape, Throwaway, Created, Stopped, Copied
<1>3. CASE Dokploy!Rerun
  <2>1. /\ UNCHANGED <<alive, data_dokploy>> /\ exporter' = 0
        /\ pc_dokploy' = "postgres" /\ todo' = Databases /\ step' = "next"
        /\ created' = {} /\ renamedHosts' = {} /\ env' = Dokploy!NoVariables
        /\ imported' = Dokploy!NoCopies /\ deployed' = FALSE /\ importer' = FALSE
    BY <1>3 DEF Dokploy!Rerun, Dokploy!dokploy
  <2>2. Shape'
    BY <2>1, Parts DEF MigrationInv, Shape, Stages, Early, Creating, Dokploy!NoVariables,
       Dokploy!NoCopies
  <2>3. Throwaway' /\ Created' /\ Stopped'
    BY <2>1 DEF Throwaway, Created, Stopped, Early, Creating
  <2>4. Copied'
    BY <2>1 DEF Copied, Dokploy!NoCopies, Early, Creating
  <2> QED BY <2>1, <2>2, <2>3, <2>4 DEF MigrationInv
<1> QED BY <1>1, <1>2, <1>3

LEMMA MigrationNext == MigrationInv /\ [Dokploy!Next]_(Dokploy!vars) => MigrationInv'
<1> SUFFICES ASSUME MigrationInv, [Dokploy!Next]_(Dokploy!vars) PROVE MigrationInv'
  OBVIOUS
<1>1. ASSUME NEW p \in Dokploy!Programs,
             \/ Dokploy!Write(p) \/ Dokploy!createApp(p) \/ Dokploy!createCompose(p)
             \/ Dokploy!Importer(p) \/ Dokploy!Pack(p) \/ Dokploy!DeleteImporter(p)
             \/ Dokploy!Stop("stopApps", p) \/ Dokploy!Stop("stopComposes", p)
      PROVE  MigrationInv'
  BY <1>1, Parts, WriteKeeps, createProgramKeeps, VolumeKeeps, DeleteImporterKeeps, StopKeeps
<1>2. ASSUME NEW d \in Databases, Dokploy!createPostgres(d) \/ Dokploy!restoreDump(d) \/
        Dokploy!Stop("stopPostgres", d)
      PROVE  MigrationInv'
  BY <1>2, Parts, createPostgresKeeps, restoreDumpKeeps, StopKeeps
<1>3. CASE Dokploy!NextLoop
  BY <1>3, NextLoopKeeps
<1>4. CASE Dokploy!Deploy
  BY <1>4, DeployKeeps
<1>5. CASE Dokploy!Fail \/ (\E s \in Dokploy!Stores : Dokploy!Restart(s)) \/ Dokploy!Rerun
  BY <1>5, FailureKeeps
<1>6. CASE Dokploy!Exporter \/ Dokploy!DeleteExporter
  BY <1>6, VolumeKeeps
<1>7. CASE UNCHANGED Dokploy!vars
  <2>1. /\ UNCHANGED <<alive, data_dokploy, exporter, pc_dokploy, todo, step, created>>
        /\ UNCHANGED <<renamedHosts, env, imported, deployed, importer>>
    BY <1>7 DEF Dokploy!vars, Dokploy!dokploy, Dokploy!script, Dokploy!vexdock
  <2> QED BY <2>1 DEF MigrationInv, Shape, Throwaway, Created, Stopped, Copied,
          Dokploy!NothingLeftBehind
<1> QED BY <1>1, <1>2, <1>3, <1>4, <1>5, <1>6, <1>7 DEF Dokploy!Next

(* Whenever the project runs on vexdock, everything it wrote on Dokploy was copied, every *)
(* program names the new databases, and nothing of the old project or of the copying is    *)
(* left, for any project, whatever failed before and whichever answer was lost, the last   *)
(* one included, but for what the operator then starts again (migrate-dokploy.ts).         *)
THEOREM NothingStaysBehind == ProgramsSpec => []NothingLeftBehind
<1> DEFINE Inv == client = "dokploy" => MigrationInv
<1>1. ProgramsInit => Inv
  BY MigrationInit DEF ProgramsInit
<1>2. Inv /\ [ProgramsNext]_programsVars => Inv'
  BY ProgramMoves, MigrationNext
<1>3. Inv => NothingLeftBehind
  BY InvSound DEF NothingLeftBehind
<1> QED BY <1>1, <1>2, <1>3, PTL DEF ProgramsSpec
=============================================================================
