---------------------------- MODULE NginxApply ----------------------------
(***************************************************************************)
(* The reload cycle of the reverse proxy: Nginx::apply in                  *)
(* manager/src/nginx/mod.rs, called under reconcile_lock by                *)
(* Domains::reconcile (manager/src/domains/mod.rs).                        *)
(*                                                                         *)
(* A pass renders what the database asks for, makes the generated          *)
(* directory match it file by file, runs nginx -t over the directory,      *)
(* restores the previous files when the test fails, and otherwise reloads. *)
(* reload_pending remembers a reload that failed.  An apply is awaited by  *)
(* deploys and API handlers, so besides failing it can be dropped at       *)
(* either of its two awaits, and the manager can die anywhere.  A new      *)
(* certificate is followed by a reload that takes no lock at all.          *)
(***************************************************************************)
EXTENDS Naturals

CONSTANTS Files,            \* names of generated files
          Bodies,           \* what a file can hold
          Bad,              \* the bodies nginx -t rejects
          Absent,           \* no such file
          MaxEdits,         \* bound: changes to what the database asks for
          MaxFaults,        \* bound: operations that fail where apply handles it
          MaxInterruptions  \* bound: drops, deaths, lost restores, reloads amid an apply

VARIABLES
  wanted,   \* the directory the database asks for
  desired,  \* what the pass at work rendered
  before,   \* its snapshot of the directory
  disk,     \* the generated directory
  served,   \* the configuration Nginx's workers run
  stage,    \* of the pass at work: "idle", "write" (and test), "reload"
  pending,  \* reload_pending
  edits, faults, interruptions

intent == <<wanted, edits>>
pass   == <<desired, before>>
vars   == <<wanted, desired, before, disk, served, stage, pending,
            edits, faults, interruptions>>

Directories == [Files -> Bodies \cup {Absent}]
Empty       == [f \in Files |-> Absent]

\* What nginx -t says of a whole directory, and the master on a reload.
Valid(dir) == \A f \in Files : dir[f] \notin Bad

Init ==
  /\ wanted = Empty /\ desired = Empty /\ before = Empty
  /\ disk = Empty
  /\ served = Empty
  /\ stage = "idle"
  /\ pending = FALSE
  /\ edits = 0 /\ faults = 0 /\ interruptions = 0

Fault        == faults < MaxFaults /\ faults' = faults + 1
Interruption == interruptions < MaxInterruptions /\ interruptions' = interruptions + 1

-----------------------------------------------------------------------------

\* A handler stores a row: a vhost or a password file appears, changes or goes.
Edit(f, body) ==
  /\ edits < MaxEdits
  /\ body # wanted[f]
  /\ edits' = edits + 1
  /\ wanted' = [wanted EXCEPT ![f] = body]
  /\ UNCHANGED <<pass, disk, served, stage, pending, faults, interruptions>>

\* Fault: the early return looks at the files alone.
UpToDate_FilesOnly == disk = wanted

\* apply's early return, which changes nothing.
UpToDate == disk = wanted /\ ~pending

\* A pass takes both locks, renders, takes its snapshot and has work to do.
Begin ==
  /\ stage = "idle"
  /\ ~UpToDate
  /\ desired' = wanted
  /\ before' = disk
  /\ stage' = "write"
  /\ UNCHANGED <<intent, disk, served, pending, faults, interruptions>>

Surplus == {f \in Files : disk[f] # Absent /\ desired[f] = Absent}

\* write: surplus files go first, then each file is replaced by a rename.
WriteFile(f) ==
  /\ stage = "write"
  /\ disk[f] # desired[f]
  /\ f \in Surplus \/ Surplus = {}
  /\ disk' = [disk EXCEPT ![f] = desired[f]]
  /\ UNCHANGED <<intent, pass, served, stage, pending, faults, interruptions>>

Testing == stage = "write" /\ disk = desired

\* Fault: a file that was not there before is left behind.
Restored_KeepsNew == [f \in Files |-> IF before[f] = Absent THEN disk[f] ELSE before[f]]

\* Fault: a restored file is left empty.
Restored_Truncates == [f \in Files |-> IF disk[f] = before[f] THEN disk[f] ELSE 0]

\* The directory after write(&before) went through.
Restored == before

\* Ends the pass with the files put back, or with only some of them when the disk
\* refuses those writes too, which is logged and nothing else.
PutBack ==
  /\ stage' = "idle"
  /\ \/ disk' = Restored /\ UNCHANGED interruptions
     \/ /\ Interruption
        /\ \E part \in SUBSET {f \in Files : disk[f] # before[f]} :
             disk' = [f \in Files |-> IF f \in part THEN before[f] ELSE disk[f]]

\* A file cannot be written or removed.
WriteFails ==
  /\ stage = "write"
  /\ disk # desired
  /\ Fault
  /\ PutBack
  /\ UNCHANGED <<intent, pass, served, pending>>

\* nginx -t exits with an error.
Rejected ==
  /\ Testing
  /\ ~Valid(disk)
  /\ PutBack
  /\ UNCHANGED <<intent, pass, served, pending, faults>>

\* nginx -t does not answer in time or cannot be run, whatever the files say.
TestFails ==
  /\ Testing
  /\ Fault
  /\ PutBack
  /\ UNCHANGED <<intent, pass, served, pending>>

Accepted ==
  /\ Testing
  /\ Valid(disk)
  /\ stage' = "reload"
  /\ UNCHANGED <<intent, pass, disk, served, pending, faults, interruptions>>

Reloaded ==
  /\ stage = "reload"
  /\ served' = disk
  /\ pending' = FALSE
  /\ stage' = "idle"
  /\ UNCHANGED <<intent, pass, disk, faults, interruptions>>

\* Fault: a failed reload is only reported.
PendingAfterFailure_Forgotten == pending

PendingAfterFailure == TRUE

\* The script exits with an error or is not heard of in time; the master may have
\* taken the new configuration all the same.
ReloadFails ==
  /\ stage = "reload"
  /\ Fault
  /\ served' \in {served, disk}
  /\ pending' = PendingAfterFailure
  /\ stage' = "idle"
  /\ UNCHANGED <<intent, pass, disk, interruptions>>

\* The caller's future is dropped at an await.  The command it waited for runs on in
\* the proxy's container.
Drop ==
  /\ Testing \/ stage = "reload"
  /\ Interruption
  /\ served' \in IF stage = "reload" THEN {served, disk} ELSE {served}
  /\ stage' = "idle"
  /\ UNCHANGED <<intent, pass, disk, pending, faults>>

\* The manager dies, anywhere: half the files may be written, and reload_pending is
\* memory.
Crash ==
  /\ stage # "idle" \/ pending
  /\ Interruption
  /\ served' \in IF stage = "reload" THEN {served, disk} ELSE {served}
  /\ stage' = "idle"
  /\ pending' = FALSE
  /\ UNCHANGED <<intent, pass, disk, faults>>

\* reconcile_new_certificate's reload, outside both locks.  Nginx keeps what it runs
\* when it cannot load what it finds.
CertificateReload ==
  /\ Valid(disk)
  /\ served' = disk
  /\ IF stage = "idle" THEN UNCHANGED interruptions ELSE Interruption
  /\ UNCHANGED <<intent, pass, disk, stage, pending, faults>>

-----------------------------------------------------------------------------
Next ==
  \/ \E f \in Files, body \in Bodies \cup {Absent} : Edit(f, body)
  \/ \E f \in Files : WriteFile(f)
  \/ Begin \/ WriteFails \/ Rejected \/ TestFails \/ Accepted
  \/ Reloaded \/ ReloadFails
  \/ Drop \/ Crash \/ CertificateReload

\* The sweep starts a pass every two minutes, and a pass that started is polled until
\* it ends.
Fairness ==
  /\ WF_vars(Begin)
  /\ \A f \in Files : WF_vars(WriteFile(f))
  /\ WF_vars(Rejected) /\ WF_vars(Accepted) /\ WF_vars(Reloaded)

Spec     == Init /\ [][Next]_vars
FairSpec == Spec /\ Fairness

-----------------------------------------------------------------------------
(* Properties                                                              *)

\* Every variable has its type.
TypeOK ==
  /\ wanted \in Directories /\ desired \in Directories /\ before \in Directories
  /\ disk \in Directories /\ served \in Directories
  /\ stage \in {"idle", "write", "reload"}
  /\ pending \in BOOLEAN
  /\ edits \in 0..MaxEdits
  /\ faults \in 0..MaxFaults
  /\ interruptions \in 0..MaxInterruptions

\* "The files on disk are ahead of the running proxy" (reload_pending): between passes
\* that is never so without the flag saying it, whatever was rejected, timed out or
\* failed, as long as no pass was cut short.
AheadIsRemembered ==
  stage = "idle" /\ interruptions = 0 /\ disk # served => pending

\* "A bad config can never take the proxy down" (Nginx): between passes the proxy can be
\* restarted on the files it finds, as long as no pass was cut short.
SafeToRestart ==
  stage = "idle" /\ interruptions = 0 => Valid(disk)

\* No later pass will look at these files again: they are what is wanted, and nothing
\* says that the proxy does not run them.
Overlooked == stage = "idle" /\ disk = wanted /\ ~pending

\* Once edits, faults and interruptions end, the sweep brings the proxy to what the
\* database asks for, unless that is invalid or its files are overlooked.
Converges == <>[](Valid(wanted) => served = wanted \/ Overlooked)

\* "Reconciliation is a full convergence rather than an incremental patch, so a missed
\* event self-heals" (docs/architecture.md): the same with nothing excepted.
SelfHeals == <>[](Valid(wanted) => served = wanted)
=============================================================================
