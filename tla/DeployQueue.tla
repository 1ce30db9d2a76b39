---------------------------- MODULE DeployQueue ----------------------------
(***************************************************************************)
(* The deploy engine's control: Engine in manager/src/deployments/mod.rs,  *)
(* with the deployments table it writes and the boot that repairs it.      *)
(*                                                                         *)
(* A trigger joins a waiting deployment or inserts a row and spawns a      *)
(* task.  The task registers a cancel channel, queues for its              *)
(* environment's lock, then for one of MaxConcurrent slots, executes under *)
(* a deadline, drops both guards, and only then writes its outcome.        *)
(* Triggers, cancels and tasks run on different threads, so each step that *)
(* another thread can observe is an action of its own.  A deployment is    *)
(* named by the request that created it.                                   *)
(*                                                                         *)
(* tokio's Mutex and Semaphore are fair: a permit given back goes to the   *)
(* oldest waiter at once, before that waiter is polled, and a dropped      *)
(* waiter passes on a permit it was already given.                         *)
(*                                                                         *)
(* What the pipeline does between Start and its end is a success or a      *)
(* failure here; module Handover opens it.                                 *)
(***************************************************************************)
EXTENDS Naturals, Sequences, FiniteSets

CONSTANTS Requests,      \* calls of trigger; also the deployments they create
          Targets,       \* what is asked for: environment, service, reference, commit
          Envs,          \* environments
          TargetOf,      \* request -> target
          EnvOf,         \* target -> environment
          MaxConcurrent, \* MAX_CONCURRENT
          MaxRestarts,   \* bound: how often the manager dies
          MaxDbErrors,   \* bound: how many statements fail where the code handles it
          None           \* nobody

ASSUME Assumptions ==
  /\ IsFiniteSet(Requests)
  /\ TargetOf \in [Requests -> Targets]
  /\ EnvOf \in [Targets -> Envs]
  /\ MaxConcurrent \in Nat \ {0}
  /\ MaxRestarts \in Nat
  /\ MaxDbErrors \in Nat
  /\ None \notin Requests \cup {"success", "failed", "cancelled"}

VARIABLES
  row,        \* deployments table: the status of each deployment, "absent" without a row
  unsaved,    \* rows whose final write failed, which nothing but the next boot repairs
  pc,         \* where the request, then the task it spawned, is
  answer,     \* the deployment a trigger returned to its caller
  outcome,    \* what select! in run came to
  lock,       \* environment -> who owns its Mutex
  lockQ,      \* environment -> who waits for it, oldest first
  slots,      \* who owns a permit of the Semaphore
  slotQ,      \* who waits for one, oldest first
  cancels,    \* the map of cancel senders
  cancelled,  \* sent on a channel whose receiver has not been polled since
  up,         \* the manager serves requests
  restarts, dbErrors

durable == <<row, unsaved>>
guards  == <<lock, lockQ, slots, slotQ>>
bounds  == <<restarts, dbErrors>>
vars    == <<row, unsaved, pc, answer, outcome, lock, lockQ, slots, slotQ,
             cancels, cancelled, up, restarts, dbErrors>>

Env(d) == EnvOf[TargetOf[d]]

Unfinished == {"queued", "running"}
Final      == {"success", "failed", "cancelled"}

\* The program points of a task that are inside run's select!.
Selecting == {"lockwait", "slotwait", "executing"}
\* A task exists and its deployment is not settled.
Live      == {"spawned", "ended", "settling"} \cup Selecting

unfinishedRows == {d \in Requests : row[d] \in Unfinished}
executing      == {d \in Requests : pc[d] = "executing"}

Init ==
  /\ row = [d \in Requests |-> "absent"]
  /\ unsaved = {}
  /\ pc = [d \in Requests |-> "idle"]
  /\ answer = [d \in Requests |-> None]
  /\ outcome = [d \in Requests |-> None]
  /\ lock = [e \in Envs |-> None]
  /\ lockQ = [e \in Envs |-> <<>>]
  /\ slots = {}
  /\ slotQ = <<>>
  /\ cancels = {}
  /\ cancelled = {}
  /\ up = TRUE
  /\ restarts = 0
  /\ dbErrors = 0

-----------------------------------------------------------------------------
(* trigger                                                                 *)

\* Deployments that build the same thing and whose row says queued.
Waiting(t) == {d \in Requests : row[d] = "queued" /\ TargetOf[d] = t}

\* The first of trigger's two statements: the caller gets one still waiting, or
\* goes on to insert its own.  The connection is free again in between.
TriggerFind(r) ==
  /\ up
  /\ pc[r] = "idle"
  /\ \/ /\ Waiting(TargetOf[r]) = {}
        /\ pc' = [pc EXCEPT ![r] = "insert"]
        /\ UNCHANGED answer
     \/ \E d \in Waiting(TargetOf[r]) :
          /\ answer' = [answer EXCEPT ![r] = d]
          /\ pc' = [pc EXCEPT ![r] = "answered"]
  /\ UNCHANGED <<durable, outcome, guards, cancels, cancelled, up, bounds>>

\* The second statement, and the spawn.  A failed insert answers the caller with
\* the error and changes nothing: the request stays where it is.
TriggerInsert(r) ==
  /\ up
  /\ pc[r] = "insert"
  /\ row' = [row EXCEPT ![r] = "queued"]
  /\ answer' = [answer EXCEPT ![r] = r]
  /\ pc' = [pc EXCEPT ![r] = "spawned"]
  /\ UNCHANGED <<unsaved, outcome, guards, cancels, cancelled, up, bounds>>

-----------------------------------------------------------------------------
(* cancel                                                                  *)

\* The sender leaves the map before anything is sent, so a deployment is
\* withdrawn at most once.  Once select! has returned the receiver is gone, the
\* send fails unseen and the caller is still told it worked.
Cancel(d) ==
  /\ up
  /\ d \in cancels
  /\ cancels' = cancels \ {d}
  /\ cancelled' = IF pc[d] \in Selecting THEN cancelled \cup {d} ELSE cancelled
  /\ UNCHANGED <<durable, pc, answer, outcome, guards, up, bounds>>

-----------------------------------------------------------------------------
(* The task: run, run_locked and finish                                    *)

\* Fault: the lock map forgets an environment's Mutex, so every task finds a fresh one.
LockFree_Fresh(e) == TRUE

LockFree(e) == lock[e] = None

\* run's first poll: the cancel sender is registered, then lock().await either
\* takes the environment or joins the queue for it.
Register(d) ==
  /\ pc[d] = "spawned"
  /\ cancels' = cancels \cup {d}
  /\ pc' = [pc EXCEPT ![d] = "lockwait"]
  /\ IF LockFree(Env(d))
     THEN lock' = [lock EXCEPT ![Env(d)] = d] /\ UNCHANGED lockQ
     ELSE lockQ' = [lockQ EXCEPT ![Env(d)] = Append(@, d)] /\ UNCHANGED lock
  /\ UNCHANGED <<durable, answer, outcome, slots, slotQ, cancelled, up, bounds>>

\* Fault: one permit too many.
SlotFree_OneMore == Cardinality(slots) <= MaxConcurrent

SlotFree == Cardinality(slots) < MaxConcurrent

\* Owner of its environment, it asks for a slot.
Locked(d) ==
  /\ pc[d] = "lockwait"
  /\ lock[Env(d)] = d
  /\ pc' = [pc EXCEPT ![d] = "slotwait"]
  /\ IF SlotFree
     THEN slots' = slots \cup {d} /\ UNCHANGED slotQ
     ELSE slotQ' = Append(slotQ, d) /\ UNCHANGED slots
  /\ UNCHANGED <<durable, answer, outcome, lock, lockQ, cancels, cancelled, up, bounds>>

\* execute's opening: the row is read and becomes running.
Start(d) ==
  /\ pc[d] = "slotwait"
  /\ d \in slots
  /\ row' = [row EXCEPT ![d] = "running"]
  /\ pc' = [pc EXCEPT ![d] = "executing"]
  /\ UNCHANGED <<unsaved, answer, outcome, guards, cancels, cancelled, up, bounds>>

\* Fault: a permit given back is handed to nobody.
Heir_Nobody(q) == {}

\* Who gets what is given back: the oldest waiter, or nobody.
Heir(q) == IF q = <<>> THEN {} ELSE {Head(q)}

\* q without d, wherever in the queue it waits.
Leave(q, d) ==
  IF \E i \in 1..Len(q) : q[i] = d
  THEN LET i == CHOOSE j \in 1..Len(q) : q[j] = d
       IN SubSeq(q, 1, i - 1) \o SubSeq(q, i + 1, Len(q))
  ELSE q

\* Dropping run_locked's future gives back what it owns, the slot and then the
\* environment, and gives up its place in either queue.
ReleaseGuards(d) ==
  /\ IF d \in slots
     THEN /\ slots' = (slots \ {d}) \cup Heir(slotQ)
          /\ slotQ' = IF slotQ = <<>> THEN <<>> ELSE Tail(slotQ)
     ELSE /\ slotQ' = Leave(slotQ, d)
          /\ UNCHANGED slots
  /\ LET e == Env(d)
     IN IF lock[e] = d
        THEN /\ lock' = [lock EXCEPT ![e] = IF lockQ[e] = <<>> THEN None ELSE Head(lockQ[e])]
             /\ lockQ' = [lockQ EXCEPT ![e] = IF @ = <<>> THEN <<>> ELSE Tail(@)]
        ELSE /\ lockQ' = [lockQ EXCEPT ![e] = Leave(@, d)]
             /\ UNCHANGED lock

\* select! returns: both futures are dropped, the receiver with them.
End(d, result) ==
  /\ pc' = [pc EXCEPT ![d] = "ended"]
  /\ outcome' = [outcome EXCEPT ![d] = result]
  /\ cancelled' = cancelled \ {d}
  /\ ReleaseGuards(d)
  /\ UNCHANGED <<durable, answer, cancels, up>>

\* execute's first statements fail: the pipeline ends with its row never read.
StartFails(d) ==
  /\ pc[d] = "slotwait"
  /\ d \in slots
  /\ dbErrors < MaxDbErrors
  /\ dbErrors' = dbErrors + 1
  /\ End(d, "failed")
  /\ UNCHANGED restarts

\* Fault: no deadline around execute.
TimeoutFires_Never(d) == FALSE

\* The pipeline comes to its own end.  A cancel sent meanwhile is not looked at
\* when select! polls this branch first.
Complete(d) ==
  /\ pc[d] = "executing"
  /\ \E result \in {"success", "failed"} : End(d, result)
  /\ UNCHANGED bounds

\* DEPLOY_TIMEOUT, which starts to run once the lock and a slot are held.
TimeoutFires(d) ==
  /\ pc[d] = "executing"
  /\ End(d, "failed")
  /\ UNCHANGED bounds

\* select! takes the cancelled branch, wherever run_locked was waiting.
Withdraw(d) ==
  /\ d \in cancelled
  /\ End(d, "cancelled")
  /\ UNCHANGED bounds

\* The sender, if no cancel took it, leaves the map before the row is settled.
Deregister(d) ==
  /\ pc[d] = "ended"
  /\ cancels' = cancels \ {d}
  /\ pc' = [pc EXCEPT ![d] = "settling"]
  /\ UNCHANGED <<durable, answer, outcome, guards, cancelled, up, bounds>>

\* Fault: a pipeline that never read its row leaves it alone.
Settled_OnlyIfRead(d) == IF row[d] = "queued" THEN "queued" ELSE outcome[d]

\* Fault: a failed pipeline writes its error and no status.
Settled_NoStatus(d) == IF outcome[d] = "failed" THEN None ELSE outcome[d]

\* The status finish writes: the outcome, also when the pipeline never read the row.
Settled(d) == outcome[d]

\* finish.  A failed write is logged and the row keeps its unfinished status.
Finish(d) ==
  /\ pc[d] = "settling"
  /\ \/ row' = [row EXCEPT ![d] = Settled(d)] /\ UNCHANGED <<unsaved, dbErrors>>
     \/ /\ dbErrors < MaxDbErrors
        /\ dbErrors' = dbErrors + 1
        /\ unsaved' = unsaved \cup {d}
        /\ UNCHANGED row
  /\ pc' = [pc EXCEPT ![d] = "done"]
  /\ outcome' = [outcome EXCEPT ![d] = None]
  /\ UNCHANGED <<answer, guards, cancels, cancelled, up, restarts>>

-----------------------------------------------------------------------------
(* The manager's death, and recover_interrupted on the next boot           *)

\* Only the rows survive: tasks, locks, the semaphore and the senders are memory.
Crash ==
  /\ up
  /\ restarts < MaxRestarts
  /\ restarts' = restarts + 1
  /\ up' = FALSE
  /\ pc' = [d \in Requests |-> IF pc[d] \in Live \cup {"insert"} THEN "done" ELSE pc[d]]
  /\ outcome' = [d \in Requests |-> None]
  /\ lock' = [e \in Envs |-> None]
  /\ lockQ' = [e \in Envs |-> <<>>]
  /\ slots' = {}
  /\ slotQ' = <<>>
  /\ cancels' = {}
  /\ cancelled' = {}
  /\ UNCHANGED <<durable, answer, dbErrors>>

\* Fault: the boot closes every row it finds.
Recoverable_Any(d) == row[d] \notin {"absent", "failed"}

Recoverable(d) == row[d] \in Unfinished

\* One row of recover_interrupted, before the API listens.
RecoverRow(d) ==
  /\ ~up
  /\ Recoverable(d)
  /\ row' = [row EXCEPT ![d] = "failed"]
  /\ unsaved' = unsaved \ {d}
  /\ UNCHANGED <<pc, answer, outcome, guards, cancels, cancelled, up, bounds>>

\* The first failing row ends the pass; main logs it and serves all the same.
RecoveryFails ==
  /\ ~up
  /\ unfinishedRows # {}
  /\ dbErrors < MaxDbErrors
  /\ dbErrors' = dbErrors + 1
  /\ unsaved' = unsaved \cup unfinishedRows
  /\ up' = TRUE
  /\ UNCHANGED <<row, pc, answer, outcome, guards, cancels, cancelled, restarts>>

Boot ==
  /\ ~up
  /\ unfinishedRows = {}
  /\ up' = TRUE
  /\ UNCHANGED <<durable, pc, answer, outcome, guards, cancels, cancelled, bounds>>

-----------------------------------------------------------------------------
Task(d) == Register(d) \/ Locked(d) \/ Start(d) \/ Deregister(d) \/ Finish(d)

Next ==
  \/ \E d \in Requests :
       \/ TriggerFind(d) \/ TriggerInsert(d) \/ Cancel(d)
       \/ Task(d) \/ StartFails(d) \/ Complete(d) \/ TimeoutFires(d) \/ Withdraw(d)
       \/ RecoverRow(d)
  \/ Crash \/ RecoveryFails \/ Boot

\* The runtime polls a task that can go on, tokio's timer fires, and the container's
\* restart policy boots the manager again.  No pipeline is assumed to come to its own
\* end, and nobody has to trigger or cancel anything.
Fairness ==
  /\ \A d \in Requests : /\ WF_vars(Task(d))
                         /\ WF_vars(TimeoutFires(d))
                         /\ WF_vars(RecoverRow(d))
  /\ WF_vars(Boot)

Spec     == Init /\ [][Next]_vars
FairSpec == Spec /\ Fairness

-----------------------------------------------------------------------------
(* Properties                                                              *)

\* Every variable has its type; in particular a row only ever holds a status of the
\* deployments table.
TypeOK ==
  /\ row \in [Requests -> {"absent"} \cup Unfinished \cup Final]
  /\ unsaved \subseteq Requests
  /\ pc \in [Requests -> {"idle", "insert", "answered", "done"} \cup Live]
  /\ answer \in [Requests -> Requests \cup {None}]
  /\ outcome \in [Requests -> Final \cup {None}]
  /\ lock \in [Envs -> Requests \cup {None}]
  /\ lockQ \in [Envs -> Seq(Requests)]
  /\ slots \subseteq Requests
  /\ slotQ \in Seq(Requests)
  /\ cancels \subseteq Requests
  /\ cancelled \subseteq Requests
  /\ up \in BOOLEAN
  /\ restarts \in 0..MaxRestarts
  /\ dbErrors \in 0..MaxDbErrors

\* "The same environment never deploys twice at once" (lock_for): two pipelines at
\* work are in different environments, whatever was cancelled, timed out or handed on.
OnePipelinePerEnvironment ==
  \A d1, d2 \in executing : Env(d1) = Env(d2) => d1 = d2

\* The host never runs more than MAX_CONCURRENT pipelines.
SlotCap == Cardinality(executing) <= MaxConcurrent

\* Whoever is past a guard owns it.
HoldersOwn ==
  \A d \in Requests :
    /\ pc[d] \in {"slotwait", "executing"} => lock[Env(d)] = d
    /\ pc[d] = "executing" => d \in slots

\* Nothing waits for a guard that nobody holds, every guard is held by a task that will
\* give it back, and every task that waits has its place: no permit of run_locked leaks
\* and nobody is forgotten when a waiter, a task that was just given its turn, or a
\* pipeline at work is dropped.
GuardsAccounted ==
  /\ HoldersOwn
  /\ \A d \in Requests :
       /\ pc[d] = "lockwait" =>
            lock[Env(d)] = d \/ \E i \in 1..Len(lockQ[Env(d)]) : lockQ[Env(d)][i] = d
       /\ pc[d] = "slotwait" => d \in slots \/ \E i \in 1..Len(slotQ) : slotQ[i] = d
  /\ Cardinality(slots) <= MaxConcurrent
  /\ \A e \in Envs :
       /\ lock[e] = None => lockQ[e] = <<>>
       /\ lock[e] # None => pc[lock[e]] \in Selecting /\ Env(lock[e]) = e
       /\ \A i \in 1..Len(lockQ[e]) : pc[lockQ[e][i]] = "lockwait"
  /\ SlotFree => slotQ = <<>>
  /\ \A d \in slots : pc[d] \in {"slotwait", "executing"}
  /\ \A i \in 1..Len(slotQ) : pc[slotQ[i]] = "slotwait"

\* "The UI never shows a pipeline that nothing is running": while the manager serves, an
\* unfinished row has a task that will settle it, unless its last write failed.
UnfinishedOwned == up => \A d \in unfinishedRows : pc[d] \in Live \/ d \in unsaved

\* Every queued deployment gets a final status, also behind a pipeline that hangs, a
\* queue of its own environment, a full host or a restart.
QueuedSettles ==
  \A d \in Requests : row[d] = "queued" ~> (row[d] \in Final \/ d \in unsaved)

\* The engine keeps the abstract promise.
Promise == INSTANCE DeploymentPromise WITH working <- executing
KeepsPromise == Promise!Spec

\* "One still waiting builds the same thing when its turn comes" (trigger): a caller is
\* only ever given somebody else's deployment while that one can still have its turn.
JoinedCanStillRun ==
  [][\A r \in Requests :
       answer'[r] # answer[r] /\ answer'[r] # r
         => answer'[r] \notin cancelled /\ pc[answer'[r]] \in {"spawned", "lockwait", "slotwait"}]_vars
=============================================================================
