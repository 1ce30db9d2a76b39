------------------------------ MODULE Handover ------------------------------
(***************************************************************************)
(* One service through its deployments: what execute in                    *)
(* manager/src/deployments/mod.rs does to the service's containers, and    *)
(* what pin, unpin and reconcile in manager/src/domains/mod.rs do to the   *)
(* proxy, while the background reconciler runs its own passes.             *)
(*                                                                         *)
(* A service that can have two containers and has one, running, is started *)
(* beside it: the vhost is pinned to the old container, the new one joins  *)
(* the alias, the vhost is pinned to the new one, the old one is retired   *)
(* and the pin withdrawn.  Any other service is recreated in place, with a *)
(* gap while its new container comes up.  The pipeline is dropped where it *)
(* stands by a cancel or its deadline.                                     *)
(*                                                                         *)
(* Containers are numbered in the order Docker created them.  A reconcile  *)
(* pass is cut at the await that matters here, the reload; NginxApply      *)
(* opens it further.  Compose and Docker are outside src/.                 *)
(***************************************************************************)
EXTENDS Naturals, FiniteSets, FiniteSetsExt

CONSTANTS MaxContainers,    \* bound: containers ever created
          MaxFaults,        \* bound: operations that fail where the code handles it
          MaxInterruptions, \* bound: pipelines dropped, managers killed
          Alias,            \* the upstream that names whoever joined the alias
          None

ASSUME Assumptions ==
  /\ MaxContainers \in Nat \ {0}
  /\ MaxFaults \in Nat /\ MaxInterruptions \in Nat
  /\ Alias \notin Nat /\ None \notin Nat /\ Alias # None
  /\ None \notin {"sweep", "deploy", "success", "failed", "twoLeft"}

VARIABLES
  exists, running, listening, \* the service's containers
  joined,     \* those on the proxy network under the alias
  created,    \* containers created so far
  recreated,  \* history: a deployment went in place since the service was last whole
  pinned,     \* the pinned map's entry for the service
  disk,       \* the upstream the generated vhost names
  served,     \* the upstream Nginx's workers proxy to
  pending,    \* reload_pending
  lock,       \* who holds reconcile_lock across a reload
  phase,      \* where the pipeline is
  old, new,   \* hand_over's containers
  outcome,    \* how the last deployment ended; "twoLeft" is a failed one whose code
              \* leaves both containers as they are
  faults, interruptions

containers == <<exists, running, listening, joined, created, recreated>>
proxy      == <<disk, served, pending, lock>>
pipeline   == <<phase, old, new, outcome>>
bounds     == <<faults, interruptions>>
vars == <<exists, running, listening, joined, created, recreated, pinned, disk, served, pending,
          lock, phase, old, new, outcome, faults, interruptions>>

Containers == 1..MaxContainers
Upstreams  == Containers \cup {Alias}

\* Where each reconcile of the pipeline leads to, when it succeeds and when it fails.
\* An "L" marks a handover that could not retire the old container.
OnSuccess == [pinOld |-> "attach", pinNew |-> "drain", giveUp |-> "discard",
              unpin |-> "final", unpinL |-> "twoLeft", final |-> "success"]
OnError   == [pinOld |-> "toGiveUp", pinNew |-> "toGiveUp", giveUp |-> "discard",
              unpin |-> "failed", unpinL |-> "twoLeft", final |-> "failed"]
Reconciling == DOMAIN OnSuccess

Phases == {"idle", "up", "health", "toPinOld", "attach", "listen", "toPinNew", "drain",
           "remove", "toUnpin", "toUnpinL", "toGiveUp", "discard"} \cup Reconciling

Init ==
  /\ exists = {1} /\ running = {1} /\ listening = {1} /\ joined = {1}
  /\ created = 1 /\ recreated = FALSE
  /\ pinned = None
  /\ disk = Alias /\ served = Alias
  /\ pending = FALSE
  /\ lock = None
  /\ phase = "idle"
  /\ old = None /\ new = None
  /\ outcome = None
  /\ faults = 0 /\ interruptions = 0

Fault        == faults < MaxFaults /\ faults' = faults + 1 /\ UNCHANGED interruptions
Interruption == interruptions < MaxInterruptions /\ interruptions' = interruptions + 1
                /\ UNCHANGED faults

Outcomes == {"success", "failed", "twoLeft"}

\* The pipeline goes on, or is over.
Goto(p) ==
  IF p \in Outcomes
  THEN /\ phase' = "idle" /\ outcome' = p
       /\ old' = None /\ new' = None
  ELSE phase' = p /\ UNCHANGED <<old, new, outcome>>

\* Fault: the removed containers are still taken to be running.
Without_StillRunning(c) ==
  /\ exists' = exists \ c
  /\ UNCHANGED <<running, listening, joined, created, recreated>>

\* What is left once Docker removed the containers in c.
Without(c) ==
  /\ exists' = exists \ c /\ running' = running \ c
  /\ listening' = listening \ c /\ joined' = joined \ c
  /\ UNCHANGED <<created, recreated>>

-----------------------------------------------------------------------------
(* Reconcile                                                               *)

\* Fault: the newest container is attached.
Attached_Newest == IF running = {} THEN exists ELSE {Max(running)}

\* service_container: the oldest that runs, a stopped one if none does.
Attached == IF running = {} THEN exists ELSE {Min(running)}

Rendered == IF pinned = None THEN Alias ELSE pinned

UpToDate == disk = Rendered /\ ~pending

\* A pass first joins the service's container to the alias.
JoinAlias ==
  /\ \/ Attached = {} /\ UNCHANGED joined
     \/ \E c \in Attached : joined' = joined \cup {c}
  /\ UNCHANGED <<exists, running, listening, created, recreated>>

\* A pass up to its reload, or to apply's early return.  Docker refusing to attach is
\* logged and nothing else.
Reconcile(who) ==
  /\ lock = None
  /\ \/ JoinAlias /\ UNCHANGED bounds
     \/ Fault /\ UNCHANGED containers
  /\ IF UpToDate
     THEN UNCHANGED <<disk, lock>>
     ELSE disk' = Rendered /\ lock' = who
  /\ UNCHANGED <<pinned, served, pending>>

\* A pass that fails before its reload: no network, or nginx -t times out when the
\* container has joined, and the file is put back.
ReconcileFails ==
  /\ lock = None
  /\ Fault
  /\ JoinAlias \/ UNCHANGED containers
  /\ UNCHANGED <<pinned, proxy>>

Sweep ==
  /\ Reconcile("sweep")
  /\ UNCHANGED pipeline

SweepFails ==
  /\ ReconcileFails
  /\ UNCHANGED pipeline

PipelineReconciles ==
  /\ phase \in Reconciling
  /\ Reconcile("deploy")
  /\ IF UpToDate THEN Goto(OnSuccess[phase]) ELSE UNCHANGED pipeline

PipelineReconcileFails ==
  /\ phase \in Reconciling
  /\ ReconcileFails
  /\ Goto(OnError[phase])

Reloaded ==
  /\ lock # None
  /\ served' = disk
  /\ pending' = FALSE
  /\ lock' = None
  /\ IF lock = "deploy" THEN Goto(OnSuccess[phase]) ELSE UNCHANGED pipeline
  /\ UNCHANGED <<containers, pinned, disk, bounds>>

\* The workers may run the new configuration all the same.
ReloadFails ==
  /\ lock # None
  /\ Fault
  /\ served' \in {served, disk}
  /\ pending' = TRUE
  /\ lock' = None
  /\ IF lock = "deploy" THEN Goto(OnError[phase]) ELSE UNCHANGED pipeline
  /\ UNCHANGED <<containers, pinned, disk>>

-----------------------------------------------------------------------------
(* The pipeline                                                            *)

\* sole_running_container: the one container to start beside, if it is the only one and runs.
Beside == IF Cardinality(exists) = 1 /\ exists = running THEN Min(exists) ELSE None

\* One container serves, and the proxy finds it by the alias or by its name.
Whole ==
  /\ Beside # None /\ listening = exists /\ joined = exists
  /\ pinned = None /\ {disk, served} \subseteq {Alias, Beside}

\* STEP_START begins.  Whether the service may have two containers is read from its compose
\* file each time; one that may not has nothing to start beside.
Deploy ==
  /\ phase = "idle"
  /\ created < MaxContainers
  /\ phase' = "up"
  /\ old' \in {None, Beside}
  /\ recreated' = (recreated /\ ~Whole)
  /\ UNCHANGED <<exists, running, listening, joined, created, pinned, proxy, new, outcome, bounds>>

\* A container more than those that are kept; started has it, or nobody.
Created(kept, started) ==
  LET c == created + 1
  IN /\ created' = c
     /\ exists' = kept \cup {c}
     /\ running' = (running \cap kept) \cup started
     /\ listening' = listening \cap kept
     /\ joined' = joined \cap kept
     /\ recreated' = (recreated \/ kept = {})

\* A plain up replaces all there are, or is left with one it finds as configured.
UpInPlace ==
  \/ Created({}, {created + 1})
  \/ \E c \in exists :
       /\ exists' = {c} /\ running' = {c}
       /\ listening' = listening \cap {c} /\ joined' = joined \cap {c}
       /\ recreated' = TRUE
       /\ UNCHANGED created

\* up_beside adds one.
Start == IF old = None THEN UpInPlace ELSE Created(exists, {created + 1})

\* Compose gave up before it touched a container, before it started the one it created,
\* or after.
HalfStart ==
  \/ UNCHANGED containers
  \/ Created(IF old = None THEN {} ELSE exists, {})
  \/ Start

\* Once Compose is done, hand_over's new container is the one that is not old.
Up ==
  /\ phase = "up"
  /\ Start
  /\ new' = IF old = None THEN None ELSE created + 1
  /\ phase' = "health"
  /\ UNCHANGED <<pinned, proxy, old, outcome, bounds>>

\* In place, the old container may be gone by then.
UpFails ==
  /\ phase = "up"
  /\ Fault
  /\ HalfStart
  /\ IF old = None THEN Goto("failed") ELSE Goto("discard")
  /\ UNCHANGED <<pinned, proxy>>

Healthy ==
  /\ phase = "health"
  /\ Goto(IF old = None THEN "final" ELSE "toPinOld")
  /\ UNCHANGED <<containers, pinned, proxy, bounds>>

\* Unhealthy, gone, or not settled in HEALTH_TIMEOUT.
Unhealthy ==
  /\ phase = "health"
  /\ Fault
  /\ Goto(IF old = None THEN "failed" ELSE "discard")
  /\ UNCHANGED <<containers, pinned, proxy>>

\* hand_over cannot read the service or list its containers: it returns before the
\* part that cleans up after itself.
HandOverFails ==
  /\ phase = "toPinOld"
  /\ Fault
  /\ Goto("twoLeft")
  /\ UNCHANGED <<containers, pinned, proxy>>

\* pin and unpin change the map first, then wait for a pass of their own.
Pin(at, target, then) ==
  /\ phase = at
  /\ pinned' = target
  /\ Goto(then)
  /\ UNCHANGED <<containers, proxy, bounds>>

\* Fault: a handover that failed leaves its pin.
GiveUp_KeepsPin == Pin("toGiveUp", pinned, "giveUp")

PinOld  == Pin("toPinOld", old, "pinOld")
PinNew  == Pin("toPinNew", new, "pinNew")
Unpin   == Pin("toUnpin", None, "unpin")
UnpinL  == Pin("toUnpinL", None, "unpinL")
GiveUp  == Pin("toGiveUp", None, "giveUp")

Attach ==
  /\ phase = "attach"
  /\ joined' = joined \cup {new}
  /\ Goto("listen")
  /\ UNCHANGED <<exists, running, listening, created, recreated, pinned, proxy, bounds>>

\* The container opens its port in its own time, or never.
Listens(c) ==
  /\ c \in running \ listening
  /\ listening' = listening \cup {c}
  /\ UNCHANGED <<exists, running, joined, created, recreated, pinned, proxy, pipeline, bounds>>

\* Fault: traffic moves without waiting for the port.
ListeningTo_Anyone(c) == TRUE

ListeningTo(c) == c \in listening

WaitListening ==
  /\ phase = "listen"
  /\ ListeningTo(new)
  /\ Goto("toPinNew")
  /\ UNCHANGED <<containers, pinned, proxy, bounds>>

\* The domains cannot be read, or Docker refuses to attach the new container or to probe
\* its port.
AttachFails ==
  /\ phase \in {"attach", "listen"}
  /\ Fault
  /\ Goto("toGiveUp")
  /\ UNCHANGED <<containers, pinned, proxy>>

\* wait_listening's deadline.  It is a fault the bound does not hold back.
NeverListens ==
  /\ phase = "listen"
  /\ new \notin listening
  /\ faults' = Min({faults + 1, MaxFaults})
  /\ Goto("toGiveUp")
  /\ UNCHANGED <<containers, pinned, proxy, interruptions>>

\* After two seconds the old container is stopped.
StopOld ==
  /\ phase = "drain"
  /\ running' = running \ {old} /\ listening' = listening \ {old}
  /\ Goto("remove")
  /\ UNCHANGED <<exists, joined, created, recreated, pinned, proxy, bounds>>

RemoveOld ==
  /\ phase = "remove"
  /\ Without({old})
  /\ Goto("toUnpin")
  /\ UNCHANGED <<pinned, proxy, bounds>>

\* Docker refuses either; the pin is withdrawn all the same.
RetireFails ==
  /\ phase \in {"drain", "remove"}
  /\ Fault
  /\ Goto("toUnpinL")
  /\ UNCHANGED <<containers, pinned, proxy>>

\* Fault: discard_new removes nothing.
Discarded_Nothing == {}

Discarded == exists \ {old}

\* discard_new, which logs what it cannot remove.
Discard ==
  /\ phase = "discard"
  /\ Without(Discarded)
  /\ Goto("failed")
  /\ UNCHANGED <<pinned, proxy, bounds>>

DiscardFails ==
  /\ phase = "discard"
  /\ Fault
  /\ Goto("failed")
  /\ UNCHANGED <<containers, pinned, proxy>>

-----------------------------------------------------------------------------
(* What cuts a pipeline short                                              *)

\* The pipeline's reload goes on in the proxy's container without it.
LetGo ==
  IF lock = "deploy"
  THEN lock' = None /\ served' \in {served, disk}
  ELSE UNCHANGED <<lock, served>>

\* A cancel or DEPLOY_TIMEOUT: select! drops the future, and with it every step that
\* would have cleaned up.  A compose that was killed leaves what it had done.
Dropped ==
  /\ phase # "idle"
  /\ Interruption
  /\ Goto("failed")
  /\ LetGo
  /\ IF phase = "up" THEN HalfStart ELSE UNCHANGED containers
  /\ UNCHANGED <<pinned, disk, pending>>

\* The manager dies and is booted again; the pins and reload_pending are memory.
Crash ==
  /\ phase # "idle" \/ lock # None
  /\ Interruption
  /\ IF phase = "idle" THEN UNCHANGED pipeline ELSE Goto("failed")
  /\ lock' = None
  /\ served' \in IF lock = None THEN {served} ELSE {served, disk}
  /\ pinned' = None
  /\ pending' = FALSE
  /\ UNCHANGED <<containers, disk>>

-----------------------------------------------------------------------------
\* Every step of a pipeline that goes well, and what it does about a failure.
Advance ==
  \/ PipelineReconciles \/ Up \/ Healthy
  \/ PinOld \/ PinNew \/ Unpin \/ UnpinL \/ GiveUp
  \/ Attach \/ WaitListening \/ StopOld \/ RemoveOld \/ Discard

Next ==
  \/ Deploy \/ Advance \/ Sweep \/ SweepFails \/ Reloaded
  \/ \E c \in Containers : Listens(c)
  \/ PipelineReconcileFails \/ ReloadFails \/ UpFails \/ Unhealthy
  \/ HandOverFails \/ AttachFails \/ NeverListens
  \/ RetireFails \/ DiscardFails
  \/ Dropped \/ Crash

\* The runtime polls the pipeline and tokio's lock is fair, so a pipeline that waits for
\* the reconciler's passes has its turn; a reload ends within its own timeout, and
\* wait_listening at its deadline, whether or not the container ever listens.
Fairness ==
  /\ SF_vars(Advance)
  /\ WF_vars(Reloaded)
  /\ WF_vars(NeverListens)

Spec     == Init /\ [][Next]_vars
FairSpec == Spec /\ Fairness

-----------------------------------------------------------------------------
(* Properties                                                              *)

\* Every variable has its type.
TypeOK ==
  /\ exists \subseteq Containers /\ running \subseteq exists
  /\ listening \subseteq running /\ joined \subseteq exists
  /\ created \in Containers /\ recreated \in BOOLEAN
  /\ pinned \in Containers \cup {None}
  /\ disk \in Upstreams /\ served \in Upstreams
  /\ pending \in BOOLEAN
  /\ lock \in {None, "sweep", "deploy"}
  /\ phase \in Phases
  /\ old \in Containers \cup {None} /\ new \in Containers \cup {None}
  /\ outcome \in Outcomes \cup {None}
  /\ faults \in 0..MaxFaults /\ interruptions \in 0..MaxInterruptions

\* The containers a request can be sent to.
Reached == (IF served = Alias THEN joined ELSE joined \cap {served}) \cap running

\* "Moves the service's traffic from old to the new container at one Nginx reload"
\* (hand_over): as long as nothing fails, requests are never spread over two builds,
\* whichever passes the reconciler fits in between.  Nor are they sent to nobody or to a
\* container that does not listen, outside the "short gap" (architecture.md) that a
\* deployment in place opens until one begins on a whole service again.
OneBuild ==
  faults = 0 /\ interruptions = 0 =>
    /\ Cardinality(Reached) <= 1
    /\ ~recreated => Reached # {} /\ Reached \subseteq listening

\* One operation that fails, wherever it fails, leaves a container that listens among
\* those a request can be sent to, outside the gap of a deployment in place.
KeepsServing ==
  faults <= 1 /\ interruptions = 0 /\ ~recreated => Reached \cap listening # {}

\* "The old one goes on serving and the next deploy starts from one container again"
\* (discard_new): a deployment that failed leaves one container, the one requests are
\* sent to, on every path that cleans up.  One that went in place has nothing to restore.
FailureRestores ==
  faults <= 1 /\ interruptions = 0 /\ ~recreated /\ phase = "idle" /\ outcome = "failed"
    => Cardinality(exists) = 1 /\ Reached = exists

\* A pin is withdrawn by the pipeline that set it, unless that was cut short.
PinWithdrawn == pinned # None ~> (pinned = None \/ interruptions > 0)

\* "The vhosts go back to the alias, which by then names only the new container"
\* (hand_over): after a deployment that succeeded nothing stays pinned and the service
\* is served.
SuccessServes ==
  phase = "idle" /\ outcome = "success" => pinned = None /\ Reached # {}
=============================================================================
