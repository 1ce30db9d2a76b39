--------------------------- MODULE HandoverProofs ---------------------------
(***************************************************************************)
(* What holds of a service through its deployments for any number of       *)
(* containers and passes: one build is served when nothing fails, and one  *)
(* failure, wherever it strikes, neither stops the service nor leaves the  *)
(* next deploy two containers to start from.                               *)
(***************************************************************************)
EXTENDS Handover, FiniteSetTheorems, TLAPS

-----------------------------------------------------------------------------
(* Whatever fails and whenever the pipeline is cut short.                  *)

\* A service never has more than two containers, numbered up to the last created; the
\* pipeline's reload belongs to a pass it waits for, made on the pin of that moment.
TwoAtMost == \E a, b \in 1..created : exists \subseteq {a, b}
OwnPass   == lock = "deploy" => phase \in Reconciling /\ disk = Rendered
Room      == phase = "up" => created < MaxContainers /\ (old # None => exists = {old} /\
        running = {old})
Handing   == phase \in {"toPinOld", "pinOld", "attach"} \/ (phase = "health" /\ old # None) =>
        new \in exists

Shape == TypeOK /\ TwoAtMost /\ OwnPass /\ Room /\ Handing

-----------------------------------------------------------------------------
(* While nothing interrupts a pipeline and at most one operation failed.   *)

Single(c)   == exists = {c} /\ running = {c} /\ listening = {c} /\ joined = {c}
Pair        == old \in Containers /\ new \in Containers /\ old < new /\ exists = {old, new}
Serving(c)  == c \in running /\ c \in listening /\ c \in joined
Towards(us) == disk \in us /\ served \in us
Settled(c)  == pinned = c /\ disk = c /\ served = c /\ lock = None /\ ~pending

\* Two containers, one of which serves: the state a failed handover may leave.
Left == /\ faults = 1
        /\ \E c, d \in Containers : c # d /\ exists = {c, d} /\ Serving(c) /\ Towards({Alias, c})

\* The old container and the new one, which nobody reaches yet.
Apart == Pair /\ running = exists /\ old \in listening /\ joined = {old}
\* Both can be reached by the alias.
Both  == Pair /\ running = exists /\ old \in listening /\ joined = exists

AtRest ==
  pinned = None /\ IF outcome = "twoLeft" THEN Left
                   ELSE \E c \in Containers : Single(c) /\ Towards({Alias, c})

GivingUp ==
  /\ faults = 1 /\ Pair /\ running = exists /\ Serving(old)
  /\ Towards({Alias, old, new})
  /\ new \in {pinned, disk, served} => Serving(new)

\* What is so at each program point of a service always started beside.
StartedBeside(p) ==
  \/ p = "idle" /\ AtRest
  \/ p = "up" /\ pinned = None
     /\ IF old = None THEN Left \/ \E c \in Containers : Single(c) /\ Towards({Alias, c})
        ELSE old \in Containers /\ Single(old) /\ Towards({Alias, old})
  \/ p \in {"health", "toPinOld"} /\ Apart /\ pinned = None /\ Towards({Alias, old})
  \/ p = "pinOld" /\ Apart /\ pinned = old /\ Towards({Alias, old})
  \/ p = "attach" /\ Apart /\ Settled(old)
  \/ p = "listen" /\ Both /\ Settled(old)
  \/ p = "toPinNew" /\ Both /\ Settled(old) /\ new \in listening
  \/ p = "pinNew" /\ Both /\ new \in listening /\ pinned = new /\ Towards({old, new})
  \/ p = "drain" /\ Both /\ new \in listening /\ Settled(new)
  \/ p = "remove" /\ Pair /\ running = {new} /\ listening = {new} /\ new \in joined /\
          Settled(new)
  \/ p = "toUnpin" /\ new \in Containers /\ Single(new) /\ Settled(new)
  \/ p \in {"unpin", "final"} /\ new \in Containers /\ Single(new) /\ pinned = None /\
          Towards({Alias, new})
  \/ p = "toUnpinL" /\ faults = 1 /\ Pair /\ Serving(new) /\ Settled(new)
  \/ p = "unpinL" /\ faults = 1 /\ Pair /\ Serving(new) /\ pinned = None /\ Towards({Alias, new})
  \/ p = "toGiveUp" /\ GivingUp /\ pinned \in {old, new}
  \/ p = "giveUp" /\ GivingUp /\ pinned = None
  \/ p = "discard" /\ faults = 1 /\ pinned = None /\ Towards({Alias, old})
     /\ (\E c \in Containers : exists = {old, c}) /\ Serving(old) /\ old \in Containers

\* However it is started, a service whose deployments went well has one container, or two of
\* which the proxy sends requests to one.
Alone(p) ==
  \/ p \in {"idle", "up", "health", "toUnpin", "unpin", "final"} /\ (p = "health" => old = None)
     /\ \E c \in Containers : exists = {c}
  \/ p \in {"health", "toPinOld", "pinOld"} /\ Pair /\ running = exists /\ joined \subseteq {old}
     /\ (p = "pinOld" => pinned = old)
  \/ p = "attach" /\ Pair /\ Settled(old)
  \/ p \in {"listen", "toPinNew"} /\ Pair /\ Settled(old)
  \/ p = "pinNew" /\ Pair /\ pinned = new /\ Towards({old, new})
  \/ p \in {"drain", "remove"} /\ Pair /\ Settled(new)

OneFault == interruptions = 0 /\ faults <= 1 /\ ~recreated => StartedBeside(phase)
NoFault  == interruptions = 0 /\ faults = 0 => Alone(phase)

\* The workers run what is on disk, unless a reload is under way or has failed.
InStep == interruptions = 0 /\ lock = None /\ ~pending => served = disk

HandInv == Shape /\ InStep /\ OneFault /\ NoFault

-----------------------------------------------------------------------------
(* Facts the steps share                                                   *)

LEMMA ContainerType ==
  /\ Containers \subseteq Nat \ {0} /\ None \notin Containers /\ Alias \notin Containers /\
          Alias # None
  /\ MaxContainers \in Nat /\ None \notin {"sweep", "deploy", "success", "failed", "twoLeft"}
BY Assumptions DEF Containers

LEMMA MinOf ==
  ASSUME NEW a \in Nat, NEW b \in Nat, NEW S, S # {}, S \subseteq {a, b}
  PROVE  Min(S) \in S /\ \A y \in S : Min(S) <= y
<1>1. \E x \in S : \A y \in S : x <= y
  <2>1. CASE a \in S /\ b \in S /\ a <= b
    BY <2>1
  <2>2. CASE a \in S /\ b \in S /\ b <= a
    BY <2>2
  <2>3. CASE a \notin S \/ b \notin S
    <3>1. S = {a} \/ S = {b}
      BY <2>3
    <3> QED BY <3>1
  <2> QED BY <2>1, <2>2, <2>3
<1> QED BY <1>1, Zenon DEF Min

\* A pass attaches a container of the service.
LEMMA AttachedExists == ASSUME TypeOK, TwoAtMost PROVE Attached \subseteq exists
<1>1. CASE running = {}
  BY <1>1 DEF Attached
<1>2. CASE running # {}
  <2>1. PICK a, b \in 1..created : exists \subseteq {a, b}
    BY DEF TwoAtMost
  <2>2. a \in Nat /\ b \in Nat /\ running \subseteq {a, b}
    BY <2>1, ContainerType DEF TypeOK
  <2>3. Min(running) \in running
    BY <1>2, <2>2, MinOf
  <2> QED BY <1>2, <2>3 DEF Attached, TypeOK
<1> QED BY <1>1, <1>2

\* The container to start beside is the only one there is.
LEMMA BesideAlone ==
  ASSUME TypeOK
  PROVE  /\ Beside # None => Beside \in Containers /\ exists = {Beside} /\ running = {Beside}
         /\ \A c : exists = {c} /\ running = {c} => Beside = c
         /\ \A c, d : c # d /\ exists = {c, d} => Beside = None
<1>1. ASSUME NEW c \in Containers PROVE Min({c}) = c
  BY <1>1, ContainerType, MinOf
<1>2. IsFiniteSet(exists)
  <2>1. IsFiniteSet(Containers)
    BY FS_Interval, ContainerType DEF Containers
  <2> QED BY <2>1, FS_Subset DEF TypeOK
<1>3. Cardinality(exists) = 1 <=> \E x : exists = {x}
  BY <1>2, FS_Singleton
<1>4. ASSUME NEW c, exists = {c}, running = {c} PROVE Beside = c /\ c \in Containers
  BY <1>1, <1>3, <1>4 DEF Beside, TypeOK
<1>5. ASSUME Beside # None PROVE \E c : exists = {c} /\ running = {c}
  BY <1>3, <1>5 DEF Beside
<1>6. ASSUME NEW c, NEW d, c # d, exists = {c, d} PROVE Beside = None
  BY <1>3, <1>6 DEF Beside
<1> QED BY <1>4, <1>5, <1>6

\* Where the pipeline's passes lead.
LEMMA Onward ==
  /\ Reconciling = {"pinOld", "pinNew", "giveUp", "unpin", "unpinL", "final"}
  /\ OnSuccess["pinOld"] = "attach" /\ OnError["pinOld"] = "toGiveUp"
  /\ OnSuccess["pinNew"] = "drain" /\ OnError["pinNew"] = "toGiveUp"
  /\ OnSuccess["giveUp"] = "discard" /\ OnError["giveUp"] = "discard"
  /\ OnSuccess["unpin"] = "final" /\ OnError["unpin"] = "failed"
  /\ OnSuccess["unpinL"] = "twoLeft" /\ OnError["unpinL"] = "twoLeft"
  /\ OnSuccess["final"] = "success" /\ OnError["final"] = "failed"
BY DEF Reconciling, OnSuccess, OnError

LEMMA Goes ==
  ASSUME NEW p, Goto(p)
  PROVE  /\ p \in Outcomes => phase' = "idle" /\ outcome' = p /\ old' = None /\ new' = None
         /\ p \notin Outcomes => phase' = p /\ UNCHANGED <<old, new, outcome>>
BY DEF Goto

LEMMA GoesType ==
  ASSUME TypeOK, NEW p \in (Phases \cup Outcomes) \ {"up"}, Goto(p)
  PROVE  /\ phase' \in Phases \ {"up"} /\ outcome' \in Outcomes \cup {None}
         /\ old' \in Containers \cup {None} /\ new' \in Containers \cup {None}
BY DEF Goto, TypeOK, Phases

-----------------------------------------------------------------------------
(* The shape, whatever fails and whenever                                  *)

ContainersOK ==
  /\ exists \subseteq Containers /\ running \subseteq exists
  /\ listening \subseteq running /\ joined \subseteq exists
  /\ created \in Containers /\ recreated \in BOOLEAN

LEMMA JoinShape ==
  ASSUME Shape, JoinAlias \/ UNCHANGED containers
  PROVE  /\ UNCHANGED <<exists, running, listening, created, recreated>>
         /\ ContainersOK' /\ TwoAtMost' /\ joined \subseteq joined'
<1>1. Attached \subseteq exists
  BY AttachedExists DEF Shape
<1>2. UNCHANGED <<exists, running, listening, created, recreated>>
  BY DEF JoinAlias, containers
<1>3. joined' \subseteq exists /\ joined \subseteq joined'
  BY <1>1 DEF JoinAlias, containers, Shape, TypeOK
<1> QED BY <1>2, <1>3 DEF ContainersOK, TwoAtMost, Shape, TypeOK

LEMMA StartShape ==
  ASSUME Shape, phase = "up", HalfStart
  PROVE  /\ ContainersOK' /\ TwoAtMost'
         /\ Start /\ old # None => exists' = {old, created + 1} /\ created + 1 \in Containers
<1>1. created \in Containers /\ created < MaxContainers /\ created + 1 \in Containers
      /\ exists \subseteq 1..created
  BY ContainerType DEF Shape, Room, TypeOK, TwoAtMost, Containers
<1>2. ASSUME NEW kept, NEW started, started \subseteq {created + 1},
             kept \in {{}, exists}, Created(kept, started), kept = {} \/ kept = {old}
      PROVE  ContainersOK' /\ TwoAtMost'
  <2>1. /\ created' = created + 1 /\ exists' = kept \cup {created + 1}
        /\ running' = (running \cap kept) \cup started
        /\ listening' = listening \cap kept /\ joined' = joined \cap kept
        /\ recreated' = (recreated \/ kept = {})
    BY <1>2 DEF Created
  <2>2. ContainersOK'
    BY <1>1, <1>2, <2>1 DEF ContainersOK, Shape, TypeOK
  <2>3. TwoAtMost'
    <3>1. created + 1 \in 1..created'
      BY <1>1, <2>1, ContainerType
    <3>2. CASE kept = {}
      <4>1. exists' \subseteq {created + 1, created + 1}
        BY <2>1, <3>2
      <4> QED BY <3>1, <4>1 DEF TwoAtMost
    <3>3. CASE kept = {old} /\ kept = exists
      <4>1. old \in 1..created' /\ exists' \subseteq {created + 1, old}
        BY <1>1, <2>1, <3>3, ContainerType
      <4> QED BY <3>1, <4>1 DEF TwoAtMost
    <3> QED BY <1>2, <3>2, <3>3
  <2> QED BY <2>2, <2>3
<1>3. CASE Start /\ old # None
  <2>1. Created(exists, {created + 1}) /\ exists = {old}
    BY <1>3 DEF Start, Shape, Room
  <2>2. exists' = {old, created + 1}
    BY <2>1 DEF Created
  <2> QED BY <1>1, <1>2, <2>1, <2>2
<1>4. CASE Start /\ old = None /\ Created({}, {created + 1})
  BY <1>2, <1>4
<1>5. CASE Start /\ old = None /\ ~Created({}, {created + 1})
  <2>1. PICK c \in exists :
          /\ exists' = {c} /\ running' = {c}
          /\ listening' = listening \cap {c} /\ joined' = joined \cap {c}
          /\ recreated' = TRUE /\ created' = created
    BY <1>5 DEF Start, UpInPlace
  <2>2. c \in 1..created' /\ c \in Containers
    BY <1>1, <2>1 DEF Shape, TypeOK
  <2>3. ContainersOK'
    BY <1>1, <2>1, <2>2 DEF ContainersOK
  <2>4. TwoAtMost'
    BY <2>1, <2>2 DEF TwoAtMost
  <2> QED BY <1>5, <2>3, <2>4
<1>6. ASSUME ~Start, HalfStart PROVE ContainersOK' /\ TwoAtMost'
  <2>1. CASE UNCHANGED containers
    BY <2>1 DEF containers, Shape, TypeOK, ContainersOK, TwoAtMost
  <2>2. CASE Created(IF old = None THEN {} ELSE exists, {})
    <3>1. CASE old = None
      BY <1>2, <2>2, <3>1
    <3>2. CASE old # None
      <4>1. exists = {old}
        BY <3>2 DEF Shape, Room
      <4> QED BY <1>2, <2>2, <3>2, <4>1
    <3> QED BY <3>1, <3>2
  <2> QED BY <1>6, <2>1, <2>2 DEF HalfStart
<1> QED BY <1>3, <1>4, <1>5, <1>6

LEMMA FewerShape ==
  ASSUME Shape, NEW gone, Without(gone)
  PROVE  ContainersOK' /\ TwoAtMost'
BY DEF Without, Shape, TypeOK, ContainersOK, TwoAtMost

-----------------------------------------------------------------------------

\* A step that touches no container keeps the shape of what there is.
LEMMA SameShape == ASSUME Shape, UNCHANGED containers PROVE ContainersOK' /\ TwoAtMost'
BY DEF containers, Shape, TypeOK, ContainersOK, TwoAtMost

\* The rest of the shape, once the containers are settled.
LEMMA ShapeOf ==
  ASSUME ContainersOK', TwoAtMost',
         pinned' \in Containers \cup {None},
         disk' \in Upstreams, served' \in Upstreams, pending' \in BOOLEAN,
         lock' \in {None, "sweep", "deploy"},
         phase' \in Phases,
         old' \in Containers \cup {None}, new' \in Containers \cup {None},
         outcome' \in Outcomes \cup {None},
         faults' \in 0..MaxFaults, interruptions' \in 0..MaxInterruptions,
         OwnPass', Room', Handing'
  PROVE  Shape'
<1>1. TypeOK'
  BY DEF TypeOK, ContainersOK
<1> QED BY <1>1 DEF Shape

LEMMA FaultType ==
  ASSUME TypeOK, Fault \/ UNCHANGED bounds
  PROVE  /\ faults' \in 0..MaxFaults /\ interruptions' \in 0..MaxInterruptions
         /\ faults' \in {faults, faults + 1} /\ interruptions' = interruptions
BY Assumptions DEF Fault, bounds, TypeOK

LEMMA RenderedType == ASSUME TypeOK PROVE Rendered \in Upstreams
BY DEF Rendered, TypeOK, Upstreams

\* A step of the pipeline alone: it goes where nothing is rendered, and pins.
LEMMA MoveShape ==
  ASSUME Shape, ContainersOK', TwoAtMost', UNCHANGED <<disk, served, pending, lock>>,
         phase \notin Reconciling \/ lock = None,
         pinned' \in Containers \cup {None},
         phase' \in Phases \ {"up"},
         old' \in Containers \cup {None}, new' \in Containers \cup {None},
         outcome' \in Outcomes \cup {None},
         faults' \in 0..MaxFaults, interruptions' \in 0..MaxInterruptions, Handing'
  PROVE  Shape'
<1>1. lock' # "deploy"
  BY ContainerType DEF Shape, OwnPass, TypeOK
<1>2. OwnPass' /\ Room'
  BY <1>1 DEF OwnPass, Room
<1> QED BY <1>2, ShapeOf DEF Shape, TypeOK

\* A pass of the proxy that leaves the pipeline where it is.
LEMMA PassShape ==
  ASSUME Shape, ContainersOK', TwoAtMost', exists' = exists, running' = running,
          created' = created,
         UNCHANGED <<pinned, pipeline>>,
         disk' \in Upstreams, served' \in Upstreams, pending' \in BOOLEAN,
         lock' \in {None, "sweep", "deploy"}, OwnPass',
         faults' \in 0..MaxFaults, interruptions' \in 0..MaxInterruptions
  PROVE  Shape'
<1>1. Room' /\ Handing'
  BY DEF Shape, Room, Handing, pipeline
<1> QED BY <1>1, ShapeOf DEF Shape, TypeOK, pipeline

LEMMA ReconcileParts ==
  ASSUME Shape, NEW who \in {"sweep", "deploy"}, Reconcile(who)
  PROVE  /\ ContainersOK' /\ TwoAtMost' /\ exists' = exists /\ running' = running /\
          created' = created
         /\ disk' \in Upstreams /\ disk' \in {disk, Rendered} /\ served' \in Upstreams
         /\ pending' \in BOOLEAN /\ pinned' = pinned
         /\ faults' \in 0..MaxFaults /\ interruptions' \in 0..MaxInterruptions
         /\ IF UpToDate THEN lock' = None ELSE lock' = who /\ disk' = Rendered
<1>1. JoinAlias \/ UNCHANGED containers
  BY DEF Reconcile
<1>2. Fault \/ UNCHANGED bounds
  BY DEF Reconcile
<1>3. IF UpToDate THEN lock' = None /\ disk' = disk ELSE lock' = who /\ disk' = Rendered
  BY DEF Reconcile
<1>4. pinned' = pinned /\ served' = served /\ pending' = pending
  BY DEF Reconcile
<1> QED BY <1>1, <1>2, <1>3, <1>4, JoinShape, FaultType, RenderedType DEF Shape, TypeOK

LEMMA PassesShape ==
  ASSUME Shape, Sweep \/ SweepFails \/ PipelineReconciles \/ PipelineReconcileFails
                \/ Reloaded \/ ReloadFails
  PROVE  Shape'
<1>1. CASE Sweep
  <2>1. Reconcile("sweep") /\ UNCHANGED pipeline
    BY <1>1 DEF Sweep
  <2>2. OwnPass'
    BY <2>1, ReconcileParts, ContainerType DEF OwnPass
  <2> QED BY <2>1, <2>2, ReconcileParts, PassShape
<1>2. CASE PipelineReconciles
  <2>1. phase \in Reconciling /\ Reconcile("deploy")
    BY <1>2 DEF PipelineReconciles
  <2>2. CASE UpToDate
    <3>1. Goto(OnSuccess[phase]) /\ lock = None /\ UNCHANGED <<disk, served, pending, lock>>
      BY <1>2, <2>1, <2>2 DEF PipelineReconciles, Reconcile
    <3>2. OnSuccess[phase] \in (Phases \cup Outcomes) \ {"up"}
      BY <2>1, Onward DEF Phases, Outcomes
    <3>3. Handing'
      <4>1. CASE phase = "pinOld"
        BY <2>1, <3>1, <4>1, Onward, Goes, ReconcileParts DEF Handing, Shape, Outcomes
      <4>2. CASE phase # "pinOld"
        BY <2>1, <3>1, <4>2, Onward, Goes DEF Handing, Outcomes
      <4> QED BY <4>1, <4>2
    <3> QED BY <2>1, <3>1, <3>2, <3>3, GoesType, ReconcileParts, MoveShape DEF Shape, TypeOK
  <2>3. CASE ~UpToDate
    <3>1. UNCHANGED pipeline
      BY <1>2, <2>3 DEF PipelineReconciles
    <3>2. lock' = "deploy" /\ disk' = Rendered /\ pinned' = pinned
      BY <2>1, <2>3, ReconcileParts
    <3>3. OwnPass'
      BY <2>1, <3>1, <3>2 DEF OwnPass, Rendered, pipeline
    <3> QED BY <2>1, <3>1, <3>3, ReconcileParts, PassShape
  <2> QED BY <2>2, <2>3
<1>3. CASE SweepFails
  <2>1. /\ JoinAlias \/ UNCHANGED containers
        /\ Fault /\ UNCHANGED <<pinned, proxy, pipeline>>
    BY <1>3 DEF SweepFails, ReconcileFails
  <2>2. OwnPass'
    BY <2>1 DEF OwnPass, Shape, Rendered, proxy, pipeline
  <2> QED BY <2>1, <2>2, JoinShape, FaultType, PassShape DEF Shape, TypeOK, proxy
<1>4. CASE PipelineReconcileFails
  <2>1. /\ JoinAlias \/ UNCHANGED containers
        /\ Fault /\ UNCHANGED <<pinned, proxy>> /\ lock = None
        /\ phase \in Reconciling /\ Goto(OnError[phase])
    BY <1>4 DEF PipelineReconcileFails, ReconcileFails
  <2>2. OnError[phase] \in (Phases \cup Outcomes) \ {"up"}
    BY <2>1, Onward DEF Phases, Outcomes
  <2>3. Handing'
    BY <2>1, Onward, Goes DEF Handing, Outcomes
  <2> QED BY <2>1, <2>2, <2>3, GoesType, JoinShape, FaultType, MoveShape DEF Shape, TypeOK, proxy
<1>5. ASSUME Reloaded \/ ReloadFails, lock # "deploy" PROVE Shape'
  <2>1. /\ UNCHANGED <<containers, pinned, pipeline, disk>> /\ lock' = None
        /\ served' \in {served, disk} /\ pending' \in BOOLEAN /\ (Fault \/ UNCHANGED bounds)
    BY <1>5 DEF Reloaded, ReloadFails
  <2>2. OwnPass'
    BY <2>1, ContainerType DEF OwnPass
  <2> QED BY <2>1, <2>2, SameShape, FaultType, PassShape DEF Shape, TypeOK, containers
<1>6. ASSUME Reloaded \/ ReloadFails, lock = "deploy" PROVE Shape'
  <2>1. phase \in Reconciling
    BY <1>6 DEF Shape, OwnPass
  <2>2. /\ UNCHANGED <<containers, pinned, disk>> /\ lock' = None
        /\ served' \in {served, disk} /\ pending' \in BOOLEAN /\ (Fault \/ UNCHANGED bounds)
        /\ Goto(OnSuccess[phase]) \/ Goto(OnError[phase])
    BY <1>6 DEF Reloaded, ReloadFails
  <2>3. {OnSuccess[phase], OnError[phase]} \subseteq (Phases \cup Outcomes) \ {"up"}
    BY <2>1, Onward DEF Phases, Outcomes
  <2>4. OwnPass' /\ Room'
    BY <2>2, <2>3, GoesType, ContainerType DEF OwnPass, Room, Shape
  <2>5. Handing'
    <3>1. CASE phase = "pinOld"
      BY <2>2, <3>1, Onward, Goes DEF Handing, Shape, Outcomes, containers
    <3>2. CASE phase # "pinOld"
      BY <2>1, <2>2, <3>2, Onward, Goes DEF Handing, Outcomes
    <3> QED BY <3>1, <3>2
  <2> QED BY <2>2, <2>3, <2>4, <2>5, SameShape, FaultType, GoesType, ShapeOf DEF Shape, TypeOK
<1> QED BY <1>1, <1>2, <1>3, <1>4, <1>5, <1>6
LEMMA FaultBound ==
  ASSUME TypeOK
  PROVE  Min({faults + 1, MaxFaults}) \in 0..MaxFaults
<1>1. faults + 1 \in Nat /\ MaxFaults \in Nat /\ {faults + 1, MaxFaults} # {}
  BY Assumptions DEF TypeOK
<1>2. /\ Min({faults + 1, MaxFaults}) \in {faults + 1, MaxFaults}
      /\ Min({faults + 1, MaxFaults}) <= MaxFaults
  BY <1>1, MinOf
<1> QED BY <1>1, <1>2

LEMMA PipelineShape ==
  ASSUME Shape, Deploy \/ Up \/ UpFails \/ Healthy \/ Unhealthy \/ HandOverFails
                \/ PinOld \/ PinNew \/ Unpin \/ UnpinL \/ GiveUp
                \/ Attach \/ WaitListening \/ AttachFails \/ NeverListens
                \/ StopOld \/ RemoveOld \/ RetireFails \/ Discard \/ DiscardFails
  PROVE  Shape'
<1>b. /\ faults \in 0..MaxFaults /\ interruptions \in 0..MaxInterruptions
      /\ pinned \in Containers \cup {None}
      /\ old \in Containers \cup {None} /\ new \in Containers \cup {None} /\ TypeOK
  BY DEF Shape, TypeOK
<1>1. CASE Deploy
  <2>1. /\ phase = "idle" /\ created < MaxContainers /\ phase' = "up" /\ old' \in {None, Beside}
        /\ UNCHANGED <<exists, running, listening, joined, created>>
        /\ UNCHANGED <<pinned, proxy, new, outcome, bounds>> /\ recreated' \in BOOLEAN
    BY <1>1 DEF Deploy, Shape, TypeOK
  <2>2. old' \in Containers \cup {None} /\ (old' # None => exists' = {old'} /\ running' = {old'})
    BY <1>b, <2>1, BesideAlone
  <2>4. ContainersOK' /\ TwoAtMost'
    BY <2>1 DEF Shape, TypeOK, ContainersOK, TwoAtMost
  <2>3. OwnPass' /\ Room' /\ Handing'
    <3>1. lock' # "deploy"
      BY <2>1, Onward DEF Shape, OwnPass, proxy
    <3> QED BY <2>1, <2>2, <3>1 DEF OwnPass, Room, Handing
  <2> QED BY <1>b, <2>1, <2>2, <2>3, <2>4, ShapeOf DEF TypeOK, proxy, bounds, Phases
<1>2. CASE Up
  <2>1. /\ phase = "up" /\ Start /\ HalfStart /\ new' = (IF old = None THEN None ELSE created + 1)
        /\ phase' = "health" /\ UNCHANGED <<pinned, proxy, old, outcome, bounds>>
    BY <1>2 DEF Up, HalfStart
  <2>2. new' \in Containers \cup {None} /\ Handing'
    BY <2>1, StartShape DEF Handing
  <2> QED BY <1>b, <2>1, <2>2, StartShape, Onward, MoveShape DEF TypeOK, proxy, bounds, Phases
<1>3. CASE UpFails
  <2>1. /\ phase = "up" /\ Fault /\ HalfStart
        /\ Goto(IF old = None THEN "failed" ELSE "discard") /\ UNCHANGED <<pinned, proxy>>
    BY <1>3 DEF UpFails
  <2>2. Handing'
    BY <2>1, Goes DEF Handing, Outcomes
  <2> QED BY <1>b, <2>1, <2>2, StartShape, FaultType, GoesType, Onward, MoveShape
          DEF proxy, Phases, Outcomes
<1>4. CASE Healthy
  <2>1. /\ phase = "health" /\ Goto(IF old = None THEN "final" ELSE "toPinOld")
        /\ UNCHANGED <<containers, pinned, proxy, bounds>>
    BY <1>4 DEF Healthy
  <2>2. Handing'
    BY <2>1, Goes DEF Handing, Outcomes, Shape, containers
  <2> QED BY <1>b, <2>1, <2>2, SameShape, FaultType, GoesType, Onward, MoveShape
          DEF proxy, Phases, Outcomes
<1>5. ASSUME NEW at \in {"toPinOld", "toPinNew", "toUnpin", "toUnpinL", "toGiveUp"},
             NEW target \in Containers \cup {None}, NEW then \in Reconciling,
             Pin(at, target, then), then = "pinOld" => at = "toPinOld"
      PROVE  Shape'
  <2>1. phase = at /\ pinned' = target /\ Goto(then) /\ UNCHANGED <<containers, proxy, bounds>>
    BY <1>5 DEF Pin
  <2>2. then \in (Phases \cup Outcomes) \ {"up"} /\ then \notin Outcomes
    BY Onward DEF Phases, Outcomes
  <2>3. Handing'
    BY <1>5, <2>1, <2>2, Goes, Onward DEF Handing, Shape, containers
  <2> QED BY <1>b, <2>1, <2>2, <2>3, SameShape, FaultType, GoesType, Onward, MoveShape DEF proxy
<1>6. CASE PinOld \/ PinNew \/ Unpin \/ UnpinL \/ GiveUp
  BY <1>b, <1>5, <1>6, Onward DEF PinOld, PinNew, Unpin, UnpinL, GiveUp
<1>7. CASE Attach
  <2>1. /\ phase = "attach" /\ joined' = joined \cup {new} /\ Goto("listen")
        /\ UNCHANGED <<exists, running, listening, created, recreated, pinned, proxy, bounds>>
    BY <1>7 DEF Attach
  <2>2. ContainersOK' /\ TwoAtMost'
    BY <2>1 DEF Shape, TypeOK, Handing, ContainersOK, TwoAtMost
  <2>3. Handing'
    BY <2>1, Goes DEF Handing, Outcomes
  <2> QED BY <1>b, <2>1, <2>2, <2>3, FaultType, GoesType, Onward, MoveShape DEF proxy, Phases
<1>8. CASE StopOld \/ RemoveOld \/ Discard
  <2>1. ContainersOK' /\ TwoAtMost'
    <3>1. CASE StopOld
      BY <3>1 DEF StopOld, Shape, TypeOK, ContainersOK, TwoAtMost
    <3>2. CASE RemoveOld \/ Discard
      BY <3>2, FewerShape DEF RemoveOld, Discard
    <3> QED BY <1>8, <3>1, <3>2
  <2>2. /\ phase \in {"drain", "remove", "discard"} /\ UNCHANGED <<pinned, proxy, bounds>>
        /\ \E p \in {"remove", "toUnpin", "failed"} : Goto(p)
    BY <1>8 DEF StopOld, RemoveOld, Discard
  <2>3. Handing'
    BY <2>2, Goes DEF Handing, Outcomes
  <2> QED BY <1>b, <2>1, <2>2, <2>3, FaultType, GoesType, Onward, MoveShape DEF proxy, Phases,
          Outcomes
<1>9. CASE Unhealthy \/ HandOverFails \/ WaitListening \/ AttachFails \/ NeverListens
           \/ RetireFails \/ DiscardFails
  <2>1. /\ phase \in {"health", "toPinOld", "attach", "listen", "drain", "remove", "discard"}
        /\ UNCHANGED <<containers, pinned, proxy>>
        /\ faults' \in 0..MaxFaults /\ interruptions' \in 0..MaxInterruptions
    BY <1>b, <1>9, FaultType, FaultBound DEF Unhealthy, HandOverFails, WaitListening,
            AttachFails, NeverListens,
       RetireFails, DiscardFails
  <2>2. \E p \in {"failed", "discard", "twoLeft", "toPinNew", "toGiveUp", "toUnpinL"} : Goto(p)
    BY <1>9 DEF Unhealthy, HandOverFails, WaitListening, AttachFails, NeverListens,
            RetireFails, DiscardFails
  <2>3. Handing'
    BY <2>2, Goes DEF Handing, Outcomes
  <2> QED BY <1>b, <2>1, <2>2, <2>3, SameShape, GoesType, Onward, MoveShape DEF proxy, Phases,
          Outcomes
<1> QED BY <1>1, <1>2, <1>3, <1>4, <1>6, <1>7, <1>8, <1>9

LEMMA NextShape == Shape /\ [Next]_vars => Shape'
<1> SUFFICES ASSUME Shape, [Next]_vars PROVE Shape'
  OBVIOUS
<1>1. ASSUME NEW c \in Containers, Listens(c) PROVE Shape'
  <2>1. /\ c \in running /\ listening' = listening \cup {c}
        /\ UNCHANGED <<exists, running, joined, created, recreated, pinned, proxy, pipeline,
                bounds>>
    BY <1>1 DEF Listens
  <2>2. ContainersOK' /\ TwoAtMost'
    BY <2>1 DEF Shape, TypeOK, ContainersOK, TwoAtMost
  <2>3. OwnPass'
    BY <2>1 DEF Shape, OwnPass, Rendered, proxy, pipeline
  <2> QED BY <2>1, <2>2, <2>3, PassShape DEF Shape, TypeOK, proxy, bounds
<1>2. ASSUME Dropped PROVE Shape'
  <2>1. /\ phase # "idle" /\ Interruption /\ Goto("failed") /\ LetGo
        /\ IF phase = "up" THEN HalfStart ELSE UNCHANGED containers
        /\ UNCHANGED <<pinned, disk, pending>>
    BY <1>2 DEF Dropped
  <2>2. ContainersOK' /\ TwoAtMost'
    BY <2>1, SameShape, StartShape
  <2>3. phase' = "idle" /\ lock' # "deploy" /\ lock' \in {None, "sweep"} /\ served' \in Upstreams
    BY <2>1, Goes, ContainerType DEF LetGo, Outcomes, Shape, TypeOK
  <2>4. OwnPass' /\ Room' /\ Handing'
    BY <2>3 DEF OwnPass, Room, Handing
  <2>5. faults' \in 0..MaxFaults /\ interruptions' \in 0..MaxInterruptions
    BY <2>1, Assumptions DEF Interruption, Shape, TypeOK
  <2>6. old' = None /\ new' = None /\ outcome' = "failed"
    BY <2>1, Goes DEF Outcomes
  <2> QED BY <2>1, <2>2, <2>3, <2>4, <2>5, <2>6, ShapeOf DEF Shape, TypeOK, Phases, Outcomes
<1>3. ASSUME Crash PROVE Shape'
  <2>1. /\ Interruption /\ lock' = None /\ served' \in {served, disk} /\ pinned' = None /\
          pending' = FALSE
        /\ UNCHANGED <<containers, disk>>
        /\ IF phase = "idle" THEN UNCHANGED pipeline ELSE Goto("failed")
    BY <1>3 DEF Crash
  <2>2. phase' = "idle" /\ old' \in Containers \cup {None} /\ new' \in Containers \cup {None}
        /\ outcome' \in Outcomes \cup {None}
    BY <2>1, Goes DEF Outcomes, pipeline, Shape, TypeOK
  <2>3. OwnPass' /\ Room' /\ Handing'
    BY <2>1, <2>2, ContainerType DEF OwnPass, Room, Handing
  <2>4. faults' \in 0..MaxFaults /\ interruptions' \in 0..MaxInterruptions
    BY <2>1, Assumptions DEF Interruption, Shape, TypeOK
  <2> QED BY <2>1, <2>2, <2>3, <2>4, SameShape, ShapeOf DEF Shape, TypeOK, Phases
<1>4. CASE UNCHANGED vars
  <2>1. OwnPass'
    BY <1>4 DEF vars, Shape, OwnPass, Rendered
  <2>2. UNCHANGED <<containers, pinned, proxy, pipeline, bounds>>
    BY <1>4 DEF vars, containers, proxy, pipeline, bounds
  <2> QED BY <2>1, <2>2, SameShape, PassShape DEF Shape, TypeOK, proxy, bounds, containers
<1> QED BY <1>1, <1>2, <1>3, <1>4, PassesShape, PipelineShape DEF Next, Advance

LEMMA InitShape == Init => Shape
<1> SUFFICES ASSUME Init PROVE Shape
  OBVIOUS
<1>1. 1 \in Containers /\ 0 \in 0..MaxFaults /\ 0 \in 0..MaxInterruptions
  BY Assumptions DEF Containers
<1>2. TypeOK
  BY <1>1 DEF Init, TypeOK, Upstreams, Phases
<1>3. TwoAtMost
  BY DEF Init, TwoAtMost
<1>4. OwnPass /\ Room /\ Handing
  BY ContainerType DEF Init, OwnPass, Room, Handing
<1> QED BY <1>2, <1>3, <1>4 DEF Shape

\* Every variable of the handover keeps its type, whatever fails and whenever the pipeline is
\* cut short: no step acts on a container that is gone (hand_over, reconcile).
THEOREM TypeCorrect == Spec => []TypeOK
<1>1. Shape => TypeOK
  BY DEF Shape
<1> QED BY <1>1, InitShape, NextShape, PTL DEF Spec

-----------------------------------------------------------------------------
(* One failure at most                                                     *)

Quiet == interruptions = 0 /\ faults <= 1

LEMMA StayQuiet ==
  ASSUME TypeOK, MaxFaults >= 2, [Next]_vars, Quiet'
  PROVE  /\ Quiet /\ ~Dropped /\ ~Crash
         /\ faults' = faults \/ (faults = 0 /\ faults' = 1)
         /\ NeverListens => faults = 0 /\ faults' = 1
<1>1. faults \in Nat /\ interruptions \in Nat /\ MaxFaults \in Nat
  BY Assumptions DEF TypeOK
<1>2. CASE Dropped \/ Crash
  BY <1>1, <1>2 DEF Dropped, Crash, Interruption, Quiet
<1>3. ASSUME NeverListens PROVE faults = 0 /\ faults' = 1 /\ interruptions' = interruptions
  <2>1. faults' = Min({faults + 1, MaxFaults}) /\ interruptions' = interruptions
    BY <1>3 DEF NeverListens
  <2>2. faults' \in {faults + 1, MaxFaults} /\ faults' <= faults + 1 /\ faults' <= MaxFaults
    BY <1>1, <2>1, MinOf
  <2> QED BY <1>1, <2>1, <2>2 DEF Quiet
<1>4. ASSUME ~Dropped, ~Crash, ~NeverListens
      PROVE  interruptions' = interruptions /\ faults' \in {faults, faults + 1}
  <2>1. Fault \/ UNCHANGED bounds
    <3>1. CASE Sweep \/ PipelineReconciles
      BY <3>1 DEF Sweep, PipelineReconciles, Reconcile
    <3>2. CASE SweepFails \/ PipelineReconcileFails
      BY <3>2 DEF SweepFails, PipelineReconcileFails, ReconcileFails
    <3>3. CASE Reloaded \/ ReloadFails \/ Deploy \/ (\E c \in Containers : Listens(c)) \/
            UNCHANGED vars
      BY <3>3 DEF Reloaded, ReloadFails, Deploy, Listens, vars, bounds
    <3>4. CASE UpFails \/ Unhealthy \/ HandOverFails \/ AttachFails \/ RetireFails \/ DiscardFails
      BY <3>4 DEF UpFails, Unhealthy, HandOverFails, AttachFails, RetireFails, DiscardFails
    <3>5. CASE Up \/ Healthy \/ PinOld \/ PinNew \/ Unpin \/ UnpinL \/ GiveUp
                 \/ Attach \/ WaitListening \/ StopOld \/ RemoveOld \/ Discard
      BY <3>5 DEF Up, Healthy, PinOld, PinNew, Unpin, UnpinL, GiveUp, Pin, Attach, WaitListening,
         StopOld, RemoveOld, Discard
    <3> QED BY <1>4, <3>1, <3>2, <3>3, <3>4, <3>5 DEF Next, Advance
  <2> QED BY <2>1 DEF Fault, bounds
<1> QED BY <1>1, <1>2, <1>3, <1>4 DEF Quiet

LEMMA NextInStep == Shape /\ MaxFaults >= 2 /\ InStep /\ [Next]_vars => InStep'
<1> SUFFICES ASSUME Shape, InStep, [Next]_vars, interruptions' = 0, lock' = None, ~pending'
             PROVE  served' = disk'
  BY DEF InStep
<1>i. interruptions \in Nat
  BY Assumptions DEF Shape, TypeOK
<1>0. ASSUME UNCHANGED proxy, interruptions' = interruptions PROVE served' = disk'
  BY <1>0 DEF InStep, proxy
<1>1. CASE Sweep \/ PipelineReconciles
  <2>1. PICK who \in {"sweep", "deploy"} : Reconcile(who)
    BY <1>1 DEF Sweep, PipelineReconciles
  <2>2. lock = None /\ pending' = pending /\ served' = served /\ interruptions' = interruptions
        /\ (UpToDate => disk' = disk) /\ (~UpToDate => lock' = who)
    BY <2>1 DEF Reconcile, Fault, bounds
  <2> QED BY <2>1, <2>2, ContainerType DEF InStep
<1>2. CASE SweepFails \/ PipelineReconcileFails
  BY <1>0, <1>2 DEF SweepFails, PipelineReconcileFails, ReconcileFails, Fault
<1>3. CASE Reloaded \/ ReloadFails
  BY <1>3 DEF Reloaded, ReloadFails
<1>4. CASE Dropped \/ Crash
  BY <1>i, <1>4 DEF Dropped, Crash, Interruption
<1>5. CASE Deploy \/ (\E c \in Containers : Listens(c)) \/ UNCHANGED vars
  BY <1>0, <1>5 DEF Deploy, Listens, vars, bounds, proxy
<1>6. CASE UpFails \/ Unhealthy \/ HandOverFails \/ AttachFails \/ NeverListens \/
        RetireFails \/ DiscardFails
  BY <1>0, <1>6 DEF UpFails, Unhealthy, HandOverFails, AttachFails, NeverListens, RetireFails,
          DiscardFails, Fault
<1>7. CASE Up \/ Healthy \/ PinOld \/ PinNew \/ Unpin \/ UnpinL \/ GiveUp
                 \/ Attach \/ WaitListening \/ StopOld \/ RemoveOld \/ Discard
  BY <1>0, <1>7 DEF Up, Healthy, PinOld, PinNew, Unpin, UnpinL, GiveUp, Pin, Attach,
          WaitListening,
         StopOld, RemoveOld, Discard, bounds
<1> QED BY <1>1, <1>2, <1>3, <1>4, <1>5, <1>6, <1>7 DEF Next, Advance

-----------------------------------------------------------------------------
(* Started beside                                                          *)

\* A pass leaves a service with one container as it is.
LEMMA JoinedOne ==
  ASSUME Shape, JoinAlias \/ UNCHANGED containers, NEW c \in Containers, Single(c)
  PROVE  exists' = {c} /\ running' = {c} /\ listening' = {c} /\ joined' = {c}
<1>1. /\ UNCHANGED <<exists, running, listening, created, recreated>>
      /\ joined \subseteq joined' /\ joined' \subseteq exists'
  BY JoinShape DEF ContainersOK
<1> QED BY <1>1 DEF Single

\* A pass joins the old container of two, or the only one: nothing a pass finds is undone.
LEMMA Rejoined ==
  ASSUME Shape, JoinAlias \/ UNCHANGED containers, UNCHANGED <<old, new>>
  PROVE  /\ UNCHANGED <<exists, running, listening, created, recreated>>
         /\ Apart => Apart'
         /\ Both => Both'
         /\ Pair => Pair'
         /\ \A c \in Containers : Single(c) => exists' = {c} /\ running' = {c} /\
                 listening' = {c} /\ joined' = {c}
         /\ \A c : c \in joined => c \in joined'
<1>1. /\ UNCHANGED <<exists, running, listening, created, recreated>>
      /\ joined \subseteq joined' /\ joined' \subseteq exists'
  BY JoinShape DEF ContainersOK
<1>2. ASSUME NEW c \in Containers, running = {c} PROVE joined' \subseteq joined \cup {c}
  <2>1. Min(running) = c
    BY <1>2, ContainerType, MinOf
  <2> QED BY <1>2, <2>1 DEF JoinAlias, Attached, containers
<1>3. ASSUME Apart PROVE Apart'
  <2>1. old \in Nat /\ new \in Nat /\ old < new /\ running = {old, new}
    BY <1>3, ContainerType DEF Apart, Pair
  <2>2. Min(running) = old
    BY <2>1, MinOf
  <2>3. joined' = joined
    BY <1>3, <2>1, <2>2 DEF JoinAlias, Attached, containers, Apart
  <2> QED BY <1>1, <1>3, <2>3 DEF Apart, Pair
<1>4. ASSUME Both PROVE Both'
  BY <1>1, <1>4 DEF Both, Pair
<1>5. Pair => Pair'
  BY <1>1 DEF Pair
<1> QED BY <1>1, <1>3, <1>4, <1>5, JoinedOne

\* A pass, or a reload, while the pipeline stays where it is.
LEMMA PassKeeps ==
  ASSUME Shape, StartedBeside(phase), Quiet', JoinAlias \/ UNCHANGED containers,
         UNCHANGED <<pinned, pipeline>>,
         faults' = faults \/ (faults = 0 /\ faults' = 1),
         disk' \in {disk, Rendered}, served' \in {served, disk},
         lock = None /\ UpToDate => UNCHANGED proxy
  PROVE  StartedBeside(phase)'
<1>u. UNCHANGED <<pinned, phase, old, new, outcome, exists, running, listening, created,
        recreated>>
  BY Rejoined DEF pipeline
<1>f. faults = 1 => faults' = 1
  BY DEF Quiet
<1>j. \A c : Serving(c) => c \in running' /\ c \in listening' /\ c \in joined'
  BY <1>u, Rejoined DEF Serving
<1>n. pinned = None => Rendered = Alias
  BY DEF Rendered
<1>o. \A c \in Containers : pinned = c => Rendered = c
  BY ContainerType DEF Rendered
<1>t. \A us : Towards(us) /\ Rendered \in us => disk' \in us /\ served' \in us
  BY DEF Towards
<1>s. ASSUME NEW c \in Containers, Settled(c)
      PROVE  pinned' = c /\ disk' = c /\ served' = c /\ lock' = None /\ ~pending'
  <2>1. lock = None /\ UpToDate
    BY <1>o, <1>s DEF Settled, UpToDate
  <2> QED BY <1>u, <1>s, <2>1 DEF Settled, proxy
<1>l. ASSUME Left, pinned = None PROVE Left'
  <2>1. PICK c \in Containers, d \in Containers :
          c # d /\ exists = {c, d} /\ Serving(c) /\ Towards({Alias, c})
    BY <1>l DEF Left
  <2>2. Serving(c)' /\ Towards({Alias, c})'
    BY <1>j, <1>n, <1>l, <1>t, <2>1 DEF Serving, Towards
  <2> QED BY <1>f, <1>u, <1>l, <2>1, <2>2 DEF Left
<1>m. ASSUME pinned = None, \E c \in Containers : Single(c) /\ Towards({Alias, c})
      PROVE  \E c \in Containers : Single(c)' /\ Towards({Alias, c})'
  <2>1. PICK c \in Containers : Single(c) /\ Towards({Alias, c})
    BY <1>m
  <2>2. Single(c)' /\ Towards({Alias, c})'
    BY <1>u, <1>n, <1>t, <1>m, <2>1, Rejoined DEF Single, Towards
  <2> QED BY <2>2
<1>1. CASE phase = "idle" /\ AtRest
  <2>1. CASE outcome = "twoLeft"
    BY <1>u, <1>l, <1>1, <2>1 DEF StartedBeside, AtRest
  <2>2. CASE outcome # "twoLeft"
    <3>1. \E c \in Containers : Single(c)' /\ Towards({Alias, c})'
      BY <1>m, <1>1, <2>2 DEF AtRest
    <3>2. AtRest'
      BY <1>u, <1>1, <2>2, <3>1 DEF AtRest, Containers
    <3> QED BY <1>u, <1>1, <3>2 DEF StartedBeside
  <2> QED BY <2>1, <2>2
<1>2. CASE phase = "up" /\ pinned = None /\ old = None
           /\ (Left \/ \E c \in Containers : Single(c) /\ Towards({Alias, c}))
  <2>1. Left' \/ \E c \in Containers : Single(c)' /\ Towards({Alias, c})'
    BY <1>l, <1>m, <1>2
  <2> QED BY <1>u, <1>2, <2>1 DEF StartedBeside, Containers
<1>3. CASE phase = "up" /\ pinned = None /\ old # None /\ old \in Containers /\ Single(old) /\
        Towards({Alias, old})
  <2>1. Single(old)' /\ Towards({Alias, old})'
    BY <1>u, <1>n, <1>t, <1>3, Rejoined DEF Single, Towards
  <2> QED BY <1>u, <1>3, <2>1 DEF StartedBeside
<1>4. CASE phase \in {"health", "toPinOld"} /\ Apart /\ pinned = None /\ Towards({Alias, old})
  <2>1. Apart' /\ Towards({Alias, old})'
    BY <1>u, <1>n, <1>t, <1>4, Rejoined DEF Towards
  <2> QED BY <1>u, <1>4, <2>1 DEF StartedBeside
<1>5. CASE phase = "pinOld" /\ Apart /\ pinned = old /\ Towards({Alias, old})
  <2>1. Apart' /\ Towards({Alias, old})'
    BY <1>u, <1>o, <1>t, <1>5, Rejoined DEF Towards, Apart, Pair
  <2> QED BY <1>u, <1>5, <2>1 DEF StartedBeside
<1>6. CASE phase = "attach" /\ Apart /\ Settled(old)
  <2>1. Apart' /\ Settled(old)'
    BY <1>u, <1>s, <1>6, Rejoined DEF Settled, Apart, Pair
  <2> QED BY <1>u, <1>6, <2>1 DEF StartedBeside
<1>7. CASE phase = "listen" /\ Both /\ Settled(old)
  <2>1. Both' /\ Settled(old)'
    BY <1>u, <1>s, <1>7, Rejoined DEF Settled, Both, Pair
  <2> QED BY <1>u, <1>7, <2>1 DEF StartedBeside
<1>8. CASE phase = "toPinNew" /\ Both /\ Settled(old) /\ new \in listening
  <2>1. Both' /\ Settled(old)'
    BY <1>u, <1>s, <1>8, Rejoined DEF Settled, Both, Pair
  <2> QED BY <1>u, <1>8, <2>1 DEF StartedBeside
<1>9. CASE phase = "pinNew" /\ Both /\ new \in listening /\ pinned = new /\ Towards({old, new})
  <2>1. Both' /\ Towards({old, new})'
    BY <1>u, <1>o, <1>t, <1>9, Rejoined DEF Towards, Both, Pair
  <2> QED BY <1>u, <1>9, <2>1 DEF StartedBeside
<1>10. CASE phase = "drain" /\ Both /\ new \in listening /\ Settled(new)
  <2>1. Both' /\ Settled(new)'
    BY <1>u, <1>s, <1>10, Rejoined DEF Settled, Both, Pair
  <2> QED BY <1>u, <1>10, <2>1 DEF StartedBeside
<1>11. CASE phase = "remove" /\ Pair /\ running = {new} /\ listening = {new} /\
        new \in joined /\ Settled(new)
  <2>1. Pair' /\ Settled(new)' /\ new \in joined'
    BY <1>u, <1>s, <1>11, Rejoined DEF Settled, Pair
  <2> QED BY <1>u, <1>11, <2>1 DEF StartedBeside
<1>12. CASE phase = "toUnpin" /\ new \in Containers /\ Single(new) /\ Settled(new)
  <2>1. Single(new)' /\ Settled(new)'
    BY <1>u, <1>s, <1>12, Rejoined DEF Settled, Single
  <2> QED BY <1>u, <1>12, <2>1 DEF StartedBeside
<1>13. CASE phase \in {"unpin", "final"} /\ new \in Containers /\ Single(new)
            /\ pinned = None /\ Towards({Alias, new})
  <2>1. Single(new)' /\ Towards({Alias, new})'
    BY <1>u, <1>n, <1>t, <1>13, Rejoined DEF Towards, Single
  <2> QED BY <1>u, <1>13, <2>1 DEF StartedBeside
<1>14. CASE phase = "toUnpinL" /\ faults = 1 /\ Pair /\ Serving(new) /\ Settled(new)
  <2>1. Pair' /\ Settled(new)' /\ Serving(new)'
    BY <1>u, <1>s, <1>j, <1>14, Rejoined DEF Settled, Pair, Serving
  <2> QED BY <1>u, <1>f, <1>14, <2>1 DEF StartedBeside
<1>15. CASE phase = "unpinL" /\ faults = 1 /\ Pair /\ Serving(new) /\ pinned = None /\
        Towards({Alias, new})
  <2>1. Pair' /\ Towards({Alias, new})' /\ Serving(new)'
    BY <1>u, <1>n, <1>t, <1>j, <1>15, Rejoined DEF Towards, Pair, Serving
  <2> QED BY <1>u, <1>f, <1>15, <2>1 DEF StartedBeside
<1>16. ASSUME GivingUp, pinned \in {None, old, new} PROVE GivingUp'
  <2>1. Rendered \in {Alias, old, new}
    BY <1>n, <1>o, <1>16 DEF GivingUp, Pair
  <2>2. Towards({Alias, old, new})'
    BY <1>u, <1>t, <1>16, <2>1 DEF GivingUp, Towards
  <2>3. new \in {pinned', disk', served'} => Serving(new)
    <3>1. Rendered = new => pinned = new
      BY <1>n, <1>o, <1>16, ContainerType DEF GivingUp, Pair, Rendered
    <3> QED BY <1>u, <1>16, <3>1 DEF GivingUp
  <2>4. Pair' /\ Serving(old)'
    BY <1>u, <1>j, <1>16, Rejoined DEF GivingUp, Serving
  <2>5. new \in {pinned', disk', served'} => Serving(new)'
    BY <1>u, <1>j, <2>3 DEF Serving
  <2> QED BY <1>u, <1>f, <1>16, <2>2, <2>4, <2>5 DEF GivingUp
<1>17. CASE phase = "toGiveUp" /\ GivingUp /\ pinned \in {old, new}
  BY <1>u, <1>16, <1>17 DEF StartedBeside
<1>18. CASE phase = "giveUp" /\ GivingUp /\ pinned = None
  BY <1>u, <1>16, <1>18 DEF StartedBeside
<1>19. CASE phase = "discard" /\ faults = 1 /\ pinned = None /\ Towards({Alias, old})
            /\ (\E c \in Containers : exists = {old, c}) /\ Serving(old) /\ old \in Containers
  <2>1. Serving(old)' /\ Towards({Alias, old})'
    BY <1>u, <1>n, <1>t, <1>j, <1>19 DEF Towards, Serving
  <2> QED BY <1>u, <1>f, <1>19, <2>1 DEF StartedBeside
<1> QED BY <1>1, <1>2, <1>3, <1>4, <1>5, <1>6, <1>7, <1>8, <1>9, <1>10, <1>11, <1>12, <1>13,
        <1>14,
           <1>15, <1>17, <1>18, <1>19 DEF StartedBeside

\* A pass that succeeds puts on disk, and in force, what the pipeline pinned.
LEMMA PassDone ==
  ASSUME Shape, StartedBeside(phase), Quiet', phase \in Reconciling, Goto(OnSuccess[phase]),
         JoinAlias \/ UNCHANGED containers, pinned' = pinned,
         faults' = faults \/ (faults = 0 /\ faults' = 1),
         disk' = Rendered, served' = Rendered, lock' = None, ~pending'
  PROVE  StartedBeside(phase)'
<1>u. UNCHANGED <<exists, running, listening, created, recreated>> /\ UNCHANGED pinned
  BY JoinShape
<1>f. faults = 1 => faults' = 1
  BY DEF Quiet
<1>n. ASSUME pinned = None PROVE pinned' = None /\ \A c : Towards({Alias, c})'
  BY <1>n DEF Rendered, Towards
<1>o. ASSUME NEW c \in Containers, pinned = c PROVE pinned' = c /\ disk' = c /\ served' = c /\
        lock' = None /\ ~pending'
  BY <1>o, ContainerType DEF Rendered
<1>j. \A c : Serving(c) => c \in running' /\ c \in listening' /\ c \in joined'
  BY <1>u, JoinShape DEF Serving
<1>1. CASE phase = "pinOld" /\ Apart /\ pinned = old
  <2>1. phase' = "attach" /\ UNCHANGED <<old, new>>
    BY <1>1, Onward, Goes DEF Outcomes
  <2>2. Apart'
    BY <1>1, <2>1, Rejoined
  <2>3. Settled(old)'
    BY <1>1, <1>o, <2>1 DEF Settled, Apart, Pair
  <2> QED BY <2>1, <2>2, <2>3 DEF StartedBeside
<1>2. CASE phase = "pinNew" /\ Both /\ new \in listening /\ pinned = new
  <2>1. phase' = "drain" /\ UNCHANGED <<old, new>>
    BY <1>2, Onward, Goes DEF Outcomes
  <2>2. Both'
    BY <1>2, <2>1, Rejoined
  <2>3. Settled(new)'
    BY <1>2, <1>o, <2>1 DEF Settled, Both, Pair
  <2> QED BY <1>u, <1>2, <2>1, <2>2, <2>3 DEF StartedBeside
<1>3. CASE phase = "giveUp" /\ GivingUp /\ pinned = None
  <2>1. phase' = "discard" /\ UNCHANGED <<old, new>>
    BY <1>3, Onward, Goes DEF Outcomes
  <2>2. /\ Serving(old)' /\ Towards({Alias, old})' /\ old \in Containers'
        /\ exists' = {old', new'} /\ new' \in Containers'
    BY <1>u, <1>j, <1>n, <1>3, <2>1 DEF GivingUp, Serving, Pair, Containers
  <2>3. (\E c \in Containers : exists = {old, c})'
    BY <2>1, <2>2 DEF Containers
  <2>4. faults' = 1 /\ pinned' = None /\ old' \in Containers
    BY <1>f, <1>n, <1>3, <2>1 DEF GivingUp, Pair
  <2> QED BY <2>1, <2>2, <2>3, <2>4 DEF StartedBeside
<1>4. CASE phase \in {"unpin", "final"} /\ new \in Containers /\ Single(new) /\ pinned = None
  <2>1. exists' = {new} /\ running' = {new} /\ listening' = {new} /\ joined' = {new}
    BY <1>4, JoinedOne
  <2>2. CASE phase = "unpin"
    <3>1. phase' = "final" /\ UNCHANGED <<old, new>>
      BY <2>2, Onward, Goes DEF Outcomes
    <3>2. Single(new)' /\ Towards({Alias, new})'
      BY <1>n, <1>4, <2>1, <3>1 DEF Single, Towards
    <3> QED BY <1>n, <1>4, <3>1, <3>2 DEF StartedBeside
  <2>3. CASE phase = "final"
    <3>1. phase' = "idle" /\ outcome' = "success"
      BY <2>3, Onward, Goes DEF Outcomes
    <3> DEFINE c == new
    <3>2. c \in Containers /\ disk' = Alias /\ served' = Alias /\ pinned' = None
      BY <1>4 DEF Rendered
    <3>3. exists' = {c} /\ running' = {c} /\ listening' = {c} /\ joined' = {c}
      BY <2>1
    <3> HIDE DEF c
    <3>4. \E d \in Containers : Single(d)' /\ Towards({Alias, d})'
      BY <3>2, <3>3 DEF Single, Towards
    <3>5. AtRest'
      BY <3>1, <3>2, <3>4, ContainerType DEF AtRest, Containers
    <3> QED BY <3>1, <3>5 DEF StartedBeside
  <2> QED BY <1>4, <2>2, <2>3
<1>5. CASE phase = "unpinL" /\ faults = 1 /\ Pair /\ Serving(new) /\ pinned = None
  <2>1. phase' = "idle" /\ outcome' = "twoLeft"
    BY <1>5, Onward, Goes DEF Outcomes
  <2> DEFINE c == new  d == old
  <2>2. c \in Containers /\ d \in Containers /\ c # d /\ exists' = {c, d}
    BY <1>u, <1>5, ContainerType DEF Pair
  <2>3. c \in running' /\ c \in listening' /\ c \in joined' /\ disk' = Alias /\ served' = Alias
    BY <1>j, <1>5 DEF Rendered
  <2> HIDE DEF c, d
  <2>4. Left'
    BY <1>f, <1>5, <2>2, <2>3 DEF Left, Serving, Towards, Containers
  <2> QED BY <1>n, <1>5, <2>1, <2>4 DEF StartedBeside, AtRest
<1> QED BY <1>1, <1>2, <1>3, <1>4, <1>5, Onward DEF StartedBeside

\* Two containers that are both served by, or about to be: enough to give up from.
LEMMA ToGiveUp ==
  ASSUME phase' = "toGiveUp", UNCHANGED <<old, new, pinned, exists, running, listening>>,
          faults' = 1,
         disk' = disk, served' \in {served, disk}, joined \subseteq joined',
         \/ Apart /\ pinned = old /\ Towards({Alias, old})
         \/ Both /\ Settled(old)
         \/ Both /\ pinned \in {old, new} /\ new \in listening /\ Towards({old, new})
  PROVE  StartedBeside(phase)'
<1>1. Pair /\ running = exists /\ Serving(old) /\ pinned \in {old, new} /\ Towards({Alias, old,
        new})
  BY DEF Apart, Both, Pair, Serving, Towards, Settled
<1>2. new \in {pinned, disk, served} => Serving(new)
  BY Assumptions DEF Apart, Both, Pair, Serving, Towards, Settled, Containers
<1>3. Pair' /\ running' = exists' /\ Serving(old)'
  BY <1>1 DEF Pair, Serving
<1>4. Towards({Alias, old, new})' /\ (new \in {pinned, disk, served} => Serving(new))'
  BY <1>1, <1>2 DEF Serving, Towards
<1> QED BY <1>1, <1>3, <1>4 DEF StartedBeside, GivingUp

\* A pass that fails, or whose reload does, is the one failure.
LEMMA PassFailed ==
  ASSUME Shape, StartedBeside(phase), Quiet', phase \in Reconciling, Goto(OnError[phase]),
         JoinAlias \/ UNCHANGED containers, UNCHANGED <<pinned, disk>>,
         faults = 0 /\ faults' = 1, served' \in {served, disk}
  PROVE  StartedBeside(phase)'
<1>u. UNCHANGED <<exists, running, listening, created, recreated>> /\ joined \subseteq joined'
  BY JoinShape
<1>1. CASE phase = "pinOld" /\ Apart /\ pinned = old /\ Towards({Alias, old})
  <2>1. phase' = "toGiveUp" /\ UNCHANGED <<old, new>>
    BY <1>1, Onward, Goes DEF Outcomes
  <2>2. UNCHANGED <<old, new, pinned, exists, running, listening>>
    BY <1>u, <2>1
  <2> QED BY <1>u, <1>1, <2>1, <2>2, ToGiveUp, Zenon
<1>2. CASE phase = "pinNew" /\ Both /\ new \in listening /\ pinned = new /\ Towards({old, new})
  <2>1. phase' = "toGiveUp" /\ UNCHANGED <<old, new>>
    BY <1>2, Onward, Goes DEF Outcomes
  <2>2. UNCHANGED <<old, new, pinned, exists, running, listening>> /\ pinned \in {old, new}
    BY <1>u, <1>2, <2>1
  <2> QED BY <1>u, <1>2, <2>1, <2>2, ToGiveUp, Zenon
<1>3. CASE phase \in {"unpin", "final"} /\ new \in Containers /\ Single(new) /\
        pinned = None /\ Towards({Alias, new})
  <2>1. phase' = "idle" /\ outcome' = "failed" /\ pinned' = None
    BY <1>3, Onward, Goes DEF Outcomes
  <2> DEFINE c == new
  <2>2. exists' = {c} /\ running' = {c} /\ listening' = {c} /\ joined' = {c}
    BY <1>3, JoinedOne
  <2>3. c \in Containers /\ disk' \in {Alias, c} /\ served' \in {Alias, c}
    BY <1>3 DEF Towards
  <2> HIDE DEF c
  <2>4. \E d \in Containers : Single(d)' /\ Towards({Alias, d})'
    BY <2>2, <2>3 DEF Single, Towards
  <2>5. AtRest'
    BY <2>1, <2>4 DEF AtRest, Containers
  <2> QED BY <2>1, <2>5 DEF StartedBeside
<1>4. phase # "giveUp" /\ phase # "unpinL"
  BY DEF StartedBeside, GivingUp
<1> QED BY <1>1, <1>2, <1>3, <1>4, Onward DEF StartedBeside

\* A container that opens its port takes nothing from anyone.
LEMMA ListensKeeps ==
  ASSUME Shape, StartedBeside(phase), NEW c \in Containers, Listens(c)
  PROVE  StartedBeside(phase)'
<1>1. /\ c \in running \ listening /\ listening' = listening \cup {c}
      /\ UNCHANGED <<exists, running, joined, created, recreated, pinned, disk, served,
              pending, lock>>
      /\ UNCHANGED <<phase, old, new, outcome, faults, interruptions>>
  BY DEF Listens, proxy, pipeline, bounds
<1>2. ASSUME NEW d, Single(d) PROVE FALSE
  BY <1>1, <1>2 DEF Single
<1>3. ASSUME NEW d, Serving(d) PROVE Serving(d)'
  BY <1>1, <1>3 DEF Serving
<1>4. ASSUME NEW d, Settled(d) PROVE Settled(d)'
  BY <1>1, <1>4 DEF Settled
<1>5. ASSUME NEW us, Towards(us) PROVE Towards(us)'
  BY <1>1, <1>5 DEF Towards
<1>6. ASSUME Pair PROVE Pair'
  BY <1>1, <1>6 DEF Pair
<1>7. ASSUME Apart PROVE Apart'
  BY <1>1, <1>7 DEF Apart, Pair
<1>8. ASSUME Both PROVE Both'
  BY <1>1, <1>8 DEF Both, Pair
<1>9. ASSUME Left PROVE Left'
  <2>1. PICK a \in Containers, b \in Containers : a # b /\ exists = {a, b} /\ Serving(a) /\
          Towards({Alias, a})
    BY <1>9 DEF Left
  <2>2. a # b /\ exists' = {a, b} /\ Serving(a)' /\ Towards({Alias, a})'
    BY <1>1, <2>1 DEF Serving, Towards
  <2> QED BY <1>1, <1>9, <2>1, <2>2 DEF Left
<1>10. ASSUME GivingUp PROVE GivingUp'
  <2>1. Pair' /\ Serving(old)' /\ Towards({Alias, old, new})'
    BY <1>1, <1>10 DEF GivingUp, Pair, Serving, Towards
  <2>2. (new \in {pinned, disk, served} => Serving(new))'
    BY <1>1, <1>10 DEF GivingUp, Serving
  <2> QED BY <1>1, <1>10, <2>1, <2>2 DEF GivingUp
<1>11. CASE phase \in {"idle", "up"}
  <2>1. CASE Left /\ pinned = None
    <3>1. Left'
      BY <1>9, <2>1
    <3> QED BY <1>1, <1>2, <1>11, <2>1, <3>1 DEF StartedBeside, AtRest
  <2> QED BY <1>2, <1>11, <2>1 DEF StartedBeside, AtRest
<1>12. CASE phase \in {"health", "toPinOld", "pinOld"}
  <2>1. Apart' /\ Towards({Alias, old})'
    BY <1>1, <1>7, <1>12 DEF StartedBeside, Towards
  <2> QED BY <1>1, <1>12, <2>1 DEF StartedBeside
<1>13. CASE phase = "attach"
  <2>1. Apart' /\ Settled(old)'
    BY <1>1, <1>7, <1>13 DEF StartedBeside, Settled
  <2> QED BY <1>1, <1>13, <2>1 DEF StartedBeside
<1>14. CASE phase \in {"listen", "toPinNew"}
  <2>1. Both' /\ Settled(old)'
    BY <1>1, <1>8, <1>14 DEF StartedBeside, Settled
  <2> QED BY <1>1, <1>14, <2>1 DEF StartedBeside
<1>15. CASE phase = "pinNew"
  <2>1. Both' /\ Towards({old, new})'
    BY <1>1, <1>8, <1>15 DEF StartedBeside, Towards
  <2> QED BY <1>1, <1>15, <2>1 DEF StartedBeside
<1>16. CASE phase = "drain"
  <2>1. Both' /\ Settled(new)'
    BY <1>1, <1>8, <1>16 DEF StartedBeside, Settled
  <2> QED BY <1>1, <1>16, <2>1 DEF StartedBeside
<1>17. CASE phase \in {"remove", "toUnpin", "unpin", "final"}
  BY <1>1, <1>2, <1>17 DEF StartedBeside
<1>18. CASE phase = "toUnpinL"
  <2>1. Pair' /\ Serving(new)' /\ Settled(new)'
    BY <1>1, <1>6, <1>18 DEF StartedBeside, Settled, Serving
  <2> QED BY <1>1, <1>18, <2>1 DEF StartedBeside
<1>19. CASE phase = "unpinL"
  <2>1. Pair' /\ Serving(new)' /\ Towards({Alias, new})'
    BY <1>1, <1>6, <1>19 DEF StartedBeside, Towards, Serving
  <2> QED BY <1>1, <1>19, <2>1 DEF StartedBeside
<1>20. CASE phase \in {"toGiveUp", "giveUp"}
  BY <1>1, <1>10, <1>20 DEF StartedBeside
<1>21. CASE phase = "discard"
  <2>1. Serving(old)' /\ Towards({Alias, old})'
    BY <1>1, <1>21 DEF StartedBeside, Towards, Serving
  <2> QED BY <1>1, <1>21, <2>1 DEF StartedBeside
<1> QED BY <1>11, <1>12, <1>13, <1>14, <1>15, <1>16, <1>17, <1>18, <1>19, <1>20,
        <1>21 DEF StartedBeside

\* A deployment that begins on a whole service, or on what the one failure left.
LEMMA DeployKeeps ==
  ASSUME Shape, ~recreated => StartedBeside(phase), Quiet, Quiet', Deploy, ~recreated'
  PROVE  StartedBeside(phase)'
<1>c. Containers \subseteq Nat /\ None \notin Containers
  BY ContainerType
<1>1. /\ phase = "idle" /\ phase' = "up" /\ old' \in {None, Beside}
      /\ UNCHANGED <<exists, running, listening, joined, pinned, disk, served, outcome, faults>>
      /\ (~recreated \/ Whole)
  BY DEF Deploy, proxy, bounds
<1>2. CASE Whole
  <2>1. /\ Beside \in Containers /\ exists = {Beside} /\ running = {Beside} /\ Beside # None
        /\ listening = {Beside} /\ joined = {Beside} /\ pinned = None
        /\ disk \in {Alias, Beside} /\ served \in {Alias, Beside}
    BY <1>2, BesideAlone DEF Whole, Shape
  <2>2. PICK c \in Containers : c = Beside
    BY <2>1
  <2>3. Single(c)' /\ Towards({Alias, c})' /\ old' \in {None, c} /\ pinned' = None
    BY <1>1, <2>1, <2>2 DEF Single, Towards
  <2>4. (\E d \in Containers : Single(d) /\ Towards({Alias, d}))'
    BY <2>3 DEF Containers
  <2>5. old' # None => old' \in Containers /\ Single(old)' /\ Towards({Alias, old})'
    <3>1. old' = c => Single(old)' /\ Towards({Alias, old})'
      BY <2>3 DEF Single, Towards
    <3> QED BY <2>3, <3>1
  <2> QED BY <1>1, <2>3, <2>4, <2>5 DEF StartedBeside, Containers
<1>3. CASE ~Whole
  <2>1. AtRest
    BY <1>1, <1>3 DEF StartedBeside
  <2>2. CASE Left
    <3>1. PICK c \in Containers, d \in Containers :
            c # d /\ exists = {c, d} /\ Serving(c) /\ Towards({Alias, c})
      BY <2>2 DEF Left
    <3>2. old' = None
      BY <1>1, <3>1, BesideAlone DEF Shape
    <3>3. Serving(c)' /\ Towards({Alias, c})' /\ exists' = {c, d} /\ faults' = 1
      BY <1>1, <2>2, <3>1 DEF Left, Serving, Towards
    <3>4. Left'
      BY <3>1, <3>3 DEF Left, Containers
    <3> QED BY <1>1, <2>1, <3>2, <3>4 DEF StartedBeside, AtRest
  <2>3. CASE ~Left
    <3>1. PICK c \in Containers : Single(c) /\ Towards({Alias, c})
      BY <2>1, <2>3 DEF AtRest
    <3>2. Beside = c
      BY <3>1, BesideAlone DEF Shape, Single
    <3>3. pinned = None
      BY <2>1 DEF AtRest
    <3>4. Whole
      BY <1>c, <3>1, <3>2, <3>3 DEF Whole, Single, Towards
    <3> QED BY <1>3, <3>4
  <2> QED BY <2>2, <2>3
<1> QED BY <1>2, <1>3

\* Compose starts the new container beside the old one, or in its place.
LEMMA StartKeeps ==
  ASSUME Shape, ~recreated, StartedBeside(phase), Quiet, Quiet', Up \/ UpFails, ~recreated'
  PROVE  StartedBeside(phase)'
<1>c. Containers \subseteq Nat /\ None \notin Containers
  BY ContainerType
<1>2. ASSUME Start, old = None PROVE FALSE
  BY <1>2 DEF Start, UpInPlace, Created
<1>3. ASSUME phase = "up", old # None
      PROVE  old \in Containers /\ pinned = None /\ Single(old) /\ Towards({Alias, old})
  BY <1>3 DEF StartedBeside
<1>4. ASSUME phase = "up", old # None, NEW started, Created(exists, started)
      PROVE  /\ exists' = {old, created + 1} /\ running' = {old} \cup started
             /\ listening' = {old} /\ joined' = {old}
             /\ created + 1 \in Containers /\ old < created + 1
  <2>1. exists = {old} /\ Single(old) /\ exists \subseteq 1..created /\ created \in Nat
    BY <1>c, <1>3, <1>4 DEF Single, Shape, TwoAtMost, TypeOK
  <2>2. /\ exists' = exists \cup {created + 1} /\ running' = (running \cap exists) \cup started
        /\ listening' = listening \cap exists /\ joined' = joined \cap exists
    BY <1>4 DEF Created
  <2>3. created + 1 \in Containers
    BY <1>4, ContainerType DEF Shape, Room, TypeOK, Containers
  <2> QED BY <2>1, <2>2, <2>3 DEF Single
<1>5. CASE Up
  <2>1. /\ phase = "up" /\ phase' = "health" /\ Start
        /\ UNCHANGED <<pinned, disk, served, old, outcome, faults>>
        /\ new' = IF old = None THEN None ELSE created + 1
    BY <1>5 DEF Up, proxy, bounds
  <2>2. old # None /\ Created(exists, {created + 1})
    BY <1>2, <2>1 DEF Start
  <2>3. new' = created + 1 /\ old' = old
    BY <2>1, <2>2
  <2>4. Apart'
    BY <1>3, <1>4, <2>1, <2>2, <2>3 DEF Apart, Pair, Containers
  <2>5. Towards({Alias, old})'
    BY <1>3, <2>1, <2>2 DEF Towards
  <2> QED BY <1>3, <2>1, <2>2, <2>4, <2>5 DEF StartedBeside
<1>6. CASE UpFails
  <2>1. /\ phase = "up" /\ Fault /\ HalfStart
        /\ IF old = None THEN Goto("failed") ELSE Goto("discard")
        /\ UNCHANGED <<pinned, disk, served>>
    BY <1>6 DEF UpFails, proxy
  <2>2. faults = 0 /\ faults' = 1
    BY <2>1 DEF Fault, Quiet, Shape, TypeOK
  <2>3. CASE old = None
    <3>1. UNCHANGED containers
      BY <1>2, <2>1, <2>3 DEF HalfStart, Created
    <3>2. phase' = "idle" /\ outcome' = "failed"
      BY <2>1, <2>3, Goes DEF Outcomes
    <3>3. pinned' = None /\ \E c \in Containers : Single(c) /\ Towards({Alias, c})
      BY <2>1, <2>2, <2>3 DEF StartedBeside, Left
    <3>4. (\E c \in Containers : Single(c) /\ Towards({Alias, c}))'
      BY <2>1, <3>1, <3>3 DEF Single, Towards, containers, Containers
    <3>5. AtRest'
      BY <3>2, <3>3, <3>4 DEF AtRest
    <3> QED BY <3>2, <3>5 DEF StartedBeside
  <2>4. CASE old # None
    <3>1. phase' = "discard" /\ old' = old
      BY <2>1, <2>4, Goes DEF Outcomes
    <3>2. UNCHANGED containers \/ \E started : Created(exists, started)
      BY <2>1, <2>4 DEF HalfStart, Start
    <3>3. \E c \in Containers : exists' = {old, c}
      BY <1>3, <1>4, <2>1, <2>4, <3>2 DEF Single, containers
    <3>4. Serving(old)' /\ Towards({Alias, old})'
      BY <1>3, <1>4, <2>1, <2>4, <3>1, <3>2 DEF Single, containers, Serving, Towards
    <3> QED BY <1>3, <2>1, <2>2, <2>4, <3>1, <3>3, <3>4 DEF StartedBeside, Containers
  <2> QED BY <2>3, <2>4
<1> QED BY <1>5, <1>6

\* From a healthy container to the reload that sends it the traffic.
LEMMA MoveKeeps ==
  ASSUME Shape, StartedBeside(phase), Quiet, Quiet', NeverListens => faults' = 1,
         \/ Healthy \/ Unhealthy \/ HandOverFails \/ PinOld \/ Attach \/ WaitListening
         \/ AttachFails \/ NeverListens \/ PinNew
  PROVE  StartedBeside(phase)' /\ recreated' = recreated
<1>c. Containers \subseteq Nat /\ None \notin Containers
  BY ContainerType
<1>f. Fault => faults = 0 /\ faults' = 1
  BY DEF Fault, Quiet, Shape, TypeOK
<1>g. AttachFails \/ NeverListens => faults' = 1
  BY <1>f DEF AttachFails
<1>1. ASSUME phase \in {"health", "toPinOld"}
      PROVE  Apart /\ pinned = None /\ Towards({Alias, old}) /\ old # None
  BY <1>c, <1>1 DEF StartedBeside, Apart, Pair
<1>2. CASE Healthy
  <2>1. /\ phase = "health" /\ Goto(IF old = None THEN "final" ELSE "toPinOld")
        /\ UNCHANGED <<containers, pinned, proxy, bounds>>
    BY <1>2 DEF Healthy
  <2>2. phase' = "toPinOld" /\ UNCHANGED <<old, new>>
    BY <1>1, <2>1, Goes DEF Outcomes
  <2>3. Apart' /\ Towards({Alias, old})'
    BY <1>1, <2>1, <2>2 DEF Apart, Pair, Towards, containers, proxy
  <2> QED BY <1>1, <2>1, <2>2, <2>3 DEF StartedBeside, containers
<1>3. CASE Unhealthy
  <2>1. /\ phase = "health" /\ Fault /\ Goto(IF old = None THEN "failed" ELSE "discard")
        /\ UNCHANGED <<containers, pinned, proxy>>
    BY <1>3 DEF Unhealthy
  <2>2. phase' = "discard" /\ UNCHANGED <<old, new>>
    BY <1>1, <2>1, Goes DEF Outcomes
  <2>3. Serving(old)' /\ Towards({Alias, old})' /\ exists' = {old, new} /\
          old' \in Containers /\ new \in Containers
    BY <1>1, <2>1, <2>2 DEF Apart, Pair, Serving, Towards, containers, proxy
  <2> QED BY <1>1, <1>f, <2>1, <2>2, <2>3 DEF StartedBeside, containers
<1>4. CASE HandOverFails
  <2>1. phase = "toPinOld" /\ Fault /\ Goto("twoLeft") /\ UNCHANGED <<containers, pinned, proxy>>
    BY <1>4 DEF HandOverFails
  <2>2. phase' = "idle" /\ outcome' = "twoLeft"
    BY <2>1, Goes DEF Outcomes
  <2> DEFINE c == old  d == new
  <2>3. /\ c \in Containers /\ d \in Containers /\ c # d /\ exists' = {c, d}
        /\ c \in running' /\ c \in listening' /\ c \in joined' /\ disk' \in {Alias, c} /\
                served' \in {Alias, c}
    <3>1. old < new /\ old \in Nat /\ Pair /\ Apart /\ Towards({Alias, old})
      BY <1>c, <1>1, <2>1 DEF Apart, Pair
    <3>2. c # d /\ c \in Containers /\ d \in Containers /\ exists = {c, d}
      BY <3>1 DEF Pair
    <3>3. c \in running /\ c \in listening /\ c \in joined /\ disk \in {Alias, c} /\
            served \in {Alias, c}
      BY <3>1 DEF Apart, Pair, Towards
    <3> QED BY <2>1, <3>2, <3>3 DEF containers, proxy
  <2> HIDE DEF c, d
  <2>4. Left'
    BY <1>f, <2>1, <2>3 DEF Left, Serving, Towards, Containers
  <2> QED BY <1>1, <2>1, <2>2, <2>4 DEF StartedBeside, AtRest, containers
<1>5. CASE PinOld
  <2>1. phase = "toPinOld" /\ pinned' = old /\ Goto("pinOld") /\ UNCHANGED <<containers, proxy>>
    BY <1>5 DEF PinOld, Pin
  <2>2. phase' = "pinOld" /\ UNCHANGED <<old, new>>
    BY <2>1, Goes DEF Outcomes
  <2>3. Apart' /\ Towards({Alias, old})'
    BY <1>1, <2>1, <2>2 DEF Apart, Pair, Towards, containers, proxy
  <2> QED BY <2>1, <2>2, <2>3 DEF StartedBeside, containers
<1>6. CASE Attach
  <2>1. /\ phase = "attach" /\ joined' = joined \cup {new} /\ Goto("listen")
        /\ UNCHANGED <<exists, running, listening, recreated, pinned, proxy>>
    BY <1>6 DEF Attach
  <2>2. phase' = "listen" /\ UNCHANGED <<old, new>>
    BY <2>1, Goes DEF Outcomes
  <2>3. Apart /\ Settled(old)
    BY <2>1 DEF StartedBeside
  <2>4. Both'
    BY <2>1, <2>2, <2>3 DEF Apart, Both, Pair
  <2>5. Settled(old)'
    BY <2>1, <2>2, <2>3 DEF Settled, proxy
  <2> QED BY <2>1, <2>2, <2>4, <2>5 DEF StartedBeside
<1>7. CASE WaitListening
  <2>1. phase = "listen" /\ new \in listening /\ Goto("toPinNew") /\ UNCHANGED <<containers,
          pinned, proxy>>
    BY <1>7 DEF WaitListening, ListeningTo
  <2>2. phase' = "toPinNew" /\ UNCHANGED <<old, new>>
    BY <2>1, Goes DEF Outcomes
  <2>3. Both' /\ Settled(old)'
    BY <2>1, <2>2 DEF StartedBeside, Both, Pair, Settled, containers, proxy
  <2> QED BY <2>1, <2>2, <2>3 DEF StartedBeside, containers
<1>8. CASE AttachFails \/ NeverListens
  <2>1. phase \in {"attach", "listen"} /\ Goto("toGiveUp") /\ UNCHANGED <<containers, pinned,
          proxy>>
    BY <1>8 DEF AttachFails, NeverListens
  <2>2. phase' = "toGiveUp" /\ UNCHANGED <<old, new>>
    BY <2>1, Goes DEF Outcomes
  <2>3. UNCHANGED <<old, new, pinned, exists, running, listening, disk, served, joined,
          recreated>>
    BY <2>1, <2>2 DEF containers, proxy
  <2>4. CASE phase = "attach"
    <3>1. Apart /\ Settled(old)
      BY <2>4 DEF StartedBeside
    <3>2. pinned = old /\ Towards({Alias, old})
      BY <3>1 DEF Settled, Towards
    <3> QED BY <2>2, <2>3, <3>1, <3>2, <1>8, <1>g, ToGiveUp
  <2>5. CASE phase = "listen"
    <3>1. Both /\ Settled(old)
      BY <2>5 DEF StartedBeside
    <3> QED BY <2>2, <2>3, <3>1, <1>8, <1>g, ToGiveUp
  <2> QED BY <2>1, <2>4, <2>5
<1>9. CASE PinNew
  <2>1. phase = "toPinNew" /\ pinned' = new /\ Goto("pinNew") /\ UNCHANGED <<containers, proxy>>
    BY <1>9 DEF PinNew, Pin
  <2>2. phase' = "pinNew" /\ UNCHANGED <<old, new>>
    BY <2>1, Goes DEF Outcomes
  <2>3. Both' /\ Towards({old, new})' /\ (new \in listening)'
    BY <2>1, <2>2 DEF StartedBeside, Both, Pair, Settled, Towards, containers, proxy
  <2> QED BY <2>1, <2>2, <2>3 DEF StartedBeside, containers
<1> QED BY <1>2, <1>3, <1>4, <1>5, <1>6, <1>7, <1>8, <1>9

\* From the reload that moved the traffic to the end, and what a failed handover cleans up.
LEMMA RetireKeeps ==
  ASSUME Shape, StartedBeside(phase), Quiet, Quiet',
         \/ StopOld \/ RemoveOld \/ RetireFails \/ Unpin \/ UnpinL \/ GiveUp \/ Discard \/
                 DiscardFails
  PROVE  StartedBeside(phase)' /\ recreated' = recreated
<1>c. Containers \subseteq Nat /\ None \notin Containers
  BY ContainerType
<1>f. Fault => faults = 0 /\ faults' = 1
  BY DEF Fault, Quiet, Shape, TypeOK
<1>1. CASE StopOld
  <2>1. /\ phase = "drain" /\ Goto("remove") /\ running' = running \ {old} /\
          listening' = listening \ {old}
        /\ UNCHANGED <<exists, joined, recreated, pinned, proxy>>
    BY <1>1 DEF StopOld
  <2>2. phase' = "remove" /\ UNCHANGED <<old, new>>
    BY <2>1, Goes DEF Outcomes
  <2>3. Both /\ new \in listening /\ Settled(new)
    BY <2>1 DEF StartedBeside
  <2>4. old < new /\ old \in Nat /\ new \in Nat /\ listening \subseteq {old, new}
    BY <1>c, <2>3 DEF Both, Pair, Shape, TypeOK
  <2>5. Pair'
    BY <2>1, <2>2, <2>3 DEF Both, Pair
  <2>6. running = {old, new} /\ old # new /\ new \in joined
    BY <2>3, <2>4 DEF Both, Pair
  <2>7. running' = {new} /\ listening' = {new} /\ new \in joined'
    BY <2>1, <2>3, <2>4, <2>6
  <2>8. Settled(new)'
    BY <2>1, <2>2, <2>3 DEF Settled, proxy
  <2> QED BY <2>1, <2>2, <2>5, <2>7, <2>8 DEF StartedBeside
<1>2. CASE RemoveOld
  <2>1. phase = "remove" /\ Goto("toUnpin") /\ Without({old}) /\ UNCHANGED <<pinned, proxy>>
    BY <1>2 DEF RemoveOld
  <2>2. phase' = "toUnpin" /\ UNCHANGED <<old, new>>
    BY <2>1, Goes DEF Outcomes
  <2>3. Pair /\ running = {new} /\ listening = {new} /\ new \in joined /\ Settled(new) /\
          joined \subseteq exists
    BY <2>1 DEF StartedBeside, Shape, TypeOK
  <2>4. old # new /\ new \in Containers
    BY <1>c, <2>3 DEF Pair
  <2>5. Single(new)' /\ recreated' = recreated
    BY <2>1, <2>2, <2>3, <2>4 DEF Single, Pair, Without
  <2>6. Settled(new)'
    BY <2>1, <2>2, <2>3 DEF Settled, proxy
  <2> QED BY <2>2, <2>4, <2>5, <2>6 DEF StartedBeside
<1>3. CASE RetireFails
  <2>1. phase \in {"drain", "remove"} /\ Fault /\ Goto("toUnpinL") /\ UNCHANGED <<containers,
          pinned, proxy>>
    BY <1>3 DEF RetireFails
  <2>2. phase' = "toUnpinL" /\ UNCHANGED <<old, new>>
    BY <2>1, Goes DEF Outcomes
  <2>3. Pair /\ Serving(new) /\ Settled(new)
    BY <2>1 DEF StartedBeside, Both, Pair, Serving
  <2>4. Pair' /\ Serving(new)' /\ Settled(new)'
    BY <2>1, <2>2, <2>3 DEF Pair, Serving, Settled, containers, proxy
  <2> QED BY <1>f, <2>1, <2>2, <2>4 DEF StartedBeside, containers
<1>4. CASE Unpin
  <2>1. phase = "toUnpin" /\ pinned' = None /\ Goto("unpin") /\ UNCHANGED <<containers, proxy>>
    BY <1>4 DEF Unpin, Pin
  <2>2. phase' = "unpin" /\ UNCHANGED <<old, new>>
    BY <2>1, Goes DEF Outcomes
  <2>3. new \in Containers /\ Single(new)' /\ Towards({Alias, new})'
    BY <2>1, <2>2 DEF StartedBeside, Single, Settled, Towards, containers, proxy
  <2> QED BY <2>1, <2>2, <2>3 DEF StartedBeside, containers
<1>5. CASE UnpinL
  <2>1. phase = "toUnpinL" /\ pinned' = None /\ Goto("unpinL") /\ UNCHANGED <<containers,
          proxy, bounds>>
    BY <1>5 DEF UnpinL, Pin
  <2>2. phase' = "unpinL" /\ UNCHANGED <<old, new>>
    BY <2>1, Goes DEF Outcomes
  <2>3. Pair' /\ Serving(new)' /\ Towards({Alias, new})' /\ faults' = 1
    BY <2>1, <2>2 DEF StartedBeside, Pair, Serving, Settled, Towards, containers, proxy, bounds
  <2> QED BY <2>1, <2>2, <2>3 DEF StartedBeside, containers
<1>6. CASE GiveUp
  <2>1. phase = "toGiveUp" /\ pinned' = None /\ Goto("giveUp") /\ UNCHANGED <<containers,
          proxy, bounds>>
    BY <1>6 DEF GiveUp, Pin
  <2>2. phase' = "giveUp" /\ UNCHANGED <<old, new>>
    BY <2>1, Goes DEF Outcomes
  <2>3. GivingUp
    BY <2>1 DEF StartedBeside
  <2>4. Pair' /\ Serving(old)' /\ Towards({Alias, old, new})' /\ faults' = 1 /\ running' = exists'
    BY <2>1, <2>2, <2>3 DEF GivingUp, Pair, Serving, Towards, containers, proxy, bounds
  <2>5. (new \in {pinned, disk, served} => Serving(new))'
    BY <1>c, <2>1, <2>2, <2>3 DEF GivingUp, Pair, Serving, containers, proxy
  <2>6. GivingUp'
    BY <2>4, <2>5 DEF GivingUp
  <2> QED BY <2>1, <2>2, <2>6 DEF StartedBeside, containers
<1>7. CASE Discard \/ DiscardFails
  <2>1. /\ phase = "discard" /\ faults = 1 /\ pinned = None /\ Towards({Alias, old})
        /\ (\E c \in Containers : exists = {old, c}) /\ Serving(old) /\ old \in Containers
    BY <1>7 DEF Discard, DiscardFails, StartedBeside
  <2>2. Without(exists \ {old}) /\ Goto("failed") /\ UNCHANGED <<pinned, disk, served>>
    BY <1>7, <1>f, <2>1 DEF Discard, Discarded, DiscardFails, proxy
  <2>3. phase' = "idle" /\ outcome' = "failed"
    BY <2>2, Goes DEF Outcomes
  <2> DEFINE c == old
  <2>4. /\ c \in Containers /\ c \in running /\ c \in listening /\ c \in joined
        /\ c \in exists /\ Without(exists \ {c}) /\ disk' \in {Alias, c} /\ served' \in {Alias, c}
    BY <2>1, <2>2 DEF Serving, Towards
  <2>5. pinned' = None
    BY <2>1, <2>2
  <2>6. running \subseteq exists /\ listening \subseteq exists /\ joined \subseteq exists
    BY DEF Shape, TypeOK
  <2> HIDE DEF c
  <2>7. exists' = {c} /\ running' = {c} /\ listening' = {c} /\ joined' = {c} /\
          recreated' = recreated
    BY <2>4, <2>6 DEF Without
  <2>8. \E d \in Containers : Single(d)' /\ Towards({Alias, d})'
    BY <2>4, <2>7 DEF Single, Towards
  <2>9. AtRest'
    BY <2>3, <2>5, <2>8 DEF AtRest, Containers
  <2> QED BY <2>3, <2>7, <2>9 DEF StartedBeside
<1> QED BY <1>1, <1>2, <1>3, <1>4, <1>5, <1>6, <1>7

\* What the steps say of the passes: where they lead and what they put in force.
LEMMA PassesKeep ==
  ASSUME Shape, InStep, MaxFaults >= 2, StartedBeside(phase), Quiet, Quiet', [Next]_vars,
         \/ Sweep \/ SweepFails \/ PipelineReconciles \/ PipelineReconcileFails
         \/ Reloaded \/ ReloadFails
  PROVE  StartedBeside(phase)' /\ recreated' = recreated
<1>f. faults' = faults \/ (faults = 0 /\ faults' = 1)
  BY StayQuiet DEF Shape
<1>g. Fault => faults = 0 /\ faults' = 1
  BY DEF Fault, Quiet, Shape, TypeOK
<1>i. UpToDate /\ lock = None => disk = Rendered /\ served = Rendered
  BY DEF UpToDate, InStep, Quiet
<1>r. JoinAlias \/ UNCHANGED containers => recreated' = recreated
  BY JoinShape
<1>1. CASE Sweep \/ (PipelineReconciles /\ ~UpToDate)
  <2>1. PICK who \in {"sweep", "deploy"} : Reconcile(who) /\ UNCHANGED pipeline
    BY <1>1 DEF Sweep, PipelineReconciles
  <2>2. /\ JoinAlias \/ UNCHANGED containers
        /\ UNCHANGED <<pinned, pipeline>> /\ served' = served /\ pending' = pending /\ lock = None
        /\ IF UpToDate THEN UNCHANGED <<disk, lock>> ELSE disk' = Rendered /\ lock' = who
    BY <2>1 DEF Reconcile
  <2>3. disk' \in {disk, Rendered} /\ (lock = None /\ UpToDate => UNCHANGED proxy)
    BY <2>2 DEF proxy
  <2> QED BY <1>f, <1>r, <2>2, <2>3, PassKeeps
<1>2. CASE PipelineReconciles /\ UpToDate
  <2>1. /\ phase \in Reconciling /\ Reconcile("deploy") /\ Goto(OnSuccess[phase])
    BY <1>2 DEF PipelineReconciles
  <2>2. /\ JoinAlias \/ UNCHANGED containers
        /\ pinned' = pinned /\ served' = served /\ pending' = pending /\ lock = None
        /\ lock' = lock /\ disk' = disk
    BY <1>2, <2>1 DEF Reconcile
  <2>3. disk' = Rendered /\ served' = Rendered /\ ~pending' /\ lock' = None
    BY <1>2, <1>i, <2>2 DEF UpToDate
  <2> QED BY <1>f, <1>r, <2>1, <2>2, <2>3, PassDone
<1>3. CASE SweepFails
  <2>1. /\ JoinAlias \/ UNCHANGED containers
        /\ UNCHANGED <<pinned, pipeline, proxy>>
    BY <1>3 DEF SweepFails, ReconcileFails
  <2>2. disk' = disk /\ served' = served /\ UNCHANGED <<pinned, pipeline>>
    BY <2>1 DEF proxy
  <2> QED BY <1>f, <1>r, <2>1, <2>2, PassKeeps
<1>4. CASE PipelineReconcileFails
  <2>1. /\ JoinAlias \/ UNCHANGED containers
        /\ UNCHANGED <<pinned, proxy>> /\ phase \in Reconciling /\ Goto(OnError[phase]) /\ Fault
    BY <1>4 DEF PipelineReconcileFails, ReconcileFails
  <2>2. UNCHANGED <<pinned, disk>> /\ served' = served
    BY <2>1 DEF proxy
  <2> QED BY <1>g, <1>r, <2>1, <2>2, PassFailed
<1>5. CASE Reloaded \/ ReloadFails
  <2>1. /\ UNCHANGED containers /\ UNCHANGED <<pinned, disk>> /\ lock # None /\ lock' = None
        /\ served' \in {served, disk}
    BY <1>5 DEF Reloaded, ReloadFails
  <2>2. CASE lock # "deploy"
    <3>1. UNCHANGED <<pinned, pipeline>>
      BY <1>5, <2>1, <2>2 DEF Reloaded, ReloadFails
    <3> QED BY <1>f, <1>r, <2>1, <3>1, PassKeeps
  <2>3. CASE lock = "deploy"
    <3>1. phase \in Reconciling /\ disk = Rendered
      BY <2>3 DEF Shape, OwnPass
    <3>2. CASE Reloaded
      <4>1. Goto(OnSuccess[phase]) /\ served' = disk /\ ~pending'
        BY <2>3, <3>2 DEF Reloaded
      <4>2. disk' = Rendered /\ served' = Rendered /\ pinned' = pinned
        BY <2>1, <3>1, <4>1
      <4> QED BY <1>f, <1>r, <2>1, <3>1, <4>1, <4>2, PassDone
    <3>3. CASE ReloadFails
      <4>1. Goto(OnError[phase]) /\ Fault
        BY <2>3, <3>3 DEF ReloadFails
      <4> QED BY <1>g, <1>r, <2>1, <3>1, <4>1, PassFailed
    <3> QED BY <1>5, <3>2, <3>3
  <2> QED BY <2>2, <2>3
<1> QED BY <1>1, <1>2, <1>3, <1>4, <1>5

LEMMA NextOneFault ==
  ASSUME Shape, InStep, OneFault, MaxFaults >= 2, [Next]_vars
  PROVE  OneFault'
<1> SUFFICES ASSUME Quiet', ~recreated' PROVE StartedBeside(phase)'
  BY DEF OneFault, Quiet
<1>1. Quiet /\ ~Dropped /\ ~Crash /\ (NeverListens => faults' = 1)
      /\ (faults' = faults \/ (faults = 0 /\ faults' = 1))
  BY StayQuiet DEF Shape
<1>2. ~recreated => StartedBeside(phase)
  BY <1>1 DEF OneFault, Quiet
<1>3. CASE Deploy
  BY <1>1, <1>2, <1>3, DeployKeeps
<1>4. ASSUME ~Deploy PROVE ~recreated
  <2>1. ASSUME JoinAlias \/ UNCHANGED containers PROVE recreated' = recreated
    BY <2>1 DEF JoinAlias, containers
  <2>2. CASE Sweep \/ SweepFails \/ PipelineReconciles \/ PipelineReconcileFails
    BY <2>1, <2>2 DEF Sweep, SweepFails, PipelineReconciles, PipelineReconcileFails, Reconcile,
            ReconcileFails
  <2>3. CASE Up \/ UpFails
    BY <2>3 DEF Up, UpFails, HalfStart, Start, UpInPlace, Created, containers
  <2>4. CASE \/ Reloaded \/ ReloadFails \/ Healthy \/ Unhealthy \/ HandOverFails
             \/ PinOld \/ PinNew \/ Unpin \/ UnpinL \/ GiveUp \/ WaitListening \/ AttachFails
             \/ NeverListens \/ RetireFails \/ DiscardFails
    BY <2>1, <2>4 DEF Reloaded, ReloadFails, Healthy, Unhealthy, HandOverFails, PinOld, PinNew,
            Unpin, UnpinL,
       GiveUp, Pin, WaitListening, AttachFails, NeverListens, RetireFails, DiscardFails
  <2>5. CASE Attach \/ StopOld \/ RemoveOld \/ Discard \/ UNCHANGED vars \/
          (\E c \in Containers : Listens(c))
    BY <2>5 DEF Attach, StopOld, RemoveOld, Discard, Without, vars, Listens
  <2> QED BY <1>1, <1>4, <2>2, <2>3, <2>4, <2>5 DEF Next, Advance
<1>5. CASE ~Deploy
  <2>1. StartedBeside(phase) /\ ~recreated
    BY <1>2, <1>4, <1>5
  <2>3. CASE Up \/ UpFails
    BY <1>1, <2>1, <2>3, StartKeeps
  <2>4. CASE Sweep \/ SweepFails \/ PipelineReconciles \/ PipelineReconcileFails \/ Reloaded \/
          ReloadFails
    BY <1>1, <2>1, <2>4, PassesKeep
  <2>5. CASE Healthy \/ Unhealthy \/ HandOverFails \/ PinOld \/ Attach \/ WaitListening
             \/ AttachFails \/ NeverListens \/ PinNew
    BY <1>1, <2>1, <2>5, MoveKeeps
  <2>6. CASE StopOld \/ RemoveOld \/ RetireFails \/ Unpin \/ UnpinL \/ GiveUp \/ Discard \/
          DiscardFails
    BY <1>1, <2>1, <2>6, RetireKeeps
  <2>7. ASSUME NEW c \in Containers, Listens(c) PROVE StartedBeside(phase)'
    BY <2>1, <2>7, ListensKeeps
  <2>8. CASE UNCHANGED vars
    <3>1. /\ UNCHANGED <<pinned, pipeline>> /\ UNCHANGED containers /\ faults' = faults
          /\ disk' = disk /\ served' = served /\ UNCHANGED proxy
      BY <2>8 DEF vars, pipeline, containers, proxy
    <3> QED BY <2>1, <3>1, PassKeeps
  <2> QED BY <1>1, <1>5, <2>3, <2>4, <2>5, <2>6, <2>7, <2>8 DEF Next, Advance
<1> QED BY <1>3, <1>5

-----------------------------------------------------------------------------
(* Nothing failed, and the service is started either way                   *)

Smooth == interruptions = 0 /\ faults = 0

LEMMA SettledPass ==
  ASSUME NEW c \in Containers, Settled(c), lock = None /\ UpToDate => UNCHANGED proxy,
          pinned' = pinned
  PROVE  pinned' = c /\ disk' = c /\ served' = c /\ lock' = None /\ ~pending'
<1>1. Rendered = c
  BY ContainerType DEF Settled, Rendered
<1>2. lock = None /\ UpToDate
  BY <1>1 DEF Settled, UpToDate
<1> QED BY <1>2 DEF Settled, proxy

\* A pass that leaves the pipeline where it is.
LEMMA AlonePass ==
  ASSUME Shape, Alone(phase), JoinAlias \/ UNCHANGED containers, UNCHANGED <<pinned, pipeline>>,
         disk' \in {disk, Rendered}, served' \in {served, disk}, lock = None /\ UpToDate =>
                 UNCHANGED proxy
  PROVE  Alone(phase)'
<1>u. UNCHANGED <<pinned, phase, old, new, exists, running>>
  BY JoinShape DEF pipeline
<1>p. Pair => Pair'
  BY <1>u DEF Pair
<1>s. ASSUME NEW c \in {old, new}, Pair, Settled(c)
      PROVE  pinned' = c /\ disk' = c /\ served' = c /\ lock' = None /\ ~pending'
  BY <1>s, SettledPass DEF Pair
<1>1. CASE phase \in {"idle", "up", "health", "toUnpin", "unpin", "final"} /\
        (phase = "health" => old = None)
           /\ \E c \in Containers : exists = {c}
  BY <1>u, <1>1 DEF Alone
<1>2. CASE phase \in {"health", "toPinOld", "pinOld"} /\ Pair /\ running = exists /\
        joined \subseteq {old}
           /\ (phase = "pinOld" => pinned = old)
  <2>1. joined' \subseteq {old}
    <3>1. old \in Nat /\ new \in Nat /\ old < new /\ running = {old, new}
      BY <1>2, ContainerType DEF Pair
    <3>2. Min(running) = old
      BY <3>1, MinOf
    <3> QED BY <1>2, <3>1, <3>2 DEF JoinAlias, Attached, containers
  <2> QED BY <1>u, <1>p, <1>2, <2>1 DEF Alone
<1>3. CASE phase \in {"attach", "listen", "toPinNew"} /\ Pair /\ Settled(old)
  <2>1. Settled(old)'
    BY <1>u, <1>s, <1>3 DEF Settled
  <2> QED BY <1>u, <1>p, <1>3, <2>1 DEF Alone
<1>4. CASE phase = "pinNew" /\ Pair /\ pinned = new /\ Towards({old, new})
  <2>1. Rendered = new
    BY <1>4, ContainerType DEF Rendered, Pair
  <2>2. Towards({old, new})'
    BY <1>u, <1>4, <2>1 DEF Towards
  <2> QED BY <1>u, <1>p, <1>4, <2>2 DEF Alone
<1>5. CASE phase \in {"drain", "remove"} /\ Pair /\ Settled(new)
  <2>1. Settled(new)'
    BY <1>u, <1>s, <1>5 DEF Settled
  <2> QED BY <1>u, <1>p, <1>5, <2>1 DEF Alone
<1> QED BY <1>1, <1>2, <1>3, <1>4, <1>5 DEF Alone

\* A pass the pipeline waited for.
LEMMA AloneDone ==
  ASSUME Shape, Alone(phase), phase \in Reconciling, Goto(OnSuccess[phase]),
         JoinAlias \/ UNCHANGED containers, pinned' = pinned,
         disk' = Rendered, served' = Rendered, lock' = None, ~pending'
  PROVE  Alone(phase)'
<1>u. UNCHANGED <<exists, running>>
  BY JoinShape
<1>1. CASE phase = "pinOld" /\ Pair /\ pinned = old
  <2>1. phase' = "attach" /\ UNCHANGED <<old, new>>
    BY <1>1, Onward, Goes DEF Outcomes
  <2>2. Rendered = old
    BY <1>1, ContainerType DEF Rendered, Pair
  <2> QED BY <1>u, <1>1, <2>1, <2>2 DEF Alone, Pair, Settled
<1>2. CASE phase = "pinNew" /\ Pair /\ pinned = new
  <2>1. phase' = "drain" /\ UNCHANGED <<old, new>>
    BY <1>2, Onward, Goes DEF Outcomes
  <2>2. Rendered = new
    BY <1>2, ContainerType DEF Rendered, Pair
  <2> QED BY <1>u, <1>2, <2>1, <2>2 DEF Alone, Pair, Settled
<1>3. CASE phase \in {"unpin", "final"} /\ \E c \in Containers : exists = {c}
  <2>1. phase' \in {"final", "idle"}
    BY <1>3, Onward, Goes DEF Outcomes
  <2> QED BY <1>u, <1>3, <2>1 DEF Alone
<1> QED BY <1>1, <1>2, <1>3, Onward DEF Alone

LEMMA AlonePasses ==
  ASSUME Shape, InStep, Smooth, Alone(phase), Smooth', Sweep \/ PipelineReconciles \/ Reloaded
  PROVE  Alone(phase)'
<1>i. UpToDate /\ lock = None => disk = Rendered /\ served = Rendered
  BY DEF UpToDate, InStep, Smooth
<1>1. CASE Sweep \/ (PipelineReconciles /\ ~UpToDate)
  <2>1. PICK who \in {"sweep", "deploy"} : Reconcile(who) /\ UNCHANGED pipeline
    BY <1>1 DEF Sweep, PipelineReconciles
  <2>2. /\ JoinAlias \/ UNCHANGED containers
        /\ UNCHANGED <<pinned, pipeline>> /\ served' = served /\ pending' = pending /\ lock = None
        /\ IF UpToDate THEN UNCHANGED <<disk, lock>> ELSE disk' = Rendered /\ lock' = who
    BY <2>1 DEF Reconcile
  <2>3. disk' \in {disk, Rendered} /\ (lock = None /\ UpToDate => UNCHANGED proxy)
    BY <2>2 DEF proxy
  <2> QED BY <2>2, <2>3, AlonePass
<1>2. CASE PipelineReconciles /\ UpToDate
  <2>1. /\ phase \in Reconciling /\ Reconcile("deploy") /\ Goto(OnSuccess[phase])
    BY <1>2 DEF PipelineReconciles
  <2>2. /\ JoinAlias \/ UNCHANGED containers
        /\ pinned' = pinned /\ served' = served /\ pending' = pending /\ lock = None
        /\ lock' = lock /\ disk' = disk
    BY <1>2, <2>1 DEF Reconcile
  <2>3. disk' = Rendered /\ served' = Rendered /\ ~pending' /\ lock' = None
    BY <1>2, <1>i, <2>2 DEF UpToDate
  <2> QED BY <2>1, <2>2, <2>3, AloneDone
<1>3. CASE Reloaded
  <2>1. UNCHANGED containers /\ UNCHANGED <<pinned, disk>> /\ lock # None /\ lock' = None
        /\ served' = disk /\ ~pending'
    BY <1>3 DEF Reloaded
  <2>2. CASE lock # "deploy"
    <3>1. UNCHANGED <<pinned, pipeline>>
      BY <1>3, <2>1, <2>2 DEF Reloaded
    <3> QED BY <2>1, <3>1, AlonePass
  <2>3. CASE lock = "deploy"
    <3>1. phase \in Reconciling /\ disk = Rendered /\ Goto(OnSuccess[phase])
      BY <1>3, <2>3 DEF Shape, OwnPass, Reloaded
    <3> QED BY <2>1, <3>1, AloneDone
  <2> QED BY <2>2, <2>3
<1> QED BY <1>1, <1>2, <1>3

\* The pipeline's own steps.
LEMMA AloneMoves ==
  ASSUME Shape, Alone(phase), Smooth, Smooth',
         \/ Deploy \/ Up \/ Healthy \/ PinOld \/ Attach \/ WaitListening \/ PinNew
         \/ StopOld \/ RemoveOld \/ Unpin
  PROVE  Alone(phase)'
<1>c. Containers \subseteq Nat /\ None \notin Containers
  BY ContainerType
<1>1. CASE Deploy
  BY <1>1 DEF Deploy, Alone
<1>2. CASE Up
  <2>1. /\ phase = "up" /\ phase' = "health" /\ Start /\ old' = old
        /\ new' = IF old = None THEN None ELSE created + 1
    BY <1>2 DEF Up
  <2>2. created + 1 \in Containers /\ created \in Nat
    BY <2>1, ContainerType DEF Shape, Room, TypeOK, Containers
  <2>5. exists \subseteq 1..created /\ exists \subseteq Containers
    BY DEF Shape, TypeOK, TwoAtMost
  <2>3. CASE old = None
    <3>1. \E c \in Containers : exists' = {c}
      BY <2>1, <2>2, <2>3, <2>5 DEF Start, UpInPlace, Created
    <3> QED BY <2>1, <2>3, <3>1 DEF Alone
  <2>4. CASE old # None
    <3>1. exists = {old} /\ running = {old} /\ Created(exists, {created + 1})
      BY <2>1, <2>4 DEF Shape, Room, Start
    <3>2. /\ exists' = {old, created + 1} /\ running' = {old, created + 1} /\
            joined' \subseteq {old}
          /\ old < created + 1 /\ old \in Containers
      BY <1>c, <2>2, <2>5, <3>1 DEF Created
    <3>3. Pair' /\ running' = exists' /\ joined' \subseteq {old'}
      BY <2>1, <2>2, <2>4, <3>2 DEF Pair, Containers
    <3> QED BY <2>1, <3>3 DEF Alone
  <2> QED BY <2>3, <2>4
<1>3. CASE Healthy
  <2>1. /\ phase = "health" /\ Goto(IF old = None THEN "final" ELSE "toPinOld")
        /\ UNCHANGED <<containers, pinned>>
    BY <1>3 DEF Healthy
  <2>2. phase' = (IF old = None THEN "final" ELSE "toPinOld") /\ UNCHANGED <<old, new>>
    BY <2>1, Goes DEF Outcomes
  <2>3. old # None => Pair /\ running = exists /\ joined \subseteq {old}
    BY <2>1 DEF Alone
  <2>4. old = None => \E c \in Containers : exists = {c}
    BY <1>c, <2>1 DEF Alone, Pair
  <2> QED BY <2>1, <2>2, <2>3, <2>4 DEF Alone, Pair, containers
<1>4. CASE PinOld
  <2>1. phase = "toPinOld" /\ pinned' = old /\ Goto("pinOld") /\ UNCHANGED containers
    BY <1>4 DEF PinOld, Pin
  <2>2. phase' = "pinOld" /\ UNCHANGED <<old, new>>
    BY <2>1, Goes DEF Outcomes
  <2> QED BY <2>1, <2>2 DEF Alone, Pair, containers
<1>5. CASE Attach \/ WaitListening
  <2>1. /\ phase \in {"attach", "listen"} /\
          Goto(IF phase = "attach" THEN "listen" ELSE "toPinNew")
        /\ UNCHANGED <<exists, pinned, proxy>>
    BY <1>5 DEF Attach, WaitListening, containers
  <2>2. phase' \in {"listen", "toPinNew"} /\ UNCHANGED <<old, new>>
    BY <2>1, Goes DEF Outcomes
  <2>3. Pair' /\ Settled(old)'
    BY <2>1, <2>2 DEF Alone, Pair, Settled, proxy
  <2> QED BY <2>2, <2>3 DEF Alone
<1>6. CASE PinNew
  <2>1. phase = "toPinNew" /\ pinned' = new /\ Goto("pinNew") /\ UNCHANGED <<containers, proxy>>
    BY <1>6 DEF PinNew, Pin
  <2>2. phase' = "pinNew" /\ UNCHANGED <<old, new>>
    BY <2>1, Goes DEF Outcomes
  <2>3. Pair' /\ Towards({old, new})'
    BY <2>1, <2>2 DEF Alone, Pair, Settled, Towards, containers, proxy
  <2> QED BY <2>1, <2>2, <2>3 DEF Alone
<1>7. CASE StopOld
  <2>1. phase = "drain" /\ Goto("remove") /\ UNCHANGED <<exists, pinned, proxy>>
    BY <1>7 DEF StopOld
  <2>2. phase' = "remove" /\ UNCHANGED <<old, new>>
    BY <2>1, Goes DEF Outcomes
  <2>3. Pair' /\ Settled(new)'
    BY <2>1, <2>2 DEF Alone, Pair, Settled, proxy
  <2> QED BY <2>2, <2>3 DEF Alone
<1>8. CASE RemoveOld
  <2>1. phase = "remove" /\ Goto("toUnpin") /\ exists' = exists \ {old}
    BY <1>8 DEF RemoveOld, Without
  <2>2. phase' = "toUnpin"
    BY <2>1, Goes DEF Outcomes
  <2>5. Pair
    BY <2>1 DEF Alone
  <2>3. exists = {old, new} /\ old # new /\ new \in Containers
    BY <1>c, <2>5 DEF Pair
  <2>4. exists' = {new}
    BY <2>1, <2>3
  <2> QED BY <2>2, <2>3, <2>4 DEF Alone
<1>9. CASE Unpin
  <2>1. phase = "toUnpin" /\ Goto("unpin") /\ UNCHANGED containers
    BY <1>9 DEF Unpin, Pin
  <2>2. phase' = "unpin"
    BY <2>1, Goes DEF Outcomes
  <2> QED BY <2>1, <2>2 DEF Alone, containers
<1> QED BY <1>1, <1>2, <1>3, <1>4, <1>5, <1>6, <1>7, <1>8, <1>9

LEMMA NextNoFault ==
  ASSUME Shape, InStep, NoFault, MaxFaults >= 2, [Next]_vars
  PROVE  NoFault'
<1> SUFFICES ASSUME Smooth' PROVE Alone(phase)'
  BY DEF NoFault, Smooth
<1>1. Quiet' /\ faults \in Nat /\ ~Fault
  BY Assumptions DEF Quiet, Smooth, Shape, TypeOK, Fault
<1>2. Smooth /\ ~Dropped /\ ~Crash /\ ~NeverListens
  BY <1>1, StayQuiet DEF Shape, Smooth, Quiet
<1>3. Alone(phase)
  BY <1>2 DEF NoFault, Smooth
<1>4. CASE Sweep \/ PipelineReconciles \/ Reloaded
  BY <1>2, <1>3, <1>4, AlonePasses
<1>5. CASE \/ Deploy \/ Up \/ Healthy \/ PinOld \/ Attach \/ WaitListening \/ PinNew
           \/ StopOld \/ RemoveOld \/ Unpin
  BY <1>2, <1>3, <1>5, AloneMoves
<1>6. CASE UnpinL \/ GiveUp \/ Discard
  BY <1>3, <1>6 DEF UnpinL, GiveUp, Pin, Discard, Alone
<1>7. CASE UpFails \/ Unhealthy \/ HandOverFails \/ AttachFails \/ RetireFails \/
        DiscardFails \/ ReloadFails
           \/ SweepFails \/ PipelineReconcileFails
  BY <1>1, <1>7 DEF UpFails, Unhealthy, HandOverFails, AttachFails, RetireFails, DiscardFails,
          ReloadFails,
     SweepFails, PipelineReconcileFails, ReconcileFails
<1>8. CASE UNCHANGED vars \/ \E c \in Containers : Listens(c)
  <2>1. UNCHANGED <<exists, running, joined, pinned, disk, served, pending, lock, phase, old,
          new>>
    BY <1>8 DEF vars, Listens, proxy, pipeline
  <2> QED BY <1>3, <2>1 DEF Alone, Pair, Settled, Towards
<1> QED BY <1>2, <1>4, <1>5, <1>6, <1>7, <1>8 DEF Next, Advance

LEMMA NextHand == ASSUME MaxFaults >= 2, HandInv, [Next]_vars PROVE HandInv'
<1>1. Shape'
  BY NextShape DEF HandInv
<1>2. InStep' /\ OneFault' /\ NoFault'
  BY NextInStep, NextOneFault, NextNoFault DEF HandInv
<1> QED BY <1>1, <1>2 DEF HandInv

LEMMA InitHand == ASSUME Init PROVE HandInv
<1>1. Shape /\ InStep
  BY InitShape DEF Init, InStep
<1>2. 1 \in Containers /\ Single(1) /\ Towards({Alias, 1})
  BY Assumptions DEF Init, Containers, Single, Towards
<1>3. AtRest /\ outcome = None /\ recreated = FALSE /\ phase = "idle"
  BY <1>2, ContainerType DEF Init, AtRest
<1>4. OneFault /\ NoFault
  BY <1>2, <1>3 DEF OneFault, StartedBeside, NoFault, Alone, Single
<1> QED BY <1>1, <1>4 DEF HandInv

\* What serves at each program point, with one failure behind it at most.
LEMMA WhoServes ==
  ASSUME HandInv, interruptions = 0, faults <= 1, ~recreated
  PROVE  \E c \in Containers : c \in Reached /\ c \in listening
<1>1. StartedBeside(phase)
  BY DEF HandInv, OneFault
<1>2. ASSUME NEW c \in Containers, Serving(c), Towards({Alias, c}) PROVE c \in Reached /\
        c \in listening
  BY <1>2 DEF Reached, Serving, Towards
<1>3. ASSUME NEW c, Single(c) PROVE Serving(c)
  BY <1>3 DEF Single, Serving
<1>4. CASE \E c \in Containers : Serving(c) /\ Towards({Alias, c})
  BY <1>2, <1>4
<1>5. ASSUME NEW c \in Containers, Serving(c), Settled(c) PROVE c \in Reached /\ c \in listening
  <2>1. Towards({Alias, c})
    BY <1>5 DEF Settled, Towards
  <2> QED BY <1>2, <1>5, <2>1
<1>6. ASSUME NEW a \in Containers, NEW b \in Containers, Serving(a), Towards({Alias, a, b}),
             b \in {pinned, disk, served} => Serving(b)
      PROVE  \E c \in Containers : c \in Reached /\ c \in listening
  BY <1>6 DEF Reached, Serving, Towards
<1>7. CASE phase \in {"idle", "up"}
  <2>1. Left => \E c \in Containers : Serving(c) /\ Towards({Alias, c})
    BY DEF Left
  <2>2. AtRest /\ ~Left => \E c \in Containers : Serving(c) /\ Towards({Alias, c})
    BY <1>3 DEF AtRest
  <2> QED BY <1>1, <1>3, <1>4, <1>7, <2>1, <2>2 DEF StartedBeside
<1>8. CASE phase \in {"health", "toPinOld", "pinOld"}
  BY <1>1, <1>4, <1>8 DEF StartedBeside, Apart, Pair, Serving
<1>9. CASE phase \in {"attach", "listen", "toPinNew"}
  <2>1. old \in Containers /\ Serving(old) /\ Settled(old)
    BY <1>1, <1>9 DEF StartedBeside, Apart, Both, Pair, Serving
  <2> QED BY <1>5, <2>1
<1>10. CASE phase = "pinNew"
  <2>1. old \in Containers /\ new \in Containers /\ Serving(old) /\ Serving(new) /\
          Towards({old, new})
    BY <1>1, <1>10 DEF StartedBeside, Both, Pair, Serving
  <2> QED BY <2>1, <1>6 DEF Towards
<1>11. CASE phase \in {"drain", "remove", "toUnpin", "toUnpinL"}
  <2>1. new \in Containers /\ Serving(new) /\ Settled(new)
    BY <1>1, <1>11 DEF StartedBeside, Both, Pair, Serving, Single
  <2> QED BY <1>5, <2>1
<1>12. CASE phase \in {"unpin", "final", "unpinL"}
  BY <1>1, <1>3, <1>4, <1>12 DEF StartedBeside, Pair
<1>13. CASE phase \in {"toGiveUp", "giveUp"}
  <2>1. GivingUp
    BY <1>1, <1>13 DEF StartedBeside
  <2> QED BY <2>1, <1>6 DEF GivingUp, Pair
<1>14. CASE phase = "discard"
  BY <1>1, <1>4, <1>14 DEF StartedBeside
<1> QED BY <1>1, <1>7, <1>8, <1>9, <1>10, <1>11, <1>12, <1>13, <1>14 DEF StartedBeside

\* With nothing failed no two containers are reached.
LEMMA OneReached ==
  ASSUME HandInv, interruptions = 0, faults = 0
  PROVE  \E c : Reached \subseteq {c}
<1>1. Alone(phase) /\ joined \subseteq exists
  BY DEF HandInv, NoFault, Shape, TypeOK
<1>2. ASSUME NEW c \in Containers, served = c PROVE Reached \subseteq {c}
  BY <1>2, ContainerType DEF Reached
<1>3. CASE (\E c \in Containers : exists = {c}) \/ joined \subseteq {old}
  BY <1>1, <1>3 DEF Reached
<1>4. CASE Pair /\ (Settled(old) \/ Settled(new) \/ Towards({old, new}))
  <2>1. served \in {old, new} /\ old \in Containers /\ new \in Containers
    BY <1>4 DEF Pair, Settled, Towards
  <2> QED BY <1>2, <2>1
<1> QED BY <1>1, <1>3, <1>4 DEF Alone

-----------------------------------------------------------------------------
(* The theorems                                                            *)

\* As long as nothing fails, requests are never spread over two builds, whichever passes of
\* the reconciler fall between the steps of hand_over; and outside the gap of a deployment in
\* place they are sent to a container that listens.
THEOREM OneBuildOnly == ASSUME MaxFaults >= 2 PROVE Spec => []OneBuild
<1>1. HandInv => OneBuild
  <2> SUFFICES ASSUME HandInv, faults = 0, interruptions = 0
               PROVE  /\ Cardinality(Reached) <= 1
                      /\ ~recreated => Reached # {} /\ Reached \subseteq listening
    BY DEF OneBuild
  <2>1. PICK c : Reached \subseteq {c}
    BY OneReached
  <2>2. Reached = {} \/ Reached = {c}
    BY <2>1
  <2>3. Cardinality({}) = 0 /\ Cardinality({c}) = 1
    BY FS_EmptySet, FS_Singleton
  <2>4. ~recreated => \E d \in Containers : d \in Reached /\ d \in listening
    BY WhoServes
  <2> QED BY <2>1, <2>2, <2>3, <2>4
<1>2. Init => HandInv
  BY InitHand
<1>3. HandInv /\ [Next]_vars => HandInv'
  BY NextHand
<1> QED BY <1>1, <1>2, <1>3, PTL DEF Spec

\* One operation that fails, wherever hand_over or a pass is, leaves a container that listens
\* among those a request can be sent to.
THEOREM StillServed == ASSUME MaxFaults >= 2 PROVE Spec => []KeepsServing
<1>1. HandInv => KeepsServing
  BY WhoServes DEF KeepsServing
<1>2. Init => HandInv
  BY InitHand
<1>3. HandInv /\ [Next]_vars => HandInv'
  BY NextHand
<1> QED BY <1>1, <1>2, <1>3, PTL DEF Spec

\* A deployment started beside that failed after one failure, on any path that cleans up, leaves one
\* container and the proxy on it (discard_new).
THEOREM Restored == ASSUME MaxFaults >= 2 PROVE Spec => []FailureRestores
<1>1. HandInv => FailureRestores
  <2> SUFFICES ASSUME HandInv, faults <= 1, interruptions = 0, ~recreated, phase = "idle",
          outcome = "failed"
               PROVE  Cardinality(exists) = 1 /\ Reached = exists
    BY DEF FailureRestores
  <2>1. StartedBeside(phase)
    BY DEF HandInv, OneFault
  <2>2. PICK c \in Containers : Single(c) /\ Towards({Alias, c})
    BY <2>1 DEF StartedBeside, AtRest
  <2>3. exists = {c} /\ Reached = {c}
    BY <2>2 DEF Single, Towards, Reached
  <2> QED BY <2>3, FS_Singleton
<1>2. Init => HandInv
  BY InitHand
<1>3. HandInv /\ [Next]_vars => HandInv'
  BY NextHand
<1> QED BY <1>1, <1>2, <1>3, PTL DEF Spec
=============================================================================
