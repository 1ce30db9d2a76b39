-------------------------- MODULE DokployMigration --------------------------
(* The migration script: one Dokploy project, applications, pasted compose files and  *)
(* Postgres databases, recreated on vexdock with its data.  The project's own programs *)
(* write while it runs; the script may die at any request, carried out or not, and the *)
(* operator, who has a stopped project then, may start it again on Dokploy and run the  *)
(* script once more into a new vexdock project.  A volume or a database is what was     *)
(* written to it.                                                                       *)
EXTENDS Naturals, FiniteSets

CONSTANTS Apps, Composes, Databases,
          MaxWrites, MaxFailures    \* bounds of the model

VARIABLES
    alive,                  \* what runs on Dokploy
    data,                   \* what each volume and database holds there
    exporter,               \* throwaway composes left on Dokploy
    pc, todo,               \* the script: its loop, and what the loop has still to visit
    step,                   \* where it stands inside the body of a loop
    created, renamedHosts,  \* vexdock: services, and hosts the script knows the new name of
    env,                    \* which host each service's variables name for its database
    imported, deployed,     \* vexdock: what was copied, and whether the project runs
    importer,               \* the throwaway vexdock service
    failures

dokploy == <<alive, data>>
script  == <<pc, todo, step>>
vexdock == <<created, renamedHosts, env, imported, deployed, importer>>
vars    == <<dokploy, exporter, script, vexdock, failures>>

Programs == Apps \cup Composes
Stores   == Programs \cup Databases    \* one volume for each program
Nothing  == MaxWrites + 1              \* a copy not made yet

\* The script's loops, in its own order.
Loop ==
    [postgres |-> Databases, apps |-> Apps, composes |-> Composes,
     stopApps |-> Apps, stopComposes |-> Composes,
     volumes |-> Programs, dumps |-> Databases, stopPostgres |-> Databases, deploy |-> {}]
\* Fault: the volumes are copied before the programs that write them are stopped.
After_VolumesFirst ==
    [postgres |-> "apps", apps |-> "composes", composes |-> "volumes", volumes |-> "stopApps",
     stopApps |-> "stopComposes", stopComposes |-> "dumps",
     dumps |-> "stopPostgres", stopPostgres |-> "deploy", deploy |-> "done"]

After ==
    [postgres |-> "apps", apps |-> "composes", composes |-> "stopApps",
     stopApps |-> "stopComposes", stopComposes |-> "volumes",
     volumes |-> "dumps", dumps |-> "stopPostgres", stopPostgres |-> "deploy", deploy |-> "done"]
Finished == {"done", "failed"}

NoVariables == [p \in Programs |-> "none"]
NoCopies    == [s \in Stores |-> Nothing]

Init ==
    /\ alive = Stores /\ data = [s \in Stores |-> 0] /\ exporter = 0
    /\ pc = "postgres" /\ todo = Databases /\ step = "next"
    /\ created = {} /\ renamedHosts = {} /\ env = NoVariables
    /\ imported = NoCopies /\ deployed = FALSE /\ importer = FALSE
    /\ failures = 0

-----------------------------------------------------------------------------
(* The project on Dokploy: a running program writes its volume and its database. *)
Write(p) ==
    /\ p \in alive
    /\ \E s \in {p} \cup (Databases \cap alive) :
        /\ data[s] < MaxWrites
        /\ data' = [data EXCEPT ![s] = @ + 1]
    /\ UNCHANGED <<alive, exporter, script, vexdock, failures>>

-----------------------------------------------------------------------------
(* The script. *)
In(loop, s)  == pc = loop /\ step = "next" /\ s \in todo
Fails        == failures < MaxFailures /\ failures' = failures + 1
Ends         == pc' = "failed" /\ UNCHANGED <<todo, step>>

\* Where a request that is carried out leaves the script: on its way, or, when the answer is
\* lost, at the end of its run.
Visited(s) ==
    \/ todo' = todo \ {s} /\ step' = "next" /\ UNCHANGED <<pc, failures>>
    \/ Fails /\ Ends
Inside(to) ==
    \/ step' = to /\ UNCHANGED <<pc, todo, failures>>
    \/ Fails /\ Ends

NextLoop ==
    /\ pc \notin Finished /\ pc # "deploy" /\ todo = {} /\ step = "next"
    /\ pc' = After[pc] /\ todo' = Loop[After[pc]] /\ step' = "next"
    /\ UNCHANGED <<dokploy, exporter, vexdock, failures>>

createPostgres(d) ==
    /\ In("postgres", d) /\ Visited(d)
    /\ created' = created \cup {d} /\ renamedHosts' = renamedHosts \cup {d}
    /\ UNCHANGED <<dokploy, exporter, env, imported, deployed, importer>>

\* Every .env is rewritten with the hosts renamed by then.
putVariables(p) ==
    env' = [env EXCEPT ![p] = IF renamedHosts = Databases THEN "new" ELSE "old"]

createProgram(loop, p) ==
    /\ In(loop, p) /\ Visited(p)
    /\ created' = created \cup {p} /\ putVariables(p)
    /\ UNCHANGED <<dokploy, exporter, renamedHosts, imported, deployed, importer>>
createApp(p)     == createProgram("apps", p)
createCompose(p) == createProgram("composes", p)

Stop(loop, s) ==
    /\ In(loop, s) /\ Visited(s)
    /\ alive' = alive \ {s}
    /\ UNCHANGED <<data, exporter, vexdock>>

(* copyVolume: an importer on vexdock, an exporter on Dokploy that packs the volume  *)
(* when it starts, the transfer, and the two removed again.                           *)
Importer(p) ==
    /\ In("volumes", p) /\ Inside("importing")
    /\ importer' = TRUE
    /\ UNCHANGED <<dokploy, exporter, created, renamedHosts, env, imported, deployed>>

Exporter ==
    /\ pc = "volumes" /\ step = "importing" /\ Inside("exporting")
    /\ exporter' = exporter + 1
    /\ UNCHANGED <<dokploy, vexdock>>

\* A port an exporter of an earlier attempt still holds is not given twice.  Once the
\* exporter stands, a failure still reaches the `finally`.
Pack(p) ==
    /\ pc = "volumes" /\ step = "exporting" /\ p \in todo /\ exporter = 1
    /\ \/ step' = "packed" /\ UNCHANGED failures
       \/ step' = "transfer failed" /\ Fails
    /\ UNCHANGED <<pc, todo>>
    /\ imported' = [imported EXCEPT ![p] = data[p]]
    /\ UNCHANGED <<dokploy, exporter, created, renamedHosts, env, deployed, importer>>

\* The `finally`, which runs whether the transfer worked or not.
DeleteExporter ==
    /\ pc = "volumes" /\ step \in {"packed", "transfer failed"}
    /\ exporter' = exporter - 1
    /\ IF step = "packed" THEN Inside("exported") ELSE Ends /\ UNCHANGED failures
    /\ UNCHANGED <<dokploy, vexdock>>

DeleteImporter(p) ==
    /\ pc = "volumes" /\ step = "exported" /\ imported[p] # Nothing /\ p \in todo
    /\ importer' = FALSE /\ Visited(p)
    /\ UNCHANGED <<dokploy, exporter, created, renamedHosts, env, imported, deployed>>

\* The database is deployed empty and filled over the old one's published port.
restoreDump(d) ==
    /\ In("dumps", d) /\ d \in alive /\ Visited(d)
    /\ imported' = [imported EXCEPT ![d] = data[d]]
    /\ UNCHANGED <<dokploy, exporter, created, renamedHosts, env, deployed, importer>>

Deploy ==
    /\ pc = "deploy"
    /\ deployed' = TRUE
    /\ \/ pc' = "done" /\ UNCHANGED <<todo, step, failures>>
       \/ Fails /\ Ends
    /\ UNCHANGED <<dokploy, exporter, created, renamedHosts, env, imported, importer>>

(* A request that is not carried out, or the process killed; nothing is undone but the  *)
(* exporter, and that only when the failure came from inside the try.                   *)
Fail ==
    /\ pc \notin Finished /\ Fails
    /\ \/ Ends
       \/ step = "exporting" /\ step' = "transfer failed" /\ UNCHANGED <<pc, todo>>
    /\ UNCHANGED <<dokploy, exporter, vexdock>>

-----------------------------------------------------------------------------
(* The operator, after a failure. *)
Restart(s) ==
    /\ pc = "failed" /\ s \in Stores \ alive
    /\ alive' = alive \cup {s}
    /\ UNCHANGED <<data, exporter, script, vexdock, failures>>

\* The next attempt needs the databases up, the exporter's port free, and the names and
\* hosts of the last one's vexdock project: what it left there is deleted.
Rerun ==
    /\ pc = "failed" /\ Databases \subseteq alive
    /\ exporter' = 0
    /\ pc' = "postgres" /\ todo' = Databases /\ step' = "next"
    /\ created' = {} /\ renamedHosts' = {} /\ env' = NoVariables
    /\ imported' = NoCopies /\ deployed' = FALSE /\ importer' = FALSE
    /\ UNCHANGED <<dokploy, failures>>

Next ==
    \/ \E p \in Programs :
        \/ Write(p) \/ createApp(p) \/ createCompose(p)
        \/ Importer(p) \/ Pack(p) \/ DeleteImporter(p)
        \/ Stop("stopApps", p) \/ Stop("stopComposes", p)
    \/ \E d \in Databases : createPostgres(d) \/ restoreDump(d) \/ Stop("stopPostgres", d)
    \/ NextLoop \/ Exporter \/ DeleteExporter \/ Deploy \/ Fail
    \/ \E s \in Stores : Restart(s)
    \/ Rerun

Spec == Init /\ [][Next]_vars

-----------------------------------------------------------------------------
TypeOK ==
    /\ alive \subseteq Stores /\ data \in [Stores -> 0..MaxWrites] /\ exporter \in 0..1
    /\ pc \in DOMAIN Loop \cup Finished /\ todo \subseteq Stores
    /\ step \in {"next", "importing", "exporting", "packed", "transfer failed", "exported"}
    /\ created \subseteq Stores /\ renamedHosts \subseteq Databases
    /\ env \in [Programs -> {"none", "old", "new"}]
    /\ imported \in [Stores -> 0..Nothing]
    /\ deployed \in BOOLEAN /\ importer \in BOOLEAN /\ failures \in 0..MaxFailures

(* A project that was put to work on vexdock, by a run that ended or by one whose last *)
(* answer was lost, has everything it wrote on Dokploy, and names no database that was  *)
(* left behind: the programs are stopped before their volumes and the databases they    *)
(* share are copied ("Dokploy's apps stop before their volumes are copied",             *)
(* migrate-dokploy.ts:5), on the first attempt and on one after a failure and a spell    *)
(* back on Dokploy.  Only what the operator starts again there, told of a failure, gets  *)
(* ahead of its copy.                                                                    *)
NothingLeftBehind ==
    deployed =>
        /\ \A s \in Stores \ alive : imported[s] = data[s]
        /\ \A p \in Programs : env[p] = "new"
        /\ created = Stores /\ exporter = 0 /\ ~importer
        /\ alive = {} \/ pc = "failed"
=============================================================================
