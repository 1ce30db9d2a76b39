------------------------- MODULE DeploymentPromise -------------------------
(***************************************************************************)
(* What the deploy engine promises whoever asks for deployments, with no   *)
(* task, lock, semaphore or cancel channel in sight:                       *)
(*   - a deployment is queued, may start once, and gets one final status   *)
(*     that is never rewritten;                                            *)
(*   - one pipeline works on an environment at a time, and at most         *)
(*     MaxConcurrent work on the host;                                     *)
(*   - a final status is written only once the pipeline has let go, and    *)
(*     "success" only for a deployment that started.                       *)
(* docs/architecture.md, "Deployment pipeline", is the prose of it; the    *)
(* definitions follow how deployments/mod.rs settles rows.  DeployQueue    *)
(* implements it.                                                          *)
(***************************************************************************)
EXTENDS Naturals, FiniteSets

CONSTANTS Requests,      \* the deployments that may ever be asked for
          Env(_),        \* the environment a deployment belongs to
          MaxConcurrent  \* pipelines the host runs at once

VARIABLES row,      \* the deployment's row: its status, "absent" before it exists
          working   \* the deployments whose pipeline is at work

vars == <<row, working>>

Unfinished == {"queued", "running"}
Final      == {"success", "failed", "cancelled"}

Init == /\ row = [d \in Requests |-> "absent"]
        /\ working = {}

\* A trigger that finds nothing to join leaves a queued row.
Accept(d) == /\ row[d] = "absent"
             /\ row' = [row EXCEPT ![d] = "queued"]
             /\ UNCHANGED working

Begin(d) == /\ row[d] = "queued"
            /\ \A other \in working : Env(other) # Env(d)
            /\ Cardinality(working) < MaxConcurrent
            /\ row' = [row EXCEPT ![d] = "running"]
            /\ working' = working \cup {d}

\* The pipeline lets go of its environment; its row is settled by a later step.
Stop(d) == /\ d \in working
           /\ working' = working \ {d}
           /\ UNCHANGED row

Settle(d, status) == /\ row[d] \in Unfinished
                     /\ d \notin working
                     /\ status = "success" => row[d] = "running"
                     /\ row' = [row EXCEPT ![d] = status]
                     /\ UNCHANGED working

\* The manager dies and every pipeline with it.
Interrupt == /\ working' = {}
             /\ UNCHANGED row

Next == \/ \E d \in Requests : \/ Accept(d)
                               \/ Begin(d)
                               \/ Stop(d)
                               \/ \E status \in Final : Settle(d, status)
        \/ Interrupt

Spec == Init /\ [][Next]_vars
=============================================================================
