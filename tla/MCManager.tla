----------------------------- MODULE MCManager ------------------------------
(* What four parts of the manager come to, each by itself on a small instance: a service *)
(* handed over, the proxy's reload cycle, a queue of deployments and a log on its way to *)
(* a page.  `part` names the one that moves; the others stay where they start.           *)
EXTENDS Handover, ReverseProxy, Sequences, TLC

CONSTANTS vhost, auth, good, bad,
          r1, r2, r4, web, db, api, prod, staging, test

MCFiles  == {vhost, auth}
MCBodies == {good, bad}
MCBad    == {bad}

VARIABLES
  part,
  row, unsaved, pc, answer, outcome_queue, lock_queue, lockQ, slots, slotQ, cancels,
  cancelled, up, restarts, dbErrors,
  row_log, steps, pc_log, outcome_log, position, buf, printed, unsaved_log, subscribed,
  queue, request, replay, source, stream, live, shown, shownSteps, backlog, lines, lost,
  faults_log

\* r1 and r2 ask for the same build of prod, r4 for one elsewhere; the host runs one at a time.
Queue == INSTANCE DeployQueue WITH
  Requests <- {r1, r2, r4}, Targets <- {web, db, api}, Envs <- {prod, staging, test},
  TargetOf <- (r1 :> web @@ r2 :> web @@ r4 :> api),
  EnvOf <- (web :> prod @@ db :> prod @@ api :> staging),
  MaxConcurrent <- 1, MaxRestarts <- 1, MaxDbErrors <- 1,
  outcome <- outcome_queue, lock <- lock_queue

Log == INSTANCE LiveLog WITH
  Capacity <- 2, StepLines <- 1, PageLines <- 1, MaxSteps <- 1, MaxLines <- 1,
  row <- row_log, pc <- pc_log, outcome <- outcome_log, unsaved <- unsaved_log,
  faults <- faults_log

queueVars == <<row, unsaved, pc, answer, outcome_queue, lock_queue, lockQ, slots, slotQ,
  cancels, cancelled, up, restarts, dbErrors>>
logVars == <<row_log, steps, pc_log, outcome_log, position, buf, printed, unsaved_log,
  subscribed, queue, request, replay, source, stream, live, shown, shownSteps, backlog, lines,
  lost, faults_log>>
allVars == <<part, vars, proxyVars, queueVars, logVars>>

ManagerInit ==
  /\ part \in {"service", "proxy", "queue", "log"}
  /\ Init /\ Proxy!Init /\ Queue!Init /\ Log!Init

ManagerNext ==
  /\ part' = part
  /\ IF part = "service" THEN Next ELSE UNCHANGED vars
  /\ IF part = "proxy" THEN Proxy!Next ELSE UNCHANGED proxyVars
  /\ IF part = "queue" THEN Queue!Next ELSE UNCHANGED queueVars
  /\ IF part = "log" THEN Log!Next ELSE UNCHANGED logVars

\* Each part's own fairness, when it is the one that moves.
ManagerFairness ==
  /\ SF_vars(part = "service" /\ Advance)
  /\ WF_vars(part = "service" /\ Reloaded)
  /\ WF_vars(part = "service" /\ NeverListens)
  /\ WF_proxyVars(part = "proxy" /\ Proxy!Begin)
  /\ \A f \in Files : WF_proxyVars(part = "proxy" /\ Proxy!WriteFile(f))
  /\ WF_proxyVars(part = "proxy" /\ Proxy!Rejected)
  /\ WF_proxyVars(part = "proxy" /\ Proxy!Accepted)
  /\ WF_proxyVars(part = "proxy" /\ Proxy!Reloaded)
  /\ \A d \in {r1, r2, r4} :
       /\ WF_queueVars(part = "queue" /\ Queue!Task(d))
       /\ WF_queueVars(part = "queue" /\ Queue!TimeoutFires(d))
       /\ WF_queueVars(part = "queue" /\ Queue!RecoverRow(d))
  /\ WF_queueVars(part = "queue" /\ Queue!Boot)
  /\ WF_logVars(part = "log" /\ Log!Pipeline)
  /\ WF_logVars(part = "log" /\ Log!Boot)
  /\ WF_logVars(part = "log" /\ Log!Handler)
  /\ WF_logVars(part = "log" /\ Log!Page)

ManagerSpec == ManagerInit /\ [][ManagerNext]_allVars /\ ManagerFairness

-----------------------------------------------------------------------------
\* Every queued deployment gets a final status, behind whatever hangs or dies
\* (Engine::run, recover_interrupted).
QueuedSettles == Queue!QueuedSettles

\* A page that keeps retrying learns that the deployment ended (DeploymentDetail).
LearnsTheEnd == part = "log" => Log!LearnsTheEnd
=============================================================================
