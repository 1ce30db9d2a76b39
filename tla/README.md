# Vexdock, specified

Vexdock is a self-hosted deployment manager: one Rust process (`manager/`) that takes a trigger
(a click, a webhook, an API call), checks a repository out, runs `docker compose` for the service,
hands traffic over to the new container through an Nginx it configures, and keeps containers,
proxy and database in agreement afterwards. A React dashboard (`apps/web/`) drives it, a small auth
service (`apps/auth/`) signs its users in, and scripts install, update and migrate it. This directory holds TLA+ models of the parts of it
whose correctness depends on the order in which things happen, the TLC runs that check them, and
proofs of the results that matter most. Paths below are relative to `src/`.

    tlc  -workers 2 -config DeployQueue.cfg MCDeployQueue.tla     # any run of PROJECT.json
    tlapm DeployQueueProofs.tla      # also NginxApplyProofs, HandoverProofs, LiveLogProofs,
                                     # ProgramsProofs, StreamsProofs, EditorsProofs, TablesProofs

`PROJECT.json` lists components, runs, mutants, hazards, findings and theorems, and maps every
definition to the lines it models.

## 1. Inventory

| Component (source under `manager/src`) | State it keeps | Operations | Talks to | What is hard |
|---|---|---|---|---|
| Deploy engine (`deployments/mod.rs`: `Engine`) | `deployments` rows; map of per-environment mutexes; semaphore; map of cancel senders | `trigger`, `cancel`, `run`, `run_locked`, `finish`, `recover_interrupted` | database, bus, pipeline | tasks dropped at any await, hand-over of fair locks, guards released before the row is settled, boot after a death |
| Pipeline and handover (same file: `Pipeline`; `compose/`) | containers, aliases, the step open in the history | `execute`, `sole_running_container`, `hand_over`, `discard_new`, `wait_healthy` | Docker, domains | partial failure at every step, cancel in mid-handover, the reconciler in between |
| Domains (`domains/mod.rs`) | `domains` rows, `pinned` map, `reconcile_lock` | `create`/`update`/`delete`, `reconcile`, `pin`/`unpin`, `attach`, `wait_listening`, `issue_certificate` | Nginx, Docker, certificates | `pinned` is memory; a certificate is awaited for minutes while the domain can change |
| Proxy configuration (`nginx/mod.rs`) | generated directory, `reload_pending` | `apply`, `test`, `reload`, `write`, `snapshot` | the Nginx container | a multi-file write is not atomic; a reload can fail after the files are in place; the future can be dropped |
| Certificates (`certificates/`) | files, ACME account | `issue`, `renew`, upload | ACME, DNS | the old row is used after the await |
| Event reconciler and bus (`events/`) | debounce deadline, broadcast ring of 256 | `run`, `trigger`, `publish`, `subscribe` | domains, Docker events | a steady stream of events postpones the pass; slow subscribers lose events |
| Deployment log (`api/deployment_handlers.rs`, `api/sse.rs`; web: `deployment-detail.tsx`) | steps and log lines, a subscription per connection, what the page shows | replay, relay, fold | bus, database, EventSource | replay and events overlap, connections break, the bus drops |
| Scheduled tasks (`schedule/`; web: `scheduled-tasks.tsx`) | `task_runs` rows, set of running tasks, the list page | `tick`, `run`, cron `next`, run now, switch, edit | Docker exec | overlap of slow runs, a command that outlives its wait, a restart in between |
| Updater (`updater/`; web: `system.settings.about.tsx`) | state file shared with a detached container | `start`, `status`, `update.sh` | Docker CLI | three processes and one file, a 30-minute staleness rule, a stack that recreates the manager |
| Backup (`backup/`) | snapshot directories, `.partial` | `create`, `prune`, `restore` | file system | a crash between build and rename, name collisions |
| Service lifecycle API (`api/*_handlers.rs`) | service rows, containers | stop, delete, move, restart | Docker, engine | runs beside a deployment without the environment's lock |
| OAuth grants (`database/tokens.rs`) | grants, refresh tokens | `issue`, `refresh`, `revoke` | clients | reuse detection against lost answers |
| Dashboard forms (`system.settings.index.tsx`, `save-bar.tsx`, `env-editor.tsx`, `dotenv.ts`, `number-field.tsx`) | a cached read, a draft, requests under way | type, save, discard, re-read | settings and variables handlers | a re-read lands on a draft; two writers of one object |
| Studio table (studio route; `studio/`) | page of rows, queued edits, inserts, deletes, selection | edit, page, delete, save | user databases | a save refused or half applied and sent again |
| Bulk actions (`service-bulk-actions.tsx`) | selection, run under way | start, deploy, delete, duplicate, move | service handlers | it stops half-way; an answer is lost |
| Live updates (`sse.ts`, `log-viewer.tsx`, `deployment-inbox.tsx`, `notification-center.tsx`) | streams, timers, buffers, browser storage | reconnect, debounce, flush, mark | bus, container logs, other tabs | lost and repeated events, starvation, two tabs |
| Sign-in (`auth-gate.tsx`, `login.tsx`; `apps/auth`) | setup status, session, location | redirect, submit | auth service | two answers in either order |
| Migration (`scripts/migrate-dokploy.ts`) | a Dokploy project, a new vexdock project | create, stop, copy, deploy | both platforms' APIs | it dies anywhere and is run again |
| Database (`database/`) | one SQLite connection behind a mutex | statements | everyone | each statement is atomic, two statements are not |
| The rest: git, overlay rendering, templates, query editor, analytics, metrics, terminal, MCP server, the dashboard's other pages, installer | – | – | – | I/O, rendering and display without a protocol between actors |

Properties that make them correct:

- *Engine*: one pipeline per environment, a cap per host, no leaked guard, every row settled once
  and by somebody, every queued row eventually settled, also across a restart.
- *Pipeline, domains*: traffic goes to one build at a time and always to something that listens; a
  failure leaves what there was; pins are withdrawn.
- *Proxy*: between passes the directory is one Nginx can be restarted on; a directory that is
  ahead of the proxy is remembered; the proxy converges to the database.
- *Deployment log*: the page at rest shows what the database recorded, and learns the end.
- *Tasks, updater, migration*: what the records say is what runs, and nothing is lost on the way.
- *Pages*: what is on screen and not being changed is what is stored; what is being typed is
  nobody else's to change; what was asked for once happens once.

## 2. Modules

### DeploymentPromise — the abstract specification

Two variables: a `row` status per deployment and the set `working` of deployments whose pipeline
is at work. `Accept`, `Begin`, `Stop`, `Settle`, `Interrupt`. It says that a deployment starts at
most once and only in a free environment under the cap, that a final status is written once, only
after the pipeline let go, and `success` only for a deployment that started.

### DeployQueue — `Engine` in `deployments/mod.rs`

| Model | Code |
|---|---|
| `row`, `unsaved` | the `deployments` table; rows whose final write failed |
| `pc` | where the caller of `trigger`, then the task it spawned, stands |
| `lock`, `lockQ` | `Engine::locks`: one `tokio::sync::Mutex` per environment |
| `slots`, `slotQ` | the `Semaphore` of `MAX_CONCURRENT` |
| `cancels`, `cancelled` | the map of `oneshot` senders; a message sent and not yet polled |
| `TriggerFind`, `TriggerInsert` | the two statements of `trigger`; the connection is free in between |
| `Register`, `Locked`, `Start` | the polls of `run`, `run_locked` and `execute`'s opening |
| `Complete`, `StartFails`, `TimeoutFires`, `Withdraw` | the four ways `select!` returns; all share `End`, which drops the future and passes the guards on |
| `Deregister`, `Finish` | after `select!`: the sender leaves the map, then the row is written (or the write fails) |
| `Crash`, `RecoverRow`, `RecoveryFails`, `Boot` | death, `recover_interrupted`, start of the API |

`trigger`, `cancel` and the tasks run on different threads of the runtime, so each step another
thread can observe is an action of its own. tokio's `Mutex` and `Semaphore` are external and
modelled from their documented contract: FIFO, a released permit is assigned to the oldest waiter
at once, and a waiter that is dropped gives up its place or passes the permit on.

### NginxApply — `Nginx::apply`

`disk` is the generated directory, `served` what the workers run, `pending` is `reload_pending`,
`desired`/`before` the pass's rendering and snapshot. A pass is `Begin`, one `WriteFile` per file
(removals first, as in `write`), `Accepted` or `Rejected` or `TestFails`, then `Reloaded` or
`ReloadFails`. `PutBack` restores the snapshot. `Drop` is the caller's future dropped at one of
the two awaits, `Crash` the manager's death (which loses `pending`), and `CertificateReload` the
reload `reconcile_new_certificate` issues outside both locks. Files are model values; a body is
one `nginx -t` accepts or one it rejects.

### Handover — `execute`, `hand_over`, `discard_new` with `pin`, `unpin`, `reconcile`

One service. Containers are numbered in the order of creation; `exists`, `running`, `listening`
and `joined` (to the alias) are sets of them. `pinned` is the service's entry of
`Domains::pinned`, `disk`/`served` the upstream its vhost names on disk and in the workers. The
pipeline's `phase` walks through `up`, `health`, pin to the old container, `attach`, `listen`, pin
to the new one, `drain`, `remove`, `unpin`, and the final reconcile; `OnSuccess` and `OnError` say
where each of its reconcile passes leads. A service that may not have two containers
(`starts_beside`, read from its compose file at each deployment) or does not have exactly one, running,
is recreated in place: `Deploy` chooses, `UpInPlace` replaces the container, and until the new one
listens nobody serves. The event reconciler's `Sweep` is enabled whenever
`reconcile_lock` is free; any pass can fail to attach (logged, it goes on) or fail as a whole
(`SweepFails`, `PipelineReconcileFails`). A reconcile pass is cut at its reload, the await that matters to the
handover; `NginxApply` opens that pass further. The history variable `recreated` says that a
deployment went in place since one last began on a whole service (`Whole`), and the outcome `twoLeft` tells a failed deployment whose code leaves
two containers as they are from one whose code cleans up: both read as `failed` in the program.

### LiveLog — `deployment_events`, the pipeline's progress, `deployment-detail.tsx`

One deployment, from its queued row on, and one page. The pipeline writes a row, of the deployment
or of a step, and then publishes; a write that fails is logged and the event published all the same
(`Fails`, remembered in `unsaved`), and a row that cannot be read is neither settled nor told of
(`Unread`). The bus gives a subscriber a buffer of `Capacity` and lets it miss what does not fit; the
handler reads the row, subscribes, lists the steps, sends the snapshot and then relays; the page
replaces what it shows with the snapshot and folds the events in, keeping the last `PageLines` of
the lines it streamed (`MAX_LINES`). `Break`, `Refused`, `Retry`, `DropConnection` are the stream's
life, `Crash`/`Boot` the manager's. Lines are numbered as they are printed, and a text on the page is
the set of its lines: which lines are there is what the properties tell apart, their order within a
text is not. `lost` is a history variable: `"started"` or `"ended"` when that status was told between
the row's read and the subscription, `"overflow"` when the bus dropped something for this connection.

### Models of pages, tasks, the updater and the migration

Thirteen modules, each complete in itself: its page, the handlers it calls, and whoever else writes
the same thing.

| Module | Code | Actions |
|---|---|---|
| `SettingsPage` | general settings, save bar, `settings`/`update_settings` | type, save, discard, leave, remove the token, re-read; each request is sent, stored in two writes (the token, then the hostname) and answered in steps of its own, and may be refused after either |
| `VariablesEditor` | `EnvCard`, `replace_variables` | edit as table or text, save (and save again before the answer, and be refused after the set was stored), re-read, another writer |
| `Dotenv` | `lib/dotenv.ts` | `quote`, `unquote`, `entries`, `fromDotenv`, `toDotenv`, `lineProblems` as operators on sequences of characters, driven by a text typed one character at a time |
| `LogViewer` | `log-viewer.tsx` | reopen, receive, flush timer, pause, resume, clear, change the tail |
| `NumberField` | `ui/number-field.tsx` | draft, Enter, Escape, blur, hold, limit keys, drag |
| `BulkActions` | `service-bulk-actions.tsx`, the handlers it calls | one request per service in order, carried out, refused, or refused after a part was done (`FailPartWay`), stop at the first failure, re-read |
| `AuthGate` | `auth-gate.tsx`, `login.tsx`, setup status and sign-in of `apps/auth` | the two answers, the redirects, the form, which navigates in its own time, an expiring session |
| `StudioTable` | the studio route; `transact` of SQL engines, MongoDB's one by one | edit, add, select, delete, page, discard, save |
| `SelfUpdate` | about page, `Updater::start`/`launch`/`status`, `update.sh` | every phase of the script, its rollback, whose recreate may fail too, and what `set -e` ends, in the rollback as elsewhere; the launch's timeout; staleness; death of the manager and of the host |
| `SystemEvents` | `useSystemEvents`, the bus | publish, miss, break, reopen, debounce with its ceiling, refetch; an invalidation that joins a first load under way instead of sending it again |
| `Inbox` | `deployment-inbox.tsx`, `notification-center.tsx` | several tabs over one browser storage: mark, dismiss, mark all, clear (one write per item, another tab's in between), refetch, reload; projects deleted with their deployments |
| `ScheduledTasks` | `schedule/mod.rs`, `task_runs`, `scheduled-tasks.tsx` | claim, start, exec, collect, give up, finish, prune, restart; run now, switch, edit, delete |
| `DokployMigration` | `migrate-dokploy.ts` | its nine loops, the throwaway exporter and importer, at any request a failure or a lost answer (`Visited`, `Inside`), another run |

They share idioms: a request under way is a record with the step it has reached, the cached read is
apart from the server's value, and a re-read carries the value it was served, so that it can land
late. History variables (`excused`, `lapses`, `lost`, `recreated`) name the one thing that excuses
an otherwise wrong state: a request that failed after it wrote, a re-read that failed, a command given
up on. In the forms it is forgotten as soon as a current read lands.

### MC modules

`MCDeployQueue` and `MCNginxApply` give the constants their finite values. `MCManager` puts
four models side by side on small instances: it extends `Handover` and `ReverseProxy` (`NginxApply`
under names of its own, with its assumptions, for the run and for its proofs) and instantiates
`DeployQueue` and `LiveLog`. `part` picks the one that moves and the others stay in their initial
states, so a behaviour is a behaviour of one model, and one run asks what each of the four does under
its fairness.

The thirteen modules are instantiated in four groups, over the variable `client` of `Clients`:

| Group | Models | Proofs |
|---|---|---|
| `Programs` | `SelfUpdate`, `ScheduledTasks`, `DokployMigration` | `ProgramsProofs` |
| `Streams` | `SystemEvents`, `LogViewer`, `Inbox` | `StreamsProofs` |
| `Editors` | `SettingsPage`, `VariablesEditor`, `NumberField`, `Dotenv` | `EditorsProofs` |
| `Tables` | `BulkActions`, `StudioTable`, `AuthGate` | `TablesProofs` |

`client` picks one model in the initial state and the variables of the others hold `"none"`, so a
behaviour of `MCClients`, which puts the four groups side by side, is a behaviour of one model, and
its run checks thirteen small state spaces in one. Each property is
`client = "..." => M!Property`, stated in the model's group, where the group's assumptions on its
constants stand too. `LiveLog`, and `StudioTable`, `SelfUpdate`, `SystemEvents` and `ScheduledTasks`
for their counterexamples, are checked directly.

Two details are kept as sets where their order tells nothing apart: the rows a bulk run has left
(they are taken lowest first, as the list shows them), and the studio's updates and deletions,
which MongoDB is given in the order they were made and the model in any order.

## 3. Runs

| Run | Bounds | Question |
|---|---|---|
| `deploy_queue` | 4 requests (two for the same build, the others each in an environment of their own), cap 2, 1 restart, 1 failed statement; the two equal requests are symmetric | the engine's invariants and the refinement of `DeploymentPromise` |
| `manager`: proxy | 2 files, 1 good and 1 bad body, 3 edits, 2 faults, 1 interruption | loadable and remembered between passes; convergence |
| `manager`: service | 4 containers, 2 faults, 1 interruption | all properties of the handover |
| `manager`: queue | 3 requests, cap 1, 1 restart, 1 failed statement; no symmetry | does every queued deployment settle? |
| `manager`: log | bus of 2, 1 step, 1 line, 2 faults | does the page learn the end? |
| `deploy_join` | 3 requests | does joining a waiting deployment mean it will have its turn? (It does not, see 6) |
| `nginx_drop` | 2 files, 1 edit, no fault, 1 interruption | does a pass cut short heal? (It does not, see 6) |
| `handover_timeout` | 4 containers, no fault, 1 interruption | does a success after a dropped deployment serve? (It does not, see 6) |
| `live_log` | bus of 3, 2 steps, 3 lines, of which a step keeps 2 and the page streams 2, 2 faults (failed writes, breaks, refusals, restarts) | does the page show what was recorded? |
| `live_log_gap` | bus of 8, else as `live_log` | does subscribing before replaying lose nothing? (It does, see 6) |
| `clients` | see below | the promise of each of the thirteen modules |
| `studio_delete` | 1 row a page, 3 rows, 4 commands, 2 saves, 1 fault | are the edits a delete drops those of deleted rows? (No, see 6) |
| `self_update_rollback` | 2 starts, 1 fault | does the claim protect an updater at work? (Not in a rollback, see 6) |
| `self_update_abort` | 2 starts, 1 fault | does every failure after the version's write roll back? (No, see 6) |
| `tasks_pile_up` | 2 runs, 1 deadline | can a slow job pile up on itself? (It can, see 6) |

Why the bounds suffice. *Engine*: two requests of one target are needed for a join and for a lock
with somebody behind it, two in
other environments for a third pipeline in line for two slots. A cap of 1 would make exclusion per
environment follow from the cap. The queue of `manager` has a cap of 1: what it
asks is who is served at all. A second restart starts from a state
of the first one's kind, since only rows survive. *Proxy*: two files are the least with a
half-written directory; three edits allow a good, a bad and a repaired configuration; two faults
let a failed reload be followed by a failed retry. *Handover*: four containers are three
deployments, enough for one that goes wrong, one that starts from what it left behind and one
more; every "one failure" property is checked with two faults admitted, so its antecedent is a
real restriction. *Deployment log*: a bus of three overflows within two steps of two or three
events each; one step before and one after the subscription are needed for the overlap, and a line
more than a step or the page keeps for their limits to bite. Two faults let a row stay unwritten on a
connection that is then lost. Liveness takes longer to check, and the log
of `manager` has one step and one line, whose six events overflow a bus of two. *Clients*:

| Model | Bounds | The case they are there for |
|---|---|---|
| settings | 2 hostnames, 3 commands, 1 fault, 1 re-read on focus | a save and a removal under way beside a re-read, one of them refused between its two writes |
| variables | 1 key beside the stored one, 1 value, 2 edits, 2 saves, 1 focus, 1 fault, 1 other writer | two saves before the first answer, a re-read under typing |
| dotenv | texts of up to 4 characters of 8 kinds | a quoted value with an escape in it |
| log | tails of 1 and 3, 6 lines, 3 connections, 3 commands | a tail replayed over a paused backlog |
| number | 1..9 in steps of 3, seven drafts | limits off the grid, a draft off the grid |
| bulk | 5 actions, 2 runs, 1 fault, 6 services | a second run after one that stopped half-way |
| gate | 2 faults, 2 visits | a late answer, of the server or of the sign-in form, after the visitor moved on |
| studio | 3 rows, 3 commands, 2 saves, 1 fault | a save sent again after a part of it was applied |
| update | 2 starts, 2 faults; 1 timeout, lapse of 30 minutes and host crash each | a second start beside a leftover of the first; a rollback that fails in its turn |
| events | buffer of 2, debounce 2, ceiling 3, 4 changes, 2 breaks, 1 fault | an overflow, and a burst longer than the ceiling |
| inbox | 2 tabs, 2 listed and 5 kept (20 and 100 in the code), 5 deployments of 2 projects, 3 commands | marks pruned while another tab lists older ones; with 4 kept `MarksSurvive` fails |
| tasks | 3 runs, 1 kept, 1 fault, deadline, restart and edit | a run beside a command given up on |
| dokploy | an application, a compose file, a database; 2 writes, 2 failures | a failure or a lost answer, a restart of the project, a second run |

What is checked, and why it could be wrong:

- `OnePipelinePerEnvironment`, `SlotCap`, `GuardsAccounted`: a task can be dropped while it waits,
  just after it was given its turn, or at work. The guard must be passed on exactly once.
- `UnfinishedOwned`: while the manager serves, an unfinished row has a task that will settle it,
  unless its last write failed (`unsaved`): the failed write is only logged.
- `KeepsPromise`: the engine implements `DeploymentPromise`. The guards are released *before*
  the row is settled, so the next pipeline of the environment is at work while the last row still
  says running; the promise is what survives of "one at a time".
- `QueuedSettles`: no pipeline is assumed to end by itself, the deadline must do it.
- `AheadIsRemembered`, `SafeToRestart`: hold between passes as long as no pass was *cut short*
  (`interruptions = 0`); faults that `apply` handles are admitted. `Converges` admits
  everything and names the one state from which there is no convergence, `Overlooked`.
- `OneBuild`: without failures requests are never spread over two builds, whatever the reconciler
  does in between and whether a deployment is started beside or goes in place; and they go to a
  container that listens, outside the gap of a deployment in place (`recreated`), which
  `docs/architecture.md` admits. `KeepsServing`: one failure anywhere leaves a listening container
  among those a request can be sent to, with the same exception. `FailureRestores`: the paths that
  clean up leave one container, the one traffic goes to; a deployment in place removed the old
  container first and has nothing to restore. `PinWithdrawn`: liveness of unpinning.

- `ScreenMatchesRecord`, `ClosedScreenIsFinal`, `OnlyTheOpenStepIsMissing`: whatever side of the
  subscription an event fell on, a page that took in everything it was sent shows the steps and the
  outcome of the database, of every row whose writes succeeded: the events of a row that was not
  written say what the database does not hold, and spoil that row only. What is missing of the output
  belongs to the step open at the replay, or fell to the page's own limit, and always comes before
  what was streamed. `LearnsTheEnd`: through breaks, refusals and a restart it keeps asking until it
  knows; an end whose row was not written, fell into the gap or was dropped can leave it waiting.
- `QuietMeansStored`, `CleanMeansStored`, `QuietMeansCurrent`: at rest, the screen is the record. A
  request answered with an error may have stored what it carried, in whole or in part, and neither
  form re-reads after an error: until a current read lands, that is excused by name. So is a change
  asked for while the answer to a first load was on its way: `invalidateQueries` restarts a request only
  for a query that has data, so a first load is joined and its success clears the invalidation. The
  comment at `sse.ts:108` says that every open after the first refetches, and makes no such exception.
  `TypingSurvives`, `RemovalKeepsTheHostname`, `MarksSurvive`: nobody else's step undoes what was
  typed, left unsaved or marked. `MarksSurvive` exempts a deployment that was in the list when a
  listed one was deleted: each deletion brings others beside it, and a hundred of those, marked,
  push its id out of the storage, although the comment there says nothing that can return is lost.
- `NothingWrittenTwice`, `CopiesGetFreeNames`, `ErrorNamesWhatWasDone`: a run that stops half-way
  and is asked for again. A service the request failed at may have been deleted, or have lost its
  container to a move, before the error: it is the one the error names as failed, and nothing that
  changed goes unnamed.
- `NothingRepeatedOrSkipped`: the screen is a contiguous stretch of the output through
  reconnections, pauses, timers and a changed tail. `NoStarvation`: the debounce has a ceiling.
- `ValueIsReachable`, `EveryValueRoundTrips`: pure algorithms under every order of input. The second
  also compares rewriting by the table with the text it started from.
- `DeepLinkSurvives`: redirects decided on two answers never lose the page that was asked for. The
  sign-in form navigates after its own refetch, when the gate may have moved the visitor on already:
  whoever followed a link meanwhile is pulled back, and then only to the page the sign-in was for.
- `RecordedVersionRuns`, `ClaimProtectsTheUpdater`: once an update is over `.env` and `compose.yml`
  agree, and the containers with them unless the rollback could not recreate the stack, which the
  script only logs; not claimed of an updater that was removed, died with its host or was ended by
  `set -e` (finding 7). A launch removes a working updater only where its
  claim could not be believed (staleness, timeout, or the window finding 6 names).
- `RunsAreAccounted`: a run shown as going is being executed, and the run being executed is in the
  history. That its command is the only one is another matter (finding 8).
- `NothingLeftBehind`: a project deployed on vexdock has every volume and database as it was when
  its writers had stopped, also after a failed run, a restart on Dokploy and another run. When the
  answer to the deployment itself is lost the script reports a failure of a project that runs; what
  the operator then starts again on Dokploy gets ahead of its copy, and nothing else does.

Deadlock checking is off in every run: the number of requests, edits and containers is bounded, so
each model really stops.

## 4. Fairness

- *Engine*: weak fairness per task (the runtime polls what can go on), of `TimeoutFires` (tokio's
  timer), of `RecoverRow` and `Boot` (the container's restart policy). None for `Complete`,
  triggers or cancels. Weak fairness is enough for the locks because a permit, once handed over,
  is not taken back.
- *Proxy*: weak fairness of `Begin` (the reconciler starts a pass at least every two minutes), of
  each file's write, and of the three steps that end a pass well. Failures are never obliged.
- *Handover*: `Reloaded` and `NeverListens` (the deadline in `wait_listening`) weakly;
  `Advance` strongly, because the sweep can take `reconcile_lock` again and again and only the
  lock's FIFO order, which the model does not keep, gives the pipeline its turn.
- *Deployment log* (`FairSpec`): the pipeline goes on (it has a deadline), the manager is booted
  again (Docker's restart policy), the handler answers, and the browser runs its timers and takes
  in what arrived. None for breaks, refusals or crashes.
- `manager` holds each of the four to its own fairness when it is the one that moves; `clients`
  checks safety only.

## 5. Proofs

TLAPS checks these for every value of the constants, from the named assumptions of the modules
(`Assumptions`, `ProxyAssumption`: finitely many requests, a positive cap, bodies that exclude "no such file", ...)
and from what a theorem itself assumes of a number in the code.

**`DeployQueueProofs`**: `TypeCorrect` (`TypeOK`), `EnvironmentsExclusive`
(`OnePipelinePerEnvironment`), `SlotsCapped` (`SlotCap`) and `NoGuardLeaks` (`GuardsAccounted`).
None is inductive. The first three follow from `GuardInv`:

- `OutcomeKnown`: past `select!` there is an outcome. Without it `finish` could write no status
  and `TypeOK` would fail at `Finish`.
- `HoldersOwn`: whoever is past a guard owns it. Two pipelines of one environment would be two
  owners of one lock. The step to prove is the release: what one task gives back goes to
  somebody else, and never takes away what a third one owns.
- `SlotBound`: the permits handed out stay under the cap. A release replaces one owner by at most
  one.

`NoGuardLeaks` adds `LockInv` and `SlotInv`: a queue holds *exactly* the tasks that wait for its
guard and own no part of it, each of them once. `GuardsAccounted` says only that those who wait
have a place; without the converse, and without nobody having two places, a task that is dropped
could leave a second place behind, and a guard be handed to somebody who is gone. Four lemmas on
queues carry it (`Joining`, `Serving`, `Leaving`, `EmptyQueue`): what joining, being served and
leaving from the middle do to who waits.

The same module has `RowsOwned` (`UnfinishedOwned`) and `EngineKeepsPromise` (the refinement,
`Spec => KeepsPromise`). The invariant is `RowInv`: rows and tasks, which are written at
different moments and survive different failures, never disagree (`RowFollowsTask`); only a task
inside `select!` can be told it is cancelled (`CancelledSelecting`, without which a withdrawal
could reopen a settled row); nothing runs while the manager is down (`DownIdle`). With it each
action is mapped: `TriggerInsert` to `Accept`, `Start` to `Begin` (its environment is free by
`HoldersOwn`, its slot counts by `SlotBound`), an end from `executing` to `Stop`, `Finish` and
`RecoverRow` to `Settle`, `Crash` to `Interrupt`, everything else to a stutter.

**`HandoverProofs`**: `TypeCorrect` (`TypeOK`), and for any number of containers and deployments
`OneBuildOnly` (`OneBuild`), `StillServed` (`KeepsServing`) and `Restored` (`FailureRestores`), for
services started beside and in place, in any order.

- `Shape` holds whatever fails and whenever the pipeline is cut short: there are never more than
  two containers (`TwoAtMost`: a dropped deployment may leave two, the next one then recreates in
  place), and a reload the pipeline waits for puts in force what is pinned at that moment
  (`OwnPass`: nothing pins while it waits). Types alone are not inductive: the `joined` of a pass
  needs the oldest of a non-empty set to be one of the service's.
- `InStep`: the workers run what is on disk unless a reload is under way or owed. It is why a pass
  that returns early may be trusted as much as one that reloads.
- `NoFault` is what holds however a service is started: one container, or two of which the proxy
  sends requests to one (`Alone`). It is all that can be said in the gap of a deployment in place.
- `OneFault` says, for every program point of a service not `recreated`, which containers there are
  and which the pin, the disk and the workers may name (`StartedBeside`). A deployment in place
  leaves it; it is entered again when one begins on a `Whole` service. `Apart` is the state before the new container joins
  the alias, `Both` the one after; `Settled` says the traffic has moved for good. The step to prove
  is the reconciler's: a pass at any of these points joins the *oldest* container and renders the
  pin of the moment, so it undoes none of them (`PassKeeps`). After one failure the pipeline is in
  `GivingUp` or further, and nobody reaches the new container unless it serves.

The last three assume `MaxFaults >= 2`: the deadline in `wait_listening` is a failure the bound
does not hold back, so with a lower bound a second failure would be counted as the first.

**`NginxApplyProofs`**: `TypeCorrect` (`ProxyTypes`), `LeadRemembered` (`AheadIsRemembered`) and `RestartSafe`
(`SafeToRestart`). In the middle of a pass the directory may be anything; the invariant `PassInv`
carries the properties through it on the *snapshot*, which is as good as the directory was and is
put back whole unless the pass is cut short.

**`LiveLogProofs`**: `TypeCorrect` (`TypeOK`), `ScreenIsRecord` (`ScreenMatchesRecord`),
`EndIsFinal` (`ClosedScreenIsFinal`) and `OutputIsWhole` (`OnlyTheOpenStepIsMissing`), for any
buffer and any number of steps, lines, failed writes, breaks, refusals and restarts. Replay and
events overlap: an event may tell of a step what is older than what the replay showed. The invariant
therefore speaks of what the page *will* show: what it holds (or will hold once the handler has got
that far), changed by what the bus still keeps for it.

- `Followed`: of each row, the deployment's and every step's, the last queued event about it tells
  what the row holds, or what it will be told in the pipeline's next step (`Pending`); where no
  event tells of it, the page holds it as it is. Said row by row (`Reached`), so no fold over the
  queue is needed, and a row whose write failed is simply left out. The step to prove is the page's
  `upsertStep`: taking the first event in leaves all of it true of the rest.
- `EndTold`: the same for the outcome alone, written or not: a page that will be closed will be told
  an end first.
- `Streamed`: the queue's lines are the last ones printed, in order, and those on the page are the
  ones right before (`Window`, `Kept`); any other recorded line is in the replay, or belongs to a
  step that was open there, or fell to the page's limit.
- `EngineRows`, `OpenSteps`, `Connection` and `Replay` say what each program point of the pipeline and
  of the handler may assume of the rows (only the last step is open, its output is still in the
  buffer) and of the connection. `Left` is what remains when the stream is closed.

They are claimed of a connection that missed no event in the ways `lost` names; the closed screen,
of one that missed a start at most.

The next four modules prove properties of the groups of section 2. Their theorems are about
`ProgramsSpec`, `StreamsSpec`, `EditorsSpec` and `TablesSpec`, each of which `MCClients`' `Spec`
implies; one lemma of each module (`ProgramMoves`, ...) says that a step of the group is a step of
the model in question or leaves it alone.

**`ProgramsProofs`**

- `RunsAccounted` (`RunsAreAccounted`), for a history that keeps at least one run (`Kept \in Nat \
  {0}`; `KEEP_RUNS` is 50). The property speaks of runs; the code keeps a claim, a row and a
  process, written at different moments. `TaskInv` ties them: one execution at a time and it is the
  run numbered last (`OneAtATime`), nothing has a row or a process that was not claimed
  (`Numbered`), and an open row is that of the execution under way (`Accounted`). The step to prove is retention: it never takes the open row.
- `NothingStaysBehind` (`NothingLeftBehind`), for any databases, programs and number of failures.
  `MigrationInv` follows the script's loops: what a loop has passed is done (`Created`, `Stopped`,
  `Copied`), the throwaway containers exist only inside the volumes' loop (`Throwaway`), and
  nothing is claimed of a script that failed, which starts again from the top, unless the request
  that failed was the last and was carried out.
- `VersionRuns` (`RecordedVersionRuns`) and `UpdaterProtected` (`ClaimProtectsTheUpdater`, an action
  property), for any versions and any number of starts, faults, timeouts, stale files and crashes.
  `DiskInv` says what the places a version is written to hold at each step of a script never
  cut short, and `OnStack` the same of the stack, unless the rollback's own recreate failed; the backup of the compose file stays the one of the version to go back to until the
  rollback is over. `ClaimInv` says whom the claim keeps apart while it can be believed: at most one
  launch, under a file that says "backup", beside no updater that swaps. It needs the launches to be
  numbered without gaps (`Numbered`): a claim adds one launch, not several.

**`StreamsProofs`**

- `QuietIsCurrent` (`QuietMeansCurrent`) and `NobodyStarves` (`NoStarvation`), for a bus that holds
  at least one event, a positive delay and any ceiling. `Told`: whenever the screen is behind, a
  read is due (an announcement waits, a timer runs, or the stream is about to open again) or one is
  under way that cannot have been answered too early, but for the first load that an invalidation
  joins after its answer (`dropped`). `UnderCeiling` carries the debounce: the time
  waited and what is left of the timer stay below `Ceiling + Delay`.
- `MarksHold` (`MarksSurvive`), for any projects, deployments and number of commands, and as many
  tabs as the limit on kept ids is enough for (`FewTabs`): `Keep >= (Tabs + 1) * ListedRows - 1`,
  which for the code's 20 and 100 is four tabs. The bound is exact in the model (with 2 tabs and 2
  listed, 5 is enough and 4 is not); the code limits no tabs, so with five left open on lists that
  have nothing in common a mark can be dropped. `Placed` is said of every deployment that keeps its
  place: the deployments a list can show below it are those of one list (`Beside`), and once it is
  marked there is a set with fewer members than ids are kept that holds all that can be marked
  after it (`Enough`): what stands below it, what can still come above it while it is listed, and
  the lists of the other tabs. What was stored behind it lies in that set (`Behind`), so the limit never
  reaches it. Counting carries the proof: `ListIsShort` (a list is as short as it was asked to
  be), `UnionIsShort` (the lists of several tabs together), `Trimmed` (the limit and what is behind).
- `ScreenIsAStretch` (`NothingRepeatedOrSkipped`), for any positive limits. `Onwards`: the lines that
  wait go on where those on screen ended, through pauses, changed limits and late timers. Only a
  backlog that was trimmed does not, and it then fills the screen alone when it is flushed.

**`EditorsProofs`**, for a range whose ends are integers in order and a positive step
(`EditorsAssumption`):

- `ValuesAreReachable` (`ValueIsReachable`). `NumberInv` asks it of every number the field may
  return to, not only of the one it shows: where an edit started and where a drag did. The lemmas
  are about `snap` and `stepFrom`: rounding to the grid, then to the limits, keeps to both.
- `QuietPageIsTrue` (`QuietMeansStored`) and `RemovalIsHarmless` (`RemovalKeepsTheHostname`, an
  action property). `Remembered`: whatever the page, a read under way or a removal holds was once
  stored, under a revision that settles its hostname. `Followed`: the page shows what is stored, or
  a request that wrote something is still to be answered (`Unanswered`), or failed after it wrote
  and no current read has landed since.
- `CleanCardIsTrue` (`CleanMeansStored`) and `TypingIsKept` (`TypingSurvives`, an action property).
  `Synced` is the same idea with several saves at once; `SentTexts`: any text a re-read may still
  take over was sent.
- `TextRoundTrips` (`EveryValueRoundTrips`), with `RowsReadBack` and `ReadIsTyped` it rests on: any
  list of rows, of any length and with any values, written as a `.env` text is read back as that
  list, if its keys are keys that can be read at all (`ReadKeys`: no `=`, line break, space at an end
  or leading `#`); and every key that *is* read is one of these, so rewriting a text keeps its rows.
  The format is a recursion over characters. The library's theorems on induction take an operator,
  so the induction goes over sets instead: a set of sequences that holds the empty one and, with
  each, those one longer, holds all (`LetterByLetter`, from the least number of a set).
  `FoldsExist` and `FoldsAgree` do the same for the library's folds. Each of the three passes then has
  an invariant per element: `Reads` for the characters between the quotes (each is escaped as the
  reading expects, and no quote in it closes the value), `LineAdded` for the lines (a row adds one),
  `RowIsRead` for the rows (what was read before it is left alone).

**`TablesProofs`**, with no assumption on the constants:

- `VisitorsArrive` (`DeepLinkSurvives`). `Asked`: where the visitor is, or the `next` of the page
  they are held at, is the page asked for last, or the one a sign-in they did not wait for leads to
  (`Bound`). A redirect to the set-up forgets `next`, and a visitor
  sent there while there is no account is taken to ask for "/". `SetUp` and `FormLeads` say why that
  is enough: an account appears only through the set-up form, so whoever is redirected by an answer
  from before it existed asks for "/" already.
- `ErrorsNameTheDone` (`ErrorNamesWhatWasDone`) and `CopiesAreNamedAfresh` (`CopiesGetFreeNames`), for
  any number of services. `Runs`: at most one request is out, over finitely many rows. `Counted`: what
  the run noted is what the manager did, in the middle of a run too, but for the service whose
  request is out or was the one that failed. `Reserved`: every name in use is
  either on the page's list (between runs) or in the run's `taken`. `FreeNameIsFree` says that
  `freeName`'s search ends: of one copy number more than names taken, one is free (the pigeonhole).
- `AddedRowsAreInsertedOnce` (`NothingWrittenTwice`). `Budget`: the rows inserted so far, with those
  the grid or a save would still insert, are never more than were added, so nothing the grid still
  holds may have been written. `InsertCounts` is the step both engines share: what an insert
  adds to the table is what the save has less to insert, whether it is all of it or one document.

Model-checked only:

- liveness (`QueuedSettles`, `Converges`, `PinWithdrawn`, `LearnsTheEnd`), which is out of this
  prover's reach;
- the models' own type invariants in `MCClients`: what a proof needs of types is in its invariant.

The eight properties that are violated (section 6) have nothing to prove.

## 6. Findings

1. **Joining a withdrawn deployment** (`deploy_join`). `trigger` joins a row that says `queued`,
   and a row says so after its cancel was accepted, after its task was dropped, and for good when
   `finish` could not write it. The comment in `trigger` says the one waiting "builds the same
   thing when its turn comes".
2. **A dropped apply never heals** (`nginx_drop`). `reload_pending` is set only when `reload`
   returns an error. A future dropped between `write` and `reload` (a cancelled or timed-out
   deployment) leaves the files equal to what is wanted and the flag false; every later pass
   returns early, and the proxy keeps the old configuration until the next change.
   `docs/architecture.md` says a missed event self-heals.
3. **A deployment cut short in its handover leaves its pin** (`handover_timeout`). Neither
   `unpin` nor `discard_new` runs. The next deployment finds two containers, recreates in place
   and succeeds while its vhost still names a container that is gone; only a restart of the
   manager, or another handover of that service, clears the pin.
4. **The outcome can fall into the gap** (`live_log_gap`). The handler reads the deployment's row,
   then subscribes "so nothing is lost in between". A deployment that settles between the two is
   replayed as unfinished and its closing events are gone: the page waits on an open stream, until
   that stream breaks.
5. **Deleting drops edits of rows it does not delete** (`studio_delete`). The selection survives
   paging. `deleteSelected` drops the edits of everything selected and queues deletes only for
   rows on screen; its comment says that a row both edited and deleted is only deleted.
6. **A rollback is not protected** (`self_update_rollback`). `update.sh` writes the final phase
   before it restores and recreates. A start in that window is let in, and its launch removes the
   updater's container while it recreates the stack, which is what the claim is there to prevent.
7. **Not every failure rolls back** (`self_update_abort`). The comment above `rollback` says that
   every failure after the version is written must come back through it. The `mv` of the fetched
   `compose.yml` and the state write before the recreate are not tested: when one fails, `set -e`
   ends the script with the new version recorded and the old containers running.
8. **A slow job piles up on itself** (`tasks_pile_up`). A run's deadline drops the wait for the
   command, not the command, and takes the task out of the running set; the next minute starts it
   again beside the first. The comment at `AlreadyRunning`, `docs/architecture.md` and
   `scheduled-tasks.tsx` say that this cannot happen.

## 7. Not modelled, and why

Parts with a protocol that have no model:

- *Certificates*: `issue_certificate`, renewal and upload against a domain that is renamed or
  deleted during the await, and the reload after a renewal.
- *Reconciler's timer*: its two-second debounce and two-minute sweep. The passes themselves are in
  `Handover` and `NginxApply`, where one may start at any moment; that one does start is assumed.
- *Service lifecycle beside a deployment*: stop, delete and move do not take the environment's lock.
- *Cron's calendar walk, backup, OAuth grants*: sequential code or one transaction per call.
- *Composition of `DeployQueue` with `Handover`*: the handover's outcomes are `Complete` and
  `StartFails` there.

Left out for good, and the larger part of the TypeScript: markup and layout (most of
`primitives.tsx`, `shell.tsx`, `ui/line-chart.tsx` and every route's JSX), type declarations and
one-line fetch wrappers (`lib/api.ts`), the generated route tree, charts, icons and styling. They
keep no state that outlives a render, or are erased before anything runs. Of the Rust:
rendering, checkout, compose parsing and validation (sequential, unit-tested), the query editor,
analytics and metrics (queries and aggregates), the MCP server (a stateless translation). The
installer and the smoke test are straight-line shell.

In the modelled components: `StudioTable` leaves out what Valkey does with a transaction one of
whose commands fails (the others are applied), and `NumberField` starts from a value within its
limits, which its caller owes it and the field itself does not check. Also the wording
of lines, events and errors, sorting and filtering that
only select from what is held, and every field of a form that no property tells apart from
another. Query caches are modelled where a stale copy can reach the screen.
