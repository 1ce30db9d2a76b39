------------------------------ MODULE LiveLog ------------------------------
(* One deployment's log on its way to one open page: the pipeline that records *)
(* and publishes it, the bus that fans it out, the handler that replays the    *)
(* record and then pumps the subscription, the browser's EventSource, and the  *)
(* page that folds the events into what it shows.  The pipeline and the        *)
(* handler are two threads; only the bus and each database call are atomic.    *)
(* What each line says is left out: a line is its number.  Steps are told apart *)
(* by their positions, which the timeline lists in order.                      *)
EXTENDS Naturals, Sequences, Functions

CONSTANTS Capacity,    \* events a subscription holds before publish drops (256 in the code)
          StepLines,   \* lines a step's record keeps (STEP_OUTPUT_LIMIT, 64 KiB)
          PageLines,   \* streamed lines the page keeps (MAX_LINES, 5000)
          MaxSteps, MaxLines, MaxFaults   \* bounds of the model

ASSUME BoundsAreNat ==
    /\ {Capacity, MaxSteps, MaxLines, MaxFaults} \subseteq Nat
    /\ {StepLines, PageLines} \subseteq Nat \ {0}

VARIABLES
    row, steps,               \* the deployment's row, its deployment_steps rows by position
    pc, outcome,              \* the pipeline: where it is, the outcome it publishes
    position, buf, printed,   \* its last step, that step's output, the lines so far
    unsaved,                  \* history: the rows, 0 the deployment's, whose write failed
    subscribed, queue,        \* the page's subscription on the bus
    request, replay,          \* the handler answering the page, and what it has read
    source, stream, live,     \* the page's EventSource, the state it shows, whether it wants one
    shown, shownSteps, backlog, lines,   \* DeploymentDetail's state
    lost,                     \* history: how an event missed this connection
    faults                    \* failed writes, breaks, refusals and crashes so far

engine  == <<row, steps, pc, outcome, position, buf, printed, unsaved>>
handler == <<request, replay>>
page    == <<source, stream, live, shown, shownSteps, backlog, lines>>
vars    == <<engine, subscribed, queue, handler, page, lost, faults>>

Outcomes == {"success", "failed", "cancelled"}
Statuses == {"queued", "running"} \cup Outcomes
Step(open, output) == [open |-> open, output |-> output]
NoReplay == [row |-> "queued", steps |-> <<>>]

\* Rows of steps, or the page's copies of them, with one written.
Put(rows, i, s) == [k \in DOMAIN rows \cup {i} |-> IF k = i THEN s ELSE rows[k]]
\* The last n of a sequence.
Latest(s, n) == IF Len(s) <= n THEN s ELSE SubSeq(s, Len(s) - n + 1, Len(s))

\* A text on the page is the set of its lines: they are numbered in the order they are printed.
Recorded(rows) == UNION {Range(rows[i].output) : i \in DOMAIN rows}

Log(n)         == [kind |-> "log", line |-> n]
StepRow(i, s)  == [kind |-> "step", index |-> i, step |-> s]
Result(status) == [kind |-> "deployment", status |-> status]
Closed         == [kind |-> "closed"]

Init ==
    /\ row = "queued" /\ steps = <<>>
    /\ pc = "queued" /\ outcome = "failed" /\ position = 0 /\ buf = <<>> /\ printed = 0
    /\ unsaved = {}
    /\ subscribed = FALSE /\ queue = <<>>
    /\ request = "none" /\ replay = NoReplay
    /\ source = "connecting" /\ stream = "connecting" /\ live = TRUE
    /\ shown = "unknown" /\ shownSteps = <<>> /\ backlog = {} /\ lines = <<>>
    /\ lost = {}
    /\ faults = 0

-----------------------------------------------------------------------------
\* Fault: a subscription holds whatever it is sent.
Publish_Unbounded(event) ==
    IF subscribed THEN queue' = Append(queue, event) /\ UNCHANGED lost
                  ELSE UNCHANGED <<queue, lost>>

(* The bus: a full subscription misses the event, and nobody waits for it. *)
Publish(event) ==
    IF ~subscribed
      THEN UNCHANGED <<queue, lost>>
      ELSE IF Len(queue) < Capacity
        THEN queue' = Append(queue, event) /\ UNCHANGED lost
        ELSE lost' = lost \cup {"overflow"} /\ UNCHANGED queue

(* The pipeline.  A row is written before the event that tells of it; a write that  *)
(* fails is logged, and the event is published all the same.                        *)
Fails(item) == /\ faults < MaxFaults /\ faults' = faults + 1
               /\ unsaved' = unsaved \cup {item}
Written == UNCHANGED <<unsaved, faults>>

Start ==
    /\ pc = "queued" /\ pc' = "started"
    /\ row' = "running"
    /\ UNCHANGED <<steps, outcome, position, buf, printed, unsaved, subscribed, queue, handler,
            page, lost, faults>>

TellStarted ==
    /\ pc = "started" /\ pc' = "between"
    /\ Publish(Result("running"))
    /\ UNCHANGED <<row, steps, outcome, position, buf, printed, unsaved, subscribed, handler,
            page, faults>>

Begin ==
    /\ pc = "between" /\ position < MaxSteps
    /\ position' = position + 1 /\ buf' = <<>> /\ pc' = "begun"
    /\ \/ steps' = Put(steps, position', Step(TRUE, <<>>)) /\ Written
       \/ Fails(position') /\ UNCHANGED steps
    /\ UNCHANGED <<row, outcome, printed, subscribed, queue, handler, page, lost>>

TellBegun ==
    /\ pc = "begun" /\ pc' = "open"
    /\ Publish(StepRow(position, Step(TRUE, <<>>)))
    /\ UNCHANGED <<row, steps, outcome, position, buf, printed, unsaved, subscribed, handler,
            page, faults>>

WriteLine ==
    /\ pc = "open" /\ printed < MaxLines
    /\ printed' = printed + 1
    /\ buf' = Latest(Append(buf, printed'), StepLines)
    /\ Publish(Log(printed'))
    /\ UNCHANGED <<row, steps, pc, outcome, position, unsaved, subscribed, handler, page, faults>>

\* The update of a step that has no row changes nothing, and is no error.
CloseStep ==
    /\ pc = "open" /\ pc' = "closing"
    /\ \/ /\ steps' = [k \in DOMAIN steps |-> IF k = position THEN Step(FALSE, buf) ELSE steps[k]]
          /\ Written
       \/ Fails(position) /\ UNCHANGED steps
    /\ UNCHANGED <<row, outcome, position, buf, printed, subscribed, queue, handler, page, lost>>

TellClosed ==
    /\ pc = "closing" /\ pc' = "between"
    /\ Publish(StepRow(position, Step(FALSE, buf)))
    /\ UNCHANGED <<row, steps, outcome, position, buf, printed, unsaved, subscribed, handler,
            page, faults>>

\* finish closes whatever step was open before it settles the row.  A deployment that never
\* ran was cancelled, or its row could not be read or written.
Settle ==
    /\ pc \in {"queued", "between"} /\ pc' = "settled"
    /\ outcome' \in IF pc = "queued" THEN {"failed", "cancelled"} ELSE Outcomes
    /\ \/ row' = outcome' /\ Written
       \/ Fails(0) /\ UNCHANGED row
    /\ UNCHANGED <<steps, position, buf, printed, subscribed, queue, handler, page, lost>>

\* finish cannot read a row the pipeline never read either: it settles nothing and tells nobody.
Unread ==
    /\ pc = "queued" /\ pc' = "done"
    /\ Fails(0)
    /\ UNCHANGED <<row, steps, outcome, position, buf, printed, subscribed, queue, handler,
            page, lost>>

\* Fault: the outcome is written and not published.
TellResult_Silent ==
    /\ pc = "settled" /\ pc' = "told"
    /\ UNCHANGED <<row, steps, outcome, position, buf, printed, unsaved, subscribed, queue,
            lost, handler, page, faults>>

TellResult ==
    /\ pc = "settled" /\ pc' = "told"
    /\ Publish(Result(outcome))
    /\ UNCHANGED <<row, steps, outcome, position, buf, printed, unsaved, subscribed, handler,
            page, faults>>

TellEnd ==
    /\ pc = "told" /\ pc' = "done"
    /\ Publish(Closed)
    /\ UNCHANGED <<row, steps, outcome, position, buf, printed, unsaved, subscribed, handler,
            page, faults>>

-----------------------------------------------------------------------------
(* GET /api/deployments/{id}/events: three reads in a fixed order. *)
ReadRow ==
    /\ pc # "dead" /\ source = "connecting" /\ request = "none"
    /\ request' = "read"
    /\ replay' = [NoReplay EXCEPT !.row = row]
    /\ UNCHANGED <<engine, subscribed, queue, page, lost, faults>>

\* A status told since the row was read is in neither the replay nor the subscription.
Subscribe ==
    /\ request = "read" /\ request' = "subscribed"
    /\ subscribed' = TRUE /\ queue' = <<>>
    /\ lost' = IF replay.row \in Outcomes THEN {}
               ELSE IF pc \in {"told", "done"} THEN {"ended"}
               ELSE IF replay.row = row \/ pc \in {"started", "settled"} THEN {} ELSE {"started"}
    /\ UNCHANGED <<engine, replay, page, faults>>

ListSteps ==
    /\ request = "subscribed" /\ request' = "listed"
    /\ replay' = [replay EXCEPT !.steps = steps]
    /\ UNCHANGED <<engine, subscribed, queue, page, lost, faults>>

\* Fault: the snapshot's steps do not bring the output they hold.
Snapshot_NoBacklog ==
    /\ request = "listed"
    /\ source' = "open" /\ stream' = "open"
    /\ shown' = replay.row /\ shownSteps' = replay.steps
    /\ backlog' = {} /\ lines' = <<>>
    /\ IF replay.row \in Outcomes
         THEN request' = "closing" /\ subscribed' = FALSE /\ queue' = <<>>
         ELSE request' = "pumping" /\ UNCHANGED <<subscribed, queue>>
    /\ UNCHANGED <<engine, replay, live, lost, faults>>

(* The first bytes: the source opens and the snapshot replaces what was shown.  A    *)
(* finished deployment gets a close instead of the subscription, which is dropped.   *)
Snapshot ==
    /\ request = "listed"
    /\ source' = "open" /\ stream' = "open"
    /\ shown' = replay.row /\ shownSteps' = replay.steps
    /\ backlog' = Recorded(replay.steps) /\ lines' = <<>>
    /\ IF replay.row \in Outcomes
         THEN request' = "closing" /\ subscribed' = FALSE /\ queue' = <<>>
         ELSE request' = "pumping" /\ UNCHANGED <<subscribed, queue>>
    /\ UNCHANGED <<engine, replay, live, lost, faults>>

-----------------------------------------------------------------------------
(* The page. *)
\* Fault: a step the page has is not replaced.
upsertStep_KeepsFirst(i, s) ==
    shownSteps' = IF i \in DOMAIN shownSteps THEN shownSteps ELSE Put(shownSteps, i, s)

upsertStep(i, s) == shownSteps' = Put(shownSteps, i, s)

\* The page closes its source, which drops the response and its subscription.
Hang ==
    /\ live' = FALSE /\ source' = "closed" /\ stream' = "connecting"
    /\ subscribed' = FALSE /\ queue' = <<>>
    /\ request' = "none" /\ replay' = NoReplay

ReceiveLog(event) ==
    /\ event.kind = "log"
    /\ lines' = Latest(Append(lines, event.line), PageLines)
    /\ UNCHANGED <<shown, shownSteps>>

ReceiveStep(event) ==
    /\ event.kind = "step"
    /\ upsertStep(event.index, event.step)
    /\ UNCHANGED <<shown, lines>>

ReceiveResult(event) ==
    /\ event.kind = "deployment"
    /\ shown' = event.status
    /\ UNCHANGED <<shownSteps, lines>>

Receive ==
    /\ request = "pumping" /\ source = "open" /\ queue # <<>>
    /\ LET event == Head(queue) IN ReceiveLog(event) \/ ReceiveStep(event) \/ ReceiveResult(event)
    /\ queue' = Tail(queue)
    /\ UNCHANGED <<engine, subscribed, handler, source, stream, live, backlog, lost, faults>>

ReceiveClosed ==
    /\ \/ request = "pumping" /\ queue # <<>> /\ Head(queue) = Closed
       \/ request = "closing"
    /\ Hang
    /\ UNCHANGED <<engine, shown, shownSteps, backlog, lines, lost, faults>>

(* What the page prints: the snapshot's output and the live lines, or, until a  *)
(* line has come, the output its steps hold.                                    *)
logLines == IF lines # <<>> THEN backlog \cup Range(lines) ELSE Recorded(shownSteps)

-----------------------------------------------------------------------------
(* Faults.  A stream that was open is retried by the browser; an answer other than  *)
(* 200 closes the source, and the page opens another one after three seconds.       *)
DropConnection ==
    /\ stream' = "lost" /\ lost' = {}
    /\ request' = "none" /\ replay' = NoReplay /\ subscribed' = FALSE /\ queue' = <<>>

Break ==
    /\ request # "none" /\ faults < MaxFaults
    /\ faults' = faults + 1
    /\ source' = "connecting"
    /\ DropConnection
    /\ UNCHANGED <<engine, live, shown, shownSteps, backlog, lines>>

Refused ==
    /\ live /\ source = "connecting" /\ request = "none"
    /\ \/ pc = "dead" /\ UNCHANGED faults
       \/ pc # "dead" /\ faults < MaxFaults /\ faults' = faults + 1
    /\ source' = "closed" /\ stream' = "lost"
    /\ UNCHANGED <<engine, subscribed, queue, handler, live, shown, shownSteps, backlog, lines,
            lost>>

\* Fault: the retry of a refused connection is left to the browser, which gives up on it.
Retry_Never == FALSE

Retry ==
    /\ live /\ source = "closed"
    /\ source' = "connecting"
    /\ UNCHANGED <<engine, subscribed, queue, handler, stream, live, shown, shownSteps,
            backlog, lines, lost, faults>>

\* The manager dies with the open step's output; a boot settles the row and leaves the step.
Crash ==
    /\ pc # "dead" /\ faults < MaxFaults
    /\ faults' = faults + 1
    /\ pc' = "dead" /\ buf' = <<>>
    /\ IF request = "none" THEN UNCHANGED <<stream, handler, subscribed, queue, source, lost>>
                           ELSE DropConnection /\ source' = "connecting"
    /\ UNCHANGED <<row, steps, outcome, position, printed, unsaved, live, shown, shownSteps,
            backlog, lines>>

Boot ==
    /\ pc = "dead" /\ pc' = "done"
    /\ row' = IF row \in Outcomes THEN row ELSE "failed"
    /\ UNCHANGED <<steps, outcome, position, buf, printed, unsaved, subscribed, queue, handler,
            page, lost, faults>>

-----------------------------------------------------------------------------
Pipeline == \/ Start \/ TellStarted \/ Begin \/ TellBegun \/ WriteLine \/ CloseStep \/ TellClosed
            \/ Settle \/ Unread \/ TellResult \/ TellEnd
Handler  == ReadRow \/ Subscribe \/ ListSteps \/ Snapshot
Page     == Receive \/ ReceiveClosed \/ Retry
Next     == Pipeline \/ Handler \/ Page \/ Break \/ Refused \/ Crash \/ Boot

Spec == Init /\ [][Next]_vars

(* The pipeline has a deadline and always ends; the manager is restarted by Docker;   *)
(* a request that reaches it is answered, and the browser runs its timers.            *)
FairSpec ==
    /\ Spec
    /\ WF_vars(Pipeline) /\ WF_vars(Boot)
    /\ WF_vars(Handler) /\ WF_vars(Page)

-----------------------------------------------------------------------------
TypeOK ==
    /\ row \in Statuses /\ outcome \in Outcomes
    /\ pc \in {"queued", "started", "between", "begun", "open", "closing", "settled", "told",
            "done", "dead"}
    /\ position \in 0..MaxSteps /\ printed \in 0..MaxLines /\ unsaved \subseteq 0..position
    /\ DOMAIN steps \subseteq 1..position
    /\ \A k \in DOMAIN steps : /\ steps[k].open \in BOOLEAN
                               /\ Range(steps[k].output) \subseteq 1..printed
    /\ subscribed \in BOOLEAN /\ Len(queue) <= Capacity /\ (queue # <<>> => subscribed)
    /\ request \in {"none", "read", "subscribed", "listed", "pumping", "closing"}
    /\ source \in {"connecting", "open", "closed"} /\ stream \in {"connecting", "open", "lost"}
    /\ live \in BOOLEAN
    /\ shown \in Statuses \cup {"unknown"}
    /\ lost \subseteq {"started", "ended", "overflow"}

\* Two sets of steps, recorded or shown, say the same of step k.
SameStep(a, b, k) == (k \in DOMAIN a <=> k \in DOMAIN b) /\ (k \in DOMAIN a => a[k] = b[k])

\* The page agrees with the database on every row whose writes all succeeded.
ShowsRecord ==
    /\ 0 \notin unsaved => shown = row
    /\ \A k \in (1..position) \ unsaved : SameStep(shownSteps, steps, k)

(* A page that has taken in everything its connection carried shows what the     *)
(* database holds, of each step and of the outcome, but for the rows whose write *)
(* failed, however the subscription, the replay and the pipeline's own writes    *)
(* overlapped: subscribing first costs duplicates, never a step, and one row     *)
(* that was not written spoils no other (deployment_events, upsertStep).         *)
AtRest == pc \in {"queued", "between", "open", "done"}
ScreenMatchesRecord == request = "pumping" /\ queue = <<>> /\ lost = {} /\ AtRest => ShowsRecord

(* Once the page has closed its stream it shows an end, the one the database     *)
(* recorded unless that write failed, and every recorded step: nothing corrects  *)
(* it afterwards.  Only an event the bus dropped, or an end that fell between    *)
(* the read row and the subscription, excuses it; a missed start does not.       *)
ClosedScreenIsFinal == ~live /\ lost \subseteq {"started"} => shown \in Outcomes /\ ShowsRecord

(* The lines a caught-up page lacks come before every line it streamed, and      *)
(* belong to the step that was open when its replay was read, unless the page    *)
(* streamed all it keeps: a finished step is in the snapshot or in the stream,   *)
(* whichever side of the subscription it closed on, nothing is missing in the    *)
(* middle, and a write that failed hides the lines of its own step only          *)
(* (DeploymentDetail's backlog, MAX_LINES).                                      *)
outputOf(k) == IF steps[k].open THEN buf ELSE steps[k].output
OnlyTheOpenStepIsMissing ==
    request = "pumping" /\ queue = <<>> /\ lost = {} /\ AtRest =>
        \A k \in DOMAIN steps \ unsaved : \A n \in Range(outputOf(k)) \ logLines :
            /\ \/ k \in DOMAIN replay.steps /\ replay.steps[k].open
               \/ Len(lines) = PageLines
            /\ \A m \in Range(lines) : n < m

(* Whatever breaks, is refused or restarts, the page learns that the deployment ended; *)
(* only an end that its row does not hold, or that the history variable lost names,    *)
(* can leave it waiting.                                                               *)
LearnsTheEnd == <>[](~live \/ lost \cap {"ended", "overflow"} # {} \/ 0 \in unsaved)

(* The claim of deployment_handlers.rs:25, "Subscribe before replaying so nothing is   *)
(* lost in between": a page that took in all its stream carried, with no event dropped *)
(* and every write done, knows that the deployment is over.                            *)
NothingLostInBetween ==
    request = "pumping" /\ queue = <<>> /\ pc = "done" /\ "overflow" \notin lost /\ unsaved = {} =>
        shown = row
=============================================================================
