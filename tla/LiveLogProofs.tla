--------------------------- MODULE LiveLogProofs ---------------------------
(* What holds of the live log for any bus capacity and any number of steps, lines,    *)
(* failed writes, broken connections and restarts: a page that has taken in all it     *)
(* was told shows the record, the screen it closes on is final, and what it lacks of   *)
(* the output belongs to the step that was open when its replay was read.              *)
(*                                                                                     *)
(* Progress reaches the page twice, as replayed rows and as events, and the two        *)
(* overlap.  The invariant therefore speaks of what the page WILL show: what it holds,  *)
(* or will hold once the handler has got that far, changed by what the bus still keeps  *)
(* for it.  It says so for each row by the last event that tells of it, so no fold over *)
(* the queue is needed, and a row whose write failed is simply left out.                *)
EXTENDS LiveLog, SequenceTheorems, TLAPS

-----------------------------------------------------------------------------
(* Rows and events.  Item 0 is the deployment's row, the others are its steps. *)
StepRecord == [open : BOOLEAN, output : Seq(Nat)]
Event == {Log(n) : n \in Nat} \cup {StepRow(i, s) : i \in Nat, s \in StepRecord}
            \cup {Result(x) : x \in Statuses} \cup {Closed}

\* What a status and some steps say of an item: one value, or none.
Value(status, rows, k) ==
    IF k = 0 THEN {status} ELSE IF k \in DOMAIN rows THEN {rows[k]} ELSE {}

About(e, k) == IF k = 0 THEN e.kind = "deployment" ELSE e.kind = "step" /\ e.index = k
Says(e)     == IF e.kind = "deployment" THEN {e.status} ELSE {e.step}

\* Whoever holds the value b of item k and takes in the queue ends with a value in W.
Reached(q, k, b, W) ==
    \/ (\A i \in 1..Len(q) : ~About(q[i], k)) /\ b \in W
    \/ \E i \in 1..Len(q) :
        About(q[i], k) /\ Says(q[i]) \in W /\ \A j \in 1..Len(q) : j > i => ~About(q[j], k)

\* The queue's lines are the ones after w, in order.
Window(q, w, n) ==
    /\ \A i \in 1..Len(q) : q[i].kind = "log" => q[i].line \in (w + 1)..n
    /\ \A m \in (w + 1)..n : \E i \in 1..Len(q) : q[i].kind = "log" /\ q[i].line = m
    /\ \A i, j \in 1..Len(q) :
        i < j /\ q[i].kind = "log" /\ q[j].kind = "log" => q[i].line < q[j].line

Ended(q) == q # <<>> /\ q[Len(q)].kind = "closed"

-----------------------------------------------------------------------------
(* The pipeline. *)
EngineTypes ==
    /\ row \in Statuses /\ outcome \in Outcomes
    /\ pc \in {"queued", "started", "between", "begun", "open", "closing", "settled", "told",
            "done", "dead"}
    /\ position \in 0..MaxSteps /\ printed \in 0..MaxLines /\ unsaved \subseteq 0..position
    /\ buf \in Seq(1..printed)
    /\ steps = [k \in DOMAIN steps |-> steps[k]] /\ DOMAIN steps \subseteq 1..position
    /\ \A k \in DOMAIN steps :
        /\ steps[k].open \in BOOLEAN /\ steps[k].output \in Seq(1..printed)
        /\ steps[k].open => steps[k].output = <<>>

\* What the rows hold at each place, as far as their writes succeeded.
EngineRows ==
    /\ pc = "queued" => row = "queued"
    /\ pc = "started" => row = "running"
    /\ row \in Outcomes => pc \in {"settled", "told", "done", "dead"}
    /\ pc = "settled" /\ 0 \notin unsaved => row = outcome
    /\ pc \in {"begun", "open", "closing"} => position > 0
    /\ pc \in {"begun", "open"} /\ position \notin unsaved =>
            position \in DOMAIN steps /\ steps[position] = Step(TRUE, <<>>)
    /\ pc = "closing" /\ position \notin unsaved =>
            position \in DOMAIN steps /\ steps[position] = Step(FALSE, buf)

\* Only the step the pipeline is in is open, and the ones a dead one left.
OpenSteps ==
    \A k \in DOMAIN steps \ unsaved : steps[k].open =>
        \/ k = position /\ pc \in {"begun", "open"}
        \/ pc \in {"dead", "done"} /\ buf = <<>>

-----------------------------------------------------------------------------
(* The connection. *)
Relaying == request \in {"subscribed", "listed", "pumping"}

Connection ==
    /\ request \in {"none", "read", "subscribed", "listed", "pumping", "closing"}
    /\ source \in {"connecting", "open", "closed"} /\ stream \in {"connecting", "open", "lost"}
    /\ live \in BOOLEAN /\ shown \in Statuses \cup {"unknown"}
    /\ lost \subseteq {"started", "ended", "overflow"}
    /\ subscribed = Relaying
    /\ queue \in Seq(Event) /\ Len(queue) <= Capacity /\ (queue # <<>> => subscribed)
    /\ request # "none" => source # "closed"
    /\ ~live => source = "closed"
    /\ pc = "dead" => request = "none"
    /\ \A i \in 1..Len(queue) : queue[i].kind = "closed" => i = Len(queue) /\ pc = "done"

Replay ==
    /\ replay = [row |-> replay.row, steps |-> replay.steps] /\ replay.row \in Statuses
    /\ request # "none" /\ replay.row \in Outcomes => row = replay.row
    /\ request \in {"listed", "pumping", "closing"} =>
        /\ \A k \in DOMAIN replay.steps :
            /\ replay.steps[k].open \in BOOLEAN
            /\ replay.steps[k].open => replay.steps[k].output = <<>>
        /\ \A k \in DOMAIN replay.steps \ unsaved : ~replay.steps[k].open =>
            k \in DOMAIN steps /\ steps[k] = replay.steps[k]
        /\ replay.row \in Outcomes => replay.steps = steps
    /\ request = "closing" =>
        replay.row \in Outcomes /\ shown = replay.row /\ shownSteps = replay.steps
    /\ request = "pumping" => backlog = Recorded(replay.steps)

-----------------------------------------------------------------------------
(* What reaches the page. *)
BaseRow   == IF request = "pumping" THEN shown ELSE replay.row
BaseSteps == IF request = "pumping" THEN shownSteps
             ELSE IF request = "listed" THEN replay.steps ELSE steps

Pending(k) ==
    \/ k = 0 /\ pc \in {"started", "settled"}
    \/ k # 0 /\ k = position /\ pc \in {"begun", "closing"}
Missed(k)  == k = 0 /\ "started" \in lost /\ pc \notin {"told", "done"}

Whole == subscribed /\ lost \subseteq {"started"}

Followed ==
    Whole => \A k \in (0..position) \ unsaved :
        Pending(k) \/ Missed(k)
            \/ Reached(queue, k, Value(BaseRow, BaseSteps, k), {Value(row, steps, k)})

\* The end is told before the stream is closed.
Endings == {{s} : s \in Outcomes}
EndTold ==
    Whole /\ (pc = "told" \/ Ended(queue)) =>
        Reached(queue, 0, {BaseRow}, Endings)

\* The streamed lines the page keeps follow one another up to the queue's, and a line before
\* them is in the replay, unless its step was open there or the page let it go.
Kept(w)  == /\ lines \in Seq(Nat) /\ Len(lines) <= PageLines /\ Len(lines) <= w
            /\ \A j \in 1..Len(lines) : lines[j] = (w - Len(lines)) + j
Floor(w) == IF request = "pumping" THEN w - Len(lines) ELSE w
Replayed(k, n) ==
    k \in DOMAIN replay.steps /\ (replay.steps[k].open \/ n \in Range(replay.steps[k].output))
Excess == request = "pumping" /\ Len(lines) = PageLines
OutputAt(w) ==
    \A k \in DOMAIN steps \ unsaved : \A n \in Range(outputOf(k)) :
        n > Floor(w) \/ Excess \/ Replayed(k, n)

StreamedFrom(w) ==
    /\ Window(queue, w, printed)
    /\ request = "pumping" => Kept(w)
    /\ request \in {"listed", "pumping"} => OutputAt(w)
Streamed == Whole => \E w \in 0..printed : StreamedFrom(w)

-----------------------------------------------------------------------------
\* A page that closed its stream shows the end.
Left ==
    ~live /\ lost \subseteq {"started"} =>
        /\ pc \in {"settled", "told", "done", "dead"}
        /\ shown \in Outcomes /\ ShowsRecord

Inv == EngineTypes /\ EngineRows /\ OpenSteps /\ Connection /\ Replay /\ Followed /\ EndTold
            /\ Streamed /\ Left

-----------------------------------------------------------------------------
(* Queues. *)
LEMMA Appended ==
  ASSUME NEW q \in Seq(Event), NEW e \in Event
  PROVE  /\ Append(q, e) \in Seq(Event) /\ Append(q, e) # <<>>
         /\ Len(q) \in Nat /\ Len(Append(q, e)) = Len(q) + 1
         /\ \A i \in 1..Len(q) : Append(q, e)[i] = q[i]
         /\ Append(q, e)[Len(q) + 1] = e
<1>1. Len(q) \in Nat
  OBVIOUS
<1>2. Append(q, e) \in Seq(Event) /\ Len(Append(q, e)) = Len(q) + 1
  OBVIOUS
<1>3. Append(q, e) # <<>>
  BY <1>1, <1>2
<1>4. \A i \in 1..Len(q) : Append(q, e)[i] = q[i]
  OBVIOUS
<1>5. Append(q, e)[Len(q) + 1] = e
  OBVIOUS
<1> QED BY <1>1, <1>2, <1>3, <1>4, <1>5

LEMMA Taken ==
  ASSUME NEW q \in Seq(Event), q # <<>>
  PROVE  /\ Head(q) = q[1] /\ Head(q) \in Event
         /\ Tail(q) \in Seq(Event) /\ Len(q) \in Nat \ {0} /\ Len(Tail(q)) = Len(q) - 1
         /\ \A i \in 1..Len(Tail(q)) : Tail(q)[i] = q[i + 1]
<1>1. Len(q) \in Nat \ {0}
  BY EmptySeq
<1>2. Head(q) = q[1]
  BY <1>1
<1> QED BY <1>1, <1>2, HeadTailProperties

\* What each event made by the pipeline is.
LEMMA Made ==
  /\ \A n \in Nat : Log(n) \in Event /\ Log(n).kind = "log" /\ Log(n).line = n
  /\ \A i \in Nat, s \in StepRecord :
        /\ StepRow(i, s) \in Event /\ StepRow(i, s).kind = "step"
        /\ StepRow(i, s).index = i /\ StepRow(i, s).step = s
  /\ \A x \in Statuses :
        Result(x) \in Event /\ Result(x).kind = "deployment" /\ Result(x).status = x
  /\ Closed \in Event /\ Closed.kind = "closed"
<1>1. ASSUME NEW n \in Nat PROVE Log(n) \in Event /\ Log(n).kind = "log" /\ Log(n).line = n
  BY DEF Event, Log
<1>2. ASSUME NEW i \in Nat, NEW s \in StepRecord
      PROVE  /\ StepRow(i, s) \in Event /\ StepRow(i, s).kind = "step"
             /\ StepRow(i, s).index = i /\ StepRow(i, s).step = s
  BY DEF Event, StepRow
<1>3. ASSUME NEW x \in Statuses
      PROVE  Result(x) \in Event /\ Result(x).kind = "deployment" /\ Result(x).status = x
  BY DEF Event, Result
<1>4. Closed \in Event /\ Closed.kind = "closed"
  BY DEF Event, Closed
<1> QED BY <1>1, <1>2, <1>3, <1>4

LEMMA MadeStep ==
  ASSUME NEW i \in Nat, NEW s \in StepRecord
  PROVE  StepRow(i, s) \in Event /\ StepRow(i, s).kind = "step"
BY Made

\* What an event of a kind holds.
LEMMA Told ==
  ASSUME NEW e \in Event
  PROVE  /\ e.kind \in {"log", "step", "deployment", "closed"}
         /\ e.kind = "deployment" => e.status \in Statuses
         /\ e = Closed <=> e.kind = "closed"
<1>1. CASE e \in {Log(n) : n \in Nat}
  BY <1>1 DEF Log, Closed
<1>2. CASE e \in {StepRow(i, s) : i \in Nat, s \in StepRecord}
  BY <1>2 DEF StepRow, Closed
<1>3. CASE e \in {Result(x) : x \in Statuses}
  BY <1>3 DEF Result, Closed
<1>4. CASE e = Closed
  BY <1>4 DEF Closed
<1> QED BY <1>1, <1>2, <1>3, <1>4 DEF Event

-----------------------------------------------------------------------------
(* What reaches the end of a queue. *)
LEMMA ReachedAtOnce ==
  ASSUME NEW k, NEW b, NEW W, b \in W
  PROVE  Reached(<<>>, k, b, W)
BY DEF Reached

LEMMA ReachedPast ==
  ASSUME NEW q \in Seq(Event), NEW e \in Event, NEW k, NEW b, NEW W, Reached(q, k, b, W),
         ~About(e, k)
  PROVE  Reached(Append(q, e), k, b, W)
<1> DEFINE a == Append(q, e)
<1>1. /\ Len(q) \in Nat /\ Len(a) = Len(q) + 1 /\ a[Len(q) + 1] = e
      /\ \A i \in 1..Len(q) : a[i] = q[i]
  BY Appended
<1> HIDE DEF a
<1>2. CASE (\A i \in 1..Len(q) : ~About(q[i], k)) /\ b \in W
  <2>1. \A i \in 1..Len(a) : ~About(a[i], k)
    <3> SUFFICES ASSUME NEW i \in 1..Len(a) PROVE ~About(a[i], k)
      OBVIOUS
    <3>1. i \in 1..Len(q) \/ i = Len(q) + 1
      BY <1>1
    <3> QED BY <1>1, <1>2, <3>1
  <2> QED BY <1>2, <2>1 DEF Reached
<1>3. ASSUME NEW i \in 1..Len(q), About(q[i], k), Says(q[i]) \in W,
             \A j \in 1..Len(q) : j > i => ~About(q[j], k)
      PROVE  Reached(a, k, b, W)
  <2>1. i \in 1..Len(a) /\ a[i] = q[i]
    BY <1>1
  <2>2. ASSUME NEW j \in 1..Len(a), j > i PROVE ~About(a[j], k)
    <3>1. j \in 1..Len(q) \/ j = Len(q) + 1
      BY <1>1
    <3> QED BY <1>1, <1>3, <2>2, <3>1
  <2> QED BY <1>3, <2>1, <2>2 DEF Reached
<1> QED BY <1>2, <1>3 DEF Reached, a

LEMMA ReachedTold ==
  ASSUME NEW q \in Seq(Event), NEW e \in Event, NEW k, NEW b, NEW W, About(e, k), Says(e) \in W
  PROVE  Reached(Append(q, e), k, b, W)
<1> DEFINE a == Append(q, e)
<1>1. Len(q) \in Nat /\ Len(a) = Len(q) + 1 /\ a[Len(q) + 1] = e
  BY Appended
<1> HIDE DEF a
<1>2. Len(q) + 1 \in 1..Len(a) /\ \A j \in 1..Len(a) : ~(j > Len(q) + 1)
  BY <1>1
<1> QED BY <1>1, <1>2 DEF Reached, a

LEMMA ReachedTaken ==
  ASSUME NEW q \in Seq(Event), q # <<>>, NEW k, NEW b, NEW W, Reached(q, k, b, W)
  PROVE  Reached(Tail(q), k, IF About(Head(q), k) THEN Says(Head(q)) ELSE b, W)
<1> DEFINE t == Tail(q)
           h == Head(q)
           c == IF About(h, k) THEN Says(h) ELSE b
<1>1. /\ Len(q) \in Nat \ {0} /\ Len(t) = Len(q) - 1 /\ h = q[1]
      /\ \A i \in 1..Len(t) : t[i] = q[i + 1]
  BY Taken
<1> HIDE DEF t, h
<1>2. CASE (\A i \in 1..Len(q) : ~About(q[i], k)) /\ b \in W
  <2>1. ~About(h, k) /\ \A i \in 1..Len(t) : ~About(t[i], k)
    BY <1>1, <1>2
  <2> QED BY <1>2, <2>1 DEF Reached, t, h
<1>3. ASSUME NEW i \in 1..Len(q), About(q[i], k), Says(q[i]) \in W,
             \A j \in 1..Len(q) : j > i => ~About(q[j], k)
      PROVE  Reached(t, k, c, W)
  <2>1. CASE i = 1
    <3>1. \A j \in 1..Len(t) : ~About(t[j], k)
      BY <1>1, <1>3, <2>1
    <3>2. c \in W
      BY <1>1, <1>3, <2>1
    <3> QED BY <3>1, <3>2 DEF Reached
  <2>2. CASE i # 1
    <3>1. i - 1 \in 1..Len(t) /\ t[i - 1] = q[i]
      BY <1>1, <2>2
    <3>2. \A j \in 1..Len(t) : j > i - 1 => ~About(t[j], k)
      BY <1>1, <1>3
    <3> QED BY <1>3, <3>1, <3>2 DEF Reached
  <2> QED BY <2>1, <2>2
<1> QED BY <1>2, <1>3 DEF Reached, t, h

\* A queue that says nothing more of the item leaves it as it is.
LEMMA ReachedQuiet ==
  ASSUME NEW q, NEW k, NEW b, NEW W, Reached(q, k, b, W), \A i \in 1..Len(q) : ~About(q[i], k)
  PROVE  b \in W
BY DEF Reached

-----------------------------------------------------------------------------
(* The pipeline's rows. *)
Engine == EngineTypes /\ EngineRows /\ OpenSteps

LEMMA LatestOf ==
  ASSUME NEW S, NEW s \in Seq(S), NEW n \in Nat \ {0}
  PROVE  /\ Latest(s, n) \in Seq(S) /\ Len(s) \in Nat
         /\ Len(Latest(s, n)) = IF Len(s) <= n THEN Len(s) ELSE n
         /\ \A j \in 1..Len(Latest(s, n)) : Latest(s, n)[j] = s[(Len(s) - Len(Latest(s, n))) + j]
<1>1. Len(s) \in Nat
  OBVIOUS
<1>2. CASE Len(s) <= n
  <2>1. Latest(s, n) = s
    BY <1>2 DEF Latest
  <2>2. \A j \in 1..Len(s) : (Len(s) - Len(s)) + j = j
    BY <1>1
  <2> QED BY <1>1, <1>2, <2>1, <2>2
<1>3. CASE ~(Len(s) <= n)
  <2> DEFINE m == Len(s) - n + 1
             t == SubSeq(s, m, Len(s))
  <2>1. Latest(s, n) = t
    BY <1>3 DEF Latest
  <2>2. m \in 1..Len(s) /\ Len(s) - m + 1 = n
    BY <1>1, <1>3
  <2>3. \A i \in m..Len(s) : s[i] \in S
    BY <1>1, <2>2, ElementOfSeq
  <2> HIDE DEF m
  <2>4. /\ t \in Seq(S) /\ Len(t) = IF m <= Len(s) THEN Len(s) - m + 1 ELSE 0
        /\ \A i \in 1..Len(s) - m + 1 : t[i] = s[m + i - 1]
    BY <1>1, <2>2, <2>3, SubSeqProperties
  <2> HIDE DEF t
  <2>5. Len(t) = n
    BY <1>1, <2>2, <2>4
  <2>6. \A j \in 1..n : (Len(s) - n) + j = m + j - 1
    BY <1>1 DEF m
  <2>7. \A j \in 1..n : t[j] = s[(Len(s) - n) + j]
    BY <2>2, <2>4, <2>6
  <2> QED BY <1>1, <1>3, <2>1, <2>4, <2>5, <2>7
<1> QED BY <1>2, <1>3

\* A line more in what a step keeps.
LEMMA OneMore ==
  ASSUME NEW n \in Nat, NEW b \in Seq(1..n)
  PROVE  /\ Latest(Append(b, n + 1), StepLines) \in Seq(1..(n + 1))
         /\ Range(Latest(Append(b, n + 1), StepLines)) \subseteq Range(b) \cup {n + 1}
<1> DEFINE a == Append(b, n + 1)
           l == Latest(a, StepLines)
<1>1. b \in Seq(1..(n + 1)) /\ n + 1 \in 1..(n + 1)
  BY SeqMonotonic
<1>2. a \in Seq(1..(n + 1)) /\ Len(b) \in Nat /\ Len(a) = Len(b) + 1
  BY <1>1
<1>3. (\A i \in 1..Len(b) : a[i] = b[i]) /\ a[Len(b) + 1] = n + 1
  BY <1>1
<1> HIDE DEF a
<1>4. /\ l \in Seq(1..(n + 1)) /\ Len(a) \in Nat
      /\ Len(l) = IF Len(a) <= StepLines THEN Len(a) ELSE StepLines
      /\ \A j \in 1..Len(l) : l[j] = a[(Len(a) - Len(l)) + j]
  BY <1>2, BoundsAreNat, LatestOf
<1> HIDE DEF l
<1>5. StepLines \in Nat
  BY BoundsAreNat
<1>6. Range(l) \subseteq Range(b) \cup {n + 1}
  <2> SUFFICES ASSUME NEW j \in DOMAIN l PROVE l[j] \in Range(b) \cup {n + 1}
    BY DEF Range
  <2>1. DOMAIN l = 1..Len(l) /\ DOMAIN b = 1..Len(b) /\ Len(l) \in Nat
    BY <1>1, <1>4, LenProperties
  <2>2. (Len(a) - Len(l)) + j \in 1..Len(a)
    BY <1>4, <1>5, <2>1
  <2>3. l[j] = a[(Len(a) - Len(l)) + j]
    BY <1>4, <2>1
  <2>4. (Len(a) - Len(l)) + j \in 1..Len(b) \/ (Len(a) - Len(l)) + j = Len(b) + 1
    BY <1>2, <2>2
  <2> QED BY <1>3, <2>1, <2>3, <2>4 DEF Range
<1> QED BY <1>4, <1>6 DEF a, l

-----------------------------------------------------------------------------
\* The pipeline's own actions keep its rows, and so does everything else.
LEMMA StartEngine == Engine /\ (Start \/ TellStarted \/ TellResult \/ TellEnd) => Engine'
<1> SUFFICES ASSUME Engine, Start \/ TellStarted \/ TellResult \/ TellEnd PROVE Engine'
  OBVIOUS
<1>1. UNCHANGED <<steps, outcome, position, buf, printed, unsaved>>
  BY DEF Start, TellStarted, TellResult, TellEnd
<1>2. \/ pc = "queued" /\ pc' = "started" /\ row' = "running"
      \/ /\ row' = row
         /\ \/ pc = "started" /\ pc' = "between"
            \/ pc = "settled" /\ pc' = "told"
            \/ pc = "told" /\ pc' = "done"
  BY DEF Start, TellStarted, TellResult, TellEnd
<1>3. EngineTypes'
  BY <1>1, <1>2 DEF Engine, EngineTypes, Statuses
<1>4. EngineRows'
  BY <1>1, <1>2 DEF Engine, EngineRows, Outcomes
<1>5. OpenSteps'
  BY <1>1, <1>2 DEF Engine, OpenSteps
<1> QED BY <1>3, <1>4, <1>5 DEF Engine

LEMMA BeginEngine == Engine /\ Begin => Engine'
<1> SUFFICES ASSUME Engine, Begin PROVE Engine'
  OBVIOUS
<1> DEFINE p == position + 1
<1>1. /\ pc = "between" /\ pc' = "begun" /\ position < MaxSteps /\ position' = p /\ buf' = <<>>
      /\ UNCHANGED <<row, outcome, printed>>
  BY DEF Begin
<1>2. /\ position \in Nat /\ p \in 1..MaxSteps /\ p \notin 0..position /\ 0..position \subseteq 0..p
      /\ p # 0
  BY <1>1, BoundsAreNat DEF Engine, EngineTypes
<1>3. /\ row \in Statuses /\ row \notin Outcomes /\ row = row' /\ outcome' \in Outcomes
      /\ printed' \in 0..MaxLines
  BY <1>1 DEF Engine, EngineTypes, EngineRows
<1>4. buf' \in Seq(1..printed')
  BY <1>1
<1>5. \A k \in DOMAIN steps \ unsaved : ~steps[k].open
  BY <1>1 DEF Engine, OpenSteps, EngineTypes
<1>6. CASE steps' = Put(steps, p, Step(TRUE, <<>>)) /\ unsaved' = unsaved
  <2>1. /\ DOMAIN steps' = DOMAIN steps \cup {p} /\ steps' = [k \in DOMAIN steps' |-> steps'[k]]
        /\ steps'[p] = Step(TRUE, <<>>) /\ \A k \in DOMAIN steps : k # p => steps'[k] = steps[k]
    BY <1>6 DEF Put
  <2>2. Step(TRUE, <<>>).open = TRUE /\ Step(TRUE, <<>>).output = <<>>
    BY DEF Step
  <2>3. p \notin DOMAIN steps /\ DOMAIN steps \subseteq 1..position /\ unsaved \subseteq 0..position
    BY <1>2 DEF Engine, EngineTypes
  <2>4. \A k \in DOMAIN steps' :
          /\ steps'[k].open \in BOOLEAN /\ steps'[k].output \in Seq(1..printed')
          /\ steps'[k].open => steps'[k].output = <<>>
    <3> SUFFICES ASSUME NEW k \in DOMAIN steps'
                 PROVE  /\ steps'[k].open \in BOOLEAN /\ steps'[k].output \in Seq(1..printed')
                        /\ steps'[k].open => steps'[k].output = <<>>
      OBVIOUS
    <3>1. CASE k = p
      <4>1. steps'[k] = Step(TRUE, <<>>) /\ <<>> \in Seq(1..printed')
        BY <2>1, <3>1, EmptySeq
      <4> QED BY <2>2, <4>1
    <3>2. CASE k # p
      <4>1. k \in DOMAIN steps /\ steps'[k] = steps[k] /\ printed' = printed
        BY <1>1, <2>1, <3>2
      <4> QED BY <4>1 DEF Engine, EngineTypes
    <3> QED BY <3>1, <3>2
  <2>5. position' \in 0..MaxSteps /\ unsaved' \subseteq 0..position' /\ DOMAIN steps' \subseteq 1..position'
    <3>1. position' \in 0..MaxSteps
      BY <1>1, <1>2, BoundsAreNat
    <3>2. unsaved' \subseteq 0..position'
      BY <1>1, <1>2, <1>6, <2>3
    <3>3. DOMAIN steps' \subseteq 1..position'
      BY <1>1, <1>2, <2>1, <2>3
    <3> QED BY <3>1, <3>2, <3>3
  <2>8. EngineTypes'
    BY <1>1, <1>3, <1>4, <2>1, <2>4, <2>5 DEF EngineTypes
  <2>6. EngineRows'
    BY <1>1, <1>2, <1>3, <2>1 DEF EngineRows
  <2>7. OpenSteps'
    BY <1>1, <1>5, <1>6, <2>1, <2>3 DEF OpenSteps
  <2> QED BY <2>6, <2>7, <2>8 DEF Engine
<1>7. CASE unsaved' = unsaved \cup {p} /\ steps' = steps
  <2>1. EngineTypes'
    BY <1>1, <1>2, <1>3, <1>4, <1>7 DEF Engine, EngineTypes
  <2>2. EngineRows'
    BY <1>1, <1>2, <1>3, <1>7 DEF EngineRows
  <2>3. OpenSteps'
    BY <1>1, <1>5, <1>7 DEF OpenSteps
  <2> QED BY <2>1, <2>2, <2>3 DEF Engine
<1> QED BY <1>1, <1>6, <1>7 DEF Begin, Fails, Written

LEMMA TellEngine == Engine /\ (TellBegun \/ TellClosed) => Engine'
<1> SUFFICES ASSUME Engine, TellBegun \/ TellClosed PROVE Engine'
  OBVIOUS
<1>1. /\ UNCHANGED <<row, steps, outcome, position, buf, printed, unsaved>>
      /\ \/ pc = "begun" /\ pc' = "open"
         \/ pc = "closing" /\ pc' = "between"
  BY DEF TellBegun, TellClosed
<1>2. EngineTypes' /\ EngineRows'
  BY <1>1 DEF Engine, EngineTypes, EngineRows
<1>3. OpenSteps'
  BY <1>1 DEF Engine, OpenSteps
<1> QED BY <1>2, <1>3 DEF Engine

LEMMA WriteLineEngine == Engine /\ WriteLine => Engine'
<1> SUFFICES ASSUME Engine, WriteLine PROVE Engine'
  OBVIOUS
<1>1. /\ pc = "open" /\ printed < MaxLines /\ printed' = printed + 1
      /\ buf' = Latest(Append(buf, printed + 1), StepLines)
      /\ UNCHANGED <<row, steps, pc, outcome, position, unsaved>>
  BY DEF WriteLine
<1>2. printed \in Nat /\ printed' \in 0..MaxLines
  BY <1>1, BoundsAreNat DEF Engine, EngineTypes
<1>3. buf' \in Seq(1..printed')
  BY <1>1, <1>2, OneMore DEF Engine, EngineTypes
<1>4. \A k \in DOMAIN steps : steps[k].output \in Seq(1..printed')
  <2> SUFFICES ASSUME NEW k \in DOMAIN steps PROVE steps[k].output \in Seq(1..printed')
    OBVIOUS
  <2>1. steps[k].output \in Seq(1..printed) /\ 1..printed \subseteq 1..printed'
    BY <1>1, <1>2 DEF Engine, EngineTypes
  <2> QED BY <2>1, SeqMonotonic
<1>5. EngineTypes'
  BY <1>1, <1>2, <1>3, <1>4 DEF Engine, EngineTypes
<1>6. EngineRows'
  BY <1>1 DEF Engine, EngineRows
<1>7. OpenSteps'
  BY <1>1 DEF Engine, OpenSteps
<1> QED BY <1>5, <1>6, <1>7 DEF Engine

LEMMA CloseStepEngine == Engine /\ CloseStep => Engine'
<1> SUFFICES ASSUME Engine, CloseStep PROVE Engine'
  OBVIOUS
<1>1. /\ pc = "open" /\ pc' = "closing"
      /\ UNCHANGED <<row, outcome, position, buf, printed>>
  BY DEF CloseStep
<1>2. CASE /\ steps' = [k \in DOMAIN steps |-> IF k = position THEN Step(FALSE, buf) ELSE steps[k]]
           /\ unsaved' = unsaved
  <2>1. Step(FALSE, buf).open = FALSE /\ Step(FALSE, buf).output = buf
    BY DEF Step
  <2>2. /\ DOMAIN steps' = DOMAIN steps /\ steps' = [k \in DOMAIN steps' |-> steps'[k]]
        /\ \A k \in DOMAIN steps : steps'[k] = IF k = position THEN Step(FALSE, buf) ELSE steps[k]
    BY <1>2
  <2>3. EngineTypes'
    BY <1>1, <1>2, <2>1, <2>2 DEF Engine, EngineTypes
  <2>4. EngineRows'
    BY <1>1, <1>2, <2>2 DEF Engine, EngineRows
  <2>5. OpenSteps'
    BY <1>1, <1>2, <2>1, <2>2 DEF Engine, OpenSteps
  <2> QED BY <2>3, <2>4, <2>5 DEF Engine
<1>3. CASE unsaved' = unsaved \cup {position} /\ steps' = steps
  <2>1. EngineTypes'
    BY <1>1, <1>3 DEF Engine, EngineTypes
  <2>2. EngineRows'
    BY <1>1, <1>3 DEF Engine, EngineTypes, EngineRows
  <2>3. OpenSteps'
    BY <1>1, <1>3 DEF Engine, OpenSteps
  <2> QED BY <2>1, <2>2, <2>3 DEF Engine
<1> QED BY <1>2, <1>3 DEF CloseStep, Fails, Written

LEMMA SettleEngine == Engine /\ (Settle \/ Unread) => Engine'
<1> SUFFICES ASSUME Engine, Settle \/ Unread PROVE Engine'
  OBVIOUS
<1>1. /\ UNCHANGED <<steps, position, buf, printed>>
      /\ \/ pc \in {"queued", "between"} /\ pc' = "settled"
         \/ pc = "queued" /\ pc' = "done" /\ 0 \in unsaved'
  BY DEF Settle, Unread, Fails
<1>2. /\ outcome' \in Outcomes /\ row' \in Statuses /\ unsaved' \subseteq 0..position /\ unsaved \subseteq unsaved'
      /\ row' = outcome' \/ (row' = row /\ 0 \in unsaved')
      /\ row' \in Outcomes => pc' \in {"settled", "done"}
  <2>1. 0 \in 0..position /\ unsaved \subseteq 0..position /\ row \in Statuses /\ outcome \in Outcomes
    BY DEF Engine, EngineTypes
  <2>2. CASE Settle
    BY <2>1, <2>2 DEF Settle, Fails, Written, Outcomes, Statuses
  <2>3. CASE Unread
    BY <2>1, <2>3 DEF Unread, Fails
  <2> QED BY <2>2, <2>3
<1>3. EngineTypes'
  BY <1>1, <1>2 DEF Engine, EngineTypes
<1>4. EngineRows'
  BY <1>1, <1>2 DEF Engine, EngineRows
<1>5. OpenSteps'
  BY <1>1, <1>2 DEF Engine, OpenSteps
<1> QED BY <1>3, <1>4, <1>5 DEF Engine

LEMMA RestartEngine == Engine /\ (Crash \/ Boot) => Engine'
<1>1. ASSUME Engine, Crash PROVE Engine'
  <2>1. /\ pc' = "dead" /\ buf' = <<>> /\ UNCHANGED <<row, steps, outcome, position, printed, unsaved>>
    BY <1>1 DEF Crash
  <2>2. EngineTypes'
    BY <1>1, <2>1 DEF Engine, EngineTypes
  <2>3. EngineRows' /\ OpenSteps'
    BY <1>1, <2>1 DEF Engine, EngineRows, OpenSteps
  <2> QED BY <2>2, <2>3 DEF Engine
<1>2. ASSUME Engine, Boot PROVE Engine'
  <2>1. /\ pc = "dead" /\ pc' = "done" /\ row' \in {row, "failed"}
        /\ UNCHANGED <<steps, outcome, position, buf, printed, unsaved>>
    BY <1>2 DEF Boot
  <2>2. EngineTypes'
    BY <1>2, <2>1 DEF Engine, EngineTypes, Statuses, Outcomes
  <2>3. EngineRows'
    BY <1>2, <2>1 DEF Engine, EngineRows
  <2>4. OpenSteps'
    BY <1>2, <2>1 DEF Engine, OpenSteps
  <2> QED BY <2>2, <2>3, <2>4 DEF Engine
<1> QED BY <1>1, <1>2

\* The handler's, the page's and the network's actions leave the pipeline alone.
Outside == Handler \/ Page \/ Break \/ Refused

LEMMA OutsideEngine == Outside => UNCHANGED engine
BY DEF Outside, Handler, ReadRow, Subscribe, ListSteps, Snapshot, Page, Receive, ReceiveClosed,
   Retry, Break, Refused

LEMMA EngineKept == Engine /\ [Next]_vars => Engine'
<1>1. Engine /\ UNCHANGED engine => Engine'
  BY DEF engine, Engine, EngineTypes, EngineRows, OpenSteps
<1> QED BY <1>1, StartEngine, BeginEngine, TellEngine, WriteLineEngine, CloseStepEngine,
           SettleEngine, RestartEngine, OutsideEngine DEF Next, Pipeline, Outside, vars

-----------------------------------------------------------------------------
(* The connection. *)

\* What the bus does with an event.
LEMMA Published ==
  ASSUME NEW e, Publish(e)
  PROVE  \/ ~subscribed /\ UNCHANGED <<queue, lost>>
         \/ subscribed /\ Len(queue) < Capacity /\ queue' = Append(queue, e) /\ lost' = lost
         \/ subscribed /\ queue' = queue /\ lost' = lost \cup {"overflow"}
BY DEF Publish

\* What the pipeline tells of, and when.
LEMMA PipelineTells ==
  ASSUME Engine, Pipeline
  PROVE  /\ UNCHANGED <<subscribed, handler, page>>
         /\ pc # "done" /\ pc # "dead" /\ pc' # "dead"
         /\ \/ UNCHANGED <<queue, lost>>
            \/ \E e \in Event :
                Publish(e) /\ (e.kind = "closed" => pc' = "done") /\ (e.kind = "log" => WriteLine)
<1>1. UNCHANGED <<subscribed, handler, page>> /\ pc # "done" /\ pc # "dead" /\ pc' # "dead"
  BY DEF Pipeline, Start, TellStarted, Begin, TellBegun, WriteLine, CloseStep, TellClosed, Settle,
     Unread, TellResult, TellEnd
<1>2. CASE Start \/ Begin \/ CloseStep \/ Settle \/ Unread
  BY <1>2 DEF Start, Begin, CloseStep, Settle, Unread
<1>3. /\ "running" \in Statuses /\ outcome \in Statuses /\ position \in Nat
      /\ Step(TRUE, <<>>) \in StepRecord /\ Step(FALSE, buf) \in StepRecord
  <2>1. outcome \in Outcomes /\ position \in 0..MaxSteps /\ printed \in 0..MaxLines
    BY DEF Engine, EngineTypes
  <2>2. 1..printed \subseteq Nat
    OBVIOUS
  <2>3. buf \in Seq(Nat)
    BY <2>2, SeqMonotonic DEF Engine, EngineTypes
  <2>4. <<>> \in Seq(Nat)
    BY EmptySeq
  <2>5. Step(TRUE, <<>>) \in StepRecord
    BY <2>4 DEF Step, StepRecord
  <2>6. Step(FALSE, buf) \in StepRecord
    BY <2>3 DEF Step, StepRecord
  <2>7. position \in Nat
    BY <2>1, BoundsAreNat
  <2> QED BY <2>1, <2>5, <2>6, <2>7 DEF Statuses
<1>4. CASE TellStarted
  <2>1. Result("running") \in Event /\ Result("running").kind = "deployment"
    BY <1>3, Made
  <2> QED BY <1>1, <1>4, <2>1 DEF TellStarted
<1>5. CASE TellBegun
  <2>1. /\ StepRow(position, Step(TRUE, <<>>)) \in Event
        /\ StepRow(position, Step(TRUE, <<>>)).kind = "step"
    BY <1>3, MadeStep, Zenon
  <2> QED BY <1>1, <1>5, <2>1 DEF TellBegun
<1>6. CASE WriteLine
  <2>1. printed' \in Nat /\ Publish(Log(printed'))
    BY <1>6, BoundsAreNat DEF WriteLine, Engine, EngineTypes
  <2>2. Log(printed') \in Event /\ Log(printed').kind = "log"
    BY <2>1, Made
  <2> QED BY <1>1, <1>6, <2>1, <2>2
<1>7. CASE TellClosed
  <2>1. /\ StepRow(position, Step(FALSE, buf)) \in Event
        /\ StepRow(position, Step(FALSE, buf)).kind = "step"
    BY <1>3, MadeStep, Zenon
  <2> QED BY <1>1, <1>7, <2>1 DEF TellClosed
<1>8. CASE TellResult
  <2>1. Result(outcome) \in Event /\ Result(outcome).kind = "deployment"
    BY <1>3, Made
  <2> QED BY <1>1, <1>8, <2>1 DEF TellResult
<1>9. CASE TellEnd
  <2>1. Closed \in Event /\ Closed.kind # "log"
    BY Made
  <2> QED BY <1>1, <1>9, <2>1 DEF TellEnd
<1> QED BY <1>1, <1>2, <1>4, <1>5, <1>6, <1>7, <1>8, <1>9 DEF Pipeline

LEMMA PipelineConnection == Engine /\ Connection /\ Pipeline => Connection'
<1> SUFFICES ASSUME Engine, Connection, Pipeline PROVE Connection'
  OBVIOUS
<1>1. /\ UNCHANGED <<subscribed, request, source, stream, live, shown>>
      /\ pc # "done" /\ pc # "dead" /\ pc' # "dead"
  BY PipelineTells DEF handler, page
<1>2. /\ queue \in Seq(Event) /\ Len(queue) <= Capacity /\ Len(queue) \in Nat
      /\ \A i \in 1..Len(queue) : queue[i].kind # "closed"
  BY <1>1 DEF Connection
<1> DEFINE Good ==
           /\ queue' \in Seq(Event) /\ Len(queue') <= Capacity /\ (queue' # <<>> => subscribed)
           /\ \A i \in 1..Len(queue') : queue'[i].kind = "closed" => i = Len(queue') /\ pc' = "done"
           /\ lost' \subseteq {"started", "ended", "overflow"}
<1>3. Good
  <2>1. CASE UNCHANGED <<queue, lost>>
    BY <1>1, <1>2, <2>1 DEF Connection
  <2>2. ASSUME NEW e \in Event, Publish(e), e.kind = "closed" => pc' = "done"
        PROVE  Good
    <3>1. CASE ~subscribed /\ UNCHANGED <<queue, lost>>
      BY <1>1, <1>2, <3>1 DEF Connection
    <3>2. CASE subscribed /\ queue' = queue /\ lost' = lost \cup {"overflow"}
      BY <1>1, <1>2, <3>2 DEF Connection
    <3>3. CASE subscribed /\ Len(queue) < Capacity /\ queue' = Append(queue, e) /\ lost' = lost
      <4>1. /\ queue' \in Seq(Event) /\ Len(queue') = Len(queue) + 1
            /\ \A i \in 1..Len(queue) : queue'[i] = queue[i]
            /\ queue'[Len(queue) + 1] = e
        BY <1>2, <3>3, Appended
      <4>2. Len(queue') <= Capacity
        BY <1>2, <3>3, <4>1, BoundsAreNat
      <4>3. ASSUME NEW i \in 1..Len(queue'), queue'[i].kind = "closed"
            PROVE  i = Len(queue') /\ pc' = "done"
        <5>1. i \in 1..Len(queue) \/ i = Len(queue) + 1
          BY <1>2, <4>1
        <5> QED BY <1>2, <2>2, <4>1, <4>3, <5>1
      <4> QED BY <3>3, <4>1, <4>2, <4>3 DEF Connection
    <3> QED BY <2>2, <3>1, <3>2, <3>3, Published
  <2> QED BY <2>1, <2>2, PipelineTells
<1> QED BY <1>1, <1>3 DEF Connection, Relaying

\* A connection that has ended, or one with nothing in its queue, keeps the rest.
LEMMA NoQueue ==
  ASSUME queue' = <<>>
  PROVE  /\ queue' \in Seq(Event) /\ Len(queue') <= Capacity
         /\ \A i \in 1..Len(queue') : queue'[i].kind = "closed" => i = Len(queue') /\ pc' = "done"
<1>1. <<>> \in Seq(Event) /\ Len(<<>>) = 0
  BY EmptySeq
<1> QED BY <1>1, BoundsAreNat

LEMMA HandlerConnection == Connection /\ Replay /\ Handler => Connection'
<1> SUFFICES ASSUME Connection, Replay, Handler PROVE Connection'
  OBVIOUS
<1>1. UNCHANGED <<pc, live>>
  BY DEF Handler, ReadRow, Subscribe, ListSteps, Snapshot, engine, page
<1>2. CASE ReadRow
  BY <1>1, <1>2 DEF Connection, Relaying, ReadRow, page
<1>3. CASE Subscribe
  <2>1. /\ request = "read" /\ request' = "subscribed" /\ subscribed' = TRUE /\ queue' = <<>>
        /\ lost' \subseteq {"started", "ended", "overflow"}
        /\ UNCHANGED <<source, stream, shown>>
    BY <1>3 DEF Subscribe, page
  <2> QED BY <1>1, <2>1, NoQueue DEF Connection, Relaying
<1>4. CASE ListSteps
  BY <1>1, <1>4 DEF Connection, Relaying, ListSteps, page
<1>5. CASE Snapshot
  <2>1. /\ request = "listed" /\ source' = "open" /\ stream' = "open" /\ shown' = replay.row
        /\ lost' = lost
        /\ \/ request' = "closing" /\ subscribed' = FALSE /\ queue' = <<>> /\ replay.row \in Outcomes
           \/ request' = "pumping" /\ UNCHANGED <<subscribed, queue>>
    BY <1>5 DEF Snapshot
  <2>2. live /\ pc # "dead" /\ replay.row \in Statuses
    BY <2>1 DEF Connection, Replay
  <2>3. CASE request' = "closing" /\ subscribed' = FALSE /\ queue' = <<>>
    <3>1. /\ queue' \in Seq(Event) /\ Len(queue') <= Capacity
          /\ \A i \in 1..Len(queue') : queue'[i].kind = "closed" => i = Len(queue') /\ pc' = "done"
      BY <2>3, NoQueue
    <3>2. ~Relaying' /\ Relaying' \in BOOLEAN
      BY <2>3 DEF Relaying
    <3>3. subscribed' = Relaying' /\ (queue' # <<>> => subscribed')
      BY <2>3, <3>2
    <3>4. /\ source' # "closed" /\ lost' \subseteq {"started", "ended", "overflow"}
          /\ shown' \in Statuses \cup {"unknown"} /\ live' \in BOOLEAN
      BY <1>1, <2>1, <2>2 DEF Connection
    <3> QED BY <1>1, <2>1, <2>2, <2>3, <3>1, <3>3, <3>4 DEF Connection
  <2>4. CASE request' = "pumping" /\ UNCHANGED <<subscribed, queue>>
    BY <1>1, <2>1, <2>2, <2>4 DEF Connection, Relaying
  <2> QED BY <2>1, <2>3, <2>4
<1> QED BY <1>2, <1>3, <1>4, <1>5 DEF Handler

\* A dropped connection: nothing is subscribed and nothing is queued.
LEMMA DroppedConnection ==
  ASSUME Connection, request' = "none", subscribed' = FALSE, queue' = <<>>,
         source' \in {"connecting", "closed"}, stream' \in {"connecting", "open", "lost"},
         live' \in BOOLEAN, ~live' => source' = "closed", shown' = shown,
         lost' \subseteq {"started", "ended", "overflow"}
  PROVE  Connection'
<1>1. /\ queue' \in Seq(Event) /\ Len(queue') <= Capacity
      /\ \A i \in 1..Len(queue') : queue'[i].kind = "closed" => i = Len(queue') /\ pc' = "done"
  BY NoQueue
<1>2. ~Relaying' /\ Relaying' \in BOOLEAN
  BY DEF Relaying
<1>3. subscribed' = Relaying' /\ (queue' # <<>> => subscribed')
  BY <1>2
<1> QED BY <1>1, <1>3 DEF Connection

\* Without a request there is no subscription and no queue.
LEMMA NoRequest ==
  ASSUME Connection, request = "none"
  PROVE  subscribed = FALSE /\ queue = <<>>
<1>1. ~Relaying /\ Relaying \in BOOLEAN
  BY DEF Relaying
<1> QED BY <1>1 DEF Connection

LEMMA PageConnection == Connection /\ Page => Connection'
<1> SUFFICES ASSUME Connection, Page PROVE Connection'
  OBVIOUS
<1>1. CASE Receive
  <2>1. /\ request = "pumping" /\ queue # <<>> /\ queue' = Tail(queue)
        /\ ReceiveLog(Head(queue)) \/ ReceiveStep(Head(queue)) \/ ReceiveResult(Head(queue))
        /\ UNCHANGED <<pc, subscribed, request, source, stream, live, lost>>
    BY <1>1 DEF Receive, engine, handler
  <2>2. /\ Head(queue) \in Event /\ Tail(queue) \in Seq(Event) /\ Len(queue) \in Nat \ {0}
        /\ Len(Tail(queue)) = Len(queue) - 1
        /\ \A i \in 1..Len(Tail(queue)) : Tail(queue)[i] = queue[i + 1]
    BY <2>1, Taken DEF Connection
  <2>3. shown' \in Statuses \cup {"unknown"}
    BY <2>1, <2>2, Told DEF ReceiveLog, ReceiveStep, ReceiveResult, Connection
  <2>4. Len(queue') <= Capacity /\ (queue' # <<>> => subscribed')
    <3>1. Capacity \in Nat /\ Len(queue) <= Capacity /\ subscribed
      BY <2>1, BoundsAreNat DEF Connection
    <3>2. Len(queue') = Len(queue) - 1
      BY <2>1, <2>2
    <3> QED BY <2>1, <2>2, <3>1, <3>2
  <2>5. ASSUME NEW i \in 1..Len(queue'), queue'[i].kind = "closed"
        PROVE  i = Len(queue') /\ pc' = "done"
    <3>1. i + 1 \in 1..Len(queue) /\ queue[i + 1].kind = "closed"
      BY <2>1, <2>2, <2>5
    <3>2. i + 1 = Len(queue) /\ pc = "done"
      BY <3>1 DEF Connection
    <3>3. Len(queue') = Len(queue) - 1 /\ Len(queue) \in Nat /\ i \in Nat
      BY <2>1, <2>2
    <3>4. pc' = "done"
      BY <2>1, <3>2
    <3> QED BY <3>2, <3>3, <3>4
  <2> QED BY <2>1, <2>2, <2>3, <2>4, <2>5 DEF Connection, Relaying
<1>2. CASE ReceiveClosed
  BY <1>2, DroppedConnection DEF ReceiveClosed, Hang, Connection
<1>3. CASE Retry
  BY <1>3 DEF Retry, engine, handler, Connection, Relaying
<1> QED BY <1>1, <1>2, <1>3 DEF Page

LEMMA FaultConnection == Connection /\ (Break \/ Refused \/ Crash \/ Boot) => Connection'
<1> SUFFICES ASSUME Connection, Break \/ Refused \/ Crash \/ Boot PROVE Connection'
  OBVIOUS
<1>1. CASE Break
  BY <1>1, DroppedConnection DEF Break, DropConnection, Connection
<1>2. CASE Refused
  BY <1>2 DEF Refused, engine, handler, Connection, Relaying
<1>3. CASE Crash
  <2>1. CASE request = "none"
    <3>1. subscribed = FALSE /\ queue = <<>>
      BY <2>1, NoRequest
    <3>2. /\ UNCHANGED <<request, subscribed, queue, source, stream, lost, live, shown>>
      BY <1>3, <2>1 DEF Crash, handler
    <3>3. source \in {"connecting", "closed"} \/ source = "open"
      BY DEF Connection
    <3>4. /\ queue' \in Seq(Event) /\ Len(queue') <= Capacity
          /\ \A i \in 1..Len(queue') : queue'[i].kind = "closed" => i = Len(queue') /\ pc' = "done"
      BY <3>1, <3>2, NoQueue
    <3> QED BY <2>1, <3>1, <3>2, <3>4 DEF Connection, Relaying
  <2>2. CASE request # "none"
    BY <1>3, <2>2, DroppedConnection DEF Crash, DropConnection, Connection
  <2> QED BY <2>1, <2>2
<1>4. CASE Boot
  <2>1. /\ pc = "dead" /\ pc' = "done"
        /\ UNCHANGED <<request, subscribed, queue, source, stream, lost, live, shown>>
    BY <1>4 DEF Boot, handler, page
  <2>2. request = "none"
    BY <2>1 DEF Connection
  <2>3. queue = <<>>
    BY <2>2, NoRequest
  <2>4. /\ queue' \in Seq(Event) /\ Len(queue') <= Capacity
        /\ \A i \in 1..Len(queue') : queue'[i].kind = "closed" => i = Len(queue') /\ pc' = "done"
    BY <2>1, <2>3, NoQueue
  <2> QED BY <2>1, <2>2, <2>3, <2>4 DEF Connection, Relaying
<1> QED BY <1>1, <1>2, <1>3, <1>4

LEMMA ConnectionKept == Engine /\ Connection /\ Replay /\ [Next]_vars => Connection'
<1>1. Connection /\ UNCHANGED vars => Connection'
  BY DEF vars, engine, handler, page, Connection, Relaying
<1> QED BY <1>1, PipelineConnection, HandlerConnection, PageConnection, FaultConnection DEF Next

-----------------------------------------------------------------------------
(* What was read stays true. *)

\* A row that says the deployment ended, and a closed step whose write succeeded, never change.
LEMMA RowsStay ==
  ASSUME Engine, [Next]_vars
  PROVE  /\ unsaved \subseteq unsaved'
         /\ \A k \in DOMAIN steps \ unsaved' : ~steps[k].open =>
                k \in DOMAIN steps' /\ steps'[k] = steps[k]
         /\ row \in Outcomes => row' = row /\ steps' = steps
<1> DEFINE Stay == /\ unsaved \subseteq unsaved'
                   /\ \A k \in DOMAIN steps \ unsaved' : ~steps[k].open =>
                          k \in DOMAIN steps' /\ steps'[k] = steps[k]
                   /\ row \in Outcomes => row' = row /\ steps' = steps
<1>1. CASE UNCHANGED <<row, steps, unsaved>>
  BY <1>1
<1>2. CASE Start
  BY <1>2 DEF Start, Engine, EngineRows
<1>3. CASE Begin
  <2>1. position + 1 \notin DOMAIN steps
    BY DEF Engine, EngineTypes
  <2>2. /\ unsaved \subseteq unsaved'
        /\ \A k \in DOMAIN steps : k \in DOMAIN steps' /\ steps'[k] = steps[k]
    BY <1>3, <2>1 DEF Begin, Put, Fails, Written
  <2>3. row \notin Outcomes
    BY <1>3 DEF Begin, Engine, EngineRows
  <2> QED BY <2>2, <2>3
<1>4. CASE CloseStep
  <2>1. row \notin Outcomes
    BY <1>4 DEF CloseStep, Engine, EngineRows
  <2>2. pc = "open" /\ unsaved \subseteq unsaved'
    BY <1>4 DEF CloseStep, Fails, Written
  <2>3. position \notin unsaved => steps[position].open
    BY <2>2 DEF Engine, EngineRows, Step
  <2>4. \A k \in DOMAIN steps \ unsaved' : ~steps[k].open =>
            k \in DOMAIN steps' /\ steps'[k] = steps[k]
    <3> SUFFICES ASSUME NEW k \in DOMAIN steps \ unsaved', ~steps[k].open
                 PROVE  k \in DOMAIN steps' /\ steps'[k] = steps[k]
      OBVIOUS
    <3>1. k # position
      BY <2>2, <2>3
    <3> QED BY <1>4, <3>1 DEF CloseStep
  <2> QED BY <2>1, <2>2, <2>4
<1>5. CASE Settle
  BY <1>5 DEF Settle, Fails, Written, Engine, EngineRows
<1>6. CASE Unread
  BY <1>6 DEF Unread, Fails
<1>7. CASE Boot
  BY <1>7 DEF Boot
<1>8. CASE TellStarted \/ TellBegun \/ WriteLine \/ TellClosed \/ TellResult \/ TellEnd \/ Crash
  BY <1>1, <1>8 DEF TellStarted, TellBegun, WriteLine, TellClosed, TellResult, TellEnd, Crash
<1>9. CASE Outside
  BY <1>1, <1>9, OutsideEngine DEF engine
<1>10. CASE UNCHANGED vars
  BY <1>1, <1>10 DEF vars, engine
<1> QED BY <1>2, <1>3, <1>4, <1>5, <1>6, <1>7, <1>8, <1>9, <1>10 DEF Next, Pipeline, Outside

\* The page's copy of an older answer outlives whatever the pipeline does meanwhile.
LEMMA ReplayStays ==
  ASSUME Engine, Replay, [Next]_vars, UNCHANGED <<request, replay, shown, shownSteps, backlog>>
  PROVE  Replay'
<1>1. /\ unsaved \subseteq unsaved'
      /\ \A k \in DOMAIN steps \ unsaved' : ~steps[k].open =>
             k \in DOMAIN steps' /\ steps'[k] = steps[k]
      /\ row \in Outcomes => row' = row /\ steps' = steps
  BY RowsStay
<1>2. replay' = [row |-> replay'.row, steps |-> replay'.steps] /\ replay'.row \in Statuses
  BY DEF Replay
<1>3. request' # "none" /\ replay'.row \in Outcomes => row' = replay'.row
  BY <1>1 DEF Replay
<1>4. ASSUME request' \in {"listed", "pumping", "closing"}
      PROVE  /\ \A k \in DOMAIN replay'.steps :
                    /\ replay'.steps[k].open \in BOOLEAN
                    /\ replay'.steps[k].open => replay'.steps[k].output = <<>>
             /\ \A k \in DOMAIN replay'.steps \ unsaved' : ~replay'.steps[k].open =>
                    k \in DOMAIN steps' /\ steps'[k] = replay'.steps[k]
             /\ replay'.row \in Outcomes => replay'.steps = steps'
  <2>1. request \in {"listed", "pumping", "closing"}
    BY <1>4
  <2>2. \A k \in DOMAIN replay.steps :
            /\ replay.steps[k].open \in BOOLEAN
            /\ replay.steps[k].open => replay.steps[k].output = <<>>
    BY <2>1 DEF Replay
  <2>3. \A k \in DOMAIN replay.steps \ unsaved' : ~replay.steps[k].open =>
            k \in DOMAIN steps' /\ steps'[k] = replay.steps[k]
    <3> SUFFICES ASSUME NEW k \in DOMAIN replay.steps \ unsaved', ~replay.steps[k].open
                 PROVE  k \in DOMAIN steps' /\ steps'[k] = replay.steps[k]
      OBVIOUS
    <3>1. k \in DOMAIN steps /\ steps[k] = replay.steps[k]
      BY <1>1, <2>1 DEF Replay
    <3> QED BY <1>1, <3>1
  <2>4. replay.row \in Outcomes => replay.steps = steps'
    BY <1>1, <2>1 DEF Replay
  <2> QED BY <2>2, <2>3, <2>4
<1>5. request' = "closing" =>
        replay'.row \in Outcomes /\ shown' = replay'.row /\ shownSteps' = replay'.steps
  BY DEF Replay
<1>6. request' = "pumping" => backlog' = Recorded(replay'.steps)
  BY DEF Replay
<1> QED BY <1>2, <1>3, <1>4, <1>5, <1>6 DEF Replay

LEMMA NoneReplay ==
  ASSUME request' = "none", replay' = NoReplay
  PROVE  Replay'
BY DEF Replay, NoReplay, Statuses

LEMMA ReplayKept == Engine /\ Connection /\ Replay /\ [Next]_vars => Replay'
<1> SUFFICES ASSUME Engine, Connection, Replay, [Next]_vars PROVE Replay'
  OBVIOUS
<1>1. CASE Pipeline \/ Refused \/ Retry \/ Boot \/ UNCHANGED vars
  <2>1. UNCHANGED <<request, replay, shown, shownSteps, backlog>>
    BY <1>1, PipelineTells DEF Refused, Retry, Boot, vars, handler, page
  <2> QED BY <2>1, ReplayStays
<1>2. CASE ReadRow
  BY <1>2 DEF ReadRow, NoReplay, Replay, Engine, EngineTypes, engine, page
<1>3. CASE Subscribe
  BY <1>3 DEF Subscribe, Replay, engine, page
<1>4. CASE ListSteps
  <2>1. /\ request = "subscribed" /\ request' = "listed" /\ UNCHANGED <<row, steps, unsaved>>
        /\ replay' = [row |-> replay.row, steps |-> steps]
    BY <1>4 DEF ListSteps, Replay, engine
  <2>2. \A k \in DOMAIN steps :
            /\ steps[k].open \in BOOLEAN
            /\ steps[k].open => steps[k].output = <<>>
    BY DEF Engine, EngineTypes
  <2>3. replay'.row = replay.row /\ replay'.steps = steps /\ replay.row \in Statuses
    BY <2>1 DEF Replay
  <2>4. row' = row /\ steps' = steps /\ unsaved' = unsaved
    BY <2>1
  <2>5. replay.row \in Outcomes => row = replay.row
    BY <2>1 DEF Replay
  <2>6. replay' = [row |-> replay'.row, steps |-> replay'.steps]
    BY <2>1, <2>3
  <2>7. request' = "listed"
    BY <2>1
  <2>8. \A k \in DOMAIN replay'.steps :
            /\ replay'.steps[k].open \in BOOLEAN
            /\ replay'.steps[k].open => replay'.steps[k].output = <<>>
    BY <2>2, <2>3
  <2>9. \A k \in DOMAIN replay'.steps \ unsaved' : ~replay'.steps[k].open =>
            k \in DOMAIN steps' /\ steps'[k] = replay'.steps[k]
    BY <2>3, <2>4
  <2>10. /\ replay'.row \in Statuses /\ (replay'.row \in Outcomes => row' = replay'.row)
         /\ (replay'.row \in Outcomes => replay'.steps = steps')
    BY <2>3, <2>4, <2>5
  <2>11. request' # "closing" /\ request' # "pumping"
    BY <2>7
  <2> QED BY <2>6, <2>8, <2>9, <2>10, <2>11 DEF Replay
<1>5. CASE Snapshot
  <2>1. /\ request = "listed" /\ UNCHANGED <<row, steps, unsaved, replay>>
        /\ shown' = replay.row /\ shownSteps' = replay.steps /\ backlog' = Recorded(replay.steps)
        /\ \/ request' = "closing" /\ replay.row \in Outcomes
           \/ request' = "pumping"
    BY <1>5 DEF Snapshot, engine
  <2> QED BY <2>1 DEF Replay
<1>6. CASE Receive
  BY <1>6 DEF Receive, Replay, engine, handler
<1>7. CASE ReceiveClosed \/ Break
  BY <1>7, NoneReplay DEF ReceiveClosed, Hang, Break, DropConnection
<1>8. CASE Crash
  <2>1. CASE request = "none"
    BY <1>8, <2>1, ReplayStays DEF Crash, handler
  <2>2. CASE request # "none"
    BY <1>8, <2>2, NoneReplay DEF Crash, DropConnection
  <2> QED BY <2>1, <2>2
<1> QED BY <1>1, <1>2, <1>3, <1>4, <1>5, <1>6, <1>7, <1>8 DEF Next, Handler, Page

-----------------------------------------------------------------------------
(* What the page will show. *)
Relay == <<subscribed, request, replay, shown, shownSteps>>

\* A pipeline step that tells of nothing leaves a row to be told of, or every row as it was.
Quiet(k) ==
    \/ Pending(k)'
    \/ /\ k \in 0..position /\ ~Pending(k) /\ (Missed(k) => Missed(k)')
       /\ Value(BaseRow', BaseSteps', k) = Value(BaseRow, BaseSteps, k)
       /\ Value(row', steps', k) = Value(row, steps, k)

LEMMA QuietFollowed ==
  ASSUME Followed, UNCHANGED Relay, UNCHANGED <<queue, lost>>, unsaved \subseteq unsaved',
         \A k \in (0..position') \ unsaved' : Quiet(k)
  PROVE  Followed'
<1> SUFFICES ASSUME Whole', NEW k \in (0..position') \ unsaved', ~Pending(k)', ~Missed(k)'
             PROVE  Reached(queue, k, Value(BaseRow, BaseSteps, k), {Value(row, steps, k)})'
  BY DEF Followed
<1>1. Whole
  BY DEF Whole, Relay
<1>2. /\ k \in (0..position) \ unsaved /\ ~Pending(k) /\ ~Missed(k)
      /\ Value(BaseRow', BaseSteps', k) = Value(BaseRow, BaseSteps, k)
      /\ Value(row', steps', k) = Value(row, steps, k)
  BY DEF Quiet
<1>3. Reached(queue, k, Value(BaseRow, BaseSteps, k), {Value(row, steps, k)})
  BY <1>1, <1>2 DEF Followed
<1> QED BY <1>2, <1>3, Zenon

\* What the base of a page's view depends on.
LEMMA SameValue ==
  ASSUME NEW k, UNCHANGED Relay,
         k = 0 \/ ((k \in DOMAIN steps' <=> k \in DOMAIN steps)
                   /\ (k \in DOMAIN steps => steps'[k] = steps[k]))
  PROVE  /\ Value(BaseRow', BaseSteps', k) = Value(BaseRow, BaseSteps, k)
         /\ k # 0 \/ row' = row => Value(row', steps', k) = Value(row, steps, k)
BY DEF Relay, Value, BaseRow, BaseSteps

LEMMA QuietSteps ==
  ASSUME Engine, Connection, Followed, Start \/ Begin \/ CloseStep \/ Settle \/ Unread
  PROVE  Followed'
<1>1. UNCHANGED Relay /\ UNCHANGED <<queue, lost>>
  BY DEF Start, Begin, CloseStep, Settle, Unread, Relay, handler, page
<1>2. unsaved \subseteq unsaved' /\ position \in Nat
  BY RowsStay, BoundsAreNat DEF Next, Pipeline, Engine, EngineTypes
<1>3. ASSUME NEW k \in (0..position') \ unsaved' PROVE Quiet(k)
  <2>1. CASE Start
    <3>1. pc = "queued" /\ pc' = "started" /\ UNCHANGED <<steps, position, lost>>
      BY <2>1 DEF Start
    <3> QED BY <1>1, <3>1, SameValue DEF Quiet, Pending, Missed
  <2>2. CASE Begin
    <3>1. /\ pc = "between" /\ pc' = "begun" /\ position' = position + 1 /\ lost' = lost
          /\ row' = row
      BY <2>2 DEF Begin
    <3>2. CASE k = position'
      BY <1>2, <3>1, <3>2 DEF Quiet, Pending
    <3>3. CASE k # position'
      <4>1. k \in 0..position
        BY <1>2, <3>1, <3>3
      <4>2. (k \in DOMAIN steps' <=> k \in DOMAIN steps)
            /\ (k \in DOMAIN steps => steps'[k] = steps[k])
        BY <2>2, <3>3 DEF Begin, Put, Fails
      <4> QED BY <1>1, <3>1, <4>1, <4>2, SameValue DEF Quiet, Pending, Missed
    <3> QED BY <3>2, <3>3
  <2>3. CASE CloseStep
    <3>1. /\ pc = "open" /\ pc' = "closing" /\ UNCHANGED <<position, lost, row>>
      BY <2>3 DEF CloseStep
    <3>2. CASE k = position
      <4>1. position # 0
        BY <3>1 DEF Engine, EngineRows
      <4> QED BY <3>1, <3>2, <4>1 DEF Quiet, Pending
    <3>3. CASE k # position
      <4>1. (k \in DOMAIN steps' <=> k \in DOMAIN steps)
            /\ (k \in DOMAIN steps => steps'[k] = steps[k])
        BY <2>3, <3>3 DEF CloseStep, Fails
      <4> QED BY <1>1, <3>1, <4>1, SameValue DEF Quiet, Pending, Missed
    <3> QED BY <3>2, <3>3
  <2>4. CASE Settle
    <3>1. /\ pc \in {"queued", "between"} /\ pc' = "settled" /\ UNCHANGED <<steps, position, lost>>
      BY <2>4 DEF Settle
    <3> QED BY <1>1, <3>1, SameValue DEF Quiet, Pending, Missed
  <2>5. CASE Unread
    <3>1. /\ pc = "queued" /\ pc' = "done" /\ UNCHANGED <<steps, position, lost>> /\ k # 0
      BY <2>5 DEF Unread, Fails
    <3> QED BY <1>1, <3>1, SameValue DEF Quiet, Pending, Missed
  <2> QED BY <2>1, <2>2, <2>3, <2>4, <2>5
<1> QED BY <1>1, <1>2, <1>3, QuietFollowed

\* An event that says what the row holds, or tells of another row.
Fits(e, k) ==
    \/ About(e, k) /\ Says(e) = Value(row, steps, k)
    \/ ~About(e, k) /\ ~Pending(k) /\ (Missed(k) => k = 0 /\ pc' \notin {"told", "done"})

LEMMA ToldFollowed ==
  ASSUME Connection, Followed, UNCHANGED Relay, UNCHANGED <<row, steps, position, unsaved>>,
         NEW e \in Event, Publish(e), \A k \in (0..position) \ unsaved : Fits(e, k)
  PROVE  Followed'
<1> SUFFICES ASSUME Whole', NEW k \in (0..position) \ unsaved, ~Pending(k)', ~Missed(k)'
             PROVE  Reached(queue, k, Value(BaseRow, BaseSteps, k), {Value(row, steps, k)})'
  BY DEF Followed
<1>1. subscribed /\ queue' = Append(queue, e) /\ lost' = lost /\ Whole /\ queue \in Seq(Event)
  BY Published DEF Whole, Relay, Connection
<1>2. /\ Value(BaseRow', BaseSteps', k) = Value(BaseRow, BaseSteps, k)
      /\ Value(row', steps', k) = Value(row, steps, k)
  BY SameValue
<1>3. CASE About(e, k) /\ Says(e) = Value(row, steps, k)
  BY <1>1, <1>2, <1>3, ReachedTold
<1>4. CASE ~About(e, k) /\ ~Pending(k) /\ (Missed(k) => k = 0 /\ pc' \notin {"told", "done"})
  <2>1. ~Missed(k)
    BY <1>1, <1>4 DEF Missed
  <2>2. Reached(queue, k, Value(BaseRow, BaseSteps, k), {Value(row, steps, k)})
    BY <1>1, <1>4, <2>1 DEF Followed
  <2> QED BY <1>1, <1>2, <1>4, <2>2, ReachedPast
<1> QED BY <1>3, <1>4 DEF Fits

LEMMA TellFollowed ==
  ASSUME Engine, Connection, Followed,
         TellStarted \/ TellBegun \/ WriteLine \/ TellClosed \/ TellResult \/ TellEnd
  PROVE  Followed'
<1>1. UNCHANGED Relay /\ UNCHANGED <<row, steps, position, unsaved>>
  BY DEF TellStarted, TellBegun, WriteLine, TellClosed, TellResult, TellEnd, Relay, handler, page
<1>2. row \in Statuses /\ outcome \in Statuses /\ position \in Nat /\ printed \in Nat
  BY BoundsAreNat DEF Engine, EngineTypes, Statuses
<1>3. CASE TellStarted
  <2>1. pc = "started" /\ pc' = "between" /\ Publish(Result("running")) /\ row = "running"
    BY <1>3 DEF TellStarted, Engine, EngineRows
  <2>2. /\ Result("running") \in Event /\ Result("running").kind = "deployment"
        /\ Result("running").status = "running"
    BY <1>2, <2>1, Made
  <2>3. \A k \in (0..position) \ unsaved : Fits(Result("running"), k)
    BY <2>1, <2>2 DEF Fits, About, Says, Value, Pending, Missed
  <2> QED BY <1>1, <2>1, <2>2, <2>3, ToldFollowed
<1>4. CASE TellBegun
  <2> DEFINE s == Step(TRUE, <<>>)
  <2>1. pc = "begun" /\ pc' = "open" /\ Publish(StepRow(position, s))
    BY <1>4 DEF TellBegun
  <2>2. position # 0 /\ (position \notin unsaved => position \in DOMAIN steps /\ steps[position] = s)
    <3>1. position > 0
      BY <2>1 DEF Engine, EngineRows
    <3>2. position \notin unsaved => position \in DOMAIN steps /\ steps[position] = s
      BY <2>1 DEF Engine, EngineRows
    <3>3. position # 0
      BY <1>2, <3>1
    <3> QED BY <3>2, <3>3
  <2>3. s \in StepRecord
    BY EmptySeq DEF Step, StepRecord
  <2> HIDE DEF s
  <2>4. /\ StepRow(position, s) \in Event /\ StepRow(position, s).kind = "step"
        /\ StepRow(position, s).index = position /\ StepRow(position, s).step = s
    BY <1>2, <2>3, Made
  <2>5. \A k \in (0..position) \ unsaved : Fits(StepRow(position, s), k)
    BY <2>1, <2>2, <2>4 DEF Fits, About, Says, Value, Pending, Missed
  <2> QED BY <1>1, <2>1, <2>4, <2>5, ToldFollowed
<1>5. CASE WriteLine
  <2>1. pc = "open" /\ pc' = "open" /\ Publish(Log(printed')) /\ printed' \in Nat
    BY <1>2, <1>5 DEF WriteLine
  <2>2. Log(printed') \in Event /\ Log(printed').kind = "log"
    BY <2>1, Made
  <2>3. \A k \in (0..position) \ unsaved : Fits(Log(printed'), k)
    BY <2>1, <2>2 DEF Fits, About, Pending, Missed
  <2> QED BY <1>1, <2>1, <2>2, <2>3, ToldFollowed
<1>6. CASE TellClosed
  <2> DEFINE s == Step(FALSE, buf)
  <2>1. pc = "closing" /\ pc' = "between" /\ Publish(StepRow(position, s))
    BY <1>6 DEF TellClosed
  <2>2. position # 0 /\ (position \notin unsaved => position \in DOMAIN steps /\ steps[position] = s)
    <3>1. position > 0
      BY <2>1 DEF Engine, EngineRows
    <3>2. position \notin unsaved => position \in DOMAIN steps /\ steps[position] = s
      BY <2>1 DEF Engine, EngineRows
    <3>3. position # 0
      BY <1>2, <3>1
    <3> QED BY <3>2, <3>3
  <2>3. s \in StepRecord
    <3>1. buf \in Seq(Nat)
      <4>1. 1..printed \subseteq Nat
        OBVIOUS
      <4> QED BY <4>1, SeqMonotonic DEF Engine, EngineTypes
    <3> QED BY <3>1 DEF Step, StepRecord
  <2> HIDE DEF s
  <2>4. /\ StepRow(position, s) \in Event /\ StepRow(position, s).kind = "step"
        /\ StepRow(position, s).index = position /\ StepRow(position, s).step = s
    BY <1>2, <2>3, Made
  <2>5. \A k \in (0..position) \ unsaved : Fits(StepRow(position, s), k)
    BY <2>1, <2>2, <2>4 DEF Fits, About, Says, Value, Pending, Missed
  <2> QED BY <1>1, <2>1, <2>4, <2>5, ToldFollowed
<1>7. CASE TellResult
  <2>1. /\ pc = "settled" /\ pc' = "told" /\ Publish(Result(outcome))
        /\ 0 \notin unsaved => row = outcome
    BY <1>7 DEF TellResult, Engine, EngineRows
  <2>2. /\ Result(outcome) \in Event /\ Result(outcome).kind = "deployment"
        /\ Result(outcome).status = outcome
    BY <1>2, Made
  <2>3. \A k \in (0..position) \ unsaved : Fits(Result(outcome), k)
    BY <2>1, <2>2 DEF Fits, About, Says, Value, Pending, Missed
  <2> QED BY <1>1, <2>1, <2>2, <2>3, ToldFollowed
<1>8. CASE TellEnd
  <2>1. pc = "told" /\ pc' = "done" /\ Publish(Closed)
    BY <1>8 DEF TellEnd
  <2>2. Closed \in Event /\ Closed.kind = "closed"
    BY Made
  <2>3. \A k \in (0..position) \ unsaved : Fits(Closed, k)
    BY <2>1, <2>2 DEF Fits, About, Pending, Missed
  <2> QED BY <1>1, <2>1, <2>2, <2>3, ToldFollowed
<1> QED BY <1>3, <1>4, <1>5, <1>6, <1>7, <1>8

LEMMA PipelineFollowed == Engine /\ Connection /\ Followed /\ Pipeline => Followed'
BY QuietSteps, TellFollowed DEF Pipeline

\* Subscribing: what was told before is in the rows read, or in the history variable lost.
LEMMA SubscribeFollowed == Engine /\ Connection /\ Replay /\ Subscribe => Followed'
<1> SUFFICES ASSUME Engine, Connection, Replay, Subscribe PROVE Followed'
  OBVIOUS
<1>1. /\ request' = "subscribed" /\ queue' = <<>>
      /\ UNCHANGED <<row, steps, pc, position, unsaved, replay>>
      /\ lost' = IF replay.row \in Outcomes THEN {}
                 ELSE IF pc \in {"told", "done"} THEN {"ended"}
                 ELSE IF replay.row = row \/ pc \in {"started", "settled"} THEN {}
                 ELSE {"started"}
      /\ replay.row \in Outcomes => row = replay.row
  BY DEF Subscribe, engine, Replay
<1> SUFFICES ASSUME Whole', NEW k \in (0..position) \ unsaved, ~Pending(k)', ~Missed(k)'
             PROVE  Reached(queue, k, Value(BaseRow, BaseSteps, k), {Value(row, steps, k)})'
  BY <1>1 DEF Followed
<1>2. k # 0 \/ replay.row = row
  BY <1>1 DEF Whole, Pending, Missed
<1>3. Value(BaseRow', BaseSteps', k) = Value(row', steps', k)
  BY <1>1, <1>2 DEF BaseRow, BaseSteps, Value
<1>4. Reached(<<>>, k, Value(BaseRow', BaseSteps', k), {Value(row', steps', k)})
  BY <1>3, ReachedAtOnce
<1> QED BY <1>1, <1>4

\* Whoever reads on sees the same rows.
LEMMA BaseStays ==
  ASSUME Followed, UNCHANGED <<row, steps, pc, position, unsaved, queue, lost>>,
         subscribed' => subscribed /\ BaseRow' = BaseRow /\ BaseSteps' = BaseSteps
  PROVE  Followed'
<1> SUFFICES ASSUME Whole', NEW k \in (0..position) \ unsaved, ~Pending(k)', ~Missed(k)'
             PROVE  Reached(queue, k, Value(BaseRow, BaseSteps, k), {Value(row, steps, k)})'
  BY DEF Followed
<1>1. Whole /\ BaseRow' = BaseRow /\ BaseSteps' = BaseSteps
  BY DEF Whole
<1>2. ~Pending(k) /\ ~Missed(k)
  BY DEF Pending, Missed
<1>3. Reached(queue, k, Value(BaseRow, BaseSteps, k), {Value(row, steps, k)})
  BY <1>1, <1>2 DEF Followed
<1> QED BY <1>1, <1>3

\* Without a subscription nothing is promised.
LEMMA Unsubscribed == subscribed' = FALSE => Followed' /\ EndTold' /\ Streamed'
BY DEF Followed, EndTold, Streamed, Whole

LEMMA ReceiveFollowed == Engine /\ Connection /\ Followed /\ Receive => Followed'
<1> SUFFICES ASSUME Engine, Connection, Followed, Receive PROVE Followed'
  OBVIOUS
<1> DEFINE e == Head(queue)
<1>1. /\ request = "pumping" /\ request' = "pumping" /\ queue # <<>> /\ queue' = Tail(queue)
      /\ ReceiveLog(e) \/ ReceiveStep(e) \/ ReceiveResult(e)
      /\ UNCHANGED <<row, steps, pc, position, unsaved, subscribed, lost>>
  BY DEF Receive, engine, handler
<1>2. queue \in Seq(Event) /\ e \in Event
  BY <1>1, Taken DEF Connection
<1> HIDE DEF e
<1> SUFFICES ASSUME Whole', NEW k \in (0..position) \ unsaved, ~Pending(k)', ~Missed(k)'
             PROVE  Reached(queue, k, Value(BaseRow, BaseSteps, k), {Value(row, steps, k)})'
  BY <1>1 DEF Followed
<1>3. Whole /\ ~Pending(k) /\ ~Missed(k)
  BY <1>1 DEF Whole, Pending, Missed
<1>4. Reached(queue, k, Value(shown, shownSteps, k), {Value(row, steps, k)})
  BY <1>1, <1>3 DEF Followed, BaseRow, BaseSteps
<1>5. Value(shown', shownSteps', k) = IF About(e, k) THEN Says(e) ELSE Value(shown, shownSteps, k)
  <2>1. CASE ReceiveLog(e)
    BY <2>1 DEF ReceiveLog, About, Value
  <2>2. CASE ReceiveStep(e)
    BY <2>2 DEF ReceiveStep, upsertStep, Put, About, Says, Value
  <2>3. CASE ReceiveResult(e)
    BY <2>3 DEF ReceiveResult, About, Says, Value
  <2> QED BY <1>1, <2>1, <2>2, <2>3
<1>6. Reached(Tail(queue), k, Value(shown', shownSteps', k), {Value(row, steps, k)})
  BY <1>1, <1>2, <1>4, <1>5, ReachedTaken DEF e
<1>7. BaseRow' = shown' /\ BaseSteps' = shownSteps' /\ row' = row /\ steps' = steps
  BY <1>1 DEF BaseRow, BaseSteps
<1> QED BY <1>1, <1>6, <1>7

\* The steps that leave the page without a subscription.
Leave == ReceiveClosed \/ Break \/ Crash \/ Boot \/ ReadRow

LEMMA LeaveDrops == Connection /\ Leave => subscribed' = FALSE
<1>1. Connection /\ ReceiveClosed => subscribed' = FALSE
  BY DEF ReceiveClosed, Hang
<1>2. Connection /\ Break => subscribed' = FALSE
  BY DEF Break, DropConnection
<1>3. Connection /\ Crash => subscribed' = FALSE
  BY NoRequest DEF Crash, DropConnection
<1>4. Connection /\ Boot => subscribed' = FALSE
  BY NoRequest DEF Boot, Connection
<1>5. Connection /\ ReadRow => subscribed' = FALSE
  BY NoRequest DEF ReadRow
<1> QED BY <1>1, <1>2, <1>3, <1>4, <1>5 DEF Leave

\* The steps that change neither rows, nor the queue, nor what is read of them.
Idle == ListSteps \/ Snapshot \/ Retry \/ Refused \/ UNCHANGED vars

LEMMA IdleBase ==
  ASSUME Connection, Replay, Idle
  PROVE  subscribed' = FALSE
         \/ /\ UNCHANGED <<row, steps, pc, position, unsaved, buf, printed, queue, lost, subscribed>>
            /\ BaseRow' = BaseRow /\ BaseSteps' = BaseSteps
<1>1. CASE ListSteps
  BY <1>1 DEF ListSteps, engine, BaseRow, BaseSteps, Replay
<1>2. CASE Snapshot
  BY <1>2 DEF Snapshot, engine, BaseRow, BaseSteps
<1>3. CASE Retry \/ Refused \/ UNCHANGED vars
  BY <1>3 DEF Retry, Refused, vars, engine, handler, page, BaseRow, BaseSteps
<1> QED BY <1>1, <1>2, <1>3 DEF Idle

LEMMA FollowedKept ==
  ASSUME Engine, Connection, Replay, Followed, [Next]_vars
  PROVE  Followed'
<1>1. CASE Idle
  <2>1. CASE subscribed' = FALSE
    BY <2>1, Unsubscribed
  <2>2. CASE /\ UNCHANGED <<row, steps, pc, position, unsaved, queue, lost, subscribed>>
             /\ BaseRow' = BaseRow /\ BaseSteps' = BaseSteps
    BY <2>2, BaseStays
  <2> QED BY <1>1, <2>1, <2>2, IdleBase
<1>2. CASE Leave
  BY <1>2, LeaveDrops, Unsubscribed
<1> QED BY <1>1, <1>2, PipelineFollowed, SubscribeFollowed, ReceiveFollowed
        DEF Next, Handler, Page, Idle, Leave

-----------------------------------------------------------------------------
(* The end. *)

\* What a queue ends with after an event.
LEMMA EndedAppend ==
  ASSUME NEW q \in Seq(Event), NEW e \in Event
  PROVE  Ended(Append(q, e)) <=> e.kind = "closed"
<1>1. /\ Append(q, e) # <<>> /\ Len(q) \in Nat /\ Len(Append(q, e)) = Len(q) + 1
      /\ Append(q, e)[Len(q) + 1] = e
  BY Appended
<1> QED BY <1>1 DEF Ended

LEMMA PipelineEnd == Engine /\ Connection /\ EndTold /\ Pipeline => EndTold'
<1> SUFFICES ASSUME Engine, Connection, EndTold, Pipeline, Whole',
                    pc' = "told" \/ Ended(queue)'
             PROVE  Reached(queue, 0, {BaseRow}, Endings)'
  BY DEF EndTold
<1>1. /\ UNCHANGED <<subscribed, request, replay, shown>> /\ pc # "done" /\ queue \in Seq(Event)
      /\ BaseRow' = BaseRow
  BY PipelineTells DEF handler, page, Connection, BaseRow
<1>2. ~Ended(queue)
  BY <1>1 DEF Ended, Connection
<1>3. CASE TellResult
  <2>1. pc = "settled" /\ Publish(Result(outcome)) /\ outcome \in Outcomes
    BY <1>3 DEF TellResult, Engine, EngineTypes
  <2>2. /\ Result(outcome) \in Event /\ Result(outcome).kind = "deployment"
        /\ Result(outcome).status = outcome
    BY <2>1, Made DEF Statuses
  <2>3. queue' = Append(queue, Result(outcome))
    BY <1>1, <2>1, Published DEF Whole
  <2>4. About(Result(outcome), 0) /\ Says(Result(outcome)) \in Endings
    BY <2>1, <2>2 DEF About, Says, Endings
  <2> QED BY <1>1, <2>2, <2>3, <2>4, ReachedTold
<1>4. CASE TellEnd
  <2>1. pc = "told" /\ Publish(Closed) /\ Closed \in Event /\ ~About(Closed, 0)
    BY <1>4, Made DEF TellEnd, About
  <2>2. queue' = Append(queue, Closed) /\ Whole
    <3>1. subscribed /\ lost' \subseteq {"started"}
      BY <1>1 DEF Whole
    <3>2. queue' = Append(queue, Closed) /\ lost' = lost
      BY <2>1, <3>1, Published
    <3> QED BY <3>1, <3>2 DEF Whole
  <2>3. Reached(queue, 0, {BaseRow}, Endings)
    BY <2>1, <2>2 DEF EndTold
  <2> QED BY <1>1, <2>1, <2>2, <2>3, ReachedPast
<1>5. CASE Start \/ Begin \/ CloseStep \/ Settle \/ Unread
  <2>1. pc' # "told" /\ queue' = queue
    BY <1>5 DEF Start, Begin, CloseStep, Settle, Unread
  <2> QED BY <1>2, <2>1
<1>6. CASE TellStarted \/ TellBegun \/ WriteLine \/ TellClosed
  <2>1. pc' # "told" /\ pc' # "done"
    BY <1>6 DEF TellStarted, TellBegun, WriteLine, TellClosed
  <2>2. CASE queue' = queue
    BY <1>2, <2>1, <2>2
  <2>3. ASSUME NEW e \in Event, Publish(e), e.kind # "closed"
        PROVE  FALSE
    <3>1. queue' = Append(queue, e)
      BY <1>1, <2>3, Published DEF Whole
    <3> QED BY <1>1, <2>1, <2>3, <3>1, EndedAppend
  <2> QED BY <2>1, <2>2, <2>3, PipelineTells
<1> QED BY <1>3, <1>4, <1>5, <1>6 DEF Pipeline

LEMMA SubscribeEnd == Replay /\ Subscribe => EndTold'
<1> SUFFICES ASSUME Replay, Subscribe, Whole', pc' = "told" \/ Ended(queue)'
             PROVE  Reached(queue, 0, {BaseRow}, Endings)'
  BY DEF EndTold
<1>1. /\ queue' = <<>> /\ request' = "subscribed" /\ UNCHANGED <<pc, replay>>
      /\ replay.row \in Outcomes \/ pc \notin {"told", "done"} \/ lost' = {"ended"}
  BY DEF Subscribe, engine
<1>2. replay.row \in Outcomes
  BY <1>1 DEF Whole, Ended
<1>3. {BaseRow'} \in Endings
  BY <1>1, <1>2 DEF BaseRow, Endings
<1>4. Reached(<<>>, 0, {BaseRow'}, Endings)
  BY <1>3, ReachedAtOnce
<1> QED BY <1>1, <1>4

LEMMA ReceiveEnd == Connection /\ EndTold /\ Receive => EndTold'
<1> SUFFICES ASSUME Connection, EndTold, Receive, Whole', pc' = "told" \/ Ended(queue)'
             PROVE  Reached(queue, 0, {BaseRow}, Endings)'
  BY DEF EndTold
<1> DEFINE e == Head(queue)
<1>1. /\ request = "pumping" /\ request' = "pumping" /\ queue # <<>> /\ queue' = Tail(queue)
      /\ ReceiveLog(e) \/ ReceiveStep(e) \/ ReceiveResult(e)
      /\ UNCHANGED <<pc, subscribed, lost>>
  BY DEF Receive, engine, handler
<1>2. /\ queue \in Seq(Event) /\ e \in Event /\ Tail(queue) \in Seq(Event)
      /\ Len(queue) \in Nat \ {0} /\ Len(Tail(queue)) = Len(queue) - 1
      /\ \A i \in 1..Len(Tail(queue)) : Tail(queue)[i] = queue[i + 1]
  BY <1>1, Taken DEF Connection
<1> HIDE DEF e
<1>3. Ended(queue)' => Ended(queue)
  <2> SUFFICES ASSUME Ended(queue') PROVE Ended(queue)
    OBVIOUS
  <2>1. Len(queue') \in 1..Len(queue') /\ Len(queue') + 1 = Len(queue)
    BY <1>1, <1>2, EmptySeq DEF Ended
  <2> QED BY <1>1, <1>2, <2>1 DEF Ended
<1>4. Reached(queue, 0, {shown}, Endings)
  BY <1>1, <1>3 DEF EndTold, Whole, BaseRow
<1>5. {shown'} = IF About(e, 0) THEN Says(e) ELSE {shown}
  BY <1>1 DEF ReceiveLog, ReceiveStep, ReceiveResult, About, Says
<1>6. Reached(Tail(queue), 0, {shown'}, Endings)
  BY <1>1, <1>2, <1>4, <1>5, ReachedTaken DEF e
<1> QED BY <1>1, <1>6 DEF BaseRow

LEMMA EndToldKept ==
  ASSUME Engine, Connection, Replay, EndTold, [Next]_vars
  PROVE  EndTold'
<1>1. CASE Idle
  <2>1. CASE subscribed' = FALSE
    BY <2>1, Unsubscribed
  <2>2. CASE UNCHANGED <<pc, queue, lost, subscribed>> /\ BaseRow' = BaseRow
    BY <2>2 DEF EndTold, Whole
  <2> QED BY <1>1, <2>1, <2>2, IdleBase
<1>2. CASE Leave
  BY <1>2, LeaveDrops, Unsubscribed
<1> QED BY <1>1, <1>2, PipelineEnd, SubscribeEnd, ReceiveEnd DEF Next, Handler, Page, Idle, Leave

-----------------------------------------------------------------------------
(* The page that has closed its stream. *)

\* One value each, or none: the page's copy of the row is the row.
LEMMA ValuesAgree ==
  ASSUME NEW a, NEW b, NEW k, k # 0,
         NEW s, NEW t, Value(s, a, k) = Value(t, b, k)
  PROVE  SameStep(a, b, k)
BY DEF Value, SameStep

LEMMA StatusesAgree ==
  ASSUME NEW a, NEW b, NEW s, NEW t, Value(s, a, 0) = Value(t, b, 0)
  PROVE  s = t
BY DEF Value

\* With an empty queue, or one that only closes the stream, the page shows the record.
LEMMA ShownIsRecord ==
  ASSUME EngineTypes, Followed, Whole, request = "pumping", AtRest, lost = {} \/ pc = "done",
         \A i \in 1..Len(queue) : queue[i].kind = "closed"
  PROVE  ShowsRecord
<1>1. ASSUME NEW k \in (0..position) \ unsaved
      PROVE  Value(shown, shownSteps, k) = Value(row, steps, k)
  <2>1. ~Pending(k) /\ ~Missed(k)
    BY DEF Pending, Missed, AtRest
  <2>2. Reached(queue, k, Value(shown, shownSteps, k), {Value(row, steps, k)})
    BY <1>1, <2>1 DEF Followed, BaseRow, BaseSteps
  <2>3. \A i \in 1..Len(queue) : ~About(queue[i], k)
    BY DEF About
  <2> QED BY <2>2, <2>3, ReachedQuiet
<1>2. position \in Nat
  BY BoundsAreNat DEF EngineTypes
<1>3. 0 \notin unsaved => shown = row
  BY <1>1, <1>2, StatusesAgree
<1>4. \A k \in (1..position) \ unsaved : SameStep(shownSteps, steps, k)
  BY <1>1, <1>2, ValuesAgree
<1> QED BY <1>3, <1>4 DEF ShowsRecord

LEMMA CloseLeft ==
  ASSUME Engine, Connection, Replay, Followed, EndTold, ReceiveClosed
  PROVE  Left'
<1>1. UNCHANGED <<row, steps, pc, position, unsaved, shown, shownSteps, lost>>
  BY DEF ReceiveClosed, engine
<1>2. CASE request = "closing"
  <2>1. /\ replay.row \in Outcomes /\ shown = replay.row /\ shownSteps = replay.steps
        /\ row = replay.row /\ replay.steps = steps
    BY <1>2 DEF Replay
  <2>2. pc \in {"settled", "told", "done", "dead"}
    BY <2>1 DEF Engine, EngineRows
  <2>3. ShowsRecord
    BY <2>1 DEF ShowsRecord, SameStep
  <2>4. ShowsRecord'
    BY <1>1, <2>3 DEF ShowsRecord, SameStep
  <2> QED BY <1>1, <2>1, <2>2, <2>4 DEF Left
<1>3. ASSUME request = "pumping", queue # <<>>, Head(queue) = Closed, lost \subseteq {"started"}
      PROVE  Left'
  <2>1. /\ Head(queue) = queue[1] /\ Len(queue) \in Nat \ {0}
    BY <1>3, Taken DEF Connection
  <2>2. queue[1].kind = "closed" /\ 1 \in 1..Len(queue)
    BY <1>3, <2>1, Made
  <2>3. Len(queue) = 1 /\ pc = "done"
    BY <2>2 DEF Connection
  <2>4. \A i \in 1..Len(queue) : queue[i].kind = "closed"
    BY <2>2, <2>3
  <2>5. subscribed /\ Whole
    BY <1>3 DEF Whole, Connection
  <2>6. ShowsRecord
    BY <1>3, <2>3, <2>4, <2>5, ShownIsRecord DEF Engine, AtRest
  <2>7. Reached(queue, 0, {shown}, Endings)
    BY <1>3, <2>2, <2>3, <2>5 DEF EndTold, Ended, BaseRow
  <2>8. \A i \in 1..Len(queue) : ~About(queue[i], 0)
    BY <2>4 DEF About
  <2>9. {shown} \in Endings
    BY <2>7, <2>8, ReachedQuiet
  <2>10. shown \in Outcomes
    BY <2>9 DEF Endings
  <2>11. ShowsRecord'
    BY <1>1, <2>6 DEF ShowsRecord, SameStep
  <2> QED BY <1>1, <2>3, <2>10, <2>11 DEF Left
<1> QED BY <1>1, <1>2, <1>3 DEF ReceiveClosed, Left

LEMMA LeftKept ==
  ASSUME Engine, Connection, Replay, Followed, EndTold, Left, [Next]_vars
  PROVE  Left'
<1>1. CASE live
  <2>1. ReceiveClosed \/ live' = live
    BY PipelineTells DEF Next, Handler, Page, ReadRow, Subscribe, ListSteps, Snapshot, Receive, Retry,
       Break, Refused, Crash, Boot, vars, handler, page
  <2> QED BY <1>1, <2>1, CloseLeft DEF Left
<1>2. CASE ~live
  <2>1. /\ source = "closed" /\ request = "none" /\ subscribed = FALSE
    BY <1>2, NoRequest DEF Connection
  <2>2. /\ UNCHANGED <<shown, shownSteps, lost>>
    <3>1. CASE Pipeline
      <4>1. UNCHANGED <<shown, shownSteps>>
        BY <3>1, PipelineTells DEF page
      <4> QED BY <2>1, <3>1, <4>1, PipelineTells, Published
    <3>2. ~Handler /\ ~Receive /\ ~ReceiveClosed /\ ~Break /\ ~Retry
      BY <1>2, <2>1 DEF Handler, ReadRow, Subscribe, ListSteps, Snapshot, Receive, ReceiveClosed,
         Break, Retry
    <3>3. CASE Refused \/ Crash \/ Boot \/ UNCHANGED vars
      BY <2>1, <3>3 DEF Refused, Crash, Boot, vars, page
    <3> QED BY <3>1, <3>2, <3>3 DEF Next, Page
  <2> SUFFICES ASSUME ~live', lost \subseteq {"started"}
               PROVE  /\ pc' \in {"settled", "told", "done", "dead"} /\ shown \in Outcomes
                      /\ ShowsRecord'
    BY <2>2 DEF Left
  <2>3. pc \in {"settled", "told", "done", "dead"} /\ shown \in Outcomes /\ ShowsRecord
    BY <1>2 DEF Left
  <2>4. /\ pc' \in {"settled", "told", "done", "dead"} /\ UNCHANGED <<steps, position, unsaved>>
        /\ row' = row \/ (row \notin Outcomes)
    <3>1. CASE Outside \/ UNCHANGED vars
      BY <2>3, <3>1, OutsideEngine DEF engine, vars
    <3>2. CASE Pipeline
      BY <2>3, <3>2 DEF Pipeline, Start, TellStarted, Begin, TellBegun, WriteLine, CloseStep,
         TellClosed, Settle, Unread, TellResult, TellEnd
    <3>3. CASE Crash \/ Boot
      BY <3>3 DEF Crash, Boot
    <3> QED BY <3>1, <3>2, <3>3 DEF Next, Outside
  <2>5. ShowsRecord'
    BY <2>2, <2>3, <2>4 DEF ShowsRecord, SameStep
  <2> QED BY <2>3, <2>4, <2>5
<1> QED BY <1>1, <1>2 DEF Connection

-----------------------------------------------------------------------------
(* The streamed lines. *)

LEMMA WindowEmpty == \A n \in Nat : Window(<<>>, n, n)
BY DEF Window

LEMMA WindowOther ==
  ASSUME NEW q \in Seq(Event), NEW e \in Event, NEW w \in Nat, NEW n \in Nat, Window(q, w, n),
         e.kind # "log"
  PROVE  Window(Append(q, e), w, n)
<1> DEFINE a == Append(q, e)
<1>1. /\ Len(q) \in Nat /\ Len(a) = Len(q) + 1 /\ a[Len(q) + 1] = e
      /\ \A i \in 1..Len(q) : a[i] = q[i]
  BY Appended
<1> HIDE DEF a
<1>2. ASSUME NEW i \in 1..Len(a), a[i].kind = "log" PROVE i \in 1..Len(q) /\ a[i] = q[i]
  <2>1. i \in 1..Len(q) \/ i = Len(q) + 1
    BY <1>1
  <2> QED BY <1>1, <1>2, <2>1
<1>3. \A i \in 1..Len(a) : a[i].kind = "log" => a[i].line \in (w + 1)..n
  BY <1>2 DEF Window
<1>4. ASSUME NEW m \in (w + 1)..n PROVE \E i \in 1..Len(a) : a[i].kind = "log" /\ a[i].line = m
  <2>1. PICK i \in 1..Len(q) : q[i].kind = "log" /\ q[i].line = m
    BY DEF Window
  <2>2. i \in 1..Len(a) /\ a[i] = q[i]
    BY <1>1
  <2> QED BY <2>1, <2>2
<1>5. \A i, j \in 1..Len(a) : i < j /\ a[i].kind = "log" /\ a[j].kind = "log" => a[i].line < a[j].line
  BY <1>2 DEF Window
<1> QED BY <1>3, <1>4, <1>5 DEF Window, a

LEMMA WindowLine ==
  ASSUME NEW q \in Seq(Event), NEW w \in Nat, NEW n \in Nat, Window(q, w, n), w <= n
  PROVE  Window(Append(q, Log(n + 1)), w, n + 1)
<1> DEFINE e == Log(n + 1)
           a == Append(q, e)
<1>1. e \in Event /\ e.kind = "log" /\ e.line = n + 1
  BY Made
<1> HIDE DEF e
<1>2. /\ Len(q) \in Nat /\ Len(a) = Len(q) + 1 /\ a[Len(q) + 1] = e
      /\ \A i \in 1..Len(q) : a[i] = q[i]
  BY <1>1, Appended
<1> HIDE DEF a
<1>3. \A i \in 1..Len(a) : (i \in 1..Len(q) /\ a[i] = q[i]) \/ (i = Len(q) + 1 /\ a[i] = e)
  BY <1>2
<1>4. ASSUME NEW i \in 1..Len(a), a[i].kind = "log" PROVE a[i].line \in (w + 1)..(n + 1)
  <2>1. CASE i \in 1..Len(q) /\ a[i] = q[i]
    <3>1. q[i].line \in (w + 1)..n
      BY <1>4, <2>1 DEF Window
    <3> QED BY <2>1, <3>1
  <2>2. CASE i = Len(q) + 1 /\ a[i] = e
    BY <1>1, <2>2
  <2> QED BY <1>3, <2>1, <2>2
<1>5. ASSUME NEW m \in (w + 1)..(n + 1)
      PROVE  \E i \in 1..Len(a) : a[i].kind = "log" /\ a[i].line = m
  <2>1. CASE m \in (w + 1)..n
    <3>1. PICK i \in 1..Len(q) : q[i].kind = "log" /\ q[i].line = m
      BY <2>1 DEF Window
    <3>2. i \in 1..Len(a) /\ a[i] = q[i]
      BY <1>2
    <3> QED BY <3>1, <3>2
  <2>2. CASE m = n + 1
    <3>1. Len(q) + 1 \in 1..Len(a)
      BY <1>2
    <3> QED BY <1>1, <1>2, <2>2, <3>1
  <2> QED BY <2>1, <2>2
<1>6. ASSUME NEW i \in 1..Len(a), NEW j \in 1..Len(a), i < j, a[i].kind = "log", a[j].kind = "log"
      PROVE  a[i].line < a[j].line
  <2>1. i \in 1..Len(q) /\ a[i] = q[i]
    BY <1>2, <1>6
  <2>2. CASE j \in 1..Len(q) /\ a[j] = q[j]
    BY <1>6, <2>1, <2>2 DEF Window
  <2>3. CASE j = Len(q) + 1 /\ a[j] = e
    <3>1. q[i].line \in (w + 1)..n
      BY <1>6, <2>1 DEF Window
    <3> QED BY <1>1, <2>1, <2>3, <3>1
  <2> QED BY <1>3, <2>2, <2>3
<1> QED BY <1>4, <1>5, <1>6 DEF Window, a, e

LEMMA WindowTail ==
  ASSUME NEW q \in Seq(Event), q # <<>>, NEW w \in Nat, NEW n \in Nat, Window(q, w, n)
  PROVE  /\ Head(q).kind # "log" => Window(Tail(q), w, n)
         /\ Head(q).kind = "log" =>
                Head(q).line = w + 1 /\ w + 1 <= n /\ Window(Tail(q), w + 1, n)
<1> DEFINE t == Tail(q)
           h == Head(q)
<1>1. /\ Len(q) \in Nat \ {0} /\ Len(t) \in Nat /\ Len(t) = Len(q) - 1 /\ h = q[1]
      /\ \A i \in 1..Len(t) : i + 1 \in 1..Len(q) /\ t[i] = q[i + 1]
  BY Taken
<1> HIDE DEF t, h
<1>2. \A i, j \in 1..Len(t) : i < j /\ t[i].kind = "log" /\ t[j].kind = "log" => t[i].line < t[j].line
  <2> SUFFICES ASSUME NEW i \in 1..Len(t), NEW j \in 1..Len(t), i < j, t[i].kind = "log",
                      t[j].kind = "log"
               PROVE  t[i].line < t[j].line
    OBVIOUS
  <2>1. i + 1 < j + 1
    BY <1>1
  <2>2. /\ i + 1 \in 1..Len(q) /\ t[i] = q[i + 1] /\ q[i + 1].kind = "log"
        /\ j + 1 \in 1..Len(q) /\ t[j] = q[j + 1] /\ q[j + 1].kind = "log"
    BY <1>1
  <2>3. q[i + 1].line < q[j + 1].line
    BY <2>1, <2>2 DEF Window
  <2> QED BY <2>2, <2>3
<1>3. CASE h.kind # "log"
  <2>1. ASSUME NEW i \in 1..Len(t), t[i].kind = "log" PROVE t[i].line \in (w + 1)..n
    BY <1>1, <2>1 DEF Window
  <2>2. ASSUME NEW m \in (w + 1)..n PROVE \E i \in 1..Len(t) : t[i].kind = "log" /\ t[i].line = m
    <3>1. PICK i \in 1..Len(q) : q[i].kind = "log" /\ q[i].line = m
      BY DEF Window
    <3>2. i - 1 \in 1..Len(t) /\ (i - 1) + 1 = i
      BY <1>1, <1>3, <3>1
    <3> QED BY <1>1, <3>1, <3>2
  <2>3. Window(t, w, n)
    BY <1>2, <2>1, <2>2 DEF Window
  <2> QED BY <1>3, <2>3 DEF t, h
<1>4. CASE h.kind = "log"
  <2>1. 1 \in 1..Len(q) /\ h.line \in (w + 1)..n
    BY <1>1, <1>4 DEF Window
  <2>2. w + 1 \in (w + 1)..n
    BY <2>1
  <2>3. PICK i \in 1..Len(q) : q[i].kind = "log" /\ q[i].line = w + 1
    BY <2>2 DEF Window
  <2>4. h.line = w + 1
    <3>1. CASE i = 1
      BY <1>1, <2>3, <3>1
    <3>2. CASE i # 1
      <4>1. q[1].line < q[i].line
        BY <1>1, <1>4, <2>1, <2>3, <3>2 DEF Window
      <4> QED BY <1>1, <2>1, <2>3, <4>1
    <3> QED BY <3>1, <3>2
  <2>5. ASSUME NEW j \in 1..Len(t), t[j].kind = "log" PROVE t[j].line \in ((w + 1) + 1)..n
    <3>1. q[j + 1].line \in (w + 1)..n /\ 1 < j + 1 /\ j + 1 \in 1..Len(q) /\ t[j] = q[j + 1]
      BY <1>1, <2>5 DEF Window
    <3>2. q[1].line < q[j + 1].line
      BY <1>1, <1>4, <2>1, <2>5, <3>1 DEF Window
    <3> QED BY <1>1, <2>4, <3>1, <3>2
  <2>6. ASSUME NEW m \in ((w + 1) + 1)..n PROVE \E j \in 1..Len(t) : t[j].kind = "log" /\ t[j].line = m
    <3>1. m \in (w + 1)..n /\ m # w + 1
      OBVIOUS
    <3>2. PICK j \in 1..Len(q) : q[j].kind = "log" /\ q[j].line = m
      BY <3>1 DEF Window
    <3>3. j - 1 \in 1..Len(t) /\ (j - 1) + 1 = j
      BY <1>1, <2>4, <3>1, <3>2
    <3> QED BY <1>1, <3>2, <3>3
  <2>7. Window(t, w + 1, n)
    BY <1>2, <2>5, <2>6 DEF Window
  <2> QED BY <1>4, <2>2, <2>4, <2>7 DEF t, h
<1> QED BY <1>3, <1>4

\* A line more on the page: the kept ones still follow one another.
Grown(s, w) == Latest(Append(s, w + 1), PageLines)

LEMMA KeptLine ==
  ASSUME NEW w \in Nat, NEW s \in Seq(Nat), Len(s) <= PageLines, Len(s) <= w,
         \A j \in 1..Len(s) : s[j] = (w - Len(s)) + j
  PROVE  /\ Grown(s, w) \in Seq(Nat) /\ Len(Grown(s, w)) <= PageLines /\ Len(Grown(s, w)) <= w + 1
         /\ Len(s) \in Nat
         /\ Len(Grown(s, w)) = IF Len(s) < PageLines THEN Len(s) + 1 ELSE PageLines
         /\ \A j \in 1..Len(Grown(s, w)) : Grown(s, w)[j] = ((w + 1) - Len(Grown(s, w))) + j
<1> DEFINE a == Append(s, w + 1)
           l == Latest(a, PageLines)
<1>1. PageLines \in Nat \ {0} /\ Len(s) \in Nat
  BY BoundsAreNat
<1>2. a \in Seq(Nat) /\ Len(a) = Len(s) + 1
  OBVIOUS
<1>3. (\A i \in 1..Len(s) : a[i] = s[i]) /\ a[Len(s) + 1] = w + 1
  OBVIOUS
<1> HIDE DEF a
<1>4. /\ l \in Seq(Nat) /\ Len(l) = IF Len(a) <= PageLines THEN Len(a) ELSE PageLines
      /\ \A j \in 1..Len(l) : l[j] = a[(Len(a) - Len(l)) + j]
  <2>1. PICK S : S = Nat
    OBVIOUS
  <2>2. a \in Seq(S)
    BY <1>2, <2>1
  <2>3. /\ l \in Seq(S) /\ Len(l) = IF Len(a) <= PageLines THEN Len(a) ELSE PageLines
        /\ \A j \in 1..Len(l) : l[j] = a[(Len(a) - Len(l)) + j]
    BY <1>1, <2>2, LatestOf
  <2> QED BY <2>1, <2>3
<1> HIDE DEF l
<1>5. Len(l) = IF Len(s) < PageLines THEN Len(s) + 1 ELSE PageLines
  BY <1>1, <1>2, <1>4
<1>6. \A i \in 1..Len(a) : a[i] = (w - Len(s)) + i
  <2> SUFFICES ASSUME NEW i \in 1..Len(a) PROVE a[i] = (w - Len(s)) + i
    OBVIOUS
  <2>1. i \in 1..Len(s) \/ i = Len(s) + 1
    BY <1>1, <1>2
  <2>2. w + 1 = (w - Len(s)) + (Len(s) + 1)
    BY <1>1
  <2> QED BY <1>3, <2>1, <2>2
<1>7. ASSUME NEW j \in 1..Len(l) PROVE l[j] = ((w + 1) - Len(l)) + j
  <2>1. Len(l) \in Nat /\ Len(l) <= Len(a)
    BY <1>1, <1>2, <1>4
  <2>2. (Len(a) - Len(l)) + j \in 1..Len(a)
    BY <1>1, <1>2, <2>1
  <2>3. l[j] = (w - Len(s)) + ((Len(a) - Len(l)) + j)
    BY <1>4, <1>6, <2>2
  <2> QED BY <1>1, <1>2, <2>1, <2>3
<1>8. Len(l) <= PageLines /\ Len(l) <= w + 1
  BY <1>1, <1>5
<1> QED BY <1>1, <1>4, <1>5, <1>7, <1>8 DEF Grown, l, a

\* A step's output is the one it had, but for the line just printed.
LEMMA OutputStays ==
  ASSUME Engine, Pipeline, NEW k \in DOMAIN steps' \ unsaved', NEW n \in Range(outputOf(k)')
  PROVE  \/ k \in DOMAIN steps \ unsaved /\ n \in Range(outputOf(k))
         \/ WriteLine /\ n = printed + 1
<1>1. CASE Start \/ TellStarted \/ TellBegun \/ TellClosed \/ TellResult \/ TellEnd
  BY <1>1 DEF Start, TellStarted, TellBegun, TellClosed, TellResult, TellEnd, outputOf
<1>2. CASE Settle \/ Unread
  BY <1>2 DEF Settle, Unread, Fails, Written, outputOf
<1>3. CASE Begin
  <2>1. pc = "between" /\ buf' = <<>> /\ unsaved \subseteq unsaved'
    BY <1>3 DEF Begin, Fails, Written
  <2>2. \A m : m \notin Range(<<>>)
    BY DEF Range
  <2>3. ~steps'[k].open
    BY <2>1, <2>2 DEF outputOf
  <2>4. k \in DOMAIN steps /\ steps'[k] = steps[k]
    BY <1>3, <2>3 DEF Begin, Put, Step, Fails
  <2> QED BY <2>1, <2>3, <2>4 DEF outputOf
<1>4. CASE CloseStep
  <2>1. /\ pc = "open" /\ buf' = buf /\ unsaved \subseteq unsaved' /\ DOMAIN steps' = DOMAIN steps
    BY <1>4 DEF CloseStep, Fails, Written
  <2>2. CASE k = position /\ steps' # steps
    <3>1. steps'[k] = Step(FALSE, buf) /\ steps[k].open
      BY <1>4, <2>1, <2>2 DEF CloseStep, Fails, Engine, EngineRows, Step
    <3> QED BY <2>1, <3>1 DEF outputOf, Step
  <2>3. CASE k # position \/ steps' = steps
    BY <1>4, <2>1, <2>3 DEF CloseStep, Fails, outputOf
  <2> QED BY <2>2, <2>3
<1>5. CASE WriteLine
  <2>1. /\ steps' = steps /\ unsaved' = unsaved /\ buf' = Latest(Append(buf, printed + 1), StepLines)
    BY <1>5 DEF WriteLine
  <2>2. printed \in Nat /\ buf \in Seq(1..printed)
    BY BoundsAreNat DEF Engine, EngineTypes
  <2>3. Range(buf') \subseteq Range(buf) \cup {printed + 1}
    BY <2>1, <2>2, OneMore
  <2> QED BY <1>5, <2>1, <2>3 DEF outputOf
<1> QED BY <1>1, <1>2, <1>3, <1>4, <1>5 DEF Pipeline

LEMMA PipelineStreamed == Engine /\ Connection /\ Replay /\ Streamed /\ Pipeline => Streamed'
<1> SUFFICES ASSUME Engine, Connection, Replay, Streamed, Pipeline, Whole'
             PROVE  \E w \in 0..printed' : StreamedFrom(w)'
  BY DEF Streamed
<1>1. /\ UNCHANGED <<subscribed, request, replay, lines>> /\ subscribed /\ lost' \subseteq {"started"}
      /\ queue \in Seq(Event) /\ printed \in Nat
  <2>1. UNCHANGED <<subscribed, request, replay, lines>>
    BY PipelineTells DEF handler, page
  <2>2. printed \in Nat
    BY BoundsAreNat DEF Engine, EngineTypes
  <2> QED BY <2>1, <2>2 DEF Whole, Connection
<1>2. lost \subseteq {"started"}
  BY <1>1, PipelineTells, Published
<1>3. PICK w \in 0..printed : StreamedFrom(w)
  BY <1>1, <1>2 DEF Streamed, Whole
<1>4. /\ Window(queue, w, printed) /\ (request = "pumping" => Kept(w))
      /\ (request \in {"listed", "pumping"} => OutputAt(w))
  BY <1>3 DEF StreamedFrom
<1>5. printed' \in Nat /\ w \in 0..printed' /\ (~WriteLine => printed' = printed)
  <2>1. printed' = printed \/ (WriteLine /\ printed' = printed + 1)
    BY DEF Pipeline, Start, TellStarted, Begin, TellBegun, WriteLine, CloseStep, TellClosed, Settle,
       Unread, TellResult, TellEnd
  <2> QED BY <1>1, <2>1 DEF WriteLine
<1>6. Window(queue', w, printed')
  <2>1. CASE WriteLine
    <3>1. printed' = printed + 1 /\ Publish(Log(printed + 1))
      BY <2>1 DEF WriteLine
    <3>2. queue' = Append(queue, Log(printed + 1))
      BY <1>1, <3>1, Published
    <3>3. w <= printed /\ w \in Nat
      BY <1>1
    <3> QED BY <1>1, <1>4, <3>1, <3>2, <3>3, WindowLine
  <2>2. CASE ~WriteLine
    <3>1. CASE queue' = queue
      BY <1>4, <1>5, <2>2, <3>1
    <3>2. ASSUME NEW e \in Event, Publish(e), e.kind # "log" PROVE Window(queue', w, printed')
      <4>1. queue' = Append(queue, e)
        BY <1>1, <3>2, Published
      <4> QED BY <1>1, <1>4, <1>5, <2>2, <3>2, <4>1, WindowOther
    <3> QED BY <2>2, <3>1, <3>2, PipelineTells
  <2> QED BY <2>1, <2>2
<1>7. request' = "pumping" => Kept(w)'
  BY <1>1, <1>4 DEF Kept
<1>8. request' \in {"listed", "pumping"} => OutputAt(w)'
  <2> SUFFICES ASSUME request \in {"listed", "pumping"}, NEW k \in DOMAIN steps' \ unsaved',
                      NEW n \in Range(outputOf(k)')
               PROVE  n > Floor(w) \/ Excess \/ Replayed(k, n)
    BY <1>1 DEF OutputAt, Floor, Excess, Replayed
  <2>1. CASE k \in DOMAIN steps \ unsaved /\ n \in Range(outputOf(k))
    BY <1>4, <2>1 DEF OutputAt
  <2>2. CASE WriteLine /\ n = printed + 1
    <3>1. Floor(w) <= w /\ Floor(w) \in Int
      BY <1>4 DEF Floor, Kept
    <3> QED BY <1>1, <2>2, <3>1
  <2> QED BY <2>1, <2>2, OutputStays
<1> QED BY <1>5, <1>6, <1>7, <1>8 DEF StreamedFrom

LEMMA SubscribeStreamed == Engine /\ Subscribe => Streamed'
<1> SUFFICES ASSUME Engine, Subscribe PROVE \E w \in 0..printed' : StreamedFrom(w)'
  BY DEF Streamed
<1>1. /\ request' = "subscribed" /\ queue' = <<>> /\ printed' = printed /\ printed \in Nat
  BY BoundsAreNat DEF Subscribe, engine, Engine, EngineTypes
<1>2. PICK w \in 0..printed : w = printed
  BY <1>1
<1>3. Window(<<>>, w, printed)
  BY <1>1, <1>2, WindowEmpty
<1>4. StreamedFrom(w)'
  BY <1>1, <1>2, <1>3 DEF StreamedFrom
<1> QED BY <1>1, <1>2, <1>4

LEMMA ListStreamed == Engine /\ Streamed /\ ListSteps => Streamed'
<1> SUFFICES ASSUME Engine, Streamed, ListSteps, Whole'
             PROVE  \E w \in 0..printed' : StreamedFrom(w)'
  BY DEF Streamed
<1>1. /\ request = "subscribed" /\ request' = "listed" /\ replay'.steps = steps
      /\ UNCHANGED <<steps, unsaved, buf, printed, queue, lost, subscribed>>
  BY DEF ListSteps, engine
<1>2. PICK w \in 0..printed : StreamedFrom(w)
  BY <1>1 DEF Streamed, Whole
<1>3. Window(queue', w, printed')
  BY <1>1, <1>2 DEF StreamedFrom
<1>4. OutputAt(w)'
  BY <1>1 DEF OutputAt, Replayed, outputOf
<1>5. StreamedFrom(w)'
  BY <1>1, <1>3, <1>4 DEF StreamedFrom
<1> QED BY <1>1, <1>2, <1>5

LEMMA SnapshotStreamed == Engine /\ Streamed /\ Snapshot => Streamed'
<1> SUFFICES ASSUME Engine, Streamed, Snapshot, Whole'
             PROVE  \E w \in 0..printed' : StreamedFrom(w)'
  BY DEF Streamed
<1>1. /\ request = "listed" /\ request' = "pumping" /\ lines' = <<>>
      /\ UNCHANGED <<steps, unsaved, buf, printed, queue, lost, subscribed, replay>>
  BY DEF Snapshot, engine, Whole
<1>2. PICK w \in 0..printed : StreamedFrom(w)
  BY <1>1 DEF Streamed, Whole
<1>3. w \in Nat /\ PageLines \in Nat \ {0} /\ <<>> \in Seq(Nat) /\ Len(<<>>) = 0
  BY BoundsAreNat, EmptySeq DEF Engine, EngineTypes
<1>4. Window(queue', w, printed') /\ OutputAt(w)
  BY <1>1, <1>2 DEF StreamedFrom
<1>5. Kept(w)'
  <2>1. Len(<<>>) <= PageLines /\ Len(<<>>) <= w /\ 1..Len(<<>>) = {}
    BY <1>3
  <2> QED BY <1>1, <1>3, <2>1 DEF Kept
<1>6. OutputAt(w)'
  <2> SUFFICES ASSUME NEW k \in DOMAIN steps \ unsaved, NEW n \in Range(outputOf(k))
               PROVE  n > Floor(w)' \/ Replayed(k, n)
    BY <1>1 DEF OutputAt, Replayed, outputOf
  <2>1. n > Floor(w) \/ Replayed(k, n)
    BY <1>1, <1>4 DEF OutputAt, Excess
  <2>2. Floor(w)' = Floor(w)
    BY <1>1, <1>3 DEF Floor
  <2> QED BY <2>1, <2>2
<1>7. StreamedFrom(w)'
  BY <1>4, <1>5, <1>6 DEF StreamedFrom
<1> QED BY <1>1, <1>2, <1>7

LEMMA ReceiveStreamed == Engine /\ Connection /\ Streamed /\ Receive => Streamed'
<1> SUFFICES ASSUME Engine, Connection, Streamed, Receive, Whole'
             PROVE  \E w \in 0..printed' : StreamedFrom(w)'
  BY DEF Streamed
<1>1. /\ request = "pumping" /\ request' = "pumping" /\ queue # <<>> /\ queue' = Tail(queue)
      /\ ReceiveLog(Head(queue)) \/ ReceiveStep(Head(queue)) \/ ReceiveResult(Head(queue))
      /\ UNCHANGED <<steps, unsaved, buf, printed, lost, subscribed, replay>>
  BY DEF Receive, engine, handler
<1>2. PICK w \in 0..printed : StreamedFrom(w)
  BY <1>1 DEF Streamed, Whole
<1>3. printed \in Nat /\ w \in Nat /\ queue \in Seq(Event)
  BY BoundsAreNat DEF Engine, EngineTypes, Connection
<1>4. Window(queue, w, printed) /\ Kept(w) /\ OutputAt(w)
  BY <1>1, <1>2 DEF StreamedFrom
<1>5. CASE Head(queue).kind # "log"
  <2>1. lines' = lines
    BY <1>1, <1>5 DEF ReceiveLog, ReceiveStep, ReceiveResult
  <2>2. Window(queue', w, printed')
    BY <1>1, <1>3, <1>4, <1>5, WindowTail
  <2>3. Kept(w)' /\ OutputAt(w)'
    BY <1>1, <1>4, <2>1 DEF Kept, OutputAt, Floor, Excess, Replayed, outputOf
  <2>4. StreamedFrom(w)'
    BY <2>2, <2>3 DEF StreamedFrom
  <2> QED BY <1>1, <1>2, <2>4
<1>6. CASE Head(queue).kind = "log"
  <2>1. /\ Head(queue).line = w + 1 /\ w + 1 <= printed /\ Window(queue', w + 1, printed')
    BY <1>1, <1>3, <1>4, <1>6, WindowTail
  <2>2. lines' = Grown(lines, w)
    BY <1>1, <1>6, <2>1 DEF Grown, ReceiveLog, ReceiveStep, ReceiveResult
  <2>3. /\ lines \in Seq(Nat) /\ Len(lines) <= PageLines /\ Len(lines) <= w
        /\ \A j \in 1..Len(lines) : lines[j] = (w - Len(lines)) + j
    BY <1>4 DEF Kept
  <2>4. /\ lines' \in Seq(Nat) /\ Len(lines') <= PageLines /\ Len(lines') <= w + 1
        /\ Len(lines) \in Nat
        /\ Len(lines') = IF Len(lines) < PageLines THEN Len(lines) + 1 ELSE PageLines
        /\ \A j \in 1..Len(lines') : lines'[j] = ((w + 1) - Len(lines')) + j
    BY <1>3, <2>2, <2>3, KeptLine
  <2>5. PICK v \in 0..printed : v = w + 1
    BY <1>3, <2>1
  <2>6. Kept(v)'
    BY <2>4, <2>5 DEF Kept
  <2>7. OutputAt(v)'
    <3> SUFFICES ASSUME NEW k \in DOMAIN steps \ unsaved, NEW n \in Range(outputOf(k)),
                        Len(lines') # PageLines
                 PROVE  n > Floor(v)' \/ Replayed(k, n)
      BY <1>1 DEF OutputAt, Replayed, Excess, outputOf
    <3>1. Len(lines') = Len(lines) + 1 /\ Len(lines) # PageLines
      BY <2>3, <2>4, BoundsAreNat
    <3>2. n > Floor(w) \/ Replayed(k, n)
      BY <1>4, <3>1 DEF OutputAt, Excess
    <3>3. Floor(v)' = Floor(w)
      <4>1. (w + 1) - (Len(lines) + 1) = w - Len(lines)
        BY <1>3, <2>4
      <4> QED BY <1>1, <2>5, <3>1, <4>1 DEF Floor
    <3> QED BY <3>2, <3>3
  <2>8. StreamedFrom(v)'
    BY <2>1, <2>5, <2>6, <2>7 DEF StreamedFrom
  <2> QED BY <1>1, <2>5, <2>8
<1> QED BY <1>5, <1>6

LEMMA StreamedKept ==
  ASSUME Engine, Connection, Replay, Streamed, [Next]_vars
  PROVE  Streamed'
<1>1. CASE Retry \/ Refused \/ UNCHANGED vars
  <2>1. UNCHANGED <<steps, unsaved, buf, printed, queue, lost, subscribed, request, replay, lines>>
    BY <1>1 DEF Retry, Refused, vars, engine, handler, page
  <2> QED BY <2>1 DEF Streamed, Whole, StreamedFrom, Kept, OutputAt, Floor, Excess, Replayed, outputOf
<1>2. CASE Leave
  BY <1>2, LeaveDrops, Unsubscribed
<1> QED BY <1>1, <1>2, PipelineStreamed, SubscribeStreamed, ListStreamed, SnapshotStreamed,
        ReceiveStreamed DEF Next, Handler, Page, Leave

-----------------------------------------------------------------------------
(* The theorems. *)
LEMMA Initially == Init => Inv
<1> SUFFICES ASSUME Init PROVE Inv
  OBVIOUS
<1>1. <<>> \in Seq(1..0) /\ <<>> \in Seq(Event) /\ Len(<<>>) = 0 /\ DOMAIN <<>> = {}
  BY EmptySeq
<1>2. EngineTypes
  <2>1. /\ row = "queued" /\ outcome = "failed" /\ pc = "queued" /\ position = 0 /\ printed = 0
        /\ unsaved = {} /\ buf = <<>> /\ steps = <<>>
    BY DEF Init
  <2>2. <<>> = [k \in DOMAIN <<>> |-> <<>>[k]]
    OBVIOUS
  <2>3. position \in 0..MaxSteps /\ printed \in 0..MaxLines
    BY <2>1, BoundsAreNat
  <2> QED BY <1>1, <2>1, <2>2, <2>3 DEF EngineTypes, Statuses, Outcomes
<1>3. EngineRows /\ OpenSteps
  BY <1>1 DEF Init, EngineRows, OpenSteps, Outcomes
<1>4. Connection
  <2>1. ~Relaying /\ Relaying \in BOOLEAN
    BY DEF Init, Relaying
  <2>2. Len(queue) <= Capacity /\ 1..Len(queue) = {}
    BY <1>1, BoundsAreNat DEF Init
  <2> QED BY <1>1, <2>1, <2>2 DEF Init, Connection
<1>5. Replay
  BY DEF Init, Replay, NoReplay, Statuses
<1>6. Followed /\ EndTold /\ Streamed /\ Left
  BY DEF Init, Followed, EndTold, Streamed, Left, Whole
<1> QED BY <1>2, <1>3, <1>4, <1>5, <1>6 DEF Inv

LEMMA InvKept == Inv /\ [Next]_vars => Inv'
BY EngineKept, ConnectionKept, ReplayKept, FollowedKept, EndToldKept, StreamedKept, LeftKept
   DEF Inv, Engine

\* Every reachable state is consistent: what is recorded, what is on its way and what the page
\* holds agree (Pipeline, deployment_events, DeploymentDetail).
THEOREM Consistent == Spec => []Inv
BY Initially, InvKept, PTL DEF Spec

\* Every value is of its type; the subscription holds at most Capacity events, and a step's
\* record only lines that were printed.
LEMMA InvTypes == Inv => TypeOK
<1> SUFFICES ASSUME Inv PROVE TypeOK
  OBVIOUS
<1>1. ASSUME NEW k \in DOMAIN steps
      PROVE  steps[k].open \in BOOLEAN /\ Range(steps[k].output) \subseteq 1..printed
  <2>1. steps[k].open \in BOOLEAN /\ steps[k].output \in Seq(1..printed)
    BY DEF Inv, EngineTypes
  <2>2. \A s \in Seq(1..printed) : Range(s) \subseteq 1..printed
    <3> SUFFICES ASSUME NEW s \in Seq(1..printed), NEW j \in DOMAIN s PROVE s[j] \in 1..printed
      BY DEF Range
    <3>1. DOMAIN s = 1..Len(s)
      OBVIOUS
    <3> QED BY <3>1, ElementOfSeq
  <2> QED BY <2>1, <2>2
<1>2. subscribed \in BOOLEAN
  BY DEF Inv, Connection, Relaying
<1>3. /\ row \in Statuses /\ outcome \in Outcomes
      /\ pc \in {"queued", "started", "between", "begun", "open", "closing", "settled", "told",
              "done", "dead"}
      /\ position \in 0..MaxSteps /\ printed \in 0..MaxLines /\ unsaved \subseteq 0..position
      /\ DOMAIN steps \subseteq 1..position
  BY DEF Inv, EngineTypes
<1>4. /\ Len(queue) <= Capacity /\ (queue # <<>> => subscribed)
      /\ request \in {"none", "read", "subscribed", "listed", "pumping", "closing"}
      /\ source \in {"connecting", "open", "closed"} /\ stream \in {"connecting", "open", "lost"}
      /\ live \in BOOLEAN /\ shown \in Statuses \cup {"unknown"}
      /\ lost \subseteq {"started", "ended", "overflow"}
  BY DEF Inv, Connection
<1> QED BY <1>1, <1>2, <1>3, <1>4 DEF TypeOK

THEOREM TypeCorrect == Spec => []TypeOK
BY Consistent, InvTypes, PTL

\* A page that has taken in everything its connection carried agrees with the database on every
\* row whose writes succeeded, however subscription, replay and pipeline overlapped: subscribing
\* before replaying costs duplicates, never a step (deployment_events, upsertStep).
LEMMA InvRecord == Inv => ScreenMatchesRecord
<1> SUFFICES ASSUME Inv, request = "pumping", queue = <<>>, lost = {}, AtRest PROVE ShowsRecord
  BY DEF ScreenMatchesRecord
<1>1. subscribed /\ Whole
  BY DEF Inv, Connection, Relaying, Whole
<1>2. Len(queue) = 0 /\ 1..0 = {}
  OBVIOUS
<1> QED BY <1>1, <1>2, ShownIsRecord DEF Inv

THEOREM ScreenIsRecord == Spec => []ScreenMatchesRecord
BY Consistent, InvRecord, PTL

\* A page that closed its stream shows an end, the recorded one unless that write failed, and
\* every recorded step, and it is never corrected afterwards: only a dropped event, or an end
\* that fell between the row read and the subscription, excuses it (finish, ReceiveClosed).
LEMMA InvFinal == Inv => ClosedScreenIsFinal
BY DEF Inv, Left, ClosedScreenIsFinal

THEOREM EndIsFinal == Spec => []ClosedScreenIsFinal
BY Consistent, InvFinal, PTL

\* The lines a caught-up page lacks come before every line it streamed, and belong to the step
\* that was open when its replay was read, or to what it let go of because it keeps PageLines:
\* a finished step is in the snapshot or in the stream, and nothing is missing in the middle
\* (DeploymentDetail's backlog, close_step).
LEMMA InvOutput == Inv => OnlyTheOpenStepIsMissing
<1> SUFFICES ASSUME Inv, request = "pumping", queue = <<>>, lost = {}, AtRest,
                    NEW k \in DOMAIN steps \ unsaved, NEW n \in Range(outputOf(k)), n \notin logLines
             PROVE  /\ \/ k \in DOMAIN replay.steps /\ replay.steps[k].open
                       \/ Len(lines) = PageLines
                    /\ \A m \in Range(lines) : n < m
  BY DEF OnlyTheOpenStepIsMissing
<1>1. subscribed /\ Whole
  BY DEF Inv, Connection, Relaying, Whole
<1>2. /\ printed \in Nat /\ position \in Nat /\ DOMAIN steps \subseteq 1..position
      /\ buf \in Seq(1..printed) /\ steps[k].output \in Seq(1..printed)
  BY BoundsAreNat DEF Inv, EngineTypes
<1>3. n \in 1..printed
  BY <1>2, RangeEquality DEF outputOf, Range
<1>4. PICK w \in 0..printed : StreamedFrom(w)
  BY <1>1 DEF Inv, Streamed
<1>5. Window(<<>>, w, printed) /\ Kept(w) /\ OutputAt(w)
  BY <1>4 DEF StreamedFrom
<1>6. w = printed
  <2> SUFFICES ASSUME w # printed PROVE FALSE
    OBVIOUS
  <2>1. printed \in (w + 1)..printed
    BY <1>2
  <2>2. PICK i \in 1..Len(<<>>) : TRUE
    BY <1>5, <2>1 DEF Window
  <2> QED BY <2>2
<1>7. /\ lines \in Seq(Nat) /\ Len(lines) \in Nat /\ Len(lines) <= w /\ DOMAIN lines = 1..Len(lines)
      /\ \A j \in 1..Len(lines) : lines[j] = (w - Len(lines)) + j
  BY <1>5 DEF Kept
<1>8. n > w - Len(lines) \/ Len(lines) = PageLines \/ Replayed(k, n)
  BY <1>5 DEF OutputAt, Floor, Excess
<1>9. \A k1 \in DOMAIN replay.steps : \A n1 \in Range(replay.steps[k1].output) : n1 \in backlog
  BY DEF Inv, Replay, Recorded
<1>10. CASE lines # <<>>
  <2>1. n \notin backlog /\ n \notin Range(lines)
    BY <1>10 DEF logLines
  <2>2. n <= w - Len(lines)
    <3> SUFFICES ASSUME n > w - Len(lines) PROVE n \in Range(lines)
      BY <1>2, <1>3, <1>7, <2>1
    <3>1. n - (w - Len(lines)) \in 1..Len(lines)
      BY <1>2, <1>3, <1>6, <1>7
    <3>2. lines[n - (w - Len(lines))] = n
      BY <1>2, <1>3, <1>7, <3>1
    <3> QED BY <1>7, <3>1, <3>2 DEF Range
  <2>3. ASSUME NEW m \in Range(lines) PROVE n < m
    <3>1. PICK j \in 1..Len(lines) : lines[j] = m
      BY <1>7, <2>3 DEF Range
    <3>2. m = (w - Len(lines)) + j
      BY <1>7, <3>1
    <3> QED BY <1>2, <1>3, <1>7, <2>2, <3>2
  <2>4. Len(lines) = PageLines \/ Replayed(k, n)
    BY <1>2, <1>3, <1>7, <1>8, <2>2
  <2> QED BY <1>9, <2>1, <2>3, <2>4 DEF Replayed
<1>11. CASE lines = <<>>
  <2>1. \A m : m \notin Range(lines)
    BY <1>11 DEF Range
  <2>2. Len(lines) = 0 /\ PageLines # 0
    BY <1>11, BoundsAreNat
  <2>3. Replayed(k, n)
    BY <1>2, <1>3, <1>6, <1>8, <2>2
  <2>4. ASSUME k \in DOMAIN replay.steps, ~replay.steps[k].open PROVE FALSE
    <3>1. steps[k] = replay.steps[k] /\ n \in Range(steps[k].output)
      BY <2>3, <2>4 DEF Inv, Replay, Replayed
    <3>2. ShowsRecord
      BY InvRecord DEF ScreenMatchesRecord
    <3>3. k \in DOMAIN shownSteps /\ shownSteps[k] = steps[k]
      BY <1>2, <3>2 DEF ShowsRecord, SameStep
    <3>4. n \in Recorded(shownSteps)
      BY <3>1, <3>3 DEF Recorded
    <3> QED BY <1>11, <3>4 DEF logLines
  <2> QED BY <2>1, <2>3, <2>4 DEF Replayed
<1> QED BY <1>10, <1>11

THEOREM OutputIsWhole == Spec => []OnlyTheOpenStepIsMissing
BY Consistent, InvOutput, PTL
=============================================================================
