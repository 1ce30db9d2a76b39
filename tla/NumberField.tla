----------------------------- MODULE NumberField ----------------------------
(* The bounded number input: typing edits a draft that applies while it is valid, and  *)
(* a held button or key, the limit keys, a dragged label, Enter, Escape and blur change *)
(* the value.  Numbers are integers; the rolling digits, the strain against a limit and *)
(* what a screen reader hears are left out.                                             *)
EXTENDS Integers

CONSTANTS min, max, step, large,    \* the field's limits and steps
          Drafts                    \* the numbers a draft may read as

VARIABLES
    current,        \* the value
    draft,          \* what is typed: a number, or "" for a text no number is read from
    editing,
    editStart,      \* the value before the typing began
    hold,           \* the repeat of a held control: 0, or its steps with their direction
    drag,           \* the value a label drag set out from
    given           \* history: the value the field was given

vars == <<current, draft, editing, editStart, hold, drag, given>>

Released == min - 1
NoText   == min - 2

clamp(next) == IF next < min THEN min ELSE IF next > max THEN max ELSE next
round(n)    == (2 * n + step) \div (2 * step)         \* n / step, halves up
snap(next)  == min + round(next - min) * step

\* Fault: steps count from wherever the value is.
stepFrom_Plain(from, steps) == from + steps * step

\* From off the grid, the next grid line on the way, then whole steps.
stepFrom(from, steps) ==
    LET index == from - min
        grid  == IF steps > 0 THEN index \div step ELSE -((-index) \div step)
    IN min + (grid + steps) * step

Init ==
    /\ current \in min..max
    /\ draft = NoText /\ editing = FALSE /\ editStart = current
    /\ hold = 0 /\ drag = Released
    /\ given = current

commitValue(next) == current' = clamp(next)
commitDraft ==
    /\ editing' = FALSE
    /\ IF editing /\ draft # NoText THEN commitValue(snap(draft)) ELSE UNCHANGED current

\* The same field with its draft committed, as the steps that follow it see it.
settled == IF editing /\ draft # NoText THEN clamp(snap(draft)) ELSE current

-----------------------------------------------------------------------------
onChange(text) ==
    /\ draft' = text /\ editing' = TRUE
    /\ editStart' = IF editing THEN editStart ELSE current
    /\ IF text # NoText /\ text \in min..max /\ snap(text) = text
         THEN commitValue(text) ELSE UNCHANGED current
    /\ UNCHANGED <<hold, drag, given>>

\* Only a draft in progress is committed; Enter on a settled field selects its text.
Enter ==
    /\ editing /\ commitDraft
    /\ UNCHANGED <<draft, editStart, hold, drag, given>>

Escape ==
    /\ editing /\ editing' = FALSE
    /\ commitValue(editStart)
    /\ UNCHANGED <<draft, editStart, hold, drag, given>>

Blur ==
    /\ hold' = 0 /\ commitDraft
    /\ UNCHANGED <<draft, editStart, drag, given>>

ToLimit ==
    /\ ~editing
    /\ commitValue(min) \/ commitValue(max)
    /\ UNCHANGED <<draft, editing, editStart, hold, drag, given>>

\* One step now, and a timer that repeats it until the control is let go.
startHold(toward, amount) ==
    LET steps == round(amount) IN
    /\ hold' = toward * (IF steps < 1 THEN 1 ELSE steps)
    /\ editing' = FALSE
    /\ commitValue(stepFrom(settled, hold'))
    /\ UNCHANGED <<draft, editStart, drag, given>>

Tick ==
    /\ hold # 0
    /\ commitValue(stepFrom(current, hold))
    /\ UNCHANGED <<draft, editing, editStart, hold, drag, given>>

stopHold ==
    /\ hold # 0 /\ hold' = 0
    /\ UNCHANGED <<current, draft, editing, editStart, drag, given>>

ScrubStart ==
    /\ drag = Released
    /\ commitDraft
    /\ drag' = settled
    /\ UNCHANGED <<draft, editStart, hold, given>>

ScrubMove(steps) ==
    /\ drag # Released
    /\ commitValue(IF steps = 0 THEN drag ELSE stepFrom(drag, steps))
    /\ UNCHANGED <<draft, editing, editStart, hold, drag, given>>

ScrubEnd ==
    /\ drag # Released /\ drag' = Released
    /\ UNCHANGED <<current, draft, editing, editStart, hold, given>>

Next ==
    \/ \E text \in Drafts \cup {NoText} : onChange(text)
    \/ Enter \/ Escape \/ Blur \/ ToLimit
    \/ \E toward \in {1, -1}, amount \in {step, large} : startHold(toward, amount)
    \/ Tick \/ stopHold
    \/ ScrubStart \/ (\E steps \in -3..3 : ScrubMove(steps)) \/ ScrubEnd

Spec == Init /\ [][Next]_vars

-----------------------------------------------------------------------------
TypeOK ==
    /\ current \in min..max /\ editStart \in min..max /\ drag \in min..max \cup {Released}
    /\ draft \in Drafts \cup {NoText} /\ editing \in BOOLEAN
    /\ hold \in {-round(large), -1, 0, 1, round(large)}

(* Typing, holding, dragging and giving up in any order leave a value within the limits *)
(* that is a whole number of steps from the minimum, a limit, or the value the field     *)
(* was given.                                                                            *)
OnGrid(n) == n \in {min, max, given} \/ (n - min) % step = 0
ValueIsReachable == current \in min..max /\ OnGrid(current)
=============================================================================
