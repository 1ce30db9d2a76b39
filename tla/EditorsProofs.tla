---------------------------- MODULE EditorsProofs ---------------------------
(* What holds of the pages that hold what is being typed, for every value of the constants: *)
(* the number input, the general settings, the variables, the variables' .env text.         *)
EXTENDS Editors, SequenceTheorems, WellFoundedInduction, TLAPS

\* A step of the composition is a step of the model it is about, or leaves it alone.
LEMMA EditorMoves ==
  ASSUME [EditorsNext]_editorsVars
  PROVE  /\ client' = client
         /\ client = "settings" => [Settings!Next]_(Settings!vars)
         /\ client = "variables" => [Variables!Next]_(Variables!vars)
         /\ client = "number" => [Number!Next]_(Number!vars)
         /\ client = "dotenv" => [Text!Next]_(Text!vars)
<1>1. CASE EditorsNext
  BY <1>1 DEF EditorsNext
<1>2. CASE UNCHANGED editorsVars
  <2>1. /\ client' = client /\ UNCHANGED settingsVars
        /\ UNCHANGED variablesVars /\ UNCHANGED numberVars /\ UNCHANGED dotenvVars
    BY <1>2 DEF editorsVars
  <2>2. UNCHANGED Settings!vars
    BY <2>1 DEF settingsVars, Settings!vars, Settings!form, Settings!history
  <2>3. UNCHANGED Variables!vars
    BY <2>1 DEF variablesVars, Variables!vars, Variables!card, Variables!counts
  <2>4. UNCHANGED Number!vars
    BY <2>1 DEF numberVars, Number!vars
  <2>5. UNCHANGED Text!vars
    BY <2>1 DEF dotenvVars, Text!vars
  <2> QED BY <2>1, <2>2, <2>3, <2>4, <2>5
<1> QED BY <1>1, <1>2

-----------------------------------------------------------------------------
(* The number input. *)

\* A whole number of steps from the minimum.
OnStep(n) == (n - min_number) % step_number = 0

\* A value the field may hold: within its limits, on a step, at a limit or as it was given.
Reachable(n, start) ==
    n \in min_number..max_number /\ (n \in {min_number, max_number, start} \/ OnStep(n))

NumberInv ==
    /\ Reachable(current, given) /\ Reachable(editStart, given)
    /\ drag # Number!Released => Reachable(drag, given)
    /\ draft_number \in Int /\ hold \in Int /\ given \in Int

LEMMA WholeSteps ==
  ASSUME NEW k \in Int
  PROVE  min_number + k * step_number \in Int /\ OnStep(min_number + k * step_number)
<1> DEFINE n == k * step_number
<1>1. n \in Int /\ step_number \in Nat \ {0} /\ min_number \in Int
  BY EditorsAssumption
<1>2. n % step_number = 0
  <2> DEFINE q == n \div step_number
             r == n % step_number
  <2>1. q \in Int /\ r \in 0..step_number - 1 /\ n = step_number * q + r
    BY <1>1
  <2> HIDE DEF q, r
  <2>2. step_number * (k - q) = r
    BY <1>1, <2>1
  <2>3. CASE k - q >= 1
    <3>1. step_number * (k - q) >= step_number
      BY <1>1, <2>1, <2>3
    <3> QED BY <1>1, <2>1, <2>2, <3>1
  <2>4. CASE k - q <= -1
    <3>1. step_number * (k - q) <= -step_number
      BY <1>1, <2>1, <2>4
    <3> QED BY <1>1, <2>1, <2>2, <3>1
  <2>5. CASE k - q = 0
    <3>1. r = 0
      BY <1>1, <2>2, <2>5
    <3> QED BY <3>1 DEF r
  <2> QED BY <2>1, <2>3, <2>4, <2>5
<1>3. (min_number + n) - min_number = n /\ min_number + n \in Int
  BY <1>1
<1> QED BY <1>2, <1>3 DEF OnStep

LEMMA ClampReaches ==
  ASSUME NEW n \in Int, NEW start, OnStep(n) \/ Reachable(n, start)
  PROVE  Reachable(Number!clamp(n), start)
BY EditorsAssumption DEF Reachable, Number!clamp

LEMMA SnapIsOnStep ==
  ASSUME NEW n \in Int
  PROVE  Number!snap(n) \in Int /\ OnStep(Number!snap(n))
<1> DEFINE k == Number!round(n - min_number)
<1>1. k \in Int
  <2>1. 2 * (n - min_number) + step_number \in Int /\ 2 * step_number \in Nat \ {0}
    BY EditorsAssumption
  <2> QED BY <2>1 DEF Number!round
<1>2. Number!snap(n) = min_number + k * step_number
  BY DEF Number!snap
<1> HIDE DEF k
<1> QED BY <1>1, <1>2, WholeSteps

LEMMA StepIsOnStep ==
  ASSUME NEW from \in Int, NEW steps \in Int
  PROVE  Number!stepFrom(from, steps) \in Int /\ OnStep(Number!stepFrom(from, steps))
<1> DEFINE index == from - min_number
           grid == IF steps > 0 THEN index \div step_number ELSE -((-index) \div step_number)
<1>1. grid \in Int
  BY EditorsAssumption
<1>2. Number!stepFrom(from, steps) = min_number + (grid + steps) * step_number
  BY DEF Number!stepFrom
<1> HIDE DEF grid
<1>3. grid + steps \in Int
  BY <1>1
<1> QED BY <1>2, <1>3, WholeSteps

\* What a step starts from, and what ends the typing, may be held.
LEMMA Settles ==
  ASSUME NumberInv
  PROVE  /\ Reachable(Number!settled, given)
         /\ Number!commitDraft => Reachable(current', given)
<1>1. CASE editing /\ draft_number # Number!NoText
  <2>1. Reachable(Number!clamp(Number!snap(draft_number)), given)
    BY SnapIsOnStep, ClampReaches DEF NumberInv
  <2> QED BY <1>1, <2>1 DEF Number!settled, Number!commitDraft, Number!commitValue
<1>2. CASE ~(editing /\ draft_number # Number!NoText)
  <2>1. Number!settled = current
    BY <1>2 DEF Number!settled
  <2>2. Number!commitDraft => current' = current
    BY <1>2 DEF Number!commitDraft
  <2> QED BY <2>1, <2>2, Zenon DEF NumberInv
<1> QED BY <1>1, <1>2


LEMMA Typing ==
  ASSUME NumberInv, NEW next \in Drafts \cup {Number!NoText}, Number!onChange(next) PROVE NumberInv'
<1>1. next \in Int /\ draft_number' = next /\ UNCHANGED <<hold, drag, given>>
  BY EditorsAssumption DEF Number!onChange, Number!NoText
<1>2. Reachable(editStart', given)
  BY Zenon DEF NumberInv, Number!onChange
<1>3. Reachable(current', given)
  <2>1. CASE next # Number!NoText /\ next \in min_number..max_number /\ Number!snap(next) = next
    <3>1. current' = Number!clamp(next)
      BY <2>1 DEF Number!onChange, Number!commitValue
    <3>2. OnStep(next)
      BY <1>1, <2>1, SnapIsOnStep
    <3> QED BY <1>1, <3>1, <3>2, ClampReaches
  <2>2. CASE ~(next # Number!NoText /\ next \in min_number..max_number /\ Number!snap(next) = next)
    <3>1. current' = current
      BY <2>2 DEF Number!onChange
    <3> QED BY <3>1 DEF NumberInv
  <2> QED BY <2>1, <2>2
<1> QED BY <1>1, <1>2, <1>3 DEF NumberInv, Number!Released

\* Every other step sets the value alone, or what a drag sets out from.
LEMMA Others ==
  ASSUME NumberInv, Reachable(current', given), given' = given, editStart' = editStart,
         draft_number' = draft_number, hold' \in Int,
         drag' \in {drag, Number!Released} \/ Reachable(drag', given)
  PROVE  NumberInv'
BY DEF NumberInv, Number!Released

\* A step from wherever the value is ends on a step, or at a limit.
LEMMA Stepped ==
  ASSUME NEW from \in Int, NEW steps \in Int, NEW start
  PROVE  Reachable(Number!clamp(Number!stepFrom(from, steps)), start)
BY StepIsOnStep, ClampReaches

LEMMA ReachableIsNumber ==
  ASSUME NEW n, NEW start, Reachable(n, start) PROVE n \in Int
BY EditorsAssumption DEF Reachable

LEMMA TypingEnds ==
  ASSUME NumberInv, Number!Enter \/ Number!Escape \/ Number!Blur \/ Number!ToLimit PROVE NumberInv'
<1>1. /\ given' = given /\ editStart' = editStart /\ draft_number' = draft_number /\ drag' = drag
      /\ hold' \in Int
  BY DEF Number!Enter, Number!Escape, Number!Blur, Number!ToLimit, NumberInv
<1>2. CASE Number!commitDraft
  BY <1>1, <1>2, Settles, Others
<1>3. CASE Number!Escape
  <2>1. current' = Number!clamp(editStart) /\ editStart \in Int
    BY <1>3, ReachableIsNumber DEF Number!Escape, Number!commitValue, NumberInv
  <2> QED BY <1>1, <2>1, ClampReaches, Others DEF NumberInv
<1>4. CASE Number!ToLimit
  <2>1. current' = Number!clamp(min_number) \/ current' = Number!clamp(max_number)
    BY <1>4 DEF Number!ToLimit, Number!commitValue
  <2>2. Reachable(current', given)
    BY <2>1, EditorsAssumption DEF Reachable, Number!clamp
  <2> QED BY <1>1, <2>2, Others
<1> QED BY <1>2, <1>3, <1>4 DEF Number!Enter, Number!Blur

LEMMA Holding ==
  ASSUME NumberInv, (\E toward \in {1, -1}, amount \in {step_number, large_number} :
             Number!startHold(toward, amount)) \/ Number!Tick \/ Number!stopHold
  PROVE  NumberInv'
<1>1. given' = given /\ editStart' = editStart /\ draft_number' = draft_number /\ drag' = drag
  BY DEF Number!startHold, Number!Tick, Number!stopHold
<1>2. CASE \E toward \in {1, -1}, amount \in {step_number, large_number} :
             Number!startHold(toward, amount)
  <2>1. PICK toward \in {1, -1}, amount \in {step_number, large_number} :
             Number!startHold(toward, amount)
    BY <1>2
  <2>2. Number!round(amount) \in Int
    <3>1. 2 * amount + step_number \in Int /\ 2 * step_number \in Nat \ {0}
      BY EditorsAssumption
    <3> QED BY <3>1 DEF Number!round
  <2>3. hold' \in Int
    <3>1. hold' = toward * (IF Number!round(amount) < 1 THEN 1 ELSE Number!round(amount))
      BY <2>1 DEF Number!startHold
    <3> QED BY <2>2, <3>1
  <2>4. current' = Number!clamp(Number!stepFrom(Number!settled, hold'))
    BY <2>1 DEF Number!startHold, Number!commitValue
  <2>5. Number!settled \in Int
    BY Settles, ReachableIsNumber
  <2> QED BY <1>1, <2>3, <2>4, <2>5, Stepped, Others
<1>3. CASE Number!Tick
  <2>1. current' = Number!clamp(Number!stepFrom(current, hold)) /\ hold' = hold
    BY <1>3 DEF Number!Tick, Number!commitValue
  <2>2. current \in Int /\ hold \in Int
    BY ReachableIsNumber DEF NumberInv
  <2> QED BY <1>1, <2>1, <2>2, Stepped, Others
<1>4. CASE Number!stopHold
  <2>1. current' = current /\ hold' = 0
    BY <1>4 DEF Number!stopHold
  <2> QED BY <1>1, <2>1, Others DEF NumberInv
<1> QED BY <1>2, <1>3, <1>4

LEMMA Dragging ==
  ASSUME NumberInv,
         Number!ScrubStart \/ (\E steps \in -3..3 : Number!ScrubMove(steps)) \/ Number!ScrubEnd
  PROVE  NumberInv'
<1>1. /\ given' = given /\ editStart' = editStart /\ draft_number' = draft_number
      /\ hold' \in Int
  BY DEF Number!ScrubStart, Number!ScrubMove, Number!ScrubEnd, NumberInv
<1>2. CASE Number!ScrubStart
  <2>1. drag' = Number!settled /\ Number!commitDraft
    BY <1>2 DEF Number!ScrubStart
  <2>2. Reachable(drag', given) /\ Reachable(current', given)
    BY <2>1, Settles
  <2> QED BY <1>1, <2>2, Others
<1>3. CASE \E steps \in -3..3 : Number!ScrubMove(steps)
  <2>1. PICK steps \in -3..3 : Number!ScrubMove(steps)
    BY <1>3
  <2>2. Reachable(drag, given) /\ drag \in Int /\ drag' = drag /\ steps \in Int
    BY <2>1, ReachableIsNumber DEF Number!ScrubMove, NumberInv
  <2>3. CASE steps = 0
    <3>1. current' = Number!clamp(drag)
      BY <2>1, <2>3 DEF Number!ScrubMove, Number!commitValue
    <3> QED BY <1>1, <2>2, <3>1, ClampReaches, Others
  <2>4. CASE steps # 0
    <3>1. current' = Number!clamp(Number!stepFrom(drag, steps))
      BY <2>1, <2>4 DEF Number!ScrubMove, Number!commitValue
    <3> QED BY <1>1, <2>2, <3>1, Stepped, Others
  <2> QED BY <2>3, <2>4
<1>4. CASE Number!ScrubEnd
  <2>1. current' = current /\ drag' = Number!Released
    BY <1>4 DEF Number!ScrubEnd
  <2> QED BY <1>1, <2>1, Others DEF NumberInv
<1> QED BY <1>2, <1>3, <1>4

LEMMA NumberStarts == Number!Init => NumberInv
BY EditorsAssumption DEF Number!Init, NumberInv, Reachable, Number!Released, Number!NoText

LEMMA NumberSteps == NumberInv /\ [Number!Next]_(Number!vars) => NumberInv'
<1> SUFFICES ASSUME NumberInv, [Number!Next]_(Number!vars) PROVE NumberInv'
  OBVIOUS
<1>1. CASE UNCHANGED Number!vars
  BY <1>1 DEF Number!vars, NumberInv, Number!Released
<1> QED BY <1>1, Typing, TypingEnds, Holding, Dragging DEF Number!Next

(* No order of typing, holding, dragging and giving up leaves the number input with a value *)
(* it may not hold, for any limits and any step (number-field.tsx).                           *)
THEOREM ValuesAreReachable == EditorsSpec => []ValueIsReachable
<1> DEFINE Inv == client = "number" => NumberInv
<1>1. EditorsInit => Inv
  BY NumberStarts DEF EditorsInit
<1>2. Inv /\ [EditorsNext]_editorsVars => Inv'
  BY EditorMoves, NumberSteps
<1>3. Inv => ValueIsReachable
  BY DEF NumberInv, Reachable, OnStep, ValueIsReachable, Number!ValueIsReachable, Number!OnGrid
<1> QED BY <1>1, <1>2, <1>3, PTL DEF EditorsSpec

-----------------------------------------------------------------------------
(* The general settings. *)

\* What was once read of the settings: not newer than they are, and the same hostname
\* unless they were written since.
Known(read_, now) ==
    /\ read_.revision \in Nat /\ read_.revision <= now.revision
    /\ read_.revision = now.revision => read_.domain = now.domain

Remembered ==
    /\ stored_settings.revision \in Nat
    /\ Known(loaded, stored_settings)
    /\ read.at = "answered" => Known(read.settings, stored_settings)
    /\ removal.at \in {"sent", "tokened"} => Known(removal, stored_settings)

\* A write whose answer is still to come.
Unanswered == Settings!Wrote(save_settings) \/ Settings!Wrote(removal)

\* The page shows what is stored, or is about to read it again.
Followed ==
    excused_settings = {} =>
        /\ read.at = "idle" => loaded = stored_settings \/ Unanswered
        /\ read.at = "answered" => read.settings = stored_settings \/ Unanswered

\* Nothing is sent over a save that is under way.
OneSave == save_settings.at # "idle" => phase = "saving"

SettingsInv == Remembered /\ Followed /\ OneSave

LEMMA SettingsStart == Settings!Init => SettingsInv
<1> SUFFICES ASSUME Settings!Init PROVE SettingsInv
  OBVIOUS
<1>1. stored_settings.revision = 0 /\ loaded = stored_settings
  BY DEF Settings!Init
<1>2. /\ save_settings.at = "idle" /\ removal.at = "idle" /\ read.at = "idle"
  BY DEF Settings!Init, Settings!Idle, Settings!Unread
<1> QED BY <1>1, <1>2 DEF SettingsInv, Remembered, Known, Followed, OneSave

LEMMA FormSteps ==
  ASSUME SettingsInv, Settings!Type \/ Settings!Discard \/ Settings!Fade \/ Settings!Leave
  PROVE  SettingsInv'
<1>1. UNCHANGED <<stored_settings, loaded, save_settings, removal, read, excused_settings>>
  BY DEF Settings!Type, Settings!Discard, Settings!Fade, Settings!Leave, Settings!history
<1>2. phase = "saving" => phase' = "saving"
  BY DEF Settings!Type, Settings!Edited, Settings!Discard, Settings!Fade, Settings!Leave,
     Settings!form
<1> QED BY <1>1, <1>2 DEF SettingsInv, Remembered, Followed, Unanswered, OneSave

LEMMA ReadSteps ==
  ASSUME SettingsInv,
         Settings!Focus \/ Settings!ReadServer \/ Settings!ReadLands \/ Settings!ReadFails
  PROVE  SettingsInv'
<1>1. UNCHANGED <<stored_settings, phase, save_settings, removal>>
  BY DEF Settings!Focus, Settings!ReadServer, Settings!ReadLands, Settings!ReadFails,
     Settings!form
<1>2. OneSave'
  BY <1>1 DEF SettingsInv, OneSave
<1>3. CASE Settings!Focus
  <2>1. read'.at = "sent" /\ loaded' = loaded /\ excused_settings' = excused_settings
    BY <1>3 DEF Settings!Focus, Settings!Refetch, Settings!history
  <2> QED BY <1>1, <1>2, <2>1 DEF SettingsInv, Remembered, Followed
<1>4. CASE Settings!ReadServer
  <2>1. /\ read'.at = "answered" /\ read'.settings = stored_settings
        /\ loaded' = loaded /\ excused_settings' = excused_settings
    BY <1>4 DEF Settings!ReadServer, Settings!history
  <2> QED BY <1>1, <1>2, <2>1 DEF SettingsInv, Remembered, Known, Followed
<1>5. CASE Settings!ReadLands
  <2>1. /\ read.at = "answered" /\ loaded' = read.settings /\ read'.at = "idle"
        /\ \/ read.settings = stored_settings
           \/ excused_settings' = excused_settings
    BY <1>5 DEF Settings!ReadLands, Settings!Unread
  <2> QED BY <1>1, <1>2, <2>1 DEF SettingsInv, Remembered, Followed, Unanswered
<1>6. CASE Settings!ReadFails
  <2>1. read'.at = "idle" /\ loaded' = loaded /\ excused_settings' # {}
    BY <1>6 DEF Settings!ReadFails, Settings!Unread
  <2> QED BY <1>1, <1>2, <2>1 DEF SettingsInv, Remembered, Followed
<1> QED BY <1>3, <1>4, <1>5, <1>6

\* Storing the token leaves the hostname, and is a write still to be answered if it changed
\* anything.
LEMMA TokenKeeps ==
  ASSUME NEW request, Settings!StoreToken(request), stored_settings.revision \in Nat
  PROVE  /\ stored_settings'.revision \in Nat
         /\ \A known : Known(known, stored_settings) => Known(known, stored_settings')
         /\ request.token = "keep" => stored_settings' = stored_settings
<1>1. /\ stored_settings'.revision = stored_settings.revision
      /\ stored_settings'.domain = stored_settings.domain
  BY DEF Settings!StoreToken
<1> QED BY <1>1 DEF Known, Settings!StoreToken

\* Storing the hostname makes everything read before it old.
LEMMA DomainKeeps ==
  ASSUME NEW request, Settings!StoreDomain(request), stored_settings.revision \in Nat
  PROVE  /\ stored_settings'.revision \in Nat
         /\ \A known : Known(known, stored_settings) => Known(known, stored_settings')
<1>1. stored_settings'.revision = stored_settings.revision + 1
  BY DEF Settings!StoreDomain
<1> QED BY <1>1 DEF Known

LEMMA SaveSteps ==
  ASSUME SettingsInv, Settings!Save \/ Settings!SaveToken \/ Settings!SaveDomain \/
                      Settings!SaveAnswered \/ Settings!SaveDone \/ Settings!SaveFails
  PROVE  SettingsInv'
<1>1. loaded' = loaded /\ removal' = removal
  BY DEF Settings!Save, Settings!SaveToken, Settings!SaveDomain, Settings!SaveAnswered,
     Settings!SaveDone, Settings!SaveFails
<1>2. CASE Settings!Save
  <2>1. UNCHANGED <<stored_settings, read, excused_settings>> /\ phase # "saving"
        /\ phase' = "saving" /\ save_settings'.at = "sent"
    BY <1>2 DEF Settings!Save, Settings!Request
  <2>2. ~Settings!Wrote(save_settings)
    BY <2>1 DEF SettingsInv, OneSave, Settings!Wrote
  <2> QED BY <1>1, <2>1, <2>2 DEF SettingsInv, Remembered, Followed, Unanswered, OneSave
<1>3. CASE Settings!SaveToken
  <2>1. /\ Settings!StoreToken(save_settings) /\ save_settings'.at = "tokened" /\ phase' = phase
        /\ save_settings'.token = save_settings.token
        /\ save_settings.at = "sent" /\ read' = read /\ excused_settings' = excused_settings
    BY <1>3 DEF Settings!SaveToken, Settings!StoreToken, Settings!form, Settings!history
  <2>2. Remembered'
    BY <1>1, <2>1, TokenKeeps DEF SettingsInv, Remembered
  <2>3. Followed'
    <3>1. CASE save_settings.token = "keep"
      <4>1. stored_settings' = stored_settings /\ ~Settings!Wrote(save_settings)
        BY <2>1, <3>1, TokenKeeps DEF SettingsInv, Remembered, Settings!Wrote
      <4> QED BY <1>1, <2>1, <4>1 DEF SettingsInv, Followed, Unanswered
    <3>2. CASE save_settings.token # "keep"
      <4>1. Settings!Wrote(save_settings')
        BY <2>1, <3>2 DEF Settings!Wrote
      <4> QED BY <4>1 DEF Followed, Unanswered, Settings!Wrote
    <3> QED BY <3>1, <3>2
  <2> QED BY <2>1, <2>2, <2>3 DEF SettingsInv, OneSave
<1>4. CASE Settings!SaveDomain
  <2>1. /\ Settings!StoreDomain(save_settings) /\ save_settings'.at = "written" /\ phase' = phase
        /\ save_settings.at = "tokened" /\ read' = read
    BY <1>4 DEF Settings!SaveDomain, Settings!StoreDomain, Settings!form
  <2>2. Remembered'
    BY <1>1, <2>1, DomainKeeps DEF SettingsInv, Remembered
  <2>3. Followed'
    BY <2>1 DEF Followed, Unanswered, Settings!Wrote
  <2> QED BY <2>1, <2>2, <2>3 DEF SettingsInv, OneSave
<1>5. CASE Settings!SaveAnswered
  <2>1. /\ stored_settings' = stored_settings /\ read'.at = "sent" /\ phase' = phase
        /\ save_settings.at = "written"
    BY <1>5 DEF Settings!SaveAnswered, Settings!Refetch
  <2> QED BY <1>1, <2>1 DEF SettingsInv, Remembered, Followed, OneSave
<1>6. CASE Settings!SaveDone
  <2>1. /\ UNCHANGED <<stored_settings, read, excused_settings>>
        /\ save_settings.at = "refreshing" /\ save_settings'.at = "idle"
    BY <1>6 DEF Settings!SaveDone, Settings!Idle, Settings!history
  <2>2. ~Settings!Wrote(save_settings)
    BY <2>1 DEF Settings!Wrote
  <2> QED BY <1>1, <2>1, <2>2 DEF SettingsInv, Remembered, Followed, Unanswered, OneSave
<1>7. CASE Settings!SaveFails
  <2>1. UNCHANGED <<stored_settings, read>> /\ save_settings'.at = "idle"
    BY <1>7 DEF Settings!SaveFails, Settings!Idle
  <2>2. Followed'
    <3>1. CASE Settings!Wrote(save_settings)
      <4>1. excused_settings' # {}
        BY <1>7, <3>1 DEF Settings!SaveFails, Settings!Failure
      <4> QED BY <4>1 DEF Followed
    <3>2. CASE ~Settings!Wrote(save_settings)
      <4>1. excused_settings' = excused_settings
        BY <1>7, <3>2 DEF Settings!SaveFails, Settings!Failure
      <4> QED BY <1>1, <2>1, <3>2, <4>1 DEF SettingsInv, Followed, Unanswered
    <3> QED BY <3>1, <3>2
  <2> QED BY <1>1, <2>1, <2>2 DEF SettingsInv, Remembered, OneSave
<1> QED BY <1>2, <1>3, <1>4, <1>5, <1>6, <1>7

LEMMA RemovalSteps ==
  ASSUME SettingsInv, Settings!RemoveToken \/ Settings!RemovalToken \/ Settings!RemovalDomain \/
                      Settings!RemovalAnswered \/ Settings!RemovalDone \/ Settings!RemovalFails
  PROVE  SettingsInv'
<1>1. loaded' = loaded /\ save_settings' = save_settings /\ phase' = phase
  BY DEF Settings!RemoveToken, Settings!RemovalToken, Settings!RemovalDomain,
     Settings!RemovalAnswered, Settings!RemovalDone, Settings!RemovalFails, Settings!form
<1>2. OneSave'
  BY <1>1 DEF SettingsInv, OneSave
<1>3. CASE Settings!RemoveToken
  <2>1. /\ UNCHANGED <<stored_settings, read, excused_settings>>
        /\ removal.at = "idle" /\ removal'.at = "sent"
        /\ removal'.domain = loaded.domain /\ removal'.revision = loaded.revision
    BY <1>3 DEF Settings!RemoveToken, Settings!Request, Settings!saved, Settings!Idle
  <2>2. ~Settings!Wrote(removal)
    BY <2>1 DEF Settings!Wrote
  <2> QED BY <1>1, <1>2, <2>1, <2>2 DEF SettingsInv, Remembered, Known, Followed, Unanswered
<1>4. CASE Settings!RemovalToken
  <2>1. /\ Settings!StoreToken(removal) /\ removal'.at = "tokened" /\ removal.at = "sent"
        /\ removal'.domain = removal.domain /\ removal'.revision = removal.revision
        /\ removal'.token = removal.token
        /\ read' = read /\ excused_settings' = excused_settings
    BY <1>4 DEF Settings!RemovalToken, Settings!StoreToken, Settings!history
  <2>2. Remembered'
    BY <1>1, <2>1, TokenKeeps DEF SettingsInv, Remembered, Known
  <2>3. Followed'
    <3>1. CASE removal.token = "keep"
      <4>1. stored_settings' = stored_settings /\ ~Settings!Wrote(removal)
        BY <2>1, <3>1, TokenKeeps DEF SettingsInv, Remembered, Settings!Wrote
      <4> QED BY <1>1, <2>1, <4>1 DEF SettingsInv, Followed, Unanswered
    <3>2. CASE removal.token # "keep"
      <4>1. Settings!Wrote(removal')
        BY <2>1, <3>2 DEF Settings!Wrote
      <4> QED BY <4>1 DEF Followed, Unanswered, Settings!Wrote
    <3> QED BY <3>1, <3>2
  <2> QED BY <1>2, <2>2, <2>3 DEF SettingsInv
<1>5. CASE Settings!RemovalDomain
  <2>1. Settings!StoreDomain(removal) /\ removal'.at = "written" /\ read' = read
    BY <1>5 DEF Settings!RemovalDomain
  <2>2. Remembered'
    BY <1>1, <2>1, DomainKeeps DEF SettingsInv, Remembered
  <2>3. Followed'
    BY <2>1 DEF Followed, Unanswered, Settings!Wrote
  <2> QED BY <1>2, <2>2, <2>3 DEF SettingsInv
<1>6. CASE Settings!RemovalAnswered
  <2>1. /\ stored_settings' = stored_settings /\ read'.at = "sent"
        /\ removal'.at = "refreshing"
    BY <1>6 DEF Settings!RemovalAnswered, Settings!Refetch
  <2> QED BY <1>1, <1>2, <2>1 DEF SettingsInv, Remembered, Followed
<1>7. CASE Settings!RemovalDone
  <2>1. /\ UNCHANGED <<stored_settings, read, excused_settings>>
        /\ removal.at = "refreshing" /\ removal'.at = "idle"
    BY <1>7 DEF Settings!RemovalDone, Settings!Idle, Settings!history
  <2>2. ~Settings!Wrote(removal)
    BY <2>1 DEF Settings!Wrote
  <2> QED BY <1>1, <1>2, <2>1, <2>2 DEF SettingsInv, Remembered, Followed, Unanswered
<1>8. CASE Settings!RemovalFails
  <2>1. UNCHANGED <<stored_settings, read>> /\ removal'.at = "idle"
    BY <1>8 DEF Settings!RemovalFails, Settings!Idle
  <2>2. Followed'
    <3>1. CASE Settings!Wrote(removal)
      <4>1. excused_settings' # {}
        BY <1>8, <3>1 DEF Settings!RemovalFails, Settings!Failure
      <4> QED BY <4>1 DEF Followed
    <3>2. CASE ~Settings!Wrote(removal)
      <4>1. excused_settings' = excused_settings
        BY <1>8, <3>2 DEF Settings!RemovalFails, Settings!Failure
      <4> QED BY <1>1, <2>1, <3>2, <4>1 DEF SettingsInv, Followed, Unanswered
    <3> QED BY <3>1, <3>2
  <2> QED BY <1>1, <1>2, <2>1, <2>2 DEF SettingsInv, Remembered
<1> QED BY <1>3, <1>4, <1>5, <1>6, <1>7, <1>8

LEMMA SettingsSteps == SettingsInv /\ [Settings!Next]_(Settings!vars) => SettingsInv'
<1> SUFFICES ASSUME SettingsInv, [Settings!Next]_(Settings!vars) PROVE SettingsInv'
  OBVIOUS
<1>1. CASE UNCHANGED Settings!vars
  BY <1>1 DEF Settings!vars, Settings!form, Settings!history, SettingsInv, Remembered, Followed,
     Unanswered, OneSave
<1> QED BY <1>1, FormSteps, ReadSteps, SaveSteps, RemovalSteps DEF Settings!Next

\* A removal that replaces the settings its page knew writes their own hostname back.
LEMMA RemovalReplays == SettingsInv => Settings!RemovalKeepsTheHostname
<1> SUFFICES ASSUME SettingsInv, Settings!RemovalDomain,
                    removal.revision = stored_settings.revision
             PROVE  stored_settings'.domain = stored_settings.domain
  BY DEF Settings!RemovalKeepsTheHostname
<1>1. removal.at = "tokened" /\ stored_settings'.domain = removal.domain
  BY DEF Settings!RemovalDomain, Settings!StoreDomain
<1> QED BY <1>1 DEF SettingsInv, Remembered, Known

LEMMA QuietPage == SettingsInv => Settings!QuietMeansStored
<1> SUFFICES ASSUME SettingsInv, ~Settings!blocked, save_settings = Settings!Idle,
                    removal = Settings!Idle, read = Settings!Unread, excused_settings = {}
             PROVE  draft_settings.domain = stored_settings.domain /\ loaded = stored_settings
  BY DEF Settings!QuietMeansStored
<1>1. loaded = stored_settings
  BY DEF SettingsInv, Followed, Unanswered, Settings!Wrote, Settings!Idle, Settings!Unread
<1>2. draft_settings = Settings!saved
  BY DEF Settings!blocked, Settings!status, Settings!dirty
<1> QED BY <1>1, <1>2 DEF Settings!saved

(* A settings page at rest shows the stored settings, however its saves, its removals and   *)
(* their re-reads overlapped (system.settings.index.tsx, components/ui/save-bar.tsx). *)
THEOREM QuietPageIsTrue == EditorsSpec => []QuietMeansStored
<1> DEFINE Inv == client = "settings" => SettingsInv
<1>1. EditorsInit => Inv
  BY SettingsStart DEF EditorsInit
<1>2. Inv /\ [EditorsNext]_editorsVars => Inv'
  BY EditorMoves, SettingsSteps
<1>3. Inv => QuietMeansStored
  BY QuietPage DEF QuietMeansStored
<1> QED BY <1>1, <1>2, <1>3, PTL DEF EditorsSpec

(* Removing the token replays the hostname its page knew: no write of it changes a hostname *)
(* nobody saved (system.settings.index.tsx).                                                  *)
THEOREM RemovalIsHarmless == EditorsSpec => RemovalKeepsTheHostname
<1> DEFINE Inv == client = "settings" => SettingsInv
           Kept == client = "settings" => Settings!RemovalKeepsTheHostname
<1>1. EditorsInit => Inv
  BY SettingsStart DEF EditorsInit
<1>2. Inv /\ [EditorsNext]_editorsVars => Inv'
  BY EditorMoves, SettingsSteps
<1>3. Inv /\ [EditorsNext]_editorsVars => [Kept]_editorsVars
  BY RemovalReplays
<1> QED BY <1>1, <1>2, <1>3, PTL DEF EditorsSpec, RemovalKeepsTheHostname

-----------------------------------------------------------------------------
(* The variables. *)

\* A save has changed the stored set and was not answered yet.
Changing == \E i \in DOMAIN writes : writes[i].at \in {"writing", "written"}

\* A save is a sequence's entry, and what it carries was sent.
SentTexts ==
    /\ \E any : writes \in Seq(any)
    /\ \A i \in DOMAIN writes : writes[i].at # "done" => writes[i].text \in sent
    /\ staleRead # Variables!None => staleRead.text \in sent

\* The cached set is the stored one, unless a save is at work or waits for its re-read; an
\* answer on its way is the stored set too.
Synced ==
    excused_variables = {} =>
        /\ Variables!Ready /\ Variables!Rereading = {} =>
              data_variables = server_variables \/ Changing
        /\ query.at = "answered" => query.rows = server_variables \/ Changing

VariablesInv == SentTexts /\ Synced

LEMMA VariablesStart == Variables!Init => VariablesInv
<1> SUFFICES ASSUME Variables!Init PROVE VariablesInv
  OBVIOUS
<1>1. /\ writes = <<>> /\ staleRead = Variables!None
      /\ data_variables = Variables!Missing /\ query.at = "sent"
  BY DEF Variables!Init
<1>2. writes \in Seq({})
  BY <1>1
<1>3. SentTexts
  BY <1>1, <1>2 DEF SentTexts
<1> QED BY <1>1, <1>3 DEF VariablesInv, Synced, Variables!Ready

\* One entry of the saves changed.
LEMMA OneEntry ==
  ASSUME NEW i \in DOMAIN writes, NEW entry, writes' = [writes EXCEPT ![i] = entry],
         \E any : writes \in Seq(any)
  PROVE  /\ \E any : writes' \in Seq(any)
         /\ DOMAIN writes' = DOMAIN writes /\ writes'[i] = entry
         /\ \A j \in DOMAIN writes : j # i => writes'[j] = writes[j]
<1>1. PICK any : writes \in Seq(any)
  OBVIOUS
<1>2. writes \in Seq(any \cup {entry}) /\ DOMAIN writes = 1..Len(writes)
  BY <1>1
<1>3. [writes EXCEPT ![i] = entry] \in Seq(any \cup {entry})
  BY <1>2
<1> QED BY <1>1, <1>3

LEMMA EditSteps ==
  ASSUME VariablesInv, Variables!Edit \/ Variables!Refused \/ Variables!Rival \/ Variables!Focus
  PROVE  VariablesInv'
<1>1. UNCHANGED <<data_variables, writes, staleRead, sent>>
  BY DEF Variables!Edit, Variables!Refused, Variables!Rival, Variables!Focus, Variables!card
<1>2. SentTexts'
  BY <1>1 DEF VariablesInv, SentTexts, Variables!None
<1>3. CASE Variables!Rival
  <2>1. excused_variables' # {}
    BY <1>3 DEF Variables!Rival
  <2> QED BY <1>2, <2>1 DEF VariablesInv, Synced
<1>4. CASE Variables!Edit \/ Variables!Refused \/ Variables!Focus
  <2>1. UNCHANGED <<server_variables, excused_variables>>
    BY <1>4 DEF Variables!Edit, Variables!Refused, Variables!Focus
  <2>2. query' = query \/ query'.at = "sent"
    BY <1>4 DEF Variables!Edit, Variables!Refused, Variables!Focus
  <2>3. Synced'
    BY <1>1, <2>1, <2>2 DEF VariablesInv, Synced, Changing, Variables!Ready, Variables!Missing,
       Variables!Rereading
  <2> QED BY <1>2, <2>3 DEF VariablesInv
<1> QED BY <1>3, <1>4

LEMMA SaveStarts ==
  ASSUME VariablesInv, Variables!Save PROVE VariablesInv'
<1> DEFINE entry == [at |-> "sent", text |-> text, rows |-> Variables!fromDotenv]
<1>1. /\ writes' = Append(writes, entry) /\ sent' = sent \cup {text}
      /\ UNCHANGED <<server_variables, data_variables, query, staleRead, excused_variables>>
  BY DEF Variables!Save
<1>2. entry.at = "sent" /\ entry.text = text
  OBVIOUS
<1> HIDE DEF entry
<1>3. PICK any : writes \in Seq(any)
  BY DEF VariablesInv, SentTexts
<1>4. writes \in Seq(any \cup {entry})
  BY <1>3
<1>5. /\ writes' \in Seq(any \cup {entry})
      /\ DOMAIN writes = 1..Len(writes) /\ DOMAIN writes' = 1..Len(writes) + 1
      /\ Len(writes) \in Nat
      /\ writes'[Len(writes) + 1] = entry
      /\ \A i \in DOMAIN writes : writes'[i] = writes[i]
  BY <1>1, <1>4
<1>6. \A i \in DOMAIN writes' : i \in DOMAIN writes \/ writes'[i] = entry
  BY <1>5
<1>7. DOMAIN writes \subseteq DOMAIN writes'
  BY <1>5
<1>8. SentTexts'
  BY <1>1, <1>2, <1>5, <1>6 DEF VariablesInv, SentTexts, Variables!None
<1>9. Variables!Rereading' = {} => Variables!Rereading = {}
  BY <1>5, <1>7 DEF Variables!Rereading
<1>10. Changing => Changing'
  BY <1>5, <1>7 DEF Changing
<1>11. Synced'
  BY <1>1, <1>9, <1>10 DEF VariablesInv, Synced, Variables!Ready, Variables!Missing
<1> QED BY <1>8, <1>11 DEF VariablesInv

LEMMA WritingSteps ==
  ASSUME VariablesInv, NEW i \in DOMAIN writes, Variables!Writing(i) PROVE VariablesInv'
<1> DEFINE Became(at) == writes'[i].at = at /\ (at # "done" => writes'[i].text = writes[i].text)
           Alone == /\ \E any : writes' \in Seq(any)
                    /\ DOMAIN writes' = DOMAIN writes
                    /\ \A j \in DOMAIN writes : j # i => writes'[j] = writes[j]
<1>1. data_variables' = data_variables /\ staleRead' = staleRead /\ sent' = sent
  BY DEF Variables!Writing, Variables!PutRows, Variables!PutRest, Variables!Answered,
     Variables!SaveFails
<1>2. \E any : writes \in Seq(any)
  BY DEF VariablesInv, SentTexts
<1>3. ASSUME Alone, writes[i].at # "done",
             \E at \in {"writing", "written", "rereading", "done"} : Became(at)
      PROVE  SentTexts'
  BY <1>1, <1>3 DEF VariablesInv, SentTexts, Variables!None
<1>4. CASE Variables!PutRows(i)
  <2>1. Alone /\ Became("writing") /\ writes[i].at = "sent"
    <3> DEFINE entry == [at |-> "writing", text |-> writes[i].text,
                         gone |-> DOMAIN server_variables \ DOMAIN writes[i].rows]
    <3>1. writes' = [writes EXCEPT ![i] = entry] /\ writes[i].at = "sent"
      BY <1>4 DEF Variables!PutRows
    <3>2. entry.at = "writing" /\ entry.text = writes[i].text
      OBVIOUS
    <3> HIDE DEF entry
    <3> QED BY <1>2, <3>1, <3>2, OneEntry
  <2>2. Changing'
    BY <2>1 DEF Changing
  <2> QED BY <1>3, <2>1, <2>2 DEF VariablesInv, Synced
<1>5. CASE Variables!PutRest(i)
  <2>1. Alone /\ Became("written") /\ writes[i].at = "writing"
    <3> DEFINE entry == [at |-> "written", text |-> writes[i].text]
    <3>1. writes' = [writes EXCEPT ![i] = entry] /\ writes[i].at = "writing"
      BY <1>5 DEF Variables!PutRest
    <3>2. entry.at = "written" /\ entry.text = writes[i].text
      OBVIOUS
    <3> HIDE DEF entry
    <3> QED BY <1>2, <3>1, <3>2, OneEntry
  <2>2. Changing'
    BY <2>1 DEF Changing
  <2> QED BY <1>3, <2>1, <2>2 DEF VariablesInv, Synced
<1>6. CASE Variables!Answered(i)
  <2>1. Alone /\ Became("rereading") /\ writes[i].at = "written"
    <3> DEFINE entry == [writes[i] EXCEPT !.at = "rereading"]
    <3>1. writes' = [writes EXCEPT ![i] = entry] /\ writes[i].at = "written"
      BY <1>6 DEF Variables!Answered
    <3>2. entry.at = "rereading" /\ entry.text = writes[i].text
      OBVIOUS
    <3> HIDE DEF entry
    <3> QED BY <1>2, <3>1, <3>2, OneEntry
  <2>2. Variables!Rereading' # {}
    BY <2>1 DEF Variables!Rereading
  <2>3. query'.at = "answered" => excused_variables' # {}
    <3>1. CASE query = Variables!Quiet
      BY <1>6, <3>1 DEF Variables!Answered, Variables!Reread
    <3>2. CASE query # Variables!Quiet
      BY <1>6, <3>2 DEF Variables!Answered, Variables!Reread
    <3> QED BY <3>1, <3>2
  <2> QED BY <1>3, <2>1, <2>2, <2>3 DEF VariablesInv, Synced
<1>7. CASE Variables!SaveFails(i)
  <2>1. Alone /\ Became("done") /\ writes[i].at \in {"sent", "writing", "written"}
    <3>1. writes' = [writes EXCEPT ![i] = [at |-> "done"]]
      BY <1>7 DEF Variables!SaveFails
    <3>2. writes[i].at \in {"sent", "writing", "written"}
      BY <1>7 DEF Variables!SaveFails
    <3> QED BY <1>2, <3>1, <3>2, OneEntry
  <2>2. server_variables' = server_variables /\ query' = query
    BY <1>7 DEF Variables!SaveFails
  <2>3. Synced'
    <3>1. CASE writes[i].at # "sent"
      <4>1. excused_variables' # {}
        BY <1>7, <3>1 DEF Variables!SaveFails
      <4> QED BY <4>1 DEF Synced
    <3>2. CASE writes[i].at = "sent"
      <4>1. excused_variables' = excused_variables
        BY <1>7, <3>2 DEF Variables!SaveFails
      <4>2. Variables!Rereading' = Variables!Rereading
        BY <2>1, <3>2 DEF Variables!Rereading
      <4>3. Changing => Changing'
        BY <2>1, <3>2 DEF Changing
      <4> QED BY <1>1, <2>2, <4>1, <4>2, <4>3 DEF VariablesInv, Synced, Variables!Ready,
             Variables!Missing
    <3> QED BY <3>1, <3>2
  <2> QED BY <1>3, <2>1, <2>3 DEF VariablesInv
<1> QED BY <1>4, <1>5, <1>6, <1>7 DEF Variables!Writing

\* The saves that waited for a read are over with it.
LEMMA Finished ==
  ASSUME SentTexts, Variables!Finish
  PROVE  /\ \E any : writes' \in Seq(any)
         /\ \A i \in DOMAIN writes' : writes'[i].at # "done" =>
                i \in DOMAIN writes /\ writes'[i] = writes[i]
         /\ Changing => Changing'
<1> DEFINE done == [at |-> "done"]
<1>1. PICK any : writes \in Seq(any)
  BY DEF SentTexts
<1>2. writes' = [i \in DOMAIN writes |-> IF i \in Variables!Rereading THEN done ELSE writes[i]]
  BY DEF Variables!Finish
<1>3. done.at = "done"
  OBVIOUS
<1> HIDE DEF done
<1>4. /\ DOMAIN writes = 1..Len(writes) /\ Len(writes) \in Nat
      /\ \A i \in 1..Len(writes) : writes[i] \in any
  BY <1>1
<1>5. writes' \in [1..Len(writes) -> any \cup {done}]
  BY <1>2, <1>4
<1>6. writes' \in Seq(any \cup {done})
  BY <1>4, <1>5
<1>7. \A i \in DOMAIN writes : i \notin Variables!Rereading => writes'[i] = writes[i]
  BY <1>2
<1>8. \A i \in Variables!Rereading : writes'[i] = done
  BY <1>2 DEF Variables!Rereading
<1>9. DOMAIN writes' = DOMAIN writes
  BY <1>2
<1>10. Changing => Changing'
  <2> SUFFICES ASSUME NEW i \in DOMAIN writes, writes[i].at \in {"writing", "written"}
               PROVE  Changing'
    BY DEF Changing
  <2>1. i \notin Variables!Rereading
    BY DEF Variables!Rereading
  <2> QED BY <1>7, <1>9, <2>1 DEF Changing
<1> QED BY <1>3, <1>6, <1>7, <1>8, <1>9, <1>10

LEMMA VariablesReads ==
  ASSUME VariablesInv, Variables!ReadServer \/ Variables!ReadLands \/ Variables!ReadFails
  PROVE  VariablesInv'
<1>1. server_variables' = server_variables /\ sent' = sent
  BY DEF Variables!ReadServer, Variables!ReadLands, Variables!ReadFails
<1>2. CASE Variables!ReadServer
  <2>1. /\ UNCHANGED <<data_variables, writes, staleRead, excused_variables>>
        /\ query'.at = "answered" /\ query'.rows = server_variables
    BY <1>2 DEF Variables!ReadServer, Variables!card
  <2>2. SentTexts'
    BY <1>1, <2>1 DEF VariablesInv, SentTexts, Variables!None
  <2>3. Synced'
    BY <1>1, <2>1 DEF VariablesInv, Synced, Changing, Variables!Ready, Variables!Missing,
       Variables!Rereading
  <2> QED BY <2>2, <2>3 DEF VariablesInv
<1>3. CASE Variables!ReadLands
  <2>1. /\ query.at = "answered" /\ query'.at = "idle" /\ data_variables' = query.rows
        /\ query.rows = server_variables \/ excused_variables' = excused_variables
        /\ Variables!Finish
        /\ staleRead' = staleRead \/ staleRead' = Variables!None
    BY <1>3 DEF Variables!ReadLands, Variables!Quiet
  <2>2. SentTexts'
    BY <1>1, <2>1, Finished DEF VariablesInv, SentTexts, Variables!None
  <2>3. Synced'
    BY <1>1, <2>1, Finished DEF VariablesInv, Synced
  <2> QED BY <2>2, <2>3 DEF VariablesInv
<1>4. CASE Variables!ReadFails
  <2>1. /\ query'.at = "idle" /\ data_variables' = data_variables /\ Variables!Finish
    BY <1>4 DEF Variables!ReadFails, Variables!Quiet
  <2>2. staleRead' = staleRead \/ staleRead'.text \in sent
    <3>1. \A i \in Variables!Rereading : writes[i].text \in sent
      BY DEF VariablesInv, SentTexts, Variables!Rereading
    <3>2. CASE staleRead' = staleRead
      BY <3>2
    <3>3. CASE staleRead' # staleRead
      <4>1. PICK i \in Variables!Rereading :
              staleRead' = [kind |-> "stale", stored |-> data_variables, text |-> writes[i].text]
        BY <1>4, <3>3 DEF Variables!ReadFails
      <4>2. staleRead'.text = writes[i].text
        BY <4>1
      <4> QED BY <3>1, <4>2
    <3> QED BY <3>2, <3>3
  <2>3. SentTexts'
    BY <1>1, <2>1, <2>2, Finished DEF VariablesInv, SentTexts, Variables!None
  <2>4. Synced'
    <3>1. CASE Variables!Rereading = {}
      <4>1. excused_variables' = excused_variables
        BY <1>4, <3>1 DEF Variables!ReadFails
      <4> QED BY <1>1, <2>1, <3>1, <4>1, Finished DEF VariablesInv, Synced, Variables!Ready,
             Variables!Missing
    <3>2. CASE Variables!Rereading # {}
      <4>1. excused_variables' # {}
        BY <1>4, <3>2 DEF Variables!ReadFails
      <4> QED BY <4>1 DEF Synced
    <3> QED BY <3>1, <3>2
  <2> QED BY <2>3, <2>4 DEF VariablesInv
<1> QED BY <1>2, <1>3, <1>4

LEMMA EditsAreCounted ==
  ASSUME edits_variables \in Nat, [Variables!Next]_(Variables!vars)
  PROVE  edits_variables' \in Nat /\ (Variables!Edit => edits_variables' # edits_variables)
<1>1. edits_variables' \in {edits_variables, edits_variables + 1}
  BY DEF Variables!Next, Variables!vars, Variables!counts, Variables!Edit, Variables!Refused,
     Variables!Save, Variables!Rival, Variables!Writing, Variables!PutRows, Variables!PutRest,
     Variables!Answered, Variables!SaveFails, Variables!Focus, Variables!ReadServer,
     Variables!ReadLands, Variables!ReadFails
<1>2. Variables!Edit => edits_variables' = edits_variables + 1
  BY DEF Variables!Edit
<1> QED BY <1>1, <1>2

LEMMA VariablesSteps == VariablesInv /\ [Variables!Next]_(Variables!vars) => VariablesInv'
<1> SUFFICES ASSUME VariablesInv, [Variables!Next]_(Variables!vars) PROVE VariablesInv'
  OBVIOUS
<1>1. CASE UNCHANGED Variables!vars
  BY <1>1 DEF Variables!vars, Variables!card, Variables!counts, VariablesInv, SentTexts, Synced,
     Changing, Variables!Ready, Variables!Missing, Variables!None, Variables!Rereading
<1> QED BY <1>1, EditSteps, SaveStarts, WritingSteps, VariablesReads DEF Variables!Next

\* A read takes over a text that was sent, never one that was typed since.
LEMMA TextIsTyped ==
  VariablesInv /\ edits_variables \in Nat /\ [Variables!Next]_(Variables!vars) =>
    Variables!TypingSurvives
<1> SUFFICES ASSUME VariablesInv, edits_variables \in Nat, [Variables!Next]_(Variables!vars),
                    text' # text, edits_variables' = edits_variables
             PROVE  data_variables = Variables!Missing \/ text \in sent
  BY DEF Variables!TypingSurvives
<1>1. Variables!ReadLands \/ Variables!Edit
  BY DEF Variables!Next, Variables!vars, Variables!card, Variables!Refused, Variables!Save,
     Variables!Rival, Variables!Writing, Variables!PutRows, Variables!PutRest,
     Variables!Answered, Variables!SaveFails, Variables!Focus, Variables!ReadServer,
     Variables!ReadFails
<1>2. CASE Variables!ReadLands
  <2>1. Variables!Restarts(query.rows)
    BY <1>2 DEF Variables!ReadLands
  <2>2. CASE \E i \in Variables!Rereading : writes[i].text = text
    BY <2>2 DEF VariablesInv, SentTexts, Variables!Rereading
  <2>3. CASE staleRead # Variables!None /\ text = staleRead.text
    BY <2>3 DEF VariablesInv, SentTexts
  <2> QED BY <2>1, <2>2, <2>3 DEF Variables!Restarts
<1>3. CASE Variables!Edit
  BY <1>3, EditsAreCounted
<1> QED BY <1>1, <1>2, <1>3

LEMMA CleanCard == VariablesInv => Variables!CleanMeansStored
<1> SUFFICES ASSUME VariablesInv, Variables!Ready, ~Variables!unsaved,
                    query = Variables!Quiet, excused_variables = {},
                    \A i \in DOMAIN writes : writes[i].at = "done"
             PROVE  /\ data_variables = server_variables
                    /\ DOMAIN text.vars = DOMAIN server_variables
                    /\ \A k \in DOMAIN server_variables : text.vars[k] = server_variables[k].value
  BY DEF Variables!CleanMeansStored
<1>1. data_variables = server_variables
  BY DEF VariablesInv, Synced, Changing, Variables!Rereading
<1>2. server_variables = Variables!fromDotenv
  BY <1>1 DEF Variables!unsaved
<1>3. /\ DOMAIN Variables!fromDotenv = DOMAIN text.vars
      /\ \A k \in DOMAIN text.vars : Variables!fromDotenv[k].value = text.vars[k]
  BY DEF Variables!fromDotenv
<1> HIDE DEF Variables!fromDotenv
<1> QED BY <1>1, <1>2, <1>3

\* The card's invariant, with its count of edits.
CardInv == client = "variables" => VariablesInv /\ edits_variables \in Nat

LEMMA CardInvHolds == (EditorsInit => CardInv) /\ (CardInv /\ [EditorsNext]_editorsVars => CardInv')
<1>1. EditorsInit => CardInv
  <2>1. Variables!Init => edits_variables \in Nat
    BY DEF Variables!Init
  <2> QED BY <2>1, VariablesStart DEF EditorsInit, CardInv
<1>2. CardInv /\ [EditorsNext]_editorsVars => CardInv'
  BY EditorMoves, VariablesSteps, EditsAreCounted DEF CardInv
<1> QED BY <1>1, <1>2

(* A card of variables that shows no unsaved change shows the stored set, once every save   *)
(* and read is over and answered (env-editor.tsx).                                            *)
THEOREM CleanCardIsTrue == EditorsSpec => []CleanMeansStored
<1>1. CardInv => CleanMeansStored
  BY CleanCard DEF CardInv, CleanMeansStored
<1> QED BY <1>1, CardInvHolds, PTL DEF EditorsSpec

(* No read, late answer or retry takes away a text that was typed since the last save       *)
(* (env-editor.tsx).                                                                          *)
THEOREM TypingIsKept == EditorsSpec => TypingSurvives
<1> DEFINE Kept == client = "variables" => Variables!TypingSurvives
<1>1. CardInv /\ [EditorsNext]_editorsVars => [Kept]_editorsVars
  BY EditorMoves, TextIsTyped DEF CardInv
<1> QED BY <1>1, CardInvHolds, PTL DEF EditorsSpec, TypingSurvives

-----------------------------------------------------------------------------
(* The .env text.  The library's folds, the induction they need, and the text as it is     *)
(* written and read, one character, one line and one row at a time.                        *)

\* A set of numbers has a least one: the induction of the lemmas below rests on it.
LEMMA LeastLength ==
  ASSUME NEW S \in SUBSET Nat, S # {}
  PROVE  \E x \in S : \A y \in S : x <= y
<1>1. PICK x \in S : \A y \in S : ~(<<y, x>> \in OpToRel(<, Nat))
  BY WFMin, NatLessThanWellFounded
<1>2. ASSUME NEW y \in S PROVE x <= y
  <2>1. ~(y < x)
    BY <1>1 DEF OpToRel
  <2> QED BY <2>1
<1> QED BY <1>2

\* A set that holds 0 and, with a number, the next one, holds every number.
LEMMA OneByOne ==
  ASSUME NEW P \in SUBSET Nat, 0 \in P, \A n \in P : n + 1 \in P
  PROVE  P = Nat
<1> SUFFICES ASSUME Nat \ P # {} PROVE FALSE
  OBVIOUS
<1>1. PICK n \in Nat \ P : \A m \in Nat \ P : n <= m
  BY LeastLength
<1>2. n # 0 /\ n - 1 \in Nat
  BY <1>1
<1>3. n - 1 \in P
  BY <1>1, <1>2
<1> QED BY <1>1, <1>2, <1>3

\* A set that holds the empty sequence and, with a sequence, those one element longer, holds
\* every sequence.
LEMMA LetterByLetter ==
  ASSUME NEW C, NEW P \in SUBSET Seq(C), <<>> \in P,
         \A s \in P, c \in C : Append(s, c) \in P
  PROVE  P = Seq(C)
<1> DEFINE N == {n \in Nat : \A s \in Seq(C) : Len(s) = n => s \in P}
<1>1. 0 \in N
  BY EmptySeq
<1>2. ASSUME NEW n \in N PROVE n + 1 \in N
  <2> SUFFICES ASSUME NEW s \in Seq(C), Len(s) = n + 1 PROVE s \in P
    BY <1>2
  <2>1. s # <<>>
    BY <1>2, EmptySeq
  <2>2. PICK t \in Seq(C), c \in C : s = Append(t, c)
    BY <2>1, SequenceEmptyOrAppend
  <2>3. Len(t) \in Nat /\ Len(s) = Len(t) + 1
    BY <2>2, AppendProperties, LenProperties
  <2>4. t \in P
    BY <1>2, <2>2, <2>3
  <2> QED BY <2>2, <2>4
<1> HIDE DEF N
<1>3. N = Nat
  <2>1. N \in SUBSET Nat
    BY DEF N
  <2> QED BY <1>1, <1>2, <2>1, OneByOne
<1>4. ASSUME NEW s \in Seq(C) PROVE s \in P
  <2>1. Len(s) \in N
    BY <1>3, LenProperties
  <2> QED BY <1>4, <2>1 DEF N
<1> QED BY <1>4

\* The greatest of some of the first n numbers is one of them.
LEMMA MaxOf ==
  ASSUME NEW n \in Nat, NEW S \in SUBSET (1..n), S # {}
  PROVE  Text!Max(S) \in S /\ \A y \in S : y <= Text!Max(S)
<1> DEFINE below == {n - y : y \in S}
<1>1. below \in SUBSET Nat /\ below # {}
  <2>1. ASSUME NEW y \in S PROVE n - y \in Nat
    BY <2>1
  <2>2. below \subseteq Nat
    BY <2>1
  <2> QED BY <2>2
<1>2. PICK d \in below : \A e \in below : d <= e
  BY <1>1, LeastLength
<1>3. PICK x \in S : d = n - x
  BY <1>2
<1>4. ASSUME NEW y \in S PROVE x >= y
  <2>1. n - y \in below
    BY <1>4
  <2>2. d <= n - y
    BY <1>2, <2>1
  <2>3. x \in 1..n /\ y \in 1..n
    BY <1>3, <1>4
  <2> QED BY <1>3, <2>2, <2>3
<1>5. \E z \in S : \A y \in S : z >= y
  BY <1>4
<1>6. Text!Max(S) \in S /\ \A y \in S : Text!Max(S) >= y
  BY <1>5 DEF Text!Max
<1> QED BY <1>6

\* The least of some numbers is one of them.
LEMMA MinOf ==
  ASSUME NEW S \in SUBSET Nat, S # {}
  PROVE  Text!Min(S) \in S /\ \A y \in S : Text!Min(S) <= y
<1>1. \E x \in S : \A y \in S : x <= y
  BY LeastLength
<1> QED BY <1>1 DEF Text!Min

\* A member no other is below is the least.
LEMMA MinIs ==
  ASSUME NEW S \in SUBSET Nat, NEW x \in S, \A y \in S : x <= y
  PROVE  Text!Min(S) = x
<1>1. Text!Min(S) \in S /\ Text!Min(S) <= x
  BY MinOf
<1>2. x <= Text!Min(S)
  BY <1>1
<1>3. x \in Nat /\ Text!Min(S) \in Nat
  BY <1>1
<1> QED BY <1>1, <1>2, <1>3

\* A member no other is above is the greatest.
LEMMA MaxIs ==
  ASSUME NEW n \in Nat, NEW S \in SUBSET (1..n), NEW x \in S, \A y \in S : y <= x
  PROVE  Text!Max(S) = x
<1>1. Text!Max(S) \in S /\ x <= Text!Max(S)
  BY MaxOf
<1>2. Text!Max(S) <= x
  BY <1>1
<1>3. x \in 1..n /\ Text!Max(S) \in 1..n
  BY <1>1
<1> QED BY <1>1, <1>2, <1>3

\* A function on the first n numbers is a sequence of length n.
LEMMA FunctionIsSeq ==
  ASSUME NEW C, NEW n \in Nat, NEW f \in [1..n -> C]
  PROVE  f \in Seq(C) /\ Len(f) = n /\ DOMAIN f = 1..n
<1>1. f \in Seq(C)
  BY SeqDef
<1>2. Len(f) \in Nat /\ DOMAIN f = 1..Len(f)
  BY <1>1, LenProperties
<1>3. Len(f) = n
  <2>1. 1..n = 1..Len(f)
    BY <1>2
  <2> QED BY <1>2, <2>1
<1> QED BY <1>1, <1>3

\* A fold of the library, its operator given as a function: the value for every set of
\* positions, the last position taken first.
IsFold(h, base, s, it) ==
    it = [S \in SUBSET DOMAIN s |->
            IF S = {} THEN base ELSE h[<<it[S \ {Text!Max(S)}], s[Text!Max(S)]>>]]

\* What such a fold does along the sequence: nothing, then one element after the other.
Along(A, h, base, s, it) ==
    /\ it[{}] = base
    /\ \A k \in 1..Len(s) : it[1..k - 1] \in A => it[1..k] = h[<<it[1..k - 1], s[k]>>]

\* The same, position by position.
Folds(A, h, base, s, f) ==
    /\ f \in [0..Len(s) -> A]
    /\ f[0] = base
    /\ \A k \in 1..Len(s) : f[k] = h[<<f[k - 1], s[k]>>]

\* Some function is the fold: the library's CHOOSE has something to choose.
LEMMA FoldExists ==
  ASSUME NEW A, NEW C, NEW h \in [A \X C -> A], NEW base \in A, NEW s \in Seq(C)
  PROVE  \E it \in [SUBSET DOMAIN s -> A] : IsFold(h, base, s, it)
<1> DEFINE P == {t \in Seq(C) : \E it \in [SUBSET DOMAIN t -> A] : IsFold(h, base, t, it)}
<1>1. <<>> \in P
  <2> DEFINE it == [S \in SUBSET DOMAIN <<>> |-> base]
  <2>1. it \in [SUBSET DOMAIN <<>> -> A]
    OBVIOUS
  <2>2. \A S \in SUBSET DOMAIN <<>> : S = {}
    OBVIOUS
  <2>3. IsFold(h, base, <<>>, it)
    BY <2>2 DEF IsFold
  <2> QED BY <2>1, <2>3, EmptySeq
<1>2. ASSUME NEW t \in P, NEW c \in C PROVE Append(t, c) \in P
  <2> DEFINE n == Len(t)
             u == Append(t, c)
  <2>1. PICK it \in [SUBSET DOMAIN t -> A] : IsFold(h, base, t, it)
    BY <1>2
  <2>2. n \in Nat /\ DOMAIN t = 1..n /\ t \in Seq(C)
    BY <1>2, LenProperties
  <2>3. u \in Seq(C) /\ Len(u) = n + 1 /\ DOMAIN u = 1..n + 1
    BY <1>2, <2>2, AppendProperties, LenProperties
  <2>4. (\A i \in 1..n : u[i] = t[i]) /\ u[n + 1] = c
    BY <1>2, <2>2, AppendProperties
  <2> DEFINE up == [S \in SUBSET (1..n + 1) |->
                      IF n + 1 \in S THEN h[<<it[S \ {n + 1}], c>>] ELSE it[S]]
  <2> HIDE DEF P, n, u
  <2>5. \A S \in SUBSET (1..n + 1) : S \ {n + 1} \in SUBSET (1..n)
    BY <2>2
  <2>6. \A S \in SUBSET (1..n + 1) : n + 1 \notin S => S \in SUBSET (1..n)
    BY <2>2
  <2>7. up \in [SUBSET DOMAIN u -> A]
    <3> SUFFICES ASSUME NEW S \in SUBSET (1..n + 1)
                 PROVE  (IF n + 1 \in S THEN h[<<it[S \ {n + 1}], c>>] ELSE it[S]) \in A
      BY <2>3
    <3>1. it[S \ {n + 1}] \in A
      BY <2>1, <2>2, <2>5
    <3> QED BY <1>2, <2>1, <2>2, <2>6, <3>1
  <2>8. ASSUME NEW S \in SUBSET (1..n + 1)
        PROVE  up[S] = IF S = {} THEN base ELSE h[<<up[S \ {Text!Max(S)}], u[Text!Max(S)]>>]
    <3>1. CASE n + 1 \in S
      <4>1. Text!Max(S) = n + 1
        <5>1. \A y \in S : y <= n + 1
          BY <2>2
        <5> QED BY <2>2, <3>1, <5>1, MaxIs, n + 1 \in Nat
      <4>2. S \ {n + 1} \in SUBSET (1..n + 1) /\ n + 1 \notin S \ {n + 1}
        OBVIOUS
      <4>3. up[S \ {n + 1}] = it[S \ {n + 1}]
        BY <4>2
      <4>4. S # {}
        BY <3>1
      <4> QED BY <2>4, <3>1, <4>1, <4>3, <4>4
    <3>2. CASE n + 1 \notin S
      <4>1. S \in SUBSET (1..n) /\ up[S] = it[S]
        BY <2>6, <3>2
      <4>2. CASE S = {}
        BY <2>1, <2>2, <4>1, <4>2 DEF IsFold
      <4>3. CASE S # {}
        <5>1. Text!Max(S) \in S
          BY <2>2, <4>1, <4>3, MaxOf
        <5> DEFINE m == Text!Max(S)
        <5> HIDE DEF m
        <5>2. S \ {m} \in SUBSET (1..n + 1) /\ n + 1 \notin S \ {m}
          BY <3>2
        <5>3. up[S \ {m}] = it[S \ {m}]
          BY <5>2
        <5>4. u[m] = t[m]
          BY <2>4, <4>1, <5>1 DEF m
        <5>5. it[S] = h[<<it[S \ {m}], t[m]>>]
          BY <2>1, <2>2, <4>1, <4>3 DEF IsFold, m
        <5> QED BY <4>1, <4>3, <5>3, <5>4, <5>5 DEF m
      <4> QED BY <4>2, <4>3
    <3> QED BY <3>1, <3>2
  <2>9. IsFold(h, base, u, up)
    BY <2>3, <2>8 DEF IsFold
  <2> QED BY <2>3, <2>7, <2>9 DEF P, u
<1>3. P = Seq(C)
  <2> HIDE DEF P
  <2>1. P \in SUBSET Seq(C)
    BY DEF P
  <2> QED BY <1>1, <1>2, <2>1, LetterByLetter
<1> QED BY <1>3

\* The values of a fold for the sequence's prefixes.
Prefixes(it, s) == [k \in 0..Len(s) |-> it[1..k]]

\* The first k numbers, and the last of them.
LEMMA UpTo ==
  ASSUME NEW n \in Nat, NEW k \in 1..n
  PROVE  /\ 1..k \in SUBSET (1..n) /\ 1..k # {}
         /\ Text!Max(1..k) = k /\ (1..k) \ {k} = 1..k - 1
<1>1. k \in 1..k /\ 1..k \in SUBSET (1..k) /\ k \in Nat
  OBVIOUS
<1>2. Text!Max(1..k) = k
  <2>1. \A y \in 1..k : y <= k
    OBVIOUS
  <2> QED BY <1>1, <2>1, MaxIs
<1>3. 1..k \subseteq 1..n
  OBVIOUS
<1>4. (1..k) \ {k} = 1..k - 1
  OBVIOUS
<1> QED BY <1>1, <1>2, <1>3, <1>4

\* A fold takes the elements of its sequence in order.
LEMMA FoldGoesAlong ==
  ASSUME NEW A, NEW C, NEW h, NEW base, NEW s \in Seq(C), NEW it, IsFold(h, base, s, it)
  PROVE  Along(A, h, base, s, it)
<1>1. DOMAIN s = 1..Len(s) /\ Len(s) \in Nat
  BY LenProperties
<1>2. it[{}] = base
  BY DEF IsFold
<1>3. ASSUME NEW k \in 1..Len(s) PROVE it[1..k] = h[<<it[1..k - 1], s[k]>>]
  <2>1. /\ 1..k \in SUBSET (1..Len(s)) /\ 1..k # {}
        /\ Text!Max(1..k) = k /\ (1..k) \ {k} = 1..k - 1
    BY <1>1, UpTo
  <2>2. it[1..k] = h[<<it[(1..k) \ {Text!Max(1..k)}], s[Text!Max(1..k)]>>]
    BY <1>1, <2>1 DEF IsFold
  <2> QED BY <2>1, <2>2
<1> QED BY <1>2, <1>3 DEF Along

\* Its values for the prefixes are the fold, position by position.
LEMMA AlongFolds ==
  ASSUME NEW A, NEW C, NEW h \in [A \X C -> A], NEW base \in A, NEW s \in Seq(C), NEW it,
         Along(A, h, base, s, it)
  PROVE  Folds(A, h, base, s, Prefixes(it, s))
<1>1. Len(s) \in Nat /\ \A k \in 1..Len(s) : s[k] \in C
  BY LenProperties, ElementOfSeq
<1>2. 1..0 = {}
  OBVIOUS
<1> DEFINE K == {k \in Nat : k <= Len(s) => it[1..k] \in A}
<1>3. 0 \in K
  BY <1>2 DEF Along
<1>4. ASSUME NEW k \in K PROVE k + 1 \in K
  <2> SUFFICES ASSUME k + 1 <= Len(s) PROVE it[1..k + 1] \in A
    OBVIOUS
  <2>1. k + 1 \in 1..Len(s) /\ (k + 1) - 1 = k /\ it[1..k] \in A
    BY <1>1
  <2>2. it[1..k + 1] = h[<<it[1..k], s[k + 1]>>]
    BY <2>1 DEF Along
  <2> QED BY <1>1, <2>1, <2>2
<1>5. K = Nat
  <2> HIDE DEF K
  <2>1. K \in SUBSET Nat
    BY DEF K
  <2> QED BY <1>3, <1>4, <2>1, OneByOne
<1>6. \A k \in 0..Len(s) : it[1..k] \in A
  <2>1. \A k \in 0..Len(s) : k \in Nat /\ k <= Len(s)
    BY <1>1
  <2> QED BY <1>5, <2>1
<1> DEFINE f == [k \in 0..Len(s) |-> it[1..k]]
<1>7. f \in [0..Len(s) -> A] /\ f[0] = base
  BY <1>1, <1>2, <1>6 DEF Along
<1>8. ASSUME NEW k \in 1..Len(s) PROVE f[k] = h[<<f[k - 1], s[k]>>]
  <2>1. k \in 0..Len(s) /\ k - 1 \in 0..Len(s)
    BY <1>1
  <2>2. it[1..k - 1] \in A
    BY <1>6, <2>1
  <2>3. it[1..k] = h[<<it[1..k - 1], s[k]>>]
    BY <2>2 DEF Along
  <2> QED BY <2>1, <2>3
<1> QED BY <1>7, <1>8 DEF Folds, Prefixes

\* Two folds agree as far as their sequences do.
LEMMA FoldsAgree ==
  ASSUME NEW A, NEW h, NEW base, NEW s, NEW t, NEW f, NEW g, NEW n \in Nat,
         Folds(A, h, base, s, f), Folds(A, h, base, t, g),
         Len(s) \in Nat, Len(t) \in Nat, n <= Len(s), n <= Len(t), \A k \in 1..n : s[k] = t[k]
  PROVE  f[n] = g[n]
<1> DEFINE K == {k \in Nat : k <= n => f[k] = g[k]}
<1>1. 0 \in K
  BY DEF Folds
<1>2. ASSUME NEW k \in K PROVE k + 1 \in K
  <2> SUFFICES ASSUME k + 1 <= n PROVE f[k + 1] = g[k + 1]
    OBVIOUS
  <2>1. /\ k + 1 \in 1..n /\ k + 1 \in 1..Len(s) /\ k + 1 \in 1..Len(t)
        /\ (k + 1) - 1 = k /\ f[k] = g[k]
    OBVIOUS
  <2>2. f[k + 1] = h[<<f[k], s[k + 1]>>] /\ g[k + 1] = h[<<g[k], t[k + 1]>>]
    BY <2>1 DEF Folds
  <2> QED BY <2>1, <2>2
<1>3. K = Nat
  <2> HIDE DEF K
  <2>1. K \in SUBSET Nat
    BY DEF K
  <2> QED BY <1>1, <1>2, <2>1, OneByOne
<1> QED BY <1>3

\* One element more is one step more.
LEMMA FoldGrows ==
  ASSUME NEW A, NEW C, NEW h, NEW base, NEW s \in Seq(C), NEW c \in C, NEW f, NEW g,
         Folds(A, h, base, s, f), Folds(A, h, base, Append(s, c), g)
  PROVE  g[Len(Append(s, c))] = h[<<f[Len(s)], c>>]
<1> DEFINE t == Append(s, c)
<1>1. /\ t \in Seq(C) /\ Len(s) \in Nat /\ Len(t) = Len(s) + 1 /\ t[Len(s) + 1] = c
      /\ \A k \in 1..Len(s) : s[k] = t[k]
  BY AppendProperties, LenProperties
<1>2. Folds(A, h, base, t, g)
  OBVIOUS
<1> HIDE DEF t
<1>3. f[Len(s)] = g[Len(s)]
  BY <1>1, <1>2, FoldsAgree, Len(t) \in Nat, Len(s) <= Len(s), Len(s) <= Len(t)
<1>4. Len(t) \in 1..Len(t) /\ Len(t) - 1 = Len(s)
  BY <1>1
<1>5. g[Len(t)] = h[<<g[Len(t) - 1], t[Len(t)]>>]
  BY <1>2, <1>4 DEF Folds
<1> QED BY <1>1, <1>3, <1>4, <1>5 DEF t

\* Every sequence has its fold.
LEMMA FoldsExist ==
  ASSUME NEW A, NEW C, NEW h \in [A \X C -> A], NEW base \in A, NEW s \in Seq(C)
  PROVE  \E it : IsFold(h, base, s, it)
                 /\ Folds(A, h, base, s, Prefixes(it, s))
                 /\ \A S \in SUBSET DOMAIN s : it[S] \in A
<1>1. PICK it \in [SUBSET DOMAIN s -> A] : IsFold(h, base, s, it)
  BY FoldExists
<1>2. Along(A, h, base, s, it)
  BY <1>1, FoldGoesAlong
<1>3. Folds(A, h, base, s, Prefixes(it, s))
  BY <1>2, AlongFolds
<1> QED BY <1>1, <1>3

\* An element appended to the second of two sequences is appended to both.
LEMMA Appended ==
  ASSUME NEW C, NEW s \in Seq(C), NEW t \in Seq(C), NEW c \in C
  PROVE  s \o Append(t, c) = Append(s \o t, c) /\ s \o t \in Seq(C)
<1>1. <<c>> \in Seq(C) /\ s \o t \in Seq(C)
  BY ConcatProperties
<1>2. Append(t, c) = t \o <<c>> /\ Append(s \o t, c) = (s \o t) \o <<c>>
  BY <1>1, AppendIsConcat
<1> QED BY <1>1, <1>2, ConcatAssociative

\* The lines of a text (lines): what a line is made of, and a text with one character more.
Plain     == Text!Chars \ {"newline"}
LineLists == Seq(Seq(Plain)) \ {<<>>}
lineStep(ls, c) ==
    IF c = "newline" THEN Append(ls, <<>>) ELSE [ls EXCEPT ![Len(ls)] = Append(@, c)]
LineStep == [p \in LineLists \X Text!Chars |-> lineStep(p[1], p[2])]

\* One character more leaves a list of lines.
LEMMA LineStepIsTyped ==
  ASSUME NEW ls \in LineLists, NEW c \in Text!Chars
  PROVE  lineStep(ls, c) \in LineLists /\ LineStep[<<ls, c>>] = lineStep(ls, c)
<1> DEFINE L == Seq(Plain)
<1>1. ls \in Seq(L) /\ ls # <<>> /\ Len(ls) \in Nat \ {0} /\ <<>> \in L
  BY EmptySeq DEF LineLists
<1>2. CASE c = "newline"
  <2>1. Append(ls, <<>>) \in Seq(L) /\ Append(ls, <<>>) # <<>>
    BY <1>1, AppendProperties
  <2> QED BY <1>2, <2>1 DEF lineStep, LineLists, LineStep
<1>3. CASE c # "newline"
  <2>1. Len(ls) \in 1..Len(ls)
    BY <1>1
  <2>2. ls[Len(ls)] \in L
    BY <1>1, <2>1, ElementOfSeq
  <2>3. Append(ls[Len(ls)], c) \in L
    BY <1>3, <2>2, AppendProperties DEF Plain
  <2> DEFINE e == Append(ls[Len(ls)], c)
  <2> HIDE DEF e, L
  <2>4. /\ [ls EXCEPT ![Len(ls)] = e] \in Seq(L)
        /\ Len([ls EXCEPT ![Len(ls)] = e]) = Len(ls)
    BY <1>1, <2>1, <2>3, ExceptSeq DEF e
  <2>5. [ls EXCEPT ![Len(ls)] = e] # <<>>
    BY <1>1, <2>4, EmptySeq
  <2> QED BY <1>3, <2>4, <2>5 DEF lineStep, LineLists, LineStep, e, L
<1> QED BY <1>2, <1>3

\* The lines of a text are the fold of that step.
LEMMA LinesFold ==
  ASSUME NEW s \in Seq(Text!Chars)
  PROVE  \E f : /\ Folds(LineLists, LineStep, <<<<>>>>, s, f)
                /\ Text!lines(s) = f[Len(s)]
<1> DEFINE base == <<<<>>>>
           W(it) == it = [S \in SUBSET DOMAIN s |->
                       IF S = {} THEN base
                       ELSE LET x == Text!Max(S) IN lineStep(it[S \ {x}], s[x])]
           j == CHOOSE it : W(it)
<1>1. LineStep \in [LineLists \X Text!Chars -> LineLists]
  BY LineStepIsTyped DEF LineStep
<1>2. base \in LineLists
  BY EmptySeq DEF LineLists
<1>3. DOMAIN s = 1..Len(s) /\ Len(s) \in Nat /\ \A i \in 1..Len(s) : s[i] \in Text!Chars
  BY LenProperties, ElementOfSeq
<1>4. Text!lines(s) = j[DOMAIN s]
  BY DEF Text!lines, Text!FoldLeft, Text!MapThenFoldSet, lineStep
<1>5. PICK it : /\ IsFold(LineStep, base, s, it)
                /\ \A S \in SUBSET DOMAIN s : it[S] \in LineLists
  BY <1>1, <1>2, FoldsExist
<1> HIDE DEF base, j
<1>6. ASSUME NEW S \in SUBSET DOMAIN s
      PROVE  it[S] = IF S = {} THEN base
                     ELSE LET x == Text!Max(S) IN lineStep(it[S \ {x}], s[x])
  <2>1. it[S] = IF S = {} THEN base ELSE LineStep[<<it[S \ {Text!Max(S)}], s[Text!Max(S)]>>]
    BY <1>5 DEF IsFold
  <2>2. CASE S # {}
    <3> DEFINE m == Text!Max(S)
    <3>1. m \in DOMAIN s
      BY <1>3, <2>2, MaxOf
    <3> HIDE DEF m
    <3>2. s[m] \in Text!Chars /\ it[S \ {m}] \in LineLists
      BY <1>3, <1>5, <3>1
    <3>3. LineStep[<<it[S \ {m}], s[m]>>] = lineStep(it[S \ {m}], s[m])
      BY <3>2, LineStepIsTyped
    <3> QED BY <2>1, <2>2, <3>3 DEF m
  <2> QED BY <2>1, <2>2
<1>7. W(it)
  <2>1. it = [S \in SUBSET DOMAIN s |-> it[S]]
    BY <1>5 DEF IsFold
  <2> QED BY <1>6, <2>1
<1>8. W(j)
  BY <1>7 DEF j
<1>9. Along(LineLists, LineStep, base, s, j)
  <2>1. j[{}] = base
    BY <1>8
  <2>2. ASSUME NEW k \in 1..Len(s), j[1..k - 1] \in LineLists
        PROVE  j[1..k] = LineStep[<<j[1..k - 1], s[k]>>]
    <3>1. /\ 1..k \in SUBSET (1..Len(s)) /\ 1..k # {}
          /\ Text!Max(1..k) = k /\ (1..k) \ {k} = 1..k - 1
      BY <1>3, UpTo
    <3>2. j[1..k] = lineStep(j[(1..k) \ {Text!Max(1..k)}], s[Text!Max(1..k)])
      BY <1>3, <1>8, <3>1
    <3> QED BY <1>3, <2>2, <3>1, <3>2, LineStepIsTyped
  <2> QED BY <2>1, <2>2 DEF Along
<1>10. Folds(LineLists, LineStep, base, s, Prefixes(j, s))
  BY <1>1, <1>2, <1>9, AlongFolds
<1>11. Prefixes(j, s)[Len(s)] = j[DOMAIN s]
  BY <1>3 DEF Prefixes
<1> QED BY <1>4, <1>10, <1>11 DEF base

\* The empty text is one empty line, and one character more is one step more.
LEMMA LinesGrow ==
  /\ Text!lines(<<>>) = <<<<>>>>
  /\ \A s \in Seq(Text!Chars) : Text!lines(s) \in LineLists
  /\ \A s \in Seq(Text!Chars), c \in Text!Chars :
        Text!lines(Append(s, c)) = lineStep(Text!lines(s), c)
<1>1. \A s \in Seq(Text!Chars) : Text!lines(s) \in LineLists
  <2> SUFFICES ASSUME NEW s \in Seq(Text!Chars) PROVE Text!lines(s) \in LineLists
    OBVIOUS
  <2>1. PICK f : Folds(LineLists, LineStep, <<<<>>>>, s, f) /\ Text!lines(s) = f[Len(s)]
    BY LinesFold
  <2>2. Len(s) \in 0..Len(s)
    BY LenProperties
  <2> QED BY <2>1, <2>2 DEF Folds
<1>2. Text!lines(<<>>) = <<<<>>>>
  <2>1. <<>> \in Seq(Text!Chars) /\ Len(<<>>) = 0
    BY EmptySeq
  <2>2. PICK f : /\ Folds(LineLists, LineStep, <<<<>>>>, <<>>, f)
                 /\ Text!lines(<<>>) = f[Len(<<>>)]
    BY <2>1, LinesFold
  <2> QED BY <2>1, <2>2 DEF Folds
<1>3. ASSUME NEW s \in Seq(Text!Chars), NEW c \in Text!Chars
      PROVE  Text!lines(Append(s, c)) = lineStep(Text!lines(s), c)
  <2>1. PICK f : Folds(LineLists, LineStep, <<<<>>>>, s, f) /\ Text!lines(s) = f[Len(s)]
    BY LinesFold
  <2> DEFINE t == Append(s, c)
  <2>2. t \in Seq(Text!Chars)
    BY AppendProperties
  <2>3. PICK g : Folds(LineLists, LineStep, <<<<>>>>, t, g) /\ Text!lines(t) = g[Len(t)]
    BY <2>2, LinesFold
  <2>4. g[Len(t)] = LineStep[<<f[Len(s)], c>>]
    BY <2>1, <2>3, FoldGrows
  <2> QED BY <1>1, <2>1, <2>3, <2>4, LineStepIsTyped
<1> QED BY <1>1, <1>2, <1>3

\* A character that breaks no line goes to the end of the last one.
LEMMA LastLine ==
  ASSUME NEW ls \in Seq(Seq(Plain)), NEW l \in Seq(Plain), NEW c \in Plain
  PROVE  lineStep(Append(ls, l), c) = Append(ls, Append(l, c))
<1> DEFINE L == Seq(Plain)
           u == Append(ls, l)
           v == Append(l, c)
<1>1. /\ u \in Seq(L) /\ Len(u) = Len(ls) + 1 /\ Len(ls) \in Nat /\ u[Len(ls) + 1] = l
      /\ \A i \in 1..Len(ls) : u[i] = ls[i]
  BY AppendProperties, LenProperties
<1>2. v \in L
  BY AppendProperties
<1>3. /\ Append(ls, v) \in Seq(L) /\ Len(Append(ls, v)) = Len(ls) + 1
      /\ Append(ls, v)[Len(ls) + 1] = v
      /\ \A i \in 1..Len(ls) : Append(ls, v)[i] = ls[i]
  BY <1>2, AppendProperties
<1>4. lineStep(u, c) = [u EXCEPT ![Len(u)] = v]
  BY <1>1 DEF lineStep, Plain
<1> HIDE DEF u, v, L
<1>5. Len(u) \in 1..Len(u)
  BY <1>1
<1> DEFINE w == [u EXCEPT ![Len(u)] = v]
           x == Append(ls, v)
<1>6. /\ w \in Seq(L) /\ Len(w) = Len(u)
      /\ \A i \in 1..Len(u) : w[i] = IF i = Len(u) THEN v ELSE u[i]
  BY <1>1, <1>2, <1>5, ExceptSeq
<1>7. x \in Seq(L) /\ Len(x) = Len(w)
  BY <1>1, <1>3, <1>6
<1>8. \A i \in 1..Len(w) : w[i] = x[i]
  BY <1>1, <1>3, <1>6
<1>9. w = x
  <2> HIDE DEF w, x
  <2> QED BY <1>6, <1>7, <1>8, SeqEqual
<1> QED BY <1>4, <1>9 DEF u, v

\* A line break and a text without one add exactly one line; a text without one is one line.
LEMMA LineAdded ==
  ASSUME NEW s \in Seq(Text!Chars), NEW ls \in Seq(Seq(Plain)), NEW line \in Seq(Plain),
         Text!lines(s) = Append(ls, <<>>)
  PROVE  Text!lines(s \o line) = Append(ls, line)
<1> DEFINE P == {l \in Seq(Plain) : Text!lines(s \o l) = Append(ls, l)}
<1>1. <<>> \in P
  BY EmptySeq, ConcatEmptySeq
<1>2. ASSUME NEW l \in P, NEW c \in Plain PROVE Append(l, c) \in P
  <2>1. l \in Seq(Text!Chars) /\ c \in Text!Chars
    BY SeqMonotonic DEF Plain
  <2>2. Append(l, c) \in Seq(Plain)
    BY <1>2, AppendProperties
  <2>3. s \o Append(l, c) = Append(s \o l, c) /\ s \o l \in Seq(Text!Chars)
    BY <2>1, Appended
  <2>4. Text!lines(Append(s \o l, c)) = lineStep(Text!lines(s \o l), c)
    BY <2>1, <2>3, LinesGrow
  <2> QED BY <1>2, <2>2, <2>3, <2>4, LastLine
<1>3. P = Seq(Plain)
  <2> HIDE DEF P
  <2>1. P \in SUBSET Seq(Plain)
    BY DEF P
  <2> QED BY <1>1, <1>2, <2>1, LetterByLetter
<1> QED BY <1>3

\* What FlattenSeq does, one sequence at a time.
Cat(C) == [p \in Seq(C) \X Seq(C) |-> p[1] \o p[2]]

\* Flattening is the fold of joining two sequences.
LEMMA FlattenFold ==
  ASSUME NEW C, NEW ss \in Seq(Seq(C))
  PROVE  \E f : Folds(Seq(C), Cat(C), <<>>, ss, f) /\ Text!FlattenSeq(ss) = f[Len(ss)]
<1> DEFINE A == Seq(C)
           n == Len(ss)
           W(g) == g = [i \in 1..n |-> IF i = 1 THEN ss[i] ELSE g[i - 1] \o ss[i]]
           j == CHOOSE g : W(g)
<1>1. Cat(C) \in [A \X A -> A] /\ <<>> \in A
  <2>1. \A p \in A \X A : p[1] \o p[2] \in A
    BY ConcatProperties
  <2> QED BY <2>1, EmptySeq DEF Cat
<1>2. DOMAIN ss = 1..n /\ n \in Nat /\ \A i \in 1..n : ss[i] \in A
  BY LenProperties, ElementOfSeq
<1>3. \A x \in A, y \in A : Cat(C)[<<x, y>>] = x \o y
  BY DEF Cat
<1>4. Text!FlattenSeq(ss) = IF n = 0 THEN ss ELSE j[n]
  BY DEF Text!FlattenSeq
<1> HIDE DEF A, j, n
<1>5. PICK it : Folds(A, Cat(C), <<>>, ss, Prefixes(it, ss))
  BY <1>1, FoldsExist DEF A
<1> DEFINE F == Prefixes(it, ss)
<1>6. F \in [0..n -> A] /\ F[0] = <<>> /\ \A k \in 1..n : F[k] = F[k - 1] \o ss[k]
  <2>1. F \in [0..n -> A] /\ F[0] = <<>> /\ \A k \in 1..n : F[k] = Cat(C)[<<F[k - 1], ss[k]>>]
    BY <1>5 DEF Folds, n
  <2> HIDE DEF F
  <2>2. ASSUME NEW k \in 1..n PROVE F[k] = F[k - 1] \o ss[k]
    <3>1. F[k - 1] \in A /\ ss[k] \in A
      BY <1>2, <2>1
    <3> QED BY <1>3, <2>1, <3>1
  <2> QED BY <2>1, <2>2
<1> HIDE DEF F
<1>7. W([i \in 1..n |-> F[i]])
  <2> DEFINE g == [i \in 1..n |-> F[i]]
  <2>1. ASSUME NEW i \in 1..n PROVE g[i] = IF i = 1 THEN ss[i] ELSE g[i - 1] \o ss[i]
    <3>1. CASE i = 1
      <4>1. 1 \in 1..n /\ 1 - 1 = 0
        BY <3>1
      <4>2. F[1] = F[0] \o ss[1] /\ ss[1] \in A
        BY <1>2, <1>6, <4>1, Zenon
      <4> QED BY <1>6, <3>1, <4>2, ConcatEmptySeq DEF A
    <3>2. CASE i # 1
      <4>1. i - 1 \in 1..n
        BY <1>2, <3>2
      <4> QED BY <1>6, <3>2, <4>1
    <3> QED BY <3>1, <3>2
  <2> QED BY <2>1
<1>8. W(j)
  BY <1>7 DEF j
<1> DEFINE G == [k \in 0..n |-> IF k = 0 THEN <<>> ELSE j[k]]
           K == {k \in Nat : k <= n => G[k] = F[k]}
<1>9. 0 \in K
  BY <1>2, <1>6
<1>10. ASSUME NEW k \in K PROVE k + 1 \in K
  <2> SUFFICES ASSUME k + 1 <= n PROVE G[k + 1] = F[k + 1]
    OBVIOUS
  <2>1. /\ k \in Nat /\ k + 1 \in 1..n /\ (k + 1) - 1 = k
        /\ k \in 0..n /\ k + 1 \in 0..n /\ G[k] = F[k]
    BY <1>2
  <2>2. F[k + 1] = F[k] \o ss[k + 1]
    BY <1>6, <2>1
  <2>3. CASE k = 0
    <3>1. j[1] = ss[1] /\ ss[1] \in A
      BY <1>2, <1>8, <2>1, <2>3
    <3>2. k + 1 = 1 /\ 1 \in 0..n /\ 1 # 0
      BY <2>1, <2>3
    <3>3. <<>> \o ss[1] = ss[1]
      BY <3>1, ConcatEmptySeq DEF A
    <3>4. G[1] = j[1]
      BY <3>2
    <3> HIDE DEF G
    <3>5. F[k + 1] = <<>> \o ss[k + 1]
      BY <1>6, <2>2, <2>3
    <3>6. F[1] = ss[1]
      BY <3>2, <3>3, <3>5
    <3> QED BY <3>1, <3>2, <3>4, <3>6
  <2>4. CASE k # 0
    <3>1. k + 1 # 1
      BY <2>1, <2>4
    <3>2. j[k + 1] = j[k] \o ss[k + 1]
      BY <1>8, <2>1, <3>1, Zenon
    <3>3. G[k] = j[k] /\ G[k + 1] = j[k + 1]
      BY <2>1, <2>4
    <3>4. j[k] = F[k]
      BY <2>1, <3>3
    <3> HIDE DEF G, K
    <3> QED BY <2>2, <3>2, <3>3, <3>4
  <2> QED BY <2>3, <2>4
<1>11. K = Nat
  <2> HIDE DEF K
  <2>1. K \in SUBSET Nat
    BY DEF K
  <2> QED BY <1>9, <1>10, <2>1, OneByOne
<1>12. \A k \in 0..n : G[k] = F[k]
  <2>1. ASSUME NEW k \in 0..n PROVE G[k] = F[k]
    <3>1. k \in Nat /\ k <= n
      BY <1>2
    <3>2. k \in K
      BY <1>11, <3>1
    <3> HIDE DEF G
    <3> QED BY <3>1, <3>2
  <2> QED BY <2>1
<1>13. Folds(A, Cat(C), <<>>, ss, F)
  BY <1>5 DEF F
<1>14. Text!FlattenSeq(ss) = F[n]
  <2>1. CASE n = 0
    <3>1. ss = <<>>
      BY <2>1, EmptySeq DEF n
    <3> QED BY <1>4, <1>6, <2>1, <3>1
  <2>2. CASE n # 0
    <3>1. n \in 0..n
      BY <1>2
    <3> QED BY <1>4, <1>12, <2>2, <3>1
  <2> QED BY <2>1, <2>2
<1> QED BY <1>13, <1>14 DEF A, n

\* Flattening one sequence more joins it to the end.
LEMMA FlattenGrows ==
  ASSUME NEW C
  PROVE  /\ Text!FlattenSeq(<<>>) = <<>>
         /\ \A ss \in Seq(Seq(C)) : Text!FlattenSeq(ss) \in Seq(C)
         /\ \A ss \in Seq(Seq(C)), x \in Seq(C) :
               Text!FlattenSeq(Append(ss, x)) = Text!FlattenSeq(ss) \o x
<1>1. Text!FlattenSeq(<<>>) = <<>>
  BY EmptySeq DEF Text!FlattenSeq
<1>2. \A ss \in Seq(Seq(C)) : Text!FlattenSeq(ss) \in Seq(C)
  <2> SUFFICES ASSUME NEW ss \in Seq(Seq(C)) PROVE Text!FlattenSeq(ss) \in Seq(C)
    OBVIOUS
  <2>1. PICK f : Folds(Seq(C), Cat(C), <<>>, ss, f) /\ Text!FlattenSeq(ss) = f[Len(ss)]
    BY FlattenFold
  <2>2. Len(ss) \in 0..Len(ss)
    BY LenProperties
  <2> QED BY <2>1, <2>2 DEF Folds
<1>3. ASSUME NEW ss \in Seq(Seq(C)), NEW x \in Seq(C)
      PROVE  Text!FlattenSeq(Append(ss, x)) = Text!FlattenSeq(ss) \o x
  <2>1. PICK f : Folds(Seq(C), Cat(C), <<>>, ss, f) /\ Text!FlattenSeq(ss) = f[Len(ss)]
    BY FlattenFold
  <2> DEFINE t == Append(ss, x)
  <2>2. t \in Seq(Seq(C))
    BY AppendProperties
  <2>3. PICK g : Folds(Seq(C), Cat(C), <<>>, t, g) /\ Text!FlattenSeq(t) = g[Len(t)]
    BY <2>2, FlattenFold
  <2>4. g[Len(t)] = Cat(C)[<<f[Len(ss)], x>>]
    BY <2>1, <2>3, FoldGrows
  <2> QED BY <1>2, <2>1, <2>3, <2>4 DEF Cat
<1> QED BY <1>1, <1>2, <1>3

\* The sequence of a sequence's positions.
Positions(s) == [i \in DOMAIN s |-> i]
\* What escapes does at one position.
EscapeStep(s) ==
    [p \in (SUBSET Nat) \X Nat |->
        IF s[p[2]] = "bs" /\ p[2] - 1 \notin p[1] THEN p[1] \cup {p[2]} ELSE p[1]]

\* The escapes of a text are the fold of that step.
LEMMA EscapesFold ==
  ASSUME NEW s \in Seq(Text!Chars)
  PROVE  \E f : /\ Folds(SUBSET Nat, EscapeStep(s), {}, Positions(s), f)
                /\ Text!escapes(s) = f[Len(s)]
<1> DEFINE q == Positions(s)
           h == EscapeStep(s)
           op(found, i) == IF s[i] = "bs" /\ i - 1 \notin found THEN found \cup {i} ELSE found
           W(it) == it = [S \in SUBSET DOMAIN q |->
                       IF S = {} THEN {} ELSE LET x == Text!Max(S) IN op(it[S \ {x}], q[x])]
           j == CHOOSE it : W(it)
<1>1. DOMAIN s = 1..Len(s) /\ Len(s) \in Nat
  BY LenProperties
<1>2. q \in [1..Len(s) -> Nat]
  BY <1>1 DEF Positions
<1>3. q \in Seq(Nat) /\ Len(q) = Len(s) /\ DOMAIN q = 1..Len(s)
  BY <1>1, <1>2, FunctionIsSeq
<1>4. \A F \in SUBSET Nat, i \in Nat : h[<<F, i>>] = op(F, i) /\ op(F, i) \in SUBSET Nat
  BY DEF EscapeStep
<1>5. h \in [(SUBSET Nat) \X Nat -> SUBSET Nat] /\ {} \in SUBSET Nat
  BY DEF EscapeStep
<1>6. Text!escapes(s) = j[DOMAIN q]
  BY DEF Text!escapes, Text!FoldLeftDomain, Text!FoldLeft, Text!MapThenFoldSet, Positions
<1>7. PICK it : /\ IsFold(h, {}, q, it)
                /\ \A S \in SUBSET DOMAIN q : it[S] \in SUBSET Nat
  <2> DEFINE A == SUBSET Nat
             none == {}
  <2>1. h \in [A \X Nat -> A] /\ none \in A /\ q \in Seq(Nat)
    BY <1>3, <1>5
  <2> HIDE DEF h, q, A, none
  <2>2. \E it : IsFold(h, none, q, it) /\ \A S \in SUBSET DOMAIN q : it[S] \in A
    BY <2>1, FoldsExist
  <2> QED BY <2>2 DEF A, none
<1> HIDE DEF j, h, q, op
<1>8. ASSUME NEW S \in SUBSET DOMAIN q
      PROVE  it[S] = IF S = {} THEN {} ELSE LET x == Text!Max(S) IN op(it[S \ {x}], q[x])
  <2>1. it[S] = IF S = {} THEN {} ELSE h[<<it[S \ {Text!Max(S)}], q[Text!Max(S)]>>]
    BY <1>7 DEF IsFold
  <2>2. CASE S # {}
    <3> DEFINE m == Text!Max(S)
    <3>1. m \in DOMAIN q
      BY <1>1, <1>3, <2>2, MaxOf
    <3> HIDE DEF m
    <3>2. q[m] \in Nat /\ it[S \ {m}] \in SUBSET Nat
      BY <1>2, <1>3, <1>7, <3>1
    <3>3. h[<<it[S \ {m}], q[m]>>] = op(it[S \ {m}], q[m])
      BY <1>4, <3>2
    <3> QED BY <2>1, <2>2, <3>3 DEF m
  <2> QED BY <2>1, <2>2
<1>9. W(it)
  <2>1. it = [S \in SUBSET DOMAIN q |-> it[S]]
    BY <1>7 DEF IsFold
  <2> QED BY <1>8, <2>1
<1>10. W(j)
  BY <1>9 DEF j
<1>11. Along(SUBSET Nat, h, {}, q, j)
  <2>1. j[{}] = {}
    BY <1>10
  <2>2. ASSUME NEW k \in 1..Len(q), j[1..k - 1] \in SUBSET Nat
        PROVE  j[1..k] = h[<<j[1..k - 1], q[k]>>]
    <3>1. /\ 1..k \in SUBSET (1..Len(q)) /\ 1..k # {}
          /\ Text!Max(1..k) = k /\ (1..k) \ {k} = 1..k - 1
      BY <1>1, <1>3, UpTo
    <3>2. j[1..k] = op(j[(1..k) \ {Text!Max(1..k)}], q[Text!Max(1..k)])
      BY <1>3, <1>10, <3>1
    <3>3. q[k] \in Nat
      BY <1>2, <1>3
    <3>4. j[1..k] = op(j[1..k - 1], q[k])
      BY <3>1, <3>2
    <3> QED BY <1>4, <2>2, <3>3, <3>4
  <2> QED BY <2>1, <2>2 DEF Along
<1>12. Folds(SUBSET Nat, h, {}, q, Prefixes(j, q))
  BY <1>3, <1>5, <1>11, AlongFolds
<1>13. Prefixes(j, q)[Len(s)] = j[DOMAIN q]
  BY <1>1, <1>3 DEF Prefixes
<1> QED BY <1>6, <1>12, <1>13 DEF h, q

\* The backslashes that take a character along: each one that is not itself taken along.
LEMMA EscapesAre ==
  ASSUME NEW s \in Seq(Text!Chars)
  PROVE  /\ Text!escapes(s) \subseteq 1..Len(s)
         /\ \A i \in 1..Len(s) :
               i \in Text!escapes(s) <=> s[i] = "bs" /\ i - 1 \notin Text!escapes(s)
<1> DEFINE n == Len(s)
<1>1. PICK f : /\ Folds(SUBSET Nat, EscapeStep(s), {}, Positions(s), f)
               /\ Text!escapes(s) = f[n]
  BY EscapesFold
<1>2. n \in Nat /\ DOMAIN s = 1..n
  BY LenProperties
<1>3. Positions(s) \in Seq(Nat) /\ Len(Positions(s)) = n
  <2>1. Positions(s) \in [1..n -> Nat]
    BY <1>2 DEF Positions
  <2> QED BY <1>2, <2>1, FunctionIsSeq
<1> HIDE DEF n
<1>4. /\ f \in [0..n -> SUBSET Nat] /\ f[0] = {}
      /\ \A k \in 1..n : f[k] = IF s[k] = "bs" /\ k - 1 \notin f[k - 1]
                                THEN f[k - 1] \cup {k} ELSE f[k - 1]
  <2>1. /\ f \in [0..n -> SUBSET Nat] /\ f[0] = {}
        /\ \A k \in 1..n : f[k] = EscapeStep(s)[<<f[k - 1], Positions(s)[k]>>]
    BY <1>1, <1>3 DEF Folds
  <2>2. ASSUME NEW k \in 1..n
        PROVE  f[k] = IF s[k] = "bs" /\ k - 1 \notin f[k - 1] THEN f[k - 1] \cup {k} ELSE f[k - 1]
    <3>1. Positions(s)[k] = k /\ k \in Nat
      BY <1>2 DEF Positions
    <3>2. f[k - 1] \in SUBSET Nat
      BY <1>2, <2>1
    <3> QED BY <2>1, <3>1, <3>2 DEF EscapeStep
  <2> QED BY <2>1, <2>2
<1> DEFINE K == {k \in Nat : k <= n =>
                   /\ f[k] \subseteq 1..k
                   /\ \A i \in 1..k : i \in f[k] <=> s[i] = "bs" /\ i - 1 \notin f[k]}
<1>5. 0 \in K
  BY <1>4
<1>6. ASSUME NEW k \in K PROVE k + 1 \in K
  <2> SUFFICES ASSUME k + 1 <= n
               PROVE  /\ f[k + 1] \subseteq 1..k + 1
                      /\ \A i \in 1..k + 1 :
                            i \in f[k + 1] <=> s[i] = "bs" /\ i - 1 \notin f[k + 1]
    OBVIOUS
  <2>1. k \in Nat /\ k + 1 \in 1..n /\ (k + 1) - 1 = k /\ k <= n
    BY <1>2
  <2>2. f[k] \subseteq 1..k /\ \A i \in 1..k : i \in f[k] <=> s[i] = "bs" /\ i - 1 \notin f[k]
    BY <2>1
  <2>3. f[k + 1] = IF s[k + 1] = "bs" /\ k \notin f[k] THEN f[k] \cup {k + 1} ELSE f[k]
    BY <1>4, <2>1
  <2> HIDE DEF K
  <2>4. f[k + 1] \subseteq 1..k + 1
    BY <2>1, <2>2, <2>3
  <2>5. \A i \in 0..k : i \in f[k + 1] <=> i \in f[k]
    BY <2>1, <2>3
  <2>6. k + 1 \notin f[k]
    BY <2>1, <2>2
  <2>7. ASSUME NEW i \in 1..k + 1
        PROVE  i \in f[k + 1] <=> s[i] = "bs" /\ i - 1 \notin f[k + 1]
    <3>1. CASE i = k + 1
      <4>1. k \in f[k + 1] <=> k \in f[k]
        BY <2>1, <2>5
      <4> QED BY <2>1, <2>3, <2>6, <3>1, <4>1
    <3>2. CASE i # k + 1
      <4>1. i \in 1..k /\ i \in 0..k /\ i - 1 \in 0..k
        BY <2>1, <3>2
      <4> QED BY <2>2, <2>5, <4>1
    <3> QED BY <3>1, <3>2
  <2> QED BY <2>4, <2>7
<1>7. K = Nat
  <2> HIDE DEF K
  <2>1. K \in SUBSET Nat
    BY DEF K
  <2> QED BY <1>5, <1>6, <2>1, OneByOne
<1>8. n \in K
  BY <1>2, <1>7
<1> QED BY <1>1, <1>2, <1>8 DEF n

\* A stretch of a sequence: its length, and its elements.
LEMMA Slice ==
  ASSUME NEW C, NEW s \in Seq(C), NEW m \in Nat \ {0}, NEW n \in Nat, n <= Len(s)
  PROVE  /\ SubSeq(s, m, n) \in Seq(C)
         /\ Len(SubSeq(s, m, n)) = IF m <= n THEN n - m + 1 ELSE 0
         /\ \A i \in 1..n - m + 1 : SubSeq(s, m, n)[i] = s[m + i - 1]
<1>1. Len(s) \in Nat
  BY LenProperties
<1>2. \A i \in m..n : i \in 1..Len(s)
  BY <1>1
<1>3. \A i \in m..n : s[i] \in C
  BY <1>2, ElementOfSeq
<1>4. m \in Int /\ n \in Int
  OBVIOUS
<1> QED BY <1>3, <1>4, SubSeqProperties

\* No space at either end.
Tight(s) == s = <<>> \/ (s[1] \notin Text!Spaces /\ s[Len(s)] \notin Text!Spaces)

\* trimEnd cuts the spaces of the end, and only these.
LEMMA TrimmedEnd ==
  ASSUME NEW s \in Seq(Text!Chars)
  PROVE  \E n \in 0..Len(s) :
            /\ Text!trimEnd(s) = SubSeq(s, 1, n)
            /\ n # 0 => s[n] \notin Text!Spaces
            /\ \A i \in n + 1..Len(s) : s[i] \in Text!Spaces
<1> DEFINE I == {i \in 1..Len(s) : s[i] \notin Text!Spaces}
           n == IF I # {} THEN Text!Max(I) ELSE 0
<1>1. Len(s) \in Nat /\ I \in SUBSET (1..Len(s))
  BY LenProperties
<1>2. Text!trimEnd(s) = SubSeq(s, 1, n)
  BY DEF Text!trimEnd, Text!SelectLastInSeq
<1>3. CASE I = {}
  <2>1. n = 0 /\ \A i \in 0 + 1..Len(s) : s[i] \in Text!Spaces
    BY <1>3
  <2>2. 0 \in 0..Len(s)
    BY <1>1
  <2> HIDE DEF n
  <2> QED BY <1>2, <2>1, <2>2
<1>4. CASE I # {}
  <2>1. Text!Max(I) \in I /\ \A y \in I : y <= Text!Max(I)
    BY <1>1, <1>4, MaxOf
  <2>2. n = Text!Max(I)
    BY <1>4
  <2> HIDE DEF n
  <2>3. n \in I /\ \A y \in I : y <= n
    BY <2>1, <2>2
  <2>4. n \in 0..Len(s) /\ s[n] \notin Text!Spaces
    BY <1>1, <2>3
  <2>5. ASSUME NEW i \in n + 1..Len(s) PROVE s[i] \in Text!Spaces
    <3>1. i \in 1..Len(s) /\ ~(i <= n)
      BY <1>1, <2>4
    <3> QED BY <2>3, <3>1
  <2> QED BY <1>2, <2>4, <2>5
<1> QED BY <1>3, <1>4

\* trimStart cuts the spaces of the start, and only these.
LEMMA TrimmedStart ==
  ASSUME NEW s \in Seq(Text!Chars)
  PROVE  \E m \in 1..Len(s) + 1 :
            /\ Text!trimStart(s) = SubSeq(s, m, Len(s))
            /\ m # Len(s) + 1 => s[m] \notin Text!Spaces
            /\ \A i \in 1..m - 1 : s[i] \in Text!Spaces
<1> DEFINE I == {i \in 1..Len(s) : s[i] \notin Text!Spaces}
           k == IF I # {} THEN Text!Min(I) ELSE 0
<1>1. Len(s) \in Nat /\ I \in SUBSET Nat
  BY LenProperties
<1>2. Text!trimStart(s) = IF k = 0 THEN <<>> ELSE SubSeq(s, (k - 1) + 1, Len(s))
  BY DEF Text!trimStart, Text!SelectInSeq, Text!After
<1>3. CASE I = {}
  <2>1. k = 0
    BY <1>3
  <2> DEFINE m == Len(s) + 1
  <2>2. SubSeq(s, m, Len(s)) = <<>>
    <3>1. m \in Int /\ Len(s) \in Int /\ Len(s) < m
      BY <1>1
    <3> HIDE DEF m
    <3> QED BY <3>1, SubSeqEmpty
  <2>3. m \in 1..Len(s) + 1
    BY <1>1
  <2>4. \A i \in 1..m - 1 : s[i] \in Text!Spaces
    BY <1>1, <1>3
  <2> HIDE DEF k
  <2> QED BY <1>2, <2>1, <2>2, <2>3, <2>4
<1>4. CASE I # {}
  <2>1. Text!Min(I) \in I /\ \A y \in I : Text!Min(I) <= y
    BY <1>1, <1>4, MinOf
  <2>2. k = Text!Min(I)
    BY <1>4
  <2> HIDE DEF k
  <2>3. k \in I /\ \A y \in I : k <= y
    BY <2>1, <2>2
  <2>4. k \in 1..Len(s) /\ s[k] \notin Text!Spaces
    BY <2>3
  <2>5. ASSUME NEW i \in 1..k - 1 PROVE s[i] \in Text!Spaces
    <3>1. i \in 1..Len(s) /\ ~(k <= i)
      BY <1>1, <2>4
    <3> QED BY <2>3, <3>1
  <2>6. k # 0 /\ (k - 1) + 1 = k /\ k \in 1..Len(s) + 1
    BY <1>1, <2>4
  <2> QED BY <1>2, <2>4, <2>5, <2>6
<1> QED BY <1>3, <1>4

\* A trimmed text is a stretch of the text, and tight; it starts where the text does when that
\* starts with no space.
LEMMA TrimIs ==
  ASSUME NEW s \in Seq(Text!Chars)
  PROVE  /\ Text!trim(s) \in Seq(Text!Chars) /\ Tight(Text!trim(s))
         /\ \E k \in Nat :
               /\ k + Len(Text!trim(s)) <= Len(s)
               /\ \A i \in 1..Len(Text!trim(s)) : Text!trim(s)[i] = s[k + i]
               /\ s # <<>> /\ s[1] \notin Text!Spaces => k = 0
<1>1. Len(s) \in Nat
  BY LenProperties
<1>2. PICK m \in 1..Len(s) + 1 :
         /\ Text!trimStart(s) = SubSeq(s, m, Len(s))
         /\ m # Len(s) + 1 => s[m] \notin Text!Spaces
         /\ \A i \in 1..m - 1 : s[i] \in Text!Spaces
  BY TrimmedStart
<1> DEFINE u == Text!trimStart(s)
<1>3. /\ u \in Seq(Text!Chars) /\ Len(u) = Len(s) - m + 1 /\ Len(u) \in Nat
      /\ \A i \in 1..Len(s) - m + 1 : u[i] = s[m + i - 1]
  <2>1. m \in Nat \ {0} /\ Len(s) <= Len(s)
    BY <1>1
  <2>2. /\ u \in Seq(Text!Chars)
        /\ Len(u) = IF m <= Len(s) THEN Len(s) - m + 1 ELSE 0
        /\ \A i \in 1..Len(s) - m + 1 : u[i] = s[m + i - 1]
    BY <1>1, <1>2, <2>1, Slice
  <2> QED BY <1>1, <2>2
<1> DEFINE t == Text!trimEnd(u)
<1>4. PICK n \in 0..Len(u) :
         /\ t = SubSeq(u, 1, n)
         /\ n # 0 => u[n] \notin Text!Spaces
         /\ \A i \in n + 1..Len(u) : u[i] \in Text!Spaces
  BY <1>3, TrimmedEnd
<1>5. Text!trim(s) = t
  BY DEF Text!trim
<1> HIDE DEF u, t
<1>6. /\ t \in Seq(Text!Chars) /\ Len(t) = n /\ \A i \in 1..n : t[i] = u[i]
  <2>1. n \in Nat /\ n <= Len(u) /\ 1 \in Nat \ {0}
    BY <1>3
  <2>2. /\ SubSeq(u, 1, n) \in Seq(Text!Chars)
        /\ Len(SubSeq(u, 1, n)) = IF 1 <= n THEN n - 1 + 1 ELSE 0
        /\ \A i \in 1..n - 1 + 1 : SubSeq(u, 1, n)[i] = u[1 + i - 1]
    BY <1>3, <2>1, Slice
  <2> QED BY <1>4, <2>1, <2>2
<1>7. ASSUME NEW i \in 1..n PROVE t[i] = s[(m - 1) + i]
  <2>1. i \in 1..Len(s) - m + 1 /\ m + i - 1 = (m - 1) + i
    BY <1>1, <1>3
  <2> QED BY <1>3, <1>6, <2>1
<1>8. m - 1 \in Nat /\ (m - 1) + Len(t) <= Len(s)
  BY <1>1, <1>3, <1>6
<1>9. s # <<>> /\ s[1] \notin Text!Spaces => m - 1 = 0
  <2> SUFFICES ASSUME s # <<>>, m - 1 # 0 PROVE s[1] \in Text!Spaces
    OBVIOUS
  <2>1. 1 \in 1..m - 1
    BY <1>1
  <2> QED BY <1>2, <2>1
<1>10. Tight(t)
  <2> SUFFICES ASSUME t # <<>>
               PROVE  t[1] \notin Text!Spaces /\ t[Len(t)] \notin Text!Spaces
    BY DEF Tight
  <2>1. n # 0 /\ n \in Nat
    BY <1>3, <1>6, EmptySeq
  <2>2. m # Len(s) + 1 /\ 1 \in 1..n /\ n \in 1..n /\ (m - 1) + 1 = m
    BY <1>1, <1>3, <2>1
  <2> QED BY <1>2, <1>4, <1>6, <1>7, <2>1, <2>2
<1> QED BY <1>5, <1>6, <1>7, <1>8, <1>9, <1>10

\* A tight text is not trimmed.
LEMMA TrimKeeps ==
  ASSUME NEW s \in Seq(Text!Chars), Tight(s)
  PROVE  Text!trim(s) = s
<1>1. Len(s) \in Nat /\ (Len(s) = 0 <=> s = <<>>)
  BY LenProperties, EmptySeq
<1>2. SubSeq(s, 1, Len(s)) = s
  BY SubSeqFull
<1>3. Text!trimStart(s) = s
  <2>1. PICK m \in 1..Len(s) + 1 :
           /\ Text!trimStart(s) = SubSeq(s, m, Len(s))
           /\ \A i \in 1..m - 1 : s[i] \in Text!Spaces
    BY TrimmedStart
  <2>2. m = 1
    <3> SUFFICES ASSUME m # 1 PROVE FALSE
      OBVIOUS
    <3>1. 1 \in 1..m - 1 /\ Len(s) # 0
      BY <1>1
    <3> QED BY <1>1, <2>1, <3>1 DEF Tight
  <2> QED BY <1>2, <2>1, <2>2
<1>4. Text!trimEnd(s) = s
  <2>1. PICK n \in 0..Len(s) :
           /\ Text!trimEnd(s) = SubSeq(s, 1, n)
           /\ \A i \in n + 1..Len(s) : s[i] \in Text!Spaces
    BY TrimmedEnd
  <2>2. n = Len(s)
    <3> SUFFICES ASSUME n # Len(s) PROVE FALSE
      OBVIOUS
    <3>1. Len(s) \in n + 1..Len(s) /\ Len(s) # 0
      BY <1>1
    <3> QED BY <1>1, <2>1, <3>1 DEF Tight
  <2> QED BY <1>2, <2>1, <2>2
<1> QED BY <1>3, <1>4 DEF Text!trim

-----------------------------------------------------------------------------
(* What is written in quotes reads back. *)

\* Two texts that agree on their first n characters escape the same ones of them.
LEMMA EscapesAgree ==
  ASSUME NEW s \in Seq(Text!Chars), NEW u \in Seq(Text!Chars), NEW n \in Nat,
         n <= Len(s), n <= Len(u), \A i \in 1..n : s[i] = u[i]
  PROVE  \A i \in 0..n : i \in Text!escapes(s) <=> i \in Text!escapes(u)
<1> DEFINE D == Text!escapes(s)
           E == Text!escapes(u)
           K == {k \in Nat : k <= n => (k \in D <=> k \in E)}
<1>1. /\ Len(s) \in Nat /\ D \subseteq 1..Len(s)
      /\ \A i \in 1..Len(s) : i \in D <=> s[i] = "bs" /\ i - 1 \notin D
  BY EscapesAre, LenProperties
<1>2. /\ Len(u) \in Nat /\ E \subseteq 1..Len(u)
      /\ \A i \in 1..Len(u) : i \in E <=> u[i] = "bs" /\ i - 1 \notin E
  BY EscapesAre, LenProperties
<1> HIDE DEF D, E
<1>3. 0 \in K
  BY <1>1, <1>2
<1>4. ASSUME NEW k \in K PROVE k + 1 \in K
  <2> SUFFICES ASSUME k + 1 <= n PROVE k + 1 \in D <=> k + 1 \in E
    OBVIOUS
  <2>1. /\ k + 1 \in 1..n /\ k + 1 \in 1..Len(s) /\ k + 1 \in 1..Len(u) /\ (k + 1) - 1 = k
        /\ (k \in D <=> k \in E)
    BY <1>1, <1>2
  <2>2. k + 1 \in D <=> s[k + 1] = "bs" /\ k \notin D
    BY <1>1, <2>1
  <2>3. k + 1 \in E <=> u[k + 1] = "bs" /\ k \notin E
    BY <1>2, <2>1
  <2>4. s[k + 1] = u[k + 1]
    BY <2>1
  <2> QED BY <2>1, <2>2, <2>3, <2>4
<1>5. K = Nat
  <2> HIDE DEF K
  <2>1. K \in SUBSET Nat
    BY DEF K
  <2> QED BY <1>3, <1>4, <2>1, OneByOne
<1>6. ASSUME NEW i \in 0..n PROVE i \in D <=> i \in E
  <2>1. i \in Nat /\ i <= n
    OBVIOUS
  <2>2. i \in K
    BY <1>5, <2>1
  <2> QED BY <2>1, <2>2
<1> QED BY <1>6 DEF D, E

\* A function on the positions of a longer sequence is one on those of the shorter, with a value
\* more.
LEMMA OneMore ==
  ASSUME NEW C, NEW n \in Nat, NEW f \in [1..n -> C], NEW g \in [1..n + 1 -> C],
         \A i \in 1..n : g[i] = f[i]
  PROVE  g = Append(f, g[n + 1]) /\ f \in Seq(C)
<1>1. f \in Seq(C) /\ Len(f) = n
  BY FunctionIsSeq
<1>3. g \in Seq(C) /\ Len(g) = n + 1 /\ g[n + 1] \in C
  BY FunctionIsSeq, n + 1 \in Nat, n + 1 \in 1..n + 1
<1> DEFINE a == Append(f, g[n + 1])
<1>4. /\ a \in Seq(C) /\ Len(a) = n + 1 /\ a[n + 1] = g[n + 1]
      /\ \A i \in 1..n : a[i] = f[i]
  BY <1>1, <1>3, AppendProperties
<1>5. \A i \in 1..n + 1 : g[i] = a[i]
  <2> SUFFICES ASSUME NEW i \in 1..n + 1 PROVE g[i] = a[i]
    OBVIOUS
  <2>1. i \in 1..n \/ i = n + 1
    OBVIOUS
  <2> QED BY <1>4, <2>1
<1> HIDE DEF a
<1>6. g = a
  BY <1>3, <1>4, <1>5, SeqEqual
<1> QED BY <1>1, <1>6 DEF a

\* What unescaped puts for the character at a place.
Pairs(s) == {i \in Text!escapes(s) : i < Len(s) /\ s[i + 1] \in {"n", "dq", "bs"}}
ReadAt(s, i) ==
    IF i \in Pairs(s) THEN <<>>
    ELSE IF i - 1 \in Pairs(s) /\ s[i] = "n" THEN <<"newline">> ELSE <<s[i]>>
ReadAll(s) == [i \in DOMAIN s |-> ReadAt(s, i)]

\* unescaped is what stands at each place, one after the other.
LEMMA UnescapedIs ==
  ASSUME NEW s \in Seq(Text!Chars)
  PROVE  /\ Text!unescaped(s) = Text!FlattenSeq(ReadAll(s))
         /\ ReadAll(s) \in [1..Len(s) -> Seq(Text!Chars)]
         /\ ReadAll(s) \in Seq(Seq(Text!Chars)) /\ Len(ReadAll(s)) = Len(s)
         /\ Text!unescaped(s) \in Seq(Text!Chars)
<1>1. DOMAIN s = 1..Len(s) /\ Len(s) \in Nat /\ \A i \in 1..Len(s) : s[i] \in Text!Chars
  BY LenProperties, ElementOfSeq
<1>2. Text!unescaped(s) = Text!FlattenSeq(ReadAll(s))
  BY DEF Text!unescaped, ReadAll, ReadAt, Pairs
<1>3. ASSUME NEW i \in 1..Len(s) PROVE ReadAt(s, i) \in Seq(Text!Chars)
  <2>1. s[i] \in Text!Chars /\ "newline" \in Text!Chars
    BY <1>1 DEF Text!Chars
  <2>2. /\ <<>> \in Seq(Text!Chars) /\ <<s[i]>> \in Seq(Text!Chars)
        /\ <<"newline">> \in Seq(Text!Chars)
    BY <2>1
  <2> QED BY <2>2 DEF ReadAt
<1>4. ReadAll(s) \in [1..Len(s) -> Seq(Text!Chars)]
  BY <1>1, <1>3 DEF ReadAll
<1>5. ReadAll(s) \in Seq(Seq(Text!Chars)) /\ Len(ReadAll(s)) = Len(s)
  BY <1>1, <1>4, FunctionIsSeq
<1> QED BY <1>2, <1>4, <1>5, FlattenGrows

\* The text t, put between double quotes, is read as v.
Reads(t, v) ==
    /\ t \in Seq(Plain) /\ v \in Seq(Text!Chars)
    /\ \A i \in 1..Len(t) : t[i] = "dq" => i - 1 \in Text!escapes(t)
    /\ \A i \in Text!escapes(t) : i < Len(t) /\ t[i + 1] \in {"n", "dq", "bs"}
    /\ Text!unescaped(t) = v

\* A line is a text.
LEMMA PlainIsText == Plain \subseteq Text!Chars /\ Seq(Plain) \subseteq Seq(Text!Chars)
<1>1. Plain \subseteq Text!Chars
  BY DEF Plain
<1> QED BY <1>1, SeqMonotonic

\* Two quotes with nothing between them are read as nothing.
LEMMA ReadsNothing == Reads(<<>>, <<>>)
<1>1. <<>> \in Seq(Plain) /\ <<>> \in Seq(Text!Chars) /\ Len(<<>>) = 0
  BY EmptySeq
<1>2. Text!escapes(<<>>) = {}
  <2>1. Text!escapes(<<>>) \subseteq 1..0
    BY <1>1, EscapesAre
  <2> QED BY <2>1
<1>3. Text!unescaped(<<>>) = <<>>
  <2>1. ReadAll(<<>>) = <<>>
    <3>1. ReadAll(<<>>) \in Seq(Seq(Text!Chars)) /\ Len(ReadAll(<<>>)) = 0
      BY <1>1, UnescapedIs
    <3> QED BY <3>1, EmptySeq
  <2> QED BY <1>1, <2>1, UnescapedIs, FlattenGrows
<1> QED BY <1>1, <1>2, <1>3 DEF Reads

\* A character that needs no backslash is read as it is.
LEMMA ReadsPlainly ==
  ASSUME NEW t, NEW v, Reads(t, v), NEW c \in Text!Chars \ {"newline", "bs", "dq"}
  PROVE  Reads(Append(t, c), Append(v, c))
<1> DEFINE n == Len(t)
           u == Append(t, c)
           E == Text!escapes(t)
           F == Text!escapes(u)
<1>1. /\ t \in Seq(Plain) /\ t \in Seq(Text!Chars) /\ v \in Seq(Text!Chars) /\ n \in Nat
      /\ c \in Plain /\ c \in Text!Chars
  BY PlainIsText, LenProperties DEF Reads, Plain
<1>2. u \in Seq(Plain) /\ u \in Seq(Text!Chars) /\ Append(v, c) \in Seq(Text!Chars)
  BY <1>1, AppendProperties
<1>3. Len(u) = n + 1 /\ u[n + 1] = c /\ (\A i \in 1..n : t[i] = u[i]) /\ n <= Len(u)
  BY <1>1, AppendProperties
<1>4. /\ E \subseteq 1..n
      /\ \A i \in 1..n : t[i] = "dq" => i - 1 \in E
      /\ \A i \in E : i < n /\ t[i + 1] \in {"n", "dq", "bs"}
      /\ Text!unescaped(t) = v
  BY <1>1, EscapesAre DEF Reads
<1>5. /\ F \subseteq 1..n + 1
      /\ n + 1 \in F => u[n + 1] = "bs"
  <2>1. n + 1 \in 1..Len(u)
    BY <1>1, <1>3
  <2> QED BY <1>2, <1>3, <2>1, EscapesAre
<1>6. \A i \in 0..n : i \in E <=> i \in F
  <2>1. n <= Len(t)
    BY <1>1
  <2> HIDE DEF u
  <2> QED BY <1>1, <1>2, <1>3, <2>1, EscapesAgree
<1> HIDE DEF u, n, E, F
<1>7. F = E
  <2>1. n + 1 \notin F
    BY <1>3, <1>5
  <2>2. \A i \in F : i \in 0..n
    BY <1>1, <1>5, <2>1
  <2>3. \A i \in E : i \in 0..n
    BY <1>1, <1>4
  <2> QED BY <1>6, <2>2, <2>3
<1>8. \A i \in F : i < n + 1 /\ u[i + 1] \in {"n", "dq", "bs"}
  <2> SUFFICES ASSUME NEW i \in E PROVE i < n + 1 /\ u[i + 1] \in {"n", "dq", "bs"}
    BY <1>7
  <2>1. i \in 1..n /\ i < n /\ t[i + 1] \in {"n", "dq", "bs"}
    BY <1>4
  <2>2. i + 1 \in 1..n
    BY <1>1, <2>1
  <2> QED BY <1>1, <1>3, <2>1, <2>2
<1>9. ASSUME NEW i \in 1..n + 1, u[i] = "dq" PROVE i - 1 \in F
  <2>1. i # n + 1
    BY <1>3, <1>9
  <2>2. i \in 1..n
    BY <1>1, <2>1
  <2> QED BY <1>3, <1>4, <1>7, <1>9, <2>2
<1>10. Pairs(t) = E /\ Pairs(u) = E
  BY <1>3, <1>4, <1>7, <1>8 DEF Pairs, E, F, n
<1>11. Text!unescaped(u) = Append(v, c)
  <2> DEFINE f == ReadAll(t)
             g == ReadAll(u)
             L == Seq(Text!Chars)
  <2>1. f \in [1..n -> L] /\ f \in Seq(L) /\ Text!FlattenSeq(f) = v
    BY <1>1, <1>4, UnescapedIs DEF n
  <2>2. g \in [1..n + 1 -> L] /\ Text!FlattenSeq(g) = Text!unescaped(u)
    BY <1>2, <1>3, UnescapedIs
  <2>3. DOMAIN t = 1..n /\ DOMAIN u = 1..n + 1
    BY <1>1, <1>2, <1>3, LenProperties DEF n
  <2>4. ASSUME NEW i \in 1..n PROVE g[i] = f[i]
    <3>1. i \in 1..n + 1
      BY <1>1
    <3>2. g[i] = ReadAt(u, i) /\ f[i] = ReadAt(t, i) /\ u[i] = t[i]
      BY <1>3, <2>3, <3>1 DEF ReadAll
    <3> QED BY <1>10, <3>2 DEF ReadAt
  <2>5. g[n + 1] = <<c>>
    <3>1. n + 1 \notin E /\ (n + 1) - 1 \notin E
      BY <1>1, <1>4
    <3>2. n + 1 \in 1..n + 1
      BY <1>1
    <3>3. g[n + 1] = ReadAt(u, n + 1)
      BY <2>3, <3>2 DEF ReadAll
    <3> QED BY <1>3, <1>10, <3>1, <3>3 DEF ReadAt
  <2>6. <<c>> \in L
    BY <1>1
  <2> HIDE DEF f, g, L
  <2>7. g = Append(f, <<c>>)
    <3>1. g = Append(f, g[n + 1])
      BY <1>1, <2>1, <2>2, <2>4, OneMore
    <3> QED BY <2>5, <3>1
  <2>8. Text!FlattenSeq(Append(f, <<c>>)) = v \o <<c>>
    BY <2>1, <2>6, FlattenGrows DEF L
  <2> QED BY <1>1, <2>2, <2>7, <2>8, AppendIsConcat
<1> QED BY <1>2, <1>3, <1>8, <1>9, <1>11 DEF Reads, F, u

\* A character that is written with a backslash before it.
Written(c) == IF c = "newline" THEN "n" ELSE c

\* A character written with a backslash is read as the one it stands for.
LEMMA ReadsEscaped ==
  ASSUME NEW t, NEW v, Reads(t, v), NEW c \in {"newline", "bs", "dq"}
  PROVE  Reads(Append(Append(t, "bs"), Written(c)), Append(v, c))
<1> DEFINE n == Len(t)
           x == Written(c)
           w == Append(t, "bs")
           u == Append(w, x)
           E == Text!escapes(t)
           F == Text!escapes(u)
<1>1. /\ t \in Seq(Plain) /\ t \in Seq(Text!Chars) /\ v \in Seq(Text!Chars) /\ n \in Nat
      /\ c \in Text!Chars /\ x \in Plain /\ "bs" \in Plain /\ x \in {"n", "dq", "bs"}
  BY PlainIsText, LenProperties DEF Reads, Plain, Written, Text!Chars
<1>2. w \in Seq(Plain) /\ Len(w) = n + 1 /\ w[n + 1] = "bs" /\ \A i \in 1..n : w[i] = t[i]
  BY <1>1, AppendProperties
<1> HIDE DEF w, x
<1>3. /\ u \in Seq(Plain) /\ Len(u) = n + 2 /\ u[n + 2] = x /\ u[n + 1] = "bs"
      /\ \A i \in 1..n : u[i] = t[i]
  <2>1. /\ u \in Seq(Plain) /\ Len(u) = Len(w) + 1 /\ u[Len(w) + 1] = x
        /\ \A i \in 1..Len(w) : u[i] = w[i]
    BY <1>1, <1>2, AppendProperties
  <2>2. Len(w) + 1 = n + 2 /\ n + 1 \in 1..Len(w) /\ \A i \in 1..n : i \in 1..Len(w)
    BY <1>1, <1>2
  <2> QED BY <1>2, <2>1, <2>2
<1>4. u \in Seq(Text!Chars) /\ Append(v, c) \in Seq(Text!Chars)
  BY <1>1, <1>3, PlainIsText, AppendProperties
<1>5. /\ E \subseteq 1..n
      /\ \A i \in 1..n : t[i] = "dq" => i - 1 \in E
      /\ \A i \in E : i < n /\ t[i + 1] \in {"n", "dq", "bs"}
      /\ Text!unescaped(t) = v
  BY <1>1, EscapesAre DEF Reads
<1>6. \A i \in 0..n : i \in E <=> i \in F
  <2>1. n <= Len(t) /\ n <= Len(u) /\ \A i \in 1..n : t[i] = u[i]
    BY <1>1, <1>3
  <2> HIDE DEF u
  <2> QED BY <1>1, <1>4, <2>1, EscapesAgree
<1>7. /\ F \subseteq 1..n + 2
      /\ n + 1 \in F <=> u[n + 1] = "bs" /\ n \notin F
      /\ n + 2 \in F <=> u[n + 2] = "bs" /\ n + 1 \notin F
  <2>1. n + 1 \in 1..n + 2 /\ n + 2 \in 1..n + 2 /\ (n + 1) - 1 = n /\ (n + 2) - 1 = n + 1
    BY <1>1
  <2>2. /\ F \subseteq 1..n + 2
        /\ \A i \in 1..n + 2 : i \in F <=> u[i] = "bs" /\ i - 1 \notin F
    BY <1>3, <1>4, EscapesAre
  <2> HIDE DEF F, u, n
  <2> QED BY <2>1, <2>2
<1> HIDE DEF u, n, E, F
<1>8. F = E \cup {n + 1}
  <2>1. n \notin E /\ n \in 0..n
    BY <1>1, <1>5
  <2>2. n + 1 \in F /\ n + 2 \notin F
    BY <1>3, <1>6, <1>7, <2>1
  <2>3. \A i \in F : i \in 0..n \/ i = n + 1
    BY <1>1, <1>7, <2>2
  <2>4. \A i \in E : i \in 0..n
    BY <1>1, <1>5
  <2> QED BY <1>6, <2>2, <2>3, <2>4
<1>9. \A i \in F : i < n + 2 /\ u[i + 1] \in {"n", "dq", "bs"}
  <2> SUFFICES ASSUME NEW i \in F PROVE i < n + 2 /\ u[i + 1] \in {"n", "dq", "bs"}
    OBVIOUS
  <2>1. CASE i \in E
    <3>1. i \in 1..n /\ i < n /\ t[i + 1] \in {"n", "dq", "bs"}
      BY <1>5, <2>1
    <3>2. i + 1 \in 1..n /\ i < n + 2
      BY <1>1, <3>1
    <3>3. u[i + 1] = t[i + 1]
      BY <1>3, <3>2
    <3> QED BY <3>1, <3>2, <3>3
  <2>2. CASE i = n + 1
    <3>1. i + 1 = n + 2 /\ i < n + 2
      BY <1>1, <2>2
    <3> QED BY <1>1, <1>3, <3>1
  <2> QED BY <1>8, <2>1, <2>2
<1>10. ASSUME NEW i \in 1..n + 2, u[i] = "dq" PROVE i - 1 \in F
  <2>1. CASE i \in 1..n
    BY <1>3, <1>5, <1>8, <1>10, <2>1
  <2>2. CASE i = n + 1
    BY <1>3, <1>10, <2>2
  <2>3. CASE i = n + 2
    <3>1. i - 1 = n + 1
      BY <1>1, <2>3
    <3> QED BY <1>8, <3>1
  <2> QED BY <1>1, <2>1, <2>2, <2>3
<1>11. Pairs(t) = E /\ Pairs(u) = F
  BY <1>3, <1>5, <1>9 DEF Pairs, E, F, n
<1>12. Text!unescaped(u) = Append(v, c)
  <2> DEFINE f == ReadAll(t)
             g == ReadAll(u)
             h == [i \in 1..n + 1 |-> g[i]]
             L == Seq(Text!Chars)
  <2>1. f \in [1..n -> L] /\ f \in Seq(L) /\ Text!FlattenSeq(f) = v
    BY <1>1, <1>5, UnescapedIs DEF n
  <2>2. g \in [1..n + 2 -> L] /\ Text!FlattenSeq(g) = Text!unescaped(u)
    BY <1>3, <1>4, UnescapedIs
  <2>3. DOMAIN t = 1..n /\ DOMAIN u = 1..n + 2
    BY <1>1, <1>3, <1>4, LenProperties DEF n
  <2>4. ASSUME NEW i \in 1..n PROVE g[i] = f[i]
    <3>1. i \in 1..n + 2 /\ i # n + 1 /\ i - 1 # n + 1
      BY <1>1
    <3>2. g[i] = ReadAt(u, i) /\ f[i] = ReadAt(t, i) /\ u[i] = t[i]
      BY <1>3, <2>3, <3>1 DEF ReadAll
    <3>3. (i \in F <=> i \in E) /\ (i - 1 \in F <=> i - 1 \in E)
      BY <1>8, <3>1
    <3> QED BY <1>11, <3>2, <3>3 DEF ReadAt
  <2>5. g[n + 1] = <<>>
    <3>1. n + 1 \in 1..n + 2
      BY <1>1
    <3>2. g[n + 1] = ReadAt(u, n + 1) /\ n + 1 \in F
      BY <1>8, <2>3, <3>1 DEF ReadAll
    <3> QED BY <1>11, <3>2 DEF ReadAt
  <2>6. g[n + 2] = <<c>>
    <3>1. n + 2 \in 1..n + 2 /\ (n + 2) - 1 = n + 1 /\ n + 2 \notin 1..n /\ n + 2 # n + 1
      BY <1>1
    <3>2. g[n + 2] = ReadAt(u, n + 2) /\ (n + 2) - 1 \in F /\ n + 2 \notin F
      BY <1>5, <1>8, <2>3, <3>1 DEF ReadAll
    <3>3. g[n + 2] = IF x = "n" THEN <<"newline">> ELSE <<x>>
      BY <1>3, <1>11, <3>2 DEF ReadAt
    <3> QED BY <3>3 DEF x, Written
  <2>7. <<>> \in L /\ <<c>> \in L
    BY <1>1
  <2>8. g[n + 1] \in L /\ g[n + 2] \in L
    BY <2>5, <2>6, <2>7
  <2> HIDE DEF f, g, L
  <2>9. h \in [1..n + 1 -> L] /\ h \in Seq(L)
    <3>1. \A i \in 1..n + 1 : i \in 1..n + 2
      BY <1>1
    <3>2. h \in [1..n + 1 -> L]
      BY <2>2, <3>1
    <3> HIDE DEF h
    <3> QED BY <1>1, <3>2, FunctionIsSeq, n + 1 \in Nat
  <2>10. h = Append(f, <<>>)
    <3>1. n + 1 \in 1..n + 1 /\ \A i \in 1..n : i \in 1..n + 1
      BY <1>1
    <3>2. h[n + 1] = <<>> /\ \A i \in 1..n : h[i] = f[i]
      BY <2>4, <2>5, <3>1
    <3> HIDE DEF h
    <3>3. h = Append(f, h[n + 1])
      BY <1>1, <2>1, <2>9, <3>2, OneMore
    <3> QED BY <3>2, <3>3
  <2>11. g = Append(h, <<c>>)
    <3> DEFINE m == n + 1
    <3>1. m \in Nat /\ m + 1 = n + 2
      BY <1>1
    <3>2. g \in [1..m + 1 -> L] /\ g[m + 1] = <<c>> /\ h \in [1..m -> L]
      BY <2>2, <2>6, <2>9, <3>1
    <3>3. \A i \in 1..m : g[i] = h[i]
      OBVIOUS
    <3> HIDE DEF h, m
    <3>4. g = Append(h, g[m + 1])
      BY <3>1, <3>2, <3>3, OneMore
    <3> QED BY <3>2, <3>4
  <2> HIDE DEF h
  <2>12. Text!FlattenSeq(h) = v
    <3>1. Text!FlattenSeq(Append(f, <<>>)) = v \o <<>>
      BY <2>1, <2>7, FlattenGrows DEF L
    <3> QED BY <1>1, <2>10, <3>1, ConcatEmptySeq
  <2>13. Text!FlattenSeq(Append(h, <<c>>)) = v \o <<c>>
    BY <2>7, <2>9, <2>12, FlattenGrows DEF L
  <2> QED BY <1>1, <2>2, <2>11, <2>13, AppendIsConcat
<1> QED BY <1>3, <1>4, <1>9, <1>10, <1>12 DEF Reads, F, u, x, w

\* Two elements, one appended to the other.
LEMMA Pair ==
  ASSUME NEW a, NEW b PROVE Append(<<a>>, b) = <<a, b>>
<1> DEFINE C == {a, b}
           l == Append(<<a>>, b)
           r == <<a, b>>
<1>1. <<a>> \in Seq(C) /\ b \in C /\ Len(<<a>>) = 1 /\ <<a>>[1] = a
  OBVIOUS
<1>2. l \in Seq(C) /\ Len(l) = 2 /\ l[1] = a /\ l[2] = b
  <2>1. /\ l \in Seq(C) /\ Len(l) = Len(<<a>>) + 1 /\ l[Len(<<a>>) + 1] = b
        /\ \A i \in 1..Len(<<a>>) : l[i] = <<a>>[i]
    BY <1>1, AppendProperties
  <2> HIDE DEF l
  <2> QED BY <1>1, <2>1
<1>3. r \in Seq(C) /\ Len(r) = 2 /\ r[1] = a /\ r[2] = b
  OBVIOUS
<1>4. \A i \in 1..Len(l) : l[i] = r[i]
  <2> HIDE DEF l, r
  <2>1. \A i \in 1..2 : i = 1 \/ i = 2
    OBVIOUS
  <2> QED BY <1>2, <1>3, <2>1
<1> HIDE DEF l, r
<1>5. l = r
  BY <1>2, <1>3, <1>4, SeqEqual
<1> QED BY <1>5 DEF l, r

\* A value, each character as it is written between quotes.
Escaped(v) == [i \in DOMAIN v |-> Text!escaped(v[i])]

\* What is written for a character.
LEMMA EscapedIs ==
  ASSUME NEW c \in Text!Chars
  PROVE  /\ Text!escaped(c) \in Seq(Text!Chars)
         /\ c \in {"newline", "bs", "dq"} => Text!escaped(c) = <<"bs", Written(c)>>
         /\ c \notin {"newline", "bs", "dq"} => Text!escaped(c) = <<c>>
<1>1. CASE c = "newline"
  <2>1. Text!escaped(c) = <<"bs", "n">> /\ Written(c) = "n" /\ <<"bs", "n">> \in Seq(Text!Chars)
    BY <1>1 DEF Text!escaped, Written, Text!Chars
  <2> QED BY <1>1, <2>1
<1>2. CASE c \in {"bs", "dq"}
  <2>1. Text!escaped(c) = <<"bs", c>> /\ Written(c) = c /\ <<"bs", c>> \in Seq(Text!Chars)
    BY <1>2 DEF Text!escaped, Written, Text!Chars
  <2> QED BY <1>2, <2>1
<1>3. CASE c \notin {"newline", "bs", "dq"}
  <2>1. Text!escaped(c) = <<c>> /\ <<c>> \in Seq(Text!Chars)
    BY <1>3 DEF Text!escaped
  <2> QED BY <1>3, <2>1
<1> QED BY <1>1, <1>2, <1>3

\* What quote writes between the quotes is read as the value, whatever the value holds.
LEMMA BodyReads ==
  ASSUME NEW v \in Seq(Text!Chars)
  PROVE  Reads(Text!FlattenSeq(Escaped(v)), v)
<1> DEFINE P == {s \in Seq(Text!Chars) : Reads(Text!FlattenSeq(Escaped(s)), s)}
           L == Seq(Text!Chars)
<1>1. ASSUME NEW s \in L
      PROVE  Escaped(s) \in [1..Len(s) -> L] /\ Len(s) \in Nat /\ DOMAIN s = 1..Len(s)
  <2>1. DOMAIN s = 1..Len(s) /\ Len(s) \in Nat /\ \A i \in 1..Len(s) : s[i] \in Text!Chars
    BY LenProperties, ElementOfSeq
  <2>2. \A i \in 1..Len(s) : Text!escaped(s[i]) \in L
    BY <2>1, EscapedIs
  <2> QED BY <2>1, <2>2 DEF Escaped
<1>2. <<>> \in P
  <2>1. <<>> \in L /\ Len(<<>>) = 0
    BY EmptySeq
  <2>2. Escaped(<<>>) \in Seq(L) /\ Len(Escaped(<<>>)) = 0
    BY <1>1, <2>1, FunctionIsSeq
  <2>3. Escaped(<<>>) = <<>>
    BY <2>2, EmptySeq
  <2> QED BY <2>1, <2>3, FlattenGrows, ReadsNothing
<1>3. ASSUME NEW s \in P, NEW c \in Text!Chars PROVE Append(s, c) \in P
  <2> DEFINE n == Len(s)
             u == Append(s, c)
             f == Escaped(s)
             g == Escaped(u)
             t == Text!FlattenSeq(f)
             e == Text!escaped(c)
  <2>1. s \in L /\ Reads(t, s)
    BY <1>3
  <2>2. u \in L /\ Len(u) = n + 1 /\ u[n + 1] = c /\ \A i \in 1..n : u[i] = s[i]
    BY <2>1, AppendProperties
  <2>3. /\ n \in Nat /\ DOMAIN s = 1..n /\ DOMAIN u = 1..n + 1
        /\ f \in [1..n -> L] /\ g \in [1..n + 1 -> L]
    BY <1>1, <2>1, <2>2
  <2>4. n + 1 \in 1..n + 1 /\ \A i \in 1..n : i \in 1..n + 1
    BY <2>3
  <2>5. g[n + 1] = e /\ \A i \in 1..n : g[i] = f[i]
    BY <2>2, <2>3, <2>4 DEF Escaped
  <2>6. e \in L
    BY EscapedIs
  <2> HIDE DEF f, g, u, n, e
  <2>7. f \in Seq(L) /\ g = Append(f, e)
    <3>1. g = Append(f, g[n + 1])
      BY <2>3, <2>5, OneMore
    <3> QED BY <2>3, <2>5, <3>1, FunctionIsSeq
  <2>8. Text!FlattenSeq(g) = t \o e /\ t \in L
    BY <2>6, <2>7, FlattenGrows
  <2>9. Reads(t \o e, u)
    <3> HIDE DEF t
    <3>1. CASE c \in {"newline", "bs", "dq"}
      <4>1. e = <<"bs", Written(c)>>
        BY <3>1, EscapedIs DEF e
      <4>2. "bs" \in Text!Chars /\ Written(c) \in Text!Chars
        BY DEF Text!Chars, Written
      <4>3. <<"bs">> \in L /\ <<"bs", Written(c)>> = Append(<<"bs">>, Written(c))
        BY <4>2
      <4>4. t \o Append(<<"bs">>, Written(c)) = Append(t \o <<"bs">>, Written(c))
        BY <2>8, <4>2, <4>3, Appended
      <4>5. t \o <<"bs">> = Append(t, "bs")
        BY <2>8, <4>2, AppendIsConcat
      <4>6. t \o e = Append(Append(t, "bs"), Written(c))
        BY <4>1, <4>3, <4>4, <4>5
      <4>7. Reads(Append(Append(t, "bs"), Written(c)), Append(s, c))
        BY <2>1, <3>1, ReadsEscaped
      <4> QED BY <4>6, <4>7 DEF u
    <3>2. CASE c \notin {"newline", "bs", "dq"}
      <4>1. e = <<c>>
        BY <3>2, EscapedIs DEF e
      <4>2. t \o e = Append(t, c)
        BY <2>8, <4>1, AppendIsConcat
      <4>3. Reads(Append(t, c), Append(s, c))
        BY <2>1, <3>2, ReadsPlainly
      <4> QED BY <4>2, <4>3 DEF u
    <3> QED BY <3>1, <3>2
  <2> QED BY <2>2, <2>8, <2>9 DEF g, u
<1>4. P = L
  <2> HIDE DEF P
  <2>1. P \in SUBSET L
    BY DEF P
  <2> QED BY <1>2, <1>3, <2>1, LetterByLetter
<1> QED BY <1>4

\* A text that stands for the value v after the sign of equality.
StandsFor(q, v) ==
    /\ q \in Seq(Plain) /\ q # <<>> /\ Tight(q)
    /\ ~(Text!IsAt(q, 1, "dq") /\ Text!closingQuote(q) = 0)
    /\ Text!unquote(Text!withoutComment(q)) = v

\* Between double quotes, a text that reads as v stands for v.
LEMMA QuotesRead ==
  ASSUME NEW t, NEW v, Reads(t, v)
  PROVE  StandsFor(<<"dq">> \o t \o <<"dq">>, v)
<1> DEFINE n == Len(t)
           b == Append(t, "dq")
           q == <<"dq">> \o t \o <<"dq">>
<1>1. /\ t \in Seq(Plain) /\ t \in Seq(Text!Chars) /\ n \in Nat
      /\ "dq" \in Plain /\ "dq" \in Text!Chars
  BY PlainIsText, LenProperties DEF Reads, Plain, Text!Chars
<1>2. /\ b \in Seq(Plain) /\ Len(b) = n + 1 /\ b[n + 1] = "dq" /\ \A i \in 1..n : b[i] = t[i]
  BY <1>1, AppendProperties
<1>3. <<"dq">> \in Seq(Plain) /\ Len(<<"dq">>) = 1 /\ <<"dq">>[1] = "dq"
  BY <1>1
<1>4. q = <<"dq">> \o b
  <2>1. q = <<"dq">> \o (t \o <<"dq">>)
    BY <1>1, <1>3, ConcatAssociative
  <2> QED BY <1>1, <2>1, AppendIsConcat
<1> HIDE DEF q, b
<1>5. /\ q \in Seq(Plain) /\ Len(q) = n + 2 /\ q[1] = "dq"
      /\ \A i \in 1..n + 1 : q[i + 1] = b[i]
  <2>1. /\ q \in Seq(Plain) /\ Len(q) = 1 + (n + 1)
        /\ \A i \in 1..1 + (n + 1) : q[i] = IF i <= 1 THEN <<"dq">>[i] ELSE b[i - 1]
    BY <1>2, <1>3, <1>4, ConcatProperties
  <2>2. 1 \in 1..1 + (n + 1)
    BY <1>1
  <2>3. ASSUME NEW i \in 1..n + 1 PROVE q[i + 1] = b[i]
    <3>1. i + 1 \in 1..1 + (n + 1) /\ ~(i + 1 <= 1) /\ (i + 1) - 1 = i
      BY <1>1
    <3> QED BY <2>1, <3>1
  <2> QED BY <1>1, <1>3, <2>1, <2>2, <2>3
<1>6. q \in Seq(Text!Chars) /\ b \in Seq(Text!Chars) /\ DOMAIN q = 1..n + 2 /\ DOMAIN b = 1..n + 1
  BY <1>2, <1>5, PlainIsText, LenProperties
<1>7. q[n + 2] = "dq"
  <2>1. n + 1 \in 1..n + 1 /\ (n + 1) + 1 = n + 2
    BY <1>1
  <2> QED BY <1>2, <1>5, <2>1
<1>8. Text!After(q, 1) = b
  <2> DEFINE a == SubSeq(q, 1 + 1, Len(q))
  <2>1. /\ a \in Seq(Text!Chars) /\ Len(a) = n + 1
        /\ \A i \in 1..n + 1 : a[i] = q[i + 1]
    <3>1. 1 + 1 \in Nat \ {0} /\ n + 2 \in Nat /\ n + 2 <= Len(q)
      BY <1>1, <1>5
    <3>2. /\ SubSeq(q, 1 + 1, n + 2) \in Seq(Text!Chars)
          /\ Len(SubSeq(q, 1 + 1, n + 2)) = IF 1 + 1 <= n + 2 THEN (n + 2) - (1 + 1) + 1 ELSE 0
          /\ \A i \in 1..(n + 2) - (1 + 1) + 1 :
                SubSeq(q, 1 + 1, n + 2)[i] = q[(1 + 1) + i - 1]
      BY <1>6, <3>1, Slice
    <3>3. (n + 2) - (1 + 1) + 1 = n + 1 /\ \A i \in 1..n + 1 : (1 + 1) + i - 1 = i + 1
      BY <1>1
    <3> QED BY <1>1, <1>5, <3>2, <3>3
  <2>2. \A i \in 1..Len(a) : a[i] = b[i]
    BY <1>5, <2>1
  <2> HIDE DEF a
  <2>3. a = b
    BY <1>2, <1>6, <2>1, <2>2, SeqEqual
  <2> QED BY <2>3 DEF a, Text!After
<1>9. Text!closingQuote(q) = n + 2
  <2> DEFINE ends == {i \in DOMAIN b : b[i] = "dq" /\ i - 1 \notin Text!escapes(b)}
  <2>1. \A i \in 0..n : i \in Text!escapes(t) <=> i \in Text!escapes(b)
    <3>1. n <= Len(t) /\ n <= Len(b) /\ \A i \in 1..n : t[i] = b[i]
      BY <1>1, <1>2
    <3> QED BY <1>1, <1>6, <3>1, EscapesAgree
  <2>2. n \notin Text!escapes(t) /\ \A i \in 1..n : t[i] = "dq" => i - 1 \in Text!escapes(t)
    BY <1>1 DEF Reads
  <2>3. ASSUME NEW i \in 1..n PROVE i \notin ends
    <3>1. i - 1 \in 0..n
      BY <1>1
    <3> QED BY <1>2, <2>1, <2>2, <3>1
  <2>4. n + 1 \in ends
    <3>1. n + 1 \in 1..n + 1 /\ (n + 1) - 1 = n /\ n \in 0..n
      BY <1>1
    <3> QED BY <1>2, <1>6, <2>1, <2>2, <3>1
  <2>5. ends \subseteq 1..n + 1
    BY <1>6
  <2>6. Text!closingQuote(q) = IF ends = {} THEN 0 ELSE 1 + Text!Min(ends)
    BY <1>8 DEF Text!closingQuote
  <2> HIDE DEF ends
  <2>7. ASSUME NEW y \in ends PROVE n + 1 <= y
    <3>1. y \in 1..n + 1 /\ y \notin 1..n
      BY <2>3, <2>5
    <3> QED BY <1>1, <3>1
  <2>8. Text!Min(ends) = n + 1
    <3>1. ends \in SUBSET Nat
      BY <2>5
    <3> QED BY <2>4, <2>7, <3>1, MinIs
  <2> QED BY <1>1, <2>4, <2>6, <2>8
<1>10. Text!withoutComment(q) = q
  <2>1. 1 \in 1..n + 2
    BY <1>1
  <2>2. Text!IsAt(q, 1, "dq")
    BY <1>5, <1>6, <2>1 DEF Text!IsAt
  <2>3. Text!withoutComment(q) = Text!Quoted(q, n + 2)
    BY <1>9, <2>2 DEF Text!withoutComment
  <2>4. Text!Quoted(q, n + 2) = SubSeq(q, 1, Len(q))
    <3>1. n + 2 # 0
      BY <1>1
    <3> QED BY <1>5, <3>1 DEF Text!Quoted
  <2> QED BY <1>5, <2>3, <2>4, SubSeqFull
<1>11. Text!unquote(q) = v
  <2>1. 1 \in 1..n + 2 /\ n + 2 \in 1..n + 2 /\ n + 2 >= 2
    BY <1>1
  <2>2. ~Text!Between(q, "sq") /\ Text!Between(q, "dq")
    BY <1>5, <1>6, <1>7, <2>1 DEF Text!Between, Text!IsAt
  <2> DEFINE a == SubSeq(q, 2, Len(q) - 1)
  <2>3. /\ a \in Seq(Text!Chars) /\ Len(a) = n
        /\ \A i \in 1..n : a[i] = q[i + 1]
    <3>1. 2 \in Nat \ {0} /\ n + 1 \in Nat /\ n + 1 <= Len(q) /\ Len(q) - 1 = n + 1
      BY <1>1, <1>5
    <3>2. /\ SubSeq(q, 2, n + 1) \in Seq(Text!Chars)
          /\ Len(SubSeq(q, 2, n + 1)) = IF 2 <= n + 1 THEN (n + 1) - 2 + 1 ELSE 0
          /\ \A i \in 1..(n + 1) - 2 + 1 : SubSeq(q, 2, n + 1)[i] = q[2 + i - 1]
      BY <1>6, <3>1, Slice
    <3>3. (n + 1) - 2 + 1 = n /\ \A i \in 1..n : 2 + i - 1 = i + 1
      BY <1>1
    <3> QED BY <1>1, <3>1, <3>2, <3>3
  <2>4. \A i \in 1..Len(a) : a[i] = t[i]
    <3>1. \A i \in 1..n : i \in 1..n + 1
      BY <1>1
    <3> QED BY <1>2, <1>5, <2>3, <3>1
  <2> HIDE DEF a
  <2>5. a = t
    BY <1>1, <2>3, <2>4, SeqEqual
  <2> QED BY <2>2, <2>5 DEF a, Text!unquote, Text!Inner, Reads
<1>12. q # <<>> /\ Tight(q)
  <2>1. q # <<>>
    BY <1>1, <1>5, EmptySeq
  <2> QED BY <1>5, <1>7, <2>1 DEF Tight, Text!Spaces
<1>13. Text!closingQuote(q) # 0
  BY <1>1, <1>9
<1> QED BY <1>5, <1>10, <1>11, <1>12, <1>13 DEF StandsFor, q

\* A value that needs no quotes stands for itself.
LEMMA BareReads ==
  ASSUME NEW v \in Seq(Text!Chars), v # <<>>, Text!ToSet(v) \subseteq {"n", "="}
  PROVE  StandsFor(v, v)
<1>1. Len(v) \in Nat \ {0} /\ DOMAIN v = 1..Len(v)
  BY LenProperties, EmptySeq
<1>2. \A i \in 1..Len(v) : v[i] \in {"n", "="}
  BY <1>1 DEF Text!ToSet
<1>3. v \in Seq(Plain)
  <2>1. v \in [1..Len(v) -> Plain]
    <3>1. v \in [1..Len(v) -> Text!Chars]
      BY LenProperties
    <3>2. \A i \in 1..Len(v) : v[i] \in Plain
      BY <1>2 DEF Plain, Text!Chars
    <3> QED BY <3>1, <3>2
  <2> QED BY <1>1, <2>1, FunctionIsSeq
<1>4. 1 \in 1..Len(v) /\ Len(v) \in 1..Len(v)
  BY <1>1
<1>5. Tight(v)
  BY <1>2, <1>4 DEF Tight, Text!Spaces
<1>6. \A c \in {"dq", "sq", "#"} : ~Text!IsAt(v, 1, c) /\ ~Text!Between(v, c)
  BY <1>2, <1>4 DEF Text!IsAt, Text!Between
<1>7. ASSUME NEW i \in 1..Len(v) PROVE ~Text!IsNote(Text!After(v, i - 1))
  <2> DEFINE rest == SubSeq(v, (i - 1) + 1, Len(v))
  <2>1. /\ rest \in Seq(Text!Chars) /\ Len(rest) = Len(v) - i + 1
        /\ \A k \in 1..Len(v) - i + 1 : rest[k] = v[i + k - 1]
    <3>1. i \in Nat \ {0} /\ Len(v) \in Nat /\ Len(v) <= Len(v) /\ i <= Len(v) /\ (i - 1) + 1 = i
      BY <1>1
    <3>2. /\ SubSeq(v, i, Len(v)) \in Seq(Text!Chars)
          /\ Len(SubSeq(v, i, Len(v))) = IF i <= Len(v) THEN Len(v) - i + 1 ELSE 0
          /\ \A k \in 1..Len(v) - i + 1 : SubSeq(v, i, Len(v))[k] = v[i + k - 1]
      BY <3>1, Slice
    <3> QED BY <3>1, <3>2
  <2> HIDE DEF rest
  <2>2. 1 \in 1..Len(v) - i + 1 /\ i + 1 - 1 = i
    BY <1>1
  <2>3. rest[1] \notin Text!Spaces
    BY <1>2, <2>1, <2>2 DEF Text!Spaces
  <2>4. PICK m \in 1..Len(rest) + 1 :
           /\ Text!trimStart(rest) = SubSeq(rest, m, Len(rest))
           /\ \A k \in 1..m - 1 : rest[k] \in Text!Spaces
    BY <2>1, TrimmedStart
  <2>5. m = 1
    <3> SUFFICES ASSUME m # 1 PROVE FALSE
      OBVIOUS
    <3>1. 1 \in 1..m - 1
      BY <1>1, <2>1
    <3> QED BY <2>3, <2>4, <3>1
  <2>6. Text!trimStart(rest) = rest
    BY <2>1, <2>4, <2>5, SubSeqFull
  <2> QED BY <2>6 DEF rest, Text!IsNote, Text!After
<1>8. Text!Bare(v) = v
  BY <1>1, <1>7 DEF Text!Bare
<1>9. Text!withoutComment(v) = v
  BY <1>6, <1>8 DEF Text!withoutComment
<1>10. Text!unquote(v) = v
  BY <1>6 DEF Text!unquote
<1> QED BY <1>3, <1>5, <1>6, <1>9, <1>10 DEF StandsFor

\* Whatever a value holds, its written form stands for it.
LEMMA QuoteStands ==
  ASSUME NEW v \in Seq(Text!Chars)
  PROVE  StandsFor(Text!quote(v), v)
<1>1. CASE v = <<>>
  <2>1. Text!quote(v) = <<"dq", "dq">>
    BY <1>1 DEF Text!quote
  <2>2. <<"dq">> \o <<>> \o <<"dq">> = <<"dq", "dq">>
    <3>1. "dq" \in Text!Chars /\ <<"dq">> \in Seq(Text!Chars)
      BY DEF Text!Chars
    <3>2. <<"dq">> \o <<>> = <<"dq">>
      BY <3>1, ConcatEmptySeq
    <3>3. <<"dq">> \o <<"dq">> = Append(<<"dq">>, "dq")
      BY <3>1, AppendIsConcat
    <3>4. Append(<<"dq">>, "dq") = <<"dq", "dq">>
      BY Pair
    <3>5. (<<"dq">> \o <<>>) \o <<"dq">> = <<"dq">> \o <<"dq">>
      BY <3>2, Zenon
    <3> QED BY <3>3, <3>4, <3>5, Zenon
  <2> QED BY <1>1, <2>1, <2>2, ReadsNothing, QuotesRead
<1>2. CASE v # <<>> /\ Text!ToSet(v) \subseteq {"n", "="}
  <2>1. Text!quote(v) = v
    BY <1>2 DEF Text!quote
  <2> QED BY <1>2, <2>1, BareReads
<1>3. CASE v # <<>> /\ ~(Text!ToSet(v) \subseteq {"n", "="})
  <2>1. Text!quote(v) = <<"dq">> \o Text!FlattenSeq(Escaped(v)) \o <<"dq">>
    BY <1>3 DEF Text!quote, Escaped
  <2> QED BY <2>1, BodyReads, QuotesRead
<1> QED BY <1>1, <1>2, <1>3

-----------------------------------------------------------------------------
(* What is read, and how it is written. *)

\* The start of a sequence is one of the same elements.
LEMMA CutIsText ==
  ASSUME NEW C, NEW s \in Seq(C), NEW n \in 0..Len(s)
  PROVE  SubSeq(s, 1, n) \in Seq(C)
<1>1. n \in Nat /\ n <= Len(s) /\ 1 \in Nat \ {0}
  BY LenProperties
<1> QED BY <1>1, Slice

\* The value of a line is a text, however it was quoted or commented.
LEMMA ValueIsText ==
  ASSUME NEW raw \in Seq(Text!Chars)
  PROVE  Text!unquote(Text!withoutComment(raw)) \in Seq(Text!Chars)
<1> DEFINE L == Seq(Text!Chars)
           n == Len(raw)
<1>1. n \in Nat /\ DOMAIN raw = 1..n
  BY LenProperties
<1>2. ASSUME NEW end \in 0..n PROVE Text!Quoted(raw, end) \in L
  BY <1>2, CutIsText DEF Text!Quoted
<1>3. ASSUME Text!IsAt(raw, 1, "dq") PROVE Text!closingQuote(raw) \in 0..n
  <2>1. n # 0
    BY <1>1, <1>3 DEF Text!IsAt
  <2> DEFINE body == SubSeq(raw, 1 + 1, n)
             ends == {i \in DOMAIN body : body[i] = "dq" /\ i - 1 \notin Text!escapes(body)}
  <2>2. body \in L /\ Len(body) = n - 1
    <3>1. 1 + 1 \in Nat \ {0} /\ n <= n
      BY <1>1
    <3>2. body \in L /\ Len(body) = IF 1 + 1 <= n THEN n - (1 + 1) + 1 ELSE 0
      BY <1>1, <3>1, Slice
    <3> QED BY <1>1, <2>1, <3>2
  <2>3. ends \subseteq 1..n - 1
    <3>1. DOMAIN body = 1..n - 1
      BY <2>2, LenProperties
    <3> QED BY <3>1
  <2>4. Text!closingQuote(raw) = IF ends = {} THEN 0 ELSE 1 + Text!Min(ends)
    BY DEF Text!closingQuote, Text!After
  <2> HIDE DEF ends
  <2>5. ends # {} => Text!Min(ends) \in 1..n - 1
    <3>1. ends \in SUBSET Nat
      BY <2>3
    <3> QED BY <2>3, <3>1, MinOf
  <2> QED BY <1>1, <2>4, <2>5
<1>4. Text!SelectInSubSeq(raw, 2, n, LAMBDA c : c = "sq") \in 0..n
  <2> DEFINE I == {i \in 2..n : raw[i] = "sq"}
  <2>1. Text!SelectInSubSeq(raw, 2, n, LAMBDA c : c = "sq") = IF I # {} THEN Text!Min(I) ELSE 0
    BY DEF Text!SelectInSubSeq
  <2>2. I \in SUBSET Nat /\ I \subseteq 0..n
    BY <1>1
  <2> HIDE DEF I
  <2> QED BY <1>1, <2>1, <2>2, MinOf
<1>5. Text!Bare(raw) \in L
  <2> DEFINE notes == {i \in DOMAIN raw : Text!IsNote(Text!After(raw, i - 1))}
  <2>1. notes \in SUBSET Nat /\ notes \subseteq 1..n
    BY <1>1
  <2>2. Text!Bare(raw) = IF notes = {} THEN raw ELSE SubSeq(raw, 1, Text!Min(notes) - 1)
    BY DEF Text!Bare
  <2> HIDE DEF notes
  <2>3. ASSUME notes # {} PROVE Text!Min(notes) - 1 \in 0..n
    <3>1. Text!Min(notes) \in 1..n
      BY <2>1, <2>3, MinOf
    <3> QED BY <1>1, <3>1
  <2> QED BY <2>2, <2>3, CutIsText
<1> DEFINE q == Text!withoutComment(raw)
<1>6. q \in L
  <2>1. CASE Text!IsAt(raw, 1, "dq")
    BY <1>2, <1>3, <2>1 DEF Text!withoutComment
  <2>2. CASE ~Text!IsAt(raw, 1, "dq") /\ Text!IsAt(raw, 1, "sq")
    BY <1>2, <1>4, <2>2 DEF Text!withoutComment
  <2>3. CASE ~Text!IsAt(raw, 1, "dq") /\ ~Text!IsAt(raw, 1, "sq")
    BY <1>5, <2>3 DEF Text!withoutComment
  <2> QED BY <2>1, <2>2, <2>3
<1> HIDE DEF q
<1>7. ASSUME Len(q) >= 2 PROVE Text!Inner(q) \in L
  <2>1. 2 \in Nat \ {0} /\ Len(q) - 1 \in Nat /\ Len(q) - 1 <= Len(q)
    BY <1>6, <1>7, LenProperties
  <2> QED BY <1>6, <2>1, Slice DEF Text!Inner
<1>8. ASSUME Text!Between(q, "sq") PROVE Text!unquote(q) \in L
  BY <1>7, <1>8 DEF Text!unquote, Text!Between
<1>9. ASSUME ~Text!Between(q, "sq"), Text!Between(q, "dq") PROVE Text!unquote(q) \in L
  <2>1. Text!Inner(q) \in L
    BY <1>7, <1>9 DEF Text!Between
  <2>2. Text!unescaped(Text!Inner(q)) \in L
    BY <2>1, UnescapedIs
  <2> QED BY <1>9, <2>2 DEF Text!unquote
<1>10. ASSUME ~Text!Between(q, "sq"), ~Text!Between(q, "dq") PROVE Text!unquote(q) \in L
  BY <1>6, <1>10 DEF Text!unquote
<1> QED BY <1>8, <1>9, <1>10 DEF q

\* The keys that can be read: no space at either end, no sign of equality, no line break, and
\* no comment sign in front.
ReadKeys == {k \in Seq(Plain \ {"="}) : Tight(k) /\ (k # <<>> => k[1] # "#")}
\* A row that can be read, an entry, and a state of the reading.
ReadRows == [key : ReadKeys, value : Seq(Text!Chars)]
ReadFound == ReadRows \cup {Text!problem}
ReadStates ==
    [found : Seq(ReadFound), last : [key : ReadKeys, raw : Seq(Text!Chars), open : BOOLEAN]]

\* A key that can be read is a stretch of a line, the empty one too.
LEMMA KeysAreTexts == ReadKeys \subseteq Seq(Plain) /\ <<>> \in ReadKeys
<1>1. Seq(Plain \ {"="}) \subseteq Seq(Plain)
  BY SeqMonotonic
<1>2. <<>> \in Seq(Plain \ {"="})
  BY EmptySeq
<1> QED BY <1>1, <1>2 DEF ReadKeys, Tight

\* A key and a raw value make a row that can be read.
LEMMA RowIsTyped ==
  ASSUME NEW k \in ReadKeys, NEW raw \in Seq(Text!Chars)
  PROVE  Text!Row(k, raw) \in ReadRows
BY ValueIsText DEF Text!Row, ReadRows

\* With no quote open, the reading has no key and no raw value.
LEMMA ClosedIsTyped ==
  Text!Closed \in [key : ReadKeys, raw : Seq(Text!Chars), open : BOOLEAN]
<1>1. <<>> \in ReadKeys /\ <<>> \in Seq(Text!Chars)
  BY KeysAreTexts, EmptySeq
<1> QED BY <1>1 DEF Text!Closed

\* The key of a line is one that can be read, and the rest is a text.
LEMMA LineIsCut ==
  ASSUME NEW line \in Seq(Plain), Tight(line), line # <<>>, ~Text!IsAt(line, 1, "#"),
         NEW e \in 1..Len(line), \A i \in 1..e - 1 : line[i] # "="
  PROVE  /\ Text!trim(SubSeq(line, 1, e - 1)) \in ReadKeys
         /\ Text!trim(Text!After(line, e)) \in Seq(Text!Chars)
<1> DEFINE n == Len(line)
           s == SubSeq(line, 1, e - 1)
           k == Text!trim(s)
<1>1. n \in Nat \ {0} /\ DOMAIN line = 1..n /\ line \in Seq(Text!Chars)
  BY LenProperties, EmptySeq, PlainIsText
<1>2. /\ s \in Seq(Plain) /\ Len(s) = e - 1 /\ \A i \in 1..e - 1 : s[i] = line[i]
  <2>1. 1 \in Nat \ {0} /\ e - 1 \in Nat /\ e - 1 <= n
    BY <1>1
  <2>2. /\ s \in Seq(Plain) /\ Len(s) = IF 1 <= e - 1 THEN e - 1 - 1 + 1 ELSE 0
        /\ \A i \in 1..e - 1 - 1 + 1 : s[i] = line[1 + i - 1]
    BY <2>1, Slice
  <2>3. (IF 1 <= e - 1 THEN e - 1 - 1 + 1 ELSE 0) = e - 1 /\ e - 1 - 1 + 1 = e - 1
    BY <1>1
  <2>4. \A i \in 1..e - 1 : 1 + i - 1 = i
    OBVIOUS
  <2> HIDE DEF s
  <2> QED BY <2>2, <2>3, <2>4
<1>3. s \in Seq(Text!Chars)
  BY <1>2, PlainIsText
<1> HIDE DEF s, k
<1>4. PICK d \in Nat :
         /\ k \in Seq(Text!Chars) /\ Tight(k)
         /\ d + Len(k) <= Len(s) /\ \A i \in 1..Len(k) : k[i] = s[d + i]
         /\ s # <<>> /\ s[1] \notin Text!Spaces => d = 0
  BY <1>3, TrimIs DEF k
<1>5. Len(k) \in Nat /\ DOMAIN k = 1..Len(k)
  BY <1>4, LenProperties
<1>6. ASSUME NEW i \in 1..Len(k) PROVE k[i] \in Plain \ {"="}
  <2>1. d + i \in 1..e - 1 /\ d + i \in 1..n
    BY <1>1, <1>2, <1>4, <1>5
  <2>2. k[i] = line[d + i]
    BY <1>2, <1>4, <2>1
  <2> QED BY <2>1, <2>2, ElementOfSeq
<1>7. k \in Seq(Plain \ {"="})
  <2>1. k \in [1..Len(k) -> Plain \ {"="}]
    <3>1. k \in [1..Len(k) -> Text!Chars]
      BY <1>4, LenProperties
    <3> QED BY <1>6, <3>1
  <2> QED BY <1>5, <2>1, FunctionIsSeq
<1>8. ASSUME k # <<>> PROVE k[1] # "#"
  <2>1. 1 \in 1..Len(k) /\ 1 \in 1..n
    BY <1>1, <1>4, <1>5, <1>8, EmptySeq
  <2>2. Len(s) # 0 /\ 1 \in 1..e - 1
    BY <1>2, <1>4, <2>1
  <2>3. s # <<>> /\ s[1] = line[1]
    BY <1>2, <2>2, EmptySeq
  <2>4. line[1] \notin Text!Spaces /\ line[1] # "#"
    BY <1>1, <2>1 DEF Tight, Text!IsAt
  <2>5. k[1] = s[0 + 1]
    BY <1>4, <2>1, <2>3, <2>4
  <2> QED BY <2>3, <2>4, <2>5
<1>9. Text!trim(Text!After(line, e)) \in Seq(Text!Chars)
  <2>1. e + 1 \in Nat \ {0} /\ n <= n /\ n \in Nat
    BY <1>1
  <2>2. SubSeq(line, e + 1, n) \in Seq(Text!Chars)
    BY <1>1, <2>1, Slice
  <2> QED BY <2>2, TrimIs DEF Text!After
<1> QED BY <1>4, <1>7, <1>8, <1>9 DEF ReadKeys, k, s

\* A line that cannot be read is not taken for a row.
LEMMA ProblemIsNoRow == \A r \in ReadRows : r # Text!problem
<1> SUFFICES ASSUME NEW r \in ReadRows PROVE r # Text!problem
  OBVIOUS
<1>1. "key" \in DOMAIN r
  BY DEF ReadRows
<1>2. "key" \notin DOMAIN Text!problem
  BY DEF Text!problem
<1> QED BY <1>1, <1>2

\* One line of the text, in the state of the reading before it.
readLine(state, line) ==
    IF state.last.open THEN Text!RunsOn(state.found, state.last, line)
    ELSE Text!Fresh(state.found, Text!trim(line))
\* The same as a function, and the state before the first line.
ReadLine == [p \in ReadStates \X Seq(Plain) |-> readLine(p[1], p[2])]
ReadStart == [found |-> <<>>, last |-> Text!Closed]

\* A trimmed line is a tight line.
LEMMA TrimOfPlain ==
  ASSUME NEW line \in Seq(Plain)
  PROVE  Text!trim(line) \in Seq(Plain) /\ Tight(Text!trim(line))
<1> DEFINE t == Text!trim(line)
<1>1. line \in Seq(Text!Chars)
  BY PlainIsText
<1>2. PICK k \in Nat :
         /\ t \in Seq(Text!Chars) /\ Tight(t) /\ k + Len(t) <= Len(line)
         /\ \A i \in 1..Len(t) : t[i] = line[k + i]
  BY <1>1, TrimIs
<1>3. Len(t) \in Nat /\ Len(line) \in Nat
  BY <1>2, LenProperties
<1> HIDE DEF t
<1>4. ASSUME NEW i \in 1..Len(t) PROVE t[i] \in Plain
  <2>1. k + i \in 1..Len(line)
    BY <1>2, <1>3
  <2> QED BY <1>2, <2>1, ElementOfSeq
<1>5. t \in [1..Len(t) -> Plain]
  <2>1. t \in [1..Len(t) -> Text!Chars]
    BY <1>2, LenProperties
  <2> QED BY <1>4, <2>1
<1>6. t \in Seq(Plain)
  BY <1>3, <1>5, FunctionIsSeq
<1> QED BY <1>2, <1>6 DEF t

\* One line more leaves a state of the reading.
LEMMA ReadLineIsTyped ==
  ASSUME NEW state \in ReadStates, NEW line \in Seq(Plain)
  PROVE  readLine(state, line) \in ReadStates /\ ReadLine[<<state, line>>] = readLine(state, line)
<1> DEFINE Lasts == [key : ReadKeys, raw : Seq(Text!Chars), open : BOOLEAN]
<1>1. /\ state.found \in Seq(ReadFound) /\ state.last \in Lasts /\ state.last.key \in ReadKeys
      /\ state.last.raw \in Seq(Text!Chars) /\ state.last.open \in BOOLEAN
  BY DEF ReadStates
<1>2. \A f \in Seq(ReadFound), l \in Lasts : [found |-> f, last |-> l] \in ReadStates
  BY DEF ReadStates
<1>3. \A k \in ReadKeys, raw \in Seq(Text!Chars) :
         Append(state.found, Text!Row(k, raw)) \in Seq(ReadFound)
  <2> SUFFICES ASSUME NEW k \in ReadKeys, NEW raw \in Seq(Text!Chars)
               PROVE  Append(state.found, Text!Row(k, raw)) \in Seq(ReadFound)
    OBVIOUS
  <2>1. Text!Row(k, raw) \in ReadFound
    BY RowIsTyped DEF ReadFound
  <2> QED BY <1>1, <2>1, AppendProperties
<1>4. Append(state.found, Text!problem) \in Seq(ReadFound)
  BY <1>1, AppendProperties DEF ReadFound
<1>5. Text!Closed \in Lasts
  BY ClosedIsTyped
<1>6. ASSUME state.last.open PROVE Text!RunsOn(state.found, state.last, line) \in ReadStates
  <2> DEFINE raw == state.last.raw \o <<"newline">> \o Text!trimEnd(line)
  <2>1. raw \in Seq(Text!Chars)
    <3>1. line \in Seq(Text!Chars) /\ <<"newline">> \in Seq(Text!Chars)
      BY PlainIsText DEF Text!Chars
    <3>2. PICK n \in 0..Len(line) : Text!trimEnd(line) = SubSeq(line, 1, n)
      BY <3>1, TrimmedEnd
    <3>3. Text!trimEnd(line) \in Seq(Text!Chars)
      BY <3>1, <3>2, CutIsText
    <3>4. state.last.raw \o <<"newline">> \in Seq(Text!Chars)
      BY <1>1, <3>1, ConcatProperties
    <3> QED BY <3>3, <3>4, ConcatProperties
  <2> HIDE DEF raw
  <2>2. [state.last EXCEPT !.raw = raw] \in Lasts
    BY <1>1, <2>1
  <2>3. /\ [found |-> state.found, last |-> [state.last EXCEPT !.raw = raw]] \in ReadStates
        /\ [found |-> Append(state.found, Text!Row(state.last.key, raw)), last |-> Text!Closed]
              \in ReadStates
    BY <1>1, <1>2, <1>3, <1>5, <2>1, <2>2
  <2> QED BY <2>3 DEF Text!RunsOn, raw
<1>7. Text!Fresh(state.found, Text!trim(line)) \in ReadStates
  <2> DEFINE t == Text!trim(line)
             I == {i \in 1..Len(t) : t[i] = "="}
             e == IF I # {} THEN Text!Min(I) ELSE 0
             key == Text!trim(SubSeq(t, 1, e - 1))
             raw == Text!trim(Text!After(t, e))
  <2>1. t \in Seq(Plain) /\ Tight(t) /\ Len(t) \in Nat
    BY TrimOfPlain, LenProperties
  <2>2. Text!SelectInSeq(t, LAMBDA c : c = "=") = e
    BY DEF Text!SelectInSeq
  <2>3. Text!Fresh(state.found, t) =
           IF t = <<>> \/ Text!IsAt(t, 1, "#")
             THEN [found |-> state.found, last |-> Text!Closed]
           ELSE IF e = 0
             THEN [found |-> Append(state.found, Text!problem), last |-> Text!Closed]
           ELSE IF Text!IsAt(raw, 1, "dq") /\ Text!closingQuote(raw) = 0
             THEN [found |-> state.found, last |-> [key |-> key, raw |-> raw, open |-> TRUE]]
           ELSE [found |-> Append(state.found, Text!Row(key, raw)), last |-> Text!Closed]
    BY DEF Text!Fresh, Text!SelectInSeq
  <2>4. ASSUME e # 0, t # <<>>, ~Text!IsAt(t, 1, "#")
        PROVE  key \in ReadKeys /\ raw \in Seq(Text!Chars)
    <3> HIDE DEF t
    <3>1. I \in SUBSET Nat /\ I # {} /\ e = Text!Min(I)
      BY <2>4
    <3>2. e \in I /\ \A y \in I : e <= y
      BY <3>1, MinOf
    <3> HIDE DEF e
    <3>3. e \in 1..Len(t)
      BY <3>2
    <3>4. ASSUME NEW i \in 1..e - 1 PROVE t[i] # "="
      <4>1. i \in 1..Len(t) /\ ~(e <= i)
        BY <2>1, <3>3
      <4> QED BY <3>2, <4>1
    <3> HIDE DEF I
    <3> QED BY <2>1, <2>4, <3>3, <3>4, LineIsCut
  <2> HIDE DEF t, e, key, raw
  <2>5. e # 0 /\ t # <<>> /\ ~Text!IsAt(t, 1, "#") =>
           [key |-> key, raw |-> raw, open |-> TRUE] \in Lasts
    BY <2>4
  <2> HIDE DEF Lasts
  <2> QED BY <1>1, <1>2, <1>3, <1>4, <1>5, <2>3, <2>4, <2>5 DEF t
<1>8. readLine(state, line) \in ReadStates
  BY <1>6, <1>7 DEF readLine
<1> QED BY <1>8 DEF ReadLine

\* The reading of the lines ls ends in this state.
ReadsTo(ls, state) ==
    \E f : Folds(ReadStates, ReadLine, ReadStart, ls, f) /\ state = f[Len(ls)]

\* Its step is a function of the states and the lines.
LEMMA ReadLineIsStep ==
  /\ ReadLine \in [ReadStates \X Seq(Plain) -> ReadStates]
  /\ ReadStart \in ReadStates
<1>1. ReadLine \in [ReadStates \X Seq(Plain) -> ReadStates]
  BY ReadLineIsTyped DEF ReadLine
<1>2. <<>> \in Seq(ReadFound)
  BY EmptySeq
<1> QED BY <1>1, <1>2, ClosedIsTyped DEF ReadStart, ReadStates

\* The reading starts, ends somewhere for every text, and takes one line after the other.
LEMMA ReadsOn ==
  /\ ReadsTo(<<>>, ReadStart)
  /\ \A ls \in Seq(Seq(Plain)) : \E state \in ReadStates : ReadsTo(ls, state)
  /\ \A ls \in Seq(Seq(Plain)), line \in Seq(Plain), state \in ReadStates :
        ReadsTo(ls, state) => ReadsTo(Append(ls, line), readLine(state, line))
<1>1. ASSUME NEW ls \in Seq(Seq(Plain))
      PROVE  \E f : Folds(ReadStates, ReadLine, ReadStart, ls, f) /\ f[Len(ls)] \in ReadStates
  <2>1. PICK it : Folds(ReadStates, ReadLine, ReadStart, ls, Prefixes(it, ls))
    BY ReadLineIsStep, FoldsExist
  <2>2. Len(ls) \in 0..Len(ls)
    BY LenProperties
  <2> QED BY <2>1, <2>2 DEF Folds
<1>2. ReadsTo(<<>>, ReadStart)
  <2>1. <<>> \in Seq(Seq(Plain)) /\ Len(<<>>) = 0
    BY EmptySeq
  <2>2. PICK f : Folds(ReadStates, ReadLine, ReadStart, <<>>, f)
    BY <1>1, <2>1
  <2>3. f[0] = ReadStart
    BY <2>2 DEF Folds
  <2> QED BY <2>1, <2>2, <2>3 DEF ReadsTo
<1>3. ASSUME NEW ls \in Seq(Seq(Plain)), NEW line \in Seq(Plain), NEW state \in ReadStates,
             ReadsTo(ls, state)
      PROVE  ReadsTo(Append(ls, line), readLine(state, line))
  <2>1. PICK f : Folds(ReadStates, ReadLine, ReadStart, ls, f) /\ state = f[Len(ls)]
    BY <1>3 DEF ReadsTo
  <2> DEFINE t == Append(ls, line)
  <2>2. t \in Seq(Seq(Plain))
    BY AppendProperties
  <2>3. PICK g : Folds(ReadStates, ReadLine, ReadStart, t, g)
    BY <1>1, <2>2
  <2>4. g[Len(t)] = ReadLine[<<f[Len(ls)], line>>]
    BY <2>1, <2>3, FoldGrows
  <2>5. g[Len(t)] = readLine(state, line)
    BY <2>1, <2>4, ReadLineIsTyped
  <2> HIDE DEF t
  <2>6. ReadsTo(t, readLine(state, line))
    BY <2>3, <2>5 DEF ReadsTo
  <2> QED BY <2>6 DEF t
<1>4. ASSUME NEW ls \in Seq(Seq(Plain)) PROVE \E state \in ReadStates : ReadsTo(ls, state)
  BY <1>1 DEF ReadsTo
<1> QED BY <1>2, <1>3, <1>4

\* The entries of a text are those of the state its lines end in, and an open quote is a problem.
LEMMA EntriesAre ==
  ASSUME NEW s, NEW ls \in Seq(Seq(Plain)), Text!lines(s) = ls, NEW state, ReadsTo(ls, state)
  PROVE  Text!entries(s) =
            IF state.last.open THEN Append(state.found, Text!problem) ELSE state.found
<1> DEFINE W(it) == it = [S \in SUBSET DOMAIN ls |->
                       IF S = {} THEN ReadStart
                       ELSE LET x == Text!Max(S) IN readLine(it[S \ {x}], ls[x])]
           j == CHOOSE it : W(it)
           n == Len(ls)
<1>1. DOMAIN ls = 1..n /\ n \in Nat /\ \A i \in 1..n : ls[i] \in Seq(Plain)
  BY LenProperties, ElementOfSeq
<1>2. Text!entries(s) = LET r == j[DOMAIN ls]
                        IN IF r.last.open THEN Append(r.found, Text!problem) ELSE r.found
  BY DEF Text!entries, Text!FoldLeft, Text!MapThenFoldSet, readLine, ReadStart
<1>3. PICK it : /\ IsFold(ReadLine, ReadStart, ls, it)
                /\ \A S \in SUBSET DOMAIN ls : it[S] \in ReadStates
  BY ReadLineIsStep, FoldsExist
<1> HIDE DEF j, n
<1>4. ASSUME NEW S \in SUBSET DOMAIN ls
      PROVE  it[S] = IF S = {} THEN ReadStart
                     ELSE LET x == Text!Max(S) IN readLine(it[S \ {x}], ls[x])
  <2>1. it[S] = IF S = {} THEN ReadStart
                ELSE ReadLine[<<it[S \ {Text!Max(S)}], ls[Text!Max(S)]>>]
    BY <1>3 DEF IsFold
  <2>2. CASE S # {}
    <3> DEFINE m == Text!Max(S)
    <3>1. m \in DOMAIN ls
      BY <1>1, <2>2, MaxOf
    <3> HIDE DEF m
    <3>2. ls[m] \in Seq(Plain) /\ it[S \ {m}] \in ReadStates
      BY <1>1, <1>3, <3>1
    <3>3. ReadLine[<<it[S \ {m}], ls[m]>>] = readLine(it[S \ {m}], ls[m])
      BY <3>2, ReadLineIsTyped
    <3> QED BY <2>1, <2>2, <3>3 DEF m
  <2> QED BY <2>1, <2>2
<1>5. W(it)
  <2>1. it = [S \in SUBSET DOMAIN ls |-> it[S]]
    BY <1>3 DEF IsFold
  <2> QED BY <1>4, <2>1
<1>6. W(j)
  BY <1>5 DEF j
<1>7. Along(ReadStates, ReadLine, ReadStart, ls, j)
  <2>1. j[{}] = ReadStart
    BY <1>6
  <2>2. ASSUME NEW k \in 1..Len(ls), j[1..k - 1] \in ReadStates
        PROVE  j[1..k] = ReadLine[<<j[1..k - 1], ls[k]>>]
    <3>1. /\ 1..k \in SUBSET (1..n) /\ 1..k # {} /\ k \in 1..n
          /\ Text!Max(1..k) = k /\ (1..k) \ {k} = 1..k - 1
      BY <1>1, <2>2, UpTo DEF n
    <3>2. j[1..k] = readLine(j[(1..k) \ {Text!Max(1..k)}], ls[Text!Max(1..k)])
      BY <1>1, <1>6, <3>1
    <3>3. j[1..k] = readLine(j[1..k - 1], ls[k]) /\ ls[k] \in Seq(Plain)
      BY <1>1, <3>1, <3>2
    <3> QED BY <2>2, <3>3, ReadLineIsTyped
  <2> QED BY <2>1, <2>2 DEF Along
<1> DEFINE g == Prefixes(j, ls)
<1>8. Folds(ReadStates, ReadLine, ReadStart, ls, g)
  BY <1>7, ReadLineIsStep, AlongFolds
<1>9. g[n] = j[DOMAIN ls]
  BY <1>1 DEF Prefixes, n
<1>10. PICK f : Folds(ReadStates, ReadLine, ReadStart, ls, f) /\ state = f[n]
  BY DEF ReadsTo, n
<1> HIDE DEF g
<1>11. f[n] = g[n]
  <2>1. n <= Len(ls) /\ Len(ls) \in Nat
    BY <1>1 DEF n
  <2> QED BY <1>1, <1>8, <1>10, <2>1, FoldsAgree
<1> QED BY <1>2, <1>9, <1>10, <1>11

\* The line a row is written as.
RowLine(row) == row.key \o <<"=">> \o Text!quote(row.value)

\* It is one line, and the value's written form stands for the value.
LEMMA RowLineIs ==
  ASSUME NEW row \in ReadRows
  PROVE  /\ row.key \in Seq(Plain) /\ row.value \in Seq(Text!Chars)
         /\ Text!quote(row.value) \in Seq(Plain)
         /\ RowLine(row) \in Seq(Plain)
BY KeysAreTexts, QuoteStands, ConcatProperties, "=" \in Plain, <<"=">> \in Seq(Plain)
   DEF ReadRows, StandsFor, RowLine, Plain, Text!Chars

\* The line a row is written as is read as that row.
LEMMA RowIsRead ==
  ASSUME NEW row \in ReadRows, NEW found
  PROVE  Text!Fresh(found, Text!trim(RowLine(row)))
            = [found |-> Append(found, row), last |-> Text!Closed]
<1> DEFINE key == row.key
           v == row.value
           q == Text!quote(v)
           line == RowLine(row)
           k == Len(key)
           m == Len(q)
           n == Len(line)
<1>1. /\ key \in ReadKeys /\ key \in Seq(Plain) /\ key \in Seq(Plain \ {"="}) /\ Tight(key)
      /\ (key # <<>> => key[1] # "#") /\ v \in Seq(Text!Chars) /\ line \in Seq(Plain)
  BY RowLineIs DEF ReadRows, ReadKeys
<1>2. /\ q \in Seq(Plain) /\ q # <<>> /\ Tight(q)
      /\ ~(Text!IsAt(q, 1, "dq") /\ Text!closingQuote(q) = 0)
      /\ Text!unquote(Text!withoutComment(q)) = v
  BY <1>1, QuoteStands DEF StandsFor
<1>3. /\ k \in Nat /\ m \in Nat \ {0} /\ (k = 0 <=> key = <<>>)
      /\ \A i \in 1..k : key[i] \in Plain \ {"="}
  BY <1>1, <1>2, LenProperties, EmptySeq, ElementOfSeq
<1> HIDE DEF key, v, q
<1>4. /\ n = k + 1 + m /\ line[k + 1] = "="
      /\ \A i \in 1..k : line[i] = key[i]
      /\ \A i \in 1..m : line[k + 1 + i] = q[i]
  <2> DEFINE a == key \o <<"=">>
  <2>1. <<"=">> \in Seq(Plain) /\ Len(<<"=">>) = 1 /\ <<"=">>[1] = "="
    BY DEF Plain, Text!Chars
  <2>2. /\ a \in Seq(Plain) /\ Len(a) = k + 1
        /\ \A i \in 1..k + 1 : a[i] = IF i <= k THEN key[i] ELSE <<"=">>[i - k]
    BY <1>1, <2>1, ConcatProperties
  <2>3. line = a \o q
    BY DEF RowLine, key, q, v
  <2> HIDE DEF a
  <2>4. /\ Len(a \o q) = Len(a) + m
        /\ \A i \in 1..Len(a) + m : (a \o q)[i] = IF i <= Len(a) THEN a[i] ELSE q[i - Len(a)]
    <3>1. a \in Seq(Plain) /\ q \in Seq(Plain) /\ m = Len(q)
      BY <1>2, <2>2 DEF m
    <3> HIDE DEF m
    <3>2. /\ Len(a \o q) = Len(a) + Len(q)
          /\ \A i \in 1..Len(a) + Len(q) :
                (a \o q)[i] = IF i <= Len(a) THEN a[i] ELSE q[i - Len(a)]
      BY <3>1, ConcatProperties
    <3> QED BY <3>1, <3>2
  <2> HIDE DEF line
  <2>5. \A i \in 1..k + 1 + m : line[i] = IF i <= k + 1 THEN a[i] ELSE q[i - (k + 1)]
    BY <1>3, <2>2, <2>3, <2>4
  <2>6. n = k + 1 + m
    BY <2>2, <2>3, <2>4
  <2>7. line[k + 1] = "="
    <3>1. k + 1 \in 1..k + 1 + m /\ k + 1 \in 1..k + 1 /\ ~(k + 1 <= k) /\ (k + 1) - k = 1
      BY <1>3
    <3> QED BY <2>1, <2>2, <2>5, <3>1
  <2>8. ASSUME NEW i \in 1..k PROVE line[i] = key[i]
    <3>1. i \in 1..k + 1 + m /\ i \in 1..k + 1 /\ i <= k + 1 /\ i <= k
      BY <1>3
    <3> QED BY <2>2, <2>5, <3>1
  <2>9. ASSUME NEW i \in 1..m PROVE line[k + 1 + i] = q[i]
    <3>1. k + 1 + i \in 1..k + 1 + m /\ ~(k + 1 + i <= k + 1) /\ (k + 1 + i) - (k + 1) = i
      BY <1>3
    <3> QED BY <2>5, <3>1
  <2> QED BY <2>6, <2>7, <2>8, <2>9
<1> HIDE DEF line, n, k, m
<1>5. n \in Nat \ {0} /\ DOMAIN line = 1..n /\ line # <<>> /\ line \in Seq(Text!Chars)
  <2>1. n \in Nat \ {0}
    BY <1>3, <1>4
  <2>2. line \in Seq(Text!Chars)
    BY <1>1, PlainIsText
  <2> QED BY <1>1, <2>1, <2>2, LenProperties, EmptySeq DEF n
<1>6. line[1] \notin Text!Spaces /\ line[1] # "#"
  <2>1. CASE k = 0
    BY <1>3, <1>4, <2>1 DEF Text!Spaces
  <2>2. CASE k # 0
    <3>1. 1 \in 1..k /\ key # <<>>
      BY <1>3, <2>2
    <3> QED BY <1>1, <1>4, <3>1 DEF Tight
  <2> QED BY <2>1, <2>2
<1>7. line[n] \notin Text!Spaces
  <2>1. m \in 1..m /\ n = k + 1 + m
    BY <1>3, <1>4
  <2>2. line[n] = q[m]
    BY <1>4, <2>1
  <2> QED BY <1>2, <2>2 DEF Tight, m
<1>8. Text!trim(line) = line
  BY <1>5, <1>6, <1>7, TrimKeeps DEF Tight, n
<1>9. Text!SelectInSeq(line, LAMBDA c : c = "=") = k + 1
  <2> DEFINE I == {i \in 1..n : line[i] = "="}
  <2>1. I \in SUBSET Nat /\ k + 1 \in I
    <3>1. k + 1 \in 1..n
      BY <1>3, <1>4
    <3> QED BY <1>4, <3>1
  <2>2. ASSUME NEW y \in I PROVE k + 1 <= y
    <3> SUFFICES ASSUME ~(k + 1 <= y) PROVE FALSE
      OBVIOUS
    <3>1. y \in 1..k
      BY <1>3, <1>5
    <3> QED BY <1>3, <1>4, <3>1
  <2>3. Text!SelectInSeq(line, LAMBDA c : c = "=") = IF I # {} THEN Text!Min(I) ELSE 0
    BY DEF Text!SelectInSeq, n
  <2> HIDE DEF I
  <2>4. Text!Min(I) = k + 1
    BY <2>1, <2>2, MinIs
  <2> QED BY <2>1, <2>3, <2>4
<1>10. SubSeq(line, 1, k + 1 - 1) = key
  <2> DEFINE a == SubSeq(line, 1, k)
  <2>1. a \in Seq(Plain) /\ Len(a) = k /\ \A i \in 1..k : a[i] = line[i]
    <3>1. 1 \in Nat \ {0} /\ k \in Nat /\ k <= Len(line)
      BY <1>3, <1>4 DEF n
    <3>2. /\ a \in Seq(Plain) /\ Len(a) = IF 1 <= k THEN k - 1 + 1 ELSE 0
          /\ \A i \in 1..k - 1 + 1 : a[i] = line[1 + i - 1]
      BY <1>1, <3>1, Slice
    <3>3. (IF 1 <= k THEN k - 1 + 1 ELSE 0) = k /\ k - 1 + 1 = k /\ \A i \in 1..k : 1 + i - 1 = i
      BY <1>3
    <3> HIDE DEF a
    <3> QED BY <3>2, <3>3
  <2> HIDE DEF a
  <2>2. a = key
    BY <1>1, <1>4, <2>1, SeqEqual DEF k
  <2>3. k + 1 - 1 = k
    BY <1>3
  <2> QED BY <2>2, <2>3 DEF a
<1>11. Text!After(line, k + 1) = q
  <2> DEFINE a == SubSeq(line, (k + 1) + 1, Len(line))
  <2>1. a \in Seq(Plain) /\ Len(a) = m /\ \A i \in 1..m : a[i] = line[k + 1 + i]
    <3>1. k + 2 \in Nat \ {0} /\ n \in Nat /\ n <= Len(line) /\ (k + 1) + 1 = k + 2
      BY <1>3, <1>5 DEF n
    <3>2. /\ SubSeq(line, k + 2, n) \in Seq(Plain)
          /\ Len(SubSeq(line, k + 2, n)) = IF k + 2 <= n THEN n - (k + 2) + 1 ELSE 0
          /\ \A i \in 1..n - (k + 2) + 1 : SubSeq(line, k + 2, n)[i] = line[k + 2 + i - 1]
      BY <1>1, <3>1, Slice
    <3>3. k + 2 <= n /\ n - (k + 2) + 1 = m /\ \A i \in 1..m : k + 2 + i - 1 = k + 1 + i
      BY <1>3, <1>4
    <3> QED BY <3>1, <3>2, <3>3 DEF n
  <2> HIDE DEF a
  <2>2. a = q
    BY <1>2, <1>4, <2>1, SeqEqual DEF m
  <2> QED BY <2>2 DEF a, Text!After
<1>12. Text!trim(key) = key /\ Text!trim(q) = q
  <2>1. key \in Seq(Text!Chars) /\ q \in Seq(Text!Chars)
    BY <1>1, <1>2, PlainIsText
  <2> QED BY <1>1, <1>2, <2>1, TrimKeeps
<1>13. Text!Row(key, q) = row
  <2>1. row = [key |-> row.key, value |-> row.value]
    BY DEF ReadRows
  <2> QED BY <1>2, <2>1 DEF Text!Row, key, v
<1>14. ~Text!IsAt(line, 1, "#")
  BY <1>6 DEF Text!IsAt
<1>15. k + 1 # 0
  BY <1>3
<1>16. Text!Fresh(found, line) = [found |-> Append(found, row), last |-> Text!Closed]
  <2> DEFINE e == Text!SelectInSeq(line, LAMBDA c : c = "=")
  <2>1. Text!Fresh(found, line) =
           LET key2 == Text!trim(SubSeq(line, 1, e - 1))
               raw2 == Text!trim(Text!After(line, e))
           IN IF line = <<>> \/ Text!IsAt(line, 1, "#")
                THEN [found |-> found, last |-> Text!Closed]
              ELSE IF e = 0
                THEN [found |-> Append(found, Text!problem), last |-> Text!Closed]
              ELSE IF Text!IsAt(raw2, 1, "dq") /\ Text!closingQuote(raw2) = 0
                THEN [found |-> found, last |-> [key |-> key2, raw |-> raw2, open |-> TRUE]]
              ELSE [found |-> Append(found, Text!Row(key2, raw2)), last |-> Text!Closed]
    BY DEF Text!Fresh
  <2>2. e = k + 1
    BY <1>9
  <2> HIDE DEF e
  <2>3. Text!trim(SubSeq(line, 1, e - 1)) = key /\ Text!trim(Text!After(line, e)) = q
    <3>1. e - 1 = k + 1 - 1
      BY <1>3, <2>2
    <3>2. SubSeq(line, 1, e - 1) = key /\ Text!After(line, e) = q
      BY <1>10, <1>11, <2>2, <3>1, Zenon
    <3> QED BY <1>12, <3>2, Zenon
  <2> QED BY <1>2, <1>5, <1>13, <1>14, <1>15, <2>1, <2>2, <2>3
<1> QED BY <1>8, <1>16 DEF line

\* The text with one row more.
rowWritten(rows, s, i) ==
    s \o (IF i = 1 THEN <<>> ELSE <<"newline">>)
      \o rows[i].key \o <<"=">> \o Text!quote(rows[i].value)
\* The same as a function.
WriteStep(rows) ==
    [p \in Seq(Text!Chars) \X (1..Len(rows)) |-> rowWritten(rows, p[1], p[2])]

\* Three texts are joined in either order.
LEMMA JoinedEither ==
  \A x, y, z \in Seq(Text!Chars) : (x \o y) \o z = x \o (y \o z)
<1> SUFFICES ASSUME NEW x \in Seq(Text!Chars), NEW y \in Seq(Text!Chars), NEW z \in Seq(Text!Chars)
             PROVE  (x \o y) \o z = x \o (y \o z)
  OBVIOUS
<1> QED BY ConcatAssociative

\* A row adds a line break, unless it is the first, and its line.
LEMMA RowAdds ==
  ASSUME NEW rows \in Seq(ReadRows), NEW s \in Seq(Text!Chars), NEW i \in 1..Len(rows)
  PROVE  /\ rowWritten(rows, s, i)
               = s \o (IF i = 1 THEN <<>> ELSE <<"newline">>) \o RowLine(rows[i])
         /\ rowWritten(rows, s, i) \in Seq(Text!Chars)
         /\ WriteStep(rows)[<<s, i>>] = rowWritten(rows, s, i)
<1> DEFINE L == Seq(Text!Chars)
           row == rows[i]
           a == s \o (IF i = 1 THEN <<>> ELSE <<"newline">>)
           q == Text!quote(row.value)
<1>1. row \in ReadRows
  BY ElementOfSeq
<1>2. row.key \in L /\ q \in L /\ <<"=">> \in L
  BY <1>1, RowLineIs, PlainIsText DEF Text!Chars
<1>3. a \in L
  <2>1. <<>> \in L /\ <<"newline">> \in L
    BY EmptySeq DEF Text!Chars
  <2>2. (IF i = 1 THEN <<>> ELSE <<"newline">>) \in L
    BY <2>1
  <2> QED BY <2>2, ConcatProperties
<1> DEFINE k == row.key
<1> HIDE DEF a, q, L, k
<1> DEFINE e == <<"=">>
<1>13. e \in L
  BY <1>2
<1> HIDE DEF e
<1>4. k \in L /\ k \o e \in L
  BY <1>2, <1>13, ConcatProperties DEF L, k
<1>5. (a \o k) \o e = a \o (k \o e)
  BY <1>3, <1>4, <1>13, ConcatAssociative DEF L
<1>6. (a \o (k \o e)) \o q = a \o ((k \o e) \o q)
  <2> DEFINE ke == k \o e
  <2>1. ke \in L /\ q \in L
    BY <1>2, <1>4
  <2> HIDE DEF ke
  <2>2. (a \o ke) \o q = a \o (ke \o q)
    <3>1. a \in Seq(Text!Chars) /\ ke \in Seq(Text!Chars) /\ q \in Seq(Text!Chars)
      BY <1>3, <2>1 DEF L
    <3> QED BY <3>1, JoinedEither
  <2> QED BY <2>2 DEF ke
<1>7. (k \o e) \o q \in L
  BY <1>2, <1>4, ConcatProperties DEF L
<1>8. a \o ((k \o e) \o q) \in L
  BY <1>3, <1>7, ConcatProperties DEF L
<1>9. rowWritten(rows, s, i) = ((a \o k) \o e) \o q
  BY DEF rowWritten, a, k, q, e
<1>10. RowLine(rows[i]) = (k \o e) \o q
  BY DEF RowLine, k, q, e
<1>11. rowWritten(rows, s, i) = a \o RowLine(rows[i]) /\ rowWritten(rows, s, i) \in L
  BY <1>5, <1>6, <1>8, <1>9, <1>10
<1> QED BY <1>11 DEF a, L, WriteStep

\* toDotenv writes one row after the other.
LEMMA WriteFold ==
  ASSUME NEW rows \in Seq(ReadRows)
  PROVE  \E f \in [0..Len(rows) -> Seq(Text!Chars)] :
            /\ f[0] = <<>>
            /\ \A k \in 1..Len(rows) : f[k] = rowWritten(rows, f[k - 1], k)
            /\ Text!toDotenv(rows) = f[Len(rows)]
<1> DEFINE q == Positions(rows)
           n == Len(rows)
           C == 1..n
           A == Seq(Text!Chars)
           h == WriteStep(rows)
           base == <<>>
           W(it) == it = [S \in SUBSET DOMAIN q |->
                       IF S = {} THEN base
                       ELSE LET x == Text!Max(S) IN rowWritten(rows, it[S \ {x}], q[x])]
           j == CHOOSE it : W(it)
<1>1. DOMAIN rows = 1..n /\ n \in Nat
  BY LenProperties
<1>2. q \in [1..n -> C] /\ \A i \in 1..n : q[i] = i
  BY <1>1 DEF Positions
<1>3. q \in Seq(C) /\ Len(q) = n /\ DOMAIN q = 1..n
  BY <1>1, <1>2, FunctionIsSeq
<1>4. h \in [A \X C -> A] /\ base \in A
  BY RowAdds, EmptySeq DEF WriteStep
<1>5. Text!toDotenv(rows) = j[DOMAIN q]
  BY DEF Text!toDotenv, Text!FoldLeftDomain, Text!FoldLeft, Text!MapThenFoldSet,
         Positions, rowWritten
<1> HIDE DEF q, A, C, h, j, n, base
<1>6. PICK it : IsFold(h, base, q, it) /\ \A S \in SUBSET DOMAIN q : it[S] \in A
  BY <1>3, <1>4, FoldsExist
<1>7. \A s \in A, i \in C : h[<<s, i>>] = rowWritten(rows, s, i)
  BY RowAdds DEF A, C, h, n
<1>8. ASSUME NEW S \in SUBSET DOMAIN q
      PROVE  it[S] = IF S = {} THEN base
                     ELSE LET x == Text!Max(S) IN rowWritten(rows, it[S \ {x}], q[x])
  <2>1. it[S] = IF S = {} THEN base ELSE h[<<it[S \ {Text!Max(S)}], q[Text!Max(S)]>>]
    BY <1>6 DEF IsFold
  <2>2. CASE S # {}
    <3> DEFINE m == Text!Max(S)
    <3>1. m \in DOMAIN q
      BY <1>1, <1>3, <2>2, MaxOf
    <3> HIDE DEF m
    <3>2. q[m] \in C /\ it[S \ {m}] \in A
      BY <1>2, <1>3, <1>6, <3>1
    <3>3. h[<<it[S \ {m}], q[m]>>] = rowWritten(rows, it[S \ {m}], q[m])
      BY <1>7, <3>2
    <3> QED BY <2>1, <2>2, <3>3 DEF m
  <2> QED BY <2>1, <2>2
<1>9. W(it)
  <2>1. it = [S \in SUBSET DOMAIN q |-> it[S]]
    BY <1>6 DEF IsFold
  <2> QED BY <1>8, <2>1
<1>10. W(j)
  BY <1>9 DEF j
<1>11. Along(A, h, base, q, j)
  <2>1. j[{}] = base
    BY <1>10
  <2>2. ASSUME NEW k \in 1..Len(q), j[1..k - 1] \in A
        PROVE  j[1..k] = h[<<j[1..k - 1], q[k]>>]
    <3>1. /\ 1..k \in SUBSET (1..n) /\ 1..k # {} /\ k \in 1..n
          /\ Text!Max(1..k) = k /\ (1..k) \ {k} = 1..k - 1
      BY <1>1, <1>3, <2>2, UpTo
    <3>2. j[1..k] = rowWritten(rows, j[(1..k) \ {Text!Max(1..k)}], q[Text!Max(1..k)])
      BY <1>3, <1>10, <3>1
    <3>3. j[1..k] = rowWritten(rows, j[1..k - 1], q[k]) /\ q[k] \in C
      BY <1>2, <3>1, <3>2
    <3> QED BY <1>7, <2>2, <3>3
  <2> QED BY <2>1, <2>2 DEF Along
<1> DEFINE f == Prefixes(j, q)
<1>12. Folds(A, h, base, q, f)
  BY <1>3, <1>4, <1>11, AlongFolds
<1>13. f[n] = j[DOMAIN q]
  BY <1>1, <1>3 DEF Prefixes
<1> HIDE DEF f
<1>14. f \in [0..n -> A] /\ f[0] = base /\ \A k \in 1..n : f[k] = h[<<f[k - 1], q[k]>>]
  BY <1>3, <1>12 DEF Folds
<1>15. ASSUME NEW k \in 1..n PROVE f[k] = rowWritten(rows, f[k - 1], k)
  <2>1. f[k - 1] \in A /\ q[k] = k /\ k \in C
    BY <1>1, <1>2, <1>14 DEF C
  <2> QED BY <1>7, <1>14, <2>1
<1> QED BY <1>5, <1>13, <1>14, <1>15 DEF A, n, base

-----------------------------------------------------------------------------
(* Every row written, and every row read. *)
\* A sequence as sequences of one.
Singles(s) == [i \in DOMAIN s |-> <<s[i]>>]

\* Flattened, they are the sequence.
LEMMA FlattenSingles ==
  ASSUME NEW C, NEW s \in Seq(C)
  PROVE  Text!FlattenSeq(Singles(s)) = s
<1> DEFINE P == {u \in Seq(C) : Text!FlattenSeq(Singles(u)) = u}
           L == Seq(C)
<1>1. ASSUME NEW u \in L
      PROVE  Singles(u) \in [1..Len(u) -> L] /\ Len(u) \in Nat /\ DOMAIN u = 1..Len(u)
  <2>1. DOMAIN u = 1..Len(u) /\ Len(u) \in Nat /\ \A i \in 1..Len(u) : u[i] \in C
    BY LenProperties, ElementOfSeq
  <2>2. \A i \in 1..Len(u) : <<u[i]>> \in L
    BY <2>1
  <2> QED BY <2>1, <2>2 DEF Singles
<1>2. <<>> \in P
  <2>1. <<>> \in L /\ Len(<<>>) = 0
    BY EmptySeq
  <2>2. Singles(<<>>) \in Seq(L) /\ Len(Singles(<<>>)) = 0
    BY <1>1, <2>1, FunctionIsSeq
  <2>3. Singles(<<>>) = <<>>
    BY <2>2, EmptySeq
  <2> QED BY <2>1, <2>3, FlattenGrows
<1>3. ASSUME NEW u \in P, NEW c \in C PROVE Append(u, c) \in P
  <2> DEFINE n == Len(u)
             w == Append(u, c)
             f == Singles(u)
             g == Singles(w)
             e == <<c>>
  <2>1. u \in L /\ Text!FlattenSeq(f) = u
    BY <1>3
  <2>2. w \in L /\ Len(w) = n + 1 /\ w[n + 1] = c /\ \A i \in 1..n : w[i] = u[i]
    BY <2>1, AppendProperties
  <2>3. /\ n \in Nat /\ DOMAIN u = 1..n /\ DOMAIN w = 1..n + 1
        /\ f \in [1..n -> L] /\ g \in [1..n + 1 -> L]
    BY <1>1, <2>1, <2>2
  <2>4. n + 1 \in 1..n + 1 /\ \A i \in 1..n : i \in 1..n + 1
    BY <2>3
  <2>5. g[n + 1] = e /\ \A i \in 1..n : g[i] = f[i]
    BY <2>2, <2>3, <2>4 DEF Singles
  <2>6. e \in L
    OBVIOUS
  <2> HIDE DEF f, g, w, n, e
  <2>7. f \in Seq(L) /\ g = Append(f, e)
    <3>1. g = Append(f, g[n + 1])
      BY <2>3, <2>5, OneMore
    <3> QED BY <2>3, <2>5, <3>1, FunctionIsSeq
  <2>8. Text!FlattenSeq(g) = u \o e
    BY <2>1, <2>6, <2>7, FlattenGrows
  <2>9. u \o e = w
    BY <2>1, AppendIsConcat DEF w, e
  <2> QED BY <2>2, <2>8, <2>9 DEF g, w
<1>4. P = L
  <2> HIDE DEF P
  <2>1. P \in SUBSET L
    BY DEF P
  <2> QED BY <1>2, <1>3, <2>1, LetterByLetter
<1> QED BY <1>4

\* The reading of a text, its problems left out.
Found(found) == [i \in DOMAIN found |-> IF found[i] = Text!problem THEN <<>> ELSE <<found[i]>>]

\* What is kept of a reading is rows.
LEMMA FoundIsTyped ==
  ASSUME NEW found \in Seq(ReadFound)
  PROVE  Text!FlattenSeq(Found(found)) \in Seq(ReadRows)
<1> DEFINE L == Seq(ReadRows)
<1>1. /\ DOMAIN found = 1..Len(found) /\ Len(found) \in Nat
      /\ \A i \in 1..Len(found) : found[i] \in ReadFound
  BY LenProperties, ElementOfSeq
<1>2. ASSUME NEW i \in 1..Len(found)
      PROVE  (IF found[i] = Text!problem THEN <<>> ELSE <<found[i]>>) \in L
  <2>1. <<>> \in L
    BY EmptySeq
  <2>2. CASE found[i] = Text!problem
    BY <2>1, <2>2
  <2>3. CASE found[i] # Text!problem
    <3>1. found[i] \in ReadRows
      BY <1>1, <2>3 DEF ReadFound
    <3>2. <<found[i]>> \in L
      BY <3>1
    <3> QED BY <2>3, <3>2
  <2> QED BY <2>2, <2>3
<1>3. Found(found) \in [1..Len(found) -> L]
  <2> HIDE DEF L
  <2> QED BY <1>1, <1>2 DEF Found
<1>4. Found(found) \in Seq(L)
  BY <1>1, <1>3, FunctionIsSeq
<1> QED BY <1>4, FlattenGrows

\* A reading without a problem is kept whole.
LEMMA FoundIsAll ==
  ASSUME NEW rows \in Seq(ReadRows)
  PROVE  Text!FlattenSeq(Found(rows)) = rows
<1>1. DOMAIN rows = 1..Len(rows) /\ \A i \in 1..Len(rows) : rows[i] \in ReadRows
  BY LenProperties, ElementOfSeq
<1>2. Found(rows) = Singles(rows)
  BY <1>1, ProblemIsNoRow DEF Found, Singles
<1> QED BY <1>2, FlattenSingles

\* What is read from a text is a list of rows whose keys a row can have.
LEMMA ReadIsTyped ==
  ASSUME NEW s \in Seq(Text!Chars)
  PROVE  Text!fromDotenv(s) \in Seq(ReadRows)
<1>1. Text!lines(s) \in Seq(Seq(Plain))
  BY LinesGrow DEF LineLists
<1>2. PICK state \in ReadStates : ReadsTo(Text!lines(s), state)
  BY <1>1, ReadsOn
<1>3. Text!entries(s) = IF state.last.open THEN Append(state.found, Text!problem) ELSE state.found
  BY <1>1, <1>2, EntriesAre
<1>4. state.found \in Seq(ReadFound) /\ Text!problem \in ReadFound
  BY DEF ReadStates, ReadFound
<1>5. Text!entries(s) \in Seq(ReadFound)
  BY <1>3, <1>4, AppendProperties
<1>6. Text!fromDotenv(s) = Text!FlattenSeq(Found(Text!entries(s)))
  BY DEF Text!fromDotenv, Found
<1> QED BY <1>5, <1>6, FoundIsTyped

\* A list of rows, of whatever length and whatever its values hold, written as a .env text and
\* read back, is that list (lib/dotenv.ts: toDotenv, fromDotenv).
THEOREM RowsReadBack ==
  ASSUME NEW rows \in Seq(ReadRows)
  PROVE  Text!fromDotenv(Text!toDotenv(rows)) = rows
<1> DEFINE n == Len(rows)
           L == Seq(Text!Chars)
           After(k) == [found |-> SubSeq(rows, 1, k), last |-> Text!Closed]
<1>1. PICK f \in [0..n -> L] :
         /\ f[0] = <<>>
         /\ \A k \in 1..n : f[k] = rowWritten(rows, f[k - 1], k)
         /\ Text!toDotenv(rows) = f[n]
  BY WriteFold
<1>2. n \in Nat
  BY LenProperties
<1>3. ASSUME NEW k \in 1..n
      PROVE  /\ rows[k] \in ReadRows /\ RowLine(rows[k]) \in Seq(Plain)
             /\ Append(SubSeq(rows, 1, k - 1), rows[k]) = SubSeq(rows, 1, k)
             /\ SubSeq(rows, 1, k - 1) \in Seq(ReadRows)
  <2>1. rows[k] \in ReadRows
    BY ElementOfSeq
  <2>2. SubSeq(rows, 1, k - 1) \in Seq(ReadRows)
    <3>1. k - 1 \in 0..Len(rows)
      BY <1>2
    <3> QED BY <3>1, CutIsText
  <2>3. SubSeq(rows, 1, k) = SubSeq(rows, 1, k - 1) \o <<rows[k]>>
    <3>1. 1 \in 1..Len(rows) /\ k \in 1..Len(rows)
      BY <1>2
    <3> QED BY <3>1, SubSeqRecursiveSecond
  <2>4. Append(SubSeq(rows, 1, k - 1), rows[k]) = SubSeq(rows, 1, k - 1) \o <<rows[k]>>
    BY <2>1, <2>2, AppendIsConcat
  <2> QED BY <2>1, <2>2, <2>3, <2>4, RowLineIs
<1>4. ASSUME NEW k \in 1..n
      PROVE  /\ After(k - 1) \in ReadStates
             /\ readLine(After(k - 1), RowLine(rows[k])) = After(k)
  <2>1. SubSeq(rows, 1, k - 1) \in Seq(ReadFound)
    <3>1. SubSeq(rows, 1, k - 1) \in Seq(ReadRows)
      BY <1>3
    <3>2. Seq(ReadRows) \subseteq Seq(ReadFound)
      BY SeqMonotonic DEF ReadFound
    <3> QED BY <3>1, <3>2
  <2>2. Text!Fresh(SubSeq(rows, 1, k - 1), Text!trim(RowLine(rows[k]))) =
           [found |-> Append(SubSeq(rows, 1, k - 1), rows[k]), last |-> Text!Closed]
    BY <1>3, RowIsRead
  <2>3. Text!Closed.open = FALSE
    BY DEF Text!Closed
  <2> DEFINE m == SubSeq(rows, 1, k - 1)
  <2> HIDE DEF m
  <2>4. [found |-> m, last |-> Text!Closed].last.open = FALSE
    BY <2>3
  <2>5. [found |-> m, last |-> Text!Closed] \in ReadStates
    BY <2>1, ClosedIsTyped DEF ReadStates, m
  <2>6. readLine([found |-> m, last |-> Text!Closed], RowLine(rows[k])) =
           Text!Fresh(m, Text!trim(RowLine(rows[k])))
    BY <2>4 DEF readLine
  <2> QED BY <1>3, <2>2, <2>5, <2>6 DEF m
<1>5. After(0) = ReadStart
  <2>1. SubSeq(rows, 1, 0) = <<>>
    BY SubSeqEmpty
  <2> QED BY <2>1 DEF ReadStart
<1> HIDE DEF After, n
\* The text of the first k rows has k lines, and its lines are read as those rows.
<1> DEFINE D(k) == /\ Text!lines(f[k]) \in Seq(Seq(Plain))
                   /\ ReadsTo(Text!lines(f[k]), After(k))
           P == {k \in Nat : k \in 1..n => D(k)}
<1>6. ASSUME NEW k \in P, k + 1 \in 1..n PROVE D(k + 1)
  <2> DEFINE s == f[k]
             line == RowLine(rows[k + 1])
             b == s \o (IF k + 1 = 1 THEN <<>> ELSE <<"newline">>)
             t == f[k + 1]
  <2>1. k \in Nat /\ k \in 0..n /\ (k + 1) - 1 = k /\ s \in L
    BY <1>1, <1>2, <1>6
  <2>2. t = b \o line
    <3>1. t = rowWritten(rows, s, k + 1)
      BY <1>1, <1>6, <2>1
    <3>2. rowWritten(rows, s, k + 1) = b \o line
      BY <1>6, <2>1, RowAdds DEF n
    <3> QED BY <3>1, <3>2
  <2>3. line \in Seq(Plain) /\ After(k) \in ReadStates /\ readLine(After(k), line) = After(k + 1)
    BY <1>3, <1>4, <1>6, <2>1
  <2> HIDE DEF s, line, b, t
  <2>4. ASSUME NEW ls \in Seq(Seq(Plain)), b \in L, Text!lines(b) = Append(ls, <<>>),
               ReadsTo(ls, After(k))
        PROVE  D(k + 1)
    <3>1. Text!lines(t) = Append(ls, line)
      BY <2>2, <2>3, <2>4, LineAdded
    <3>2. Append(ls, line) \in Seq(Seq(Plain))
      BY <2>3, <2>4, AppendProperties
    <3>3. ReadsTo(Append(ls, line), readLine(After(k), line))
      BY <2>3, <2>4, ReadsOn
    <3> QED BY <2>3, <3>1, <3>2, <3>3 DEF t
  <2>5. CASE k = 0
    <3>1. <<>> \in L /\ <<>> \o <<>> = <<>>
      BY EmptySeq, ConcatEmptySeq
    <3>2. b = <<>>
      BY <1>1, <2>5, <3>1 DEF b, s
    <3>3. <<>> \in Seq(Seq(Plain)) /\ Append(<<>>, <<>>) = <<<<>>>>
      BY EmptySeq
    <3>4. Text!lines(b) = Append(<<>>, <<>>)
      BY <3>2, <3>3, LinesGrow
    <3>5. ReadsTo(<<>>, After(k))
      BY <1>5, <2>5, ReadsOn
    <3> QED BY <2>4, <3>1, <3>2, <3>3, <3>4, <3>5
  <2>6. CASE k # 0
    <3>1. k \in 1..n /\ k + 1 # 1
      BY <2>1, <2>6
    <3>2. Text!lines(s) \in Seq(Seq(Plain)) /\ ReadsTo(Text!lines(s), After(k))
      BY <1>6, <3>1 DEF s
    <3>3. b = s \o <<"newline">> /\ "newline" \in Text!Chars
      BY <3>1 DEF b, Text!Chars
    <3>4. b = Append(s, "newline")
      BY <2>1, <3>3, AppendIsConcat
    <3>5. b \in L
      BY <2>1, <3>3, <3>4, AppendProperties
    <3>6. Text!lines(b) = Append(Text!lines(s), <<>>)
      BY <2>1, <3>3, <3>4, LinesGrow DEF lineStep
    <3> QED BY <2>4, <3>2, <3>5, <3>6
  <2> QED BY <2>5, <2>6
<1>7. P = Nat
  <2>1. 0 \in P
    OBVIOUS
  <2>2. \A k \in P : k + 1 \in P
    BY <1>6
  <2> HIDE DEF P
  <2>3. P \in SUBSET Nat
    BY DEF P
  <2> QED BY <2>1, <2>2, <2>3, OneByOne
<1>8. Text!entries(f[n]) = rows
  <2>1. CASE n = 0
    <3>1. rows = <<>>
      BY <2>1, EmptySeq DEF n
    <3>2. Text!lines(f[n]) = <<<<>>>>
      BY <1>1, <2>1, LinesGrow
    <3>3. <<>> \in Seq(Plain) /\ <<>> \in Seq(Seq(Plain)) /\ Append(<<>>, <<>>) = <<<<>>>>
      BY EmptySeq
    <3>4. ReadsTo(<<<<>>>>, readLine(ReadStart, <<>>))
      BY <3>3, ReadLineIsStep, ReadsOn
    <3>5. readLine(ReadStart, <<>>) = ReadStart
      <4>1. Text!trim(<<>>) = <<>>
        <5>1. <<>> \in Seq(Text!Chars) /\ Tight(<<>>)
          BY EmptySeq DEF Tight
        <5> QED BY <5>1, TrimKeeps
      <4>2. ReadStart.last.open = FALSE /\ ReadStart.found = <<>>
        BY DEF ReadStart, Text!Closed
      <4>3. Text!Fresh(<<>>, <<>>) = [found |-> <<>>, last |-> Text!Closed]
        BY DEF Text!Fresh
      <4> QED BY <4>1, <4>2, <4>3 DEF readLine, ReadStart
    <3>6. <<<<>>>> \in Seq(Seq(Plain))
      BY <3>3
    <3>7. Text!entries(f[n]) = IF ReadStart.last.open THEN Append(ReadStart.found, Text!problem)
                               ELSE ReadStart.found
      BY <3>2, <3>4, <3>5, <3>6, EntriesAre
    <3> QED BY <3>1, <3>7 DEF ReadStart, Text!Closed
  <2>2. CASE n # 0
    <3>1. n \in 1..n /\ n \in P
      <4> HIDE DEF P
      <4> QED BY <1>2, <1>7, <2>2
    <3>2. D(n)
      BY <3>1
    <3>3. Text!entries(f[n]) = IF After(n).last.open THEN Append(After(n).found, Text!problem)
                               ELSE After(n).found
      BY <3>2, EntriesAre
    <3>4. After(n).last.open = FALSE /\ After(n).found = SubSeq(rows, 1, Len(rows))
      BY DEF After, Text!Closed, n
    <3> QED BY <3>3, <3>4, SubSeqFull
  <2> QED BY <2>1, <2>2
<1>9. Text!fromDotenv(f[n]) = Text!FlattenSeq(Found(rows))
  BY <1>8 DEF Text!fromDotenv, Found
<1> QED BY <1>1, <1>9, FoundIsAll DEF n

\* The client whose text is typed types characters, so its rows are rows.
TextInv == typed \in Seq(Text!Chars)

\* Nothing is typed at first.
LEMMA TextStarts == Text!Init => TextInv
BY EmptySeq DEF Text!Init, TextInv

\* A character typed is a character of a text.
LEMMA TextSteps == TextInv /\ [Text!Next]_(Text!vars) => TextInv'
<1> SUFFICES ASSUME TextInv, [Text!Next]_(Text!vars) PROVE TextInv'
  OBVIOUS
<1>1. CASE Text!Next
  <2>1. PICK c \in Text!Chars : typed' = Append(typed, c)
    BY <1>1 DEF Text!Next, Text!Type
  <2> QED BY <2>1, AppendProperties DEF TextInv
<1>2. CASE UNCHANGED Text!vars
  BY <1>2 DEF TextInv, Text!vars
<1> QED BY <1>1, <1>2

\* What is typed is a text, so the rows it is a value of read back, and so does what is read
\* from it.
LEMMA TextRoundTripsNow == TextInv => Text!EveryValueRoundTrips /\ Text!TableKeepsTheText
<1> SUFFICES ASSUME TextInv PROVE Text!EveryValueRoundTrips /\ Text!TableKeepsTheText
  OBVIOUS
<1>1. typed \in Seq(Text!Chars)
  BY DEF TextInv
<1>2. Text!EveryValueRoundTrips
  <2>1. <<"n">> \in ReadKeys /\ <<"n", "n">> \in ReadKeys
    <3>1. "n" \in Plain \ {"="} /\ "n" \notin Text!Spaces /\ "n" # "#"
      BY DEF Plain, Text!Chars, Text!Spaces
    <3>2. <<"n">> \in Seq(Plain \ {"="}) /\ <<"n", "n">> \in Seq(Plain \ {"="})
      BY <3>1
    <3> QED BY <3>1, <3>2 DEF ReadKeys, Tight
  <2>2. <<"n">> \in Seq(Text!Chars)
    BY DEF Text!Chars
  <2>3. /\ [key |-> <<"n">>, value |-> typed] \in ReadRows
        /\ [key |-> <<"n", "n">>, value |-> <<"n">>] \in ReadRows
    BY <1>1, <2>1, <2>2 DEF ReadRows
  <2> DEFINE a == [key |-> <<"n">>, value |-> typed]
             b == [key |-> <<"n", "n">>, value |-> <<"n">>]
  <2>4. Text!EveryValueRoundTrips <=> Text!fromDotenv(Text!toDotenv(<<a, b, a>>)) = <<a, b, a>>
    BY DEF Text!EveryValueRoundTrips
  <2> HIDE DEF a, b
  <2>5. a \in ReadRows /\ b \in ReadRows
    BY <2>3 DEF a, b
  <2>6. <<a, b, a>> \in Seq(ReadRows)
    BY <2>5
  <2> QED BY <2>4, <2>6, RowsReadBack
<1>3. ASSUME NEW s \in {typed, <<"n", "=">> \o typed}
      PROVE  Text!fromDotenv(Text!toDotenv(Text!fromDotenv(s))) = Text!fromDotenv(s)
  <2>1. <<"n", "=">> \in Seq(Text!Chars)
    BY DEF Text!Chars
  <2>2. <<"n", "=">> \o typed \in Seq(Text!Chars)
    BY <1>1, <2>1, ConcatProperties
  <2>3. s \in Seq(Text!Chars)
    BY <1>1, <1>3, <2>2
  <2> QED BY <2>3, ReadIsTyped, RowsReadBack
<1>4. Text!TableKeepsTheText
  BY <1>3 DEF Text!TableKeepsTheText
<1> QED BY <1>2, <1>4

\* The invariant of the composition.
DotenvInv == client = "dotenv" => TextInv

\* Whatever was typed as a value, the rows around it are read back, and the rewriting of a text
\* by the table keeps every key and value (lib/dotenv.ts).
THEOREM TextRoundTrips == EditorsSpec => []EveryValueRoundTrips
<1>1. EditorsInit => DotenvInv
  BY TextStarts DEF EditorsInit, DotenvInv
<1>2. DotenvInv /\ [EditorsNext]_editorsVars => DotenvInv'
  BY EditorMoves, TextSteps DEF DotenvInv
<1>3. DotenvInv => EveryValueRoundTrips
  BY TextRoundTripsNow DEF DotenvInv, EveryValueRoundTrips
<1> QED BY <1>1, <1>2, <1>3, PTL DEF EditorsSpec
=============================================================================
