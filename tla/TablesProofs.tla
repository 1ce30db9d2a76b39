---------------------------- MODULE TablesProofs ----------------------------
(* What holds of the pages that work through a list one request at a time, and of the gate  *)
(* before them, for every value of the constants.                                           *)
EXTENDS Tables, SequenceTheorems, FiniteSetTheorems, WellFoundedInduction, TLAPS

\* A step of the composition is a step of the model it is about, or leaves it alone.
LEMMA TableMoves ==
  ASSUME [TablesNext]_tablesVars
  PROVE  /\ client' = client
         /\ client = "bulk" => [Bulk!Next]_(Bulk!vars)
         /\ client = "studio" => [Studio!Next]_(Studio!vars)
         /\ client = "gate" => [Gate!Next]_(Gate!vars)
<1>1. CASE TablesNext
  BY <1>1 DEF TablesNext
<1>2. CASE UNCHANGED tablesVars
  <2>1. /\ client' = client /\ UNCHANGED bulkVars
        /\ UNCHANGED studioVars /\ UNCHANGED gateVars
    BY <1>2 DEF tablesVars
  <2>2. UNCHANGED Bulk!vars
    BY <2>1 DEF bulkVars, Bulk!vars, Bulk!counts
  <2>3. UNCHANGED Studio!vars
    BY <2>1 DEF studioVars, Studio!vars, Studio!view, Studio!grid, Studio!history, Studio!counts
  <2>4. UNCHANGED Gate!vars
    BY <2>1 DEF gateVars, Gate!vars, Gate!service, Gate!answers, Gate!location, Gate!asked,
       Gate!counts
  <2> QED BY <2>1, <2>2, <2>3, <2>4
<1> QED BY <1>1, <1>2

-----------------------------------------------------------------------------
(* The gate. *)

\* The pages the visitor may be sent to: the one asked for last, and the one a sign-in they
\* did not wait for leads to.
Bound(there) == there \in {wanted, bound}

Asked ==
    /\ pathname \in Gate!Paths /\ next \in Gate!Paths \cup {Gate!Nowhere}
    /\ pathname = "/setup" => Bound("/") /\ next = Gate!Nowhere
    /\ pathname = "/login" => Bound(Gate!Home(next))
    /\ pathname \notin Gate!Outside => Bound(pathname)

\* What the gate was told of the accounts, which are never taken back.
SetUp ==
    /\ users \in {0, 1} /\ setup \in {Gate!Unasked, "needed", "done"}
    /\ setup = "done" => users = 1
    /\ users = 0 => bound = Gate!Nowhere
    /\ users = 1 /\ setup = "needed" => Bound("/")

\* A form leads to the page asked for, and only the set-up form works without an account.
FormLeads ==
    form_gate.at # "idle" =>
        /\ DOMAIN form_gate = {"at", "from", "next"}
        /\ form_gate.from \in Gate!Outside /\ form_gate.next \in Gate!Paths \cup {Gate!Nowhere}
        /\ Bound(Gate!Home(form_gate.next))
        /\ form_gate.from = "/setup" => form_gate.next = Gate!Nowhere
        /\ form_gate.from = "/login" => users = 1

GateInv == Asked /\ SetUp /\ FormLeads

LEMMA GateStart == Gate!Init => GateInv
BY DEF Gate!Init, GateInv, Asked, SetUp, FormLeads, Bound, Gate!Paths, Gate!Outside,
   Gate!Nowhere, Gate!Unasked, Gate!Idle, Gate!Home

LEMMA GateAnswers ==
  ASSUME GateInv, Gate!AskSetup \/ Gate!AskSession \/ Gate!Expire PROVE GateInv'
<1>1. UNCHANGED <<users, pathname, next, form_gate, wanted, bound>>
  BY DEF Gate!AskSetup, Gate!AskSession, Gate!Expire, Gate!service, Gate!answers, Gate!location,
     Gate!asked
<1>2. setup' = setup \/ setup' = Gate!Answer(users)
  BY DEF Gate!AskSetup, Gate!AskSession, Gate!Expire, Gate!answers
<1>3. Asked' /\ FormLeads'
  BY <1>1 DEF GateInv, Asked, FormLeads, Bound, Gate!Paths, Gate!Outside, Gate!Nowhere, Gate!Home
<1>4. SetUp'
  BY <1>1, <1>2 DEF GateInv, SetUp, Bound, Gate!Answer, Gate!Nowhere, Gate!Unasked
<1> QED BY <1>3, <1>4 DEF GateInv

\* Redirects go where the visitor is bound, or to the set-up that comes before everything.
LEMMA RedirectKeeps == ASSUME GateInv, Gate!Redirect PROVE GateInv'
<1>1. UNCHANGED <<users, setup, form_gate, bound>>
  BY DEF Gate!Redirect, Gate!service, Gate!answers
<1>2. CASE Gate!ToSetup
  <2>1. /\ pathname' = "/setup" /\ next' = Gate!Nowhere /\ setup = "needed"
        /\ wanted' = IF users = 0 THEN "/" ELSE wanted
    BY <1>2 DEF Gate!Redirect, Gate!ToSetup, Gate!ToLogin, Gate!ToApp, Gate!Go, Gate!needsSetup
  <2>2. Bound("/")'
    BY <1>1, <2>1 DEF GateInv, SetUp, Bound
  <2>3. FormLeads'
    BY <1>1, <2>1, <2>2
       DEF GateInv, SetUp, FormLeads, Bound, Gate!Home, Gate!Nowhere, Gate!Outside, Gate!Paths
  <2> QED BY <1>1, <2>1, <2>2, <2>3 DEF GateInv, Asked, SetUp, Bound, Gate!Paths, Gate!Outside,
         Gate!Nowhere, Gate!Unasked, Gate!Home
<1>3. CASE ~Gate!ToSetup
  <2>1. wanted' = wanted
    BY <1>3 DEF Gate!Redirect
  <2>2. CASE Gate!ToLogin
    <3>1. /\ pathname' = "/login" /\ next' = IF pathname = "/" THEN Gate!Nowhere ELSE pathname
          /\ pathname # "/login"
      BY <1>3, <2>2 DEF Gate!Redirect, Gate!ToLogin, Gate!ToApp, Gate!Go
    <3> QED BY <1>1, <2>1, <3>1 DEF GateInv, Asked, SetUp, FormLeads, Bound, Gate!Paths,
           Gate!Outside, Gate!Nowhere, Gate!Unasked, Gate!Home
  <2>3. CASE ~Gate!ToLogin
    <3>1. /\ pathname' = (IF next = Gate!Nowhere THEN "/" ELSE next) /\ next' = Gate!Nowhere
          /\ pathname \in Gate!Outside
      BY <1>3, <2>3 DEF Gate!Redirect, Gate!ToApp, Gate!Go
    <3> QED BY <1>1, <2>1, <3>1 DEF GateInv, Asked, SetUp, FormLeads, Bound, Gate!Paths,
           Gate!Outside, Gate!Nowhere, Gate!Unasked, Gate!Home
  <2> QED BY <2>2, <2>3
<1> QED BY <1>2, <1>3

LEMMA FormsKeep ==
  ASSUME GateInv, Gate!Submit \/ Gate!Accept \/ Gate!Reject \/ Gate!Done PROVE GateInv'
<1>1. UNCHANGED <<setup, wanted, bound>>
  BY DEF Gate!Submit, Gate!Accept, Gate!Reject, Gate!Done, Gate!answers, Gate!asked
<1>2. CASE Gate!Submit
  <2>1. /\ UNCHANGED <<users, pathname, next>> /\ pathname \in Gate!Outside
        /\ form_gate' = [at |-> "sent", from |-> pathname,
                         next |-> IF pathname = "/login" THEN next ELSE Gate!Nowhere]
        /\ setup # Gate!Unasked
        /\ pathname = "/login" => setup # "needed"
    BY <1>2 DEF Gate!Submit, Gate!service, Gate!location, Gate!children, Gate!resolved,
       Gate!ToSetup, Gate!needsSetup
  <2>2. pathname = "/login" => users = 1
    BY <2>1 DEF GateInv, SetUp
  <2> QED BY <1>1, <2>1, <2>2 DEF GateInv, Asked, SetUp, FormLeads, Bound, Gate!Paths,
         Gate!Outside, Gate!Nowhere, Gate!Home
<1>3. CASE Gate!Accept
  <2>1. /\ UNCHANGED <<pathname, next>> /\ users' = 1 /\ form_gate.at = "sent"
        /\ form_gate' = [form_gate EXCEPT !.at = "accepted"]
        /\ form_gate.from = "/login" => users = 1
    BY <1>3 DEF Gate!Accept, Gate!location
  <2>2. DOMAIN form_gate = {"at", "from", "next"}
    BY <2>1 DEF GateInv, FormLeads
  <2>3. /\ DOMAIN form_gate' = {"at", "from", "next"}
        /\ form_gate'.from = form_gate.from /\ form_gate'.next = form_gate.next
    BY <2>1, <2>2
  <2>4. FormLeads'
    BY <1>1, <2>1, <2>3
       DEF GateInv, FormLeads, Bound, Gate!Paths, Gate!Outside, Gate!Nowhere, Gate!Home
  <2>5. users = 1 \/ Bound("/")
    BY <2>1 DEF GateInv, FormLeads, Gate!Outside, Gate!Home, Gate!Nowhere
  <2>6. SetUp'
    BY <1>1, <2>1, <2>5 DEF GateInv, SetUp, Bound, Gate!Unasked
  <2> QED BY <1>1, <2>1, <2>4, <2>6 DEF GateInv, Asked, Bound, Gate!Paths, Gate!Outside,
         Gate!Nowhere, Gate!Home
<1>4. CASE Gate!Reject
  <2>1. UNCHANGED <<users, pathname, next>> /\ form_gate'.at = "idle"
    BY <1>4 DEF Gate!Reject, Gate!service, Gate!location, Gate!Idle
  <2> QED BY <1>1, <2>1 DEF GateInv, Asked, SetUp, FormLeads, Bound, Gate!Paths, Gate!Outside,
         Gate!Nowhere, Gate!Unasked, Gate!Home
<1>5. CASE Gate!Done
  <2>1. /\ users' = users /\ form_gate'.at = "idle" /\ form_gate.at = "accepted"
        /\ pathname' = (IF form_gate.next = Gate!Nowhere THEN "/" ELSE form_gate.next)
        /\ next' = Gate!Nowhere
    BY <1>5 DEF Gate!Done, Gate!service, Gate!Go, Gate!Idle
  <2>2. form_gate.next \in Gate!Paths \cup {Gate!Nowhere} /\ Bound(Gate!Home(form_gate.next))
    BY <2>1 DEF GateInv, FormLeads
  <2> QED BY <1>1, <2>1, <2>2 DEF GateInv, Asked, SetUp, FormLeads, Bound, Gate!Paths,
         Gate!Outside, Gate!Nowhere, Gate!Unasked, Gate!Home
<1> QED BY <1>2, <1>3, <1>4, <1>5

\* A link leads to the page asked for; a form that is not done with keeps its own page in reach.
LEMMA VisitKeeps == ASSUME GateInv, Gate!Visit PROVE GateInv'
<1>1. /\ UNCHANGED <<users, setup, form_gate>> /\ setup = "done"
      /\ bound' = IF form_gate = Gate!Idle THEN Gate!Nowhere ELSE Gate!Home(form_gate.next)
  BY DEF Gate!Visit, Gate!service, Gate!answers, Gate!children, Gate!resolved, Gate!ToSetup,
     Gate!needsSetup, Gate!Outside, Gate!Unasked, GateInv, SetUp
<1>2. PICK path \in Gate!Paths :
        pathname' = path /\ next' = Gate!Nowhere /\ wanted' = Gate!Home(path)
  BY DEF Gate!Visit, Gate!Go
<1>3. users = 1
  BY <1>1 DEF GateInv, SetUp
<1>4. SetUp'
  BY <1>1, <1>3 DEF SetUp, Gate!Unasked
<1>5. Asked'
  BY <1>2 DEF Asked, Bound, Gate!Paths, Gate!Outside, Gate!Nowhere, Gate!Home
<1>6. form_gate.at # "idle" => form_gate # Gate!Idle
  BY DEF Gate!Idle
<1>7. FormLeads'
  BY <1>1, <1>6 DEF GateInv, FormLeads, Bound
<1> QED BY <1>4, <1>5, <1>7 DEF GateInv

LEMMA GateSteps == GateInv /\ [Gate!Next]_(Gate!vars) => GateInv'
<1> SUFFICES ASSUME GateInv, [Gate!Next]_(Gate!vars) PROVE GateInv'
  OBVIOUS
<1>1. CASE UNCHANGED Gate!vars
  <2>1. UNCHANGED <<users, setup, pathname, next, form_gate, wanted, bound>>
    BY <1>1 DEF Gate!vars, Gate!service, Gate!answers, Gate!location, Gate!asked
  <2> QED BY <2>1 DEF GateInv, Asked, SetUp, FormLeads, Bound, Gate!Paths, Gate!Outside,
         Gate!Nowhere, Gate!Unasked, Gate!Home
<1> QED BY <1>1, GateAnswers, RedirectKeeps, FormsKeep, VisitKeeps DEF Gate!Next

LEMMA AtThePage == GateInv => Gate!DeepLinkSurvives
BY DEF GateInv, Asked, Bound, Gate!DeepLinkSurvives, Gate!ToApp, Gate!Outside

LEMMA GateInvHolds ==
  /\ TablesInit => (client = "gate" => GateInv)
  /\ (client = "gate" => GateInv) /\ [TablesNext]_tablesVars => (client = "gate" => GateInv)'
BY GateStart, GateSteps, TableMoves DEF TablesInit

(* A visitor who is shown a page of the app is shown the one asked for last, or, having moved *)
(* on before the form was done, the one the sign-in was for, whatever the order in which the  *)
(* two questions about the session were answered (auth-gate.tsx, login.tsx).                  *)
THEOREM VisitorsArrive == TablesSpec => []DeepLinkSurvives
<1>1. (client = "gate" => GateInv) => DeepLinkSurvives
  BY AtThePage DEF DeepLinkSurvives
<1> QED BY <1>1, GateInvHolds, PTL DEF TablesSpec

-----------------------------------------------------------------------------
(* Bulk actions. *)

IsName(name) == \E any : name \in Seq(any)

\* What a table of services has whoever holds it.
IsRow(service) ==
    /\ DOMAIN service = {"id", "name", "here", "source", "container"}
    /\ service.id \in Nat /\ IsName(service.name)
Rows(S) == IsFiniteSet(S) /\ \A service \in S : IsRow(service)

\* The names in use where the page looks.
InUse(S) == {service.name : service \in {s \in S : s.here}}

Underway == run.at \in {"acting", "waiting"}

\* A run is one request at a time, over rows the page has.
Runs ==
    /\ run.at \in {"idle", "acting", "waiting", "settling"}
    /\ run.at # "idle" => DOMAIN run = {"at", "kind", "left", "done", "taken"}
    /\ run.at # "waiting" => flights = {}
    /\ run.at = "waiting" => \E flight : flights = {flight} /\ IsName(flight.name)
    /\ Underway => Rows(run.left) /\ IsFiniteSet(run.taken) /\ \E any : run.done \in Seq(any)
    /\ lastId \in Nat

\* What the run keeps count of is what the manager did.
Counted ==
    /\ Underway => error_bulk = Bulk!NoError /\ Bulk!ToSet(run.done) = acted
    /\ run.at = "settling" /\ error_bulk # Bulk!NoError =>
        /\ Bulk!ToSet(error_bulk.done) \subseteq acted
        /\ acted \subseteq Bulk!ToSet(error_bulk.done) \cup {error_bulk.failed}

\* Between runs the page knows every name in use; a run holds all of them for taken.
Reserved ==
    excused_bulk = {} =>
        /\ run.at = "idle" => InUse(server_bulk) \subseteq Bulk!names(services)
        /\ Underway => InUse(server_bulk) \subseteq run.taken
        /\ \A flight \in flights :
              /\ flight.name \in run.taken
              /\ flight.kind = "duplicate" => flight.name \notin InUse(server_bulk)

BulkInv == Rows(server_bulk) /\ Rows(services) /\ Runs /\ Counted /\ Reserved

-----------------------------------------------------------------------------
LEMMA SameCount == ASSUME NEW S PROVE Bulk!Cardinality(S) = Cardinality(S)
BY DEF Cardinality, Bulk!Cardinality

LEMMA LeastOf ==
  ASSUME NEW S \in SUBSET Nat, S # {}
  PROVE  \E x \in S : \A y \in S : x <= y
<1>1. PICK x \in S : \A y \in S : ~(<<y, x>> \in OpToRel(<, Nat))
  BY WFMin, NatLessThanWellFounded
<1>2. ASSUME NEW y \in S PROVE x <= y
  <2>1. ~(y < x)
    BY <1>1 DEF OpToRel
  <2> QED BY <2>1
<1> QED BY <1>2

\* The names of finitely many services are finitely many.
LEMMA NamesAreFinite ==
  ASSUME NEW S, IsFiniteSet(S) PROVE IsFiniteSet(Bulk!names(S))
<1> DEFINE f == [s \in S |-> s.name]
<1>1. f \in Surjection(S, Bulk!names(S))
  BY DEF Surjection, Bulk!names
<1> QED BY <1>1, FS_Surjection

\* The first row of a table is one of its rows.
LEMMA FirstIsARow ==
  ASSUME NEW S, Rows(S), S # {} PROVE Bulk!first(S) \in S
<1> DEFINE ids == {s.id : s \in S}
<1>1. ids \in SUBSET Nat /\ ids # {}
  BY DEF Rows, IsRow
<1>2. PICK least \in ids : \A id \in ids : least <= id
  BY <1>1, LeastOf
<1>3. \E s \in S : \A other \in S : s.id <= other.id
  BY <1>2
<1> QED BY <1>3 DEF Bulk!first

\* Some copy number is free, so a fresh name is.
LEMMA FreeNameIsFree ==
  ASSUME NEW base, IsName(base), NEW taken, IsFiniteSet(taken)
  PROVE  Bulk!freeName(base, taken) \notin taken /\ IsName(Bulk!freeName(base, taken))
<1> DEFINE n == Cardinality(taken)
           free == {i \in 1..n + 1 : Append(base, i) \notin taken}
<1>1. n \in Nat
  BY FS_CardinalityType
<1>2. PICK any : base \in Seq(any)
  BY DEF IsName
<1>3. ASSUME NEW i \in Nat
      PROVE  /\ Append(base, i) \in Seq(any \cup Nat)
             /\ Append(base, i)[Len(base) + 1] = i
  <2>1. base \in Seq(any \cup Nat)
    BY <1>2
  <2> QED BY <2>1
<1>4. free # {}
  <2> SUFFICES ASSUME \A i \in 1..n + 1 : Append(base, i) \in taken PROVE FALSE
    OBVIOUS
  <2> DEFINE f == [i \in 1..n + 1 |-> Append(base, i)]
  <2>1. f \in [1..n + 1 -> taken]
    OBVIOUS
  <2>2. IsFiniteSet(1..n + 1) /\ Cardinality(1..n + 1) = n + 1
    BY <1>1, FS_Interval
  <2>3. n < Cardinality(1..n + 1)
    BY <1>1, <2>2
  <2> HIDE DEF f, n
  <2>4. \E x, y \in 1..n + 1 : x # y /\ f[x] = f[y]
    BY <2>1, <2>2, <2>3, FS_PigeonHole DEF n
  <2>5. PICK x \in 1..n + 1, y \in 1..n + 1 : x # y /\ f[x] = f[y]
    BY <2>4
  <2>6. Append(base, x) = Append(base, y)
    BY <2>5 DEF f
  <2>7. x \in Nat /\ y \in Nat
    BY <1>1
  <2> QED BY <1>3, <2>5, <2>6, <2>7
<1>5. free \in SUBSET Nat
  BY <1>1
<1>6. PICK least \in free : \A i \in free : least <= i
  BY <1>4, <1>5, LeastOf
<1>7. Bulk!Min(free) \in free
  BY <1>6 DEF Bulk!Min
<1>8. Bulk!freeName(base, taken) = Append(base, Bulk!Min(free))
  BY SameCount DEF Bulk!freeName
<1>9. Bulk!Min(free) \in Nat /\ Append(base, Bulk!Min(free)) \notin taken
  BY <1>5, <1>7
<1> HIDE DEF free
<1>10. Append(base, Bulk!Min(free)) \in Seq(any \cup Nat)
  BY <1>3, <1>9
<1> QED BY <1>8, <1>9, <1>10 DEF IsName

LEMMA ListedNames == Bulk!names(Bulk!Listed) = InUse(server_bulk)
BY DEF Bulk!names, Bulk!Listed, InUse

-----------------------------------------------------------------------------
\* A pair is finite.
LEMMA PairIsFinite == ASSUME NEW a, NEW b PROVE IsFiniteSet({a, b})
<1>1. {a, b} = {a} \cup {b} /\ IsFiniteSet({a})
  BY FS_Singleton
<1>2. IsFiniteSet({a} \cup {b})
  BY <1>1, FS_AddElement
<1> QED BY <1>1, <1>2

LEMMA BulkStarts == Bulk!Init => BulkInv
<1> SUFFICES ASSUME Bulk!Init PROVE BulkInv
  OBVIOUS
<1>1. Rows(server_bulk)
  <2>1. IsFiniteSet(server_bulk)
    BY PairIsFinite DEF Bulk!Init
  <2>2. <<"web">> \in Seq({"web"}) /\ <<"web", 1>> \in Seq({"web", 1})
    OBVIOUS
  <2>3. IsName(<<"web">>) /\ IsName(<<"web", 1>>)
    BY <2>2 DEF IsName
  <2>4. \A service \in server_bulk : IsRow(service)
    BY <2>3 DEF Bulk!Init, IsRow
  <2> QED BY <2>1, <2>4 DEF Rows
<1>2. Rows(services)
  BY <1>1 DEF Bulk!Init
<1>3. run.at = "idle" /\ flights = {} /\ lastId = 2
  BY DEF Bulk!Init, Bulk!Idle
<1>4. Runs /\ Counted
  BY <1>3 DEF Runs, Counted, Underway
<1>5. InUse(server_bulk) \subseteq Bulk!names(services)
  BY DEF Bulk!Init, InUse, Bulk!names
<1> QED BY <1>1, <1>2, <1>3, <1>4, <1>5 DEF BulkInv, Reserved, Underway

\* Nothing of the run, its requests or the services changed; the page's list may be new.
LEMMA ListSteps ==
  ASSUME BulkInv, Bulk!Tick \/ Bulk!Refetch \/ Bulk!clear \/ Bulk!openMove \/ Bulk!closeMove
  PROVE  BulkInv'
<1>1. UNCHANGED <<server_bulk, lastId, run, flights, acted, excused_bulk>>
  BY DEF Bulk!Tick, Bulk!Refetch, Bulk!clear, Bulk!openMove, Bulk!closeMove, Bulk!manager
<1>2. \/ services' = services /\ error_bulk' = error_bulk
      \/ services' = Bulk!Listed /\ error_bulk' = error_bulk
      \/ services' = services /\ ~Bulk!pending
  BY DEF Bulk!Tick, Bulk!Refetch, Bulk!clear, Bulk!openMove, Bulk!closeMove
<1>3. Runs' /\ Rows(server_bulk)'
  BY <1>1 DEF BulkInv, Runs, Underway
<1>4. Rows(Bulk!Listed)
  <2>1. Bulk!Listed \in SUBSET server_bulk
    BY DEF Bulk!Listed
  <2>2. IsFiniteSet(Bulk!Listed)
    BY <2>1, FS_Subset DEF BulkInv, Rows
  <2> QED BY <2>1, <2>2 DEF BulkInv, Rows
<1>5. Rows(services)'
  BY <1>2, <1>4 DEF BulkInv
<1>6. Counted'
  <2>1. CASE error_bulk' = error_bulk
    BY <1>1, <2>1 DEF BulkInv, Counted, Underway
  <2>2. CASE ~Bulk!pending
    BY <1>1, <2>2 DEF Counted, Underway, Bulk!pending
  <2> QED BY <1>2, <2>1, <2>2
<1>7. Reserved'
  <2>1. InUse(server_bulk) \subseteq Bulk!names(services) =>
          InUse(server_bulk) \subseteq Bulk!names(services)'
    BY <1>2, ListedNames
  <2> QED BY <1>1, <2>1 DEF BulkInv, Reserved, Underway
<1> QED BY <1>3, <1>5, <1>6, <1>7 DEF BulkInv

LEMMA MutateKeeps ==
  ASSUME BulkInv, NEW kind \in Kinds, Bulk!Mutate(kind) PROVE BulkInv'
<1> DEFINE targets == {service \in Bulk!chosen : Bulk!needs(kind, service)}
           begun == [at |-> IF targets = {} THEN "settling" ELSE "acting", kind |-> kind,
                     left |-> targets, done |-> <<>>, taken |-> Bulk!names(services)]
<1>1. /\ UNCHANGED <<server_bulk, lastId, services, flights, excused_bulk>>
      /\ run.at = "idle" /\ run' = begun /\ acted' = {}
      /\ error_bulk' = IF targets = {} THEN [Bulk!NoError EXCEPT !.of = kind] ELSE Bulk!NoError
  BY DEF Bulk!Mutate, Bulk!waits, Bulk!pending, Bulk!manager
<1>2. Rows(targets)
  <2>1. targets \in SUBSET services
    BY DEF Bulk!chosen
  <2>2. IsFiniteSet(targets)
    BY <2>1, FS_Subset DEF BulkInv, Rows
  <2> HIDE DEF targets
  <2> QED BY <2>1, <2>2 DEF BulkInv, Rows
<1>3. IsFiniteSet(Bulk!names(services))
  BY NamesAreFinite DEF BulkInv, Rows
<1> HIDE DEF targets
<1>4. /\ run'.at \in {"acting", "settling"} /\ run'.left = targets /\ run'.done = <<>>
      /\ run'.taken = Bulk!names(services)
      /\ DOMAIN run' = {"at", "kind", "left", "done", "taken"}
  BY <1>1
<1>5. Runs'
  <2>1. flights' = {}
    BY <1>1 DEF BulkInv, Runs
  <2>2. run'.done \in Seq({})
    BY <1>4
  <2> QED BY <1>1, <1>2, <1>3, <1>4, <2>1, <2>2 DEF BulkInv, Runs, Underway
<1>6. Bulk!ToSet(<<>>) = {}
  BY DEF Bulk!ToSet
<1>7. Counted'
  <2>1. CASE targets = {}
    <3>1. run'.at = "settling"
      BY <1>1, <2>1
    <3>2. error_bulk'.done = <<>>
      BY <1>1, <2>1 DEF Bulk!NoError
    <3> QED BY <1>1, <1>6, <3>1, <3>2 DEF Counted, Underway
  <2>2. CASE targets # {}
    BY <1>1, <1>4, <1>6, <2>2 DEF Counted, Underway, Bulk!NoError
  <2> QED BY <2>1, <2>2
<1>8. Reserved'
  <2>1. flights' = {}
    BY <1>1 DEF BulkInv, Runs
  <2> QED BY <1>1, <1>4, <2>1 DEF BulkInv, Reserved, Underway
<1>9. Rows(server_bulk)' /\ Rows(services)'
  BY <1>1 DEF BulkInv
<1> QED BY <1>5, <1>7, <1>8, <1>9 DEF BulkInv

LEMMA SendKeeps == ASSUME BulkInv, Bulk!Send PROVE BulkInv'
<1> DEFINE service == Bulk!first(run.left)
           name == IF run.kind = "duplicate" THEN Bulk!freeName(service.name, run.taken)
                   ELSE service.name
           flight == [kind |-> run.kind, service |-> service.id, name |-> name]
<1>1. /\ UNCHANGED <<server_bulk, lastId, services, acted, excused_bulk, error_bulk>>
      /\ run.at = "acting" /\ run.left # {} /\ flights' = flights \cup {flight}
      /\ run' = [run EXCEPT !.at = "waiting", !.taken = @ \cup {name}]
  BY DEF Bulk!Send, Bulk!manager
<1>2. /\ Rows(run.left) /\ IsFiniteSet(run.taken) /\ flights = {}
      /\ DOMAIN run = {"at", "kind", "left", "done", "taken"}
  BY <1>1 DEF BulkInv, Runs, Underway
<1>3. IsName(service.name)
  BY <1>1, <1>2, FirstIsARow DEF Rows, IsRow
<1>4. IsName(name) /\ (run.kind = "duplicate" => name \notin run.taken)
  BY <1>2, <1>3, FreeNameIsFree
<1>5. flight.name = name /\ flight.kind = run.kind
  OBVIOUS
<1> HIDE DEF service, name, flight
<1>6. /\ run'.at = "waiting" /\ run'.left = run.left /\ run'.done = run.done
      /\ run'.taken = run.taken \cup {name}
      /\ DOMAIN run' = {"at", "kind", "left", "done", "taken"}
  BY <1>1, <1>2
<1>7. IsFiniteSet(run'.taken)
  BY <1>2, <1>6, FS_AddElement
<1>8. flights' = {flight}
  BY <1>1, <1>2
<1>9. Runs'
  <2>1. \E any : run'.done \in Seq(any)
    BY <1>1, <1>6 DEF BulkInv, Runs, Underway
  <2>2. Rows(run'.left)
    BY <1>2, <1>6
  <2> QED BY <1>1, <1>4, <1>5, <1>6, <1>7, <1>8, <2>1, <2>2 DEF BulkInv, Runs, Underway
<1>10. Counted'
  BY <1>1, <1>6 DEF BulkInv, Counted, Underway, Bulk!NoError
<1>11. Reserved'
  <2> SUFFICES ASSUME excused_bulk = {}
               PROVE  /\ InUse(server_bulk) \subseteq run'.taken
                      /\ flight.name \in run'.taken
                      /\ flight.kind = "duplicate" => flight.name \notin InUse(server_bulk)
    BY <1>1, <1>6, <1>8 DEF Reserved, Underway
  <2>1. InUse(server_bulk) \subseteq run.taken
    BY <1>1 DEF BulkInv, Reserved, Underway
  <2> QED BY <1>4, <1>5, <1>6, <2>1
<1> QED BY <1>1, <1>9, <1>10, <1>11 DEF BulkInv

\* The manager adds no name but the one it was sent, and keeps a table of services.
LEMMA PerformKeeps ==
  ASSUME NEW flight, IsName(flight.name), Rows(server_bulk), lastId \in Nat, Bulk!Perform(flight)
  PROVE  /\ Rows(server_bulk') /\ lastId' \in Nat
         /\ InUse(server_bulk') \subseteq InUse(server_bulk) \cup {flight.name}
<1> DEFINE service == CHOOSE s \in server_bulk : s.id = flight.service
<1>1. service \in server_bulk
  BY DEF Bulk!Perform
<1>2. CASE UNCHANGED <<server_bulk, lastId>>
  BY <1>2 DEF InUse
<1>3. CASE server_bulk' = server_bulk \ {service} /\ UNCHANGED lastId
  <2>1. IsFiniteSet(server_bulk')
    BY <1>3, FS_RemoveElement DEF Rows
  <2> HIDE DEF service
  <2> QED BY <1>3, <2>1 DEF Rows, InUse
<1>4. CASE /\ lastId' = lastId + 1
           /\ server_bulk' = server_bulk \cup
                {[service EXCEPT !.id = lastId', !.name = flight.name, !.container = FALSE]}
  <2> DEFINE copy == [service EXCEPT !.id = lastId', !.name = flight.name, !.container = FALSE]
  <2> HIDE DEF service
  <2>1. IsRow(service)
    BY <1>1 DEF Rows
  <2>2. /\ DOMAIN copy = DOMAIN service
        /\ copy.id = lastId' /\ copy.name = flight.name
    BY <2>1 DEF IsRow
  <2>3. server_bulk' = server_bulk \cup {copy} /\ lastId' \in Nat
    BY <1>4
  <2> HIDE DEF copy
  <2>4. IsRow(copy)
    BY <2>1, <2>2, <2>3 DEF IsRow
  <2>5. IsFiniteSet(server_bulk')
    BY <2>3, FS_AddElement DEF Rows
  <2> QED BY <2>2, <2>3, <2>4, <2>5 DEF Rows, InUse
<1>5. CASE /\ lastId' = lastId
           /\ server_bulk' = (server_bulk \ {service}) \cup
                {[service EXCEPT !.here = FALSE, !.container = FALSE]}
  <2> DEFINE away == [service EXCEPT !.here = FALSE, !.container = FALSE]
  <2> HIDE DEF service
  <2>1. IsRow(service)
    BY <1>1 DEF Rows
  <2>2. /\ DOMAIN away = DOMAIN service
        /\ away.id = service.id /\ away.name = service.name /\ away.here = FALSE
    BY <2>1 DEF IsRow
  <2>3. server_bulk' = (server_bulk \ {service}) \cup {away}
    BY <1>5
  <2> HIDE DEF away
  <2>4. IsRow(away)
    BY <2>1, <2>2 DEF IsRow
  <2>5. IsFiniteSet(server_bulk \ {service})
    BY FS_RemoveElement DEF Rows
  <2>6. IsFiniteSet(server_bulk')
    BY <2>3, <2>5, FS_AddElement
  <2> QED BY <1>5, <2>2, <2>3, <2>4, <2>6 DEF Rows, InUse
<1> QED BY <1>2, <1>3, <1>4, <1>5 DEF Bulk!Perform, Bulk!manager

\* A service that is taken down is still a row of the table.
LEMMA TakeDownKeeps ==
  ASSUME NEW flight, Rows(server_bulk), lastId \in Nat, Bulk!TakeDown(flight)
  PROVE  Rows(server_bulk') /\ lastId' \in Nat
<1>1. PICK service \in server_bulk :
         server_bulk' = (server_bulk \ {service}) \cup {[service EXCEPT !.container = FALSE]}
  BY DEF Bulk!TakeDown
<1> DEFINE down == [service EXCEPT !.container = FALSE]
<1>2. IsRow(service)
  BY DEF Rows
<1>3. DOMAIN down = DOMAIN service /\ down.id = service.id /\ down.name = service.name
  BY <1>2 DEF IsRow
<1>4. server_bulk' = (server_bulk \ {service}) \cup {down} /\ lastId' = lastId
  BY <1>1 DEF Bulk!TakeDown
<1> HIDE DEF down
<1>5. IsRow(down)
  BY <1>2, <1>3 DEF IsRow
<1>6. IsFiniteSet(server_bulk \ {service})
  BY FS_RemoveElement DEF Rows
<1>7. IsFiniteSet(server_bulk')
  BY <1>4, <1>6, FS_AddElement
<1> QED BY <1>4, <1>5, <1>7 DEF Rows

\* A request that is answered, refused or lost was the only one.
LEMMA LastFlight ==
  ASSUME Runs, NEW flight \in flights
  PROVE  run.at = "waiting" /\ flights = {flight} /\ IsName(flight.name)
BY DEF Runs

\* One more service was acted on, and noted.
LEMMA OneMore ==
  ASSUME NEW done, \E any : done \in Seq(any), NEW x
  PROVE  /\ Bulk!ToSet(Append(done, x)) = Bulk!ToSet(done) \cup {x}
         /\ \E any : Append(done, x) \in Seq(any)
<1>1. PICK any : done \in Seq(any)
  OBVIOUS
<1>2. /\ Append(done, x) \in Seq(any \cup {x})
      /\ DOMAIN Append(done, x) = 1..Len(done) + 1 /\ DOMAIN done = 1..Len(done)
      /\ Len(done) \in Nat
      /\ \A i \in 1..Len(done) : Append(done, x)[i] = done[i]
      /\ Append(done, x)[Len(done) + 1] = x
  <2>1. done \in Seq(any \cup {x})
    BY <1>1
  <2> QED BY <2>1
<1>3. \A i \in DOMAIN Append(done, x) :
          (i \in DOMAIN done /\ Append(done, x)[i] = done[i]) \/ Append(done, x)[i] = x
  BY <1>2
<1>4. DOMAIN done \subseteq DOMAIN Append(done, x) /\ Len(done) + 1 \in DOMAIN Append(done, x)
  BY <1>2
<1>5. \A i \in DOMAIN done : Append(done, x)[i] = done[i]
  BY <1>2
<1> QED BY <1>2, <1>3, <1>4, <1>5 DEF Bulk!ToSet

LEMMA AnswerKeeps ==
  ASSUME BulkInv, NEW flight \in flights, Bulk!Answer(flight) PROVE BulkInv'
<1> DEFINE first == Bulk!first(run.left)
<1>1. /\ Bulk!Perform(flight) /\ acted' = acted \cup {flight.service}
      /\ flights' = flights \ {flight}
      /\ UNCHANGED <<services, error_bulk, excused_bulk>>
      /\ run' = [run EXCEPT !.at = "acting", !.left = @ \ {first},
                            !.done = Append(@, flight.service)]
  BY DEF Bulk!Answer, Bulk!Recorded
<1>2. /\ run.at = "waiting" /\ flights = {flight} /\ IsName(flight.name)
      /\ DOMAIN run = {"at", "kind", "left", "done", "taken"}
  BY LastFlight DEF BulkInv, Runs
<1> HIDE DEF first
<1>3. /\ run'.at = "acting" /\ run'.left = run.left \ {first} /\ run'.taken = run.taken
      /\ run'.done = Append(run.done, flight.service)
      /\ DOMAIN run' = {"at", "kind", "left", "done", "taken"}
  BY <1>1, <1>2
<1>4. flights' = {}
  BY <1>1, <1>2
<1>5. /\ Rows(server_bulk') /\ lastId' \in Nat
      /\ InUse(server_bulk') \subseteq InUse(server_bulk) \cup {flight.name}
  BY <1>1, <1>2, PerformKeeps DEF BulkInv, Runs
<1>6. \E any : run.done \in Seq(any)
  BY <1>2 DEF BulkInv, Runs, Underway
<1>7. Runs'
  <2>1. IsFiniteSet(run.left \ {first}) /\ Rows(run.left)
    BY <1>2, FS_RemoveElement DEF BulkInv, Runs, Underway, Rows
  <2>2. Rows(run'.left)
    BY <1>3, <2>1 DEF Rows
  <2>3. \E any : run'.done \in Seq(any)
    <3>1. \E any : Append(run.done, flight.service) \in Seq(any)
      BY <1>6, OneMore
    <3> QED BY <1>3, <3>1
  <2>4. IsFiniteSet(run'.taken)
    BY <1>2, <1>3 DEF BulkInv, Runs, Underway
  <2> QED BY <1>3, <1>4, <1>5, <2>2, <2>3, <2>4 DEF Runs, Underway
<1>8. Counted'
  <2>1. Bulk!ToSet(run'.done) = Bulk!ToSet(run.done) \cup {flight.service}
    <3>1. Bulk!ToSet(Append(run.done, flight.service)) =
            Bulk!ToSet(run.done) \cup {flight.service}
      BY <1>6, OneMore
    <3> QED BY <1>3, <3>1
  <2> QED BY <1>1, <1>2, <1>3, <2>1 DEF BulkInv, Counted, Underway, Bulk!NoError
<1>9. Reserved'
  BY <1>1, <1>2, <1>3, <1>4, <1>5 DEF BulkInv, Reserved, Underway
<1> QED BY <1>1, <1>5, <1>7, <1>8, <1>9 DEF BulkInv

LEMMA StopKeeps ==
  ASSUME BulkInv, NEW flight \in flights,
         Bulk!Refuse(flight) \/ Bulk!FailPartWay(flight) \/ Bulk!LoseAnswer(flight)
  PROVE  BulkInv'
<1>1. /\ services' = services /\ flights' = flights \ {flight}
      /\ run' = [run EXCEPT !.at = "settling"]
      /\ error_bulk' = [of |-> run.kind, failed |-> flight.service, done |-> run.done]
  BY DEF Bulk!Refuse, Bulk!FailPartWay, Bulk!LoseAnswer, Bulk!Stop
<1>2. /\ run.at = "waiting" /\ flights = {flight} /\ IsName(flight.name)
      /\ DOMAIN run = {"at", "kind", "left", "done", "taken"}
  BY LastFlight DEF BulkInv, Runs
<1>3. run'.at = "settling" /\ DOMAIN run' = {"at", "kind", "left", "done", "taken"}
  BY <1>1, <1>2
<1>4. flights' = {} /\ error_bulk'.done = run.done /\ error_bulk'.failed = flight.service
  BY <1>1, <1>2
<1>5. Rows(server_bulk') /\ lastId' \in Nat
  <2>1. CASE Bulk!Refuse(flight)
    BY <2>1 DEF Bulk!Refuse, Bulk!manager, BulkInv, Runs
  <2>2. CASE Bulk!Perform(flight)
    BY <1>2, <2>2, PerformKeeps DEF BulkInv, Runs
  <2>3. CASE Bulk!TakeDown(flight)
    BY <2>3, TakeDownKeeps DEF BulkInv, Runs
  <2> QED BY <2>1, <2>2, <2>3 DEF Bulk!FailPartWay, Bulk!LoseAnswer
<1>6. Runs'
  BY <1>3, <1>4, <1>5 DEF Runs, Underway
<1>7. Counted'
  <2>1. acted' = acted \/ acted' = acted \cup {flight.service}
    BY DEF Bulk!Refuse, Bulk!FailPartWay, Bulk!LoseAnswer, Bulk!Recorded
  <2>2. Bulk!ToSet(run.done) = acted
    BY <1>2 DEF BulkInv, Counted, Underway
  <2> QED BY <1>3, <1>4, <2>1, <2>2 DEF Counted, Underway
<1>8. Reserved'
  BY <1>3, <1>4 DEF Reserved, Underway
<1> QED BY <1>1, <1>5, <1>6, <1>7, <1>8 DEF BulkInv

LEMMA EndsKeep == ASSUME BulkInv, Bulk!Succeed \/ Bulk!Settle PROVE BulkInv'
<1>1. UNCHANGED <<server_bulk, lastId, error_bulk, flights, acted>>
  BY DEF Bulk!Succeed, Bulk!Settle, Bulk!manager
<1>2. CASE Bulk!Succeed
  <2>1. /\ run.at = "acting" /\ run' = [run EXCEPT !.at = "settling"]
        /\ UNCHANGED <<services, excused_bulk>>
    BY <1>2 DEF Bulk!Succeed
  <2>2. DOMAIN run = {"at", "kind", "left", "done", "taken"} /\ flights = {}
        /\ error_bulk = Bulk!NoError
    BY <2>1 DEF BulkInv, Runs, Counted, Underway
  <2>3. run'.at = "settling" /\ DOMAIN run' = {"at", "kind", "left", "done", "taken"}
    BY <2>1, <2>2
  <2> QED BY <1>1, <2>1, <2>2, <2>3 DEF BulkInv, Runs, Counted, Reserved, Underway, Bulk!NoError
<1>3. CASE Bulk!Settle
  <2>1. run.at = "settling" /\ run'.at = "idle"
    BY <1>3 DEF Bulk!Settle, Bulk!Idle
  <2>2. flights = {}
    BY <2>1 DEF BulkInv, Runs
  <2>3. \/ services' = Bulk!Listed
        \/ services' = services /\ excused_bulk' # {}
    BY <1>3 DEF Bulk!Settle
  <2>4. Rows(Bulk!Listed)
    <3>1. Bulk!Listed \in SUBSET server_bulk
      BY DEF Bulk!Listed
    <3>2. IsFiniteSet(Bulk!Listed)
      BY <3>1, FS_Subset DEF BulkInv, Rows
    <3> QED BY <3>1, <3>2 DEF BulkInv, Rows
  <2>5. Rows(services)' /\ Rows(server_bulk)'
    BY <1>1, <2>3, <2>4 DEF BulkInv
  <2>6. Runs' /\ Counted'
    BY <1>1, <2>1, <2>2 DEF BulkInv, Runs, Counted, Underway
  <2>7. excused_bulk' = {} => InUse(server_bulk') \subseteq Bulk!names(services')
    BY <1>1, <2>3, ListedNames
  <2>8. Reserved'
    BY <1>1, <2>1, <2>2, <2>7 DEF Reserved, Underway, Bulk!names
  <2> QED BY <2>5, <2>6, <2>8 DEF BulkInv
<1> QED BY <1>2, <1>3

LEMMA BulkSteps == BulkInv /\ [Bulk!Next]_(Bulk!vars) => BulkInv'
<1> SUFFICES ASSUME BulkInv, [Bulk!Next]_(Bulk!vars) PROVE BulkInv'
  OBVIOUS
<1>1. CASE UNCHANGED Bulk!vars
  BY <1>1 DEF Bulk!vars, Bulk!counts, BulkInv, Runs, Counted, Reserved, Underway, Bulk!names,
     Bulk!NoError
<1> QED BY <1>1, ListSteps, MutateKeeps, SendKeeps, AnswerKeeps, StopKeeps, EndsKeep DEF Bulk!Next

LEMMA DoneIsNamed == BulkInv => Bulk!ErrorNamesWhatWasDone
BY DEF BulkInv, Counted, Bulk!ErrorNamesWhatWasDone

LEMMA CopiesAreNew == BulkInv => Bulk!CopiesGetFreeNames
BY ListedNames DEF BulkInv, Reserved, Bulk!CopiesGetFreeNames

LEMMA BulkInvHolds ==
  /\ TablesInit => (client = "bulk" => BulkInv)
  /\ (client = "bulk" => BulkInv) /\ [TablesNext]_tablesVars => (client = "bulk" => BulkInv)'
BY BulkStarts, BulkSteps, TableMoves DEF TablesInit

(* The error of a run that stopped half-way names every service the manager changed for it, as *)
(* done or as the one it failed at, and names none as done that was not, even when a refused   *)
(* request had been carried out in part or its answer was lost (service-bulk-actions.tsx).     *)
THEOREM ErrorsNameTheDone == TablesSpec => []ErrorNamesWhatWasDone
<1>1. (client = "bulk" => BulkInv) => ErrorNamesWhatWasDone
  BY DoneIsNamed DEF ErrorNamesWhatWasDone
<1> QED BY <1>1, BulkInvHolds, PTL DEF TablesSpec

(* No duplicate is asked for under a name in use, in one run or in the run after it, while    *)
(* the page's list could be read (service-bulk-actions.tsx).                                  *)
THEOREM CopiesAreNamedAfresh == TablesSpec => []CopiesGetFreeNames
<1>1. (client = "bulk" => BulkInv) => CopiesGetFreeNames
  BY CopiesAreNew DEF CopiesGetFreeNames
<1> QED BY <1>1, BulkInvHolds, PTL DEF TablesSpec

-----------------------------------------------------------------------------
(* The studio. *)

IsSeq(values) == \E any : values \in Seq(any)

\* What is kept, and what a save carries.
Held ==
    /\ DOMAIN db = {"rows", "next"} /\ db.next \in Nat /\ added \in Nat
    /\ IsSeq(inserts)
    /\ save_studio.at \in {"idle", "sent"}
    /\ save_studio.at = "sent" =>
        /\ DOMAIN save_studio = {"at", "left", "whole"}
        /\ DOMAIN save_studio.left = {"updates", "inserts", "deletes"}
        /\ IsSeq(save_studio.left.inserts)

\* The rows inserted so far, with those a save or the grid would insert, were each added.
Within(values) == db.next + Len(values) <= added + Studio!First + 1
Budget ==
    excused_studio = {} =>
        /\ save_studio.at = "idle" => Within(inserts)
        /\ save_studio.at = "sent" => Within(save_studio.left.inserts)
        /\ save_studio.at = "sent" /\ save_studio.whole /\ ~Studio!Written => Within(inserts)

StudioInv == Held /\ Budget

LEMMA StudioCount == ASSUME NEW S PROVE Studio!Cardinality(S) = Cardinality(S)
BY DEF Cardinality, Studio!Cardinality

LEMMA StudioStarts == Studio!Init => StudioInv
<1> SUFFICES ASSUME Studio!Init PROVE StudioInv
  OBVIOUS
<1>1. DOMAIN db = {"rows", "next"} /\ db.next = 3
  BY DEF Studio!Init, Studio!First
<1>2. inserts = <<>> /\ added = 0 /\ save_studio.at = "idle"
  BY DEF Studio!Init, Studio!Idle
<1>3. <<>> \in Seq({}) /\ Len(<<>>) = 0
  OBVIOUS
<1> QED BY <1>1, <1>2, <1>3 DEF StudioInv, Held, Budget, Within, IsSeq, Studio!First

\* The grid may only lose rows to insert, or gain one that was added.
LEMMA GridKeeps ==
  ASSUME StudioInv, UNCHANGED <<db, save_studio, excused_studio>>, IsSeq(inserts'),
         added' \in Nat, Len(inserts') - Len(inserts) <= added' - added, added <= added'
  PROVE  StudioInv'
<1>1. /\ Len(inserts) \in Nat /\ Len(inserts') \in Nat
      /\ save_studio.at = "sent" => Len(save_studio.left.inserts) \in Nat
  BY DEF StudioInv, Held, IsSeq
<1>2. Held'
  BY DEF StudioInv, Held
<1>3. Within(inserts) => Within(inserts)'
  BY <1>1 DEF Within, StudioInv, Held, Studio!First
<1>4. save_studio.at = "sent" =>
        (Within(save_studio.left.inserts) => Within(save_studio.left.inserts)')
  BY <1>1 DEF Within, StudioInv, Held, Studio!First
<1>5. Budget'
  BY <1>3, <1>4 DEF StudioInv, Budget, Studio!Written, Studio!Inserted, Studio!Updated
<1> QED BY <1>2, <1>5 DEF StudioInv

LEMMA ReadsKeep ==
  ASSUME StudioInv, Studio!ReadServer \/ Studio!ReadLands \/ Studio!ReadFails PROVE StudioInv'
<1>1. UNCHANGED <<db, inserts, save_studio, added>>
  BY DEF Studio!ReadServer, Studio!ReadLands, Studio!ReadFails, Studio!grid, Studio!history
<1>2. Held'
  BY <1>1 DEF StudioInv, Held
<1>3. excused_studio' = excused_studio \/ excused_studio' # {}
  BY DEF Studio!ReadServer, Studio!ReadLands, Studio!ReadFails, Studio!history
<1>4. Budget'
  BY <1>1, <1>3 DEF StudioInv, Budget, Within, Studio!Written, Studio!Inserted, Studio!Updated
<1> QED BY <1>2, <1>4 DEF StudioInv

LEMMA GridSteps ==
  ASSUME StudioInv, Studio!Turn \/ Studio!edit \/ Studio!addRow \/ Studio!toggle \/
                    Studio!onClear \/ Studio!deleteSelected
  PROVE  StudioInv'
<1>1. UNCHANGED <<db, save_studio, excused_studio>>
  BY DEF Studio!Turn, Studio!edit, Studio!addRow, Studio!toggle, Studio!onClear,
     Studio!deleteSelected, Studio!history
<1>2. IsSeq(inserts) /\ Len(inserts) \in Nat /\ added \in Nat
  BY DEF StudioInv, Held, IsSeq
<1>3. CASE inserts' = inserts /\ added' = added
  BY <1>1, <1>2, <1>3, GridKeeps
<1>4. CASE Studio!addRow
  <2>1. PICK v : inserts' = Append(inserts, v) /\ added' = added + 1
    BY <1>4 DEF Studio!addRow
  <2>2. PICK any : inserts \in Seq(any)
    BY <1>2 DEF IsSeq
  <2>3. inserts \in Seq(any \cup {v})
    BY <2>2
  <2>4. inserts' \in Seq(any \cup {v}) /\ Len(inserts') = Len(inserts) + 1
    BY <2>1, <2>3
  <2>5. IsSeq(inserts')
    BY <2>4 DEF IsSeq
  <2> QED BY <1>1, <1>2, <2>1, <2>4, <2>5, GridKeeps
<1>5. CASE \E i \in DOMAIN inserts : \E v : inserts' = [inserts EXCEPT ![i] = v] /\ added' = added
  <2>0. PICK i \in DOMAIN inserts : \E v : inserts' = [inserts EXCEPT ![i] = v] /\ added' = added
    BY <1>5
  <2>1. PICK v : inserts' = [inserts EXCEPT ![i] = v] /\ added' = added
    BY <2>0
  <2>2. PICK any : inserts \in Seq(any)
    BY <1>2 DEF IsSeq
  <2>3. inserts \in Seq(any \cup {v})
    BY <2>2
  <2>4. inserts' \in Seq(any \cup {v}) /\ Len(inserts') = Len(inserts)
    BY <2>1, <2>3
  <2>5. IsSeq(inserts')
    BY <2>4 DEF IsSeq
  <2> QED BY <1>1, <1>2, <2>1, <2>4, <2>5, GridKeeps
<1>6. CASE Studio!deleteSelected
  <2> DEFINE kept   == {i \in DOMAIN inserts : Studio!New(i) \notin selected}
             nth(i) == CHOOSE k \in kept : Studio!Cardinality({j \in kept : j <= k}) = i
             n      == Studio!Cardinality(kept)
             all    == {inserts[nth(i)] : i \in 1..n}
  <2>1. inserts' = [i \in 1..n |-> inserts[nth(i)]] /\ added' = added
    BY <1>6 DEF Studio!deleteSelected, Studio!history
  <2>2. n \in Nat /\ n <= Len(inserts)
    <3>1. kept \in SUBSET (1..Len(inserts))
      <4>1. DOMAIN inserts = 1..Len(inserts)
        BY <1>2 DEF IsSeq
      <4> QED BY <4>1
    <3>2. IsFiniteSet(1..Len(inserts)) /\ Cardinality(1..Len(inserts)) = Len(inserts)
      <4>1. Len(inserts) \in Int /\ 1 \in Int
        BY <1>2
      <4>2. IsFiniteSet(1..Len(inserts))
        BY <4>1, FS_Interval
      <4>3. Cardinality(1..Len(inserts)) = IF 1 > Len(inserts) THEN 0 ELSE Len(inserts) - 1 + 1
        BY <4>1, FS_Interval
      <4> QED BY <1>2, <4>2, <4>3
    <3> HIDE DEF kept
    <3>3. IsFiniteSet(kept) /\ Cardinality(kept) <= Len(inserts)
      BY <3>1, <3>2, FS_Subset
    <3>4. Cardinality(kept) \in Nat
      BY <3>3, FS_CardinalityType
    <3> QED BY <3>3, <3>4, StudioCount
  <2>3. inserts' \in [1..n -> all]
    BY <2>1
  <2> HIDE DEF n, all
  <2>4. inserts' \in Seq(all) /\ Len(inserts') = n
    BY <2>2, <2>3
  <2>5. IsSeq(inserts')
    BY <2>4 DEF IsSeq
  <2> QED BY <1>1, <1>2, <2>1, <2>2, <2>4, <2>5, GridKeeps
<1>7. CASE Studio!edit
  <2>1. added' = added
    BY <1>7 DEF Studio!edit, Studio!history
  <2>2. inserts' = inserts \/ \E i \in DOMAIN inserts : \E v : inserts' = [inserts EXCEPT ![i] = v]
    BY <1>7 DEF Studio!edit
  <2> QED BY <1>3, <1>5, <2>1, <2>2
<1>8. CASE Studio!Turn \/ Studio!toggle \/ Studio!onClear
  <2>1. inserts' = inserts /\ added' = added
    BY <1>8 DEF Studio!Turn, Studio!toggle, Studio!onClear, Studio!grid, Studio!history
  <2> QED BY <1>3, <2>1
<1> QED BY <1>4, <1>6, <1>7, <1>8

LEMMA DiscardKeeps == ASSUME StudioInv, Studio!Discard PROVE StudioInv'
<1>1. inserts' = <<>> /\ added' = added /\ UNCHANGED <<db, save_studio, excused_studio>>
  BY DEF Studio!Discard, Studio!discard, Studio!history
<1>2. IsSeq(inserts') /\ Len(inserts') = 0
  <2>1. <<>> \in Seq({}) /\ Len(<<>>) = 0
    OBVIOUS
  <2> QED BY <1>1, <2>1 DEF IsSeq
<1>3. Len(inserts) \in Nat /\ added \in Nat
  BY DEF StudioInv, Held, IsSeq
<1> QED BY <1>1, <1>2, <1>3, GridKeeps

LEMMA SaveKeeps == ASSUME StudioInv, Studio!Save PROVE StudioInv'
<1>1. /\ save_studio.at = "idle" /\ UNCHANGED <<db, inserts, added, excused_studio>>
      /\ save_studio' = [at |-> "sent", left |-> Studio!Changes, whole |-> TRUE]
  BY DEF Studio!Save, Studio!Idle, Studio!grid, Studio!history
<1>2. /\ save_studio'.at = "sent" /\ DOMAIN save_studio' = {"at", "left", "whole"}
      /\ DOMAIN save_studio'.left = {"updates", "inserts", "deletes"}
      /\ save_studio'.left.inserts = inserts
  BY <1>1 DEF Studio!Changes
<1> QED BY <1>1, <1>2 DEF StudioInv, Held, Budget, Within

\* What an insert adds to the table is what the save has less to insert.
LEMMA InsertCounts ==
  ASSUME Held, save_studio.at = "sent", UNCHANGED <<inserts, added, excused_studio>>,
         NEW values, IsSeq(values), NEW rest, IsSeq(rest), excused_studio = {} => Within(values),
         DOMAIN db' = {"rows", "next"}, db'.next = db.next + Len(values) - Len(rest),
         save_studio'.at = "sent", DOMAIN save_studio' = {"at", "left", "whole"},
         DOMAIN save_studio'.left = {"updates", "inserts", "deletes"},
         save_studio'.left.inserts = rest, Len(rest) <= Len(values),
         ~save_studio'.whole \/ Studio!Written'
  PROVE  StudioInv'
<1>1. Len(values) \in Nat /\ Len(rest) \in Nat
  BY DEF IsSeq
<1>2. db'.next \in Nat
  BY <1>1 DEF Held
<1>3. Held'
  BY <1>2 DEF Held
<1>4. Budget'
  BY <1>1 DEF Held, Budget, Within, Studio!First
<1> QED BY <1>3, <1>4 DEF StudioInv

LEMMA TransactKeeps == ASSUME StudioInv, Studio!Transact PROVE StudioInv'
<1> DEFINE values == save_studio.left.inserts
<1>1. /\ save_studio.at = "sent" /\ UNCHANGED <<inserts, added, excused_studio>>
      /\ db' = Studio!remove(Studio!insert(Studio!update(db, save_studio.left.updates), values),
                             save_studio.left.deletes)
      /\ save_studio' = [save_studio EXCEPT !.left = Studio!Nothing]
  BY DEF Studio!Transact, Studio!grid, Studio!history
<1>2. /\ DOMAIN db = {"rows", "next"} /\ IsSeq(values)
      /\ DOMAIN save_studio = {"at", "left", "whole"}
  BY <1>1 DEF StudioInv, Held
<1> DEFINE one == Studio!update(db, save_studio.left.updates)
           two == Studio!insert(one, values)
<1>3. DOMAIN one = {"rows", "next"} /\ one.next = db.next
  BY <1>2 DEF Studio!update
<1>4. DOMAIN two = {"rows", "next"} /\ two.next = one.next + Len(values)
  BY DEF Studio!insert
<1> HIDE DEF two, one, values
<1>5. DOMAIN db' = {"rows", "next"} /\ db'.next = two.next
  BY <1>1, <1>4 DEF Studio!remove, one, two
<1>6. /\ save_studio'.at = "sent" /\ DOMAIN save_studio' = {"at", "left", "whole"}
      /\ save_studio'.left = Studio!Nothing
  BY <1>1, <1>2
<1>7. /\ DOMAIN Studio!Nothing = {"updates", "inserts", "deletes"}
      /\ Studio!Nothing.updates = <<>> /\ Studio!Nothing.inserts = <<>>
      /\ Studio!Nothing.deletes = {}
  BY DEF Studio!Nothing
<1>8. Studio!Written'
  <2>1. DOMAIN <<>> = {}
    OBVIOUS
  <2> QED BY <1>6, <1>7, <2>1 DEF Studio!Written, Studio!Inserted, Studio!Updated
<1>9. Len(values) \in Nat /\ IsSeq(<<>>) /\ Len(<<>>) = 0
  <2>1. <<>> \in Seq({}) /\ Len(<<>>) = 0
    OBVIOUS
  <2> QED BY <1>2, <2>1 DEF IsSeq
<1>10. excused_studio = {} => Within(values)
  BY <1>1 DEF StudioInv, Budget, values
<1>11. db'.next = db.next + Len(values) - Len(<<>>) /\ Len(<<>>) <= Len(values)
  BY <1>3, <1>4, <1>5, <1>9 DEF StudioInv, Held
<1> QED BY <1>1, <1>2, <1>5, <1>6, <1>7, <1>8, <1>9, <1>10, <1>11, InsertCounts DEF StudioInv

LEMMA ApplyKeeps == ASSUME StudioInv, Studio!ApplyOne PROVE StudioInv'
<1> DEFINE values == save_studio.left.inserts
           left   == save_studio.left
<1>1. /\ save_studio.at = "sent" /\ UNCHANGED <<inserts, added, excused_studio>>
  BY DEF Studio!ApplyOne, Studio!grid, Studio!history
<1>2. /\ DOMAIN db = {"rows", "next"} /\ IsSeq(values) /\ db.next \in Nat
      /\ DOMAIN save_studio = {"at", "left", "whole"}
      /\ DOMAIN left = {"updates", "inserts", "deletes"}
  BY <1>1 DEF StudioInv, Held
<1>3. Len(values) \in Nat
  BY <1>2 DEF IsSeq
<1>4. excused_studio = {} => Within(values)
  BY <1>1 DEF StudioInv, Budget
<1>5. CASE \E k \in DOMAIN left.updates :
             /\ db' = Studio!update(db, Studio!Restrict(left.updates, {k}))
             /\ save_studio' = [save_studio EXCEPT
                  !.left.updates = Studio!Restrict(@, DOMAIN @ \ {k}), !.whole = FALSE]
  <2>1. DOMAIN db' = {"rows", "next"} /\ db'.next = db.next
    BY <1>2, <1>5 DEF Studio!update
  <2>2. /\ save_studio'.at = "sent" /\ DOMAIN save_studio' = {"at", "left", "whole"}
        /\ DOMAIN save_studio'.left = {"updates", "inserts", "deletes"}
        /\ save_studio'.left.inserts = values /\ ~save_studio'.whole
    BY <1>1, <1>2, <1>5
  <2>3. db'.next = db.next + Len(values) - Len(values) /\ Len(values) <= Len(values)
    BY <1>2, <1>3, <2>1
  <2> HIDE DEF values, left
  <2> QED BY <1>1, <1>2, <1>4, <2>1, <2>2, <2>3, InsertCounts DEF StudioInv
<1>6. CASE /\ values # <<>>
           /\ db' = Studio!insert(db, <<Head(values)>>)
           /\ save_studio' = [save_studio EXCEPT !.left.inserts = Tail(@), !.whole = FALSE]
  <2>1. DOMAIN db' = {"rows", "next"} /\ db'.next = db.next + 1
    BY <1>2, <1>6 DEF Studio!insert
  <2>2. /\ save_studio'.at = "sent" /\ DOMAIN save_studio' = {"at", "left", "whole"}
        /\ DOMAIN save_studio'.left = {"updates", "inserts", "deletes"}
        /\ save_studio'.left.inserts = Tail(values) /\ ~save_studio'.whole
    BY <1>1, <1>2, <1>6
  <2> HIDE DEF values, left
  <2>3. IsSeq(Tail(values)) /\ Len(Tail(values)) = Len(values) - 1
    <3>1. PICK any : values \in Seq(any)
      BY <1>2 DEF IsSeq
    <3>2. Tail(values) \in Seq(any) /\ Len(Tail(values)) = Len(values) - 1
      BY <1>6, <3>1
    <3> QED BY <3>2 DEF IsSeq
  <2>4. db'.next = db.next + Len(values) - Len(Tail(values)) /\ Len(Tail(values)) <= Len(values)
    <3> DEFINE whole == Len(values)
               short == Len(Tail(values))
    <3>1. whole \in Nat /\ short = whole - 1 /\ db.next \in Nat /\ db'.next = db.next + 1
      BY <1>2, <1>3, <2>1, <2>3
    <3> HIDE DEF whole, short
    <3>2. db'.next = db.next + whole - short /\ short <= whole
      BY <3>1
    <3> QED BY <3>2 DEF whole, short
  <2> QED BY <1>1, <1>2, <1>4, <2>1, <2>2, <2>3, <2>4, InsertCounts DEF StudioInv
<1>7. CASE \E k \in left.deletes :
             /\ db' = Studio!remove(db, {k})
             /\ save_studio' = [save_studio EXCEPT !.left.deletes = @ \ {k}, !.whole = FALSE]
  <2>1. DOMAIN db' = {"rows", "next"} /\ db'.next = db.next
    BY <1>2, <1>7 DEF Studio!remove
  <2>2. /\ save_studio'.at = "sent" /\ DOMAIN save_studio' = {"at", "left", "whole"}
        /\ DOMAIN save_studio'.left = {"updates", "inserts", "deletes"}
        /\ save_studio'.left.inserts = values /\ ~save_studio'.whole
    BY <1>1, <1>2, <1>7
  <2>3. db'.next = db.next + Len(values) - Len(values) /\ Len(values) <= Len(values)
    BY <1>2, <1>3, <2>1
  <2> HIDE DEF values, left
  <2> QED BY <1>1, <1>2, <1>4, <2>1, <2>2, <2>3, InsertCounts DEF StudioInv
<1>8. CASE Studio!ApplyOne
  BY <1>5, <1>6, <1>7, <1>8 DEF Studio!ApplyOne, Studio!Inserted, Studio!Updated
<1> QED BY <1>8

LEMMA SaveEnds == ASSUME StudioInv, Studio!SaveAnswered \/ Studio!SaveFails PROVE StudioInv'
<1>1. /\ save_studio.at = "sent" /\ save_studio'.at = "idle" /\ UNCHANGED <<db, added>>
  <2>1. CASE Studio!SaveAnswered
    BY <2>1 DEF Studio!SaveAnswered, Studio!Idle, Studio!history
  <2>2. CASE Studio!SaveFails
    BY <2>2 DEF Studio!SaveFails, Studio!Idle
  <2> QED BY <2>1, <2>2
<1>2. CASE Studio!SaveAnswered
  <2>1. inserts' = <<>> /\ Studio!Written /\ excused_studio' = excused_studio
    BY <1>2 DEF Studio!SaveAnswered, Studio!discard, Studio!history
  <2>2. save_studio.left.inserts = <<>>
    BY <2>1 DEF Studio!Written, Studio!Inserted
  <2>3. IsSeq(<<>>)
    <3>1. <<>> \in Seq({})
      OBVIOUS
    <3> QED BY <3>1 DEF IsSeq
  <2>4. Held'
    BY <1>1, <2>1, <2>3 DEF StudioInv, Held
  <2>5. Budget'
    BY <1>1, <2>1, <2>2 DEF StudioInv, Budget, Within
  <2> QED BY <2>4, <2>5 DEF StudioInv
<1>3. CASE Studio!SaveFails
  <2>1. inserts' = inserts
    BY <1>3 DEF Studio!SaveFails, Studio!grid
  <2>2. Held'
    BY <1>1, <2>1 DEF StudioInv, Held
  <2>3. excused_studio' = {} => excused_studio = {} /\ ~Studio!Written /\ save_studio.whole
    <3>1. CASE Studio!Written
      BY <1>3, <3>1 DEF Studio!SaveFails
    <3>2. CASE ~Studio!Written /\ ~save_studio.whole
      BY <1>3, <3>2 DEF Studio!SaveFails
    <3>3. CASE ~Studio!Written /\ save_studio.whole
      BY <1>3, <3>3 DEF Studio!SaveFails
    <3> QED BY <3>1, <3>2, <3>3
  <2>4. Budget'
    BY <1>1, <2>1, <2>3 DEF StudioInv, Budget, Within
  <2> QED BY <2>2, <2>4 DEF StudioInv
<1> QED BY <1>2, <1>3

LEMMA StudioSteps == StudioInv /\ [Studio!Next]_(Studio!vars) => StudioInv'
<1> SUFFICES ASSUME StudioInv, [Studio!Next]_(Studio!vars) PROVE StudioInv'
  OBVIOUS
<1>1. CASE UNCHANGED Studio!vars
  <2>1. UNCHANGED <<db, inserts, save_studio, added, excused_studio>>
    BY <1>1 DEF Studio!vars, Studio!grid, Studio!history
  <2>2. Held'
    BY <2>1 DEF StudioInv, Held
  <2>3. Budget'
    BY <2>1 DEF StudioInv, Budget, Within, Studio!Written, Studio!Inserted, Studio!Updated
  <2> QED BY <2>2, <2>3 DEF StudioInv
<1> QED BY <1>1, ReadsKeep, GridSteps, DiscardKeeps, SaveKeeps, TransactKeeps, ApplyKeeps, SaveEnds
       DEF Studio!Next

LEMMA WrittenOnce == StudioInv => Studio!NothingWrittenTwice
<1> SUFFICES ASSUME StudioInv, excused_studio = {} PROVE db.next - (Studio!First + 1) <= added
  BY DEF Studio!NothingWrittenTwice
<1>1. db.next \in Nat /\ added \in Nat /\ Len(inserts) \in Nat
  BY DEF StudioInv, Held, IsSeq
<1>2. CASE save_studio.at = "idle"
  BY <1>1, <1>2 DEF StudioInv, Budget, Within, Studio!First
<1>3. CASE save_studio.at = "sent"
  <2>1. Len(save_studio.left.inserts) \in Nat
    BY <1>3 DEF StudioInv, Held, IsSeq
  <2> QED BY <1>1, <1>3, <2>1 DEF StudioInv, Budget, Within, Studio!First
<1> QED BY <1>2, <1>3 DEF StudioInv, Held

LEMMA StudioInvHolds ==
  /\ TablesInit => (client = "studio" => StudioInv)
  /\ (client = "studio" => StudioInv) /\ [TablesNext]_tablesVars =>
       (client = "studio" => StudioInv)'
BY StudioStarts, StudioSteps, TableMoves DEF TablesInit

(* A row the reader added once is inserted at most once, however many saves are refused and   *)
(* retried, on a SQL engine and on MongoDB (studio.index.tsx).                                 *)
THEOREM AddedRowsAreInsertedOnce == TablesSpec => []NothingWrittenTwice
<1>1. (client = "studio" => StudioInv) => NothingWrittenTwice
  BY WrittenOnce DEF NothingWrittenTwice
<1> QED BY <1>1, StudioInvHolds, PTL DEF TablesSpec
=============================================================================
