------------------------------ MODULE AuthGate ------------------------------
(* Who may see which page: the gate around every route, the two forms outside it, and *)
(* the answers it waits for.  The setup status is a query, the session a store of its   *)
(* own; either may be refreshed, late or unanswered on its own, and the gate and a form *)
(* may both ask for a navigation.  Passwords and setup tokens are right or refused.     *)
EXTENDS Naturals

CONSTANTS MaxFaults, MaxVisits    \* bounds of the model

VARIABLES
    users, cookie,            \* the auth service: accounts, and whether this browser is signed in
    setup, session,           \* the gate's two answers
    pathname, next,           \* the location and its ?next=
    form,                     \* the sign-in or set-up form's mutation
    wanted,                   \* history: the page the visitor asked for last
    bound,                    \* history: where a sign-in leads that the visitor did not wait for
    stale,                    \* history: an answer older than the state it describes was left standing
    faults, visits

service  == <<users, cookie>>
answers  == <<setup, session>>
location == <<pathname, next>>
counts   == <<faults, visits>>
asked    == <<wanted, bound>>
vars     == <<service, answers, location, form, asked, stale, counts>>

Outside  == {"/login", "/setup"}
Paths    == Outside \cup {"/", "/deep", "/shared"}
Nowhere  == "none"
Unasked  == "unknown"
Idle     == [at |-> "idle"]
Home(path) == IF path \in Outside \cup {Nowhere} THEN "/" ELSE path

needsSetup    == setup = "needed"
authenticated == session = "user"
resolved      == setup # Unasked /\ session # Unasked
open          == pathname = "/shared"

Init ==
    /\ users \in {0, 1} /\ cookie \in {FALSE, users = 1}
    /\ setup = Unasked /\ session = Unasked
    /\ pathname \in Paths /\ next = Nowhere
    /\ form = Idle /\ wanted = Home(pathname) /\ bound = Nowhere /\ stale = {}
    /\ faults = 0 /\ visits = 0

Answer(count)   == IF count = 0 THEN "needed" ELSE "done"
Session(signed) == IF signed THEN "user" ELSE "nobody"
Go(path, search) == pathname' = path /\ next' = search

-----------------------------------------------------------------------------
(* The answers.  A status query that fails leaves what was there. *)
AskSetup ==
    /\ setup # Answer(users)
    /\ \/ setup' = Answer(users) /\ stale' = stale \ {"setup"} /\ UNCHANGED faults
       \/ faults < MaxFaults /\ faults' = faults + 1 /\ stale' = stale \cup {"setup"} /\ UNCHANGED setup
    /\ UNCHANGED <<service, session, location, form, asked, visits>>

AskSession ==
    /\ session # Session(cookie)
    /\ session' = Session(cookie)
    /\ UNCHANGED <<service, setup, location, form, asked, stale, counts>>

-----------------------------------------------------------------------------
(* The gate's effect: at most one of the three destinations, from what it knows now. *)
ToSetup == resolved /\ needsSetup /\ pathname # "/setup"
ToLogin == resolved /\ ~needsSetup /\ ~authenticated /\ ~open /\ pathname # "/login"
ToApp   == resolved /\ authenticated /\ pathname \in Outside /\ ~ToSetup

Redirect ==
    /\ \/ ToSetup /\ Go("/setup", Nowhere)
       \/ ToLogin /\ Go("/login", IF pathname = "/" THEN Nowhere ELSE pathname)
       \/ ToApp /\ Go(IF next = Nowhere THEN "/" ELSE next, Nowhere)
    /\ wanted' = IF ToSetup /\ users = 0 THEN "/" ELSE wanted
    /\ UNCHANGED <<service, answers, form, bound, stale, counts>>

\* Nothing of the app is mounted while a redirect is due.
children == resolved /\ ~ToSetup /\ ~ToLogin

-----------------------------------------------------------------------------
(* The forms.  Each keeps the `next` it was rendered with. *)
Submit ==
    /\ children /\ pathname \in Outside /\ form = Idle /\ ~cookie
    /\ form' = [at |-> "sent", from |-> pathname, next |-> IF pathname = "/login" THEN next ELSE Nowhere]
    /\ UNCHANGED <<service, answers, location, asked, stale, counts>>

Accept ==
    /\ form.at = "sent"
    /\ form.from = "/setup" => users = 0
    /\ form.from = "/login" => users = 1
    /\ users' = 1 /\ cookie' = TRUE
    /\ form' = [form EXCEPT !.at = "accepted"]
    /\ UNCHANGED <<answers, location, asked, stale, counts>>

Reject ==
    /\ form.at = "sent"
    /\ faults < MaxFaults \/ (form.from = "/setup" /\ users = 1) \/ (form.from = "/login" /\ users = 0)
    /\ faults' = IF faults < MaxFaults THEN faults + 1 ELSE faults
    /\ form' = Idle
    /\ UNCHANGED <<service, answers, location, asked, stale, visits>>

\* Fault: the form forgets the page that was asked for.
Done_Home ==
    /\ form.at = "accepted"
    /\ setup = Answer(users) \/ "setup" \in stale
    /\ form' = Idle
    /\ Go("/", Nowhere)
    /\ UNCHANGED <<service, answers, asked, stale, counts>>

\* onSuccess waits for every mounted query, the setup status among them, then navigates.
Done ==
    /\ form.at = "accepted"
    /\ setup = Answer(users) \/ "setup" \in stale
    /\ form' = Idle
    /\ Go(IF form.next = Nowhere THEN "/" ELSE form.next, Nowhere)
    /\ UNCHANGED <<service, answers, asked, stale, counts>>

-----------------------------------------------------------------------------
\* The visitor follows a link.  The gate may have let them in while the form they signed in
\* with still waits for its queries: it will navigate all the same.
Visit ==
    /\ children /\ ~(pathname \in Outside) /\ visits < MaxVisits
    /\ visits' = visits + 1
    /\ \E path \in Paths \ {pathname} : Go(path, Nowhere) /\ wanted' = Home(path)
    /\ bound' = IF form = Idle THEN Nowhere ELSE Home(form.next)
    /\ UNCHANGED <<service, answers, form, stale, faults>>

\* The session ends on the server.
Expire ==
    /\ cookie /\ faults < MaxFaults
    /\ faults' = faults + 1
    /\ cookie' = FALSE
    /\ UNCHANGED <<users, answers, location, form, asked, stale, visits>>

Next == AskSetup \/ AskSession \/ Redirect \/ Submit \/ Accept \/ Reject \/ Done \/ Visit \/ Expire
Spec == Init /\ [][Next]_vars

-----------------------------------------------------------------------------
TypeOK ==
    /\ users \in {0, 1} /\ cookie \in BOOLEAN
    /\ setup \in {Unasked, "needed", "done"} /\ session \in {Unasked, "user", "nobody"}
    /\ pathname \in Paths /\ next \in Paths \cup {Nowhere} /\ wanted \in Paths \ Outside
    /\ bound \in (Paths \ Outside) \cup {Nowhere}
    /\ form.at \in {"idle", "sent", "accepted"}

(* "A deep link, such as an MCP client's consent request, survives signing in"           *)
(* (auth-gate.tsx:39): once the answers are in and no redirect is due, a signed-in        *)
(* visitor is on the page asked for last, whichever of the form and the gate navigated,   *)
(* and whether the session or the setup status was answered first.  A visitor who moved   *)
(* on before the form was done may be pulled back, and then only to the page that the     *)
(* sign-in was for.                                                                       *)
DeepLinkSurvives ==
    /\ resolved /\ authenticated /\ cookie /\ form = Idle
    /\ setup = Answer(users) /\ ~ToSetup /\ ~ToApp
    => pathname \in {wanted, bound}
=============================================================================
