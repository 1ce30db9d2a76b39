----------------------------- MODULE BulkActions ----------------------------
(* The project page's selection and the actions it runs over it: one request per      *)
(* service, in order, stopping at the first that fails, then a re-read of the list.    *)
(* A name is the one it was copied from with the number of the copy appended, so       *)
(* <<"web", 1>> is web-copy and <<"web", 2>> is web-copy-2.                            *)
EXTENDS Integers, Sequences, FiniteSets, SequencesExt

CONSTANTS Kinds,                            \* the actions on offer
          MaxRuns, MaxFaults, MaxServices    \* bounds of the model

VARIABLES
    server, lastId,               \* the manager's services, here and moved away, and the last id it gave out
    services, picked,             \* the cached list and the rows that were ticked
    run,                          \* the mutation
    moving,                       \* the move dialog is open
    error,                        \* what the last run failed with: at which service, after which ones
    flights,                      \* requests on their way
    acted,                        \* history: the services the manager changed for the current run
    excused,                      \* history: why the list may miss a name
    runs, faults

counts  == <<runs, faults>>
vars    == <<server, lastId, services, picked, run, moving, error, flights, acted, excused, counts>>

Idle    == [at |-> "idle", kind |-> "none"]
NoError == [of |-> "none", failed |-> 0, done |-> <<>>]
names(rows) == {service.name : service \in rows}
Listed  == {service \in server : service.here}
manager == <<server, lastId>>

\* A name is given out once: to the first copy number nothing holds.
freeName(base, taken) ==
    LET free == {n \in 1..Cardinality(taken) + 1 : Append(base, n) \notin taken}
    IN Append(base, Min(free))

\* The manager refuses a deploy without a source and a start or stop without a container.
needs(kind, service) ==
    CASE kind = "deploy" -> service.source
      [] kind \in {"start", "stop"} -> service.container
      [] OTHER -> TRUE

chosen   == {service \in services : service.id \in picked}
first(rows) == CHOOSE service \in rows : \A other \in rows : service.id <= other.id
pending  == run.at # "idle"
\* A running action disables the others and leaves its own button inert.
waits(kind) == pending

Init ==
    /\ server = {[id |-> 1, name |-> <<"web">>, here |-> TRUE, source |-> TRUE, container |-> TRUE],
                 [id |-> 2, name |-> <<"web", 1>>, here |-> TRUE, source |-> FALSE, container |-> TRUE]}
    /\ lastId = 2 /\ services = server /\ picked = {}
    /\ run = Idle /\ moving = FALSE
    /\ error = NoError /\ flights = {} /\ acted = {} /\ excused = {}
    /\ runs = 0 /\ faults = 0

-----------------------------------------------------------------------------
Tick ==
    /\ \E service \in services :
          picked' = IF service.id \in picked THEN picked \ {service.id} ELSE picked \cup {service.id}
    /\ UNCHANGED <<manager, services, run, moving, error, flights, acted, excused, counts>>

\* A run over nothing it can act on fails before its first request.
Mutate(kind) ==
    LET targets == {service \in chosen : needs(kind, service)} IN
    /\ ~waits(kind) /\ chosen # {} /\ runs < MaxRuns
    /\ moving = (kind = "move")
    /\ runs' = runs + 1
    /\ error' = IF targets = {} THEN [NoError EXCEPT !.of = kind] ELSE NoError
    /\ run' = [at |-> IF targets = {} THEN "settling" ELSE "acting", kind |-> kind,
               left |-> targets, done |-> <<>>, taken |-> names(services)]
    /\ acted' = {}
    /\ UNCHANGED <<manager, services, picked, moving, flights, excused, faults>>

Send ==
    /\ run.at = "acting" /\ run.left # {}
    /\ LET service == first(run.left)
           name    == IF run.kind = "duplicate" THEN freeName(service.name, run.taken) ELSE service.name
       IN /\ flights' = flights \cup {[kind |-> run.kind, service |-> service.id, name |-> name]}
          /\ run' = [run EXCEPT !.at = "waiting", !.taken = @ \cup {name}]
    /\ UNCHANGED <<manager, services, picked, moving, error, acted, excused, counts>>

\* What the manager does with one request; it may refuse any of them.
Refuses(flight) ==
    \/ faults < MaxFaults
    \/ flight.service \notin {service.id : service \in server}
    \/ flight.kind = "duplicate" /\ flight.name \in names(Listed)

Perform(flight) ==
    LET service == CHOOSE s \in server : s.id = flight.service IN
    /\ flight.service \in {s.id : s \in server}
    /\ \/ /\ flight.kind \in {"start", "stop", "deploy"} /\ UNCHANGED manager
       \/ /\ flight.kind = "delete"
          /\ server' = server \ {service} /\ UNCHANGED lastId
       \/ /\ flight.kind = "duplicate" /\ flight.name \notin names(Listed) /\ lastId < MaxServices
          /\ lastId' = lastId + 1
          /\ server' = server \cup {[service EXCEPT !.id = lastId', !.name = flight.name, !.container = FALSE]}
       \/ /\ flight.kind = "move"
          /\ server' = (server \ {service}) \cup {[service EXCEPT !.here = FALSE, !.container = FALSE]}
          /\ UNCHANGED lastId

Recorded(flight) == acted' = acted \cup {flight.service}

\* Fault: a service that was acted on is not noted.
Answer_NotNoted(flight) ==
    /\ Perform(flight) /\ Recorded(flight)
    /\ flights' = flights \ {flight}
    /\ run' = [run EXCEPT !.at = "acting", !.left = @ \ {first(@)}]
    /\ UNCHANGED <<services, picked, moving, error, excused, counts>>

Answer(flight) ==
    /\ Perform(flight) /\ Recorded(flight)
    /\ flights' = flights \ {flight}
    /\ run' = [run EXCEPT !.at = "acting", !.left = @ \ {first(@)}, !.done = Append(@, flight.service)]
    /\ UNCHANGED <<services, picked, moving, error, excused, counts>>

\* The loop stops here and names this service, with the ones before it already acted on.
Stop(flight) ==
    /\ flights' = flights \ {flight}
    /\ run' = [run EXCEPT !.at = "settling"]
    /\ error' = [of |-> run.kind, failed |-> flight.service, done |-> run.done]
    /\ UNCHANGED <<services, picked, moving, runs>>

\* The manager's checks turn a request down before it does anything.
Refuse(flight) ==
    /\ Refuses(flight)
    /\ faults' = IF faults < MaxFaults THEN faults + 1 ELSE faults
    /\ Stop(flight)
    /\ UNCHANGED <<manager, acted, excused>>

\* A move that fails over a volume has taken the old container down and left the service here.
TakeDown(flight) ==
    /\ flight.kind = "move"
    /\ \E service \in server :
          /\ service.id = flight.service
          /\ server' = (server \ {service}) \cup {[service EXCEPT !.container = FALSE]}
    /\ UNCHANGED lastId

\* A request fails when part of it, or all but its last step, is done: a deleted service whose
\* container stays, a move whose volumes or overlays fail, a copy that is not taken back.
FailPartWay(flight) ==
    /\ faults < MaxFaults /\ faults' = faults + 1
    /\ Perform(flight) \/ TakeDown(flight)
    /\ Recorded(flight)
    /\ Stop(flight) /\ UNCHANGED excused

LoseAnswer(flight) ==
    /\ faults < MaxFaults /\ faults' = faults + 1
    /\ Perform(flight) /\ Recorded(flight)
    /\ excused' = excused \cup {"answer lost"}
    /\ Stop(flight)

Succeed ==
    /\ run.at = "acting" /\ run.left = {}
    /\ run' = [run EXCEPT !.at = "settling"]
    /\ moving' = FALSE /\ picked' = {}
    /\ UNCHANGED <<manager, services, error, flights, acted, excused, counts>>

\* Fault: the run is over with its last request, and the list is read when it may.
Settle_NoReread ==
    /\ run.at = "settling"
    /\ run' = Idle
    /\ UNCHANGED <<manager, services, picked, moving, error, flights, acted, excused, counts>>

\* The run is over when the list has been read again, or could not be.
Settle ==
    /\ run.at = "settling"
    /\ run' = Idle
    /\ \/ services' = Listed /\ UNCHANGED <<faults, excused>>
       \/ /\ faults < MaxFaults /\ faults' = faults + 1
          /\ excused' = excused \cup {"read failed"}
          /\ UNCHANGED services
    /\ UNCHANGED <<manager, picked, moving, error, flights, acted, runs>>

\* Docker's events renew the list at any time, in the middle of a run too.
Refetch ==
    /\ services' = Listed
    /\ UNCHANGED <<manager, picked, run, moving, error, flights, acted, excused, counts>>

clear ==
    /\ ~pending /\ chosen # {}
    /\ error' = NoError /\ picked' = {}
    /\ UNCHANGED <<manager, services, run, moving, flights, acted, excused, counts>>

openMove ==
    /\ ~pending /\ chosen # {} /\ ~moving
    /\ error' = NoError /\ moving' = TRUE
    /\ UNCHANGED <<manager, services, picked, run, flights, acted, excused, counts>>

\* The move dialog stays up while its run does.
closeMove ==
    /\ moving /\ ~pending
    /\ moving' = FALSE /\ error' = NoError
    /\ UNCHANGED <<manager, services, picked, run, flights, acted, excused, counts>>

Next ==
    \/ Tick \/ (\E kind \in Kinds : Mutate(kind)) \/ Send
    \/ \E flight \in flights : Answer(flight) \/ Refuse(flight) \/ FailPartWay(flight) \/ LoseAnswer(flight)
    \/ Succeed \/ Settle \/ Refetch \/ clear \/ openMove \/ closeMove

Spec == Init /\ [][Next]_vars

-----------------------------------------------------------------------------
TypeOK ==
    /\ run.at \in {"idle", "acting", "waiting", "settling"}
    /\ moving \in BOOLEAN /\ excused \subseteq {"read failed", "answer lost"}
    /\ \A service \in server \cup services : service.id \in 1..lastId

(* "A retry runs the whole selection again, so say which services it would repeat"      *)
(* (service-bulk-actions.tsx:105): whatever the manager changed for a run that stopped   *)
(* is named by its error, as done or as the service it failed at, and nothing is named   *)
(* as done that was not.                                                                 *)
ErrorNamesWhatWasDone ==
    run.at = "settling" /\ error # NoError =>
        /\ ToSet(error.done) \subseteq acted
        /\ acted \subseteq ToSet(error.done) \cup {error.failed}

(* A copy is never refused for its name: a run starts from a list that has the copies of *)
(* the run before it, and gives out none of its own names twice.                         *)
CopiesGetFreeNames ==
    excused = {} => \A flight \in flights : flight.kind = "duplicate" => flight.name \notin names(Listed)
=============================================================================
