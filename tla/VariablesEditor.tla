-------------------------- MODULE VariablesEditor ---------------------------
(* One card of environment variables: the text being edited, the cached read it      *)
(* started from, the saves it sends and the re-read each of them waits for, and the   *)
(* manager's replacement of the set.  The text is what it parses to (module Dotenv    *)
(* has the parsing): its variables, and the flaw that makes Save refuse it.  A        *)
(* second save may leave before the first is answered: the keyboard shortcut submits  *)
(* the form whether or not the button is waiting.                                     *)
EXTENDS Naturals, Sequences, Functions

CONSTANTS Keys, Values,  \* the values that may be typed; a stored key begins with "x"
          MaxEdits, MaxSaves, MaxFocus, MaxFaults, MaxRivals    \* bounds of the model

VARIABLES
    server,          \* the stored set: key -> value and secret flag
    data, query,     \* the cached read and the request that renews it
    text,            \* the draft
    writes,          \* the saves sent from this page, in the order they were sent
    error,           \* what the card says of the latest save
    staleRead,       \* a save whose re-read failed
    sent,            \* history: the drafts that were sent
    excused,         \* history: why the cache may be wrong until a read lands that is not
    edits, focuses, faults, rivals

card    == <<text, writes, error, staleRead>>
counts  == <<edits, focuses, faults, rivals>>
vars    == <<server, data, query, card, sent, excused, counts>>

Mask    == "masked"     \* what other answers show for a secret, and may be pasted from them
None    == [kind |-> "none"]
Flaws   == {"none", "line", "key"}
Missing == [kind |-> "missing"]
Ready   == data # Missing
Quiet   == [at |-> "idle"]

\* A typed value under an unknown key is a secret; a known key keeps its flag.
KeptFlag(k)  == IF k \in DOMAIN data THEN data[k].secret ELSE TRUE
fromDotenv   == [k \in DOMAIN text.vars |-> [value |-> text.vars[k], secret |-> KeptFlag(k)]]
toDotenv(rows) == [vars |-> [k \in DOMAIN rows |-> rows[k].value], flaw |-> "none"]
unsaved      == text.flaw # "none" \/ fromDotenv # data

Starts == {[k \in Keys |-> [value |-> "x", secret |-> s]] : s \in BOOLEAN}

Init ==
    /\ server \in Starts
    /\ data = Missing /\ query = [at |-> "sent"]
    /\ text = toDotenv(<<>>) /\ writes = <<>> /\ error = "none" /\ staleRead = None
    /\ sent = {} /\ excused = {}
    /\ edits = 0 /\ focuses = 0 /\ faults = 0 /\ rivals = 0

-----------------------------------------------------------------------------
(* Editing, in the table or in the text. *)
SetKey(k, v)  == text' = [text EXCEPT !.vars = [key \in DOMAIN @ \cup {k} |-> IF key = k THEN v ELSE @[key]]]
RemoveKey(k)  == text' = [text EXCEPT !.vars = Restrict(@, DOMAIN @ \ {k})]
Misspell(f)   == text' = [text EXCEPT !.flaw = f]

\* A refusal stays until the edit fixes what it named; any other error clears.
Edit ==
    /\ Ready /\ edits < MaxEdits
    /\ edits' = edits + 1
    /\ \/ \E k \in Keys, v \in Values \cup {Mask} : SetKey(k, v)
       \/ \E k \in DOMAIN text.vars : RemoveKey(k)
       \/ \E f \in Flaws : Misspell(f)
    /\ error' = IF error = text'.flaw THEN error ELSE "none"
    /\ UNCHANGED <<server, data, query, writes, staleRead, sent, excused, focuses, faults,
            rivals>>

Refused ==
    /\ Ready /\ text.flaw # "none"
    /\ error' = text.flaw
    /\ UNCHANGED <<server, data, query, text, writes, staleRead, sent, excused, counts>>

Save ==
    /\ Ready /\ text.flaw = "none" /\ Len(writes) < MaxSaves
    /\ writes' = Append(writes, [at |-> "sent", text |-> text, rows |-> fromDotenv])
    /\ error' = "none" /\ sent' = sent \cup {text}
    /\ UNCHANGED <<server, data, query, text, staleRead, excused, counts>>

-----------------------------------------------------------------------------
\* Fault: a masked value is written like any other.
Upsert_StoresMask(rows) ==
    [k \in DOMAIN server \cup DOMAIN rows |-> IF k \in DOMAIN rows THEN rows[k] ELSE server[k]]

(* The manager's set_variables: the listing, the upserts that skip a mask, and the   *)
(* deletions of what was listed and not sent.  Nothing keeps two of them apart.      *)
Upsert(rows) ==
    [k \in DOMAIN server \cup {key \in DOMAIN rows : rows[key].value # Mask} |->
        IF k \in DOMAIN rows /\ rows[k].value # Mask THEN rows[k] ELSE server[k]]

PutRows(i) ==
    /\ writes[i].at = "sent"
    /\ server' = Upsert(writes[i].rows)
    /\ writes' = [writes EXCEPT ![i] = [at |-> "writing", text |-> @.text,
                                        gone |-> DOMAIN server \ DOMAIN @.rows]]
    /\ UNCHANGED <<data, query, text, error, staleRead, sent, excused, counts>>

PutRest(i) ==
    /\ writes[i].at = "writing"
    /\ server' = Restrict(server, DOMAIN server \ writes[i].gone)
    /\ writes' = [writes EXCEPT ![i] = [at |-> "written", text |-> @.text]]
    /\ UNCHANGED <<data, query, text, error, staleRead, sent, excused, counts>>

\* Another session replaces the set.
Rival ==
    /\ rivals < MaxRivals
    /\ rivals' = rivals + 1
    /\ \E ks \in SUBSET Keys, v \in Values : server' = [k \in ks |-> [value |-> v,
            secret |-> TRUE]]
    /\ excused' = excused \cup {"rival"}
    /\ UNCHANGED <<data, query, card, sent, edits, focuses, faults>>

-----------------------------------------------------------------------------
\* Fault: the cached read counts as fresh, so the re-read answers from it.
Reread_Cached ==
    /\ query' = IF query = Quiet THEN [at |-> "answered", rows |-> data] ELSE query
    /\ excused' = IF query.at = "answered" THEN excused \cup {"joined"} ELSE excused

(* fetchQuery after a save starts a read, or joins the one in flight. *)
Reread ==
    /\ query' = IF query = Quiet THEN [at |-> "sent"] ELSE query
    /\ excused' = IF query.at = "answered" THEN excused \cup {"joined"} ELSE excused

Answered(i) ==
    /\ writes[i].at = "written"
    /\ writes' = [writes EXCEPT ![i].at = "rereading"]
    /\ Reread
    /\ UNCHANGED <<server, data, text, error, staleRead, sent, counts>>

\* The request or its answer is lost, or the manager answers with an error: before it wrote,
\* with the deletions to do, or with the set stored and its files not written.
SaveFails(i) ==
    /\ writes[i].at \in {"sent", "writing", "written"} /\ faults < MaxFaults
    /\ faults' = faults + 1
    /\ writes' = [writes EXCEPT ![i] = [at |-> "done"]]
    /\ error' = IF i = Len(writes) THEN "failed" ELSE error
    /\ excused' = IF writes[i].at = "sent" THEN excused ELSE excused \cup {"failed after a write"}
    /\ UNCHANGED <<server, data, query, text, staleRead, sent, edits, focuses, rivals>>

Focus ==
    /\ query = Quiet /\ focuses < MaxFocus
    /\ focuses' = focuses + 1
    /\ query' = [at |-> "sent"]
    /\ UNCHANGED <<server, data, card, sent, excused, edits, faults, rivals>>

\* The editor's reads are the ones that hand over the secrets.
ReadServer ==
    /\ query.at = "sent"
    /\ query' = [at |-> "answered", rows |-> server]
    /\ UNCHANGED <<server, data, card, sent, excused, counts>>

Rereading == {i \in DOMAIN writes : writes[i].at = "rereading"}
Finish    == writes' = [i \in DOMAIN writes |-> IF i \in Rereading THEN [at |-> "done"] ELSE writes[i]]

\* Fault: every read restarts the form.
Restarts_Always(rows) == TRUE

(* A read lands: the draft starts from it on the first read, restarts from it when  *)
(* nothing was typed since the save it answers, and takes it when an earlier save's  *)
(* re-read had failed and the cached set has changed since.                          *)
Restarts(rows) ==
    \/ data = Missing
    \/ \E i \in Rereading : writes[i].text = text
    \/ staleRead # None /\ rows # staleRead.stored /\ text = staleRead.text

ReadLands ==
    /\ query.at = "answered"
    /\ query' = Quiet /\ data' = query.rows
    /\ text' = IF Restarts(query.rows) THEN toDotenv(query.rows) ELSE text
    /\ staleRead' = IF staleRead # None /\ query.rows # staleRead.stored THEN None ELSE staleRead
    /\ Finish
    /\ excused' = IF query.rows = server THEN {} ELSE excused
    /\ UNCHANGED <<server, error, sent, counts>>

ReadFails ==
    /\ query # Quiet /\ faults < MaxFaults
    /\ faults' = faults + 1
    /\ query' = Quiet
    /\ \/ Rereading = {} /\ UNCHANGED staleRead
       \/ \E i \in Rereading : staleRead' = [kind |-> "stale", stored |-> data,
               text |-> writes[i].text]
    /\ Finish
    /\ excused' = IF Rereading = {} THEN excused ELSE excused \cup {"read failed"}
    /\ UNCHANGED <<server, data, text, error, sent, edits, focuses, rivals>>

Writing(i) == PutRows(i) \/ PutRest(i) \/ Answered(i) \/ SaveFails(i)
Next ==
    \/ Edit \/ Refused \/ Save \/ Rival
    \/ \E i \in DOMAIN writes : Writing(i)
    \/ Focus \/ ReadServer \/ ReadLands \/ ReadFails

Spec == Init /\ [][Next]_vars

-----------------------------------------------------------------------------
TypeOK ==
    /\ DOMAIN server \subseteq Keys /\ DOMAIN text.vars \subseteq Keys
    /\ \A k \in DOMAIN server : server[k].value \in Values \cup {"x"}    \* and never the mask
    /\ \A k \in DOMAIN text.vars : text.vars[k] \in Values \cup {"x", Mask}
    /\ Ready => DOMAIN data \subseteq Keys
    /\ error \in Flaws \cup {"failed"} /\ text.flaw \in Flaws
    /\ \A i \in DOMAIN writes : writes[i].at \in {"sent", "writing", "written", "rereading",
            "done"}
    /\ query.at \in {"idle", "sent", "answered"}

(* Only the reader's own edits change a draft that was edited since the last save:   *)
(* a read, a late answer or a retried read replaces only a text that was sent         *)
(* (env-editor.tsx:257-275).                                                         *)
TypingSurvives ==
    text' # text /\ edits' = edits => data = Missing \/ text \in sent

(* A card that shows no unsaved change, with every save and read over, shows the      *)
(* stored set, however its saves and reads overlapped.  Only between a save that     *)
(* failed after it wrote, a re-read that failed or was joined too late, or another    *)
(* session's write, and the next read that is current may it be wrong.                *)
CleanMeansStored ==
    /\ Ready /\ ~unsaved /\ query = Quiet /\ excused = {}
    /\ \A i \in DOMAIN writes : writes[i].at = "done"
    => /\ data = server
       /\ DOMAIN text.vars = DOMAIN server
       /\ \A k \in DOMAIN server : text.vars[k] = server[k].value
=============================================================================
