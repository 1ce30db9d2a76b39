---------------------------- MODULE SettingsPage ----------------------------
(* The General settings page and the save bar under it: one draft over one cached   *)
(* read, a save that writes the whole object, a removal of the DNS token that       *)
(* writes the whole object too, and the re-read either of them asks for.  The        *)
(* manager stores the object in two writes and may fail after either.  A hostname   *)
(* with its certificate switch is one value, a typed token is TRUE, and acme_email, *)
(* which the page only replays, is left out.                                        *)
EXTENDS Naturals

CONSTANTS Domains,      \* what may be typed as the dashboard's hostname
          MaxCommands, MaxFaults, MaxReads    \* bounds of the model

VARIABLES
    stored,            \* the manager's settings
    loaded, draft,     \* the cached read and the form
    phase,             \* useIslandBar's phase
    save, removal,     \* the two mutations, each with the request it carries
    read,              \* the settings query's request
    open,              \* the page is mounted
    excused,           \* history: why the cache may be wrong until a read lands that is not
    commands, faults, reads

form    == <<draft, phase>>
history == <<excused, commands, faults>>
vars    == <<stored, loaded, form, save, removal, read, open, history, reads>>

\* A revision counts the hostname's writes: it is history, nothing the manager keeps.
Settings == [domain : Domains, token : BOOLEAN, revision : 0..MaxCommands]
Idle    == [at |-> "idle"]
Unread  == [at |-> "idle", for |-> "nobody"]
Request(fields, token) ==
    [at |-> "sent", domain |-> fields.domain, token |-> token, revision |-> loaded.revision]
saved   == [domain |-> loaded.domain, token |-> FALSE]
dirty   == draft # saved

\* What the bar shows: a phase hides the draft's state, and a draft hides a receipt.
status ==
    IF phase \in {"saving", "error"} THEN phase
    ELSE IF dirty THEN "dirty"
    ELSE IF phase = "saved" THEN "saved" ELSE "hidden"
blocked == status \in {"dirty", "saving", "error"}

Init ==
    /\ stored \in {s \in Settings : s.revision = 0} /\ loaded = stored
    /\ draft = [domain |-> stored.domain, token |-> FALSE]
    /\ phase = "idle"
    /\ save = Idle /\ removal = Idle /\ read = Unread
    /\ open = TRUE
    /\ excused = {}
    /\ commands = 0 /\ faults = 0 /\ reads = 0

-----------------------------------------------------------------------------
(* Editing.  A new draft ends the receipt and the error of the one before. *)
Edited == phase' = IF phase \in {"error", "saved"} THEN "idle" ELSE phase

Type ==
    /\ open
    /\ \/ \E d \in Domains \ {draft.domain} : draft' = [draft EXCEPT !.domain = d]
       \/ draft' = [draft EXCEPT !.token = ~draft.token]
    /\ Edited
    /\ UNCHANGED <<stored, loaded, save, removal, read, open, history, reads>>

Discard ==
    /\ open /\ blocked /\ phase # "saving"
    /\ draft' = saved /\ phase' = "idle"
    /\ UNCHANGED <<stored, loaded, save, removal, read, open, history, reads>>

\* The receipt's timer.
Fade ==
    /\ phase = "saved" /\ phase' = "idle"
    /\ UNCHANGED <<stored, loaded, draft, save, removal, read, open, history, reads>>

\* The blocker lets the page go only when the bar holds nothing back.
Leave ==
    /\ open /\ ~blocked
    /\ open' = FALSE
    /\ UNCHANGED <<stored, loaded, form, save, removal, read, history, reads>>

-----------------------------------------------------------------------------
(* The query.  A reader that needs a newer answer drops the request in flight. *)
Refetch(reader) == read' = [at |-> "sent", for |-> reader]

Focus ==
    /\ open /\ read.at = "idle" /\ reads < MaxReads
    /\ reads' = reads + 1
    /\ Refetch("window")
    /\ UNCHANGED <<stored, loaded, form, save, removal, open, history>>

ReadServer ==
    /\ read.at = "sent"
    /\ read' = [at |-> "answered", for |-> read.for, settings |-> stored]
    /\ UNCHANGED <<stored, loaded, form, save, removal, open, history, reads>>

ReadLands ==
    /\ read.at = "answered"
    /\ loaded' = read.settings /\ read' = Unread
    /\ excused' = IF read.settings = stored THEN {} ELSE excused
    /\ UNCHANGED <<stored, form, save, removal, open, commands, faults, reads>>

ReadFails ==
    /\ read.at # "idle" /\ faults < MaxFaults
    /\ faults' = faults + 1
    /\ read' = Unread
    /\ excused' = excused \cup {"read failed"}
    /\ UNCHANGED <<stored, loaded, form, save, removal, open, commands, reads>>

-----------------------------------------------------------------------------
(* PUT /api/settings: a token when the request names one, then the hostname, once it *)
(* is found valid and free.                                                          *)
StoreToken(request) ==
    /\ request.at = "sent"
    /\ stored' = IF request.token = "keep" THEN stored
                 ELSE [stored EXCEPT !.token = (request.token = "typed")]

StoreDomain(request) ==
    /\ request.at = "tokened"
    /\ stored' = [stored EXCEPT !.domain = request.domain, !.revision = @ + 1]

\* The manager holds something of a request whose answer is still to come.
Wrote(request) ==
    \/ request.at = "written"
    \/ request.at = "tokened" /\ request.token # "keep"

(* The request or its answer is lost, or the manager answers with an error: before it *)
(* wrote, over the hostname with the token stored, or once both are, when applying    *)
(* them fails.  Nothing reads the settings again.                                     *)
Failure(request) ==
    /\ request.at \in {"sent", "tokened", "written"} /\ faults < MaxFaults
    /\ faults' = faults + 1
    /\ excused' = IF Wrote(request) THEN excused \cup {"failed after a write"} ELSE excused

Save ==
    /\ open /\ phase # "saving" /\ commands < MaxCommands
    /\ commands' = commands + 1
    /\ phase' = "saving"
    /\ save' = Request(draft, IF draft.token THEN "typed" ELSE "keep")
    /\ UNCHANGED <<stored, loaded, draft, removal, read, open, excused, faults, reads>>

SaveToken ==
    /\ StoreToken(save)
    /\ save' = [save EXCEPT !.at = "tokened"]
    /\ UNCHANGED <<loaded, form, removal, read, open, history, reads>>

SaveDomain ==
    /\ StoreDomain(save)
    /\ save' = [at |-> "written"]
    /\ UNCHANGED <<loaded, form, removal, read, open, history, reads>>

\* Fault: the save is over with its answer; the query is not read again.
SaveAnswered_NoReread ==
    /\ save.at = "written"
    /\ save' = Idle /\ phase' = "saved"
    /\ draft' = [draft EXCEPT !.token = FALSE]
    /\ UNCHANGED <<stored, loaded, removal, read, open, history, reads>>

\* onSuccess empties the token field and waits for the re-read before it says Saved.
SaveAnswered ==
    /\ save.at = "written"
    /\ save' = [at |-> "refreshing"]
    /\ draft' = [draft EXCEPT !.token = FALSE]
    /\ Refetch("save")
    /\ UNCHANGED <<stored, loaded, phase, removal, open, history, reads>>

SaveDone ==
    /\ save.at = "refreshing" /\ read.for # "save"
    /\ save' = Idle
    /\ phase' = "saved"
    /\ UNCHANGED <<stored, loaded, draft, removal, read, open, history, reads>>

\* The bar keeps the draft and offers a retry.
SaveFails ==
    /\ Failure(save)
    /\ save' = Idle
    /\ phase' = "error"
    /\ UNCHANGED <<stored, loaded, draft, removal, read, open, commands, reads>>

-----------------------------------------------------------------------------
(* The removal shares the object with the save but neither its bar nor its guard. *)
\* Fault: the removal sends the form as it stands.
RemoveToken_Draft ==
    /\ open /\ loaded.token /\ removal = Idle /\ commands < MaxCommands
    /\ commands' = commands + 1
    /\ removal' = Request(draft, "cleared")
    /\ UNCHANGED <<stored, loaded, form, save, read, open, excused, faults, reads>>

RemoveToken ==
    /\ open /\ loaded.token /\ removal = Idle /\ commands < MaxCommands
    /\ commands' = commands + 1
    /\ removal' = Request(saved, "cleared")
    /\ UNCHANGED <<stored, loaded, form, save, read, open, excused, faults, reads>>

RemovalToken ==
    /\ StoreToken(removal)
    /\ removal' = [removal EXCEPT !.at = "tokened"]
    /\ UNCHANGED <<loaded, form, save, read, open, history, reads>>

RemovalDomain ==
    /\ StoreDomain(removal)
    /\ removal' = [at |-> "written"]
    /\ UNCHANGED <<loaded, form, save, read, open, history, reads>>

RemovalAnswered ==
    /\ removal.at = "written"
    /\ removal' = [at |-> "refreshing"]
    /\ Refetch("removal")
    /\ UNCHANGED <<stored, loaded, form, save, open, history, reads>>

RemovalDone ==
    /\ removal.at = "refreshing" /\ read.for # "removal"
    /\ removal' = Idle
    /\ UNCHANGED <<stored, loaded, form, save, read, open, history, reads>>

RemovalFails ==
    /\ Failure(removal)
    /\ removal' = Idle
    /\ UNCHANGED <<stored, loaded, form, save, read, open, commands, reads>>

Next ==
    \/ Type \/ Discard \/ Fade \/ Leave
    \/ Focus \/ ReadServer \/ ReadLands \/ ReadFails
    \/ Save \/ SaveToken \/ SaveDomain \/ SaveAnswered \/ SaveDone \/ SaveFails
    \/ RemoveToken \/ RemovalToken \/ RemovalDomain \/ RemovalAnswered \/ RemovalDone
    \/ RemovalFails

Spec == Init /\ [][Next]_vars

-----------------------------------------------------------------------------
TypeOK ==
    /\ {stored, loaded} \subseteq Settings /\ draft \in [domain : Domains, token : BOOLEAN]
    /\ phase \in {"idle", "saving", "saved", "error"}
    /\ {save.at, removal.at} \subseteq {"idle", "sent", "tokened", "written", "refreshing"}
    /\ read.at \in {"idle", "sent", "answered"}
    /\ read.for \in {"nobody", "window", "save", "removal"}
    /\ open \in BOOLEAN

(* A quiet page is a true one.  With nothing typed left in the form and no request in *)
(* flight, the hostname on screen is the stored one, however saves, removals and     *)
(* re-reads overlapped and whichever of their writes were done when they were        *)
(* refused.  Only between a request that failed after it wrote, or a re-read that    *)
(* failed, and the next read that is current may it be wrong.                        *)
QuietMeansStored ==
    ~blocked /\ save = Idle /\ removal = Idle /\ read = Unread /\ excused = {} =>
        draft.domain = stored.domain /\ loaded = stored

(* system.settings.index.tsx:69, "Removing the token replays the saved domain, never *)
(* an unsaved edit in the draft": the hostname is left alone whenever the page, at    *)
(* the click, knew the settings the removal replaces.                                 *)
RemovalKeepsTheHostname ==
    RemovalDomain /\ removal.revision = stored.revision => stored'.domain = stored.domain
=============================================================================
