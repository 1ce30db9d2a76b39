------------------------------- MODULE Inbox -------------------------------
(* The deployment inbox: the latest deployments the server lists, and the read and   *)
(* dismissed marks, which live in this browser's storage alone.  Several tabs show   *)
(* the inbox over one storage, each with its own copy of the marks and of the list.  *)
(* The panel's optimistic items are replaced at every render of the feed, so what a  *)
(* tab shows is derived from its list and its marks.                                 *)
EXTENDS Integers, FiniteSets, Sequences, SequencesExt

CONSTANTS Tabs,
          Projects,        \* each project, as the numbers of its deployments
          Listed, Keep,    \* how many deployments the server lists, how many ids are kept
          MaxDeployments, MaxCommands    \* bounds of the model

VARIABLES
    deployments, newest,    \* the server's rows, and the number given last
    stored,                 \* localStorage: one list of ids per key, oldest mark first
    ids,                    \* each tab's copy of the marks, as of its own last write
    list,                   \* each tab's fetched list
    calls,                  \* the writes each tab's running handler has still to make
    last,                   \* history: the last mark any tab made, per key and deployment
    left,                   \* history: deployments whose place in the list was lost or shifted
    commands    \* marks made and projects deleted

server == <<deployments, newest>>
tabs   == <<ids, list, calls>>
vars   == <<server, stored, tabs, last, left, commands>>

Keys  == {"read", "dismissed"}
Ids   == 1..MaxDeployments
Calls == [key : Keys, id : Ids, on : BOOLEAN]

recent(rows) == {d \in rows : Cardinality({e \in rows : e > d}) < Listed}

readIds(key) == ToSet(stored[key])

Init ==
    /\ newest = Listed /\ deployments = 1..newest
    /\ stored = [key \in Keys |-> <<>>]
    /\ ids = [t \in Tabs |-> [key \in Keys |-> {}]]
    /\ list = [t \in Tabs |-> recent(deployments)]
    /\ calls = [t \in Tabs |-> {}]
    /\ last = [key \in Keys |-> [d \in Ids |-> FALSE]]
    /\ left = {}
    /\ commands = 0

-----------------------------------------------------------------------------
(* The server. *)
Deploy ==
    /\ newest < MaxDeployments
    /\ newest' = newest + 1 /\ deployments' = deployments \cup {newest'}
    /\ left' = left \cup (recent(deployments) \ recent(deployments'))
    /\ UNCHANGED <<stored, tabs, last, commands>>

\* A project goes with its deployments.  If some were listed, older ones are again.
Delete ==
    /\ commands < MaxCommands /\ commands' = commands + 1
    /\ \E project \in Projects :
        /\ project \cap deployments # {}
        /\ deployments' = deployments \ project
        /\ left' = IF recent(deployments') = recent(deployments) THEN left ELSE left \cup deployments
    /\ UNCHANGED <<newest, stored, tabs, last>>

-----------------------------------------------------------------------------
(* A tab.  A handler runs to its end before the tab does anything else. *)
idle(t) == calls[t] = {}

Refetch(t) ==
    /\ idle(t) /\ list[t] # recent(deployments)
    /\ list' = [list EXCEPT ![t] = recent(deployments)]
    /\ UNCHANGED <<server, stored, ids, calls, last, left, commands>>

\* The page is opened again, with the marks the storage holds.
Reload(t) ==
    /\ idle(t)
    /\ list' = [list EXCEPT ![t] = recent(deployments)]
    /\ ids' = [ids EXCEPT ![t] = [key \in Keys |-> readIds(key)]]
    /\ UNCHANGED <<server, stored, calls, last, left, commands>>

notifications(t) == list[t] \ ids[t]["dismissed"]
read(t)          == notifications(t) \cap ids[t]["read"]
unread(t)        == notifications(t) \ ids[t]["read"]

\* A set keeps its order: an id that is there keeps its place.
with(kept, id, on) ==
    IF ~on THEN RemoveFirst(kept, id)
    ELSE IF Contains(kept, id) THEN kept ELSE Append(kept, id)

\* The newest Keep ids stay.
trimmed(next) == SubSeq(next, IF Len(next) > Keep THEN Len(next) - Keep + 1 ELSE 1, Len(next))

\* Fault: the tab writes back its own copy with the new mark in it.
write_FromRender(t, key, id, on) ==
    LET next == with(SetToSortSeq(ids[t][key], <), id, on)
    IN /\ stored' = [stored EXCEPT ![key] = trimmed(next)]
       /\ ids' = [ids EXCEPT ![t][key] = ToSet(next)]

\* Starts from what the storage holds by now; the tab's copy is not trimmed.
write(t, key, id, on) ==
    LET next == with(stored[key], id, on)
    IN /\ stored' = [stored EXCEPT ![key] = trimmed(next)]
       /\ ids' = [ids EXCEPT ![t][key] = ToSet(next)]

\* One call of a running handler, on the item its list has first: the newest.
Call(t, todo) ==
    \E c \in todo :
        /\ \A other \in todo : other.id <= c.id
        /\ write(t, c.key, c.id, c.on)
        /\ calls' = [calls EXCEPT ![t] = todo \ {c}]
        /\ last' = [last EXCEPT ![c.key][c.id] = c.on]
        /\ UNCHANGED <<server, list, left>>

GoOn(t) == Call(t, calls[t]) /\ UNCHANGED commands

\* A click: the items are what the tab shows then, and the first call is made at once.
Command(t, key, items, on) ==
    /\ idle(t) /\ commands < MaxCommands /\ commands' = commands + 1
    /\ Call(t, {[key |-> key, id |-> d, on |-> on] : d \in items})

toggleRead(t) ==
    \/ \E d \in unread(t) : Command(t, "read", {d}, TRUE)
    \/ \E d \in read(t)   : Command(t, "read", {d}, FALSE)
dismiss(t)     == \E d \in notifications(t) : Command(t, "dismissed", {d}, TRUE)
markAllRead(t) == Command(t, "read", unread(t), TRUE)
clearRead(t)   == Command(t, "dismissed", read(t), TRUE)

Next ==
    \/ Deploy \/ Delete
    \/ \E t \in Tabs :
        \/ Refetch(t) \/ Reload(t) \/ GoOn(t)
        \/ toggleRead(t) \/ dismiss(t) \/ markAllRead(t) \/ clearRead(t)

Spec == Init /\ [][Next]_vars

-----------------------------------------------------------------------------
TypeOK ==
    /\ newest \in Ids /\ deployments \subseteq Ids
    /\ \A key \in Keys : Len(stored[key]) <= Keep /\ readIds(key) \subseteq Ids
    /\ ids \in [Tabs -> [Keys -> SUBSET Ids]]
    /\ list \in [Tabs -> SUBSET Ids] /\ calls \in [Tabs -> SUBSET Calls]
    /\ last \in [Keys -> [Ids -> BOOLEAN]] /\ left \subseteq Ids
    /\ commands \in 0..MaxCommands

(* The last mark any tab made on a listed deployment is the one the storage holds,   *)
(* whatever another tab, with older marks on screen, wrote since, and whatever the   *)
(* limit on the kept ids dropped ("each call starts from storage, not from this      *)
(* render"; "keeping the newest 100 ids loses nothing that can return").  Exempt is  *)
(* a deployment that had left the list and is back because newer ones were deleted,  *)
(* and one that was there when listed ones were: others then come to stand beside it *)
(* that are marked anew, as often as that happens.                                   *)
MarksSurvive ==
    \A key \in Keys : \A d \in recent(deployments) \ left :
        (d \in readIds(key)) <=> last[key][d]
=============================================================================
