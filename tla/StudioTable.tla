----------------------------- MODULE StudioTable ----------------------------
(* Studio's grid over one table: the page of rows on screen, the edits, new rows and   *)
(* deletions held back until they are saved, and the change set the manager writes, in *)
(* one transaction on a SQL engine and one document at a time on MongoDB.  A row is     *)
(* its key and one value; a page holds one row, so that paging changes what is shown.   *)
(* Sorting and filtering choose the shown rows as paging does and are left out, and so   *)
(* is the query cache: a page is read whenever it is turned to.                           *)
EXTENDS Integers, Sequences, FiniteSets, Functions

CONSTANTS Values,                                   \* what a cell may hold
          MaxRows, MaxCommands, MaxSaves, MaxFaults \* bounds of the model

VARIABLES
    engine, db,                    \* the database: its rows, and the key the next insert gets
    page, data, fetch,             \* the page asked for, the rows on screen, the request for them
    updates, inserts, deletes,     \* what is not saved yet
    selected,                      \* the ticked rows
    save,                          \* the mutation
    error,
    added,                         \* history: rows the reader added
    excused,                       \* history: why a change may have been written unseen
    commands, saves, faults

grid    == <<updates, inserts, deletes, selected>>
view    == <<page, data, fetch>>
history == <<added, excused>>
counts  == <<commands, saves, faults>>
vars    == <<engine, db, view, grid, save, error, history, counts>>

First   == 2
Idle    == [at |-> "idle"]
New(i)  == <<"new", i>>
Row(k)  == <<"row", k>>
rowsOf(p) == Restrict(db.rows, {k \in DOMAIN db.rows : Cardinality({j \in DOMAIN db.rows : j < k}) = p - 1})
pending == DOMAIN updates \cup deletes # {} \/ inserts # <<>>

Init ==
    /\ engine \in {"sql", "mongo"}
    /\ db \in {[rows |-> [k \in 1..First |-> v], next |-> First + 1] : v \in Values}
    /\ page = 1 /\ data = rowsOf(1) /\ fetch = Idle
    /\ updates = <<>> /\ inserts = <<>> /\ deletes = {} /\ selected = {}
    /\ save = Idle /\ error = FALSE
    /\ added = 0 /\ excused = {}
    /\ commands = 0 /\ saves = 0 /\ faults = 0

-----------------------------------------------------------------------------
(* The rows query.  The old page stays up until the new one is read. *)
Refetch == fetch' = [at |-> "sent", page |-> page]

ReadServer ==
    /\ fetch.at = "sent"
    /\ fetch' = [at |-> "answered", rows |-> rowsOf(fetch.page)]
    /\ UNCHANGED <<engine, db, page, data, grid, save, error, history, counts>>

ReadLands ==
    /\ fetch.at = "answered"
    /\ data' = fetch.rows /\ fetch' = Idle
    /\ UNCHANGED <<engine, db, page, grid, save, error, history, counts>>

ReadFails ==
    /\ fetch # Idle /\ faults < MaxFaults
    /\ faults' = faults + 1
    /\ fetch' = Idle /\ excused' = excused \cup {"read failed"}
    /\ UNCHANGED <<engine, db, page, data, grid, save, error, added, commands, saves>>

-----------------------------------------------------------------------------
(* The grid.  Nothing in it waits for a save. *)
Command == commands < MaxCommands /\ commands' = commands + 1

Turn ==
    /\ Command
    /\ page' \in 1..MaxRows \ {page}
    /\ fetch' = [at |-> "sent", page |-> page']
    /\ UNCHANGED <<engine, db, data, grid, save, error, history, saves, faults>>

edit ==
    /\ Command
    /\ \/ \E k \in DOMAIN data \ deletes, v \in Values :
            /\ updates' = [key \in DOMAIN updates \cup {k} |-> IF key = k THEN v ELSE updates[key]]
            /\ UNCHANGED inserts
       \/ \E i \in DOMAIN inserts, v \in Values :
            /\ inserts' = [inserts EXCEPT ![i] = v]
            /\ UNCHANGED updates
    /\ UNCHANGED <<engine, db, view, deletes, selected, save, error, history, saves, faults>>

\* An empty row; what the engine would put in it is its value.
addRow ==
    /\ Command /\ db.next + Len(inserts) <= MaxRows
    /\ \E v \in Values : inserts' = Append(inserts, v)
    /\ added' = added + 1
    /\ UNCHANGED <<engine, db, view, updates, deletes, selected, save, error, excused, saves, faults>>

toggle ==
    /\ Command
    /\ \E id \in {Row(k) : k \in DOMAIN data \ deletes} \cup {New(i) : i \in DOMAIN inserts} :
          selected' = IF id \in selected THEN selected \ {id} ELSE selected \cup {id}
    /\ UNCHANGED <<engine, db, view, updates, inserts, deletes, save, error, history, saves, faults>>

onClear ==
    /\ Command /\ selected # {}
    /\ selected' = {}
    /\ UNCHANGED <<engine, db, view, updates, inserts, deletes, save, error, history, saves, faults>>

\* Only rows on screen have their key at hand; every selected row loses its edits.
deleteSelected ==
    /\ Command /\ selected # {}
    /\ deletes' = deletes \cup {k \in DOMAIN data : Row(k) \in selected}
    /\ updates' = Restrict(updates, {k \in DOMAIN updates : Row(k) \notin selected})
    /\ LET kept   == {i \in DOMAIN inserts : New(i) \notin selected}
           nth(i) == CHOOSE k \in kept : Cardinality({j \in kept : j <= k}) = i
       IN inserts' = [i \in 1..Cardinality(kept) |-> inserts[nth(i)]]
    /\ selected' = {}
    /\ UNCHANGED <<engine, db, view, save, error, history, saves, faults>>

\* Fault: new rows are left in the grid.
discard_KeepsInserts ==
    /\ updates' = <<>> /\ deletes' = {} /\ selected' = {}
    /\ error' = FALSE
    /\ UNCHANGED inserts

discard ==
    /\ updates' = <<>> /\ inserts' = <<>> /\ deletes' = {} /\ selected' = {}
    /\ error' = FALSE

Discard ==
    /\ Command /\ (pending \/ error) /\ save = Idle
    /\ discard
    /\ UNCHANGED <<engine, db, view, save, history, saves, faults>>

-----------------------------------------------------------------------------
(* The change set: updates, then inserts, then deletions. *)
Changes  == [updates |-> updates, inserts |-> inserts, deletes |-> deletes]
Nothing  == [updates |-> <<>>, inserts |-> <<>>, deletes |-> {}]
Updated  == DOMAIN save.left.updates = {}
Inserted == Updated /\ save.left.inserts = <<>>
Written  == Inserted /\ save.left.deletes = {}

\* A key that is no longer there matches nothing, which is no error.
update(d, edits) == [d EXCEPT !.rows = [k \in DOMAIN @ |-> IF k \in DOMAIN edits THEN edits[k] ELSE @[k]]]
insert(d, values) ==
    LET added_keys == d.next..d.next + Len(values) - 1
    IN  [rows |-> [k \in DOMAIN d.rows \cup added_keys |->
                      IF k \in added_keys THEN values[k - d.next + 1] ELSE d.rows[k]],
         next |-> d.next + Len(values)]
remove(d, keys)  == [d EXCEPT !.rows = Restrict(@, DOMAIN @ \ keys)]

Save ==
    /\ save = Idle /\ pending /\ saves < MaxSaves
    /\ saves' = saves + 1 /\ error' = FALSE
    /\ save' = [at |-> "sent", left |-> Changes, whole |-> TRUE]
    /\ UNCHANGED <<engine, db, view, grid, history, commands, faults>>

Transact ==
    /\ engine = "sql" /\ save.at = "sent" /\ ~Written
    /\ db' = remove(insert(update(db, save.left.updates), save.left.inserts), save.left.deletes)
    /\ save' = [save EXCEPT !.left = Nothing]
    /\ UNCHANGED <<engine, view, grid, error, history, counts>>

\* The updates, and then the deletions, in the order they were made, which is not kept here.
ApplyOne ==
    /\ engine = "mongo" /\ save.at = "sent"
    /\ \/ \E k \in DOMAIN save.left.updates :
            /\ db' = update(db, Restrict(save.left.updates, {k}))
            /\ save' = [save EXCEPT !.left.updates = Restrict(@, DOMAIN @ \ {k}), !.whole = FALSE]
       \/ /\ Updated /\ ~Inserted
          /\ db' = insert(db, <<Head(save.left.inserts)>>)
          /\ save' = [save EXCEPT !.left.inserts = Tail(@), !.whole = FALSE]
       \/ \E k \in save.left.deletes :
            /\ Inserted
            /\ db' = remove(db, {k})
            /\ save' = [save EXCEPT !.left.deletes = @ \ {k}, !.whole = FALSE]
    /\ UNCHANGED <<engine, view, grid, error, history, counts>>

\* The grid is emptied of everything it holds by now, and the page is read again.
SaveAnswered ==
    /\ save.at = "sent" /\ Written
    /\ discard /\ Refetch
    /\ save' = Idle
    /\ UNCHANGED <<engine, db, page, data, history, counts>>

(* A refused statement or a lost answer keeps the whole change set for a retry.  MongoDB *)
(* has by then written what came before it.                                              *)
SaveFails ==
    /\ save.at = "sent" /\ faults < MaxFaults
    /\ faults' = faults + 1
    /\ save' = Idle /\ error' = TRUE
    /\ excused' = IF Written THEN excused \cup {"answer lost"}
                  ELSE IF ~save.whole THEN excused \cup {"partly written"} ELSE excused
    /\ UNCHANGED <<engine, db, view, grid, added, commands, saves>>

Next ==
    \/ ReadServer \/ ReadLands \/ ReadFails
    \/ Turn \/ edit \/ addRow \/ toggle \/ onClear \/ deleteSelected \/ Discard
    \/ Save \/ Transact \/ ApplyOne \/ SaveAnswered \/ SaveFails

Spec == Init /\ [][Next]_vars

-----------------------------------------------------------------------------
TypeOK ==
    /\ DOMAIN db.rows \subseteq 1..db.next - 1 /\ \A k \in DOMAIN db.rows : db.rows[k] \in Values
    /\ DOMAIN data \cup DOMAIN updates \cup deletes \subseteq 1..db.next - 1
    /\ inserts \in Seq(Values) /\ save.at \in {"idle", "sent"} /\ error \in BOOLEAN

(* A row the reader added once is inserted at most once, however often the save is      *)
(* refused and retried: the grid lets go of what was written and of nothing else it     *)
(* would send again.  A lost answer, and MongoDB's partial write, are the exceptions.   *)
NothingWrittenTwice == excused = {} => db.next - (First + 1) <= added

(* "A row both edited and deleted is only deleted" (studio.index.tsx:251), read of what  *)
(* Delete rows does to the edits kept while paging: an edit it takes away                *)
(* belongs to a row it marks deleted.                                                    *)
DroppedEditsAreDeletes == [][deleteSelected => DOMAIN updates \ DOMAIN updates' \subseteq deletes']_vars
=============================================================================
