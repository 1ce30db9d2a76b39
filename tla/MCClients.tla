------------------------------ MODULE MCClients -----------------------------
(* The four groups of models that TLC checks together: one of their models moves, the other *)
(* twelve stand still.                                                                      *)
EXTENDS Programs, Streams, Editors, Tables

allVars == <<programsVars, streamsVars, editorsVars, tablesVars>>

Init == client \in AllClients /\ ProgramsInit /\ StreamsInit /\ EditorsInit /\ TablesInit
Next == ProgramsNext /\ StreamsNext /\ EditorsNext /\ TablesNext
Spec == Init /\ [][Next]_allVars

-----------------------------------------------------------------------------
\* Every model's own type invariant.
TypeOK == ProgramsTypes /\ StreamsTypes /\ EditorsTypes /\ TablesTypes
=============================================================================
