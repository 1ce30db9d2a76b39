------------------------- MODULE DeployQueueProofs -------------------------
(***************************************************************************)
(* What holds of the deploy engine for any number of requests, builds and  *)
(* environments, any cap and any number of restarts and failed statements: *)
(* its variables keep their types, an environment never has two pipelines  *)
(* at work, the host never more than MaxConcurrent, no guard leaks, and    *)
(* every step is one that DeploymentPromise allows or none that it sees.   *)
(***************************************************************************)
EXTENDS DeployQueue, FiniteSetTheorems, SequenceTheorems, TLAPS

\* A deployment is in one of the environments.
LEMMA EnvType == \A d \in Requests : Env(d) \in Envs
BY Assumptions DEF Env

\* Nobody is neither a request nor an outcome.
LEMMA NoneApart == None \notin Requests /\ None \notin Final
BY Assumptions DEF Final

-----------------------------------------------------------------------------
(* Queues                                                                  *)

\* A queue without its i-th place is a queue of the same people.
LEMMA SkipType ==
  ASSUME NEW S, NEW q \in Seq(S), NEW i \in 1..Len(q)
  PROVE  SubSeq(q, 1, i - 1) \o SubSeq(q, i + 1, Len(q)) \in Seq(S)
<1>1. SubSeq(q, 1, i - 1) \in Seq(S)
  BY SubSeqProperties
<1>2. SubSeq(q, i + 1, Len(q)) \in Seq(S)
  BY SubSeqProperties
<1> QED BY <1>1, <1>2, ConcatProperties

\* So leaving a queue keeps its type, for whoever leaves and wherever they wait.
LEMMA LeaveType ==
  ASSUME NEW S, NEW q \in Seq(S), NEW d
  PROVE  Leave(q, d) \in Seq(S)
<1>1. CASE ~ \E i \in 1..Len(q) : q[i] = d
  BY <1>1 DEF Leave
<1>2. CASE \E i \in 1..Len(q) : q[i] = d
  <2>1. PICK i \in 1..Len(q) : i = CHOOSE j \in 1..Len(q) : q[j] = d
    BY <1>2, Zenon
  <2>2. Leave(q, d) = SubSeq(q, 1, i - 1) \o SubSeq(q, i + 1, Len(q))
    BY <1>2, <2>1, Zenon DEF Leave
  <2> QED BY <2>2, SkipType
<1> QED BY <1>1, <1>2

\* The heir of a queue is one of its people.
LEMMA HeirType ==
  ASSUME NEW S, NEW q \in Seq(S)
  PROVE  /\ Heir(q) \subseteq S
         /\ q # <<>> => Head(q) \in S /\ Tail(q) \in Seq(S)
BY DEF Heir

-----------------------------------------------------------------------------
(* Type correctness                                                        *)

LEMMA InitTypeOK == Init => TypeOK
BY Assumptions DEF Init, TypeOK, Live, Selecting

\* Giving the guards back, which the four ways a pipeline ends have in common.
LEMMA ReleaseType ==
  ASSUME TypeOK, NEW d \in Requests, ReleaseGuards(d)
  PROVE  /\ lock' \in [Envs -> Requests \cup {None}]
         /\ lockQ' \in [Envs -> Seq(Requests)]
         /\ slots' \subseteq Requests
         /\ slotQ' \in Seq(Requests)
<1>1. slots' \subseteq Requests /\ slotQ' \in Seq(Requests)
  <2>0. slots \subseteq Requests /\ slotQ \in Seq(Requests)
    BY DEF TypeOK
  <2>1. CASE d \in slots
    <3>1. slots' = (slots \ {d}) \cup Heir(slotQ)
      BY <2>1 DEF ReleaseGuards
    <3>2. slotQ' = IF slotQ = <<>> THEN <<>> ELSE Tail(slotQ)
      BY <2>1 DEF ReleaseGuards
    <3> QED BY <2>0, <3>1, <3>2, HeirType
  <2>2. CASE d \notin slots
    BY <2>2, LeaveType DEF ReleaseGuards, TypeOK
  <2> QED BY <2>1, <2>2
<1>2. Env(d) \in Envs
  BY EnvType
<1>3. lockQ[Env(d)] \in Seq(Requests)
  BY <1>2 DEF TypeOK
<1>4. CASE lock[Env(d)] = d
  <2>1. lock' = [lock EXCEPT ![Env(d)] = IF lockQ[Env(d)] = <<>> THEN None ELSE Head(lockQ[Env(d)])]
    BY <1>4 DEF ReleaseGuards
  <2>2. lockQ' = [lockQ EXCEPT ![Env(d)] = IF lockQ[Env(d)] = <<>> THEN <<>> ELSE Tail(lockQ[Env(d)])]
    BY <1>4 DEF ReleaseGuards, TypeOK
  <2> QED BY <1>1, <1>2, <1>3, <2>1, <2>2, HeirType DEF TypeOK
<1>5. CASE lock[Env(d)] # d
  <2>1. lock' = lock /\ lockQ' = [lockQ EXCEPT ![Env(d)] = Leave(lockQ[Env(d)], d)]
    BY <1>5 DEF ReleaseGuards, TypeOK
  <2> QED BY <1>1, <1>2, <1>3, <2>1, LeaveType DEF TypeOK
<1> QED BY <1>4, <1>5

LEMMA EndType ==
  ASSUME TypeOK, NEW d \in Requests, NEW result \in Final, End(d, result),
         restarts' \in 0..MaxRestarts, dbErrors' \in 0..MaxDbErrors
  PROVE  TypeOK'
<1>1. ReleaseGuards(d)
  BY DEF End
<1> QED BY <1>1, ReleaseType DEF TypeOK, End, durable, Live, Selecting

\* A pipeline that is over has an outcome for finish to write: without it the row would
\* lose its type.
OutcomeKnown == \A d \in Requests : pc[d] \in {"ended", "settling"} => outcome[d] # None

LEMMA NextTypeOK == TypeOK /\ OutcomeKnown /\ [Next]_vars => TypeOK'
<1> SUFFICES ASSUME TypeOK, OutcomeKnown, [Next]_vars PROVE TypeOK'
  OBVIOUS
<1>1. ASSUME NEW r \in Requests, TriggerFind(r) PROVE TypeOK'
  <2>1. answer' \in [Requests -> Requests \cup {None}]
    <3>1. CASE UNCHANGED answer
      BY <3>1 DEF TypeOK
    <3>2. CASE \E d \in Requests : answer' = [answer EXCEPT ![r] = d]
      BY <3>2 DEF TypeOK
    <3> QED BY <1>1, <3>1, <3>2 DEF TriggerFind, Waiting
  <2>2. pc' \in [Requests -> {"idle", "insert", "answered", "done"} \cup Live]
    BY <1>1 DEF TypeOK, TriggerFind
  <2> QED BY <1>1, <2>1, <2>2 DEF TypeOK, TriggerFind, durable, guards, bounds
<1>2. ASSUME NEW r \in Requests, TriggerInsert(r) PROVE TypeOK'
  BY <1>2 DEF TypeOK, TriggerInsert, guards, bounds, Live, Selecting, Unfinished
<1>3. ASSUME NEW d \in Requests, Cancel(d) PROVE TypeOK'
  BY <1>3 DEF TypeOK, Cancel, durable, guards, bounds
<1>4. ASSUME NEW d \in Requests, Register(d) PROVE TypeOK'
  <2>1. Env(d) \in Envs
    BY EnvType
  <2>2. Append(lockQ[Env(d)], d) \in Seq(Requests)
    BY <2>1 DEF TypeOK
  <2>3. lock' \in [Envs -> Requests \cup {None}]
    BY <1>4, <2>1 DEF TypeOK, Register
  <2>4. lockQ' \in [Envs -> Seq(Requests)]
    BY <1>4, <2>1, <2>2 DEF TypeOK, Register
  <2> QED BY <1>4, <2>3, <2>4 DEF TypeOK, Register, durable, bounds, Live, Selecting
<1>5. ASSUME NEW d \in Requests, Locked(d) PROVE TypeOK'
  <2>1. slots' \subseteq Requests /\ slotQ' \in Seq(Requests)
    <3>1. Append(slotQ, d) \in Seq(Requests)
      BY DEF TypeOK
    <3>2. slots \subseteq Requests /\ slotQ \in Seq(Requests)
      BY DEF TypeOK
    <3>3. slots' \in {slots, slots \cup {d}} /\ slotQ' \in {slotQ, Append(slotQ, d)}
      BY <1>5 DEF Locked
    <3> QED BY <3>1, <3>2, <3>3
  <2>2. pc' \in [Requests -> {"idle", "insert", "answered", "done"} \cup Live]
    BY <1>5 DEF TypeOK, Locked, Live, Selecting
  <2> QED BY <1>5, <2>1, <2>2 DEF TypeOK, Locked, durable, bounds
<1>6. ASSUME NEW d \in Requests, Start(d) PROVE TypeOK'
  BY <1>6 DEF TypeOK, Start, guards, bounds, Live, Selecting, Unfinished
<1>7. ASSUME NEW d \in Requests, StartFails(d) PROVE TypeOK'
  <2>1. restarts' \in 0..MaxRestarts /\ dbErrors' \in 0..MaxDbErrors
    BY <1>7, Assumptions DEF StartFails, TypeOK
  <2> QED BY <1>7, <2>1, EndType DEF StartFails, Final
<1>8. ASSUME NEW d \in Requests, Complete(d) PROVE TypeOK'
  BY <1>8, EndType DEF Complete, bounds, Final, TypeOK
<1>9. ASSUME NEW d \in Requests, TimeoutFires(d) PROVE TypeOK'
  BY <1>9, EndType DEF TimeoutFires, bounds, Final, TypeOK
<1>10. ASSUME NEW d \in Requests, Withdraw(d) PROVE TypeOK'
  BY <1>10, EndType DEF Withdraw, bounds, Final, TypeOK
<1>11. ASSUME NEW d \in Requests, Deregister(d) PROVE TypeOK'
  BY <1>11 DEF TypeOK, Deregister, durable, guards, bounds, Live, Selecting
<1>12. ASSUME NEW d \in Requests, Finish(d) PROVE TypeOK'
  <2>1. Settled(d) \in Final
    BY <1>12 DEF OutcomeKnown, TypeOK, Finish, Settled
  <2>2. row' \in [Requests -> {"absent"} \cup Unfinished \cup Final]
    BY <1>12, <2>1 DEF TypeOK, Finish
  <2>3. unsaved' \subseteq Requests /\ dbErrors' \in 0..MaxDbErrors
    BY <1>12, Assumptions DEF TypeOK, Finish
  <2> QED BY <1>12, <2>2, <2>3 DEF TypeOK, Finish, guards
<1>13. ASSUME Crash PROVE TypeOK'
  <2>1. pc' \in [Requests -> {"idle", "insert", "answered", "done"} \cup Live]
    BY <1>13 DEF TypeOK, Crash
  <2>2. /\ lock' \in [Envs -> Requests \cup {None}]
        /\ lockQ' \in [Envs -> Seq(Requests)]
        /\ outcome' \in [Requests -> Final \cup {None}]
        /\ slotQ' \in Seq(Requests)
    BY <1>13 DEF Crash
  <2>3. restarts' \in 0..MaxRestarts
    BY <1>13, Assumptions DEF TypeOK, Crash
  <2> QED BY <1>13, <2>1, <2>2, <2>3 DEF TypeOK, Crash, durable
<1>14. ASSUME NEW d \in Requests, RecoverRow(d) PROVE TypeOK'
  BY <1>14 DEF TypeOK, RecoverRow, guards, bounds, Final
<1>15. ASSUME RecoveryFails PROVE TypeOK'
  BY <1>15, Assumptions DEF TypeOK, RecoveryFails, guards, unfinishedRows
<1>16. ASSUME Boot PROVE TypeOK'
  BY <1>16 DEF TypeOK, Boot, durable, guards, bounds
<1>17. ASSUME UNCHANGED vars PROVE TypeOK'
  BY <1>17 DEF TypeOK, vars
<1> QED
  BY <1>1, <1>2, <1>3, <1>4, <1>5, <1>6, <1>7, <1>8, <1>9, <1>10, <1>11, <1>12, <1>13,
     <1>14, <1>15, <1>16, <1>17 DEF Next, Task

-----------------------------------------------------------------------------
(* The guards: who owns the lock and the slots                             *)

\* Whatever ends a pipeline, select! returns with one of the three outcomes.
LEMMA Endings ==
  ASSUME NEW d \in Requests, StartFails(d) \/ Complete(d) \/ TimeoutFires(d) \/ Withdraw(d)
  PROVE  \E result \in Final : End(d, result)
BY DEF StartFails, Complete, TimeoutFires, Withdraw, Final

LEMMA NextOutcomeKnown == TypeOK /\ OutcomeKnown /\ [Next]_vars => OutcomeKnown'
<1> SUFFICES ASSUME TypeOK, OutcomeKnown, [Next]_vars, NEW x \in Requests,
                    pc'[x] \in {"ended", "settling"}
             PROVE  outcome'[x] # None
  BY DEF OutcomeKnown
<1>t. /\ pc \in [Requests -> {"idle", "insert", "answered", "done"} \cup Live]
      /\ outcome \in [Requests -> Final \cup {None}]
  BY DEF TypeOK
<1>k. pc[x] \in {"ended", "settling"} => outcome[x] # None
  BY DEF OutcomeKnown
<1>0. ASSUME UNCHANGED <<pc, outcome>> PROVE outcome'[x] # None
  BY <1>0, <1>k
<1>1. ASSUME NEW r \in Requests, TriggerFind(r) PROVE outcome'[x] # None
  BY <1>1, <1>t, <1>k DEF TriggerFind
<1>2. ASSUME NEW d \in Requests, TriggerInsert(d) \/ Register(d) \/ Locked(d) \/ Start(d)
      PROVE  outcome'[x] # None
  <2>1. outcome' = outcome
    BY <1>2 DEF TriggerInsert, Register, Locked, Start
  <2>2. \E v \in {"spawned", "lockwait", "slotwait", "executing"} : pc' = [pc EXCEPT ![d] = v]
    BY <1>2 DEF TriggerInsert, Register, Locked, Start
  <2> QED BY <1>t, <1>k, <2>1, <2>2
<1>3. ASSUME NEW d \in Requests, Cancel(d) PROVE outcome'[x] # None
  BY <1>0, <1>3 DEF Cancel
<1>4. ASSUME NEW d \in Requests, Deregister(d) PROVE outcome'[x] # None
  BY <1>4, <1>t, <1>k DEF Deregister, OutcomeKnown
<1>5. ASSUME NEW d \in Requests, Finish(d) PROVE outcome'[x] # None
  BY <1>5, <1>t, <1>k DEF Finish
<1>6. ASSUME NEW d \in Requests, NEW result \in Final, End(d, result) PROVE outcome'[x] # None
  BY <1>6, <1>t, <1>k, NoneApart DEF End
<1>7. ASSUME Crash PROVE outcome'[x] # None
  <2>1. pc'[x] = IF pc[x] \in Live \cup {"insert"} THEN "done" ELSE pc[x]
    BY <1>7 DEF Crash
  <2> QED BY <2>1, <1>t DEF Live
<1>8. ASSUME NEW d \in Requests, RecoverRow(d) PROVE outcome'[x] # None
  BY <1>0, <1>8 DEF RecoverRow
<1>9. ASSUME RecoveryFails \/ Boot PROVE outcome'[x] # None
  BY <1>0, <1>9 DEF RecoveryFails, Boot
<1>10. ASSUME UNCHANGED vars PROVE outcome'[x] # None
  BY <1>0, <1>10 DEF vars
<1> QED
  BY <1>1, <1>2, <1>3, <1>4, <1>5, <1>6, <1>7, <1>8, <1>9, <1>10, Endings DEF Next, Task

LEMMA NextHoldersOwn == TypeOK /\ HoldersOwn /\ [Next]_vars => HoldersOwn'
<1> DEFINE Own(x) == /\ pc'[x] \in {"slotwait", "executing"} => lock'[Env(x)] = x
                     /\ pc'[x] = "executing" => x \in slots'
<1> SUFFICES ASSUME TypeOK, HoldersOwn, [Next]_vars, NEW x \in Requests
             PROVE  Own(x)
  BY DEF HoldersOwn, Env
<1>t. /\ pc \in [Requests -> {"idle", "insert", "answered", "done"} \cup Live]
      /\ lock \in [Envs -> Requests \cup {None}]
      /\ \A d \in Requests : Env(d) \in Envs
  BY EnvType DEF TypeOK
<1>k. /\ pc[x] \in {"slotwait", "executing"} => lock[Env(x)] = x
      /\ pc[x] = "executing" => x \in slots
  BY DEF HoldersOwn
<1>0. ASSUME UNCHANGED <<pc, lock, slots>> PROVE Own(x)
  BY <1>0, <1>k
<1>1. ASSUME NEW d \in Requests, lock' = lock, slots' = slots,
             \E v \in {"answered", "insert", "spawned", "lockwait", "settling", "done"} :
               pc' = [pc EXCEPT ![d] = v]
      PROVE  Own(x)
  BY <1>1, <1>t, <1>k
<1>2. ASSUME NEW d \in Requests, TriggerFind(d) \/ TriggerInsert(d) \/ Deregister(d) \/ Finish(d)
      PROVE  Own(x)
  <2>1. lock' = lock /\ slots' = slots
    BY <1>2 DEF TriggerFind, TriggerInsert, Deregister, Finish, guards
  <2>2. \E v \in {"answered", "insert", "spawned", "lockwait", "settling", "done"} :
          pc' = [pc EXCEPT ![d] = v]
    BY <1>2 DEF TriggerFind, TriggerInsert, Deregister, Finish
  <2> QED BY <1>1, <2>1, <2>2
<1>3. ASSUME NEW d \in Requests, Register(d) PROVE Own(x)
  <2>1. pc' = [pc EXCEPT ![d] = "lockwait"] /\ slots' = slots
    BY <1>3 DEF Register
  <2>2. CASE lock[Env(d)] = None
    <3>1. lock' = [lock EXCEPT ![Env(d)] = d]
      BY <1>3, <2>2 DEF Register, LockFree
    <3> QED BY <1>t, <1>k, <2>1, <2>2, <3>1, NoneApart
  <2>3. CASE lock[Env(d)] # None
    <3>1. lock' = lock
      BY <1>3, <2>3 DEF Register, LockFree
    <3> QED BY <1>1, <2>1, <3>1
  <2> QED BY <2>2, <2>3
<1>4. ASSUME NEW d \in Requests, Locked(d) PROVE Own(x)
  <2>1. pc' = [pc EXCEPT ![d] = "slotwait"] /\ lock' = lock /\ lock[Env(d)] = d
    BY <1>4 DEF Locked
  <2>2. slots \subseteq slots'
    BY <1>4 DEF Locked
  <2> QED BY <1>t, <1>k, <2>1, <2>2
<1>5. ASSUME NEW d \in Requests, Start(d) PROVE Own(x)
  <2>1. /\ pc' = [pc EXCEPT ![d] = "executing"] /\ lock' = lock /\ slots' = slots
        /\ pc[d] = "slotwait" /\ d \in slots
    BY <1>5 DEF Start, guards
  <2> QED BY <1>t, <1>k, <2>1
<1>6. ASSUME NEW d \in Requests, NEW result \in Final, End(d, result) PROVE Own(x)
  <2>1. pc' = [pc EXCEPT ![d] = "ended"] /\ ReleaseGuards(d)
    BY <1>6 DEF End
  <2>2. CASE x = d
    BY <1>t, <2>1, <2>2
  <2>3. CASE x # d
    <3>1. pc'[x] = pc[x]
      BY <1>t, <2>1, <2>3
    <3>2. x \in slots => x \in slots'
      BY <2>1, <2>3 DEF ReleaseGuards
    <3>3. lock[Env(x)] = x => lock'[Env(x)] = x
      BY <1>t, <2>1, <2>3 DEF ReleaseGuards
    <3> QED BY <1>k, <3>1, <3>2, <3>3
  <2> QED BY <2>2, <2>3
<1>7. ASSUME Crash PROVE Own(x)
  <2>1. pc'[x] = IF pc[x] \in Live \cup {"insert"} THEN "done" ELSE pc[x]
    BY <1>7 DEF Crash
  <2> QED BY <2>1 DEF Live, Selecting
<1>8. ASSUME NEW d \in Requests, Cancel(d) \/ RecoverRow(d) PROVE Own(x)
  BY <1>0, <1>8 DEF Cancel, RecoverRow, guards
<1>9. ASSUME RecoveryFails \/ Boot PROVE Own(x)
  BY <1>0, <1>9 DEF RecoveryFails, Boot, guards
<1>10. ASSUME UNCHANGED vars PROVE Own(x)
  BY <1>0, <1>10 DEF vars
<1> QED
  BY <1>2, <1>3, <1>4, <1>5, <1>6, <1>7, <1>8, <1>9, <1>10, Endings DEF Next, Task

\* The permits handed out never exceed the cap.
SlotBound == Cardinality(slots) <= MaxConcurrent

LEMMA SlotsFinite == TypeOK => IsFiniteSet(slots) /\ Cardinality(slots) \in Nat
BY Assumptions, FS_Subset, FS_CardinalityType DEF TypeOK

LEMMA NextSlotBound == TypeOK /\ SlotBound /\ [Next]_vars => SlotBound'
<1> SUFFICES ASSUME TypeOK, SlotBound, [Next]_vars PROVE SlotBound'
  OBVIOUS
<1>fin. IsFiniteSet(slots) /\ Cardinality(slots) \in Nat
  BY SlotsFinite
<1>cap. MaxConcurrent \in Nat
  BY Assumptions
<1>0. ASSUME slots' = slots PROVE SlotBound'
  BY <1>0 DEF SlotBound
<1>1. ASSUME NEW r \in Requests, TriggerFind(r) \/ TriggerInsert(r) \/ Cancel(r) PROVE SlotBound'
  BY <1>0, <1>1 DEF TriggerFind, TriggerInsert, Cancel, guards
<1>2. ASSUME NEW d \in Requests, Register(d) \/ Start(d) \/ Deregister(d) \/ Finish(d) PROVE SlotBound'
  BY <1>0, <1>2 DEF Register, Start, Deregister, Finish, guards
<1>3. ASSUME NEW d \in Requests, Locked(d) PROVE SlotBound'
  <2>1. CASE SlotFree
    <3>1. slots' = slots \cup {d}
      BY <1>3, <2>1 DEF Locked
    <3>2. IsFiniteSet(slots') /\ Cardinality(slots') \in {Cardinality(slots), Cardinality(slots) + 1}
      BY <1>fin, <3>1, FS_AddElement
    <3> QED BY <1>fin, <1>cap, <2>1, <3>2 DEF SlotFree, SlotBound
  <2>2. CASE ~SlotFree
    BY <1>0, <1>3, <2>2 DEF Locked
  <2> QED BY <2>1, <2>2
<1>4. ASSUME NEW d \in Requests, NEW result \in Final, End(d, result) PROVE SlotBound'
  <2>1. ReleaseGuards(d)
    BY <1>4 DEF End
  <2>2. CASE d \in slots /\ slotQ # <<>>
    <3>1. slots' = (slots \ {d}) \cup {Head(slotQ)}
      BY <2>1, <2>2 DEF ReleaseGuards, Heir
    <3>2. IsFiniteSet(slots \ {d}) /\ Cardinality(slots \ {d}) = Cardinality(slots) - 1
      BY <1>fin, <2>2, FS_RemoveElement
    <3>3. Cardinality(slots') \in {Cardinality(slots) - 1, (Cardinality(slots) - 1) + 1}
      BY <3>1, <3>2, FS_AddElement
    <3> QED BY <1>fin, <1>cap, <3>3 DEF SlotBound
  <2>3. CASE d \in slots /\ slotQ = <<>>
    <3>1. slots' = slots \ {d}
      BY <2>1, <2>3 DEF ReleaseGuards, Heir
    <3>2. Cardinality(slots') = Cardinality(slots) - 1
      BY <1>fin, <2>3, <3>1, FS_RemoveElement
    <3> QED BY <1>fin, <1>cap, <3>2 DEF SlotBound
  <2>4. CASE d \notin slots
    BY <1>0, <2>1, <2>4 DEF ReleaseGuards
  <2> QED BY <2>2, <2>3, <2>4
<1>5. ASSUME Crash PROVE SlotBound'
  BY <1>5, <1>cap, FS_EmptySet DEF Crash, SlotBound
<1>6. ASSUME RecoveryFails \/ Boot \/ (\E d \in Requests : RecoverRow(d)) PROVE SlotBound'
  BY <1>0, <1>6 DEF RecoveryFails, Boot, RecoverRow, guards
<1>7. ASSUME UNCHANGED vars PROVE SlotBound'
  BY <1>0, <1>7 DEF vars
<1> QED BY <1>1, <1>2, <1>3, <1>4, <1>5, <1>6, <1>7, Endings DEF Next, Task

-----------------------------------------------------------------------------
(* The inductive invariant and what follows from it                        *)

\* TypeOK needs OutcomeKnown (finish writes an outcome); mutual exclusion needs
\* HoldersOwn (two owners of one lock are one); the cap needs SlotBound.
GuardInv == TypeOK /\ OutcomeKnown /\ HoldersOwn /\ SlotBound

THEOREM GuardInvariance == Spec => []GuardInv
<1>1. Init => GuardInv
  <2>1. Init => TypeOK
    BY InitTypeOK
  <2>2. Init => OutcomeKnown /\ HoldersOwn
    BY DEF Init, OutcomeKnown, HoldersOwn
  <2>3. Init => SlotBound
    BY Assumptions, FS_EmptySet DEF Init, SlotBound
  <2> QED BY <2>1, <2>2, <2>3 DEF GuardInv
<1>2. GuardInv /\ [Next]_vars => GuardInv'
  BY NextTypeOK, NextOutcomeKnown, NextHoldersOwn, NextSlotBound DEF GuardInv
<1> QED BY <1>1, <1>2, PTL DEF Spec

\* Every variable of the engine keeps its type; no row ever holds anything but a status.
THEOREM TypeCorrect == Spec => []TypeOK
<1>1. GuardInv => TypeOK
  BY DEF GuardInv
<1> QED BY <1>1, GuardInvariance, PTL

\* An environment never has two pipelines at work.
THEOREM EnvironmentsExclusive == Spec => []OnePipelinePerEnvironment
<1>1. GuardInv => OnePipelinePerEnvironment
  <2> SUFFICES ASSUME HoldersOwn, NEW d1 \in executing, NEW d2 \in executing, Env(d1) = Env(d2)
               PROVE  d1 = d2
    BY DEF GuardInv, OnePipelinePerEnvironment
  <2>1. lock[Env(d1)] = d1 /\ lock[Env(d2)] = d2
    BY DEF HoldersOwn, executing
  <2> QED BY <2>1
<1> QED BY <1>1, GuardInvariance, PTL

\* The host never runs more pipelines than MAX_CONCURRENT.
THEOREM SlotsCapped == Spec => []SlotCap
<1>1. GuardInv => SlotCap
  <2> SUFFICES ASSUME GuardInv PROVE SlotCap
    OBVIOUS
  <2>1. executing \subseteq slots
    BY DEF GuardInv, HoldersOwn, executing
  <2>2. IsFiniteSet(slots) /\ Cardinality(slots) \in Nat
    BY SlotsFinite DEF GuardInv
  <2>3. Cardinality(executing) <= Cardinality(slots) /\ Cardinality(executing) \in Nat
    BY <2>1, <2>2, FS_Subset, FS_CardinalityType
  <2> QED BY <2>2, <2>3, Assumptions DEF GuardInv, SlotBound, SlotCap
<1> QED BY <1>1, GuardInvariance, PTL
-----------------------------------------------------------------------------
(* The guards: who waits for what                                          *)

\* x has a place in q; nobody has two.
Waits(q, x)  == \E i \in 1..Len(q) : q[i] = x
Distinct(q)  == \A i, j \in 1..Len(q) : q[i] = q[j] => i = j

\* Nobody waits in an empty queue.
LEMMA EmptyQueue == Distinct(<<>>) /\ \A x : ~Waits(<<>>, x)
BY DEF Distinct, Waits

\* Whoever joins is the last to wait.
LEMMA Joining ==
  ASSUME NEW S, NEW q \in Seq(S), NEW d \in S
  PROVE  /\ \A x : Waits(Append(q, d), x) <=> Waits(q, x) \/ x = d
         /\ Distinct(q) /\ ~Waits(q, d) => Distinct(Append(q, d))
<1>1. /\ Len(Append(q, d)) = Len(q) + 1 /\ Len(q) \in Nat
      /\ \A i \in 1..Len(q) : Append(q, d)[i] = q[i]
      /\ Append(q, d)[Len(q) + 1] = d
  BY AppendProperties
<1>2. 1..(Len(q) + 1) = 1..Len(q) \cup {Len(q) + 1}
  BY <1>1
<1>3. ASSUME NEW x PROVE Waits(Append(q, d), x) <=> Waits(q, x) \/ x = d
  BY <1>1, <1>2 DEF Waits
<1>4. ASSUME Distinct(q), ~Waits(q, d) PROVE Distinct(Append(q, d))
  BY <1>1, <1>2, <1>4 DEF Distinct, Waits
<1> QED BY <1>3, <1>4

\* The oldest waiter leaves by the front.
LEMMA Serving ==
  ASSUME NEW S, NEW q \in Seq(S), q # <<>>, Distinct(q)
  PROVE  /\ Distinct(Tail(q)) /\ Head(q) \in S /\ Waits(q, Head(q))
         /\ \A x : Waits(Tail(q), x) <=> Waits(q, x) /\ x # Head(q)
<1>1. /\ Len(q) \in Nat \ {0} /\ Head(q) = q[1] /\ Head(q) \in S
      /\ Len(Tail(q)) = Len(q) - 1
      /\ \A i \in 1..(Len(q) - 1) : Tail(q)[i] = q[i + 1]
  BY HeadTailProperties
<1>2. Distinct(Tail(q)) /\ Waits(q, Head(q))
  BY <1>1 DEF Distinct, Waits
<1>3. ASSUME NEW x, Waits(Tail(q), x) PROVE Waits(q, x) /\ x # Head(q)
  <2>1. PICK i \in 1..(Len(q) - 1) : Tail(q)[i] = x
    BY <1>1, <1>3 DEF Waits
  <2>2. i + 1 \in 1..Len(q) /\ q[i + 1] = x /\ 1 \in 1..Len(q) /\ i + 1 # 1
    BY <1>1, <2>1
  <2> QED BY <1>1, <2>2 DEF Distinct, Waits
<1>4. ASSUME NEW x, Waits(q, x), x # Head(q) PROVE Waits(Tail(q), x)
  <2>1. PICK i \in 1..Len(q) : q[i] = x
    BY <1>4 DEF Waits
  <2>2. i - 1 \in 1..(Len(q) - 1) /\ Tail(q)[i - 1] = x
    <3>1. i # 1
      BY <1>1, <1>4, <2>1
    <3>2. i - 1 \in 1..(Len(q) - 1) /\ (i - 1) + 1 = i
      BY <1>1, <3>1
    <3> QED BY <1>1, <2>1, <3>2
  <2> QED BY <1>1, <2>2 DEF Waits
<1> QED BY <1>1, <1>2, <1>3, <1>4

\* Whoever leaves is gone, from wherever they waited, and nobody else is.
LEMMA Leaving ==
  ASSUME NEW S, NEW q \in Seq(S), NEW d, Distinct(q)
  PROVE  /\ Distinct(Leave(q, d))
         /\ \A x : Waits(Leave(q, d), x) <=> Waits(q, x) /\ x # d
<1>1. CASE ~Waits(q, d)
  BY <1>1 DEF Leave, Waits
<1>2. CASE Waits(q, d)
  <2>1. PICK k \in 1..Len(q) : k = CHOOSE j \in 1..Len(q) : q[j] = d
    BY <1>2, Zenon DEF Waits
  <2>2. q[k] = d
    BY <1>2, <2>1, Zenon DEF Waits
  <2>3. Leave(q, d) = SubSeq(q, 1, k - 1) \o SubSeq(q, k + 1, Len(q))
    BY <1>2, <2>1, Zenon DEF Leave, Waits
  <2> DEFINE r == Leave(q, d)
             before == SubSeq(q, 1, k - 1)
             after  == SubSeq(q, k + 1, Len(q))
  <2>4. Len(q) \in Nat /\ k \in Nat /\ 1 <= k /\ k <= Len(q)
    OBVIOUS
  <2>5. before \in Seq(S) /\ Len(before) = k - 1 /\ \A i \in 1..(k - 1) : before[i] = q[i]
    BY <2>4, SubSeqProperties
  <2>6. after \in Seq(S) /\ Len(after) = Len(q) - k /\ \A i \in 1..(Len(q) - k) : after[i] = q[i + k]
    BY <2>4, SubSeqProperties
  <2> HIDE DEF before, after
  <2>7. Len(r) = Len(q) - 1 /\ \A i \in 1..(Len(q) - 1) : r[i] = IF i < k THEN q[i] ELSE q[i + 1]
    <3>1. /\ Len(r) = (k - 1) + (Len(q) - k)
          /\ \A i \in 1..((k - 1) + (Len(q) - k)) :
               r[i] = IF i <= k - 1 THEN before[i] ELSE after[i - (k - 1)]
      <4>1. r = before \o after
        BY <2>3 DEF before, after
      <4> HIDE DEF r
      <4>2. /\ Len(before \o after) = Len(before) + Len(after)
            /\ \A i \in 1..(Len(before) + Len(after)) :
                 (before \o after)[i] = IF i <= Len(before) THEN before[i] ELSE after[i - Len(before)]
        BY <2>5, <2>6, ConcatProperties
      <4> QED BY <2>5, <2>6, <4>1, <4>2
    <3>2. ASSUME NEW i \in 1..(Len(q) - 1) PROVE r[i] = IF i < k THEN q[i] ELSE q[i + 1]
      <4>1. r[i] = IF i <= k - 1 THEN before[i] ELSE after[i - (k - 1)]
        BY <2>4, <3>1
      <4>2. CASE i < k
        BY <2>4, <2>5, <4>1, <4>2
      <4>3. CASE ~(i < k)
        <5>1. i - (k - 1) \in 1..(Len(q) - k) /\ (i - (k - 1)) + k = i + 1 /\ ~(i <= k - 1)
          BY <2>4, <4>3
        <5> QED BY <2>6, <4>1, <4>3, <5>1
      <4> QED BY <4>2, <4>3
    <3> QED BY <2>4, <3>1, <3>2
  <2> HIDE DEF r
  <2>8. Distinct(r)
    <3> SUFFICES ASSUME NEW i \in 1..Len(r), NEW j \in 1..Len(r), r[i] = r[j] PROVE i = j
      BY DEF Distinct
    <3> DEFINE at(n) == IF n < k THEN n ELSE n + 1
    <3>1. at(i) \in 1..Len(q) /\ at(j) \in 1..Len(q) /\ q[at(i)] = r[i] /\ q[at(j)] = r[j]
      BY <2>4, <2>7
    <3>2. at(i) = at(j)
      BY <3>1 DEF Distinct
    <3> QED BY <2>4, <2>7, <3>2
  <2>9. ASSUME NEW x, Waits(r, x) PROVE Waits(q, x) /\ x # d
    <3>1. PICK i \in 1..Len(r) : r[i] = x
      BY <2>9 DEF Waits
    <3> DEFINE n == IF i < k THEN i ELSE i + 1
    <3>2. n \in 1..Len(q) /\ q[n] = x /\ n # k
      BY <2>4, <2>7, <3>1
    <3> QED BY <2>2, <2>4, <3>2 DEF Waits, Distinct
  <2>10. ASSUME NEW x, Waits(q, x), x # d PROVE Waits(r, x)
    <3>1. PICK i \in 1..Len(q) : q[i] = x
      BY <2>10 DEF Waits
    <3> DEFINE n == IF i < k THEN i ELSE i - 1
    <3>2. i # k
      BY <2>2, <2>10, <3>1
    <3>3. n \in 1..Len(r) /\ r[n] = x
      BY <2>4, <2>7, <3>1, <3>2
    <3> QED BY <3>3 DEF Waits
  <2> QED BY <2>8, <2>9, <2>10 DEF r
<1> QED BY <1>1, <1>2
-----------------------------------------------------------------------------
(* The environments' locks                                                  *)

\* The queue of a lock holds exactly those who wait for it, the owner excepted, once each;
\* a lock nobody owns has no queue; an owner is inside select! and will give it back.
LockInv ==
  \A e \in Envs :
    /\ Distinct(lockQ[e])
    /\ \A x \in Requests :
         Waits(lockQ[e], x) <=> pc[x] = "lockwait" /\ Env(x) = e /\ lock[e] # x
    /\ lock[e] = None => lockQ[e] = <<>>
    /\ lock[e] # None => pc[lock[e]] \in Selecting /\ Env(lock[e]) = e

\* Each way a task leaves hands the lock to the head of the queue or closes the gap.
LEMMA NextLockInv == TypeOK /\ LockInv /\ [Next]_vars => LockInv'
<1> DEFINE Good(e) ==
      /\ Distinct(lockQ'[e])
      /\ \A x \in Requests :
           Waits(lockQ'[e], x) <=> pc'[x] = "lockwait" /\ Env(x) = e /\ lock'[e] # x
      /\ lock'[e] = None => lockQ'[e] = <<>>
      /\ lock'[e] # None => pc'[lock'[e]] \in Selecting /\ Env(lock'[e]) = e
<1> SUFFICES ASSUME TypeOK, LockInv, [Next]_vars, NEW e \in Envs PROVE Good(e)
  BY DEF LockInv, Env
<1>t. /\ pc \in [Requests -> {"idle", "insert", "answered", "done"} \cup Live]
      /\ lock \in [Envs -> Requests \cup {None}]
      /\ lockQ \in [Envs -> Seq(Requests)]
      /\ lockQ[e] \in Seq(Requests)
      /\ \A d \in Requests : Env(d) \in Envs
  BY EnvType DEF TypeOK
<1>k. /\ Distinct(lockQ[e])
      /\ \A x \in Requests :
           Waits(lockQ[e], x) <=> pc[x] = "lockwait" /\ Env(x) = e /\ lock[e] # x
      /\ lock[e] = None => lockQ[e] = <<>>
      /\ lock[e] # None => pc[lock[e]] \in Selecting /\ Env(lock[e]) = e
  BY DEF LockInv
<1>0. ASSUME UNCHANGED <<pc, lock, lockQ>> PROVE Good(e)
  BY <1>0, <1>k
<1>1. ASSUME NEW d \in Requests, UNCHANGED <<lock, lockQ>>, pc[d] \notin Selecting,
             \E v \in {"answered", "insert", "spawned", "settling", "done"} : pc' = [pc EXCEPT ![d] = v]
      PROVE  Good(e)
  <2>1. \A x \in Requests : pc'[x] = "lockwait" <=> pc[x] = "lockwait"
    BY <1>1, <1>t DEF Selecting
  <2>2. \A x \in Requests : pc[x] \in Selecting => pc'[x] \in Selecting
    BY <1>1, <1>t
  <2> QED BY <1>1, <1>t, <1>k, <2>1, <2>2
<1>2. ASSUME NEW d \in Requests, TriggerFind(d) \/ TriggerInsert(d) \/ Deregister(d) \/ Finish(d)
      PROVE  Good(e)
  <2>1. UNCHANGED <<lock, lockQ>> /\ pc[d] \notin Selecting
    BY <1>2 DEF TriggerFind, TriggerInsert, Deregister, Finish, guards, Selecting
  <2>2. \E v \in {"answered", "insert", "spawned", "settling", "done"} : pc' = [pc EXCEPT ![d] = v]
    BY <1>2 DEF TriggerFind, TriggerInsert, Deregister, Finish
  <2> QED BY <1>1, <2>1, <2>2
<1>3. ASSUME NEW d \in Requests, Register(d) PROVE Good(e)
  <2>1. pc[d] = "spawned" /\ pc' = [pc EXCEPT ![d] = "lockwait"]
    BY <1>3 DEF Register
  <2>2. ~Waits(lockQ[e], d) /\ (lock[e] # None => lock[e] # d)
    BY <1>k, <2>1 DEF Selecting
  <2>3. CASE Env(d) # e
    <3>1. lock'[e] = lock[e] /\ lockQ'[e] = lockQ[e]
      BY <1>3, <1>t, <2>3 DEF Register
    <3> QED BY <1>t, <1>k, <2>1, <2>2, <2>3, <3>1 DEF Selecting
  <2>4. CASE Env(d) = e /\ lock[e] = None
    <3>1. lock'[e] = d /\ lockQ'[e] = <<>>
      BY <1>3, <1>t, <1>k, <2>4 DEF Register, LockFree
    <3>2. \A x \in Requests : x # d => ~(pc'[x] = "lockwait" /\ Env(x) = e)
      <4>1. \A x \in Requests : ~Waits(lockQ[e], x)
        BY <1>k, <2>4, EmptyQueue
      <4> QED BY <1>k, <1>t, <2>1, <2>4, <4>1, NoneApart
    <3>3. pc'[d] \in Selecting /\ d # None
      BY <1>t, <2>1, NoneApart DEF Selecting
    <3>4. ASSUME NEW x \in Requests
          PROVE  Waits(lockQ'[e], x) <=> pc'[x] = "lockwait" /\ Env(x) = e /\ lock'[e] # x
      BY <3>1, <3>2, EmptyQueue
    <3> QED BY <2>4, <3>1, <3>3, <3>4, EmptyQueue
  <2>5. CASE Env(d) = e /\ lock[e] # None
    <3>1. lock'[e] = lock[e] /\ lockQ'[e] = Append(lockQ[e], d)
      BY <1>3, <1>t, <2>5 DEF Register, LockFree
    <3>2. Distinct(lockQ'[e]) /\ \A x : Waits(lockQ'[e], x) <=> Waits(lockQ[e], x) \/ x = d
      BY <1>t, <1>k, <2>2, <3>1, Joining
    <3>3. ASSUME NEW x \in Requests
          PROVE  Waits(lockQ'[e], x) <=> pc'[x] = "lockwait" /\ Env(x) = e /\ lock'[e] # x
      BY <1>t, <1>k, <2>1, <2>2, <2>5, <3>1, <3>2
    <3>4. pc'[lock'[e]] \in Selecting
      BY <1>t, <1>k, <2>1, <2>5, <3>1 DEF Selecting
    <3> QED BY <1>k, <2>5, <3>1, <3>2, <3>3, <3>4
  <2> QED BY <2>3, <2>4, <2>5
<1>4. ASSUME NEW d \in Requests, Locked(d) \/ Start(d) PROVE Good(e)
  <2>1. /\ UNCHANGED <<lock, lockQ>> /\ pc[d] \in {"lockwait", "slotwait"}
        /\ pc[d] = "lockwait" => lock[Env(d)] = d
        /\ \E v \in {"slotwait", "executing"} : pc' = [pc EXCEPT ![d] = v]
    BY <1>4 DEF Locked, Start, guards
  <2>2. ASSUME NEW x \in Requests
        PROVE  Waits(lockQ'[e], x) <=> pc'[x] = "lockwait" /\ Env(x) = e /\ lock'[e] # x
    BY <1>t, <1>k, <2>1
  <2>3. lock[e] # None => pc'[lock[e]] \in Selecting
    BY <1>t, <1>k, <2>1 DEF Selecting
  <2> QED BY <1>k, <2>1, <2>2, <2>3
<1>5. ASSUME NEW d \in Requests, NEW result \in Final, End(d, result) PROVE Good(e)
  <2>1. pc' = [pc EXCEPT ![d] = "ended"] /\ ReleaseGuards(d)
    BY <1>5 DEF End
  <2>2. CASE Env(d) # e
    <3>1. lock'[e] = lock[e] /\ lockQ'[e] = lockQ[e]
      BY <1>t, <2>1, <2>2 DEF ReleaseGuards
    <3>2. lock[e] # None => lock[e] # d
      BY <1>k, <2>2
    <3> QED BY <1>t, <1>k, <2>1, <2>2, <3>1, <3>2
  <2>3. CASE Env(d) = e /\ lock[e] = d /\ lockQ[e] = <<>>
    <3>1. lock'[e] = None /\ lockQ'[e] = <<>>
      BY <1>t, <2>1, <2>3 DEF ReleaseGuards
    <3>2. \A x \in Requests : ~(pc'[x] = "lockwait" /\ Env(x) = e)
      BY <1>t, <1>k, <2>1, <2>3, EmptyQueue
    <3>3. ASSUME NEW x \in Requests
          PROVE  Waits(lockQ'[e], x) <=> pc'[x] = "lockwait" /\ Env(x) = e /\ lock'[e] # x
      BY <3>1, <3>2, EmptyQueue
    <3> QED BY <3>1, <3>3, EmptyQueue
  <2>4. CASE Env(d) = e /\ lock[e] = d /\ lockQ[e] # <<>>
    <3> DEFINE heir == Head(lockQ[e])
    <3>1. lock'[e] = heir /\ lockQ'[e] = Tail(lockQ[e])
      BY <1>t, <2>1, <2>4 DEF ReleaseGuards
    <3>2. /\ heir \in Requests /\ Waits(lockQ[e], heir) /\ Distinct(lockQ'[e])
          /\ \A x : Waits(lockQ'[e], x) <=> Waits(lockQ[e], x) /\ x # heir
      BY <1>t, <1>k, <2>4, <3>1, Serving
    <3> HIDE DEF heir
    <3>3. heir # d /\ pc'[heir] = "lockwait" /\ Env(heir) = e /\ heir # None
      BY <1>t, <1>k, <2>1, <2>4, <3>2, NoneApart
    <3>4. ASSUME NEW x \in Requests
          PROVE  Waits(lockQ'[e], x) <=> pc'[x] = "lockwait" /\ Env(x) = e /\ lock'[e] # x
      BY <1>t, <1>k, <2>1, <2>4, <3>1, <3>2
    <3> QED BY <3>1, <3>2, <3>3, <3>4 DEF Selecting
  <2>5. CASE Env(d) = e /\ lock[e] # d
    <3>1. lock'[e] = lock[e] /\ lockQ'[e] = Leave(lockQ[e], d)
      BY <1>t, <2>1, <2>5 DEF ReleaseGuards
    <3>2. Distinct(lockQ'[e]) /\ \A x : Waits(lockQ'[e], x) <=> Waits(lockQ[e], x) /\ x # d
      BY <1>t, <1>k, <3>1, Leaving
    <3>3. ASSUME NEW x \in Requests
          PROVE  Waits(lockQ'[e], x) <=> pc'[x] = "lockwait" /\ Env(x) = e /\ lock'[e] # x
      BY <1>t, <1>k, <2>1, <3>1, <3>2
    <3>4. lock'[e] = None => lockQ'[e] = <<>>
      BY <1>k, <3>1 DEF Leave
    <3>5. lock[e] # None => pc'[lock[e]] \in Selecting
      BY <1>t, <1>k, <2>1, <2>5
    <3> QED BY <1>k, <3>1, <3>2, <3>3, <3>4, <3>5
  <2> QED BY <2>2, <2>3, <2>4, <2>5
<1>6. ASSUME Crash PROVE Good(e)
  <2>1. /\ lock'[e] = None /\ lockQ'[e] = <<>>
        /\ \A x \in Requests : pc'[x] = IF pc[x] \in Live \cup {"insert"} THEN "done" ELSE pc[x]
    BY <1>6 DEF Crash
  <2>2. \A x \in Requests : pc'[x] # "lockwait"
    BY <2>1 DEF Live, Selecting
  <2> QED BY <2>1, <2>2, EmptyQueue
<1>7. ASSUME NEW d \in Requests, Cancel(d) \/ RecoverRow(d) PROVE Good(e)
  BY <1>0, <1>7 DEF Cancel, RecoverRow, guards
<1>8. ASSUME RecoveryFails \/ Boot PROVE Good(e)
  BY <1>0, <1>8 DEF RecoveryFails, Boot, guards
<1>9. ASSUME UNCHANGED vars PROVE Good(e)
  BY <1>0, <1>9 DEF vars
<1> QED
  BY <1>2, <1>3, <1>4, <1>5, <1>6, <1>7, <1>8, <1>9, Endings DEF Next, Task

-----------------------------------------------------------------------------
(* The host's slots                                                        *)

\* The same for the permits, which have several owners at a time.
SlotInv ==
  /\ Distinct(slotQ)
  /\ \A x \in Requests : Waits(slotQ, x) <=> pc[x] = "slotwait" /\ x \notin slots
  /\ SlotFree => slotQ = <<>>
  /\ \A x \in slots : pc[x] \in {"slotwait", "executing"}

\* A permit handed on leaves the count as it was, so nobody can overtake the queue.
LEMMA NextSlotInv == TypeOK /\ SlotInv /\ [Next]_vars => SlotInv'
<1> SUFFICES ASSUME TypeOK, SlotInv, [Next]_vars PROVE SlotInv'
  OBVIOUS
<1>t. /\ pc \in [Requests -> {"idle", "insert", "answered", "done"} \cup Live]
      /\ slotQ \in Seq(Requests) /\ slots \subseteq Requests
      /\ IsFiniteSet(slots) /\ Cardinality(slots) \in Nat /\ MaxConcurrent \in Nat
  BY SlotsFinite, Assumptions DEF TypeOK
<1>k. /\ Distinct(slotQ)
      /\ \A x \in Requests : Waits(slotQ, x) <=> pc[x] = "slotwait" /\ x \notin slots
      /\ SlotFree => slotQ = <<>>
      /\ \A x \in slots : pc[x] \in {"slotwait", "executing"}
  BY DEF SlotInv
<1>0. ASSUME UNCHANGED <<pc, slots, slotQ>> PROVE SlotInv'
  BY <1>0, <1>k DEF SlotInv, SlotFree
<1>1. ASSUME NEW d \in Requests, UNCHANGED <<slots, slotQ>>, pc[d] \notin {"slotwait", "executing"},
             \E v \in {"answered", "insert", "spawned", "lockwait", "settling", "done"} :
               pc' = [pc EXCEPT ![d] = v]
      PROVE  SlotInv'
  <2>1. \A x \in Requests : pc'[x] = "slotwait" <=> pc[x] = "slotwait"
    BY <1>1, <1>t
  <2>2. \A x \in slots : pc'[x] \in {"slotwait", "executing"}
    BY <1>1, <1>t, <1>k
  <2> QED BY <1>1, <1>k, <2>1, <2>2 DEF SlotInv, SlotFree
<1>2. ASSUME NEW d \in Requests,
             TriggerFind(d) \/ TriggerInsert(d) \/ Register(d) \/ Deregister(d) \/ Finish(d)
      PROVE  SlotInv'
  <2>1. UNCHANGED <<slots, slotQ>> /\ pc[d] \notin {"slotwait", "executing"}
    BY <1>2 DEF TriggerFind, TriggerInsert, Register, Deregister, Finish, guards
  <2>2. \E v \in {"answered", "insert", "spawned", "lockwait", "settling", "done"} : pc' = [pc EXCEPT ![d] = v]
    BY <1>2 DEF TriggerFind, TriggerInsert, Register, Deregister, Finish
  <2> QED BY <1>1, <2>1, <2>2
<1>3. ASSUME NEW d \in Requests, Locked(d) PROVE SlotInv'
  <2>1. pc' = [pc EXCEPT ![d] = "slotwait"] /\ d \notin slots
    BY <1>3, <1>k DEF Locked
  <2>2. CASE SlotFree
    <3>1. slots' = slots \cup {d} /\ slotQ' = <<>> /\ slotQ = <<>>
      BY <1>3, <1>k, <2>2 DEF Locked
    <3>2. ASSUME NEW x \in Requests
          PROVE  Waits(slotQ', x) <=> pc'[x] = "slotwait" /\ x \notin slots'
      <4>1. ~(pc[x] = "slotwait" /\ x \notin slots)
        BY <1>k, <3>1, EmptyQueue
      <4> QED BY <1>t, <2>1, <3>1, <4>1, EmptyQueue
    <3>3. \A x \in slots' : pc'[x] \in {"slotwait", "executing"}
      BY <1>t, <1>k, <2>1, <3>1
    <3> QED BY <3>1, <3>2, <3>3, EmptyQueue DEF SlotInv
  <2>3. CASE ~SlotFree
    <3>1. slots' = slots /\ slotQ' = Append(slotQ, d)
      BY <1>3, <2>3 DEF Locked
    <3>2. ~Waits(slotQ, d)
      BY <1>3, <1>k DEF Locked
    <3>3. Distinct(slotQ') /\ \A x : Waits(slotQ', x) <=> Waits(slotQ, x) \/ x = d
      BY <1>t, <1>k, <3>1, <3>2, Joining
    <3>4. ASSUME NEW x \in Requests
          PROVE  Waits(slotQ', x) <=> pc'[x] = "slotwait" /\ x \notin slots'
      BY <1>t, <1>k, <2>1, <3>1, <3>3
    <3>5. \A x \in slots' : pc'[x] \in {"slotwait", "executing"}
      BY <1>t, <1>k, <2>1, <3>1
    <3>6. ~SlotFree'
      BY <2>3, <3>1 DEF SlotFree
    <3> QED BY <3>3, <3>4, <3>5, <3>6 DEF SlotInv
  <2> QED BY <2>2, <2>3
<1>4. ASSUME NEW d \in Requests, Start(d) PROVE SlotInv'
  <2>1. /\ d \in slots /\ UNCHANGED <<slots, slotQ>>
        /\ pc' = [pc EXCEPT ![d] = "executing"]
    BY <1>4 DEF Start, guards
  <2>2. ASSUME NEW x \in Requests
        PROVE  Waits(slotQ', x) <=> pc'[x] = "slotwait" /\ x \notin slots'
    BY <1>t, <1>k, <2>1
  <2>3. \A x \in slots' : pc'[x] \in {"slotwait", "executing"}
    BY <1>t, <1>k, <2>1
  <2> QED BY <1>k, <2>1, <2>2, <2>3 DEF SlotInv, SlotFree
<1>5. ASSUME NEW d \in Requests, NEW result \in Final, End(d, result) PROVE SlotInv'
  <2>1. pc' = [pc EXCEPT ![d] = "ended"] /\ ReleaseGuards(d)
    BY <1>5 DEF End
  <2>2. CASE d \in slots /\ slotQ = <<>>
    <3>1. slots' = slots \ {d} /\ slotQ' = <<>>
      BY <2>1, <2>2 DEF ReleaseGuards, Heir
    <3>2. ASSUME NEW x \in Requests
          PROVE  Waits(slotQ', x) <=> pc'[x] = "slotwait" /\ x \notin slots'
      <4>1. ~(pc[x] = "slotwait" /\ x \notin slots)
        BY <1>k, <2>2, EmptyQueue
      <4> QED BY <1>t, <2>1, <3>1, <4>1, EmptyQueue
    <3>3. \A x \in slots' : pc'[x] \in {"slotwait", "executing"}
      BY <1>t, <1>k, <2>1, <3>1
    <3> QED BY <3>1, <3>2, <3>3, EmptyQueue DEF SlotInv
  <2>3. CASE d \in slots /\ slotQ # <<>>
    <3> DEFINE heir == Head(slotQ)
    <3>1. slots' = (slots \ {d}) \cup {heir} /\ slotQ' = Tail(slotQ)
      BY <2>1, <2>3 DEF ReleaseGuards, Heir
    <3>2. /\ heir \in Requests /\ Waits(slotQ, heir) /\ Distinct(slotQ')
          /\ \A x : Waits(slotQ', x) <=> Waits(slotQ, x) /\ x # heir
      BY <1>t, <1>k, <2>3, <3>1, Serving
    <3> HIDE DEF heir
    <3>3. pc[heir] = "slotwait" /\ heir \notin slots /\ heir # d
      BY <1>k, <2>3, <3>2
    <3>4. ASSUME NEW x \in Requests
          PROVE  Waits(slotQ', x) <=> pc'[x] = "slotwait" /\ x \notin slots'
      BY <1>t, <1>k, <2>1, <2>3, <3>1, <3>2, <3>3
    <3>5. \A x \in slots' : pc'[x] \in {"slotwait", "executing"}
      BY <1>t, <1>k, <2>1, <3>1, <3>2, <3>3
    <3>6. Cardinality(slots') = Cardinality(slots)
      <4>1. IsFiniteSet(slots \ {d}) /\ Cardinality(slots \ {d}) = Cardinality(slots) - 1
        BY <1>t, <2>3, FS_RemoveElement
      <4>2. Cardinality((slots \ {d}) \cup {heir}) = Cardinality(slots \ {d}) + 1
        BY <4>1, <3>3, FS_AddElement
      <4> QED BY <1>t, <3>1, <4>1, <4>2
    <3>7. ~SlotFree'
      BY <1>k, <2>3, <3>6 DEF SlotFree
    <3> QED BY <3>2, <3>4, <3>5, <3>7 DEF SlotInv
  <2>4. CASE d \notin slots
    <3>1. slots' = slots /\ slotQ' = Leave(slotQ, d)
      BY <2>1, <2>4 DEF ReleaseGuards
    <3>2. Distinct(slotQ') /\ \A x : Waits(slotQ', x) <=> Waits(slotQ, x) /\ x # d
      BY <1>t, <1>k, <3>1, Leaving
    <3>3. ASSUME NEW x \in Requests
          PROVE  Waits(slotQ', x) <=> pc'[x] = "slotwait" /\ x \notin slots'
      BY <1>t, <1>k, <2>1, <3>1, <3>2
    <3>4. \A x \in slots' : pc'[x] \in {"slotwait", "executing"}
      BY <1>t, <1>k, <2>1, <2>4, <3>1
    <3>5. SlotFree' => slotQ' = <<>>
      BY <1>k, <3>1 DEF SlotFree, Leave
    <3> QED BY <3>2, <3>3, <3>4, <3>5 DEF SlotInv
  <2> QED BY <2>2, <2>3, <2>4
<1>6. ASSUME Crash PROVE SlotInv'
  <2>1. /\ slots' = {} /\ slotQ' = <<>>
        /\ \A x \in Requests : pc'[x] = IF pc[x] \in Live \cup {"insert"} THEN "done" ELSE pc[x]
    BY <1>6 DEF Crash
  <2>2. \A x \in Requests : pc'[x] # "slotwait"
    BY <2>1 DEF Live, Selecting
  <2> QED BY <2>1, <2>2, EmptyQueue DEF SlotInv
<1>7. ASSUME NEW d \in Requests, Cancel(d) \/ RecoverRow(d) PROVE SlotInv'
  BY <1>0, <1>7 DEF Cancel, RecoverRow, guards
<1>8. ASSUME RecoveryFails \/ Boot PROVE SlotInv'
  BY <1>0, <1>8 DEF RecoveryFails, Boot, guards
<1>9. ASSUME UNCHANGED vars PROVE SlotInv'
  BY <1>0, <1>9 DEF vars
<1> QED
  BY <1>2, <1>3, <1>4, <1>5, <1>6, <1>7, <1>8, <1>9, Endings DEF Next, Task

\* No guard leaks and no waiter is forgotten, whoever is dropped wherever it waits (run,
\* run_locked).
THEOREM NoGuardLeaks == Spec => []GuardsAccounted
<1>1. Init => LockInv /\ SlotInv
  <2> SUFFICES ASSUME Init PROVE LockInv /\ SlotInv
    OBVIOUS
  <2>1. /\ \A x \in Requests : pc[x] = "idle"
        /\ \A e \in Envs : lock[e] = None /\ lockQ[e] = <<>>
        /\ slots = {} /\ slotQ = <<>>
    BY DEF Init
  <2> QED BY <2>1, EmptyQueue DEF LockInv, SlotInv
<1>2. GuardInv /\ LockInv /\ [Next]_vars => LockInv'
  BY NextLockInv DEF GuardInv
<1>3. GuardInv /\ SlotInv /\ [Next]_vars => SlotInv'
  BY NextSlotInv DEF GuardInv
<1>4. GuardInv /\ LockInv /\ SlotInv => GuardsAccounted
  <2> SUFFICES ASSUME GuardInv, LockInv, SlotInv PROVE GuardsAccounted
    OBVIOUS
  <2>1. HoldersOwn /\ Cardinality(slots) <= MaxConcurrent
    BY DEF GuardInv, SlotBound
  <2>2. ASSUME NEW d \in Requests
        PROVE  /\ pc[d] = "lockwait" =>
                    lock[Env(d)] = d \/ \E i \in 1..Len(lockQ[Env(d)]) : lockQ[Env(d)][i] = d
               /\ pc[d] = "slotwait" => d \in slots \/ \E i \in 1..Len(slotQ) : slotQ[i] = d
    <3>1. Env(d) \in Envs
      BY EnvType
    <3>2. pc[d] = "lockwait" => lock[Env(d)] = d \/ Waits(lockQ[Env(d)], d)
      BY <3>1 DEF LockInv
    <3>3. pc[d] = "slotwait" => d \in slots \/ Waits(slotQ, d)
      BY DEF SlotInv
    <3> QED BY <3>2, <3>3 DEF Waits
  <2>3. ASSUME NEW e \in Envs
        PROVE  /\ lock[e] = None => lockQ[e] = <<>>
               /\ lock[e] # None => pc[lock[e]] \in Selecting /\ Env(lock[e]) = e
               /\ \A i \in 1..Len(lockQ[e]) : pc[lockQ[e][i]] = "lockwait"
    <3>1. ASSUME NEW i \in 1..Len(lockQ[e]) PROVE pc[lockQ[e][i]] = "lockwait"
      <4>1. lockQ[e] \in Seq(Requests)
        BY DEF GuardInv, TypeOK
      <4>2. lockQ[e][i] \in Requests /\ Waits(lockQ[e], lockQ[e][i])
        BY <4>1 DEF Waits
      <4> QED BY <4>2 DEF LockInv
    <3> QED BY <3>1 DEF LockInv
  <2>4. ASSUME NEW i \in 1..Len(slotQ) PROVE pc[slotQ[i]] = "slotwait"
    <3>1. slotQ \in Seq(Requests)
      BY DEF GuardInv, TypeOK
    <3>2. slotQ[i] \in Requests /\ Waits(slotQ, slotQ[i])
      BY <3>1 DEF Waits
    <3> QED BY <3>2 DEF SlotInv
  <2>5. (SlotFree => slotQ = <<>>) /\ \A d \in slots : pc[d] \in {"slotwait", "executing"}
    BY DEF SlotInv
  <2> QED BY <2>1, <2>2, <2>3, <2>4, <2>5 DEF GuardsAccounted
<1> QED BY <1>1, <1>2, <1>3, <1>4, GuardInvariance, PTL DEF Spec

-----------------------------------------------------------------------------
(* The promise.  DeploymentPromise only knows rows and who is at work, so what has to be   *)
(* shown is that the rows and the tasks, which are written at different moments and        *)
(* survive different failures, never disagree about a deployment.  The same fact gives     *)
(* UnfinishedOwned.                                                                       *)

\* A row and its task agree: the row is absent until trigger's insert, queued while the
\* task waits, running while it executes, and still unfinished when the outcome is known,
\* which is only a success if the row was ever read.
RowFollowsTask ==
  \A d \in Requests :
    /\ pc[d] \in {"idle", "insert", "answered"} => row[d] = "absent"
    /\ pc[d] \in {"spawned", "lockwait", "slotwait"} => row[d] = "queued"
    /\ pc[d] = "executing" => row[d] = "running"
    /\ pc[d] \in {"ended", "settling"} =>
         row[d] \in Unfinished /\ (outcome[d] = "success" => row[d] = "running")

\* Only a task inside select! can be told that it is cancelled.
CancelledSelecting == \A d \in cancelled : pc[d] \in Selecting

\* Nothing runs while the manager is down.
DownIdle == ~up => \A d \in Requests : pc[d] \notin Live \cup {"insert"}

RowInv == RowFollowsTask /\ CancelledSelecting /\ DownIdle

\* What the invariant says of one deployment, for the steps below to restate.
Agrees(p, r, o) ==
  /\ p \in {"idle", "insert", "answered"} => r = "absent"
  /\ p \in {"spawned", "lockwait", "slotwait"} => r = "queued"
  /\ p = "executing" => r = "running"
  /\ p \in {"ended", "settling"} => r \in Unfinished /\ (o = "success" => r = "running")

PointTypes == /\ row \in [Requests -> {"absent"} \cup Unfinished \cup Final]
              /\ pc \in [Requests -> {"idle", "insert", "answered", "done"} \cup Live]
              /\ outcome \in [Requests -> Final \cup {None}]

-----------------------------------------------------------------------------
(* The invariant                                                           *)

\* A pipeline ends where it was in select!: it is not cancelled elsewhere.
LEMMA EndsSelecting ==
  ASSUME CancelledSelecting, NEW d \in Requests,
         StartFails(d) \/ Complete(d) \/ TimeoutFires(d) \/ Withdraw(d)
  PROVE  \E result \in Final :
           /\ End(d, result)
           /\ pc[d] \in Selecting
           /\ result = "success" => pc[d] = "executing"
<1>1. CASE StartFails(d)
  BY <1>1 DEF StartFails, Selecting, Final
<1>2. CASE Complete(d)
  BY <1>2 DEF Complete, Selecting, Final
<1>3. CASE TimeoutFires(d)
  BY <1>3 DEF TimeoutFires, Selecting, Final
<1>4. CASE Withdraw(d)
  BY <1>4 DEF Withdraw, CancelledSelecting, Final
<1> QED BY <1>1, <1>2, <1>3, <1>4

LEMMA NextRowFollowsTask == TypeOK /\ RowInv /\ [Next]_vars => RowFollowsTask'
<1> SUFFICES ASSUME TypeOK, RowInv, [Next]_vars, NEW x \in Requests
             PROVE  Agrees(pc'[x], row'[x], outcome'[x])
  BY DEF RowFollowsTask, Agrees
<1>t. PointTypes
  BY DEF TypeOK, PointTypes
<1>k. Agrees(pc[x], row[x], outcome[x])
  BY DEF RowInv, RowFollowsTask, Agrees
<1>0. ASSUME pc'[x] = pc[x], row'[x] = row[x], outcome'[x] = outcome[x]
      PROVE  Agrees(pc'[x], row'[x], outcome'[x])
  BY <1>0, <1>k
<1>1. ASSUME NEW r \in Requests, TriggerFind(r) PROVE Agrees(pc'[x], row'[x], outcome'[x])
  <2>1. row' = row /\ outcome' = outcome /\ pc[r] = "idle"
    BY <1>1 DEF TriggerFind, durable
  <2>2. \E p \in {"insert", "answered"} : pc' = [pc EXCEPT ![r] = p]
    BY <1>1 DEF TriggerFind
  <2> QED BY <1>t, <1>k, <2>1, <2>2 DEF PointTypes, Agrees
<1>2. ASSUME NEW r \in Requests, TriggerInsert(r) PROVE Agrees(pc'[x], row'[x], outcome'[x])
  BY <1>2, <1>t, <1>k DEF TriggerInsert, PointTypes, Agrees
<1>3. ASSUME NEW d \in Requests, Register(d) \/ Locked(d) PROVE Agrees(pc'[x], row'[x], outcome'[x])
  <2>1. row' = row /\ outcome' = outcome /\ pc[d] \in {"spawned", "lockwait"}
    BY <1>3 DEF Register, Locked, durable
  <2>2. \E p \in {"lockwait", "slotwait"} : pc' = [pc EXCEPT ![d] = p]
    BY <1>3 DEF Register, Locked
  <2> QED BY <1>t, <1>k, <2>1, <2>2 DEF PointTypes, Agrees
<1>4. ASSUME NEW d \in Requests, Start(d) PROVE Agrees(pc'[x], row'[x], outcome'[x])
  BY <1>4, <1>t, <1>k DEF Start, PointTypes, Agrees
<1>5. ASSUME NEW d \in Requests, NEW result \in Final, End(d, result), pc[d] \in Selecting,
             result = "success" => pc[d] = "executing"
      PROVE  Agrees(pc'[x], row'[x], outcome'[x])
  <2>1. /\ row' = row
        /\ pc' = [pc EXCEPT ![d] = "ended"]
        /\ outcome' = [outcome EXCEPT ![d] = result]
    BY <1>5 DEF End, durable
  <2>2. CASE x # d
    BY <1>0, <1>t, <2>1, <2>2 DEF PointTypes
  <2>3. CASE x = d
    <3>1. pc'[x] = "ended" /\ outcome'[x] = result /\ row'[x] = row[x]
      BY <1>t, <2>1, <2>3 DEF PointTypes
    <3> QED BY <1>5, <1>k, <2>3, <3>1 DEF Agrees, Selecting, Unfinished
  <2> QED BY <2>2, <2>3
<1>6. ASSUME NEW d \in Requests, Deregister(d) PROVE Agrees(pc'[x], row'[x], outcome'[x])
  BY <1>6, <1>t, <1>k DEF Deregister, durable, PointTypes, Agrees
<1>7. ASSUME NEW d \in Requests, Finish(d) PROVE Agrees(pc'[x], row'[x], outcome'[x])
  <2>1. /\ pc' = [pc EXCEPT ![d] = "done"]
        /\ outcome' = [outcome EXCEPT ![d] = None]
        /\ row' \in {row, [row EXCEPT ![d] = Settled(d)]}
    BY <1>7 DEF Finish
  <2>2. CASE x # d
    BY <1>0, <1>t, <2>1, <2>2 DEF PointTypes
  <2>3. CASE x = d
    BY <1>t, <2>1, <2>3 DEF PointTypes, Agrees
  <2> QED BY <2>2, <2>3
<1>8. ASSUME Crash PROVE Agrees(pc'[x], row'[x], outcome'[x])
  <2>1. pc'[x] = (IF pc[x] \in Live \cup {"insert"} THEN "done" ELSE pc[x]) /\ row' = row
    BY <1>8 DEF Crash, durable
  <2> QED BY <2>1, <1>k DEF Agrees, Live, Selecting
<1>9. ASSUME NEW d \in Requests, RecoverRow(d) PROVE Agrees(pc'[x], row'[x], outcome'[x])
  <2>1. /\ row' = [row EXCEPT ![d] = "failed"] /\ pc' = pc /\ outcome' = outcome
        /\ row[d] \in Unfinished /\ ~up
    BY <1>9 DEF RecoverRow, Recoverable
  <2>2. CASE x # d
    BY <1>0, <1>t, <2>1, <2>2 DEF PointTypes
  <2>3. CASE x = d
    <3>1. pc[x] \notin Live
      BY <2>1 DEF RowInv, DownIdle
    <3>2. pc[x] \notin {"idle", "insert", "answered"}
      BY <1>k, <2>1, <2>3 DEF Agrees, Unfinished
    <3> QED BY <2>1, <3>1, <3>2 DEF Agrees, Live, Selecting
  <2> QED BY <2>2, <2>3
<1>10. ASSUME RecoveryFails \/ Boot \/ (\E d \in Requests : Cancel(d)) \/ UNCHANGED vars
       PROVE  Agrees(pc'[x], row'[x], outcome'[x])
  BY <1>0, <1>10 DEF RecoveryFails, Boot, Cancel, durable, vars
<1>11. CancelledSelecting
  BY DEF RowInv
<1> QED
  BY <1>1, <1>2, <1>3, <1>4, <1>5, <1>6, <1>7, <1>8, <1>9, <1>10, <1>11, EndsSelecting
  DEF Next, Task

LEMMA NextCancelledSelecting == TypeOK /\ RowInv /\ [Next]_vars => CancelledSelecting'
<1> SUFFICES ASSUME TypeOK, RowInv, [Next]_vars, NEW x \in cancelled'
             PROVE  pc'[x] \in Selecting
  BY DEF CancelledSelecting
<1>t. PointTypes
  BY DEF TypeOK, PointTypes
<1>k. \A d \in cancelled : pc[d] \in Selecting
  BY DEF RowInv, CancelledSelecting
<1>r. cancelled \subseteq Requests
  BY DEF TypeOK
<1>0. ASSUME cancelled' = cancelled, pc' = pc PROVE pc'[x] \in Selecting
  BY <1>0, <1>k
<1>1. ASSUME NEW r \in Requests, cancelled' = cancelled, pc[r] \notin Selecting,
             NEW p, pc' = [pc EXCEPT ![r] = p]
      PROVE  pc'[x] \in Selecting
  BY <1>1, <1>k, <1>r, <1>t DEF PointTypes
<1>2. ASSUME NEW r \in Requests, TriggerFind(r) \/ TriggerInsert(r) \/ Register(r) \/ Deregister(r) \/ Finish(r)
      PROVE  pc'[x] \in Selecting
  <2>1. cancelled' = cancelled /\ pc[r] \notin Selecting
    BY <1>2 DEF TriggerFind, TriggerInsert, Register, Deregister, Finish, Selecting
  <2>2. \E p : pc' = [pc EXCEPT ![r] = p]
    BY <1>2 DEF TriggerFind, TriggerInsert, Register, Deregister, Finish
  <2> QED BY <1>1, <2>1, <2>2
<1>3. ASSUME NEW d \in Requests, Cancel(d) PROVE pc'[x] \in Selecting
  BY <1>3, <1>k DEF Cancel
<1>4. ASSUME NEW d \in Requests, Locked(d) \/ Start(d) PROVE pc'[x] \in Selecting
  <2>1. cancelled' = cancelled
    BY <1>4 DEF Locked, Start
  <2>2. \E p \in Selecting : pc' = [pc EXCEPT ![d] = p]
    BY <1>4 DEF Locked, Start, Selecting
  <2> QED BY <1>k, <1>r, <1>t, <2>1, <2>2 DEF PointTypes
<1>5. ASSUME NEW d \in Requests, NEW result \in Final, End(d, result) PROVE pc'[x] \in Selecting
  <2>1. pc' = [pc EXCEPT ![d] = "ended"] /\ cancelled' = cancelled \ {d}
    BY <1>5 DEF End
  <2> QED BY <1>k, <1>r, <1>t, <2>1 DEF PointTypes
<1>6. ASSUME Crash PROVE pc'[x] \in Selecting
  BY <1>6 DEF Crash
<1>7. ASSUME RecoveryFails \/ Boot \/ (\E d \in Requests : RecoverRow(d)) \/ UNCHANGED vars
      PROVE  pc'[x] \in Selecting
  BY <1>0, <1>7 DEF RecoveryFails, Boot, RecoverRow, vars
<1> QED BY <1>2, <1>3, <1>4, <1>5, <1>6, <1>7, Endings DEF Next, Task

LEMMA NextDownIdle == TypeOK /\ RowInv /\ [Next]_vars => DownIdle'
<1> SUFFICES ASSUME TypeOK, RowInv, [Next]_vars, ~up', NEW x \in Requests
             PROVE  pc'[x] \notin Live \cup {"insert"}
  BY DEF DownIdle
<1>t. PointTypes
  BY DEF TypeOK, PointTypes
<1>k. ~up => \A d \in Requests : pc[d] \notin Live \cup {"insert"}
  BY DEF RowInv, DownIdle
<1>c. \A d \in cancelled : pc[d] \in Live
  BY DEF RowInv, CancelledSelecting, Live
<1>1. ASSUME up' = up, pc' = pc PROVE pc'[x] \notin Live \cup {"insert"}
  BY <1>1, <1>k
<1>2. ASSUME NEW d \in Requests, Task(d) PROVE FALSE
  <2>1. up' = up /\ pc[d] \in Live
    BY <1>2 DEF Task, Register, Locked, Start, Deregister, Finish, Live, Selecting
  <2> QED BY <1>k, <2>1
<1>3. ASSUME NEW d \in Requests, StartFails(d) \/ Complete(d) \/ TimeoutFires(d) \/ Withdraw(d)
      PROVE  FALSE
  <2>1. up' = up
    BY <1>3 DEF StartFails, Complete, TimeoutFires, Withdraw, End
  <2>2. pc[d] \in Live
    BY <1>3, <1>c DEF StartFails, Complete, TimeoutFires, Withdraw, Live, Selecting
  <2> QED BY <1>k, <2>1, <2>2
<1>4. ASSUME NEW r \in Requests, TriggerFind(r) \/ TriggerInsert(r) \/ Cancel(r) PROVE FALSE
  BY <1>4 DEF TriggerFind, TriggerInsert, Cancel
<1>5. ASSUME RecoveryFails \/ Boot PROVE FALSE
  BY <1>5 DEF RecoveryFails, Boot
<1>6. ASSUME Crash PROVE pc'[x] \notin Live \cup {"insert"}
  <2>1. pc'[x] = IF pc[x] \in Live \cup {"insert"} THEN "done" ELSE pc[x]
    BY <1>6 DEF Crash
  <2> QED BY <2>1 DEF Live, Selecting
<1>7. ASSUME (\E d \in Requests : RecoverRow(d)) \/ UNCHANGED vars
      PROVE  pc'[x] \notin Live \cup {"insert"}
  BY <1>1, <1>7 DEF RecoverRow, vars
<1> QED BY <1>2, <1>3, <1>4, <1>5, <1>6, <1>7 DEF Next

\* The rows and the tasks never disagree.
THEOREM RowInvariance == Spec => []RowInv
<1>1. Init => RowInv
  BY DEF Init, RowInv, RowFollowsTask, CancelledSelecting, DownIdle
<1>2. TypeOK /\ RowInv /\ [Next]_vars => RowInv'
  BY NextRowFollowsTask, NextCancelledSelecting, NextDownIdle DEF RowInv
<1> QED BY <1>1, <1>2, TypeCorrect, PTL DEF Spec

-----------------------------------------------------------------------------
(* Nobody forgets a row                                                    *)

LEMMA NextUnfinishedOwned ==
  TypeOK /\ OutcomeKnown /\ RowInv /\ UnfinishedOwned /\ [Next]_vars => UnfinishedOwned'
<1> DEFINE Owned(x) == pc'[x] \in Live \/ x \in unsaved'
<1> SUFFICES ASSUME TypeOK, OutcomeKnown, RowInv, UnfinishedOwned, [Next]_vars, up',
                    NEW x \in Requests, row'[x] \in Unfinished
             PROVE  Owned(x)
  BY DEF UnfinishedOwned, unfinishedRows
<1>t. PointTypes
  BY DEF TypeOK, PointTypes
<1>k. up /\ row[x] \in Unfinished => pc[x] \in Live \/ x \in unsaved
  BY DEF UnfinishedOwned, unfinishedRows
<1>0. ASSUME up' = up, row' = row, unsaved' = unsaved, pc' = pc PROVE Owned(x)
  BY <1>0, <1>k
<1>1. ASSUME NEW r \in Requests, TriggerFind(r) PROVE Owned(x)
  <2>1. up' = up /\ row' = row /\ unsaved' = unsaved /\ pc[r] = "idle"
    BY <1>1 DEF TriggerFind, durable
  <2>2. \E p : pc' = [pc EXCEPT ![r] = p]
    BY <1>1 DEF TriggerFind
  <2> QED BY <1>t, <1>k, <2>1, <2>2 DEF PointTypes, Live, Selecting
<1>2. ASSUME NEW d \in Requests, TriggerInsert(d) \/ Register(d) \/ Locked(d) \/ Start(d) \/ Deregister(d)
      PROVE  Owned(x)
  <2>1. up' = up /\ unsaved' = unsaved /\ (x # d => row'[x] = row[x])
    BY <1>2, <1>t DEF TriggerInsert, Register, Locked, Start, Deregister, durable, PointTypes
  <2>2. \E p \in Live : pc' = [pc EXCEPT ![d] = p]
    BY <1>2 DEF TriggerInsert, Register, Locked, Start, Deregister, Live, Selecting
  <2> QED BY <1>t, <1>k, <2>1, <2>2 DEF PointTypes
<1>3. ASSUME NEW d \in Requests, NEW result \in Final, End(d, result) PROVE Owned(x)
  <2>1. up' = up /\ unsaved' = unsaved /\ row' = row /\ pc' = [pc EXCEPT ![d] = "ended"]
    BY <1>3 DEF End, durable
  <2> QED BY <1>t, <1>k, <2>1 DEF PointTypes, Live
<1>4. ASSUME NEW d \in Requests, Finish(d) PROVE Owned(x)
  <2>1. up' = up /\ pc' = [pc EXCEPT ![d] = "done"] /\ pc[d] = "settling" /\ outcome[d] # None
    BY <1>4 DEF Finish, OutcomeKnown
  <2>2. CASE row' = row /\ unsaved' = unsaved \cup {d}
    BY <1>t, <1>k, <2>1, <2>2 DEF PointTypes
  <2>3. CASE row' = [row EXCEPT ![d] = Settled(d)] /\ unsaved' = unsaved
    <3>1. x # d
      BY <1>t, <2>1, <2>3 DEF PointTypes, Settled, Unfinished, Final
    <3> QED BY <1>t, <1>k, <2>1, <2>3, <3>1 DEF PointTypes
  <2> QED BY <1>4, <2>2, <2>3 DEF Finish
<1>5. ASSUME Crash \/ (\E d \in Requests : RecoverRow(d)) PROVE FALSE
  BY <1>5 DEF Crash, RecoverRow
<1>6. ASSUME RecoveryFails PROVE Owned(x)
  BY <1>6 DEF RecoveryFails, unfinishedRows
<1>7. ASSUME Boot PROVE FALSE
  BY <1>7 DEF Boot, durable, unfinishedRows
<1>8. ASSUME (\E d \in Requests : Cancel(d)) \/ UNCHANGED vars PROVE Owned(x)
  BY <1>0, <1>8 DEF Cancel, durable, vars
<1> QED BY <1>1, <1>2, <1>3, <1>4, <1>5, <1>6, <1>7, <1>8, Endings DEF Next, Task

\* While the manager serves, an unfinished row has a task that will settle it, unless
\* its last write failed.
THEOREM RowsOwned == Spec => []UnfinishedOwned
<1>1. Init => UnfinishedOwned
  BY DEF Init, UnfinishedOwned, unfinishedRows, Unfinished
<1>2. GuardInv /\ RowInv /\ UnfinishedOwned /\ [Next]_vars => UnfinishedOwned'
  BY NextUnfinishedOwned DEF GuardInv
<1> QED BY <1>1, <1>2, GuardInvariance, RowInvariance, PTL DEF Spec

-----------------------------------------------------------------------------
(* The refinement                                                          *)

\* A step that leaves the rows alone and moves nobody in or out of execution is
\* none of the promise's business.
LEMMA Unseen ==
  ASSUME row' = row, \A d \in Requests : pc'[d] = "executing" <=> pc[d] = "executing"
  PROVE  [Promise!Next]_(Promise!vars)
<1>1. executing' = executing
  BY DEF executing
<1> QED BY <1>1 DEF Promise!vars

\* Start is the promise's Begin: its environment is free because whoever executes there
\* would own the same lock, and the cap leaves room because it owns a slot.
LEMMA StartBegins ==
  ASSUME GuardInv, RowInv, NEW d \in Requests, Start(d)
  PROVE  Promise!Begin(d)
<1>t. PointTypes
  BY DEF GuardInv, TypeOK, PointTypes
<1>1. row[d] = "queued" /\ pc[d] = "slotwait" /\ d \in slots
  BY DEF Start, RowInv, RowFollowsTask
<1>2. \A other \in executing : Env(other) # Env(d)
  BY <1>1 DEF GuardInv, HoldersOwn, executing
<1>3. Cardinality(executing) < MaxConcurrent
  <2>1. IsFiniteSet(slots) /\ Cardinality(slots) \in Nat /\ Cardinality(slots) <= MaxConcurrent
    BY SlotsFinite DEF GuardInv, SlotBound
  <2>2. IsFiniteSet(slots \ {d}) /\ Cardinality(slots \ {d}) = Cardinality(slots) - 1
    BY <1>1, <2>1, FS_RemoveElement
  <2>3. executing \subseteq slots \ {d}
    BY <1>1 DEF GuardInv, HoldersOwn, executing
  <2>4. Cardinality(executing) <= Cardinality(slots \ {d}) /\ Cardinality(executing) \in Nat
    BY <2>2, <2>3, FS_Subset, FS_CardinalityType
  <2> QED BY <2>1, <2>2, <2>4, Assumptions
<1>4. row' = [row EXCEPT ![d] = "running"]
  BY DEF Start
<1>5. executing' = executing \cup {d}
  BY <1>t DEF Start, executing, PointTypes
<1>6. Promise!Cardinality(executing) = Cardinality(executing)
  BY DEF Promise!Cardinality, Cardinality
<1> QED BY <1>1, <1>2, <1>3, <1>4, <1>5, <1>6 DEF Promise!Begin

\* A pipeline that ends stops working, if it ever was at work.
LEMMA EndStops ==
  ASSUME PointTypes, NEW d \in Requests, NEW result \in Final, End(d, result)
  PROVE  [Promise!Next]_(Promise!vars)
<1>1. row' = row /\ pc' = [pc EXCEPT ![d] = "ended"]
  BY DEF End, durable
<1>2. CASE pc[d] = "executing"
  <2>1. d \in executing /\ executing' = executing \ {d}
    BY <1>1, <1>2 DEF executing, PointTypes
  <2>2. Promise!Stop(d)
    BY <1>1, <2>1 DEF Promise!Stop
  <2> QED BY <2>2 DEF Promise!Next
<1>3. CASE pc[d] # "executing"
  BY <1>1, <1>3, Unseen DEF PointTypes
<1> QED BY <1>2, <1>3

\* Finish settles the row, of a pipeline that let go and, for a success, started.
LEMMA FinishSettles ==
  ASSUME GuardInv, RowInv, NEW d \in Requests, Finish(d)
  PROVE  [Promise!Next]_(Promise!vars)
<1>t. PointTypes
  BY DEF GuardInv, TypeOK, PointTypes
<1>1. pc[d] = "settling" /\ pc' = [pc EXCEPT ![d] = "done"]
  BY DEF Finish
<1>2. executing' = executing /\ d \notin executing
  BY <1>t, <1>1 DEF executing, PointTypes
<1>3. CASE row' = row
  BY <1>2, <1>3 DEF Promise!vars
<1>4. CASE row' = [row EXCEPT ![d] = outcome[d]]
  <2>1. outcome[d] \in Final
    BY <1>t, <1>1 DEF GuardInv, OutcomeKnown, PointTypes
  <2>2. row[d] \in Unfinished /\ (outcome[d] = "success" => row[d] = "running")
    BY <1>1 DEF RowInv, RowFollowsTask
  <2>3. Promise!Settle(d, outcome[d])
    BY <1>2, <1>4, <2>2 DEF Promise!Settle, Promise!Unfinished, Unfinished
  <2> QED BY <2>1, <2>3 DEF Promise!Next, Promise!Final, Final
<1> QED BY <1>3, <1>4 DEF Finish, Settled

LEMMA StepRefines ==
  ASSUME GuardInv, RowInv, [Next]_vars
  PROVE  [Promise!Next]_(Promise!vars)
<1>t. PointTypes
  BY DEF GuardInv, TypeOK, PointTypes
<1>1. ASSUME NEW r \in Requests, TriggerFind(r) PROVE [Promise!Next]_(Promise!vars)
  <2>1. row' = row /\ pc[r] = "idle" /\ \E p \in {"insert", "answered"} : pc' = [pc EXCEPT ![r] = p]
    BY <1>1 DEF TriggerFind, durable
  <2> QED BY <1>t, <2>1, Unseen DEF PointTypes
<1>2. ASSUME NEW r \in Requests, TriggerInsert(r) PROVE [Promise!Next]_(Promise!vars)
  <2>1. row[r] = "absent"
    BY <1>2 DEF TriggerInsert, RowInv, RowFollowsTask
  <2>2. executing' = executing
    BY <1>2, <1>t DEF TriggerInsert, executing, PointTypes
  <2>3. Promise!Accept(r)
    BY <1>2, <2>1, <2>2 DEF TriggerInsert, Promise!Accept
  <2> QED BY <2>3 DEF Promise!Next
<1>3. ASSUME NEW d \in Requests, Register(d) \/ Locked(d) \/ Deregister(d)
      PROVE  [Promise!Next]_(Promise!vars)
  <2>1. row' = row /\ pc[d] # "executing"
    BY <1>3 DEF Register, Locked, Deregister, durable
  <2>2. \E p \in {"lockwait", "slotwait", "settling"} : pc' = [pc EXCEPT ![d] = p]
    BY <1>3 DEF Register, Locked, Deregister
  <2> QED BY <1>t, <2>1, <2>2, Unseen DEF PointTypes
<1>4. ASSUME NEW d \in Requests, Start(d) PROVE [Promise!Next]_(Promise!vars)
  BY <1>4, StartBegins DEF Promise!Next
<1>5. ASSUME NEW d \in Requests, Finish(d) PROVE [Promise!Next]_(Promise!vars)
  BY <1>5, FinishSettles
<1>6. ASSUME NEW d \in Requests, NEW result \in Final, End(d, result)
      PROVE  [Promise!Next]_(Promise!vars)
  BY <1>6, <1>t, EndStops
<1>7. ASSUME Crash PROVE [Promise!Next]_(Promise!vars)
  <2>1. row' = row /\ \A d \in Requests : pc'[d] # "executing"
    BY <1>7 DEF Crash, durable, Live, Selecting
  <2>2. executing' = {}
    BY <2>1 DEF executing
  <2>3. Promise!Interrupt
    BY <2>1, <2>2 DEF Promise!Interrupt
  <2> QED BY <2>3 DEF Promise!Next
<1>8. ASSUME NEW d \in Requests, RecoverRow(d) PROVE [Promise!Next]_(Promise!vars)
  <2>1. /\ row[d] \in Unfinished /\ row' = [row EXCEPT ![d] = "failed"] /\ pc' = pc /\ ~up
    BY <1>8 DEF RecoverRow, Recoverable
  <2>2. d \notin executing /\ executing' = executing
    BY <2>1 DEF RowInv, DownIdle, executing, Live, Selecting
  <2>3. Promise!Settle(d, "failed")
    BY <2>1, <2>2 DEF Promise!Settle, Promise!Unfinished, Unfinished
  <2> QED BY <2>3 DEF Promise!Next, Promise!Final
<1>9. ASSUME RecoveryFails \/ Boot \/ (\E d \in Requests : Cancel(d)) \/ UNCHANGED vars
      PROVE  [Promise!Next]_(Promise!vars)
  <2>1. row' = row /\ pc' = pc
    BY <1>9 DEF RecoveryFails, Boot, Cancel, durable, vars
  <2> QED BY <2>1, Unseen
<1> QED
  BY <1>1, <1>2, <1>3, <1>4, <1>5, <1>6, <1>7, <1>8, <1>9, Endings DEF Next, Task

\* The engine implements the promise: every behaviour of DeployQueue, seen through the
\* rows and who executes, is one of DeploymentPromise.
THEOREM EngineKeepsPromise == Spec => KeepsPromise
<1>1. Init => Promise!Init
  BY DEF Init, Promise!Init, executing
<1>2. GuardInv /\ RowInv /\ [Next]_vars => [Promise!Next]_(Promise!vars)
  BY StepRefines
<1> QED BY <1>1, <1>2, GuardInvariance, RowInvariance, PTL DEF Spec, KeepsPromise, Promise!Spec
=============================================================================
