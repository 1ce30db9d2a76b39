------------------------- MODULE NginxApplyProofs -------------------------
(***************************************************************************)
(* For any set of files and bodies, any number of changes and of faults,   *)
(* as long as no pass is cut short: between passes the proxy can be        *)
(* restarted on the files it finds, and files it does not run are          *)
(* remembered.                                                             *)
(*                                                                         *)
(* Neither is inductive: in the middle of a pass the directory may be      *)
(* anything.  What carries them through it is the snapshot, which is as    *)
(* good as the directory was when the pass began, and is put back whole.   *)
(***************************************************************************)
EXTENDS ReverseProxy, TLAPS

\* What both properties ask of the files in dir.
Sound(dir) == Proxy!Valid(dir) /\ (dir # served_proxy => pending_proxy)

\* The snapshot stands in for the directory while a pass writes; the reload of a tested
\* directory settles the rest, one way or the other.
PassInv ==
  interruptions_proxy = 0 =>
    /\ stage = "idle"   => Sound(disk_proxy)
    /\ stage = "write"  => Sound(before)
    /\ stage = "reload" => Proxy!Valid(disk_proxy)

-----------------------------------------------------------------------------

LEMMA EmptyType == Proxy!Empty \in Proxy!Directories /\ Proxy!Valid(Proxy!Empty)
BY ProxyAssumption DEF Proxy!Empty, Proxy!Directories, Proxy!Valid

LEMMA InterruptionCounts ==
  ASSUME interruptions_proxy \in 0..ProxyInterruptions, Proxy!Interruption
  PROVE  interruptions_proxy' \in 0..ProxyInterruptions /\ interruptions_proxy' # 0
BY ProxyAssumption DEF Proxy!Interruption

LEMMA FaultCounts ==
  ASSUME faults_proxy \in 0..ProxyFaults, Proxy!Fault
  PROVE  faults_proxy' \in 0..ProxyFaults
BY ProxyAssumption DEF Proxy!Fault

\* Putting back leaves a directory, and without an interruption exactly the snapshot.
LEMMA PutBackType ==
  ASSUME Proxy!TypeOK, Proxy!PutBack
  PROVE  /\ disk_proxy' \in Proxy!Directories
         /\ stage' = "idle"
         /\ interruptions_proxy' \in 0..ProxyInterruptions
         /\ interruptions_proxy' = 0 => disk_proxy' = before /\ interruptions_proxy = 0
<1>1. CASE disk_proxy' = Proxy!Restored /\ UNCHANGED interruptions_proxy
  BY <1>1 DEF Proxy!TypeOK, Proxy!PutBack, Proxy!Restored
<1>2. CASE /\ Proxy!Interruption
           /\ \E kept \in SUBSET {f \in Files : disk_proxy[f] # before[f]} :
                disk_proxy' = [f \in Files |-> IF f \in kept THEN before[f] ELSE disk_proxy[f]]
  <2>1. disk_proxy' \in Proxy!Directories
    <3>1. PICK kept \in SUBSET {f \in Files : disk_proxy[f] # before[f]} :
            disk_proxy' = [f \in Files |-> IF f \in kept THEN before[f] ELSE disk_proxy[f]]
      BY <1>2
    <3> QED BY <3>1 DEF Proxy!TypeOK, Proxy!Directories
  <2>2. interruptions_proxy' \in 0..ProxyInterruptions /\ interruptions_proxy' # 0
    BY <1>2, InterruptionCounts DEF Proxy!TypeOK
  <2> QED BY <2>1, <2>2 DEF Proxy!PutBack
<1> QED BY <1>1, <1>2 DEF Proxy!PutBack

LEMMA NextTypeOK == Proxy!TypeOK /\ [Proxy!Next]_(Proxy!vars) => Proxy!TypeOK'
<1> SUFFICES ASSUME Proxy!TypeOK, [Proxy!Next]_(Proxy!vars) PROVE Proxy!TypeOK'
  OBVIOUS
<1>1. ASSUME NEW f \in Files, NEW body \in Bodies \cup {Absent}, Proxy!Edit(f, body)
       PROVE  Proxy!TypeOK'
  <2>1. wanted' \in Proxy!Directories
    BY <1>1 DEF Proxy!Edit, Proxy!TypeOK, Proxy!Directories
  <2>2. edits' \in 0..MaxEdits
    BY <1>1, ProxyAssumption DEF Proxy!Edit, Proxy!TypeOK
  <2> QED BY <1>1, <2>1, <2>2 DEF Proxy!Edit, Proxy!TypeOK, Proxy!pass
<1>2. ASSUME NEW f \in Files, Proxy!WriteFile(f) PROVE Proxy!TypeOK'
  <2>1. disk_proxy' \in Proxy!Directories
    BY <1>2 DEF Proxy!WriteFile, Proxy!TypeOK, Proxy!Directories
  <2> QED BY <1>2, <2>1 DEF Proxy!WriteFile, Proxy!TypeOK, Proxy!intent, Proxy!pass
<1>3. CASE Proxy!Begin
  BY <1>3 DEF Proxy!Begin, Proxy!TypeOK, Proxy!intent
<1>4. CASE Proxy!WriteFails \/ Proxy!Rejected \/ Proxy!TestFails
  <2>1. faults_proxy' \in 0..ProxyFaults
    BY <1>4, FaultCounts DEF Proxy!WriteFails, Proxy!Rejected, Proxy!TestFails, Proxy!TypeOK
  <2>2. Proxy!PutBack
    BY <1>4 DEF Proxy!WriteFails, Proxy!Rejected, Proxy!TestFails
  <2>3. UNCHANGED <<Proxy!intent, Proxy!pass, served_proxy, pending_proxy>>
    BY <1>4 DEF Proxy!WriteFails, Proxy!Rejected, Proxy!TestFails
  <2> QED BY <2>1, <2>2, <2>3, PutBackType DEF Proxy!TypeOK, Proxy!intent, Proxy!pass
<1>5. CASE Proxy!Accepted
  BY <1>5 DEF Proxy!Accepted, Proxy!TypeOK, Proxy!intent, Proxy!pass
<1>6. CASE Proxy!Reloaded
  BY <1>6 DEF Proxy!Reloaded, Proxy!TypeOK, Proxy!intent, Proxy!pass
<1>7. CASE Proxy!ReloadFails
  BY <1>7, FaultCounts DEF Proxy!ReloadFails, Proxy!PendingAfterFailure, Proxy!TypeOK,
     Proxy!intent, Proxy!pass
<1>8. CASE Proxy!Drop \/ Proxy!Crash
  <2>1. interruptions_proxy' \in 0..ProxyInterruptions
    BY <1>8, InterruptionCounts DEF Proxy!Drop, Proxy!Crash, Proxy!TypeOK
  <2>2. served_proxy' \in Proxy!Directories /\ pending_proxy' \in BOOLEAN
    BY <1>8 DEF Proxy!Drop, Proxy!Crash, Proxy!TypeOK
  <2> QED BY <1>8, <2>1, <2>2 DEF Proxy!Drop, Proxy!Crash, Proxy!TypeOK, Proxy!intent, Proxy!pass
<1>9. CASE Proxy!CertificateReload
  <2>1. interruptions_proxy' \in 0..ProxyInterruptions
    BY <1>9, InterruptionCounts DEF Proxy!CertificateReload, Proxy!TypeOK
  <2> QED BY <1>9, <2>1 DEF Proxy!CertificateReload, Proxy!TypeOK, Proxy!intent, Proxy!pass
<1>10. CASE UNCHANGED Proxy!vars
  BY <1>10 DEF Proxy!TypeOK, Proxy!vars, Proxy!intent, Proxy!pass
<1> QED BY <1>1, <1>2, <1>3, <1>4, <1>5, <1>6, <1>7, <1>8, <1>9, <1>10 DEF Proxy!Next

LEMMA NextPassInv == Proxy!TypeOK /\ PassInv /\ [Proxy!Next]_(Proxy!vars) => PassInv'
<1> SUFFICES ASSUME Proxy!TypeOK, PassInv, [Proxy!Next]_(Proxy!vars), interruptions_proxy' = 0
             PROVE  PassInv'
  BY DEF PassInv
<1>t. /\ interruptions_proxy \in 0..ProxyInterruptions
      /\ disk_proxy \in Proxy!Directories /\ before \in Proxy!Directories
  BY DEF Proxy!TypeOK
<1>1. CASE \E f \in Files, body \in Bodies \cup {Absent} : Proxy!Edit(f, body)
  BY <1>1 DEF Proxy!Edit, PassInv, Sound, Proxy!Valid, Proxy!pass
<1>2. CASE \E f \in Files : Proxy!WriteFile(f)
  BY <1>2 DEF Proxy!WriteFile, PassInv, Sound, Proxy!Valid, Proxy!pass
<1>3. CASE Proxy!Begin
  BY <1>3 DEF Proxy!Begin, PassInv, Sound, Proxy!Valid
<1>4. CASE Proxy!WriteFails \/ Proxy!Rejected \/ Proxy!TestFails
  <2>1. Proxy!PutBack /\ stage = "write" /\ UNCHANGED <<served_proxy, pending_proxy>>
    BY <1>4 DEF Proxy!WriteFails, Proxy!Rejected, Proxy!TestFails, Proxy!Testing
  <2>2. interruptions_proxy = 0 /\ disk_proxy' = before /\ stage' = "idle"
    BY <2>1, PutBackType
  <2> QED BY <2>1, <2>2 DEF PassInv, Sound, Proxy!Valid
<1>5. CASE Proxy!Accepted
  BY <1>5 DEF Proxy!Accepted, PassInv, Proxy!Valid
<1>6. CASE Proxy!Reloaded
  BY <1>6 DEF Proxy!Reloaded, PassInv, Sound, Proxy!Valid, Proxy!pass
<1>7. CASE Proxy!ReloadFails
  BY <1>7 DEF Proxy!ReloadFails, Proxy!PendingAfterFailure, PassInv, Sound, Proxy!Valid, Proxy!pass
<1>8. CASE Proxy!Drop \/ Proxy!Crash
  BY <1>8, <1>t, InterruptionCounts DEF Proxy!Drop, Proxy!Crash
<1>9. CASE Proxy!CertificateReload
  <2>1. /\ stage = "idle" /\ served_proxy' = disk_proxy
        /\ UNCHANGED <<interruptions_proxy, disk_proxy, stage>>
    BY <1>9, <1>t, InterruptionCounts DEF Proxy!CertificateReload
  <2> QED BY <2>1 DEF PassInv, Sound, Proxy!Valid
<1>10. CASE UNCHANGED Proxy!vars
  BY <1>10 DEF PassInv, Sound, Proxy!Valid, Proxy!vars
<1> QED BY <1>1, <1>2, <1>3, <1>4, <1>5, <1>6, <1>7, <1>8, <1>9, <1>10 DEF Proxy!Next

-----------------------------------------------------------------------------

\* Every variable of the reload cycle keeps its type.
THEOREM TypeCorrect == Proxy!Spec => []ProxyTypes
<1>1. Proxy!Init => Proxy!TypeOK
  <2>1. 0 \in 0..MaxEdits /\ 0 \in 0..ProxyFaults /\ 0 \in 0..ProxyInterruptions
    BY ProxyAssumption
  <2> QED BY <2>1, EmptyType DEF Proxy!Init, Proxy!TypeOK
<1>2. ProxyTypes <=> Proxy!TypeOK
  BY DEF ProxyTypes
<1> QED BY <1>1, <1>2, NextTypeOK, PTL DEF Proxy!Spec

\* A pass begins and ends on files that are sound.
THEOREM PassInvariance == Proxy!Spec => []PassInv
<1>1. Proxy!Init => PassInv
  BY EmptyType DEF Proxy!Init, PassInv, Sound
<1>2. ProxyTypes <=> Proxy!TypeOK
  BY DEF ProxyTypes
<1> QED BY <1>1, <1>2, NextPassInv, TypeCorrect, PTL DEF Proxy!Spec

\* Between passes, files the proxy does not run are remembered by reload_pending.
THEOREM LeadRemembered == Proxy!Spec => []AheadIsRemembered
<1>1. PassInv => AheadIsRemembered
  BY DEF PassInv, Sound, AheadIsRemembered, Proxy!AheadIsRemembered
<1> QED BY <1>1, PassInvariance, PTL

\* Between passes the proxy can be restarted on the files it finds.
THEOREM RestartSafe == Proxy!Spec => []SafeToRestart
<1>1. PassInv => SafeToRestart
  BY DEF PassInv, Sound, SafeToRestart, Proxy!SafeToRestart
<1> QED BY <1>1, PassInvariance, PTL
=============================================================================
