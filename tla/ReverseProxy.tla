---------------------------- MODULE ReverseProxy ----------------------------
(* The reverse proxy's reload cycle, under names of its own beside the manager's other parts. *)
EXTENDS Naturals

CONSTANTS Files, Bodies, Bad, Absent, MaxEdits, ProxyFaults, ProxyInterruptions

ASSUME ProxyAssumption ==
  /\ Bad \subseteq Bodies
  /\ Absent \notin Bodies
  /\ MaxEdits \in Nat /\ ProxyFaults \in Nat /\ ProxyInterruptions \in Nat

VARIABLES wanted, desired, before, disk_proxy, served_proxy, stage, pending_proxy, edits,
  faults_proxy, interruptions_proxy

Proxy == INSTANCE NginxApply WITH
  MaxFaults <- ProxyFaults, MaxInterruptions <- ProxyInterruptions,
  disk <- disk_proxy, served <- served_proxy, pending <- pending_proxy,
  faults <- faults_proxy, interruptions <- interruptions_proxy

proxyVars == <<wanted, desired, before, disk_proxy, served_proxy, stage, pending_proxy, edits,
  faults_proxy, interruptions_proxy>>

-----------------------------------------------------------------------------
\* The proxy's own type invariant.
ProxyTypes == Proxy!TypeOK

\* Between passes that were not cut short, files the proxy does not run are remembered
\* (reload_pending).
AheadIsRemembered == Proxy!AheadIsRemembered

\* Between passes that were not cut short, the proxy can be restarted on its files
\* (Nginx::apply).
SafeToRestart == Proxy!SafeToRestart

\* The sweep brings the proxy to what the database asks for, unless that is invalid or its
\* files are overlooked (Nginx::apply).
Converges == Proxy!Converges
=============================================================================
