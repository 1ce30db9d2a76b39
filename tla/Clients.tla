------------------------------- MODULE Clients -------------------------------
(* The thirteen models of pages, scripts and programs share nothing.  They are checked in  *)
(* one composition: a behaviour is a behaviour of one of them, named by `client`, and the  *)
(* variables of the others hold the value "none".                                          *)
VARIABLE client

AllClients == {"settings", "variables", "dotenv", "log", "number", "bulk", "gate", "studio",
    "update", "events", "inbox", "tasks", "dokploy"}
=============================================================================
