--------------------------- MODULE MCNginxApply ---------------------------
(* Two generated files, one body that nginx -t accepts and one it rejects. *)
EXTENDS NginxApply, TLC

CONSTANTS vhost, auth, good, bad

MCFiles  == {vhost, auth}
MCBodies == {good, bad}
MCBad    == {bad}
=============================================================================
