--------------------------- MODULE MCDeployQueue ---------------------------
(* Four requests: r1 and r2 ask for the same build of prod.  In "Crowded" r3 asks for    *)
(* another build of prod and r4 for one elsewhere: three in line for a lock.  In "Apart"  *)
(* r3 and r4 are in environments of their own: three in line for two slots.               *)
EXTENDS DeployQueue, TLC

CONSTANTS r1, r2, r3, r4, web, db, api, prod, staging, test

MCRequests    == {r1, r2, r3, r4}
MCFewRequests == {r1, r2, r4}
MCTargets     == {web, db, api}
MCEnvs        == {prod, staging, test}
MCBuild       == r1 :> web @@ r2 :> web @@ r3 :> db @@ r4 :> api
MCTargetOf    == [r \in MCRequests |-> MCBuild[r]]
MCFewTargetOf == [r \in MCFewRequests |-> MCBuild[r]]
MCCrowded     == web :> prod @@ db :> prod @@ api :> staging
MCApart       == web :> prod @@ db :> test @@ api :> staging

\* The two requests for the same build are interchangeable.
MCSymmetry == Permutations({r1, r2})
=============================================================================
