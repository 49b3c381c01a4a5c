---------------------------- MODULE MCDeployment -----------------------------
(* An instance of Deployment for TLC: a runner of the current build and one *)
(* of the build before it, on a new database or on one the first build left *)
(* behind; one tenant with two sessions, of which one can never be          *)
(* finalized.                                                               *)
EXTENDS Deployment, TLC

CONSTANTS r1, r2, m1, m2, m3, t1, s1, s2

MCBuilds == (r1 :> <<m1, m2, m3>>) @@ (r2 :> <<m1, m2>>)
MCExpected == <<m1, m2, m3>>
MCEarlier == <<m1>>
MCTenantOf == [s \in {s1, s2} |-> t1]
MCOrder == <<t1>>
MCDefect == (s1 :> "finalize") @@ (s2 :> "none")
=============================================================================
