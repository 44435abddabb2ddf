------------------------------ MODULE MCLogins ------------------------------
(***************************************************************************)
(* Logins on small instances.                                              *)
(***************************************************************************)
EXTENDS Logins, TLC

Mix(f) == f @@ [w \in Work |-> 0]

\* Upgrades around a logout, an extension and an expiry; remembered sessions
\* around failed saves and restarts; parallel failures; a shutdown.
MCPlans == {
    Mix(("login" :> 1) @@ ("upgrade" :> 2) @@ ("logout" :> 1) @@ ("time" :> 1)),
    Mix(("login" :> 1) @@ ("upgrade" :> 2) @@ ("time" :> 2)),
    Mix(("login" :> 1) @@ ("upgrade" :> 1) @@ ("touch" :> 1) @@ ("time" :> 3)),
    Mix(("login" :> 1) @@ ("upgrade" :> 2) @@ ("touch" :> 1) @@ ("time" :> 2)),
    Mix(("login" :> 3) @@ ("remembered" :> 1) @@ ("logout" :> 1) @@ ("restart" :> 2) @@ ("fault" :> 1)),
    Mix(("login" :> 2) @@ ("remembered" :> 1) @@ ("logout" :> 1) @@ ("restart" :> 1) @@ ("fault" :> 1) @@ ("time" :> 3)),
    Mix(("login" :> 2) @@ ("malformed" :> 1) @@ ("wrong" :> 2) @@ ("time" :> 2)),
    Mix(("login" :> 1) @@ ("upgrade" :> 2) @@ ("end" :> 1) @@ ("shutdown" :> 1)),
    Mix(("login" :> 1) @@ ("upgrade" :> 1) @@ ("end" :> 1) @@ ("logout" :> 1) @@ ("shutdown" :> 1) @@ ("time" :> 1))}
=============================================================================
