--------------------------- MODULE MCBrowserLogins ---------------------------
(***************************************************************************)
(* BrowserLogins on small instances.                                       *)
(***************************************************************************)
EXTENDS BrowserLogins, TLC

Mix(f) == f @@ [w \in Events |-> 0]

MCPlans == {
    Mix(("load" :> 2) @@ ("login" :> 2) @@ ("logout" :> 1)),
    Mix(("load" :> 3) @@ ("login" :> 1) @@ ("close" :> 1) @@ ("lose" :> 1)),
    Mix(("load" :> 2) @@ ("remember" :> 2) @@ ("restart" :> 1) @@ ("fault" :> 1)),
    Mix(("load" :> 2) @@ ("login" :> 2) @@ ("work" :> 1) @@ ("lose" :> 1)),
    Mix(("load" :> 2) @@ ("login" :> 1) @@ ("work" :> 1) @@ ("expire" :> 1)),
    Mix(("load" :> 2) @@ ("login" :> 2) @@ ("unsealed" :> 1)),
    Mix(("load" :> 2) @@ ("remember" :> 1) @@ ("shutdown" :> 1) @@ ("restart" :> 1)),
    Mix(("load" :> 1) @@ ("login" :> 3) @@ ("work" :> 1) @@ ("logout" :> 1) @@ ("lose" :> 2)),
    Mix(("load" :> 1) @@ ("login" :> 1) @@ ("remember" :> 1) @@ ("logout" :> 1) @@ ("fault" :> 1) @@ ("expire" :> 1))}
=============================================================================
