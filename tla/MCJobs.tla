-------------------------------- MODULE MCJobs --------------------------------
(***************************************************************************)
(* Jobs on small instances.                                                *)
(***************************************************************************)
EXTENDS Jobs, TLC

CONSTANTS j1, j2, r1

\* A validation beside a restore, a duplicate that is asked for again, or an upload that two requests run.
MCPlans == {[kind |-> (j1 :> "validate") @@ (j2 :> "restore"), heavySlots |-> 1],
            [kind |-> (j1 :> "duplicate") @@ (j2 :> None), heavySlots |-> 2],
            [kind |-> (j1 :> "upload") @@ (j2 :> None), heavySlots |-> 1]}

MCRepeatOf == r1 :> j1

Symmetry == Permutations(Keys) \cup Permutations(Bodies)
=============================================================================
