------------------------------- MODULE MCSetups -------------------------------
EXTENDS Setups

Plan(setups, objects, ops) == [ops |-> ops, setups |-> setups, objects |-> objects]

\* One setup of two files that change, or two setups that share one file.
OneSetup == {CHOOSE s \in SetupIds : TRUE}
OneFile  == {CHOOSE o \in Objects : TRUE}
MCPlans  == {Plan(OneSetup, Objects, {"edit", "validate", "read", "reconcile", "touch"}),
             Plan(OneSetup, OneFile, {"edit", "validate", "select", "read", "archive", "reconcile", "touch"}),
             Plan(SetupIds, OneFile, {"edit", "archive", "delete", "duplicate"}),
             Plan(SetupIds, OneFile, {"duplicate", "edit", "touch"}),
             Plan(SetupIds, OneFile, {"edit", "archive", "delete", "lists"})}

===============================================================================
