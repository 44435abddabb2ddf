---------------------------- MODULE CatalogAtomic ----------------------------
(***************************************************************************)
(* What the file half of the catalogue promises its clients: every request *)
(* takes effect at most once and at once, on the revision it was made for, *)
(* or not at all, whatever fails or dies on the way.                       *)
(***************************************************************************)
EXTENDS Naturals

CONSTANTS Setups, Paths, Files, Keys, None

VARIABLES
    files,     \* per setup, its path and file
    revision,
    asked,     \* per key, the request
    outcome    \* per key

vars == <<files, revision, asked, outcome>>

Requests(s) == [kind : {"put", "delete"}, setup : {s}, path : Paths \cup {None}, revision : {revision[s]}]

Init ==
    /\ files = [s \in Setups |-> None]
    /\ revision = [s \in Setups |-> 1]
    /\ asked = [k \in Keys |-> None]
    /\ outcome = [k \in Keys |-> "none"]

\* A client may repeat a request it got no outcome for, never change it.
Ask(k) ==
    /\ outcome[k] = "none"
    /\ outcome' = [outcome EXCEPT ![k] = "pending"]
    /\ IF asked[k] # None THEN UNCHANGED asked
       ELSE \E s \in Setups : \E r \in Requests(s) : asked' = [asked EXCEPT ![k] = r]
    /\ UNCHANGED <<files, revision>>

Taken(p) == \E s \in Setups : files[s] # None /\ files[s].path = p

Stores(r, f) ==
    /\ \A s \in Setups : files[s] # None => files[s].file # f
    /\ Taken(r.path) => files[r.setup] # None /\ files[r.setup].path = r.path
    /\ files' = [files EXCEPT ![r.setup] = [path |-> r.path, file |-> f]]

Removes(r) ==
    /\ files[r.setup] # None
    /\ files' = [files EXCEPT ![r.setup] = None]

Apply(k) ==
    /\ outcome[k] = "pending"
    /\ asked[k].revision = revision[asked[k].setup]
    /\ IF asked[k].kind = "put" THEN \E f \in Files : Stores(asked[k], f) ELSE Removes(asked[k])
    /\ revision' = [revision EXCEPT ![asked[k].setup] = @ + 1]
    /\ outcome' = [outcome EXCEPT ![k] = "done"]
    /\ UNCHANGED asked

Fail(k) ==
    /\ outcome[k] = "pending"
    /\ outcome' = [outcome EXCEPT ![k] = "failed"]
    /\ UNCHANGED <<files, revision, asked>>

\* After a crash the client may send the request again.
Forget(k) ==
    /\ outcome[k] = "pending"
    /\ outcome' = [outcome EXCEPT ![k] = "none"]
    /\ UNCHANGED <<files, revision, asked>>

\* A start gives up every request of which nothing was journaled.
GiveUp ==
    /\ \E K \in SUBSET {k \in Keys : outcome[k] = "pending"} :
         outcome' = [k \in Keys |-> IF k \in K THEN "failed" ELSE outcome[k]]
    /\ UNCHANGED <<files, revision, asked>>

Next == GiveUp \/ \E k \in Keys : Ask(k) \/ Apply(k) \/ Fail(k) \/ Forget(k)

Spec == Init /\ [][Next]_vars

=============================================================================
