--------------------------- MODULE MCCodeServers ---------------------------
(* Small instances of CodeServers for TLC. *)
EXTENDS CodeServers, TLC

MCGens == 1..2

Asked == ({folder[w] : w \in Workers} \cup {folderOf[i] : i \in Ids}) \ {Nobody}

Launched == {i \in Ids : folderOf[i] # Nobody}

\* One thing goes wrong: the daemon dies, or a command fails while there is
\* one instance, which is enough to lose a session, its record or its directory.
OneMishap ==
    /\ faults + crashes <= 1
    /\ faults = 1 => Cardinality(Launched) <= 1

Symmetry == Permutations(Workers) \cup Permutations(Ids) \cup Permutations(Folders)
=============================================================================
