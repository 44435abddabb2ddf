----------------------------- MODULE MCCatalogTree -----------------------------
(* CatalogTree on a tree of two folders and two setups. *)
EXTENDS CatalogTree, TLC

CONSTANTS a, b, c, A, f, g, h, s, t

MCFold == [n \in {a, b, c, A} |-> IF n = A THEN a ELSE n]

Folder(parent, name, path) == [parent |-> parent, name |-> name, path |-> path, revision |-> 1]
File(setup, role, path, node) == [setup |-> setup, role |-> role, path |-> path, node |-> node, version |-> 1]
Setup(folder) == [folder |-> folder, revision |-> 1]
Do(kind, id, folder, name) == [kind |-> kind, id |-> id, folder |-> folder, name |-> name]

\* f is a/, g is a/b/, and the files of s are in g.
Deep == [folders |-> (f :> Folder(None, a, <<a>>) @@ g :> Folder(f, b, <<a, b>>) @@ h :> None),
         setups |-> (s :> Setup(g) @@ t :> None), nodes |-> (f :> 1 @@ g :> 2),
         rows |-> {File(s, "program", <<a, b, c>>, 3), File(s, "sheet", <<a, b, a>>, 4)}]
\* f is a/ and g is b/; s is in f, and t has a file of the same name at the root.
Flat == [folders |-> (f :> Folder(None, a, <<a>>) @@ g :> Folder(None, b, <<b>>) @@ h :> None),
         setups |-> (s :> Setup(f) @@ t :> Setup(None)), nodes |-> (f :> 1 @@ g :> 2),
         rows |-> {File(s, "program", <<a, c>>, 3), File(s, "sheet", <<a, b>>, 4), File(t, "program", <<c>>, 5)}]

Plan(tree, asks, reads, fails, ends) ==
    [folders |-> tree.folders, setups |-> tree.setups, nodes |-> tree.nodes, rows |-> tree.rows,
     asks |-> asks, reads |-> reads, mishaps |-> fails, stops |-> ends]
MCPlans == {
    Plan(Deep, <<Do("moveFolder", f, None, c), Do("moveSetup", s, f, None)>>, FALSE, 1, 1),
    Plan(Deep, <<Do("moveFolder", g, None, b), Do("deleteSetup", s, None, None)>>, FALSE, 2, 1),
    Plan(Deep, <<Do("moveFolder", f, g, a), Do("createFolder", h, f, c)>>, FALSE, 1, 1),
    Plan(Deep, <<Do("moveFolder", f, None, c), Do("createSetup", t, g, None)>>, TRUE, 1, 0),
    Plan(Flat, <<Do("createFolder", h, g, a), Do("deleteFolder", g, None, None)>>, FALSE, 2, 1),
    Plan(Flat, <<Do("createFolder", h, None, A), Do("createFolder", h, None, a)>>, FALSE, 1, 1),
    Plan(Flat, <<Do("moveSetup", s, g, None), Do("deleteFolder", f, None, None)>>, FALSE, 1, 1),
    Plan(Flat, <<Do("moveSetup", s, g, None)>>, FALSE, 2, 2),
    Plan(Flat, <<Do("deleteSetup", s, None, None)>>, FALSE, 1, 2),
    Plan(Flat, <<Do("moveSetup", s, None, None), Do("deleteSetup", t, None, None)>>, FALSE, 1, 1),
    Plan(Flat, <<Do("moveSetup", s, g, None), Do("deleteSetup", t, None, None)>>, TRUE, 0, 0)}

===============================================================================
