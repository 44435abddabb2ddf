------------------------------- MODULE MCLibrary -------------------------------
EXTENDS Library

CONSTANTS s, t, n, m, x, y

File(name, key) == [name |-> name, key |-> key]
Req(kind, setup, role, upload, target, idem) ==
    [kind |-> kind, setup |-> setup, role |-> role, files |-> upload, target |-> target, idem |-> idem]
Artifact(id, setup, role, name, key, primary) ==
    [id |-> id, setup |-> setup, role |-> role, name |-> name, key |-> key, version |-> 1, primary |-> primary]
Pick(asks, has, import) == [asks |-> asks, arts |-> has, import |-> import, calm |-> FALSE]
Calm(asks, has, import) == [Pick(asks, has, import) EXCEPT !.calm = TRUE]

MCSize == [k \in Keys |-> IF k = x THEN 1 ELSE 2]
first == Artifact(<<0, 1>>, s, "program", n, x, TRUE)
second == Artifact(<<0, 2>>, s, "program", m, y, FALSE)
gc(i)  == Req("collect", s, "program", <<>>, None, i)

\* Two setups publish, replace and drop the same content; the composition of one setup; the import.
MCPlans == {
    Pick(<<Req("add", s, "program", <<File(n, x)>>, None, 1), Req("add", t, "program", <<File(n, x)>>, None, 2), gc(3)>>, {}, FALSE),
    Pick(<<Req("replace", s, "program", <<File(n, y)>>, <<0, 1>>, 1), Req("add", t, "program", <<File(n, x)>>, None, 2), gc(3)>>, {first}, FALSE),
    Calm(<<Req("add", s, "program", <<File(n, x), File(m, y)>>, None, 1), Req("add", s, "program", <<File(n, x), File(m, y)>>, None, 1)>>, {}, FALSE),
    Pick(<<Req("sheet", s, "sheet", <<File(m, x)>>, None, 1), Req("sheet", s, "sheet", <<File(n, y)>>, None, 2)>>, {}, FALSE),
    Pick(<<Req("delete", s, "program", <<>>, <<0, 1>>, 1), Req("delete", s, "program", <<>>, <<0, 2>>, 2)>>, {first, second}, FALSE),
    Calm(<<Req("delete", s, "program", <<>>, <<0, 1>>, 1)>>, {[first EXCEPT !.primary = FALSE], second}, FALSE),
    Pick(<<Req("rename", s, "program", <<File(m, x)>>, <<0, 1>>, 1), Req("primary", s, "program", <<>>, <<0, 2>>, 2), Req("primary", s, "program", <<>>, <<0, 1>>, 3)>>, {first, second}, FALSE),
    Calm(<<Req("start", s, "program", <<>>, None, 1), Req("start", s, "program", <<>>, None, 1), Req("upload", s, "sheet", <<File(m, y)>>, None, 3)>>, {}, FALSE),
    Calm(<<Req("upload", s, "program", <<File(n, x)>>, None, 1), Req("upload", s, "program", <<File(m, y)>>, None, 2), Req("exclude", s, "program", <<File(n, x)>>, None, 3)>>, {}, TRUE),
    Pick(<<Req("upload", s, "program", <<File(n, x)>>, None, 1), Req("upload", s, "sheet", <<File(m, y)>>, None, 2), Req("cancel", s, "program", <<>>, None, 3)>>, {}, TRUE),
    Pick(<<Req("upload", s, "program", <<File(n, x)>>, None, 1), Req("commit", s, "program", <<>>, None, 2), gc(3)>>, {}, TRUE),
    \* What is repeated, refused or too late.
    Calm(<<Req("replace", s, "program", <<File(n, y)>>, <<0, 1>>, 1), Req("delete", s, "program", <<>>, <<0, 1>>, 2)>>, {first}, FALSE),
    Calm(<<Req("rename", s, "program", <<File(m, x)>>, <<0, 1>>, 1), Req("rename", s, "program", <<File(m, x)>>, <<0, 1>>, 1), Req("primary", s, "program", <<>>, <<0, 1>>, 1)>>, {first}, FALSE),
    Pick(<<Req("primary", s, "program", <<>>, <<0, 1>>, 1), Req("sheet", s, "sheet", <<File(m, x)>>, None, 3)>>, {first}, FALSE),
    Calm(<<Req("exclude", s, "program", <<File(n, x)>>, None, 1), Req("exclude", s, "program", <<File(n, x)>>, None, 1), Req("upload", s, "program", <<File(n, x)>>, None, 2)>>, {}, TRUE),
    Calm(<<Req("cancel", s, "program", <<>>, None, 1), Req("cancel", s, "program", <<>>, None, 1), Req("cancel", s, "program", <<>>, None, 2)>>, {}, TRUE)}
MCRequests == UNION {{p.asks[o] : o \in DOMAIN p.asks} : p \in MCPlans}

===============================================================================
