---------------------------- MODULE MCConfigCache ----------------------------
(* Model-checking instance of ConfigCache: three requests, two keys.        *)
EXTENDS ConfigCache, TLC
CONSTANTS r1, r2, r3, k1, k2, c1, c2

MCRequests == {r1, r2, r3}
MCKeys == {k1, k2}
MCContents == {c1, c2}

Read(e) == [op |-> "read", entry |-> e]
Single(o, k, c) == [op |-> o, key |-> k, content |-> c]
Import(b, w) == [op |-> "import", batch |-> b, overwrite |-> w]
I(k, c) == [key |-> k, content |-> c]

Lockless == {Read(k1), Read(List), [op |-> "start"]}
Locked ==
    {Single("add", k1, c1), Single("update", k1, c2), Single("delete", k1, c1),
     Import(<<I(k1, c2), I(k2, c1)>>, FALSE),
     Import(<<I(k2, c2)>>, TRUE),
     Import(<<I(k1, c2), I(k2, Invalid)>>, TRUE)}

\* One that the lock does not hold up, one that it does, and one of either kind.
MCJobs == (r1 :> Lockless) @@ (r2 :> Locked) @@ (r3 :> Lockless \cup Locked)

\* The path in c1 is not the one that a start puts there.
MCRewritten == (c1 :> c2) @@ (c2 :> c2)

\* Where the keys do not split only the imports differ.
MCUnsplitJobs ==
    {Read(List), Single("update", k1, c2),
     Import(<<I(k1, c2), I(k2, c1)>>, FALSE), Import(<<I(k2, c2)>>, TRUE)}
==============================================================================
