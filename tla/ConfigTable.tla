----------------------------- MODULE ConfigTable -----------------------------
(***************************************************************************)
(* What the configuration table promises its readers (README.md, table     *)
(* Config): a configuration appears with an alias nobody else has in its   *)
(* environment and pipeline, keeps that alias for life, changes content    *)
(* and disappears, one configuration at a time except for a full reset.    *)
(***************************************************************************)
CONSTANT NoAlias        \* configurations without an alias

VARIABLE rows           \* records with fields scope, key, alias, content

SameKey(x, y) == x.scope = y.scope /\ x.key = y.key
SameAlias(x, y) == x.alias # NoAlias /\ x.scope = y.scope /\ x.alias = y.alias

\* No two configurations share a key or an alias.
Tidy == \A x, y \in rows : SameKey(x, y) \/ SameAlias(x, y) => x = y

Init == Tidy

Appear(x) ==
    /\ \A y \in rows : ~SameKey(x, y) /\ ~SameAlias(x, y)
    /\ rows' = rows \cup {x}

Change(x, y) ==
    /\ x \in rows /\ SameKey(x, y) /\ x.alias = y.alias
    /\ rows' = (rows \ {x}) \cup {y}

Disappear(x) ==
    /\ x \in rows
    /\ rows' = rows \ {x}

Reset == rows' = {}

Next ==
    \/ \E x \in rows' : Appear(x)
    \/ \E x \in rows, y \in rows' : Change(x, y)
    \/ \E x \in rows : Disappear(x)
    \/ Reset

Spec == Init /\ [][Next]_rows
==============================================================================
