----------------------------- MODULE MCMigrate -----------------------------
(* Model-checking instance of Migrate: two migrations, out of four that may  *)
(* be asked for, a source of two configurations (one that refers to an asset and *)
(* one to its URL, or two without alias) and a target that may hold one of   *)
(* the aliases.                                                              *)
EXTENDS Migrate, TLC
CONSTANTS m1, m2, dev, prod, a1, a2

MCMigrations == {m1, m2}
MCSymmetry == Permutations(MCMigrations)
MCScopes == {dev, prod}
MCAliases == {a1, a2}

Text(n) == [form |-> "text", id |-> n]
AssetRef(n) == [form |-> "asset", id |-> n]
Url(n) == [form |-> "url", id |-> n]
R(i, s, a, c) == [id |-> i, scope |-> s, alias |-> a, content |-> c]

\* Asset 1 can be copied, asset 2 has lost its file.
MCAssets == {1, 2}
MCFiles == {[id |-> 1, of |-> 1]}
MCTables ==
    {{R(1, dev, a1, AssetRef(1)), R(2, dev, a2, Url(1)), R(3, prod, a1, Text(1))},
     {R(1, dev, NoAlias, Text(1)), R(2, dev, NoAlias, AssetRef(2))}}

Move(s, t, k, w) == [source |-> s, target |-> t, keys |-> k, overwrite |-> w]
MCJobs ==
    {Move(dev, prod, {}, FALSE), Move(dev, prod, {}, TRUE),
     Move(prod, dev, {3, 4}, TRUE), Move(dev, dev, {}, TRUE)}

MCTexts == {Text(2)}
=============================================================================
