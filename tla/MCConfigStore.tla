---------------------------- MODULE MCConfigStore ----------------------------
(* Model-checking instance of ConfigStore: three requests that may ask for   *)
(* any of a dozen jobs about two scopes, two aliases and one given key.      *)
EXTENDS ConfigStore, TLC
CONSTANTS r1, r2, r3, dev, prod, k1, a1, a2, c1, c2

MCRequests == {r1, r2, r3}
TwoRequests == {r1, r2}
RequestSymmetry == Permutations(MCRequests)
MCScopes == {dev, prod}
MCAliases == {a1, a2}
MCContents == {c1, c2}

Cf(s, k, a, c) == [scope |-> s, key |-> k, alias |-> a, content |-> c]
Job(o, b, w) == [op |-> o, batch |-> b, overwrite |-> w]

\* Single operations, on a row with a caller's key and on rows with a UUID.
SingleJobs ==
    {Job("add", <<Cf(dev, NoKey, a1, c1)>>, FALSE),
     Job("add", <<Cf(dev, k1, a1, c2)>>, FALSE),
     Job("add", <<Cf(dev, NoKey, NoAlias, c1)>>, FALSE),
     Job("add", <<Cf(dev, NoKey, a2, Invalid)>>, FALSE),
     Job("update", <<Cf(dev, k1, a2, c1)>>, FALSE),
     Job("delete", <<Cf(dev, k1, NoAlias, Invalid)>>, FALSE)}

\* Imports of archives of whole channels or environments, from which
\* ExportConfigs clears the resource keys.
KeylessImports ==
    {Job("import", <<Cf(dev, NoKey, a1, c1), Cf(dev, NoKey, a1, c2),
                     Cf(prod, NoKey, a1, c2)>>, FALSE),
     Job("import", <<Cf(dev, NoKey, NoAlias, c2), Cf(dev, NoKey, a1, c2)>>, TRUE),
     Job("import", <<Cf(dev, NoKey, a2, c1), Cf(dev, NoKey, a1, Invalid)>>, TRUE)}

\* Imports of archives of selected configurations, which keep their keys
\* (ExportConfigsSelective takes them from ListConfigs).
KeyedImports ==
    {Job("import", <<Cf(dev, k1, a2, c1), Cf(dev, NoKey, a2, c2)>>, FALSE)}

KeylessJobs == SingleJobs \cup KeylessImports
AllJobs == KeylessJobs \cup KeyedImports
==============================================================================
