----------------------------- MODULE MCTransfer -----------------------------
(* Model-checking instance of Transfer: two environments with one pipeline, *)
(* a table with an alias in several places and a configuration without one,  *)
(* a table with a content in JSON, and an archive of another installation    *)
(* with a configuration named by resource key and one that does not validate.*)
EXTENDS Transfer
CONSTANTS dev, prod, main, a1, t1, t2, u1, j1

MCEnvs == {dev, prod}
MCPipes == {main}
MCAliases == {a1}
MCTexts == {t1, t2, u1}
MCUnfit == {u1}
MCJson == {j1}
MCConsole == {t2}

R(i, p, a, c) == [id |-> i, place |-> p, key |-> i, alias |-> a, content |-> c]
MCTables ==
    {{R(1, <<dev, main>>, a1, t1), R(2, <<prod, main>>, NoAlias, t1)},
     {R(1, <<dev, main>>, a1, j1)}}

I(p, k, a, c) == [place |-> p, key |-> k, alias |-> a, content |-> c]
MCForeign ==
    {[items |-> {I(<<dev, main>>, 4, a1, t2), I(<<prod, main>>, 0, a1, u1)},
      envs |-> {dev, prod}, pipes |-> {<<dev, main>>, <<prod, main>>}]}
=============================================================================
