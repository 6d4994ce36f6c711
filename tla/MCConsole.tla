----------------------------- MODULE MCConsole -----------------------------
(* Model-checking instance of Console: two writers that may ask for          *)
(* anything and one reader, about two environments with one pipeline key.    *)
EXTENDS Console, TLC
CONSTANTS w1, w2, r1, dev, prod, main, n1

MCWriters == {w1, w2}
MCReaders == {r1}
MCEnvs == {dev, prod}
MCPipes == {main}
MCNames == {n1}

\* A creation asks for an inactive row, an update gives all columns or none.
G(n, a) == [name |-> n, active |-> a]
MCJobs ==
    {[op |-> o[1], kind |-> k, place |-> <<e, main>>, given |-> o[2]] :
       o \in {<<"add", G(Blank, FALSE)>>, <<"update", G(n1, TRUE)>>,
              <<"update", G(Blank, FALSE)>>, <<"delete", G(Blank, FALSE)>>},
       k \in {"env", "pipe"}, e \in MCEnvs}

MCSymmetry == Permutations(MCWriters) \cup Permutations(MCEnvs)
============================================================================
