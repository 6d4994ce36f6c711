---------------------------- MODULE MCEnvRegistry ----------------------------
(* Model-checking instance of EnvRegistry: two replicas and two requests,    *)
(* one environment besides the default one, two pipeline keys.               *)
EXTENDS EnvRegistry
CONSTANTS home, dev, main, beta

MCEnvs == {home, dev}
MCPipes == {main, beta}

Job(o, e, p) == [op |-> o, envs |-> e, places |-> p]

SingleJobs ==
    {Job("add_environment", <<e>>, <<>>) : e \in MCEnvs}
    \cup {Job("delete_environment", <<e>>, <<>>) : e \in MCEnvs}
    \cup {Job(o, <<>>, <<p>>) : o \in {"add_pipeline", "delete_pipeline"},
                                p \in {<<home, main>>, <<dev, main>>}}

ImportJobs == {Job("import", <<home, dev>>, <<<<dev, main>>, <<dev, beta>>>>)}

MCJobs == SingleJobs \cup ImportJobs
==============================================================================
