----------------------------- MODULE EnvRegistry -----------------------------
(***************************************************************************)
(* Environments and pipelines (biz/service/environment_service.go,         *)
(* pipeline_service.go), their import from an archive                      *)
(* (transfer_service.go) and their creation when a replica starts          *)
(* (seed.go), one action per SQL statement or transaction.                 *)
(*                                                                         *)
(* Deletion is soft: the queries no longer see the row, while the unique   *)
(* indexes uk_environment_key and uk_env_pipeline still cover it.  So a key *)
(* is free, live or gone.  Names, descriptions and the order of rows are   *)
(* left out; the update handlers are in Console.  Nothing here depends on  *)
(* the write lock, which replicas that start do not take.                  *)
(***************************************************************************)
EXTENDS Sequences

CONSTANTS
    Servers,                   \* the replicas
    Requests,                  \* write requests in flight
    Envs, Pipes,               \* environment and pipeline keys
    DefaultEnv, DefaultPipe,   \* the two keys called "default"
    Jobs                       \* what the requests may ask for

Places == Envs \X Pipes
Default == <<DefaultEnv, DefaultPipe>>

\* Single operations name one environment or one pipeline, an import the
\* environments and pipelines of its archive (none when it has a target).
Ops == {"add_environment", "delete_environment",
        "add_pipeline", "delete_pipeline", "import"}
JobType == [op : Ops, envs : Seq(Envs), places : Seq(Places)]

ASSUME EnvAssumption ==
    /\ DefaultEnv \in Envs
    /\ DefaultPipe \in Pipes
    /\ \A j \in Jobs :
         /\ j \in JobType
         /\ j.op \in {"add_environment", "delete_environment"} => Len(j.envs) = 1
         /\ j.op \in {"add_pipeline", "delete_pipeline"} => Len(j.places) = 1

VARIABLES
    env,       \* the environment table, by key
    pipe,      \* the pipeline table, by environment and pipeline key
    server,    \* how far each replica has started
    pc,        \* the statement each request is about to run
    job        \* what each request asks for, less what an import has done

vars == <<env, pipe, server, pc, job>>

\* What the requests that are not running ask for.
NoJob == [op |-> "import", envs |-> <<>>, places |-> <<>>]

Row == {"free", "live", "gone"}

TypeOK ==
    /\ env \in [Envs -> Row]
    /\ pipe \in [Places -> Row]
    /\ server \in [Servers -> {"down", "find_env", "make_env", "find_pipe",
                               "make_pipe", "up", "failed"}]
    /\ pc \in [Requests -> {"idle", "look", "act", "get_env", "put_env",
                            "get_pipe", "put_pipe"}]
    /\ job \in [Requests -> JobType]

Init ==
    /\ env = [e \in Envs |-> "free"]
    /\ pipe = [p \in Places |-> "free"]
    /\ server = [s \in Servers |-> "down"]
    /\ pc = [r \in Requests |-> "idle"]
    /\ job = [r \in Requests |-> NoJob]

Goto(r, label) == pc' = [pc EXCEPT ![r] = label]
End(r) == Goto(r, "idle") /\ job' = [job EXCEPT ![r] = NoJob]
Reach(s, label) == server' = [server EXCEPT ![s] = label]

------------------------------------------------------------------------------
(* A replica starts: EnsureSystemDefaults, an error of which ends it.       *)

Start(s) ==
    /\ server[s] \in {"down", "failed"}
    /\ Reach(s, "find_env")
    /\ UNCHANGED <<env, pipe, pc, job>>

\* Mutant of FindEnv: an existing environment is taken for the whole default.
FindEnvOnly(s) ==
    /\ server[s] = "find_env"
    /\ Reach(s, IF env[DefaultEnv] = "live" THEN "up" ELSE "make_env")
    /\ UNCHANGED <<env, pipe, pc, job>>

\* Mutant of FindEnv: the environment is created without a look.
FindEnvBlindly(s) ==
    /\ server[s] = "find_env"
    /\ Reach(s, "make_env")
    /\ UNCHANGED <<env, pipe, pc, job>>

FindEnv(s) ==
    /\ server[s] = "find_env"
    /\ Reach(s, IF env[DefaultEnv] = "live" THEN "find_pipe" ELSE "make_env")
    /\ UNCHANGED <<env, pipe, pc, job>>

MakeEnv(s) ==
    /\ server[s] = "make_env"
    /\ IF env[DefaultEnv] = "free"
       THEN env' = [env EXCEPT ![DefaultEnv] = "live"] /\ Reach(s, "find_pipe")
       ELSE Reach(s, "failed") /\ UNCHANGED env
    /\ UNCHANGED <<pipe, pc, job>>

FindPipe(s) ==
    /\ server[s] = "find_pipe"
    /\ Reach(s, IF pipe[Default] = "live" THEN "up" ELSE "make_pipe")
    /\ UNCHANGED <<env, pipe, pc, job>>

MakePipe(s) ==
    /\ server[s] = "make_pipe"
    /\ IF pipe[Default] = "free"
       THEN pipe' = [pipe EXCEPT ![Default] = "live"] /\ Reach(s, "up")
       ELSE Reach(s, "failed") /\ UNCHANGED pipe
    /\ UNCHANGED <<env, pc, job>>

\* A replica dies; with the last one that serves, every request.
Crash(s) ==
    /\ server[s] \notin {"down", "failed"}
    /\ Reach(s, "down")
    /\ IF \E t \in Servers : server'[t] = "up"
       THEN UNCHANGED <<pc, job>>
       ELSE /\ pc' = [r \in Requests |-> "idle"]
            /\ job' = [r \in Requests |-> NoJob]
    /\ UNCHANGED <<env, pipe>>

------------------------------------------------------------------------------
(* Requests.                                                                *)

Env(r) == Head(job[r].envs)
Place(r) == Head(job[r].places)

Begin(r) ==
    /\ pc[r] = "idle"
    /\ \E s \in Servers : server[s] = "up"
    /\ \E j \in Jobs :
         /\ job' = [job EXCEPT ![r] = j]
         /\ Goto(r, IF j.op = "import" THEN "get_env" ELSE "look")
    /\ UNCHANGED <<env, pipe, server>>

\* ExistsByKey of the add handlers, GetByKey of the delete handlers.
Seen(r) ==
    IF job[r].op \in {"add_environment", "delete_environment"}
    THEN env[Env(r)] = "live"
    ELSE pipe[Place(r)] = "live"

Wanted(r) == job[r].op \in {"delete_environment", "delete_pipeline"}

Look(r) ==
    /\ pc[r] = "look"
    /\ IF Seen(r) = Wanted(r) THEN Goto(r, "act") /\ UNCHANGED job ELSE End(r)
    /\ UNCHANGED <<env, pipe, server>>

\* Mutant of AddEnvironment: no transaction, the environment stays when the
\* insertion of its default pipeline fails.
AddWithoutRollback(r) ==
    /\ pc[r] = "act"
    /\ job[r].op = "add_environment"
    /\ LET d == <<Env(r), DefaultPipe>> IN
       IF env[Env(r)] = "free"
       THEN /\ env' = [env EXCEPT ![Env(r)] = "live"]
            /\ pipe' = [pipe EXCEPT ![d] = IF @ = "free" THEN "live" ELSE @]
       ELSE UNCHANGED <<env, pipe>>
    /\ End(r)
    /\ UNCHANGED server

\* Mutant of AddEnvironment: a deleted environment is given back its row.
AddReviving(r) ==
    /\ pc[r] = "act"
    /\ job[r].op = "add_environment"
    /\ env' = [env EXCEPT ![Env(r)] = "live"]
    /\ pipe' = [pipe EXCEPT ![<<Env(r), DefaultPipe>>] = "live"]
    /\ End(r)
    /\ UNCHANGED server

\* One transaction inserts the environment and its default pipeline.
AddEnvironment(r) ==
    /\ pc[r] = "act"
    /\ job[r].op = "add_environment"
    /\ LET d == <<Env(r), DefaultPipe>> IN
       IF env[Env(r)] = "free" /\ pipe[d] = "free"
       THEN /\ env' = [env EXCEPT ![Env(r)] = "live"]
            /\ pipe' = [pipe EXCEPT ![d] = "live"]
       ELSE UNCHANGED <<env, pipe>>
    /\ End(r)
    /\ UNCHANGED server

\* Mutant of AddPipeline: the two keys are exchanged.
AddPipelineSwapped(r) ==
    /\ pc[r] = "act"
    /\ job[r].op = "add_pipeline"
    /\ LET p == <<Place(r)[2], Place(r)[1]>>
       IN  pipe' = [q \in Places \cup {p} |-> IF q = p THEN "live" ELSE pipe[q]]
    /\ End(r)
    /\ UNCHANGED <<env, server>>

\* The environment need not exist, before or after.
AddPipeline(r) ==
    /\ pc[r] = "act"
    /\ job[r].op = "add_pipeline"
    /\ pipe' = [pipe EXCEPT ![Place(r)] = IF @ = "free" THEN "live" ELSE @]
    /\ End(r)
    /\ UNCHANGED <<env, server>>

\* The pipelines of the environment, and its configurations, are left alone.
DeleteEnvironment(r) ==
    /\ pc[r] = "act"
    /\ job[r].op = "delete_environment"
    /\ env' = [env EXCEPT ![Env(r)] = IF @ = "live" THEN "gone" ELSE @]
    /\ End(r)
    /\ UNCHANGED <<pipe, server>>

DeletePipeline(r) ==
    /\ pc[r] = "act"
    /\ job[r].op = "delete_pipeline"
    /\ pipe' = [pipe EXCEPT ![Place(r)] = IF @ = "live" THEN "gone" ELSE @]
    /\ End(r)
    /\ UNCHANGED <<env, server>>

\* importEnvironments: an environment that exists is updated, a missing one
\* inserted, and the first error ends the list (it is only logged).
GetEnv(r) ==
    /\ pc[r] = "get_env"
    /\ \/ job[r].envs = <<>> /\ Goto(r, "get_pipe") /\ UNCHANGED job
       \/ /\ job[r].envs # <<>> /\ env[Env(r)] = "live"
          /\ job' = [job EXCEPT ![r].envs = Tail(@)]
          /\ UNCHANGED pc
       \/ /\ job[r].envs # <<>> /\ env[Env(r)] # "live"
          /\ Goto(r, "put_env") /\ UNCHANGED job
    /\ UNCHANGED <<env, pipe, server>>

\* An archive carries the numeric id its environments had where they were
\* exported, and any row but the first may have that id here.
IdTaken == \E e \in Envs : env[e] # "free"

PutEnv(r) ==
    /\ pc[r] = "put_env"
    /\ \/ /\ env[Env(r)] = "free"
          /\ env' = [env EXCEPT ![Env(r)] = "live"]
          /\ job' = [job EXCEPT ![r].envs = Tail(@)]
          /\ Goto(r, "get_env")
       \/ /\ IdTaken
          /\ Goto(r, "get_pipe")
          /\ UNCHANGED <<env, job>>
    /\ UNCHANGED <<pipe, server>>

\* importPipelines, whose entries carry no id; then the configurations.
GetPipe(r) ==
    /\ pc[r] = "get_pipe"
    /\ \/ job[r].places = <<>> /\ End(r)
       \/ /\ job[r].places # <<>> /\ pipe[Place(r)] = "live"
          /\ job' = [job EXCEPT ![r].places = Tail(@)]
          /\ UNCHANGED pc
       \/ /\ job[r].places # <<>> /\ pipe[Place(r)] # "live"
          /\ Goto(r, "put_pipe") /\ UNCHANGED job
    /\ UNCHANGED <<env, pipe, server>>

PutPipe(r) ==
    /\ pc[r] = "put_pipe"
    /\ IF pipe[Place(r)] = "free"
       THEN /\ pipe' = [pipe EXCEPT ![Place(r)] = "live"]
            /\ job' = [job EXCEPT ![r].places = Tail(@)]
            /\ Goto(r, "get_pipe")
       ELSE End(r) /\ UNCHANGED pipe
    /\ UNCHANGED <<env, server>>

\* A statement fails or the replica that serves the request dies.
Abandon(r) ==
    /\ pc[r] # "idle"
    /\ End(r)
    /\ UNCHANGED <<env, pipe, server>>

Boot(s) == Start(s) \/ FindEnv(s) \/ MakeEnv(s) \/ FindPipe(s) \/ MakePipe(s)

Serve(r) ==
    \/ Begin(r) \/ Look(r)
    \/ AddEnvironment(r) \/ AddPipeline(r)
    \/ DeleteEnvironment(r) \/ DeletePipeline(r)
    \/ GetEnv(r) \/ PutEnv(r) \/ GetPipe(r) \/ PutPipe(r)
    \/ Abandon(r)

Next == (\E s \in Servers : Boot(s) \/ Crash(s)) \/ (\E r \in Requests : Serve(r))

Spec == Init /\ [][Next]_vars

\* A start that fails is tried again ("restart: unless-stopped" in every
\* compose file, a Deployment elsewhere), and a start that runs goes on.
FairSpec == Spec /\ \A s \in Servers : WF_vars(Boot(s))

------------------------------------------------------------------------------
\* A replica serves only when the default environment and pipeline have been
\* created, by whichever replica, crash or race (EnsureSystemDefaults).
DefaultsServed ==
    \A s \in Servers :
      server[s] = "up" => env[DefaultEnv] # "free" /\ pipe[Default] # "free"

\* An environment that AddEnvironment creates comes with a live default
\* pipeline: only a start or an import creates one without.
NewEnvironmentWhole ==
    [][\A e \in Envs :
         env[e] = "free" /\ env'[e] # "free" =>
           \/ pipe'[<<e, DefaultPipe>>] = "live"
           \/ e = DefaultEnv /\ \E s \in Servers : server[s] = "make_env"
           \/ \E r \in Requests : pc[r] = "put_env" /\ Env(r) = e]_vars

\* Nothing brings back a deleted key: neither a creation, nor an import, nor a
\* start ("deletion cannot be undone", environment.md).
DeletionFinal ==
    [][/\ \A e \in Envs : env[e] = "gone" => env'[e] = "gone"
       /\ \A p \in Places : pipe[p] = "gone" => pipe'[p] = "gone"]_vars

\* Replicas that race for the defaults at their first start may fail, and then
\* start after all, unless a default has been deleted meanwhile.
Burnt == env[DefaultEnv] = "gone" \/ pipe[Default] = "gone"

FailedStartRecovers ==
    \A s \in Servers :
      server[s] = "failed" ~> server[s] \in {"up", "down"} \/ Burnt

\* "EnsureSystemDefaults initializes default environment and pipeline at
\* startup" (seed.go): a lone replica never fails to start.
StartSucceeds == \A s \in Servers : server[s] # "failed"
==============================================================================
