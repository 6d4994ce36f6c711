-------------------------- MODULE EnvRegistryProofs --------------------------
(***************************************************************************)
(* Theorems about EnvRegistry, for any replicas, requests, keys and jobs.  *)
(***************************************************************************)
EXTENDS EnvRegistry, TLAPS

\* What a statement finds in the request it works for.
Fits(r) ==
    /\ pc[r] \in {"look", "act"} =>
         /\ job[r].op \in {"add_environment", "delete_environment"}
              => job[r].envs # <<>>
         /\ job[r].op \in {"add_pipeline", "delete_pipeline"}
              => job[r].places # <<>>
    /\ pc[r] = "put_env" => job[r].envs # <<>>
    /\ pc[r] = "put_pipe" => job[r].places # <<>>

Pending == \A r \in Requests : Fits(r)

\* How far a start has come tells what the tables already hold.
Started ==
    \A s \in Servers :
      /\ server[s] \in {"find_pipe", "make_pipe", "up"} => env[DefaultEnv] # "free"
      /\ server[s] = "up" => pipe[Default] # "free"

LEMMA HeadType ==
  ASSUME NEW S, NEW q \in Seq(S), q # <<>>
  PROVE  Head(q) \in S /\ Tail(q) \in Seq(S)
  OBVIOUS

LEMMA Defaults == DefaultEnv \in Envs /\ Default \in Places
  BY EnvAssumption DEF Default, Places

LEMMA JobsFit ==
  ASSUME NEW j \in Jobs
  PROVE  /\ j \in JobType
         /\ j.op \in {"add_environment", "delete_environment"} => j.envs # <<>>
         /\ j.op \in {"add_pipeline", "delete_pipeline"} => j.places # <<>>
  BY EnvAssumption DEF JobType

\* The requests: a step of r leaves the others alone, and their types hold.
RequestsType ==
    /\ pc \in [Requests -> {"idle", "look", "act", "get_env", "put_env",
                            "get_pipe", "put_pipe"}]
    /\ job \in [Requests -> JobType]

LEMMA EndKeeps ==
  ASSUME RequestsType, Pending, NEW r \in Requests, End(r)
  PROVE  RequestsType' /\ Pending'
<1>1. NoJob \in JobType
  BY DEF NoJob, JobType, Ops
<1>2. pc' = [pc EXCEPT ![r] = "idle"] /\ job' = [job EXCEPT ![r] = NoJob]
  BY DEF End, Goto
<1>3. RequestsType'
  BY <1>1, <1>2 DEF RequestsType
<1>4. Pending'
  <2> SUFFICES ASSUME NEW q \in Requests PROVE Fits(q)'
    BY DEF Pending
  <2>1. CASE q = r
    BY <1>2, <2>1 DEF RequestsType, Fits
  <2>2. CASE q # r
    <3>1. pc'[q] = pc[q] /\ job'[q] = job[q]
      BY <1>2, <2>2 DEF RequestsType
    <3> QED  BY <3>1 DEF Pending, Fits
  <2> QED  BY <2>1, <2>2
<1> QED  BY <1>3, <1>4

LEMMA GotoKeeps ==
  ASSUME RequestsType, Pending, NEW r \in Requests, UNCHANGED job,
         NEW label \in {"look", "act", "get_env", "put_env", "get_pipe", "put_pipe"},
         Goto(r, label),
         label \in {"look", "act"} => pc[r] \in {"look", "act"},
         label = "put_env" => job[r].envs # <<>>,
         label = "put_pipe" => job[r].places # <<>>
  PROVE  RequestsType' /\ Pending'
<1>1. pc' = [pc EXCEPT ![r] = label] /\ job' = job
  BY DEF Goto
<1>2. RequestsType'
  BY <1>1 DEF RequestsType
<1>3. Pending'
  <2> SUFFICES ASSUME NEW q \in Requests PROVE Fits(q)'
    BY DEF Pending
  <2>1. CASE q = r
    BY <1>1, <2>1 DEF RequestsType, Pending, Fits
  <2>2. CASE q # r
    <3>1. pc'[q] = pc[q] /\ job'[q] = job[q]
      BY <1>1, <2>2 DEF RequestsType
    <3> QED  BY <3>1 DEF Pending, Fits
  <2> QED  BY <2>1, <2>2
<1> QED  BY <1>2, <1>3

\* An import takes the next entry of a list.
LEMMA TailKeeps ==
  ASSUME RequestsType, Pending, NEW r \in Requests,
         \/ job[r].envs # <<>> /\ job' = [job EXCEPT ![r].envs = Tail(@)]
         \/ job[r].places # <<>> /\ job' = [job EXCEPT ![r].places = Tail(@)],
         NEW label \in {"get_env", "get_pipe"},
         \/ Goto(r, label)
         \/ pc[r] = label /\ UNCHANGED pc
  PROVE  RequestsType' /\ Pending'
<1>1. pc' = [pc EXCEPT ![r] = label]
  BY DEF Goto, RequestsType
<1>2. job[r] \in JobType
  BY DEF RequestsType
<1>3. PICK j \in JobType : job' = [job EXCEPT ![r] = j]
  <2>1. CASE job[r].envs # <<>> /\ job' = [job EXCEPT ![r].envs = Tail(@)]
    <3>1. Tail(job[r].envs) \in Seq(Envs)
      BY <1>2, <2>1, HeadType DEF JobType
    <3>2. [job[r] EXCEPT !.envs = Tail(@)] \in JobType
      BY <1>2, <3>1 DEF JobType
    <3> QED  BY <2>1, <3>2
  <2>2. CASE job[r].places # <<>> /\ job' = [job EXCEPT ![r].places = Tail(@)]
    <3>1. Tail(job[r].places) \in Seq(Places)
      BY <1>2, <2>2, HeadType DEF JobType
    <3>2. [job[r] EXCEPT !.places = Tail(@)] \in JobType
      BY <1>2, <3>1 DEF JobType
    <3> QED  BY <2>2, <3>2
  <2> QED  BY <2>1, <2>2
<1>4. RequestsType'
  BY <1>1, <1>3 DEF RequestsType
<1>5. Pending'
  <2> SUFFICES ASSUME NEW q \in Requests PROVE Fits(q)'
    BY DEF Pending
  <2>1. CASE q = r
    BY <1>1, <2>1 DEF RequestsType, Fits
  <2>2. CASE q # r
    <3>1. pc'[q] = pc[q] /\ job'[q] = job[q]
      BY <1>1, <1>3, <2>2 DEF RequestsType
    <3> QED  BY <3>1 DEF Pending, Fits
  <2> QED  BY <2>1, <2>2
<1> QED  BY <1>4, <1>5

------------------------------------------------------------------------------
(* What one step may do to the tables: nothing, or turn one free key live,  *)
(* or one live key gone.                                                    *)

Move(from, to) == (from = "free" /\ to = "live") \/ (from = "live" /\ to = "gone")

EnvMoves ==
    \/ env' = env
    \/ \E e \in Envs, v \in Row : Move(env[e], v) /\ env' = [env EXCEPT ![e] = v]

PipeMoves ==
    \/ pipe' = pipe
    \/ \E p \in Places, v \in Row : Move(pipe[p], v) /\ pipe' = [pipe EXCEPT ![p] = v]

TablesType == env \in [Envs -> Row] /\ pipe \in [Places -> Row]

LEMMA EnvMove ==
  ASSUME TablesType, NEW e \in Envs, NEW v \in Row,
         env' = [env EXCEPT ![e] = v], v = env[e] \/ Move(env[e], v)
  PROVE  EnvMoves
<1>1. CASE v = env[e]
  BY <1>1 DEF EnvMoves, TablesType
<1>2. CASE Move(env[e], v)
  BY <1>2 DEF EnvMoves
<1> QED  BY <1>1, <1>2

LEMMA PipeMove ==
  ASSUME TablesType, NEW p \in Places, NEW v \in Row,
         pipe' = [pipe EXCEPT ![p] = v], v = pipe[p] \/ Move(pipe[p], v)
  PROVE  PipeMoves
<1>1. CASE v = pipe[p]
  BY <1>1 DEF PipeMoves, TablesType
<1>2. CASE Move(pipe[p], v)
  BY <1>2 DEF PipeMoves
<1> QED  BY <1>1, <1>2

LEMMA Rows == "free" \in Row /\ "live" \in Row /\ "gone" \in Row
  BY DEF Row

LEMMA BootMoves ==
  ASSUME TablesType, NEW s \in Servers, Boot(s) \/ Crash(s)
  PROVE  EnvMoves /\ PipeMoves
<1>1. CASE MakeEnv(s)
  <2>1. PipeMoves
    BY <1>1 DEF MakeEnv, PipeMoves
  <2>2. CASE env[DefaultEnv] = "free"
    BY <1>1, <2>1, <2>2, EnvMove, Defaults, Rows DEF MakeEnv, Move
  <2>3. CASE env[DefaultEnv] # "free"
    BY <1>1, <2>1, <2>3 DEF MakeEnv, EnvMoves
  <2> QED  BY <2>2, <2>3
<1>2. CASE MakePipe(s)
  <2>1. EnvMoves
    BY <1>2 DEF MakePipe, EnvMoves
  <2>2. CASE pipe[Default] = "free"
    BY <1>2, <2>1, <2>2, PipeMove, Defaults, Rows DEF MakePipe, Move
  <2>3. CASE pipe[Default] # "free"
    BY <1>2, <2>1, <2>3 DEF MakePipe, PipeMoves
  <2> QED  BY <2>2, <2>3
<1>3. CASE Start(s) \/ FindEnv(s) \/ FindPipe(s) \/ Crash(s)
  BY <1>3 DEF Start, FindEnv, FindPipe, Crash, EnvMoves, PipeMoves
<1> QED  BY <1>1, <1>2, <1>3 DEF Boot

LEMMA Entries ==
  ASSUME RequestsType, Pending, NEW r \in Requests
  PROVE  /\ pc[r] = "put_env" => Env(r) \in Envs
         /\ pc[r] = "put_pipe" => Place(r) \in Places
         /\ pc[r] = "act" =>
              /\ job[r].op \in {"add_environment", "delete_environment"}
                   => Env(r) \in Envs /\ <<Env(r), DefaultPipe>> \in Places
              /\ job[r].op \in {"add_pipeline", "delete_pipeline"}
                   => Place(r) \in Places
<1>1. job[r] \in JobType
  BY DEF RequestsType
<1>2. job[r].envs \in Seq(Envs) /\ job[r].places \in Seq(Places)
  BY <1>1 DEF JobType
<1>3. Fits(r)
  BY DEF Pending
<1>4. job[r].envs # <<>> => Env(r) \in Envs
  BY <1>2, HeadType DEF Env
<1>5. job[r].places # <<>> => Place(r) \in Places
  BY <1>2, HeadType DEF Place
<1>6. \A e \in Envs : <<e, DefaultPipe>> \in Places
  BY EnvAssumption DEF Places
<1> QED  BY <1>3, <1>4, <1>5, <1>6 DEF Fits

LEMMA ServeMoves ==
  ASSUME TablesType, RequestsType, Pending, NEW r \in Requests, Serve(r)
  PROVE  EnvMoves /\ PipeMoves
<1> USE Rows DEF Move
<1>1. CASE AddEnvironment(r)
  <2> DEFINE d == <<Env(r), DefaultPipe>>
  <2>1. Env(r) \in Envs /\ d \in Places
    BY <1>1, Entries DEF AddEnvironment
  <2>2. CASE env[Env(r)] = "free" /\ pipe[d] = "free"
    BY <1>1, <2>1, <2>2, EnvMove, PipeMove DEF AddEnvironment
  <2>3. CASE ~(env[Env(r)] = "free" /\ pipe[d] = "free")
    BY <1>1, <2>3 DEF AddEnvironment, EnvMoves, PipeMoves
  <2> QED  BY <2>2, <2>3
<1>2. CASE AddPipeline(r)
  <2> DEFINE v == IF pipe[Place(r)] = "free" THEN "live" ELSE pipe[Place(r)]
  <2>1. Place(r) \in Places /\ pipe' = [pipe EXCEPT ![Place(r)] = v] /\ env' = env
    BY <1>2, Entries DEF AddPipeline, TablesType
  <2>2. v \in Row
    BY <2>1 DEF TablesType
  <2> QED  BY <2>1, <2>2, PipeMove DEF EnvMoves
<1>3. CASE DeleteEnvironment(r)
  <2> DEFINE v == IF env[Env(r)] = "live" THEN "gone" ELSE env[Env(r)]
  <2>1. Env(r) \in Envs /\ env' = [env EXCEPT ![Env(r)] = v] /\ pipe' = pipe
    BY <1>3, Entries DEF DeleteEnvironment, TablesType
  <2>2. v \in Row
    BY <2>1 DEF TablesType
  <2> QED  BY <2>1, <2>2, EnvMove DEF PipeMoves
<1>4. CASE DeletePipeline(r)
  <2> DEFINE v == IF pipe[Place(r)] = "live" THEN "gone" ELSE pipe[Place(r)]
  <2>1. Place(r) \in Places /\ pipe' = [pipe EXCEPT ![Place(r)] = v] /\ env' = env
    BY <1>4, Entries DEF DeletePipeline, TablesType
  <2>2. v \in Row
    BY <2>1 DEF TablesType
  <2> QED  BY <2>1, <2>2, PipeMove DEF EnvMoves
<1>5. CASE PutEnv(r)
  <2>1. CASE env' = env
    BY <1>5, <2>1 DEF PutEnv, EnvMoves, PipeMoves
  <2>2. CASE env[Env(r)] = "free" /\ env' = [env EXCEPT ![Env(r)] = "live"]
    BY <1>5, <2>2, Entries, EnvMove DEF PutEnv, PipeMoves
  <2> QED  BY <1>5, <2>1, <2>2 DEF PutEnv
<1>6. CASE PutPipe(r)
  <2>1. CASE pipe' = pipe
    BY <1>6, <2>1 DEF PutPipe, EnvMoves, PipeMoves
  <2>2. CASE pipe[Place(r)] = "free"
    BY <1>6, <2>2, Entries, PipeMove DEF PutPipe, EnvMoves
  <2> QED  BY <1>6, <2>1, <2>2 DEF PutPipe
<1>7. CASE Begin(r) \/ Look(r) \/ GetEnv(r) \/ GetPipe(r) \/ Abandon(r)
  BY <1>7 DEF Begin, Look, GetEnv, GetPipe, Abandon, EnvMoves, PipeMoves
<1> QED  BY <1>1, <1>2, <1>3, <1>4, <1>5, <1>6, <1>7 DEF Serve

LEMMA MovesKeep ==
  ASSUME TablesType, EnvMoves, PipeMoves
  PROVE  /\ TablesType'
         /\ \A e \in Envs : /\ env[e] # "free" => env'[e] # "free"
                            /\ env[e] = "gone" => env'[e] = "gone"
         /\ \A p \in Places : /\ pipe[p] # "free" => pipe'[p] # "free"
                              /\ pipe[p] = "gone" => pipe'[p] = "gone"
<1>1. /\ env' \in [Envs -> Row]
      /\ \A e \in Envs : /\ env[e] # "free" => env'[e] # "free"
                         /\ env[e] = "gone" => env'[e] = "gone"
  BY DEF EnvMoves, Move, TablesType, Row
<1>2. /\ pipe' \in [Places -> Row]
      /\ \A p \in Places : /\ pipe[p] # "free" => pipe'[p] # "free"
                           /\ pipe[p] = "gone" => pipe'[p] = "gone"
  BY DEF PipeMoves, Move, TablesType, Row
<1> QED  BY <1>1, <1>2 DEF TablesType

------------------------------------------------------------------------------
(* The inductive invariant.                                                 *)

ServersType ==
    server \in [Servers -> {"down", "find_env", "make_env", "find_pipe",
                            "make_pipe", "up", "failed"}]

IInv == TablesType /\ ServersType /\ RequestsType /\ Pending /\ Started

LEMMA ServeKeeps ==
  ASSUME RequestsType, Pending, NEW r \in Requests, Serve(r)
  PROVE  RequestsType' /\ Pending'
<1>1. CASE End(r)
  BY <1>1, EndKeeps
<1>2. CASE Begin(r)
  <2>1. PICK j \in Jobs :
          /\ job' = [job EXCEPT ![r] = j]
          /\ Goto(r, IF j.op = "import" THEN "get_env" ELSE "look")
    BY <1>2 DEF Begin
  <2>2. RequestsType'
    BY <2>1, JobsFit DEF RequestsType, Goto
  <2>3. SUFFICES ASSUME NEW q \in Requests PROVE Fits(q)'
    BY <2>2 DEF Pending
  <2>4. CASE q = r
    <3>1. job'[q] = j /\ pc'[q] \in {"get_env", "look"}
      BY <2>1, <2>4 DEF Goto, RequestsType
    <3> QED  BY <3>1, JobsFit DEF Fits
  <2>5. CASE q # r
    <3>1. pc'[q] = pc[q] /\ job'[q] = job[q]
      BY <2>1, <2>5 DEF Goto, RequestsType
    <3> QED  BY <3>1 DEF Pending, Fits
  <2> QED  BY <2>4, <2>5
<1>3. CASE Look(r)
  BY <1>3, EndKeeps, GotoKeeps DEF Look
<1>4. CASE GetEnv(r)
  <2>1. CASE job[r].envs = <<>>
    BY <1>4, <2>1, GotoKeeps DEF GetEnv
  <2>2. CASE job[r].envs # <<>> /\ env[Env(r)] = "live"
    BY <1>4, <2>2, TailKeeps DEF GetEnv
  <2>3. CASE job[r].envs # <<>> /\ env[Env(r)] # "live"
    BY <1>4, <2>3, GotoKeeps DEF GetEnv
  <2> QED  BY <2>1, <2>2, <2>3
<1>5. CASE PutEnv(r)
  <2>1. job[r].envs # <<>>
    BY <1>5 DEF PutEnv, Pending, Fits
  <2>2. CASE job' = [job EXCEPT ![r].envs = Tail(@)] /\ Goto(r, "get_env")
    BY <2>1, <2>2, TailKeeps
  <2>3. CASE UNCHANGED job /\ Goto(r, "get_pipe")
    BY <2>3, GotoKeeps
  <2> QED  BY <1>5, <2>2, <2>3 DEF PutEnv
<1>6. CASE GetPipe(r)
  <2>1. CASE job[r].places # <<>> /\ pipe[Place(r)] = "live"
    BY <1>6, <2>1, TailKeeps DEF GetPipe
  <2>2. CASE job[r].places # <<>> /\ pipe[Place(r)] # "live"
    BY <1>6, <2>2, GotoKeeps DEF GetPipe
  <2> QED  BY <1>6, <1>1, <2>1, <2>2 DEF GetPipe
<1>7. CASE PutPipe(r)
  <2>1. job[r].places # <<>>
    BY <1>7 DEF PutPipe, Pending, Fits
  <2>2. CASE job' = [job EXCEPT ![r].places = Tail(@)] /\ Goto(r, "get_pipe")
    BY <2>1, <2>2, TailKeeps
  <2> QED  BY <1>7, <1>1, <2>2 DEF PutPipe
<1>8. CASE \/ AddEnvironment(r) \/ AddPipeline(r) \/ DeleteEnvironment(r)
           \/ DeletePipeline(r) \/ Abandon(r)
  BY <1>8, <1>1 DEF AddEnvironment, AddPipeline, DeleteEnvironment,
                    DeletePipeline, Abandon
<1> QED  BY <1>2, <1>3, <1>4, <1>5, <1>6, <1>7, <1>8 DEF Serve

LEMMA BootKeeps ==
  ASSUME TablesType, RequestsType, Pending, ServersType, Started,
         NEW s \in Servers, Boot(s) \/ Crash(s)
  PROVE  RequestsType' /\ Pending' /\ ServersType' /\ Started'
<1>1. NoJob \in JobType
  BY DEF NoJob, JobType, Ops
<1>2. RequestsType' /\ Pending'
  <2>1. CASE UNCHANGED <<pc, job>>
    BY <2>1 DEF RequestsType, Pending, Fits
  <2>2. CASE /\ pc' = [r \in Requests |-> "idle"]
             /\ job' = [r \in Requests |-> NoJob]
    BY <1>1, <2>2 DEF RequestsType, Pending, Fits
  <2> QED  BY <2>1, <2>2 DEF Boot, Start, FindEnv, MakeEnv, FindPipe, MakePipe, Crash
<1>3. ServersType'
  BY DEF ServersType, Boot, Start, FindEnv, MakeEnv, FindPipe, MakePipe, Crash, Reach
<1>4. Started'
  <2>1. /\ env[DefaultEnv] # "free" => env'[DefaultEnv] # "free"
        /\ pipe[Default] # "free" => pipe'[Default] # "free"
    BY BootMoves, MovesKeep, Defaults
  <2>2. SUFFICES ASSUME NEW t \in Servers
                 PROVE  /\ server'[t] \in {"find_pipe", "make_pipe", "up"}
                             => env'[DefaultEnv] # "free"
                        /\ server'[t] = "up" => pipe'[Default] # "free"
    BY DEF Started
  <2>3. CASE t # s
    <3>1. server'[t] = server[t]
      BY <2>3 DEF Boot, Start, FindEnv, MakeEnv, FindPipe, MakePipe, Crash, Reach,
                  ServersType
    <3> QED  BY <2>1, <3>1 DEF Started
  <2>4. CASE t = s
    <3> USE Defaults DEF ServersType, TablesType, Started, Reach
    <3>1. CASE FindEnv(s) \/ MakeEnv(s)
      BY <2>4, <3>1 DEF FindEnv, MakeEnv
    <3>2. CASE FindPipe(s) \/ MakePipe(s)
      BY <2>4, <3>2 DEF FindPipe, MakePipe
    <3>3. CASE Start(s) \/ Crash(s)
      BY <2>4, <3>3 DEF Start, Crash
    <3> QED  BY <3>1, <3>2, <3>3 DEF Boot
  <2> QED  BY <2>3, <2>4
<1> QED  BY <1>2, <1>3, <1>4

LEMMA Inductive ==
  ASSUME IInv, [Next]_vars
  PROVE  IInv'
<1>1. CASE \E s \in Servers : Boot(s) \/ Crash(s)
  BY <1>1, BootKeeps, BootMoves, MovesKeep DEF IInv
<1>2. CASE \E r \in Requests : Serve(r)
  <2> PICK r \in Requests : Serve(r)
    BY <1>2
  <2>1. RequestsType' /\ Pending'
    BY ServeKeeps DEF IInv
  <2>2. /\ TablesType'
        /\ env[DefaultEnv] # "free" => env'[DefaultEnv] # "free"
        /\ pipe[Default] # "free" => pipe'[Default] # "free"
    BY ServeMoves, MovesKeep, Defaults DEF IInv
  <2>3. server' = server
    BY DEF Serve, Begin, Look, AddEnvironment, AddPipeline, DeleteEnvironment,
           DeletePipeline, GetEnv, PutEnv, GetPipe, PutPipe, Abandon
  <2> QED  BY <2>1, <2>2, <2>3 DEF IInv, ServersType, Started
<1>3. CASE UNCHANGED vars
  BY <1>3 DEF vars, IInv, TablesType, ServersType, RequestsType, Pending, Fits, Started
<1> QED  BY <1>1, <1>2, <1>3 DEF Next

LEMMA Initially == Init => IInv
<1>1. NoJob \in JobType
  BY DEF NoJob, JobType, Ops
<1> QED  BY <1>1 DEF Init, IInv, TablesType, ServersType, RequestsType, Pending,
                     Fits, Started, Row

LEMMA Invariant == Spec => []IInv
  BY Initially, Inductive, PTL DEF Spec

------------------------------------------------------------------------------
\* The tables, the starts and the requests keep their types (EnvRegistry).
THEOREM TypeCorrect == Spec => []TypeOK
<1>1. IInv => TypeOK
  BY DEF IInv, TypeOK, TablesType, ServersType, RequestsType
<1> QED  BY <1>1, Invariant, PTL

\* A replica that serves has found or made the default environment and
\* pipeline, whatever crashes and races came before (EnsureSystemDefaults).
THEOREM DefaultsServedTheorem == Spec => []DefaultsServed
<1>1. IInv => DefaultsServed
  BY DEF IInv, Started, DefaultsServed
<1> QED  BY <1>1, Invariant, PTL

\* No step turns a deleted key into a live one (soft delete, unique indexes).
THEOREM DeletionFinalTheorem == Spec => DeletionFinal
<1> DEFINE Final == /\ \A e \in Envs : env[e] = "gone" => env'[e] = "gone"
                    /\ \A p \in Places : pipe[p] = "gone" => pipe'[p] = "gone"
<1>1. IInv /\ [Next]_vars => [Final]_vars
  <2> SUFFICES ASSUME IInv, Next PROVE Final
    OBVIOUS
  <2>1. EnvMoves /\ PipeMoves
    BY BootMoves, ServeMoves DEF IInv, Next
  <2> QED  BY <2>1, MovesKeep DEF IInv
<1> QED  BY <1>1, Invariant, PTL DEF Spec, DeletionFinal

\* AddEnvironment creates the environment with its default pipeline or not at
\* all: an environment without one comes from a start or an import.
THEOREM NewEnvironmentWholeTheorem == Spec => NewEnvironmentWhole
<1> DEFINE Whole(e) ==
      env[e] = "free" /\ env'[e] # "free" =>
        \/ pipe'[<<e, DefaultPipe>>] = "live"
        \/ e = DefaultEnv /\ \E s \in Servers : server[s] = "make_env"
        \/ \E r \in Requests : pc[r] = "put_env" /\ Env(r) = e
<1>1. ASSUME IInv, Next, NEW e \in Envs, env[e] = "free", env'[e] # "free"
      PROVE  \/ pipe'[<<e, DefaultPipe>>] = "live"
             \/ e = DefaultEnv /\ \E s \in Servers : server[s] = "make_env"
             \/ \E r \in Requests : pc[r] = "put_env" /\ Env(r) = e
  <2>1. CASE \E s \in Servers : Boot(s) \/ Crash(s)
    BY <1>1, <2>1 DEF Boot, Start, FindEnv, MakeEnv, FindPipe, MakePipe, Crash,
                      IInv, TablesType
  <2>2. ASSUME NEW r \in Requests, Serve(r)
        PROVE  \/ pipe'[<<e, DefaultPipe>>] = "live"
               \/ pc[r] = "put_env" /\ Env(r) = e
    <3>1. CASE AddEnvironment(r)
      <4>1. <<Env(r), DefaultPipe>> \in Places
        BY <1>1, <3>1, Entries DEF AddEnvironment, IInv
      <4> QED  BY <1>1, <3>1, <4>1 DEF AddEnvironment, IInv, TablesType
    <3>2. CASE PutEnv(r)
      BY <1>1, <3>2 DEF PutEnv, IInv, TablesType
    <3>3. CASE DeleteEnvironment(r)
      BY <1>1, <3>3 DEF DeleteEnvironment, IInv, TablesType
    <3>4. CASE env' = env
      BY <1>1, <3>4
    <3> QED  BY <2>2, <3>1, <3>2, <3>3, <3>4
             DEF Serve, Begin, Look, AddPipeline, DeletePipeline, GetEnv, GetPipe,
                 PutPipe, Abandon
  <2> QED  BY <1>1, <2>1, <2>2 DEF Next
<1>2. IInv /\ [Next]_vars => [\A e \in Envs : Whole(e)]_vars
  BY <1>1
<1> QED  BY <1>2, Invariant, PTL DEF Spec, NewEnvironmentWhole

------------------------------------------------------------------------------
(* Where StartSucceeds holds: it fails only for replicas that race, or after *)
(* a default was deleted.                                                    *)

\* No request deletes the default environment or the default pipeline.
DefaultsSpared ==
    \A j \in Jobs :
      /\ j.op = "delete_environment" => Head(j.envs) # DefaultEnv
      /\ j.op = "delete_pipeline" => Head(j.places) # Default

\* What a request that runs asks for is one of the jobs, or the rest of an
\* import, and some replica serves it.
LoneRequest(r) ==
    /\ job[r].op # "import" => job[r] \in Jobs
    /\ pc[r] \in {"get_env", "put_env", "get_pipe", "put_pipe"} => job[r].op = "import"
    /\ pc[r] # "idle" => \E s \in Servers : server[s] = "up"

LoneRequests == \A r \in Requests : LoneRequest(r)

\* A lone replica that starts has no requests beside it, so that what it has
\* found missing is still missing when it creates it.
LoneStarts ==
    /\ LoneRequests
    /\ env[DefaultEnv] # "gone" /\ pipe[Default] # "gone"
    /\ \A s \in Servers :
         /\ server[s] = "make_env" => env[DefaultEnv] = "free"
         /\ server[s] = "make_pipe" => pipe[Default] = "free"
         /\ server[s] # "failed"

LEMMA EndKeepsLone ==
  ASSUME RequestsType, LoneRequests, NEW r \in Requests, End(r), UNCHANGED server
  PROVE  LoneRequests'
<1> SUFFICES ASSUME NEW q \in Requests PROVE LoneRequest(q)'
  BY DEF LoneRequests
<1>1. pc' = [pc EXCEPT ![r] = "idle"] /\ job' = [job EXCEPT ![r] = NoJob]
  BY DEF End, Goto
<1>2. CASE q = r
  BY <1>1, <1>2 DEF RequestsType, LoneRequest, NoJob
<1>3. CASE q # r
  BY <1>1, <1>3 DEF RequestsType, LoneRequests, LoneRequest
<1> QED  BY <1>2, <1>3

LEMMA ServeKeepsLone ==
  ASSUME DefaultsSpared, IInv, LoneRequests, NEW r \in Requests, Serve(r)
  PROVE  /\ LoneRequests'
         /\ server' = server /\ \E s \in Servers : server[s] = "up"
         /\ env[DefaultEnv] # "gone" => env'[DefaultEnv] # "gone"
         /\ pipe[Default] # "gone" => pipe'[Default] # "gone"
<1> USE DEF IInv
<1>1. server' = server
  BY DEF Serve, Begin, Look, AddEnvironment, AddPipeline, DeleteEnvironment,
         DeletePipeline, GetEnv, PutEnv, GetPipe, PutPipe, Abandon
<1>2. \E s \in Servers : server[s] = "up"
  <2>1. CASE pc[r] = "idle"
    BY <2>1 DEF Serve, Begin, Look, AddEnvironment, AddPipeline, DeleteEnvironment,
           DeletePipeline, GetEnv, PutEnv, GetPipe, PutPipe, Abandon
  <2> QED  BY <2>1 DEF LoneRequests, LoneRequest
<1>3. LoneRequests'
  <2>1. CASE Begin(r)
    <3>1. PICK j \in Jobs : /\ job' = [job EXCEPT ![r] = j]
                            /\ Goto(r, IF j.op = "import" THEN "get_env" ELSE "look")
      BY <2>1 DEF Begin
    <3>2. ASSUME NEW q \in Requests PROVE LoneRequest(q)'
      <4>1. CASE q = r
        BY <1>1, <1>2, <3>1, <4>1 DEF LoneRequest, RequestsType, Goto
      <4>2. CASE q # r
        BY <1>1, <3>1, <4>2 DEF LoneRequest, LoneRequests, RequestsType, Goto
      <4> QED  BY <4>1, <4>2
    <3> QED  BY <3>2 DEF LoneRequests
  <2>2. CASE End(r)
    BY <1>1, <2>2, EndKeepsLone
  <2>3. CASE /\ \E label \in {"look", "act", "get_env", "put_env", "get_pipe", "put_pipe"} :
                  /\ pc' = [pc EXCEPT ![r] = label]
                  /\ label \in {"look", "act"} \/ job[r].op = "import"
             /\ pc[r] # "idle"
             /\ \/ UNCHANGED job
                \/ job[r].op = "import" /\
                     \E j \in JobType : j.op = "import" /\ job' = [job EXCEPT ![r] = j]
    <3> SUFFICES ASSUME NEW q \in Requests PROVE LoneRequest(q)'
      BY DEF LoneRequests
    <3>1. CASE q = r
      BY <1>1, <1>2, <2>3, <3>1 DEF LoneRequest, LoneRequests, RequestsType
    <3>2. CASE q # r
      BY <1>1, <2>3, <3>2 DEF LoneRequest, LoneRequests, RequestsType
    <3> QED  BY <3>1, <3>2
  <2>4. ASSUME pc[r] \in {"get_env", "put_env", "get_pipe", "put_pipe"}
        PROVE  /\ job[r].op = "import"
               /\ job[r].envs # <<>> =>
                    \E j \in JobType : j.op = "import"
                      /\ [job EXCEPT ![r].envs = Tail(@)] = [job EXCEPT ![r] = j]
               /\ job[r].places # <<>> =>
                    \E j \in JobType : j.op = "import"
                      /\ [job EXCEPT ![r].places = Tail(@)] = [job EXCEPT ![r] = j]
    <3>1. job[r].op = "import"
      BY <2>4 DEF LoneRequests, LoneRequest
    <3>2. job[r] \in JobType
      BY DEF RequestsType
    <3>3. ASSUME job[r].envs # <<>>
          PROVE  LET j == [job[r] EXCEPT !.envs = Tail(@)]
                 IN  j \in JobType /\ j.op = "import"
      <4>1. Tail(job[r].envs) \in Seq(Envs)
        BY <3>2, <3>3, HeadType DEF JobType
      <4> QED  BY <3>1, <3>2, <4>1 DEF JobType
    <3>4. ASSUME job[r].places # <<>>
          PROVE  LET j == [job[r] EXCEPT !.places = Tail(@)]
                 IN  j \in JobType /\ j.op = "import"
      <4>1. Tail(job[r].places) \in Seq(Places)
        BY <3>2, <3>4, HeadType DEF JobType
      <4> QED  BY <3>1, <3>2, <4>1 DEF JobType
    <3> QED  BY <3>1, <3>3, <3>4
  <2>5. CASE GetEnv(r) \/ PutEnv(r) \/ GetPipe(r) \/ PutPipe(r)
    <3>1. pc = [pc EXCEPT ![r] = pc[r]]
      BY DEF RequestsType
    <3>2. PICK label \in {"get_env", "put_env", "get_pipe", "put_pipe", "idle"} :
             /\ pc' = [pc EXCEPT ![r] = label]
             /\ label = "idle" => End(r)
      BY <2>5, <3>1 DEF GetEnv, PutEnv, GetPipe, PutPipe, Goto, End
    <3>3. \/ End(r)
          \/ UNCHANGED job
          \/ job[r].envs # <<>> /\ job' = [job EXCEPT ![r].envs = Tail(@)]
          \/ job[r].places # <<>> /\ job' = [job EXCEPT ![r].places = Tail(@)]
      BY <2>5 DEF GetEnv, PutEnv, GetPipe, PutPipe, Pending, Fits
    <3>4. pc[r] \in {"get_env", "put_env", "get_pipe", "put_pipe"}
      BY <2>5 DEF GetEnv, PutEnv, GetPipe, PutPipe
    <3> QED  BY <2>2, <2>3, <2>4, <3>2, <3>3, <3>4
  <2>6. CASE Look(r)
    BY <2>2, <2>3, <2>6 DEF Look, Goto
  <2> QED  BY <2>1, <2>2, <2>5, <2>6 DEF Serve, AddEnvironment, AddPipeline,
              DeleteEnvironment, DeletePipeline, Abandon
<1>4. CASE DeleteEnvironment(r)
  <2>1. job[r] \in Jobs /\ Env(r) # DefaultEnv
    BY <1>4 DEF DeleteEnvironment, LoneRequests, LoneRequest, DefaultsSpared, Env
  <2>2. env'[DefaultEnv] = env[DefaultEnv] /\ pipe' = pipe
    BY <1>4, <2>1, Defaults DEF DeleteEnvironment, TablesType
  <2> QED  BY <1>1, <1>2, <1>3, <2>2
<1>5. CASE DeletePipeline(r)
  <2>1. job[r] \in Jobs /\ Place(r) # Default
    BY <1>5 DEF DeletePipeline, LoneRequests, LoneRequest, DefaultsSpared, Place
  <2>2. pipe'[Default] = pipe[Default] /\ env' = env
    BY <1>5, <2>1, Defaults DEF DeletePipeline, TablesType
  <2> QED  BY <1>1, <1>2, <1>3, <2>2
<1>6. CASE ~DeleteEnvironment(r) /\ ~DeletePipeline(r)
  <2>1. \A e \in Envs : env[e] # "gone" => env'[e] # "gone"
    BY <1>6 DEF Serve, Begin, Look, AddEnvironment, AddPipeline, GetEnv, PutEnv,
                GetPipe, PutPipe, Abandon, TablesType
  <2>2. \A p \in Places : pipe[p] # "gone" => pipe'[p] # "gone"
    BY <1>6 DEF Serve, Begin, Look, AddEnvironment, AddPipeline, GetEnv, PutEnv,
                GetPipe, PutPipe, Abandon, TablesType
  <2> QED  BY <1>1, <1>2, <1>3, <2>1, <2>2, Defaults
<1> QED  BY <1>4, <1>5, <1>6

LEMMA BootKeepsLone ==
  ASSUME IInv, LoneStarts, NEW s \in Servers, Servers = {s}, Boot(s) \/ Crash(s)
  PROVE  LoneStarts'
<1> USE Defaults DEF IInv, TablesType, ServersType, LoneStarts, Reach
<1>1. LoneRequests'
  <2>1. CASE UNCHANGED <<pc, job>> /\ (server[s] = "up" => server'[s] = "up")
    BY <2>1 DEF LoneRequests, LoneRequest
  <2>2. CASE /\ pc' = [r \in Requests |-> "idle"]
             /\ job' = [r \in Requests |-> NoJob]
    BY <2>2 DEF LoneRequests, LoneRequest, NoJob
  <2>3. CASE Crash(s)
    BY <2>2, <2>3 DEF Crash
  <2> QED  BY <2>1, <2>3 DEF Boot, Start, FindEnv, MakeEnv, FindPipe, MakePipe
<1>2. CASE FindEnv(s) \/ MakeEnv(s)
  BY <1>1, <1>2 DEF FindEnv, MakeEnv, Row
<1>3. CASE FindPipe(s) \/ MakePipe(s)
  BY <1>1, <1>3 DEF FindPipe, MakePipe, Row
<1>4. CASE Start(s) \/ Crash(s)
  BY <1>1, <1>4 DEF Start, Crash
<1> QED  BY <1>2, <1>3, <1>4 DEF Boot

\* A lone replica always starts unless a request may delete a default
\* (EnsureSystemDefaults): deletion, which burns the key, is the only cause of
\* the failure the run env_restart shows.
THEOREM StartSucceedsTheorem ==
  ASSUME NEW s0 \in Servers, Servers = {s0}, DefaultsSpared
  PROVE  Spec => []StartSucceeds
<1>1. Init => LoneStarts
  BY Defaults DEF Init, LoneStarts, LoneRequests, LoneRequest, NoJob
<1>2. ASSUME IInv, LoneStarts, [Next]_vars PROVE LoneStarts'
  <2>1. CASE \E s \in Servers : Boot(s) \/ Crash(s)
    BY <1>2, <2>1, BootKeepsLone
  <2>2. ASSUME NEW r \in Requests, Serve(r) PROVE LoneStarts'
    <3>1. LoneRequests
      BY <1>2 DEF LoneStarts
    <3>2. /\ LoneRequests' /\ server' = server /\ server[s0] = "up"
          /\ env'[DefaultEnv] # "gone" /\ pipe'[Default] # "gone"
      BY <1>2, <2>2, <3>1, ServeKeepsLone DEF LoneStarts
    <3> QED  BY <3>2 DEF LoneStarts
  <2>3. CASE UNCHANGED vars
    BY <1>2, <2>3 DEF vars, LoneStarts, LoneRequests, LoneRequest
  <2> QED  BY <1>2, <2>1, <2>2, <2>3 DEF Next
<1>3. LoneStarts => StartSucceeds
  BY DEF LoneStarts, StartSucceeds
<1> QED  BY <1>1, <1>2, <1>3, Invariant, PTL DEF Spec


------------------------------------------------------------------------------
\* A start that has failed, in a race or not, leaves a default environment
\* behind: its repetition finds it and goes past the first insertion, unless a
\* default was deleted (the safety behind FailedStartRecovers, for any number
\* of racing replicas and any requests).
FailureLeavesDefault ==
    \A s \in Servers : server[s] = "failed" => env[DefaultEnv] = "live" \/ Burnt

THEOREM FailureLeavesDefaultTheorem == Spec => []FailureLeavesDefault
<1> DEFINE Left == \A s \in Servers : server[s] = "failed" => env[DefaultEnv] # "free"
<1>1. Init => Left
  BY DEF Init
<1>2. ASSUME IInv, Left, [Next]_vars PROVE Left'
  <2> USE <1>2 DEF IInv
  <2>1. CASE Next
    <3>1. env[DefaultEnv] # "free" => env'[DefaultEnv] # "free"
      BY <2>1, BootMoves, ServeMoves, MovesKeep, Defaults DEF Next
    <3>2. ASSUME NEW s \in Servers, Boot(s) \/ Crash(s) PROVE Left'
      <4> SUFFICES ASSUME NEW t \in Servers, server'[t] = "failed"
                   PROVE  env'[DefaultEnv] # "free"
        OBVIOUS
      <4>1. CASE server[t] = "failed"
        BY <3>1, <4>1
      <4>2. CASE server[t] # "failed"
        <5>1. server[t] \in {"make_env", "make_pipe"}
              /\ (server[t] = "make_env" => env[DefaultEnv] # "free")
          BY <3>2, <4>2 DEF Boot, Start, FindEnv, MakeEnv, FindPipe, MakePipe,
             Crash, Reach, ServersType
        <5> QED  BY <3>1, <5>1 DEF Started
      <4> QED  BY <4>1, <4>2
    <3>3. ASSUME NEW r \in Requests, Serve(r) PROVE server' = server
      BY <3>3 DEF Serve, Begin, Look, AddEnvironment, AddPipeline, DeleteEnvironment,
         DeletePipeline, GetEnv, PutEnv, GetPipe, PutPipe, Abandon
    <3> QED  BY <2>1, <3>1, <3>2, <3>3 DEF Next
  <2>2. CASE UNCHANGED vars
    BY <2>2 DEF vars
  <2> QED  BY <2>1, <2>2
<1>3. IInv /\ Left => FailureLeavesDefault
  BY Defaults DEF IInv, TablesType, Row, FailureLeavesDefault, Burnt
<1> QED  BY <1>1, <1>2, <1>3, Invariant, PTL DEF Spec
==============================================================================
