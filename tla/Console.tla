------------------------------ MODULE Console ------------------------------
(***************************************************************************)
(* The columns of environments and pipelines as the console edits them     *)
(* (biz/service/environment_service.go, pipeline_service.go and their DAOs)*)
(* while clients read them without any lock (GetRuntimeConfig and          *)
(* GetRuntimeOverview in biz/service/runtime_service.go): one action per   *)
(* SQL statement or transaction, of several requests at a time.            *)
(*                                                                         *)
(* Deletion is soft: a deleted row keeps its key under the unique index    *)
(* and is invisible to every query.  One column, the name, stands for name,*)
(* description and sort order, which are all written alike.  A creation or *)
(* an update by an import runs the same two statements.                    *)
(***************************************************************************)
EXTENDS Naturals, FiniteSets

CONSTANTS
    Writers,       \* console requests that write
    Readers,       \* client requests
    Envs, Pipes,   \* environment and pipeline keys
    DefaultPipe,   \* the pipeline every new environment gets
    Names,         \* names a request may give
    Blank,         \* the zero value of the column: no name given
    DefaultName,   \* the name of the default pipeline
    Jobs,          \* what the writers may ask for
    Nobody         \* not a request, an environment or a place

Places == Envs \X Pipes
Given == [name : Names \cup {Blank}, active : BOOLEAN]
Entry == [state : {"free", "live", "gone"},
          name : Names \cup {Blank, DefaultName}, active : BOOLEAN]
Free == [state |-> "free", name |-> Blank, active |-> TRUE]

\* A request about an environment (the first of its place) or a pipeline.
Job == [op : {"add", "update", "delete"}, kind : {"env", "pipe"},
        place : Places, given : Given]

ASSUME ConsoleAssumption ==
    /\ Jobs \subseteq Job
    /\ DefaultPipe \in Pipes
    /\ Blank \notin Names /\ DefaultName # Blank
    /\ Nobody \notin Job \cup Places
    /\ Writers \cap Readers = {} /\ Envs \cap Places = {}

VARIABLES
    env,       \* the environment table, by key
    pipe,      \* the pipeline table, by environment and pipeline key
    job,       \* what each writer that has passed its check goes on to do
    pc,        \* the statement each reader is about to run
    place,     \* the environment and pipeline each reader asks for
    todo,      \* the environments an overview has still to look into
    shown,     \* what a reader has found: environments and places
    before,    \* history: what was live when the reader began, and still is
    during     \* history: what was live at any time since the reader began

vars == <<env, pipe, job, pc, place, todo, shown, before, during>>

Live(E, P) ==
    {e \in Envs : E[e].state = "live"} \cup {p \in Places : P[p].state = "live"}

Reading == {"env", "pipe", "list", "envs", "pipes"}
Answered == {"served", "refused", "overview"}

TypeOK ==
    /\ env \in [Envs -> Entry]
    /\ pipe \in [Places -> Entry]
    /\ job \in [Writers -> Jobs \cup {Nobody}]
    /\ pc \in [Readers -> {"idle"} \cup Reading \cup Answered]
    /\ place \in [Readers -> Places \cup {Nobody}]
    /\ \A r \in Readers : pc[r] \in {"env", "pipe", "list", "served", "refused"}
                            => place[r] \in Places
    /\ todo \in [Readers -> SUBSET Envs]
    /\ shown \in [Readers -> SUBSET (Envs \cup Places)]
    /\ before \in [Readers -> SUBSET (Envs \cup Places)]
    /\ during \in [Readers -> SUBSET (Envs \cup Places)]

Init ==
    /\ env = [e \in Envs |-> Free]
    /\ pipe = [p \in Places |-> Free]
    /\ job = [w \in Writers |-> Nobody]
    /\ pc = [r \in Readers |-> "idle"]
    /\ place = [r \in Readers |-> Nobody]
    /\ todo = [r \in Readers |-> {}]
    /\ shown = [r \in Readers |-> {}]
    /\ before = [r \in Readers |-> {}]
    /\ during = [r \in Readers |-> {}]

-----------------------------------------------------------------------------
(* Writers.                                                                *)

\* ExistsByKey of the creations, GetByKey of updates and deletions.
Passes(j) ==
    LET here == IF j.kind = "env" THEN env[j.place[1]].state = "live"
                                  ELSE pipe[j.place].state = "live"
    IN  here <=> j.op # "add"

Check(w) ==
    /\ job[w] = Nobody
    /\ \E j \in Jobs : Passes(j) /\ job' = [job EXCEPT ![w] = j]
    /\ UNCHANGED <<env, pipe, pc, place, todo, shown, before, during>>

\* Mutant of Created: the flag is written as it was given.
CreatedAsGiven(g) == [state |-> "live", name |-> g.name, active |-> g.active]

\* Create with "default:true": GORM replaces the zero value FALSE by TRUE.
Created(g) == [state |-> "live", name |-> g.name, active |-> TRUE]

\* Mutant of Updated: zero values are written, as Select("*") would.
UpdatedFully(x, g) == [x EXCEPT !.name = g.name, !.active = g.active]

\* Updates with a struct leaves out the columns that have their zero value.
Updated(x, g) ==
    [x EXCEPT !.name = IF g.name = Blank THEN @ ELSE g.name,
              !.active = @ \/ g.active]

\* Mutant of Written: updates find deleted rows too.
WrittenUnscoped(x, op, g) ==
    IF op = "add" /\ x.state = "free" THEN Created(g)
    ELSE IF op = "update" /\ x.state # "free"
         THEN [Updated(x, g) EXCEPT !.state = "live"]
    ELSE IF op = "delete" /\ x.state = "live" THEN [x EXCEPT !.state = "gone"]
    ELSE x

\* The statement on one row: an insertion fails when the key is taken, also by
\* a deleted row; updates and deletions find only live rows and do not tell.
Written(x, op, g) ==
    IF op = "add" /\ x.state = "free" THEN Created(g)
    ELSE IF op = "update" /\ x.state = "live" THEN Updated(x, g)
    ELSE IF op = "delete" /\ x.state = "live" THEN [x EXCEPT !.state = "gone"]
    ELSE x

Observe ==
    LET now == Live(env', pipe') IN
    /\ before' = [r \in Readers |-> IF pc[r] \in Reading
                                    THEN before[r] \cap now ELSE before[r]]
    /\ during' = [r \in Readers |-> IF pc[r] \in Reading
                                    THEN during[r] \cup now ELSE during[r]]

\* AddEnvironment's transaction inserts the default pipeline too, or nothing.
AddEnvironment(w) ==
    LET j == job[w]
        d == <<j.place[1], DefaultPipe>>
    IN
    /\ j # Nobody /\ j.kind = "env" /\ j.op = "add"
    /\ IF env[j.place[1]].state = "free" /\ pipe[d].state = "free"
       THEN /\ env' = [env EXCEPT ![j.place[1]] = Created(j.given)]
            /\ pipe' = [pipe EXCEPT ![d] =
                          Created([name |-> DefaultName, active |-> TRUE])]
       ELSE UNCHANGED <<env, pipe>>
    /\ job' = [job EXCEPT ![w] = Nobody]
    /\ Observe
    /\ UNCHANGED <<pc, place, todo, shown>>

\* UpdateEnvironment and DeleteEnvironment: pipelines and configurations of a
\* deleted environment stay.
EditEnvironment(w) ==
    LET j == job[w] IN
    /\ j # Nobody /\ j.kind = "env" /\ j.op # "add"
    /\ env' = [env EXCEPT ![j.place[1]] = Written(@, j.op, j.given)]
    /\ job' = [job EXCEPT ![w] = Nobody]
    /\ UNCHANGED pipe /\ Observe
    /\ UNCHANGED <<pc, place, todo, shown>>

\* AddPipeline, UpdatePipeline and DeletePipeline: the environment need not
\* exist, and the configurations of a deleted pipeline stay.
EditPipeline(w) ==
    LET j == job[w] IN
    /\ j # Nobody /\ j.kind = "pipe"
    /\ pipe' = [pipe EXCEPT ![j.place] = Written(@, j.op, j.given)]
    /\ job' = [job EXCEPT ![w] = Nobody]
    /\ UNCHANGED env /\ Observe
    /\ UNCHANGED <<pc, place, todo, shown>>

-----------------------------------------------------------------------------
(* Readers.                                                                *)

Goto(r, label) == pc' = [pc EXCEPT ![r] = label]

Begin(r, label, p) ==
    /\ pc[r] \in {"idle"} \cup Answered
    /\ Goto(r, label)
    /\ place' = [place EXCEPT ![r] = p]
    /\ todo' = [todo EXCEPT ![r] = {}] /\ shown' = [shown EXCEPT ![r] = {}]
    /\ before' = [before EXCEPT ![r] = Live(env, pipe)]
    /\ during' = [during EXCEPT ![r] = Live(env, pipe)]
    /\ UNCHANGED <<env, pipe, job>>

\* Mutant of GetRuntimeConfig: missing headers are not refused.
GetRuntimeConfigUnchecked(r) == \E p \in Places \cup {Nobody} : Begin(r, "env", p)

GetRuntimeConfig(r) == \E p \in Places : Begin(r, "env", p)
GetRuntimeOverview(r) == Begin(r, "envs", Nobody)

Find(r, thing, found, label) ==
    /\ \/ found /\ Goto(r, label) /\ shown' = [shown EXCEPT ![r] = @ \cup {thing}]
       \/ ~found /\ Goto(r, "refused") /\ UNCHANGED shown
    /\ UNCHANGED <<env, pipe, job, place, todo, before, during>>

FindEnvironment(r) ==
    /\ pc[r] = "env"
    /\ Find(r, place[r][1], env[place[r][1]].state = "live", "pipe")

\* Mutant of FindPipeline: deleted pipelines are found too.
FindPipelineUnscoped(r) ==
    /\ pc[r] = "pipe"
    /\ Find(r, place[r], pipe[place[r]].state # "free", "list")

FindPipeline(r) ==
    /\ pc[r] = "pipe"
    /\ Find(r, place[r], pipe[place[r]].state = "live", "list")

\* ListConfigs of the place: what it returns is the subject of ConfigCache.
ServeConfigs(r) ==
    /\ pc[r] = "list"
    /\ Goto(r, "served")
    /\ UNCHANGED <<env, pipe, job, place, todo, shown, before, during>>

\* List with is_active = true.
Visible(x) == x.state = "live" /\ x.active

ListEnvironments(r) ==
    /\ pc[r] = "envs"
    /\ todo' = [todo EXCEPT ![r] = {e \in Envs : Visible(env[e])}]
    /\ Goto(r, "pipes")
    /\ UNCHANGED <<env, pipe, job, place, shown, before, during>>

\* The pipelines of the next environment, which may be gone by now.
ListPipelines(r) ==
    /\ pc[r] = "pipes"
    /\ \E e \in todo[r] :
         /\ todo' = [todo EXCEPT ![r] = @ \ {e}]
         /\ shown' = [shown EXCEPT ![r] = @ \cup {e} \cup
                        {p \in Places : p[1] = e /\ Visible(pipe[p])}]
    /\ UNCHANGED <<env, pipe, job, pc, place, before, during>>

SendOverview(r) ==
    /\ pc[r] = "pipes" /\ todo[r] = {}
    /\ Goto(r, "overview")
    /\ UNCHANGED <<env, pipe, job, place, todo, shown, before, during>>

Write(w) ==
    \/ Check(w) \/ AddEnvironment(w) \/ EditEnvironment(w)
    \/ EditPipeline(w)

Read(r) ==
    \/ GetRuntimeConfig(r) \/ FindEnvironment(r) \/ FindPipeline(r)
    \/ ServeConfigs(r) \/ GetRuntimeOverview(r) \/ ListEnvironments(r)
    \/ ListPipelines(r) \/ SendOverview(r)

Next == (\E w \in Writers : Write(w)) \/ (\E r \in Readers : Read(r))

Spec == Init /\ [][Next]_vars

-----------------------------------------------------------------------------
\* Deleting an environment leaves its pipelines and configurations in place,
\* and AddConfig creates configurations where neither exists; yet a client is
\* served only an environment and a pipeline that were live while it asked,
\* and is refused only if one of them was missing at some moment.
OrphansNotServed ==
    \A r \in Readers :
      /\ pc[r] = "served" => {place[r][1], place[r]} \subseteq during[r]
      /\ pc[r] = "refused" => ~({place[r][1], place[r]} \subseteq before[r])

\* The overview is put together from several reads: it shows everything that
\* was live all along, pipelines under their environment, and nothing that was
\* not live at some moment.  The filter on is_active hides nothing.
OverviewExact ==
    \A r \in Readers :
      pc[r] = "overview" =>
        /\ shown[r] \subseteq during[r]
        /\ before[r] \cap Envs \subseteq shown[r]
        /\ \A p \in before[r] \cap Places : p[1] \in before[r] => p \in shown[r]

\* What is set once is set for ever: no request, nor race of requests, blanks
\* a name, switches is_active off (Updates skips zero values, Create replaces
\* them) or touches a deleted row.
Outlasts(x, y) ==
    /\ x.name # Blank => y.name # Blank
    /\ x.active => y.active
    /\ x.state = "gone" => y = x

ColumnsOutlast ==
    [][/\ \A e \in Envs : Outlasts(env[e], env'[e])
       /\ \A p \in Places : Outlasts(pipe[p], pipe'[p])]_vars
=============================================================================
