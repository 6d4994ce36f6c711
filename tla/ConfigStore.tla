----------------------------- MODULE ConfigStore -----------------------------
(***************************************************************************)
(* The configuration table and the write operations on it                  *)
(* (biz/service/logic_config.go, biz/dal/db/config_dao.go), one action per *)
(* SQL statement: the code runs AddConfig, UpdateConfig, DeleteConfig and  *)
(* ImportConfigs without a transaction, so other requests run between two  *)
(* statements unless the write lock keeps them out.                        *)
(*                                                                         *)
(* A scope is an (environment_key, pipeline_key) pair.  Type, name, remark *)
(* and the other descriptive columns are left out; Invalid stands for every*)
(* content that validateConfigContent refuses.                             *)
(***************************************************************************)
EXTENDS Naturals, Sequences, FiniteSets

CONSTANTS
    Requests,      \* write requests
    Scopes, Keys, Aliases, Contents,
    NoKey,         \* no resource_key given
    NoAlias,       \* no alias given
    Invalid,       \* a content that validation refuses
    Jobs,          \* what the requests may ask for
    LockEnabled    \* is Redis, hence the write lock, configured

Config == [scope : Scopes, key : Keys \cup {NoKey},
           alias : Aliases \cup {NoAlias}, content : Contents \cup {Invalid}]

\* A UUID assigned by Create is unlike every key a request can give.
UUID == Requests \X (Nat \ {0})

Row == [scope : Scopes, key : Keys \cup UUID,
        alias : Aliases \cup {NoAlias}, content : Contents]

\* A job is an operation on a batch of configurations; only imports have any
\* number of them.  The update and delete handlers insist on a resource key.
JobType == [op : {"add", "update", "delete", "import"},
            batch : Seq(Config), overwrite : BOOLEAN]

ASSUME ConfigAssumption ==
    /\ LockEnabled \in BOOLEAN
    /\ NoKey \notin Keys
    /\ Invalid \notin Contents
    /\ \A j \in Jobs :
         /\ j \in JobType
         /\ j.op # "import" => Len(j.batch) = 1
         /\ j.op \in {"update", "delete"} => j.batch[1].key # NoKey

VARIABLES
    rows,      \* the table: records with fields scope, key, alias, content
    pc,        \* the statement each request is about to run
    job,       \* what each request asks for
    idx,       \* the position of an import in its batch
    target,    \* the resource key of the row an import found for the item
    answer     \* how the request was answered

vars == <<rows, pc, job, idx, target, answer>>

Running == {"validate", "alias", "create", "exists", "update", "delete",
            "clear", "item", "lookup", "finish"}
Inside == {r \in Requests : pc[r] \in Running}

TypeOK ==
    /\ rows \in SUBSET Row
    /\ pc \in [Requests -> Running \cup {"new", "done"}]
    /\ job \in [Requests -> Jobs]
    /\ idx \in [Requests -> Nat \ {0}]
    /\ target \in [Requests -> Keys \cup UUID \cup {NoKey}]
    /\ answer \in [Requests -> {"none", "ok", "invalid", "alias_exists",
                                "not_found", "error"}]

\* The write lock, through what it promises.
Lock == INSTANCE WriteMutex WITH inside <- Inside

Init ==
    /\ rows = {}
    /\ pc = [r \in Requests |-> "new"]
    /\ job \in [Requests -> Jobs]
    /\ idx = [r \in Requests |-> 1]
    /\ target = [r \in Requests |-> NoKey]
    /\ answer = [r \in Requests |-> "none"]

------------------------------------------------------------------------------
Goto(r, label) == pc' = [pc EXCEPT ![r] = label]
Answer(r, a) == Goto(r, "done") /\ answer' = [answer EXCEPT ![r] = a]
Cfg(r) == job[r].batch[idx[r]]

\* GetByResourceKey and GetByAlias.  updated_at, which picks one of several
\* rows with one alias, is left out: any of them may be found.
WithKey(s, k) == {x \in rows : x.scope = s /\ x.key = k}
WithAlias(s, a) == {x \in rows : x.scope = s /\ x.alias = a}

\* Mutant of Begin: every import starts with ClearAll.
BeginClearing(r) ==
    /\ pc[r] = "new"
    /\ Goto(r, IF job[r].op = "import" THEN "clear" ELSE "validate")
    /\ LockEnabled => Lock!Enter(r)
    /\ UNCHANGED <<rows, job, idx, target, answer>>

\* The middleware lets the request in.
Begin(r) ==
    /\ pc[r] = "new"
    /\ \/ job[r].op # "import" /\ Goto(r, "validate")
       \/ job[r].op = "import" /\ job[r].overwrite /\ Goto(r, "clear")
       \/ job[r].op = "import" /\ ~job[r].overwrite /\ Goto(r, "item")
    /\ LockEnabled => Lock!Enter(r)
    /\ UNCHANGED <<rows, job, idx, target, answer>>

\* normalizeConfigPayload and validateConfigContent of a single operation.
Validate(r) ==
    /\ pc[r] = "validate"
    /\ \/ /\ job[r].op # "delete" /\ Cfg(r).content = Invalid
          /\ Answer(r, "invalid")
       \/ /\ job[r].op = "delete" \/ Cfg(r).content # Invalid
          /\ \/ job[r].op # "add" /\ Goto(r, "exists")
             \/ job[r].op = "add" /\ Cfg(r).alias = NoAlias /\ Goto(r, "create")
             \/ job[r].op = "add" /\ Cfg(r).alias # NoAlias /\ Goto(r, "alias")
          /\ UNCHANGED answer
    /\ UNCHANGED <<rows, job, idx, target>>

\* Mutant of CheckAlias: GetByAlias is not asked.
CheckNoAlias(r) ==
    /\ pc[r] = "alias"
    /\ Goto(r, "create")
    /\ UNCHANGED <<rows, job, idx, target, answer>>

\* AddConfig: is the alias taken in this environment and pipeline?
CheckAlias(r) ==
    /\ pc[r] = "alias"
    /\ IF WithAlias(Cfg(r).scope, Cfg(r).alias) # {}
       THEN Answer(r, "alias_exists")
       ELSE Goto(r, "create") /\ UNCHANGED answer
    /\ UNCHANGED <<rows, job, idx, target>>

\* Mutant of CheckExists: GetByResourceKey is not asked.
CheckNoKey(r) ==
    /\ pc[r] = "exists"
    /\ Goto(r, job[r].op)
    /\ UNCHANGED <<rows, job, idx, target, answer>>

\* UpdateConfig and DeleteConfig: does the resource key exist?
CheckExists(r) ==
    /\ pc[r] = "exists"
    /\ IF WithKey(Cfg(r).scope, Cfg(r).key) = {}
       THEN Answer(r, "not_found")
       ELSE Goto(r, job[r].op) /\ UNCHANGED answer
    /\ UNCHANGED <<rows, job, idx, target>>

\* After a statement that wrote: an import takes its next item.
Proceed(r) ==
    /\ IF job[r].op = "import"
       THEN Goto(r, "item") /\ idx' = [idx EXCEPT ![r] = @ + 1]
       ELSE Goto(r, "finish") /\ UNCHANGED idx
    /\ UNCHANGED <<job, target, answer>>

\* Mutant of NewRow: no UUID is assigned.
RowAsGiven(r) == Cfg(r)

NewRow(r) ==
    [scope |-> Cfg(r).scope,
     key |-> IF Cfg(r).key = NoKey THEN <<r, idx[r]>> ELSE Cfg(r).key,
     alias |-> Cfg(r).alias,
     content |-> Cfg(r).content]

\* ConfigDAO.Create; the unique index uk_config_resource covers the key only.
Create(r) ==
    /\ pc[r] = "create"
    /\ IF WithKey(NewRow(r).scope, NewRow(r).key) # {}
       THEN /\ Answer(r, "error")
            /\ UNCHANGED <<rows, job, idx, target>>
       ELSE rows' = rows \cup {NewRow(r)} /\ Proceed(r)

\* UpdateByEnvironmentAndPipeline: every column given (an empty content never
\* gets here) but the alias, and no error when the row is gone.
TargetKey(r) == IF job[r].op = "import" THEN target[r] ELSE Cfg(r).key

\* Mutant of Updated: the alias column is not omitted.
UpdatedAll(r, x) == [x EXCEPT !.content = Cfg(r).content, !.alias = Cfg(r).alias]

Updated(r, x) == [x EXCEPT !.content = Cfg(r).content]

Update(r) ==
    /\ pc[r] = "update"
    /\ LET hit == WithKey(Cfg(r).scope, TargetKey(r))
       IN  rows' = (rows \ hit) \cup {Updated(r, x) : x \in hit}
    /\ Proceed(r)

\* DeleteByEnvironmentPipelineAndResourceKey.
Delete(r) ==
    /\ pc[r] = "delete"
    /\ rows' = rows \ WithKey(Cfg(r).scope, Cfg(r).key)
    /\ Proceed(r)

\* ImportConfigs with overwrite starts with ClearAll, on every scope.
Clear(r) ==
    /\ pc[r] = "clear"
    /\ rows' = {}
    /\ Goto(r, "item")
    /\ UNCHANGED <<job, idx, target, answer>>

\* importedAliases holds the alias of every earlier item of the batch.
AlreadyImported(r) ==
    /\ Cfg(r).alias # NoAlias
    /\ \E i \in 1 .. idx[r] - 1 :
         /\ job[r].batch[i].scope = Cfg(r).scope
         /\ job[r].batch[i].alias = Cfg(r).alias

\* The head of the import loop: the end, an invalid item (the import returns
\* there and what it has written stays), or a repeated alias (skipped).
Item(r) ==
    /\ pc[r] = "item"
    /\ \/ /\ idx[r] > Len(job[r].batch)
          /\ Goto(r, "finish")
          /\ UNCHANGED <<idx, answer>>
       \/ /\ idx[r] <= Len(job[r].batch)
          /\ Cfg(r).content = Invalid
          /\ Answer(r, "invalid")
          /\ UNCHANGED idx
       \/ /\ idx[r] <= Len(job[r].batch)
          /\ Cfg(r).content # Invalid
          /\ IF AlreadyImported(r)
             THEN idx' = [idx EXCEPT ![r] = @ + 1] /\ UNCHANGED pc
             ELSE Goto(r, "lookup") /\ UNCHANGED idx
          /\ UNCHANGED answer
    /\ UNCHANGED <<rows, job, target>>

\* Mutant of Found: an item without a key is never looked up by its alias.
FoundByKey(r) == WithKey(Cfg(r).scope, Cfg(r).key)

\* The row an item replaces: the one with its resource key or, only when the
\* item has no key, one with its alias.
Found(r) ==
    CASE Cfg(r).key # NoKey -> WithKey(Cfg(r).scope, Cfg(r).key)
      [] Cfg(r).alias # NoAlias -> WithAlias(Cfg(r).scope, Cfg(r).alias)
      [] OTHER -> {}

Lookup(r) ==
    /\ pc[r] = "lookup"
    /\ IF Found(r) = {}
       THEN Goto(r, "create") /\ UNCHANGED target
       ELSE \E x \in Found(r) :
              Goto(r, "update") /\ target' = [target EXCEPT ![r] = x.key]
    /\ UNCHANGED <<rows, job, idx, answer>>

\* Cache invalidation (its errors are only logged), then the answer.
Finish(r) ==
    /\ pc[r] = "finish"
    /\ Answer(r, "ok")
    /\ UNCHANGED <<rows, job, idx, target>>

\* A statement fails or the replica dies: nothing is undone.
Abort(r) ==
    /\ pc[r] \in Running
    /\ Answer(r, "error")
    /\ UNCHANGED <<rows, job, idx, target>>

Step(r) ==
    \/ Begin(r) \/ Validate(r) \/ CheckAlias(r) \/ CheckExists(r)
    \/ Create(r) \/ Update(r) \/ Delete(r)
    \/ Clear(r) \/ Item(r) \/ Lookup(r)
    \/ Finish(r) \/ Abort(r)

Next == \E r \in Requests : Step(r)

Spec == Init /\ [][Next]_vars

------------------------------------------------------------------------------
Table == INSTANCE ConfigTable

\* No two configurations of one environment and pipeline share an alias
\* ("unique within an environment and pipeline", README.md, table Config).
AliasUnique == \A x, y \in rows : Table!SameAlias(x, y) => x = y

\* The alias a request found free is still free when it inserts the row: the
\* check of AddConfig and ImportConfigs is never stale under the lock.
AliasStillFree ==
    \A r \in Requests :
      pc[r] = "create" /\ Cfg(r).alias # NoAlias
        => WithAlias(Cfg(r).scope, Cfg(r).alias) = {}

\* The table changes only as ConfigTable allows, statement by statement.
ImplementsTable == Table!Spec

\* What an operation has just done is still there when it answers "ok": the
\* existence and alias checks have not been overtaken.  Of an import, every
\* item that names no key and is not a repetition is stored.
Stored(c) ==
    \E x \in rows : x.scope = c.scope /\ x.alias = c.alias /\ x.content = c.content

Repeated(b, i) ==
    b[i].alias # NoAlias /\ \E h \in 1 .. i - 1 : Table!SameAlias(b[h], b[i])

Effect(r) ==
    LET b == job[r].batch IN
    CASE job[r].op = "add" -> NewRow(r) \in rows
      [] job[r].op = "update" ->
           \E x \in WithKey(Cfg(r).scope, Cfg(r).key) : x.content = Cfg(r).content
      [] job[r].op = "delete" -> WithKey(Cfg(r).scope, Cfg(r).key) = {}
      [] OTHER -> \A i \in 1 .. Len(b) :
                    b[i].key = NoKey /\ ~Repeated(b, i) => Stored(b[i])

AnsweredOkMeansDone == \A r \in Requests : pc[r] = "finish" => Effect(r)

\* The alias of a stored configuration never changes, whatever interleaving of
\* updates and imports (Omit("alias") in UpdateByEnvironmentAndPipeline).
AliasForLife ==
    [][\A x \in rows, y \in rows' : Table!SameKey(x, y) => x.alias = y.alias]_vars

\* Rows only go away through a delete of their key or an overwriting import.
LostOnlyOnRequest ==
    [][\A x \in rows : (\E y \in rows' : Table!SameKey(x, y))
         \/ \E r \in Requests :
              \/ pc[r] = "delete" /\ Cfg(r).scope = x.scope /\ Cfg(r).key = x.key
              \/ pc[r] = "clear" /\ job[r].overwrite]_vars
==============================================================================
