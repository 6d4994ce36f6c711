------------------------------ MODULE Migrate ------------------------------
(***************************************************************************)
(* Migration of the configurations of one environment and pipeline to      *)
(* another (POST /transfer/migrate: MigrateConfigs and copyConfigAssets in *)
(* biz/service/transfer_service.go), statement by statement: nothing is a  *)
(* transaction, an item that fails is reported and the next one is taken.  *)
(*                                                                         *)
(* A scope is an (environment_key, pipeline_key) pair.  A content is plain *)
(* text, or refers to one asset as asset://id or by its URL; images and    *)
(* files are always stored with the URL (validateConfigContent).  Numbers  *)
(* stand for UUIDs: of rows (resource_key) and of assets (file_id).        *)
(***************************************************************************)
EXTENDS Naturals, FiniteSets

CONSTANTS
    Migrations,    \* migration requests
    Scopes, Aliases,
    NoAlias,       \* a configuration without alias
    Jobs,          \* what the requests may ask for
    InitialRows,   \* the tables the system may start from
    InitialAssets, \* the asset rows it starts from
    InitialFiles,  \* the stored files it starts from
    ConsoleTexts,  \* contents written by the console
    FirstFresh,    \* every later UUID is at least this number
    MaxEdits,      \* bound on the console's operations
    LockEnabled    \* is Redis, hence the write lock, configured

Content == [form : {"text", "asset", "url"}, id : Nat]
Row == [id : Nat \ {0}, scope : Scopes, alias : Aliases \cup {NoAlias},
        content : Content]

\* A file and the original asset whose bytes it holds.
File == [id : Nat \ {0}, of : Nat \ {0}]

\* No keys: the whole source pipeline.
Job == [source : Scopes, target : Scopes, keys : SUBSET Nat, overwrite : BOOLEAN]

Below(S) == \A x \in S : x.id < FirstFresh
OneEach(S) == \A x, y \in S : x.id = y.id => x = y

ASSUME MigrateAssumption ==
    /\ NoAlias \notin Aliases
    /\ FirstFresh \in Nat \ {0} /\ MaxEdits \in Nat /\ LockEnabled \in BOOLEAN
    /\ Jobs \subseteq Job
    /\ \A table \in InitialRows :
         /\ table \in SUBSET Row /\ Below(table) /\ OneEach(table)
         /\ \A x \in table : x.content.id < FirstFresh
    /\ InitialAssets \subseteq 1 .. FirstFresh - 1
    /\ InitialFiles \subseteq File /\ Below(InitialFiles) /\ OneEach(InitialFiles)
    /\ ConsoleTexts \subseteq {c \in Content : c.form = "text"}

VARIABLES
    rows,      \* the configuration table
    assets,    \* the asset table: the ids with a row
    files,     \* the files under data/uploads
    live,      \* the scopes whose environment and pipeline exist
    fresh,     \* the next fresh UUID
    edits,     \* number of console operations so far
    pc,        \* the statement each migration is about to run
    job,       \* what each migration asks for
    todo,      \* the listed source rows still to migrate
    item,      \* the source row at hand: a set of at most one row
    found,     \* the key of the target row with the item's alias, 0 if none
    draft,     \* the content to store
    copy,      \* the asset id of the copy being made, 0 if none
    results,   \* MigrateSummary: the items with their statuses
    past,      \* every list of configurations each scope has had: what the
               \* cached list may be (ConfigCache says why it may be old)
    lagging    \* history: the migrations whose list was not the table's

vars == <<rows, assets, files, live, fresh, edits,
          pc, job, todo, item, found, draft, copy, results, past, lagging>>
data == <<rows, assets, files, live, fresh, edits, past>>
work == <<todo, item, found, draft, copy, results>>

Running == {"verify", "list", "item", "copy", "row", "check", "write"}
Inside == {m \in Migrations : pc[m] \in Running}
Status == {"succeeded", "skipped", "failed"}
NoText == [form |-> "text", id |-> 0]

TypeOK ==
    /\ rows \in SUBSET Row /\ assets \in SUBSET (Nat \ {0})
    /\ files \in SUBSET File
    /\ live \in SUBSET Scopes
    /\ fresh \in Nat /\ fresh >= FirstFresh
    /\ edits \in 0 .. MaxEdits
    /\ \A x \in rows : x.id < fresh
    /\ \A a \in assets : a < fresh
    /\ \A f \in files : f.id < fresh
    /\ pc \in [Migrations -> Running \cup {"new", "done", "refused", "crashed"}]
    /\ job \in [Migrations -> Jobs]
    /\ todo \in [Migrations -> SUBSET Row]
    /\ item \in [Migrations -> SUBSET Row]
    /\ found \in [Migrations -> Nat]
    /\ draft \in [Migrations -> Content]
    /\ copy \in [Migrations -> Nat]
    /\ results \in [Migrations -> SUBSET [item : Row, status : Status]]
    /\ past \in [Scopes -> SUBSET SUBSET Row]
    /\ lagging \subseteq Migrations

\* The write lock, through what it promises.
Lock == INSTANCE WriteMutex WITH Requests <- Migrations, inside <- Inside

ListOf(table, s) == {x \in table : x.scope = s}

Init ==
    /\ rows \in InitialRows
    /\ assets = InitialAssets /\ files = InitialFiles
    /\ live = Scopes
    /\ fresh = FirstFresh /\ edits = 0
    /\ pc = [m \in Migrations |-> "new"]
    /\ job \in [Migrations -> Jobs]
    /\ todo = [m \in Migrations |-> {}]
    /\ item = [m \in Migrations |-> {}]
    /\ found = [m \in Migrations |-> 0]
    /\ draft = [m \in Migrations |-> NoText]
    /\ copy = [m \in Migrations |-> 0]
    /\ results = [m \in Migrations |-> {}]
    /\ past = [s \in Scopes |-> {ListOf(rows, s)}]
    /\ lagging = {}

-----------------------------------------------------------------------------
WithKey(s, k) == {x \in rows : x.scope = s /\ x.id = k}
WithAlias(s, a) == {x \in rows : x.scope = s /\ x.alias = a}

Goto(m, label) == pc' = [pc EXCEPT ![m] = label]

Hold(m, x, k, c, a) ==
    /\ item' = [item EXCEPT ![m] = x]
    /\ found' = [found EXCEPT ![m] = k]
    /\ draft' = [draft EXCEPT ![m] = c]
    /\ copy' = [copy EXCEPT ![m] = a]

\* Mutant of Report: the status is set before the configuration is saved.
ReportSuccess(m, x, status) ==
    /\ results' = [results EXCEPT ![m] = @ \cup {[item |-> x, status |-> "succeeded"]}]
    /\ todo' = [todo EXCEPT ![m] = @ \ {x}]
    /\ Hold(m, {}, 0, NoText, 0)
    /\ Goto(m, "item")

\* One MigrateResultItem; the loop goes on to the next item.
Report(m, x, status) ==
    /\ results' = [results EXCEPT ![m] = @ \cup {[item |-> x, status |-> status]}]
    /\ todo' = [todo EXCEPT ![m] = @ \ {x}]
    /\ Hold(m, {}, 0, NoText, 0)
    /\ Goto(m, "item")

\* The handler refuses a migration onto its own source; any other one starts
\* when the lock is free.
Start(m) ==
    /\ pc[m] = "new"
    /\ \/ job[m].source = job[m].target /\ Goto(m, "refused")
       \/ /\ job[m].source # job[m].target /\ Goto(m, "verify")
          /\ LockEnabled => Lock!Enter(m)
    /\ UNCHANGED <<data, job, work, lagging>>

\* Mutant of Verify: the target is not checked.
VerifySource(m) ==
    /\ pc[m] = "verify"
    /\ Goto(m, IF job[m].source \in live THEN "list" ELSE "refused")
    /\ UNCHANGED <<data, job, work, lagging>>

\* ensureEnvironmentExists and ensurePipelineExists, of source and target.
Verify(m) ==
    /\ pc[m] = "verify"
    /\ Goto(m, IF {job[m].source, job[m].target} \subseteq live
               THEN "list" ELSE "refused")
    /\ UNCHANGED <<data, job, work, lagging>>

\* ListConfigs answers from Redis when it can, otherwise from the table.
Answers(s) == {ListOf(rows, s)} \cup (IF LockEnabled THEN past[s] ELSE {})

\* ListConfigs of the source, filtered by the resource keys asked for.
List(m) ==
    /\ pc[m] = "list"
    /\ \E list \in Answers(job[m].source) :
         /\ todo' = [todo EXCEPT ![m] =
              {x \in list : job[m].keys = {} \/ x.id \in job[m].keys}]
         /\ lagging' = IF list = ListOf(rows, job[m].source)
                       THEN lagging ELSE lagging \cup {m}
    /\ Goto(m, "item")
    /\ UNCHANGED <<data, job, item, found, draft, copy, results>>

Take(m, x, k) ==
    /\ Hold(m, {x}, k, x.content, 0)
    /\ Goto(m, "copy")
    /\ UNCHANGED <<todo, results>>

\* Mutant of Lookup: overwrite is not looked at.
LookupOverwriting(m) ==
    /\ pc[m] = "item"
    /\ \E x \in todo[m] :
         LET same == WithAlias(job[m].target, x.alias) IN
         \/ same = {} /\ Take(m, x, 0)
         \/ \E y \in same : Take(m, x, y.id)
    /\ UNCHANGED <<data, job, lagging>>

\* The next item, in no particular order, and any target row with its alias,
\* also when the alias is empty (updated_at, which picks one, is left out).
Lookup(m) ==
    /\ pc[m] = "item"
    /\ \E x \in todo[m] :
         LET same == WithAlias(job[m].target, x.alias) IN
         \/ same = {} /\ Take(m, x, 0)
         \/ /\ same # {} /\ ~job[m].overwrite
            /\ Report(m, x, "skipped")
         \/ job[m].overwrite /\ \E y \in same : Take(m, x, y.id)
    /\ UNCHANGED <<data, job, lagging>>

\* The error of the lookup is dropped: the item counts as not existing.
LookupFails(m) ==
    /\ pc[m] = "item"
    /\ \E x \in todo[m] : Take(m, x, 0)
    /\ UNCHANGED <<data, job, lagging>>

Fails(m) == \E x \in item[m] : Report(m, x, "failed")

\* copyConfigAssets up to WriteFile: an asset without row or file is skipped
\* and its reference stays; the directory or the file may fail to be written.
CopyFile(m) ==
    LET a == draft[m].id
        readable == /\ draft[m].form # "text"
                    /\ a \in assets /\ \E f \in files : f.id = a
    IN
    /\ pc[m] = "copy"
    /\ \/ /\ ~readable /\ Goto(m, "check")
          /\ UNCHANGED <<files, fresh, work>>
       \/ /\ readable
          /\ files' = files \cup {[id |-> fresh, of |-> f.of] :
                                    f \in {g \in files : g.id = a}}
          /\ copy' = [copy EXCEPT ![m] = fresh]
          /\ fresh' = fresh + 1
          /\ Goto(m, "row")
          /\ UNCHANGED <<todo, item, found, draft, results>>
       \/ readable /\ Fails(m) /\ UNCHANGED <<files, fresh>>
    /\ UNCHANGED <<rows, assets, live, edits, job, past, lagging>>

\* ReplaceAll of asset://old by asset://new: a URL is left as it is.
Redirected(c, a) == IF c.form = "asset" THEN [c EXCEPT !.id = a] ELSE c

\* Mutant of CopyRow: an error of CreateAsset is not returned.
CopyRowCareless(m) ==
    /\ pc[m] = "row"
    /\ \/ assets' = assets \cup {copy[m]}
       \/ UNCHANGED assets
    /\ Hold(m, item[m], found[m], Redirected(draft[m], copy[m]), 0)
    /\ Goto(m, "check")
    /\ UNCHANGED <<rows, files, live, fresh, edits, job, todo, results, past, lagging>>

\* CreateAsset and the replacement in the content; on an error the copied
\* file stays behind.
CopyRow(m) ==
    /\ pc[m] = "row"
    /\ \/ /\ assets' = assets \cup {copy[m]}
          /\ Hold(m, item[m], found[m], Redirected(draft[m], copy[m]), 0)
          /\ Goto(m, "check")
          /\ UNCHANGED <<todo, results>>
       \/ Fails(m) /\ UNCHANGED assets
    /\ UNCHANGED <<rows, files, live, fresh, edits, job, past, lagging>>

\* Mutant of Check: AddConfig does not look for the alias.
CheckCareless(m) ==
    /\ pc[m] = "check"
    /\ \/ /\ found[m] # 0 => WithKey(job[m].target, found[m]) # {}
          /\ Goto(m, "write") /\ UNCHANGED work
       \/ Fails(m)
    /\ UNCHANGED <<data, job, lagging>>

\* UpdateConfig reads the target row, AddConfig looks for the alias unless it
\* is empty; any of the two may fail.
Check(m) ==
    /\ pc[m] = "check"
    /\ \/ /\ found[m] # 0
          /\ WithKey(job[m].target, found[m]) # {}
          /\ Goto(m, "write") /\ UNCHANGED work
       \/ /\ found[m] = 0
          /\ \A x \in item[m] : \/ x.alias = NoAlias
                                \/ WithAlias(job[m].target, x.alias) = {}
          /\ Goto(m, "write") /\ UNCHANGED work
       \/ Fails(m)
    /\ UNCHANGED <<data, job, lagging>>

\* Mutant of Copied: no resource key is generated.
CopiedKeyless(m, x) ==
    [id |-> 0, scope |-> job[m].target, alias |-> x.alias, content |-> draft[m]]

Copied(m, x) ==
    [id |-> fresh, scope |-> job[m].target, alias |-> x.alias, content |-> draft[m]]

\* A list that some reader may have cached.
Remember == past' = [s \in Scopes |-> past[s] \cup {ListOf(rows', s)}]

\* UpdateByEnvironmentAndPipeline (no error when the row is gone) or Create.
Write(m) ==
    /\ pc[m] = "write"
    /\ \/ /\ found[m] # 0
          /\ LET hit == WithKey(job[m].target, found[m]) IN
             rows' = (rows \ hit) \cup {[x EXCEPT !.content = draft[m]] : x \in hit}
          /\ UNCHANGED fresh
          /\ \E x \in item[m] : Report(m, x, "succeeded")
       \/ /\ found[m] = 0
          /\ \E x \in item[m] :
               rows' = rows \cup {Copied(m, x)} /\ Report(m, x, "succeeded")
          /\ fresh' = fresh + 1
       \/ Fails(m) /\ UNCHANGED <<rows, fresh>>
    /\ Remember
    /\ UNCHANGED <<assets, files, live, edits, job, lagging>>

\* The summary is sent, and gone from the server.
Finish(m) ==
    /\ pc[m] = "item" /\ todo[m] = {}
    /\ results' = [results EXCEPT ![m] = {}]
    /\ Goto(m, "done")
    /\ UNCHANGED <<data, job, todo, item, found, draft, copy, lagging>>

\* The server dies: nothing is undone and nobody is told.
Forget(f, v) == [m \in Migrations |-> IF m \in Inside THEN v ELSE f[m]]

Crash ==
    /\ Inside # {}
    /\ pc' = Forget(pc, "crashed")
    /\ todo' = Forget(todo, {}) /\ results' = Forget(results, {})
    /\ item' = Forget(item, {}) /\ found' = Forget(found, 0)
    /\ draft' = Forget(draft, NoText) /\ copy' = Forget(copy, 0)
    /\ UNCHANGED <<data, job, lagging>>

\* Another write request of the console (AddConfig, UpdateConfig, DeleteConfig,
\* DeletePipeline), kept out by the lock while a migration is inside.
Edit ==
    /\ LockEnabled => Inside = {}
    /\ edits < MaxEdits /\ edits' = edits + 1
    /\ \/ /\ \E s \in Scopes, a \in Aliases \cup {NoAlias}, c \in ConsoleTexts :
               /\ a # NoAlias => WithAlias(s, a) = {}
               /\ rows' = rows \cup
                    {[id |-> fresh, scope |-> s, alias |-> a, content |-> c]}
          /\ fresh' = fresh + 1 /\ UNCHANGED live
       \/ /\ \E x \in rows, c \in ConsoleTexts :
               rows' = (rows \ {x}) \cup {[x EXCEPT !.content = c]}
          /\ UNCHANGED <<fresh, live>>
       \/ \E x \in rows : rows' = rows \ {x} /\ UNCHANGED <<fresh, live>>
       \/ \E s \in live : live' = live \ {s} /\ UNCHANGED <<rows, fresh>>
    /\ Remember
    /\ UNCHANGED <<assets, files, pc, job, work, lagging>>

Step(m) ==
    \/ Start(m) \/ Verify(m) \/ List(m) \/ Lookup(m) \/ LookupFails(m)
    \/ CopyFile(m) \/ CopyRow(m) \/ Check(m) \/ Write(m) \/ Finish(m)

Next == (\E m \in Migrations : Step(m)) \/ Crash \/ Edit

Spec == Init /\ [][Next]_vars

-----------------------------------------------------------------------------
\* A reference to a copy opens: the copy's asset row and file exist, whatever
\* failed on the way (copyConfigAssets replaces references only at its end).
Served(c) ==
    c.form # "text" /\ c.id >= FirstFresh
      => c.id \in assets /\ \E f \in files : f.id = c.id

RefsServed == \A x \in rows : Served(x.content)

\* No migration changes or removes a row of any scope but its target, and not
\* even there unless it overwrites: "keeps the target configuration, skips the
\* conflict" (migration.md, overwrite: false), crashes and races included.
OnlyOverwriteReplaces ==
    [][\A x \in rows \ rows' :
         \/ edits' # edits
         \/ \E m \in Migrations : /\ pc[m] = "write" /\ pc'[m] = "item"
                                  /\ job[m].overwrite
                                  /\ x.scope = job[m].target]_vars

\* With the lock, what a migration creates it creates in an environment and
\* pipeline that still exist, under an alias nobody has there: the checks made
\* before the first item hold until the last, and a dropped lookup error is
\* caught by AddConfig.
CreatesInItsPlace ==
    [][edits' = edits =>
         \A y \in rows' :
           (\A x \in rows : x.id # y.id) =>
             /\ y.scope \in live
             /\ y.alias # NoAlias => WithAlias(y.scope, y.alias) = {}]_vars

\* With the lock, migrations and the console between them change the table as
\* ConfigTable allows: an alias that is free there stays one configuration's,
\* although the error of the lookup by alias is dropped and rows are found
\* statements before they are written.
AsConfig(x) ==
    [scope |-> x.scope, key |-> x.id, alias |-> x.alias, content |-> x.content]

Table == INSTANCE ConfigTable WITH rows <- {AsConfig(x) : x \in rows}

ImplementsTable == Table!Spec

\* With the lock, an item reported "succeeded" is in the target, and with the
\* content it was listed with, byte for byte where that is an asset; what was
\* listed is still what the source holds, unless the list came from the cache and
\* was old already.  Items that share an alias, hence all without one, may have
\* overwritten each other.
Bytes(c) == {f.of : f \in {g \in files : g.id = c.id}}

SameContent(c, d) ==
    \/ c = d
    \/ c.form = d.form /\ c.form # "text" /\ Bytes(c) = Bytes(d)

SucceededIsStored ==
    \A m \in Inside : \A r \in results[m] :
      r.status = "succeeded" =>
        /\ m \in lagging \/ r.item \in ListOf(rows, job[m].source)
        /\ \E y \in rows :
             /\ y.scope = job[m].target /\ y.alias = r.item.alias
             /\ (\A q \in results[m] : q.item.alias = r.item.alias => q = r)
                  => SameContent(y.content, r.item.content)
=============================================================================
