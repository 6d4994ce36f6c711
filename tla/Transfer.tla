------------------------------ MODULE Transfer ------------------------------
(***************************************************************************)
(* Export of selected configurations into an archive, its preview and its  *)
(* import, whole or in part (biz/service/transfer_service.go), between     *)
(* other write requests of the console.  All of them take the write lock,  *)
(* which is held here from the first statement of an import to the last;   *)
(* only the export tree is read without it.  An import runs statement by   *)
(* statement and undoes nothing when one fails.  The tree and selections   *)
(* with resource keys go through the cached list of configurations.        *)
(*                                                                         *)
(* Numbers stand for the ids and the UUIDs (resource_key) of rows, 0 for no*)
(* resource key.  A content in Json belongs to a configuration of type     *)
(* object or keyvalue: the archive holds it as a JSON value, which the     *)
(* string field Content of a ResourceConfig cannot take back.  Of the      *)
(* assets of an archive see AssetStore.                                    *)
(***************************************************************************)
EXTENDS Naturals, Sequences

CONSTANTS
    Envs, Pipes, Aliases,
    NoAlias,          \* a configuration without alias
    Texts, Json,      \* the contents
    ConsoleTexts,     \* those written by the console
    Unfit,            \* those validateConfigContent refuses
    Any,              \* no pipeline, or no environment, given
    InitialRows,      \* the tables the system may start from
    ForeignArchives,  \* the archives of other installations
    FirstFresh,       \* every later id or UUID is at least this number
    MaxSelections,    \* bound on the selections of a request
    MaxRequests       \* bound on exports, imports and console operations

Places == Envs \X Pipes
Item == [place : Places, key : Nat, alias : Aliases \cup {NoAlias},
         content : Texts \cup Json]
Row == [id : Nat, place : Places, key : Nat \ {0},
        alias : Aliases \cup {NoAlias}, content : (Texts \cup Json) \ Unfit]
Archive == [items : SUBSET Item, envs : SUBSET Envs, pipes : SUBSET Places]
Nothing == [items |-> {}, envs |-> {}, pipes |-> {}]

\* ExportSelection: a whole environment, a whole pipeline, or resource keys.
Selection == [env : Envs, pipe : Pipes \cup {Any}, keys : SUBSET Nat]
Lists(S) == UNION {[1 .. n -> S] : n \in 0 .. MaxSelections}

\* A full import has a target and no selections, a selective one no target.
Target == [env : Envs \cup {Any}, pipe : Pipes \cup {Any}]
NoTarget == [env |-> Any, pipe |-> Any]
Job == [full : BOOLEAN, selections : Seq(Selection), target : Target,
        overwrite : BOOLEAN]
NoJob == [full |-> TRUE, selections |-> << >>, target |-> NoTarget,
          overwrite |-> FALSE]

KeysUnique(table) ==
    \A x, y \in table :
      x.id = y.id \/ (x.place = y.place /\ x.key = y.key) => x = y
Below(table, n) == \A x \in table : x.id < n /\ x.key < n

ASSUME TransferAssumption ==
    /\ NoAlias \notin Aliases /\ Any \notin Envs \cup Pipes
    /\ ConsoleTexts \subseteq (Texts \cup Json) \ Unfit
    /\ FirstFresh \in Nat \ {0} /\ MaxSelections \in Nat /\ MaxRequests \in Nat
    /\ \A table \in InitialRows :
         table \in SUBSET Row /\ KeysUnique(table) /\ Below(table, FirstFresh)
    /\ \A a \in ForeignArchives :
         /\ a \in Archive /\ a.items # {}
         /\ \A x \in a.items : x.key < FirstFresh

VARIABLES
    rows,      \* the configuration table
    envs,      \* the environments that exist
    pipes,     \* the pipelines that exist
    fresh,     \* the next fresh id or UUID
    past,      \* every list of configurations each place has had: what the
               \* cached list may be (ConfigCache says why it may be old)
    tree,      \* the export tree the user was last shown
    archive,   \* the archive the user holds
    shown,     \* its last preview, as long as nothing has been written since
    requests,  \* number of requests so far
    pc,        \* the statement the import is about to run, or "idle"
    job,       \* what it was asked for
    todo,      \* the items it has still to import
    done       \* importedAliases

vars == <<rows, envs, pipes, fresh, past, tree, archive, shown, requests,
          pc, job, todo, done>>
data == <<rows, fresh, past>>
import == <<pc, job, todo, done>>

Running == {"parse", "registry", "choose", "clear", "item"}

TypeOK ==
    /\ rows \in SUBSET Row /\ KeysUnique(rows) /\ Below(rows, fresh)
    /\ envs \in SUBSET Envs /\ pipes \in SUBSET Places
    /\ fresh \in Nat /\ fresh >= FirstFresh
    /\ past \in [Places -> SUBSET SUBSET Row]
    /\ tree \in SUBSET Selection
    /\ archive \in Archive /\ \A x \in archive.items : x.key < fresh
    /\ shown \in SUBSET [item : Item, status : {"new", "conflict"}]
    /\ requests \in 0 .. MaxRequests
    /\ pc \in {"idle"} \cup Running
    /\ job \in Job /\ (job.full \/ job.target = NoTarget)
    /\ todo \in SUBSET archive.items
    /\ done \in SUBSET (Places \X Aliases)

At(S, p) == {x \in S : x.place = p}
ListsOf(S, places) == [p \in places |-> At(S, p)]

Init ==
    /\ rows \in InitialRows
    /\ envs = Envs /\ pipes = Places
    /\ fresh = FirstFresh
    /\ past = [p \in Places |-> {At(rows, p)}]
    /\ tree = {} /\ shown = {} /\ requests = 0
    /\ archive \in ForeignArchives \cup {Nothing}
    /\ pc = "idle" /\ job = NoJob /\ todo = {} /\ done = {}

-----------------------------------------------------------------------------
WithKey(p, k) == {x \in At(rows, p) : x.key = k}
WithAlias(p, a) == {x \in At(rows, p) : x.alias = a}
PlaceOf(S) == {x.place : x \in S}

\* A list that some reader may have cached.
Remember == past' = [p \in Places |-> past[p] \cup {At(rows', p)}]

TreeOf(list) ==
    {[env |-> p[1], pipe |-> p[2], keys |-> {x.key : x \in list[p]}] : p \in DOMAIN list}

\* What the console lets the user tick in a tree.
Choices(t) ==
    {[n EXCEPT !.pipe = Any, !.keys = {}] : n \in t}
    \cup UNION {{[n EXCEPT !.keys = K] : K \in SUBSET n.keys} : n \in t}

\* GetExportTree: pipelines that exist in environments that exist, each with
\* what ListConfigs answers, from Redis when it can.
ShowTree ==
    /\ LET there == {p \in pipes : p[1] \in envs} IN
       \E list \in [there -> UNION {past[p] : p \in there}] :
         /\ \A p \in there : list[p] \in past[p]
         /\ tree' = TreeOf(list)
    /\ UNCHANGED <<data, envs, pipes, archive, shown, requests, import>>

Request == requests < MaxRequests /\ requests' = requests + 1

-----------------------------------------------------------------------------
(* Export.                                                                 *)

AsItem(x) ==
    [place |-> x.place, key |-> x.key, alias |-> x.alias, content |-> x.content]

\* ListByEnvironmentAndPipeline and ExportConfigs: per alias, hence also of all
\* configurations without one, the row with the highest id, its key cleared.
Newest(p) ==
    {[AsItem(x) EXCEPT !.key = 0] :
       x \in {y \in At(rows, p) : \A z \in WithAlias(p, y.alias) : z.id <= y.id}}

\* What a selection may find: with resource keys it filters ListConfigs, the
\* others read the table.  Only that of an environment asks for its pipelines.
Selected(s) ==
    IF s.pipe = Any THEN {UNION {Newest(p) : p \in {q \in pipes : q[1] = s.env}}}
    ELSE IF s.keys = {} THEN {Newest(<<s.env, s.pipe>>)}
    ELSE {{AsItem(x) : x \in {y \in list : y.key \in s.keys}} :
            list \in past[<<s.env, s.pipe>>]}

\* Mutant of SameItem: processedKeys forgets environment and pipeline.
SameItemAnywhere(x, y) == x.alias = y.alias

SameItem(x, y) == x.place = y.place /\ x.alias = y.alias

\* processedKeys: one item per alias, from the first selection that has one.
Deduplicated(items, got) ==
    /\ \A x, y \in items : SameItem(x, y) => x = y
    /\ \A i \in DOMAIN got : \A x \in got[i] :
         \E h \in 1 .. i : \E y \in items \cap got[h] : SameItem(x, y)

\* writeConfigArchive: the items, their environments and pipelines.
Packed(items) ==
    [items |-> items,
     envs |-> {e \in envs : \E p \in PlaceOf(items) : p[1] = e},
     pipes |-> pipes \cap PlaceOf(items)]

Export ==
    /\ pc = "idle" /\ Request
    /\ \E ss \in Lists(Choices(tree)) :
         \E got \in [DOMAIN ss -> UNION {Selected(ss[i]) : i \in DOMAIN ss}] :
           /\ \A i \in DOMAIN ss : got[i] \in Selected(ss[i])
           /\ \E items \in SUBSET UNION {got[i] : i \in DOMAIN ss} :
                /\ items # {} /\ Deduplicated(items, got)
                /\ archive' = Packed(items)
    /\ shown' = {}
    /\ UNCHANGED <<data, envs, pipes, tree, import>>

-----------------------------------------------------------------------------
(* Preview and import.                                                     *)

\* Mutant of CheckStatus: the alias is looked for in every scope.
CheckStatusAnywhere(x) ==
    IF \A y \in rows : y.alias # x.alias THEN "new" ELSE "conflict"

CheckStatus(x) ==
    IF WithAlias(x.place, x.alias) = {} THEN "new" ELSE "conflict"

\* Do the configurations of the archive parse, those not chosen included?
Readable == \A x \in archive.items : x.content \notin Json

\* ImportConfigsPreview: of configurations that do not parse it shows none, and
\* no error.
Previewed ==
    {[item |-> x, status |-> CheckStatus(x)] : x \in {y \in archive.items : Readable}}

Preview ==
    /\ pc = "idle" /\ archive # Nothing
    /\ shown' = Previewed
    /\ UNCHANGED <<data, envs, pipes, tree, archive, requests, import>>

Goto(label) == pc' = label
Ready == Goto(IF job.overwrite THEN "clear" ELSE "item")

End ==
    /\ pc' = "idle" /\ job' = NoJob
    /\ todo' = {} /\ done' = {} /\ shown' = {}

Start ==
    /\ pc = "idle" /\ archive # Nothing /\ Request
    /\ \E o \in BOOLEAN :
         \/ /\ \E t \in Target :
                 job' = [full |-> TRUE, selections |-> << >>, target |-> t,
                         overwrite |-> o]
            /\ Goto("parse")
         \/ /\ \E ss \in Lists(Choices(TreeOf(ListsOf(archive.items, PlaceOf(archive.items))))) :
                 job' = [full |-> FALSE, selections |-> ss, target |-> NoTarget,
                         overwrite |-> o]
            /\ Goto("registry")
    /\ UNCHANGED <<data, envs, pipes, tree, archive, shown, todo, done>>

\* ImportConfigsArchive parses the configurations before it changes anything.
Parse ==
    /\ pc = "parse"
    /\ \/ Readable /\ todo' = archive.items /\ Goto("registry")
          /\ UNCHANGED <<job, done, shown>>
       \/ ~Readable /\ End
    /\ UNCHANGED <<data, envs, pipes, tree, archive, requests>>

\* importEnvironments and importPipelines, of the whole archive: each list
\* ends at its first error (EnvRegistry says at which), which is printed only.
\* A target that is given suppresses them and need not exist.
Registry ==
    /\ pc = "registry"
    /\ envs' \in IF job.target.env = Any
                 THEN {envs \cup E : E \in SUBSET archive.envs} ELSE {envs}
    /\ pipes' \in IF job.target.pipe = Any
                  THEN {pipes \cup P : P \in SUBSET archive.pipes} ELSE {pipes}
    /\ IF job.full THEN Ready ELSE Goto("choose")
    /\ UNCHANGED <<data, tree, archive, shown, requests, job, todo, done>>

ShouldImport(x) ==
    \/ job.selections = << >>
    \/ \E i \in DOMAIN job.selections :
         LET s == job.selections[i] IN
         /\ s.env = x.place[1]
         /\ \/ s.pipe = Any
            \/ s.pipe = x.place[2] /\ (s.keys = {} \/ x.key \in s.keys)

\* Mutant of Choose: the table is cleared before it is known what to import.
ChooseLate ==
    /\ pc = "choose"
    /\ todo' = {x \in archive.items : ShouldImport(x)} /\ Ready
    /\ UNCHANGED <<data, envs, pipes, tree, archive, shown, requests, job, done>>

\* A selective import parses and filters the configurations only here.
Choose ==
    /\ pc = "choose"
    /\ LET chosen == {x \in archive.items : ShouldImport(x)} IN
       \/ /\ Readable /\ chosen # {}
          /\ todo' = chosen /\ Ready /\ UNCHANGED <<job, done, shown>>
       \/ ~(Readable /\ chosen # {}) /\ End
    /\ UNCHANGED <<data, envs, pipes, tree, archive, requests>>

\* ClearAll: every configuration of every environment and pipeline.
Clear ==
    /\ pc = "clear"
    /\ rows' = {} /\ Remember /\ Goto("item")
    /\ UNCHANGED <<envs, pipes, fresh, tree, archive, shown, requests, job, todo, done>>

\* The target counts when both its parts are given.
Destination(x) ==
    IF Any \in {job.target.env, job.target.pipe} THEN x.place
    ELSE <<job.target.env, job.target.pipe>>

\* Mutant of Found: an item whose key was cleared is not looked for at all.
FoundByKey(x) ==
    IF x.key # 0 THEN WithKey(Destination(x), x.key) ELSE {}

\* The row an item replaces: the one with its key or, if it has none, its alias.
Found(x) ==
    IF x.key # 0 THEN WithKey(Destination(x), x.key)
    ELSE IF x.alias # NoAlias THEN WithAlias(Destination(x), x.alias)
    ELSE {}

\* Mutant of Created: no UUID is assigned.
CreatedKeyless(x) ==
    [id |-> fresh, place |-> Destination(x), key |-> x.key,
     alias |-> x.alias, content |-> x.content]

Created(x) ==
    [id |-> fresh, place |-> Destination(x),
     key |-> IF x.key = 0 THEN fresh ELSE x.key,
     alias |-> x.alias, content |-> x.content]

\* The items in no particular order: a repeated alias is skipped, a row that
\* was found keeps its alias.
ImportItem ==
    /\ pc = "item"
    /\ \E x \in {y \in todo : y.content \notin Unfit} :
         LET repeated == <<Destination(x), x.alias>> \in done
             found == Found(x)
         IN
         /\ todo' = todo \ {x}
         /\ done' = IF x.alias = NoAlias THEN done
                    ELSE done \cup {<<Destination(x), x.alias>>}
         /\ \/ repeated /\ UNCHANGED <<rows, fresh>>
            \/ /\ ~repeated /\ found = {}
               /\ rows' = rows \cup {Created(x)} /\ fresh' = fresh + 1
            \/ /\ ~repeated
               /\ \E y \in found :
                    rows' = (rows \ {y}) \cup {[y EXCEPT !.content = x.content]}
               /\ UNCHANGED fresh
    /\ Remember
    /\ UNCHANGED <<envs, pipes, tree, archive, shown, requests, pc, job>>

\* validateConfigContent refuses an item, the first thing that happens to it:
\* what was cleared and what other items have written stays so.
Refuse ==
    /\ pc = "item" /\ (\E x \in todo : x.content \in Unfit) /\ End
    /\ UNCHANGED <<data, envs, pipes, tree, archive, requests>>

Finish ==
    /\ pc = "item" /\ todo = {} /\ End
    /\ UNCHANGED <<data, envs, pipes, tree, archive, requests>>

\* A statement fails, or the server dies.
Abort ==
    /\ pc # "idle" /\ End
    /\ UNCHANGED <<data, envs, pipes, tree, archive, requests>>

-----------------------------------------------------------------------------
\* The console between them: AddConfig, DeleteConfig, DeletePipeline and
\* DeleteEnvironment, which leaves pipelines and configurations.
Edit ==
    /\ pc = "idle" /\ Request /\ shown' = {}
    /\ \/ /\ \E p \in Places, a \in Aliases \cup {NoAlias}, c \in ConsoleTexts :
               /\ a # NoAlias => WithAlias(p, a) = {}
               /\ rows' = rows \cup
                    {[id |-> fresh, place |-> p, key |-> fresh, alias |-> a,
                      content |-> c]}
          /\ fresh' = fresh + 1 /\ UNCHANGED <<envs, pipes>>
       \/ \E x \in rows : rows' = rows \ {x} /\ UNCHANGED <<envs, pipes, fresh>>
       \/ \E e \in envs : envs' = envs \ {e} /\ UNCHANGED <<rows, pipes, fresh>>
       \/ \E p \in pipes : pipes' = pipes \ {p} /\ UNCHANGED <<rows, envs, fresh>>
    /\ Remember
    /\ UNCHANGED <<tree, archive, import>>

Next ==
    \/ ShowTree \/ Export \/ Preview \/ Start \/ Parse \/ Registry \/ Choose
    \/ Clear \/ ImportItem \/ Refuse \/ Finish \/ Abort \/ Edit

Spec == Init /\ [][Next]_vars

-----------------------------------------------------------------------------
\* Where an export has taken a pipeline as a whole (its keys are cleared), it
\* has left out nothing that was there, whatever else was selected before: per
\* alias one item, the environment and the pipeline when they exist.  What it
\* took as a whole is the newest of its alias; what was selected by its key is
\* a configuration the place has had, which may be gone or changed since.
Carries(z) ==
    IF z.key = 0
    THEN \E x \in WithAlias(z.place, z.alias) :
           /\ z = [AsItem(x) EXCEPT !.key = 0]
           /\ \A y \in WithAlias(z.place, z.alias) : y.id <= x.id
    ELSE \E list \in past[z.place] : \E x \in list : z = AsItem(x)

WholePlace(p) ==
    /\ \A y \in At(rows, p) : \E z \in archive'.items : z.place = p /\ z.alias = y.alias
    /\ p \in pipes => p \in archive'.pipes
    /\ p[1] \in envs => p[1] \in archive'.envs

ExportComplete ==
    [][archive' # archive =>
         \A x \in archive'.items :
           /\ \A y \in archive'.items :
                x.place = y.place /\ x.alias = y.alias => x = y
           /\ Carries(x)
           /\ x.key = 0 => WholePlace(x.place)]_vars

\* An import touches no configuration before the whole archive has been parsed
\* and something in it was chosen.  The clearing of an overwriting one comes
\* next, before any item is validated: one refused for an item it meets later
\* has emptied the table.  From then on no row goes, whatever is refused or
\* fails: an item adds a row or changes the content of one, to its own content,
\* and only where the import was asked to write.
OnlyChosenChange ==
    [][pc # "idle" /\ rows' # rows =>
         /\ Readable
         /\ \E x \in archive.items : ShouldImport(x)
         /\ \/ /\ job.overwrite /\ todo = {x \in archive.items : ShouldImport(x)}
               /\ rows' = {}
            \/ /\ \A y \in rows : \E z \in rows' : [y EXCEPT !.content = z.content] = z
               /\ \A y \in rows' \ rows :
                    \E x \in archive.items :
                      /\ ShouldImport(x) /\ x.content \notin Unfit
                      /\ y.place = Destination(x) /\ y.content = x.content]_vars

AsConfig(x) ==
    [scope |-> x.place, key |-> x.key, alias |-> x.alias, content |-> x.content]
Configs == {AsConfig(x) : x \in rows}
Table == INSTANCE ConfigTable WITH rows <- Configs

\* The console, a clearing and every item whose key an export has cleared take
\* one step of the abstract table or none: only an item that carries a resource
\* key, whose alias nobody looks for, can make two configurations of a place
\* share an alias.
OnlyKeyedItemsStray ==
    [][(\A x \in todo \ todo' : x.key = 0) => [Table!Next]_Configs]_vars

\* The import does what the preview has shown, if nothing was written between
\* them: what was "new" replaces nothing and what was in "conflict" adds
\* nothing.  The preview cannot know of a target or of ClearAll, and it looks
\* for aliases where the import looks for resource keys.
PreviewKept ==
    [][\A s \in shown :
         /\ pc = "item" /\ pc' = "item" /\ s.item \in todo \ todo'
         /\ Destination(s.item) = s.item.place
         /\ s.item.key = 0 /\ s.item.alias # NoAlias
         => /\ s.status = "new" => rows \subseteq rows'
            /\ s.status = "conflict" /\ ~job.overwrite =>
                 \A y \in rows' : \E x \in rows : x.id = y.id]_vars
=============================================================================
