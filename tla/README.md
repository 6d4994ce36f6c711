# Rainbow Bridge: a verification project

Rainbow Bridge is a configuration console: a Go server (Hertz, GORM) that keeps
configurations, environments, pipelines ("channels" in the manual) and uploaded
assets in a relational database, optionally caches them in Redis, serves them to
clients, and moves them between installations in archives. Any number of
replicas may run over one database and one Redis.

This directory holds TLA+ models of the parts whose correctness depends on
order, concurrency and failure, TLC configurations that check them on small
instances, and TLAPS proofs of the main results for every value of the constants.

1. [The system](#1-the-system)
2. [The modules](#2-the-modules)
3. [The runs](#3-the-runs)
4. [Fairness](#4-fairness)
5. [What is proved](#5-what-is-proved)
6. [What disagrees with the documentation](#6-what-disagrees-with-the-documentation)
7. [What is not modelled](#7-what-is-not-modelled)
8. [Plan](#8-plan)
9. [Running it](#9-running-it)

Paths are relative to the repository's root.

## 1. The system

### Components, their state and their operations

| component | code | state | operations |
|---|---|---|---|
| Write lock | `pkg/lock/lock.go`, `biz/middleware/writelock.go` | one Redis key, its value and its remaining life | `Acquire` (SET NX EX in a loop with backoff and deadline), `Release` (a script that compares the value), the middleware around every write handler |
| Configuration table | `biz/service/logic_config.go`, `biz/dal/db/config_dao.go` | table `resource_config` | `AddConfig`, `UpdateConfig`, `DeleteConfig`, `ImportConfigs` |
| Configuration cache | `logic_config.go`, `pkg/redis/redis.go` | Redis entries of single configurations (1 h), of lists per combination of filters (30 min), of maps | filled by `GetConfig`, `ListConfigs`; cleared by the four writes |
| Environments and pipelines | `environment_service.go`, `pipeline_service.go` and their DAOs | two tables with soft deletion and unique indexes | add, update, delete, list |
| Start-up | `initialize.go`, `biz/service/seed.go`, `service.go` | none of its own | schema migration, `MigrateConfigDefaults` (the scope of rows that have none), `EnsureSystemDefaults`, `MigrateToFullAssetPaths` |
| Export, import | `biz/service/transfer_service.go` | a zip archive with `configs.json` and files | full and selective export, preview, full and selective import |
| Migration | `transfer_service.go` (`MigrateConfigs`) | none of its own | copies the configurations of one scope, and their assets, to another |
| Assets | `asset_service.go`, `logic_asset.go`, `asset_dao.go` | a table, and a directory of files or a MinIO bucket | upload, read, list, restore from an archive |
| Runtime delivery | `runtime_service.go` | none | the configurations of a scope through `ListConfigs`; an overview of environments and pipelines; a static package |
| Handlers, routers, other middleware | `biz/handler`, `biz/router`, `biz/middleware` | none | decode, check, call the service, encode |
| Web console | `vue/` | what the browser shows | calls the HTTP interface |

A *scope* is an (environment key, pipeline key) pair.

### How they interact

A write request passes the write-lock middleware, if Redis is configured, and
then runs a handler that issues SQL statements one by one. Only `AddEnvironment`
uses a transaction. After its statements a configuration write clears cache
entries, one Redis command at a time, and logs the errors of these commands.
Reads take no lock: they try the cache, then the database, then fill the cache.
A full or selective import writes environments, then pipelines, then
configurations, then asset files. Start-up writes the default environment and
pipeline, and configurations too (their scope where it is empty, the paths of
images), without the lock and without clearing a cache entry. `ListConfigs`, hence
the cache, is also what a migration, a selection with resource keys and the export
tree read; the other exports and every lookup of a write go to the database.
Nothing else is shared between replicas.

### What is hard, and what makes each component correct

* **Write lock.** The key has a life of 30 s which nothing renews, handlers have
  no limit, replicas die with the key set, replies get lost. Correct: at most one
  handler while handlers respect the TTL, overlap only by overstaying, no release
  of a foreign key, bounded waiting, no lock that stays for ever.
* **Configuration table.** Check and write are separate statements without a
  transaction, and no index covers the alias. Imports resolve an item by resource
  key, by alias, or by what the same archive contained before, and start by
  clearing the whole table when they overwrite. Correct: aliases unique in a scope
  and fixed for life, no row lost that nobody asked to remove, no answer "ok" for
  what did not happen.
* **Cache.** Fill and invalidation race; KEYS and DEL are two commands;
  each may fail; a replica that starts writes behind its back. Correct: every stale value has a known cause, and none survives
  its expiration.
* **Registry.** Queries see live rows, unique indexes see deleted ones too.
  Replicas start at the same time and race for the defaults; imports write with
  numeric ids of another database; start-up writes two rows in two steps. Correct:
  whoever serves has the defaults, new environments come whole, deletion is final,
  a lost race is repaired.
* **Columns and readers.** An update skips zero values, a creation replaces them,
  deletion touches one row, and clients read several rows without a lock. Correct:
  what is set stays set, what a deletion leaves behind is never served, an overview
  shows what was there.
* **Migration.** Item by item: a lookup whose error is dropped, files, asset rows,
  the configuration, with nothing that undoes the first when the next fails; the
  source is a list that may come from the cache. Correct: what is reported succeeded
  is stored as it was listed, every copied reference opens, only an overwriting
  migration replaces anything, and only in its target.
* **Transfer.** Identities (keys, aliases, ids) that are kept, cleared or looked up
  by different paths; an overwriting import empties the table before it validates
  an item. Correct: an export is complete, no configuration changes before the whole
  archive has parsed and something in it was chosen, then only what was asked for, a
  preview is kept.
* **Assets.** A file and a row written one after the other, files rewritten in
  place while a migration may copy them, two storages, paths rewritten at every start. Correct: what was accepted
  opens, orphans and partial reads have a cause.

The hazards are listed one by one, with the line where each bites and the
properties that would catch it, in `PROJECT.json`.

## 2. The modules

```
WriteMutex  <-- refined by --  WriteLock     <- MCWriteLock,    WriteLockProofs
    ^  instantiated by
    +------------------------  ConfigStore   <- MCConfigStore,  ConfigStoreProofs
    |       ConfigTable  <-- refined by --^
    +------------------------  ConfigCache   <- MCConfigCache,  ConfigCacheProofs
    +------------------------  Migrate       <- MCMigrate,      MigrateProofs
            ConfigTable  <-- refined by --^
                               Transfer      <- MCTransfer,     TransferProofs
            ConfigTable  <-- whose steps --^  but one are its own
                               EnvRegistry   <- MCEnvRegistry,  EnvRegistryProofs
                               Console       <- MCConsole,      ConsoleProofs
                               AssetStore    <- MCAssetStore,   AssetStoreProofs
```

The lock is composed with its users through its specification: `WriteLock` is
shown to implement `WriteMutex`, and the store, the cache and the migration use the
action `WriteMutex!Enter` in the guard of a request that begins and are proved to
behave as `WriteMutex` says throughout (`MutexRespected`). In `Transfer` one
import at a time is the whole of the lock. One table appears in several modules with
the columns each needs: `ConfigStore` has its statements, `Migrate` adds what a
content refers to, `Transfer` the numeric ids. What the three share is the promise:
`ConfigTable`, of which each is an implementation (`Transfer` except for the one kind
of import item that breaks it), seen through a mapping of its rows.

### WriteMutex and WriteLock

`WriteMutex` is the promise in `writelock.go`: one write request inside at a time.
`WriteLock` is the code. `pc[r]` is the position of request `r` in
`writeLockHandler` and `Acquire`; `owner` and `ttl` are the Redis key; `waited`
counts the ticks since the deadline was set; `held` those since the SETNX. A
request's lockID is a fresh UUID, so the request stands for it.

| action | code |
|---|---|
| `SetNXWins`, `SetNXLoses` | the two answers of SETNX; a loser past its deadline answers 503, else it sleeps |
| `SetNXResent` | the reply of a successful SETNX is lost, go-redis sends the command again and loses to itself |
| `SetNXError` | `Acquire` returns an error (503); the key may have been set |
| `Cancelled` | the request's context ends during a sleep |
| `HandlerReturns`, `Release`, `ReleaseError` | `defer lock.Release` and its script |
| `Crash` | the replica dies, deferred calls do not run |
| `Tick` | one unit of time: the key ages or expires, sleepers wake |

Time is discrete. A round trip to Redis and one backoff sleep (at most 500 ms)
fit inside one tick, so `Tick` waits for pending SETNX commands. The code does not
bound a handler: `MaxHold` does, and the runs set it below and above the TTL.

### ConfigTable and ConfigStore

`ConfigTable` is the promise about the table: rows appear with a free key and a
free alias, change content, disappear one by one, or all at once. It starts from any
table that is `Tidy`, since migrations and imports start from one that has been used.
`ConfigStore` has one action per SQL statement: `Validate`, `CheckAlias`, `Create`
for `AddConfig`; `CheckExists`, `Update` or `Delete` for the two others; `Clear`,
then `Item`, `Lookup`, `Create` or `Update` for each item of an import; `Finish`
is the invalidation (modelled in `ConfigCache`) and the answer; `Abort` is an error
of a statement or the death of the replica at any point.
A UUID made by `Create` is the pair of the request and its position in the batch,
so it differs from every key a caller can give. A row is a record of scope, key,
alias and content. `Invalid` stands for every content `validateConfigContent`
refuses, the empty one included; the normalised forms of a content are one content.
`LockEnabled` says whether Redis is configured. Without it statements of all
requests interleave, as they do in the code.

### ConfigCache

One scope and one combination of list filters: entries are the single
configurations and the list. The statements of one write are one step here (the
lock, which exists wherever the cache does, keeps other writers out), while every
Redis command is a step of its own that may fail: `Del`, `KeysOf` then `DelKeys`
for `DeleteByPattern`. Readers are `Begin`, `Hit` or `Miss`, `Select`, `Set` or
`SetFails`. A replica that starts is a request as well, one that takes no lock:
`Adopt` is `MigrateConfigDefaults`, which moves rows into the scope; `Find`, `Rewrite`
and `Rewrote` are `MigrateToFullAssetPaths`, which reads all contents, computes what
they should be (`plan`; the constant `Rewritten` is any function on contents, since
what it does to a URL is the subject of `AssetStore`) and stores them one by one, over
whatever has been written since. A row that has gone meanwhile is not created again:
the update is by numeric id. `UpdateConfig`'s handler ends by reading the row through the cache and
is modelled as that. An import whose items are written one by one, meets an invalid
item, or dies halfway leaves its writes uncleared (`Abandon`).
Two history variables record why an entry may be stale: `raced` holds the readers
that hold a value read before a write, `tainted` the entries which such a value,
a failed command, an abandoned write, an import without overwrite or a start has
touched.
They are never read by a guard of the code's actions.
An import joins the keys of a scope with a colon and clears the caches of those that
split into two again; `splits` is false in a scope for which they do not, because a
key holds a colon (nothing refuses one). There only an overwriting import clears.

### EnvRegistry

A key of an environment or pipeline is *free*, *live* or *gone* (deleted softly,
still in the unique index). Replicas start with `FindEnv`, `MakeEnv`, `FindPipe`,
`MakePipe`, as `EnsureSystemDefaults` does, one statement each; a unique violation
ends the start (`failed`); `Crash` can come at any point. Requests look at live
rows and then act: `AddEnvironment` in one transaction, the others in single
statements. `GetEnv`, `PutEnv`, `GetPipe`, `PutPipe` are the loops of
`importEnvironments` and `importPipelines`, where `PutEnv` may also fail because
the numeric id in the archive is taken. The write lock is not used: start-up does
not take it, and no property of this module needs it.

### Console

The columns of environments and pipelines that requests set, one of which (`name`)
stands for name, description and sort order. A row is free, live or gone, as in
`EnvRegistry`. A writer first checks (`Check`), then runs its statement or, in
`AddEnvironment`, its transaction; `Created` and `Updated` say what GORM does with
zero values. A reader is `GetRuntimeConfig` (find the environment, find the
pipeline, list) or `GetRuntimeOverview` (list environments, then the pipelines of
each). The configurations themselves are left out: `OrphansNotServed` says that a
client gets to the list only through an environment and a pipeline that were live
while it asked. Deletion leaves everything below in place, although the manual says
it cascades (`environment.md:92` and `:146`, `channel.md:98`); the property is what
the code keeps of that promise. The histories `before` and `during` hold what was
live all along, and at some moment, since the reader began.

### Migrate

`MigrateConfigs` and `copyConfigAssets`. `Start` is the handler, which refuses a
migration onto itself; `Verify`, `List`, then for each item `Lookup` (or
`LookupFails`: its error is dropped), `CopyFile`, `CopyRow`, `Check`, `Write`, each of
which may fail and report the item. `Edit` stands for the console's other writes,
kept out by the lock while a migration is inside; `Crash` ends whatever runs.
`List` is `ListConfigs`, which answers from Redis when it can: the list may be any the
source has had (`past`, of which `ConfigCache` says when it outlives a write), and
`lagging` records that it was not the table's. Without Redis it is the table's.
A content is text, an `asset://` reference or a URL. Every image and file
configuration is stored with a URL, so `Redirected` leaves it alone: the copy of its
asset is made and never referred to. Configurations without an alias all meet one
another in the target; the last one stays and each is reported as succeeded, which
`SucceededIsStored` has to except. That property measures a success by what was listed,
and demands of a list that was up to date that the source still holds it. A new row takes the next fresh number as its UUID.
`ImplementsTable` says that a migration, the console's edits beside it included, takes
one step of `ConfigTable` at a time, with the ids as keys.

### Transfer

`ShowTree`, `Export`, `Preview` and the two imports; `Edit` is the console between
them. The tree and the selections with resource keys go through `ListConfigs`: each may
find any list its place has had (`past`), and each selection of one export another one.
Whole pipelines and environments are read from the table. A full import parses (`Parse`) before it changes anything. A selective one
writes the registry first (`Registry`) and parses and filters then (`Choose`): if
that refuses, the environments and pipelines stay. `Clear`, `ImportItem`, `Refuse` and
`Finish` are `ImportConfigs`: an item that does not validate (`Unfit`) is met after the
clearing and after any items before it, and ends the import there. `Abort` is an
error of a statement or the death of the replica at any point.
The registry is imported whatever the selection; a target suppresses it, is applied
only when both its parts are given, and need not exist. An export of a whole pipeline
takes the newest row of each alias, hence one of all rows without an alias, and
clears its key; ticking single configurations keeps the keys. Contents of type object
and keyvalue go into the archive as JSON values, which no import can read back:
`Readable` is false of such an archive, selected or not. What the model shows as
`shown` lasts until something is written. `OnlyKeyedItemsStray` relates the module to
`ConfigTable`: whatever is not an item with a resource key takes a step of the
abstract table or none, so that only such an item can repeat an alias.

### AssetStore

An upload is `Submit` (the handler's checks), `WriteFile`, `FillFile` (the rest of
`os.WriteFile`; PutObject is one step), `InsertRow`, and `CleanUp` when the row
failed, which may fail in turn. A restoration, the last loop of the imports, is
`RestoreFile`, `Fill`, `SaveRow` for one asset after another: it truncates and
rewrites a file that is there and always saves the path on disk, so under MinIO a
restored asset can no longer be opened. The `Copies` among the uploads are those of
`copyConfigAssets`: `CopyFile` reads the file of another asset in whatever state it is,
always on disk, and `InsertCopy` cleans nothing up when it fails. Readers find the row, then open what it
leads to in the configured storage. `Start` and `Crash` are the server's; `Start` may
run `MigrateToFullAssetPaths` on the image configuration `link`, whose `prefix` counts
how often the base path precedes its URL. `broken` is a history of the assets whose
upload or restoration failed or crashed after touching the file, and of the copies of
unfinished files.

## 3. The runs

| run | instance | states | properties |
|---|---|---|---|
| `lock_overstay` | 3 requests, TTL 2, timeout 3, handlers up to 4 ticks; symmetry | 447 000 | `OverlapNeedsOverstay`, `BoundedWait`, `ReleasedByOwnerOnly` |
| `lock_refines` | 3 requests, TTL 2, timeout 1, handlers up to 1 tick | 100 000 | `ImplementsMutex`, `LockRecovers` |
| `store_locked` | lock on, 3 requests, 9 jobs without keyed imports; symmetry | 39 000 | `AliasUnique`, `AliasStillFree`, `AnsweredOkMeansDone`, `ImplementsTable` |
| `store_open` | no lock, 2 requests, 10 jobs | 10 000 | `AliasForLife`, `LostOnlyOnRequest` |
| `cache_causes` | 3 requests (one a reader or a start, one a write, one of either kind), 2 keys, 9 jobs, 4 of them in a scope with a colon, failing Redis | 975 000 | `StaleHasCause`, `EventuallyFresh` |
| `env_replicas` | 2 replicas, 2 requests, 2 environments, 2 pipelines | 544 000 | `DefaultsServed`, `NewEnvironmentWhole`, `DeletionFinal`, `FailedStartRecovers` |
| `env_restart` | 1 replica, 1 request | *violated* | `StartSucceeds` |
| `console` | 2 writers that may ask for anything, 1 reader, 2 environments, 1 pipeline key; symmetry | 1 200 000 | `OrphansNotServed`, `OverviewExact`, `ColumnsOutlast` |
| `migrate` | lock and cache on, 2 migrations, 4 jobs, 2 tables, 1 console edit; symmetry | 1 278 000 | `RefsServed`, `SucceededIsStored`, `OnlyOverwriteReplaces`, `CreatesInItsPlace`, `ImplementsTable` |
| `transfer` | 2 environments, 1 pipeline key, 3 requests, 2 selections each, 2 tables, 1 foreign archive with an item that does not validate | 2 398 000 | `ExportComplete`, `OnlyChosenChange`, `OnlyKeyedItemsStray`, `PreviewKept` |
| `assets` | 1 upload, 1 copy, 1 foreign asset, 1 import, 1 reader, 2 starts | 1 792 000 | `UploadedOpens`, `OrphanHasCause`, `ReadsWhole` |
| `asset_paths` | 1 upload, 2 starts | *violated* | `DeliveredPathServed` |

Each passing run but `lock_refines` and `store_open` also checks its module's
`TypeOK`. What they show:

* **Lock.** Whatever dies or gets lost, two handlers overlap only after one has
  outlived its key, and a late release never removes a successor's key. With
  handlers within the TTL the lock is a mutex (`Serialized` is what that means for
  the handlers, and a theorem) and is found free again after every crash.
* **Store.** With the lock, and archives whose items carry no key (those that
  `ExportConfigs` writes), checks are never overtaken and the table behaves as
  `ConfigTable`. Even with neither, no interleaving changes an alias of a stored row
  or loses a row outside a delete of its key or the clearing of an overwriting import.
* **Cache.** The list of reasons for a stale entry in `StaleHasCause` is complete:
  no path forgets to clear what it has changed, except two: an import without
  overwrite, which leaves the single entries of its rows and, where a key holds a
  colon, the lists too; and a start, which clears nothing of what it moves or
  rewrites. The list names them. All of them end with the expiration.
* **Registry.** However replicas race and die between the two inserts, one that
  serves has both defaults; a failed start succeeds later unless a default was deleted.
* **Console.** No race of a reader with deletions serves what is gone or mixes
  pipelines into a wrong environment, and the filter on `is_active` hides nothing,
  since no request can make it false.
* **Migration.** Its checks hold until its last item, a dropped lookup error is caught
  by `AddConfig`, a success stores what was listed, no failure in the middle of
  copying leaves a reference that does not open, and no alias comes to occur twice.
  Only a list from the cache can make a success mean an old content or a row that is
  gone.
* **Transfer.** Overlapping selections lose nothing of a place that was taken as a
  whole; an archive that does not parse, or of which nothing was chosen, is refused
  before the table is cleared, and after the clearing no row is lost, even when an item
  is refused for its content; a conflict that the preview shows is one, where aliases
  decide. An alias occurs twice only
  after an item that carries a resource key.
* **Assets.** The only thing that can spoil an accepted upload, or a finished copy, is
  a restoration; the order file, row, clean-up leaves no orphan that is not accounted for.

### Why these bounds

Three lock requests are a holder, one that overtakes it and one that waits, which
the overstaying and resending scenarios need; the TTL of 2 leaves a tick inside it
and one at its end; `MaxHold` 4 lets a handler outlive its own key and a whole
life of its successor's. Two requests are enough for a stale check in the store;
a third can delete or import between them. Batches of two and three items hold a
repeated alias, an item without alias and one that fails after writes. In the
cache a reader or a start, a writer and one more of either kind make every race of a
fill with an invalidation or a start; two contents are one that a start rewrites and
what it makes of it, and the second key tells the list from a single entry; where
keys hold a colon only the imports differ, so fewer jobs beside them do. Two
replicas race for the defaults while a third party (a request) deletes them. Two
writers and a reader in the console are a deletion and a creation around two reads
of one overview; two environments tell a foreign pipeline from an own one. The two
migration tables hold what the code treats differently: a reference, a URL, an asset
without its file, a repeated alias, two configurations without one; one edit can fall
before, between or after the migrations. Three transfer requests are an export, an
edit and an import, or two imports of one archive; two selections may overlap, and one
edit makes the list of a place differ from an earlier one. One table holds an alias and
a row without one, the other a content that no import can read back; the foreign
archive holds an item with its key and one without, which does not validate. Two
starts are what the rewriting needs to be repeated, and a restoration over a reader,
an upload and a copy covers each pair of asset operations.
Symmetry is used only in runs without liveness properties. `waited` is bounded by
`BoundedWait` itself, `idx` by the batch, the rest by `MaxEdits`, `MaxRequests`,
`MaxSelections` and `MaxStarts` in the guards, so no state constraint is used.
Deadlock is not checked in the store, the cache and the migrations, where all
requests may be done, nor in `AssetStore`, where the server may stay down.
In the lock `Tick` is always possible in the end, elsewhere requests repeat.

## 4. Fairness

* `WriteLock!FairSpec`: time goes on, Redis answers, a handler returns and its
  deferred release runs or fails. No fairness for crashes, cancellations or arrivals.
  It is what `LockRecovers` needs: expiry does the rest.
* `ConfigCache!FairSpec`: each request takes its next step (a goroutine that is
  scheduled) and Redis removes what has expired. `WF(Step(r))` does not choose
  between success and failure of a command, so `EventuallyFresh` holds even if
  every clearing fails. Requests are finitely many, so writes do end.
* `EnvRegistry!FairSpec`: a start goes on, and one that failed or died is
  started again: `restart: unless-stopped` in every compose file, a Deployment in
  the Kubernetes manifests. Without it a failed replica would stay down.

## 5. What is proved

All theorems hold for every value of the constants that satisfies the `ASSUME` of
the module (`LockAssumption`, `ConfigAssumption`, `CacheAssumption`,
`EnvAssumption`, `ConsoleAssumption`, `MigrateAssumption`, `AssetAssumption`,
`TransferAssumption`: types, distinct null values, a single item in single
operations, fresh ids above those in use).

**WriteLockProofs.** `TypeCorrect`; `HandlerOwnsKey` (`KeyGuardsHandler`): a
handler within its TTL owns the key, which has `LockTTL - held` to live. Mutual
exclusion is not inductive, since it says nothing of the key; this is the
strengthening from which `OverlapTheorem` follows at once, and with the assumption
`MaxHold < LockTTL` also `SerializedTheorem` and `RefinementTheorem` (the lock
implements `WriteMutex`). `BoundedWaitTheorem` adds that a request asleep was still
in time; `ReleaseTheorem` is the action property, one step per action.
`KeyRunsOutTheorem`: while a key is set its owner stays the same and every tick
shortens its life, so that a crashed owner's key goes without anyone's help.

**ConfigStoreProofs.** `TypeCorrect` also carries `Shape`, which relates the
program counter to the job and the position in its batch (an item is only looked at
inside the batch and only after validation); without it `Create` could store an
invalid content. `KeyUnique`, the unique index, follows statement by statement
(`RowsSteps` says what a statement can do to the table) and gives
`AliasForLifeTheorem` and `LostOnlyOnRequestTheorem` with or without the lock.
`AliasUniqueTheorem` and `ImplementsTableTheorem` assume `LockEnabled` and
`NoKeysImported`; their invariant adds that one request is inside and that an alias
found free is still free (`AliasStillFree`), the fact the code's check-then-insert
rests on. The second assumption is needed: an import looks an item with a resource
key up by that key alone and inserts it whatever its alias.
`AliasStillFreeTheorem` and `AnsweredOkMeansDoneTheorem` follow from the same
invariant with what each statement knows of the row it acts on.

`MutexRespected`, proved in `ConfigStoreProofs`, `MigrateProofs` and
`ConfigCacheProofs`, is the other half of the composition. These modules enter by
`WriteMutex!Enter`, but a request is inside as long as its program counter says so:
the theorem shows that on every path, with errors, early returns and crashes, one
leaves before the next enters, so that every behaviour of the module is one of
`WriteMutex`, as every behaviour of `WriteLock` is (`RefinementTheorem`).

**ConfigCacheProofs.** `TypeCorrect`, and `StaleHasCauseTheorem` from the
invariant `StaleHasCause` with `HeldIsCurrent`: a reader about to fill the cache
that is not in `raced` holds what the table shows. The step lemma (`CauseStep`) goes
through the actions, those of a start included, and says for each why an entry that
becomes stale has one of the six causes. `Rewritten` is any function, so the theorem
does not depend on what a start makes of a path.

**EnvRegistryProofs.** The invariant `IInv` joins types, `Pending` (the job a
request still has names an environment or pipeline where the next statement needs
one) and `Started` (how far a start has come tells which rows exist). Every step
moves a row only from free to live or from live to gone (`EnvMoves`, `PipeMoves`),
which gives `DeletionFinalTheorem` and makes `Started` stable, hence
`DefaultsServedTheorem`; `NewEnvironmentWholeTheorem` is the action property.
`StartSucceedsTheorem` is about the claim that the run `env_restart` refutes: for a
single replica and requests that delete neither default (`DefaultsSpared`) it is true.
Its invariant `LoneStarts` says that no request runs while the replica starts, so what
it has found missing is missing when it inserts it, and that no default is gone.
`FailureLeavesDefaultTheorem` is about any number of racing replicas: a start fails
only where a default environment exists already, or has been deleted.

**ConsoleProofs.** The invariant `IInv` adds to the types that every row that was
ever created is active (`TablesSound`) and, for each reader (`ReaderOf`), what its
position says of `shown`, `todo`, `before` and `during`: `before` is live now, live
rows are in `during`, and what has been shown or is still to do covers `before`.
Writers and readers are treated apart, since a writer only moves rows and histories.

**MigrateProofs.** `Progress` says of each migration what the statement it is about
to run relies on (the item at hand, a copy whose file exists), and together with
`RefsServed` is inductive: files and asset rows only grow (`Grows`), so a reference
once served stays served (`ServedStays`). `OnlyOverwriteReplacesTheorem` goes through
the steps. `CreatesInItsPlaceTheorem` needs `LockEnabled`: `LockInv` adds that one
migration is inside and that its checked places and aliases are still as checked.
`SucceededIsStoredTheorem` speaks of a whole loop, so `StoredInv` says what each
statement knows (`KnowsOf`): the row the lookup found is still the one under that
alias, the draft has the bytes of the source item or of its copy, and each success
reported so far is stored with the content of the source. A step keeps the reports of
the earlier items because it writes one row of the target, and only under the alias
of its own item. What it demands of the source is `ListedInv`: a migration whose list
was the table's has only rows of its source at hand, and the source loses none while it
is inside (`SourceStays`: it writes its target, which is another scope). Of a list from
the cache the proofs need only that its references were served when it was the table's
and, as files and asset rows only grow, still are (`PastServed`). From `StoredInv` also
follows that each statement is a step of
`ConfigTable` (`ImplementsTableTheorem`, and from it `AliasesStayDistinct`). These two
start from tables without a repeated alias (`NoAliasRepeated`): the code has no index
that would guarantee it, and an import of keyed items can store one.

**AssetStoreProofs.** `IInv` joins types, `OrphanHasCause` and what an upload past
its file knows of it (`UploadOf`; a copy's file is on disk under either storage); the
steps of uploads and copies, restorations, readers, starts and crashes
are separate lemmas. `UploadedOpens` and `ReadsWhole` follow from it.
`PrefixBoundedTheorem` (from `LinkInv`: a saved URL was delivered by a server that has
started, and each start adds the base path once) bounds what start-up can do to a URL;
`DeliveredPathServedTheorem` draws from it where the claim that the run `asset_paths`
refutes is true.

**TransferProofs.** `ImportKnows` says what an import past its parsing knows (the
archive is readable, something in it was chosen, the rest to import is chosen); from it
`OnlyChosenChangeTheorem` follows statement by statement: a clearing comes before the
first item, and every later change is an item's; `Promised` relates the preview to the aliases that are
still to be imported, for `PreviewKeptTheorem`. `JobTyped` keeps selections typed.
`ExportCompleteTheorem` needs that rows with one alias have a newest one. Ids are
naturals below the next fresh one, so this is a lemma (`Greatest`) from the
well-foundedness of `Nat`; no induction over the set of rows is needed. Of a cached
list it needs that its rows are rows of their place with keys already assigned
(`PastBelow`).
`OnlyKeyedItemsStrayTheorem` takes the statements one by one through the mapping
(`View`) to the abstract table: an item without key that finds no row of its alias
appears, one that finds a row changes it, an edit does either or removes.

Only model-checked: the liveness properties `LockRecovers`, `EventuallyFresh` and
`FailedStartRecovers` (fairness and ENABLED are outside the prover's reach; what the
first and the last rest on besides fairness is proved as `KeyRunsOutTheorem` and
`FailureLeavesDefaultTheorem`). Every
invariant, every action property and every refinement that a passing run checks is a
theorem.

## 6. What disagrees with the documentation

Two runs end in a counterexample; `PROJECT.json` quotes the lines.

* `env_restart`: the defaults are said to be initialised at start-up; after the
  default environment was deleted through the API no replica starts any more. For a
  lone replica that deletion is the only cause (`StartSucceedsTheorem`).
* `asset_paths`: the rewriting at start-up is said to ensure full paths; under a base
  path its second run puts the base path in front once more, and no more than that
  (`PrefixBoundedTheorem`, `DeliveredPathServedTheorem`).

Others are visible in what the passing properties have to except or assume:

* "All write endpoints will serialize through this lock" (`writelock.go:15`): the key
  lives 30 s and is not renewed, so a longer handler is overtaken. `Serialized` holds
  only with `MaxHold < LockTTL`; in general `OverlapNeedsOverstay` is what remains.
* An alias is "unique within an environment and pipeline" (`README.md:985`), but no
  index says so, and an imported item with a resource key is not looked up by alias.
  Hence the assumption `NoKeysImported` of `AliasUniqueTheorem`.
* Overwriting is said to replace conflicting configurations (`export.md:287`); it first
  deletes every configuration of every scope. `LostOnlyOnRequest` and
  `OnlyChosenChange` name that exception. Without overwriting, conflicts are said to be
  skipped (`export.md:286`, `ImportFunctionality.vue:338`); they are updated.
* "Clients get the latest configuration on every request" (`config.md:326`): a list may
  be up to 30 minutes old, for the causes in `StaleHasCause`. So may the source of a
  migration (`transfer_service.go:615`), the configurations an export takes by their
  resource keys (`:907`) and the export tree (`:816`): hence `lagging` in
  `SucceededIsStored` and the past lists in `Carries`.
* "Migration is an atomic operation" (`migration.md:314`): it goes item by item, a copied
  file, an asset row and a configuration each in a statement of its own, and nothing is
  undone when a later one fails or the replica dies; `RefsServed` and
  `SucceededIsStored` are what holds of the pieces. The second half of that sentence,
  that failed configurations do not affect the others, is so. Assets are said to be migrated along (`migration.md:310`): images and
  files are stored with a URL, which `copyConfigAssets` does not redirect, so the copy of
  the asset is made and the copied configuration refers to the original.
* An import that is refused because an item does not validate
  (`logic_config.go:304-309`) has already cleared the table when it overwrites
  (`:293-297`); the items before it are stored.
* The handler of `POST /config/create` does not refuse an empty environment or pipeline
  key. The next start moves such a row to the default scope (`seed.go:82-104`) without the
  lock and without a look at aliases, so that an alias can then occur there twice.
  `AliasUnique` is about the four operations of `ConfigStore`, on rows with a scope.
* Deleting an environment or pipeline is said to delete what is below it
  (`environment.md:92`, `:146`, `channel.md:98`); the code deletes one row. What is left
  is not served (`OrphansNotServed`), but is there again for exports and migrations.
* Single configurations cannot be ticked in the preview of a full export, whose keys
  are cleared: one tick selects all items without a key of the pipeline.
* `README.md:106` and after name the default pipeline `main`, the code creates `default`.

## 7. What is not modelled

* The schema migration (`AutoMigrate`).
* What start-up writes to configurations is modelled where it can break a property of
  its own: in `ConfigCache` (`Adopt`, `Rewrite`: neither lock nor invalidation) and in
  `AssetStore` (the base path). `ConfigStore`, `Migrate` and `Transfer` have no step for
  it, so what they show holds while no replica starts: one that does changes contents
  of images under no lock and gives a scope to rows that have none (section 6).
* The descriptive columns of configurations and assets, and the formats of contents:
  `Invalid` stands for what validation refuses, `Json` for what an archive does not
  give back. Key texts are left out; of the colon that joins keys in Redis `splits`
  is what an import sees. Two scopes whose keys join to one text (`a:b` with `c`, `a`
  with `b:c`) share their entries, which one scope cannot show (`redis.go:120`).
* `ListAssets`, and the list and detail handlers of environments and pipelines: single
  queries. No handler deletes an asset.
* Contents with several references, and migrations whose assets are in MinIO: such an
  asset counts as one whose file cannot be read, and its reference stays.
* `ListConfigsAsMap` and `GetConfigByKey` (with the cached map): nothing calls them.
* Decoding and encoding in the handlers, logging, CORS, JWT, encryption, configuration loading, the
  version check: stateless, or set-up. What a handler refuses and whether it takes
  the lock is in the guards of the first action of its operation. `Recovery` is why a panic still runs the deferred `Release`.
* The web console: reacts to answers. Only what it lets the user select is modelled
  (`Choices` in `Transfer`).
* Deployment scripts, and the encoding in the generated messages: their fields are
  the records of the models.
* SQL isolation: one statement, or one transaction, is atomic, as in the databases
  the project supports at their default level for single-row writes.

## 8. Plan

The order was by how much of the system's data depends on each part: the lock, the
table and its cache, the registry; then migration, transfer, assets and the readers.
All of these are done. What would be worth adding:

1. `ConfigCache` with two scopes that share their entries, and with the map entries
   once something reads them; start-up's writes beside the statements of `ConfigStore`,
   with rows that have no scope yet.
2. A web console whose answers arrive out of order.
3. A refinement of `Transfer` by `EnvRegistry` for the registry's part of an import;
   its configurations are related to `ConfigTable` by `OnlyKeyedItemsStray`.

## 9. Running it

```
tlasany WriteLock.tla                                       # parse a module
tlc -workers 2 -config lock_refines.cfg MCWriteLock.tla     # run a configuration
tlapm WriteLockProofs.tla                                   # check its proofs
```

Every passing run ends within two to three minutes (`cache_causes`, `assets` and
`transfer` are the longest), and every proof module within a few minutes.
