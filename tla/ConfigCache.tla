----------------------------- MODULE ConfigCache -----------------------------
(***************************************************************************)
(* The Redis cache in front of the configuration table: GetConfig and      *)
(* ListConfigs fill it, AddConfig, UpdateConfig, DeleteConfig and          *)
(* ImportConfigs clear it (biz/service/logic_config.go, pkg/redis).        *)
(*                                                                         *)
(* One environment and pipeline, one combination of list filters.  Where   *)
(* the cache exists the write lock does too, so writers enter through      *)
(* WriteMutex and the statements of one write are a single step here; the  *)
(* readers take no lock.  Every Redis command may fail.  A replica that    *)
(* starts writes configurations too, without the lock and without a look   *)
(* at the cache (MigrateConfigDefaults, MigrateToFullAssetPaths).          *)
(***************************************************************************)
EXTENDS Naturals, Sequences

CONSTANTS
    Requests,
    Keys, Contents,
    NoRow,        \* no row has the key
    Absent,       \* Redis has no such key
    List,         \* the cache entry of the list
    Invalid,      \* a content that validation refuses
    Jobs,         \* what each request may ask for
    UnsplitJobs,  \* and which of it where splits is FALSE
    Rewritten     \* what the start-up makes of a content

Entries == Keys \cup {List}
Tables == [Keys -> Contents \cup {NoRow}]
Values == Contents \cup Tables

ReadJob == [op : {"read"}, entry : Entries]
WriteJob == [op : {"add", "update", "delete"}, key : Keys, content : Contents]
ImportItem == [key : Keys, content : Contents \cup {Invalid}]
ImportJob == [op : {"import"}, overwrite : BOOLEAN, batch : Seq(ImportItem)]
StartJob == [op : {"start"}]
Job == ReadJob \cup WriteJob \cup ImportJob \cup StartJob

ASSUME CacheAssumption ==
    /\ List \notin Keys
    /\ Absent \notin Values /\ NoRow \notin Values
    /\ Jobs \in [Requests -> SUBSET Job]
    /\ Rewritten \in [Contents -> Contents]

VARIABLES
    splits,    \* do the keys of the environment and pipeline, joined with a
               \* colon, split into two again?  (Nothing keeps colons out.)
    rows,      \* the table
    cache,     \* the cached value of each entry
    lasting,   \* the entries that Redis holds without an expiry
    pc, job,
    idx,       \* the position of an import in its batch
    got,       \* what each request has read and will answer
    seen,      \* the Redis keys that the KEYS command of a request returned
    plan,      \* the contents a start has computed and has still to store
    raced,     \* history: the requests holding a value read before a write
    tainted    \* history: the entries with a known reason to be stale

vars == <<splits, rows, cache, lasting, pc, job, idx, got, seen, plan, raced, tainted>>

Writing == {"write", "clear", "item", "del", "keys", "delkeys", "keysall", "delall"}
Reading == {"get", "select", "set"}
Starting == {"adopt", "find", "rewrite"}
Busy == Writing \cup Reading \cup Starting
Writers == {r \in Requests : job[r].op \notin {"read", "start"}}
Inside == {r \in Writers : pc[r] \in Writing \cup Reading}

TypeOK ==
    /\ splits \in BOOLEAN
    /\ rows \in Tables
    /\ cache \in [Entries -> Values \cup {Absent}]
    /\ lasting \subseteq Entries
    /\ pc \in [Requests -> Busy \cup {"new", "done"}]
    /\ job \in [Requests -> Job]
    /\ idx \in [Requests -> Nat \ {0}]
    /\ got \in [Requests -> Values \cup {Absent}]
    /\ seen \in [Requests -> SUBSET Entries]
    /\ plan \in [Requests -> Tables]
    /\ raced \subseteq Requests
    /\ tainted \subseteq Entries

Lock == INSTANCE WriteMutex WITH inside <- Inside

NoRows == [k \in Keys |-> NoRow]

Init ==
    /\ splits \in BOOLEAN
    /\ rows \in Tables
    /\ cache = [e \in Entries |-> Absent]
    /\ lasting = {}
    /\ pc = [r \in Requests |-> "new"]
    /\ job \in [Requests -> UNION {Jobs[r] : r \in Requests}]
    /\ \A r \in Requests : job[r] \in Jobs[r] /\ (splits \/ job[r] \in UnsplitJobs)
    /\ idx = [r \in Requests |-> 1]
    /\ got = [r \in Requests |-> Absent]
    /\ seen = [r \in Requests |-> {}]
    /\ plan = [r \in Requests |-> NoRows]
    /\ raced = {}
    /\ tainted = {}

------------------------------------------------------------------------------
Goto(r, label) == pc' = [pc EXCEPT ![r] = label]

\* What the database answers to the query behind an entry.
View(e) == IF e = List THEN rows ELSE rows[e]

\* The entry a request reads; UpdateConfig ends by reading the row it changed.
EntryOf(r) == IF job[r].op = "read" THEN job[r].entry ELSE job[r].key

\* A request arrives or a replica starts: these and reads need no lock.
Begin(r) ==
    /\ pc[r] = "new"
    /\ \/ job[r].op = "read" /\ Goto(r, "get")
       \/ job[r].op \in {"add", "update", "delete"} /\ Goto(r, "write")
       \/ job[r].op = "import" /\ Goto(r, IF job[r].overwrite THEN "clear" ELSE "item")
       \/ job[r].op = "start" /\ Goto(r, "adopt")
    /\ UNCHANGED <<rows, cache, lasting, job, splits, idx, got, seen, plan, raced, tainted>>
    /\ r \in Writers => Lock!Enter(r)

\* redis.Get: a hit is the answer; a miss and an error both go to the database.
Hit(r) ==
    /\ pc[r] = "get"
    /\ cache[EntryOf(r)] # Absent
    /\ got' = [got EXCEPT ![r] = cache[EntryOf(r)]]
    /\ Goto(r, "done")
    /\ UNCHANGED <<rows, cache, lasting, job, splits, idx, seen, plan, raced, tainted>>

Miss(r) ==
    /\ pc[r] = "get"
    /\ Goto(r, "select")
    /\ UNCHANGED <<rows, cache, lasting, job, splits, idx, got, seen, plan, raced, tainted>>

\* Mutant of Select: a row that is not found is cached too.
SelectNegative(r) ==
    /\ pc[r] = "select"
    /\ Goto(r, "set")
    /\ got' = [got EXCEPT ![r] = View(EntryOf(r))]
    /\ raced' = raced \ {r}
    /\ UNCHANGED <<rows, cache, lasting, job, splits, idx, seen, plan, tainted>>

\* The database answers; ErrResourceNotFound is not cached.
Select(r) ==
    /\ pc[r] = "select"
    /\ IF View(EntryOf(r)) = NoRow
       THEN Goto(r, "done") /\ UNCHANGED got
       ELSE Goto(r, "set") /\ got' = [got EXCEPT ![r] = View(EntryOf(r))]
    /\ raced' = raced \ {r}
    /\ UNCHANGED <<rows, cache, lasting, job, splits, idx, seen, plan, tainted>>

\* Mutant of WithExpiry: an expiration of 0 keeps the entry for ever.
WithoutExpiry(e) == lasting' = lasting \cup {e}

WithExpiry(e) == lasting' = lasting \ {e}

\* redis.Set with an expiration; its error is only logged.
Set(r) ==
    /\ pc[r] = "set"
    /\ cache' = [cache EXCEPT ![EntryOf(r)] = got[r]]
    /\ WithExpiry(EntryOf(r))
    /\ tainted' = IF r \in raced THEN tainted \cup {EntryOf(r)}
                                 ELSE tainted \ {EntryOf(r)}
    /\ Goto(r, "done")
    /\ UNCHANGED <<rows, job, splits, idx, got, seen, plan, raced>>

SetFails(r) ==
    /\ pc[r] = "set"
    /\ Goto(r, "done")
    /\ UNCHANGED <<rows, cache, lasting, job, splits, idx, got, seen, plan, raced, tainted>>

\* The table changes: whatever a reader holds for its Set is now old.  A start
\* updates by numeric id, so what it planned for a row that is gone finds none.
WriteRows(new, planned) ==
    /\ rows' = new
    /\ raced' = raced \cup {s \in Requests : pc[s] = "set"}
    /\ plan' = [s \in Requests |->
                  [k \in Keys |-> IF new[k] = NoRow THEN NoRow ELSE planned[s][k]]]

\* Mutant of CachesToClear: the single entry is forgotten.
ListToClear(r) == "keys"

\* AddConfig clears the list only, the two others begin with the single entry.
CachesToClear(r) == IF job[r].op = "add" THEN "keys" ELSE "del"

Written(r) == IF job[r].op = "delete" THEN NoRow ELSE job[r].content

\* The statements of AddConfig, UpdateConfig and DeleteConfig.
Write(r) ==
    /\ pc[r] = "write"
    /\ IF job[r].op = "add" <=> rows[job[r].key] # NoRow
       THEN Goto(r, "done") /\ UNCHANGED <<rows, plan, raced>>
       ELSE /\ WriteRows([rows EXCEPT ![job[r].key] = Written(r)], plan)
            /\ Goto(r, CachesToClear(r))
    /\ UNCHANGED <<cache, lasting, job, splits, idx, got, seen, tainted>>

\* ImportConfigs: ClearAll, then the items, then the caches.
Clear(r) ==
    /\ pc[r] = "clear"
    /\ WriteRows(NoRows, plan)
    /\ Goto(r, "item")
    /\ UNCHANGED <<cache, lasting, job, splits, idx, got, seen, tainted>>

Item(r) ==
    /\ pc[r] = "item"
    /\ idx[r] <= Len(job[r].batch)
    /\ LET item == job[r].batch[idx[r]] IN
         /\ item.content # Invalid
         /\ WriteRows([rows EXCEPT ![item.key] = item.content], plan)
         \* The single entries are cleared by an overwriting import only.
         /\ tainted' = IF job[r].overwrite THEN tainted ELSE tainted \cup {item.key}
    /\ idx' = [idx EXCEPT ![r] = @ + 1]
    /\ UNCHANGED <<cache, lasting, pc, job, splits, got, seen>>

\* The lists of a scope are cleared only if its keys split.
ItemsDone(r) ==
    /\ pc[r] = "item"
    /\ idx[r] > Len(job[r].batch)
    /\ Goto(r, IF splits THEN "keys" ELSE IF job[r].overwrite THEN "keysall" ELSE "done")
    /\ tainted' = IF splits \/ job[r].overwrite THEN tainted ELSE tainted \cup {List}
    /\ UNCHANGED <<rows, cache, lasting, job, splits, idx, got, seen, plan, raced>>

------------------------------------------------------------------------------
(* The start of a replica: it clears no entry of the cache. *)

\* MigrateConfigDefaults: rows without an environment or a pipeline, which the
\* handler of AddConfig lets in, are moved to the default scope.  Its two
\* statements are one step.
Adopt(r) ==
    /\ pc[r] = "adopt"
    /\ \E new \in Tables :
         /\ \A k \in Keys : rows[k] # NoRow => new[k] = rows[k]
         /\ WriteRows(new, plan)
         /\ tainted' = IF new = rows THEN tainted ELSE tainted \cup {List}
    /\ Goto(r, "find")
    /\ UNCHANGED <<cache, lasting, job, splits, idx, got, seen>>

\* MigrateToFullAssetPaths reads all image configurations and computes what they
\* should be.
Find(r) ==
    /\ pc[r] = "find"
    /\ plan' = [plan EXCEPT ![r] =
          [k \in Keys |-> IF rows[k] = NoRow \/ Rewritten[rows[k]] = rows[k]
                          THEN NoRow ELSE Rewritten[rows[k]]]]
    /\ Goto(r, "rewrite")
    /\ UNCHANGED <<rows, cache, lasting, job, splits, idx, got, seen, raced, tainted>>

\* It stores them one by one, over whatever was stored since it read the table.
Rewrite(r) ==
    /\ pc[r] = "rewrite"
    /\ \E k \in Keys :
         /\ plan[r][k] # NoRow
         /\ WriteRows([rows EXCEPT ![k] = plan[r][k]],
                      [plan EXCEPT ![r] = [@ EXCEPT ![k] = NoRow]])
         /\ tainted' = tainted \cup {k, List}
    /\ UNCHANGED <<cache, lasting, pc, job, splits, idx, got, seen>>

Rewrote(r) ==
    /\ pc[r] = "rewrite"
    /\ plan[r] = NoRows
    /\ Goto(r, "done")
    /\ UNCHANGED <<rows, cache, lasting, job, splits, idx, got, seen, plan, raced, tainted>>

------------------------------------------------------------------------------
(* Clearing the caches: an error is logged and the next command follows. *)

Drop(es) ==
    /\ cache' = [e \in Entries |-> IF e \in es THEN Absent ELSE cache[e]]
    /\ lasting' = lasting \ es
    /\ tainted' = tainted \ es

Keep(es) == tainted' = tainted \cup es /\ UNCHANGED <<cache, lasting>>

\* redis.Delete of the single entry.
Del(r) ==
    /\ pc[r] = "del"
    /\ Drop({job[r].key}) \/ Keep({job[r].key})
    /\ Goto(r, "keys")
    /\ UNCHANGED <<rows, job, splits, idx, got, seen, plan, raced>>

\* DeleteByPattern: KEYS, then DEL of what it returned, in two commands.
Cached(es) == {e \in es : cache[e] # Absent}

KeysOf(r) ==
    /\ pc[r] \in {"keys", "keysall"}
    /\ LET es == IF pc[r] = "keys" THEN {List} ELSE Entries IN
       \/ /\ seen' = [seen EXCEPT ![r] = Cached(es)]
          /\ UNCHANGED tainted
       \/ /\ seen' = [seen EXCEPT ![r] = {}]
          /\ tainted' = tainted \cup es
    /\ Goto(r, IF pc[r] = "keys" THEN "delkeys" ELSE "delall")
    /\ UNCHANGED <<rows, cache, lasting, job, splits, idx, got, plan, raced>>

DelKeys(r) ==
    /\ pc[r] \in {"delkeys", "delall"}
    /\ Drop(seen[r]) \/ Keep(seen[r])
    /\ Goto(r, CASE job[r].op = "update" -> "get"
                 [] pc[r] = "delkeys" /\ job[r].op = "import" /\ job[r].overwrite
                      -> "keysall"
                 [] OTHER -> "done")
    /\ seen' = [seen EXCEPT ![r] = {}]
    /\ UNCHANGED <<rows, job, splits, idx, got, plan, raced>>

\* A writer that has changed the table and not yet cleared the entry.
Clearing(r, e) ==
    \/ pc[r] = "del" /\ e \in {job[r].key, List}
    \/ pc[r] \in {"keys", "item"} /\ e = List
    \/ pc[r] = "delkeys" /\ e = List /\ List \in seen[r]
    \/ /\ job[r].op = "import" /\ job[r].overwrite
       /\ pc[r] \in {"item", "keys", "delkeys", "keysall"}
    \/ pc[r] = "delall" /\ e \in seen[r]

\* A request or a start ends early: an import meets an invalid item, a statement
\* fails or the replica dies.  What was written stays, and so do the caches of it.
Abandon(r) ==
    /\ pc[r] \in Busy
    /\ Goto(r, "done")
    /\ tainted' = tainted \cup {e \in Entries : Clearing(r, e)}
    /\ plan' = [plan EXCEPT ![r] = NoRows]
    /\ UNCHANGED <<rows, cache, lasting, job, splits, idx, got, seen, raced>>

\* Redis removes an entry whose expiration is over.
Expire(e) ==
    /\ cache[e] # Absent
    /\ e \notin lasting
    /\ cache' = [cache EXCEPT ![e] = Absent]
    /\ tainted' = tainted \ {e}
    /\ UNCHANGED <<rows, lasting, pc, job, splits, idx, got, seen, plan, raced>>

Step(r) ==
    \/ Begin(r) \/ Hit(r) \/ Miss(r) \/ Select(r) \/ Set(r) \/ SetFails(r)
    \/ Write(r) \/ Clear(r) \/ Item(r) \/ ItemsDone(r)
    \/ Adopt(r) \/ Find(r) \/ Rewrite(r) \/ Rewrote(r)
    \/ Del(r) \/ KeysOf(r) \/ DelKeys(r) \/ Abandon(r)

Next == (\E r \in Requests : Step(r)) \/ (\E e \in Entries : Expire(e))

Spec == Init /\ [][Next]_vars

\* Requests are served, and no cache entry outlives its expiration.
Fairness ==
    /\ \A r \in Requests : WF_vars(Step(r))
    /\ \A e \in Entries : WF_vars(Expire(e))

FairSpec == Spec /\ Fairness

------------------------------------------------------------------------------
Stale(e) == cache[e] # Absent /\ cache[e] # View(e)

\* A stale entry is about to be cleared, or one of six things happened to it:
\* a reader filled it with a value it had read before a write, a Redis command
\* that should have cleared it failed, a write was abandoned halfway, an import
\* without overwrite wrote the row of a single entry, such an import ended in
\* a scope whose keys do not split, or a replica started and moved or rewrote
\* the row.  Nothing else leaves a stale value: AddConfig, UpdateConfig,
\* DeleteConfig and an overwriting import clear every entry that shows what they
\* changed.
StaleHasCause ==
    \A e \in Entries : Stale(e) => e \in tainted \/ \E r \in Writers : Clearing(r, e)

\* Once the writes are over the cache agrees with the table for good: stale
\* values live no longer than their expiration, whatever caused them.
EventuallyFresh == <>[](\A e \in Entries : ~Stale(e))
==============================================================================
