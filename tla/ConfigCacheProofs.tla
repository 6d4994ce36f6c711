-------------------------- MODULE ConfigCacheProofs --------------------------
(***************************************************************************)
(* Proofs about ConfigCache for every set of requests, keys and jobs: a    *)
(* stale cache entry always has one of the listed causes.                  *)
(***************************************************************************)
EXTENDS ConfigCache, TLAPS

\* What the program counter says of the operation.
ShapeOf(r) ==
    /\ pc[r] \in {"write", "del"} => job[r].op \in {"add", "update", "delete"}
    /\ pc[r] \in {"clear", "item", "keysall", "delall"} => job[r].op = "import"
    /\ pc[r] \in {"clear", "keysall", "delall"} => job[r].overwrite
    /\ pc[r] \in Writing => r \in Writers
    /\ pc[r] \in Starting => job[r].op = "start"
    /\ pc[r] \in Reading => job[r].op \in {"read", "update"}

Shape == \A r \in Requests : ShapeOf(r)

\* A value about to be cached, and read after the last write, is current.
HeldIsCurrent ==
    \A r \in Requests : pc[r] = "set" /\ r \notin raced => got[r] = View(EntryOf(r))

LEMMA Frame ==
  ASSUME TypeOK, NEW r \in Requests, Step(r)
  PROVE  /\ job' = job /\ splits' = splits
         /\ \A s \in Requests : s # r => pc'[s] = pc[s] /\ seen'[s] = seen[s]
                                         /\ got'[s] = got[s]
BY DEF TypeOK, Step, Begin, Hit, Miss, Select, Set, SetFails, Write, Clear, Item,
   ItemsDone, Adopt, Find, Rewrite, Rewrote, Del, KeysOf, DelKeys, Abandon, Goto

LEMMA EntryType ==
  ASSUME TypeOK, NEW r \in Requests, job[r].op \in {"read", "update"}
  PROVE  EntryOf(r) \in Entries
<1>1. job[r] \in ReadJob \cup WriteJob \cup ImportJob \cup StartJob
  BY DEF TypeOK, Job
<1>2. CASE job[r] \in ReadJob
  BY <1>2 DEF EntryOf, ReadJob
<1>3. CASE job[r] \in WriteJob
  BY <1>3 DEF EntryOf, WriteJob, Entries
<1>4. CASE job[r] \in ImportJob \cup StartJob
  BY <1>4 DEF ImportJob, StartJob
<1> QED
  BY <1>1, <1>2, <1>3, <1>4

LEMMA ViewType ==
  ASSUME TypeOK, NEW e \in Entries
  PROVE  View(e) \in Values \cup {NoRow}
BY DEF TypeOK, View, Tables, Entries, Values

LEMMA WriteType ==
  ASSUME TypeOK, NEW new \in Tables, NEW planned \in [Requests -> Tables],
         WriteRows(new, planned)
  PROVE  rows' \in Tables /\ raced' \subseteq Requests /\ plan' \in [Requests -> Tables]
BY DEF TypeOK, WriteRows, Tables

\* Where an import goes from its last item.
LEMMA AfterItems ==
  ASSUME TypeOK, NEW r \in Requests, ShapeOf(r), ItemsDone(r)
  PROVE  /\ pc[r] = "item" /\ job[r].op = "import"
         /\ \/ pc'[r] = "keys" /\ tainted' = tainted
            \/ pc'[r] = "keysall" /\ job[r].overwrite /\ tainted' = tainted
            \/ pc'[r] = "done" /\ ~job[r].overwrite /\ tainted' = tainted \cup {List}
<1>1. pc[r] = "item" /\ job[r].op = "import" /\ \A l : [pc EXCEPT ![r] = l][r] = l
  BY DEF TypeOK, ShapeOf, ItemsDone
<1>2. CASE splits
  BY <1>1, <1>2 DEF ItemsDone, Goto
<1>3. CASE ~splits /\ job[r].overwrite
  BY <1>1, <1>3 DEF ItemsDone, Goto
<1>4. CASE ~splits /\ ~job[r].overwrite
  BY <1>1, <1>4 DEF ItemsDone, Goto
<1> QED
  BY <1>2, <1>3, <1>4

LEMMA StepKeepsType ==
  ASSUME TypeOK, NEW r \in Requests, ShapeOf(r), Step(r)
  PROVE  TypeOK'
<1> USE DEF Goto, Writing, Reading, Starting, Busy
<1>1. /\ job' \in [Requests -> Job] /\ splits' \in BOOLEAN
      /\ job[r] \in ReadJob \cup WriteJob \cup ImportJob \cup StartJob
      /\ plan \in [Requests -> Tables]
  BY Frame DEF TypeOK, Job
<1>2. CASE Begin(r)
  BY <1>2 DEF TypeOK, Begin
<1>3. CASE Hit(r)
  <2>1. EntryOf(r) \in Entries
    BY <1>3, EntryType DEF Hit, ShapeOf
  <2> QED
    BY <1>3, <2>1 DEF TypeOK, Hit
<1>4. CASE Miss(r) \/ SetFails(r)
  BY <1>4 DEF TypeOK, Miss, SetFails
<1>5. CASE Select(r)
  <2>1. EntryOf(r) \in Entries
    BY <1>5, EntryType DEF Select, ShapeOf
  <2>2. got' \in [Requests -> Values \cup {Absent}]
    BY <1>5, <2>1, ViewType DEF TypeOK, Select
  <2> QED
    BY <1>1, <1>5, <2>2 DEF TypeOK, Select
<1>6. CASE Set(r)
  <2>1. EntryOf(r) \in Entries
    BY <1>6, EntryType DEF Set, ShapeOf
  <2>2. cache' \in [Entries -> Values \cup {Absent}]
    BY <1>6 DEF TypeOK, Set
  <2>3. lasting' \subseteq Entries /\ tainted' \subseteq Entries
    BY <1>6, <2>1 DEF TypeOK, Set, WithExpiry
  <2> QED
    BY <1>1, <1>6, <2>2, <2>3 DEF TypeOK, Set
<1>7. CASE Write(r)
  <2>1. job[r] \in WriteJob
    BY <1>1, <1>7 DEF Write, ShapeOf, ReadJob, WriteJob, ImportJob, StartJob
  <2>2. Written(r) \in Contents \cup {NoRow}
    BY <2>1 DEF Written, WriteJob
  <2>3. rows' \in Tables /\ raced' \subseteq Requests /\ plan' \in [Requests -> Tables]
    <3>1. [rows EXCEPT ![job[r].key] = Written(r)] \in Tables
      BY <2>2 DEF TypeOK, Tables
    <3> QED
      BY <1>1, <1>7, <3>1, WriteType DEF TypeOK, Write
  <2>4. pc' \in [Requests -> Busy \cup {"new", "done"}]
    BY <1>7 DEF TypeOK, Write, CachesToClear
  <2> QED
    BY <1>1, <1>7, <2>3, <2>4 DEF TypeOK, Write
<1>8. CASE Clear(r)
  <2>1. NoRows \in Tables
    BY DEF NoRows, Tables
  <2>2. rows' \in Tables /\ raced' \subseteq Requests /\ plan' \in [Requests -> Tables]
    BY <1>1, <1>8, <2>1, WriteType DEF Clear
  <2> QED
    BY <1>8, <2>2 DEF TypeOK, Clear
<1>9. CASE Item(r)
  <2>1. job[r] \in ImportJob
    BY <1>1, <1>9 DEF Item, ShapeOf, ReadJob, WriteJob, ImportJob, StartJob
  <2>2. idx[r] \in 1 .. Len(job[r].batch) /\ idx[r] + 1 \in Nat \ {0}
    <3>1. idx[r] \in Nat \ {0} /\ Len(job[r].batch) \in Nat
      BY <2>1 DEF TypeOK, ImportJob
    <3> QED
      BY <1>9, <3>1 DEF Item
  <2>3. job[r].batch[idx[r]] \in ImportItem
    BY <2>1, <2>2 DEF ImportJob
  <2>4. /\ job[r].batch[idx[r]].content \in Contents
        /\ job[r].batch[idx[r]].key \in Keys
    BY <1>9, <2>3 DEF Item, ImportItem
  <2>5. rows' \in Tables /\ raced' \subseteq Requests /\ plan' \in [Requests -> Tables]
    <3> DEFINE item == job[r].batch[idx[r]]
    <3>1. [rows EXCEPT ![item.key] = item.content] \in Tables
      BY <2>4 DEF TypeOK, Tables
    <3> QED
      BY <1>1, <1>9, <3>1, WriteType DEF Item
  <2>6. tainted' \subseteq Entries
    BY <1>9, <2>4 DEF TypeOK, Item, Entries
  <2>7. idx' \in [Requests -> Nat \ {0}]
    BY <1>9, <2>2 DEF TypeOK, Item
  <2> QED
    BY <1>1, <1>9, <2>5, <2>6, <2>7 DEF TypeOK, Item
<1>10. CASE Del(r)
  <2>1. job[r].key \in Keys
    BY <1>1, <1>10 DEF Del, ShapeOf, ReadJob, WriteJob, ImportJob, StartJob
  <2>2. /\ cache' \in [Entries -> Values \cup {Absent}]
        /\ lasting' \subseteq Entries /\ tainted' \subseteq Entries
    BY <1>10, <2>1 DEF TypeOK, Del, Drop, Keep, Entries
  <2> QED
    BY <1>1, <1>10, <2>2 DEF TypeOK, Del
<1>11. CASE KeysOf(r)
  <2>1. seen' \in [Requests -> SUBSET Entries] /\ tainted' \subseteq Entries
    BY <1>11 DEF TypeOK, KeysOf, Cached, Entries
  <2> QED
    BY <1>1, <1>11, <2>1 DEF TypeOK, KeysOf
<1>12. CASE DelKeys(r)
  <2>1. /\ cache' \in [Entries -> Values \cup {Absent}]
        /\ lasting' \subseteq Entries /\ tainted' \subseteq Entries
    BY <1>12 DEF TypeOK, DelKeys, Drop, Keep
  <2>2. pc' \in [Requests -> Busy \cup {"new", "done"}]
    BY <1>12 DEF TypeOK, DelKeys
  <2>3. seen' \in [Requests -> SUBSET Entries]
    BY <1>12 DEF TypeOK, DelKeys
  <2> QED
    BY <1>1, <1>12, <2>1, <2>2, <2>3 DEF TypeOK, DelKeys
<1>13. CASE Abandon(r)
  <2>1. plan' \in [Requests -> Tables]
    BY <1>1, <1>13 DEF Abandon, NoRows, Tables
  <2> QED
    BY <1>13, <2>1 DEF TypeOK, Abandon
<1>14. CASE ItemsDone(r)
  <2>1. pc' \in [Requests -> Busy \cup {"new", "done"}]
    BY <1>14 DEF TypeOK, ItemsDone
  <2>2. tainted' \subseteq Entries
    BY <1>14, AfterItems DEF TypeOK, Entries
  <2> QED
    BY <1>1, <1>14, <2>1, <2>2 DEF TypeOK, ItemsDone
<1>15. CASE Adopt(r)
  <2>1. rows' \in Tables /\ raced' \subseteq Requests /\ plan' \in [Requests -> Tables]
    BY <1>1, <1>15, WriteType DEF Adopt
  <2>2. tainted' \subseteq Entries
    BY <1>15 DEF TypeOK, Adopt, Entries
  <2> QED
    BY <1>15, <2>1, <2>2 DEF TypeOK, Adopt
<1>16. CASE Find(r)
  <2>1. \A k \in Keys : rows[k] # NoRow => Rewritten[rows[k]] \in Contents
    BY CacheAssumption DEF TypeOK, Tables
  <2>2. plan' \in [Requests -> Tables]
    BY <1>1, <1>16, <2>1 DEF Find, Tables
  <2> QED
    BY <1>16, <2>2 DEF TypeOK, Find
<1>17. CASE Rewrite(r)
  <2>1. PICK k \in Keys :
          /\ plan[r][k] # NoRow
          /\ WriteRows([rows EXCEPT ![k] = plan[r][k]],
                       [plan EXCEPT ![r] = [@ EXCEPT ![k] = NoRow]])
          /\ tainted' = tainted \cup {k, List}
    BY <1>17 DEF Rewrite
  <2>2. [rows EXCEPT ![k] = plan[r][k]] \in Tables
    BY DEF TypeOK, Tables
  <2>3. [plan EXCEPT ![r] = [@ EXCEPT ![k] = NoRow]] \in [Requests -> Tables]
    BY DEF TypeOK, Tables
  <2>4. rows' \in Tables /\ raced' \subseteq Requests /\ plan' \in [Requests -> Tables]
    BY <2>1, <2>2, <2>3, WriteType
  <2>5. tainted' \subseteq Entries
    BY <2>1 DEF TypeOK, Entries
  <2> QED
    BY <1>17, <2>4, <2>5 DEF TypeOK, Rewrite
<1>18. CASE Rewrote(r)
  BY <1>18 DEF TypeOK, Rewrote
<1> QED
  BY Step(r), <1>2, <1>3, <1>4, <1>5, <1>6, <1>7, <1>8, <1>9, <1>10, <1>11,
     <1>12, <1>13, <1>14, <1>15, <1>16, <1>17, <1>18 DEF Step

LEMMA StepKeepsShape ==
  ASSUME TypeOK, NEW r \in Requests, ShapeOf(r), Step(r)
  PROVE  ShapeOf(r)'
<1> USE DEF Goto, Writing, Reading, Starting, Writers
<1>1. /\ job' = job
      /\ job[r].op \in {"read", "add", "update", "delete", "import", "start"}
      /\ \A l : [pc EXCEPT ![r] = l][r] = l
  BY Frame DEF TypeOK, Job, ReadJob, WriteJob, ImportJob, StartJob
<1>2. CASE pc'[r] = "done"
  BY <1>1, <1>2 DEF ShapeOf
<1>3. CASE Begin(r)
  BY <1>1, <1>3 DEF ShapeOf, Begin
<1>4. CASE \/ Miss(r) \/ Clear(r) \/ Item(r)
  BY <1>1, <1>4 DEF ShapeOf, Miss, Clear, Item
<1>5. CASE Select(r)
  BY <1>1, <1>5 DEF ShapeOf, Select
<1>6. CASE Write(r)
  BY <1>1, <1>6 DEF ShapeOf, Write, CachesToClear
<1>7. CASE Del(r) \/ KeysOf(r)
  BY <1>1, <1>7 DEF ShapeOf, Del, KeysOf
<1>8. CASE DelKeys(r)
  <2>1. \/ pc'[r] = "get" /\ job[r].op = "update"
        \/ pc'[r] = "keysall" /\ job[r].op = "import" /\ job[r].overwrite
        \/ pc'[r] = "done"
    BY <1>1, <1>8 DEF DelKeys
  <2> QED
    BY <1>1, <2>1 DEF ShapeOf
<1>9. CASE Hit(r) \/ Set(r) \/ SetFails(r) \/ Abandon(r)
  BY <1>1, <1>2, <1>9 DEF Hit, Set, SetFails, Abandon
<1>10. CASE ItemsDone(r)
  BY <1>1, <1>10, AfterItems DEF ShapeOf
<1>11. CASE Adopt(r) \/ Find(r) \/ Rewrite(r)
  BY <1>1, <1>11 DEF ShapeOf, Adopt, Find, Rewrite
<1>12. CASE Rewrote(r)
  BY <1>1, <1>2, <1>12 DEF Rewrote
<1> QED
  BY Step(r), <1>3, <1>4, <1>5, <1>6, <1>7, <1>8, <1>9, <1>10, <1>11, <1>12 DEF Step

LEMMA ExpireKeeps ==
  ASSUME TypeOK, Shape, NEW e \in Entries, Expire(e)
  PROVE  TypeOK' /\ Shape'
BY DEF TypeOK, Shape, ShapeOf, Expire, Writers

\* The state of the cache and of every request stays well typed.
THEOREM TypeCorrect == Spec => [](TypeOK /\ Shape)
<1>1. Init => TypeOK /\ Shape
  BY CacheAssumption DEF Init, TypeOK, Shape, ShapeOf, Writing, Reading, Starting,
     Busy, NoRows, Tables
<1>2. TypeOK /\ Shape /\ [Next]_vars => (TypeOK /\ Shape)'
  <2> SUFFICES ASSUME TypeOK, Shape, [Next]_vars PROVE (TypeOK /\ Shape)'
    OBVIOUS
  <2>1. ASSUME NEW r \in Requests, Step(r) PROVE (TypeOK /\ Shape)'
    <3>1. TypeOK' /\ ShapeOf(r)'
      BY <2>1, StepKeepsType, StepKeepsShape DEF Shape
    <3>2. \A s \in Requests : s # r => ShapeOf(s)'
      BY <2>1, Frame DEF Shape, ShapeOf, Writers
    <3> QED
      BY <3>1, <3>2 DEF Shape
  <2>2. CASE UNCHANGED vars
    BY <2>2 DEF vars, TypeOK, Shape, ShapeOf, Writers
  <2> QED
    BY <2>1, <2>2, ExpireKeeps DEF Next
<1> QED
  BY <1>1, <1>2, PTL DEF Spec
------------------------------------------------------------------------------
\* The two steps of a reader between which a write may fall.
LEMMA HeldStep ==
  ASSUME TypeOK, Shape, HeldIsCurrent, NEW r \in Requests, Step(r)
  PROVE  HeldIsCurrent'
<1> SUFFICES ASSUME NEW s \in Requests, pc'[s] = "set", s \notin raced'
             PROVE  got'[s] = View(EntryOf(s))'
  BY DEF HeldIsCurrent
<1>1. EntryOf(s)' = EntryOf(s)
  BY Frame DEF EntryOf
<1>2. (\A l : [pc EXCEPT ![r] = l][r] = l) /\ (\A v : [got EXCEPT ![r] = v][r] = v)
  BY DEF TypeOK
<1>3. CASE Select(r)
  <2>1. rows' = rows
    BY <1>3 DEF Select
  <2>2. CASE s = r
    BY <1>1, <1>2, <1>3, <2>1, <2>2 DEF Select, Goto, View
  <2>3. CASE s # r
    BY <1>1, <1>3, <2>1, <2>3, Frame DEF Select, HeldIsCurrent, View
  <2> QED
    BY <2>2, <2>3
<1>4. ASSUME s # r, rows' = rows, raced' = raced PROVE got'[s] = View(EntryOf(s))'
  BY <1>1, <1>4, Frame DEF HeldIsCurrent, View
<1>5. ASSUME pc'[r] # "set", \/ raced' = raced \cup {t \in Requests : pc[t] = "set"}
                             \/ rows' = rows /\ raced' = raced
      PROVE  got'[s] = View(EntryOf(s))'
  BY <1>4, <1>5, Frame
<1>6. CASE \/ Begin(r) \/ Hit(r) \/ Miss(r) \/ Set(r) \/ SetFails(r) \/ Del(r)
           \/ KeysOf(r) \/ DelKeys(r) \/ Abandon(r) \/ Find(r) \/ Rewrote(r)
  <2>1. rows' = rows /\ raced' = raced /\ pc'[r] # "set"
    BY <1>2, <1>6 DEF Begin, Hit, Miss, Set, SetFails, Del, KeysOf, DelKeys,
       Abandon, Find, Rewrote, Goto
  <2> QED
    BY <1>5, <2>1
<1>7. CASE Write(r) \/ Clear(r) \/ Item(r) \/ Adopt(r) \/ Rewrite(r)
  <2>1. /\ pc'[r] # "set"
        /\ \/ raced' = raced \cup {t \in Requests : pc[t] = "set"}
           \/ rows' = rows /\ raced' = raced
    BY <1>2, <1>7 DEF Write, Clear, Item, Adopt, Rewrite, WriteRows, Goto, CachesToClear
  <2> QED
    BY <1>5, <2>1
<1>8. CASE ItemsDone(r)
  <2>1. rows' = rows /\ raced' = raced /\ pc'[r] # "set"
    BY <1>8, AfterItems DEF ItemsDone, Shape
  <2> QED
    BY <1>5, <2>1
<1> QED
  BY Step(r), <1>3, <1>6, <1>7, <1>8 DEF Step

\* The other writers go on clearing what they were clearing.
LEMMA ClearingPersists ==
  ASSUME TypeOK, NEW r \in Requests, Step(r), NEW w \in Writers, w # r,
         NEW e \in Entries, Clearing(w, e)
  PROVE  w \in Writers' /\ Clearing(w, e)'
BY Frame DEF Writers, Clearing

\* The cause of a stale entry, as one formula.
Caused(e) == e \in tainted \/ \E w \in Writers : Clearing(w, e)

\* A step that neither writes the table nor the entry keeps its cause, unless
\* it was the step's own request that had still to clear it.
LEMMA CauseKept ==
  ASSUME TypeOK, StaleHasCause, NEW r \in Requests, Step(r), NEW e \in Entries,
         View(e)' = View(e), cache'[e] = cache[e],
         e \in tainted => e \in tainted' \/ ~Stale(e)',
         r \in Writers /\ Clearing(r, e) /\ Stale(e)' => Caused(e)'
  PROVE  Stale(e)' => Caused(e)'
<1> SUFFICES ASSUME Stale(e)' PROVE Caused(e)'
  OBVIOUS
<1>1. Stale(e)
  BY DEF Stale
<1>2. CASE e \in tainted
  BY <1>2 DEF Caused
<1>3. ASSUME NEW w \in Writers, Clearing(w, e), w # r PROVE Caused(e)'
  BY <1>3, ClearingPersists DEF Caused
<1>4. CASE r \in Writers /\ Clearing(r, e)
  BY <1>4
<1> QED
  BY <1>1, <1>2, <1>3, <1>4 DEF StaleHasCause

LEMMA CauseStep ==
  ASSUME TypeOK, Shape, HeldIsCurrent, StaleHasCause, NEW r \in Requests, Step(r),
         NEW e \in Entries
  PROVE  Stale(e)' => Caused(e)'
<1> USE DEF Goto
<1>1. /\ job' = job /\ ShapeOf(r)
      /\ \A l : [pc EXCEPT ![r] = l][r] = l
      /\ \A v : [seen EXCEPT ![r] = v][r] = v
      /\ r \in Writers => r \in Writers'
      /\ pc[r] \in Writing => job[r].op \notin {"read", "start"}
      /\ job[r].op \notin {"read", "start"} => r \in Writers /\ r \in Writers'
  BY Frame DEF TypeOK, Shape, ShapeOf, Writers
<1>2. CASE \/ Begin(r) \/ Hit(r) \/ Miss(r) \/ Select(r) \/ SetFails(r)
           \/ Find(r) \/ Rewrote(r)
  <2>1. rows' = rows /\ cache' = cache /\ tainted' = tainted
    BY <1>2 DEF Begin, Hit, Miss, Select, SetFails, Find, Rewrote
  <2>2. ~Clearing(r, e)
    BY <1>1, <1>2 DEF Begin, Hit, Miss, Select, SetFails, Find, Rewrote, Clearing
  <2> QED
    BY <2>1, <2>2, CauseKept DEF View
<1>3. CASE Set(r)
  <2>1. EntryOf(r) \in Entries
    BY <1>1, <1>3, EntryType DEF Set, ShapeOf, Reading
  <2>2. rows' = rows /\ ~Clearing(r, e)
    BY <1>3 DEF Set, Clearing
  <2>3. CASE e # EntryOf(r)
    <3>1. cache'[e] = cache[e] /\ (e \in tainted => e \in tainted')
      BY <1>3, <2>3 DEF TypeOK, Set
    <3> QED
      BY <2>2, <3>1, CauseKept DEF View
  <2>4. CASE e = EntryOf(r) /\ r \in raced
    BY <1>3, <2>4 DEF Set, Caused
  <2>5. CASE e = EntryOf(r) /\ r \notin raced
    <3>1. cache'[e] = View(e)
      BY <1>3, <2>1, <2>5 DEF TypeOK, Set, HeldIsCurrent
    <3> QED
      BY <2>2, <3>1 DEF Stale, View
  <2> QED
    BY <2>3, <2>4, <2>5
<1>4. CASE Write(r)
  <2>1. /\ pc[r] = "write" /\ cache' = cache /\ tainted' = tainted
        /\ job[r].op \notin {"read", "start"} /\ ~Clearing(r, e)
    BY <1>1, <1>4 DEF Write, ShapeOf, Clearing
  <2>2. CASE rows' = rows
    BY <2>1, <2>2, CauseKept DEF View
  <2>3. CASE rows' = [rows EXCEPT ![job[r].key] = Written(r)] /\ pc'[r] = "del"
    <3>1. CASE e \in {job[r].key, List}
      BY <1>1, <2>1, <2>3, <3>1 DEF Caused, Clearing
    <3>2. CASE e \notin {job[r].key, List}
      <4>1. View(e)' = View(e)
        BY <2>3, <3>2 DEF View, TypeOK, Tables, Entries
      <4> QED
        BY <2>1, <4>1, CauseKept
    <3> QED
      BY <3>1, <3>2
  <2>4. CASE /\ rows' = [rows EXCEPT ![job[r].key] = Written(r)] /\ pc'[r] = "keys"
             /\ rows[job[r].key] = NoRow
    <3>1. CASE e = List
      BY <1>1, <2>1, <2>4, <3>1 DEF Caused, Clearing
    <3>2. CASE e \notin {job[r].key, List}
      <4>1. View(e)' = View(e)
        BY <2>4, <3>2 DEF View, TypeOK, Tables, Entries
      <4> QED
        BY <2>1, <4>1, CauseKept
    <3>3. CASE e = job[r].key /\ e # List
      <4>1. ASSUME Stale(e)' PROVE Stale(e)
        <5>1. cache[e] # Absent /\ cache[e] \in Values /\ View(e) = NoRow
          BY <2>1, <2>4, <3>3, <4>1 DEF Stale, TypeOK, View
        <5> QED
          BY <5>1, CacheAssumption DEF Stale
      <4>2. ASSUME NEW w \in Writers, Clearing(w, e) PROVE Caused(e)'
        BY <2>1, <4>2, ClearingPersists DEF Caused
      <4>3. CASE e \in tainted
        BY <2>1, <4>3 DEF Caused
      <4> QED
        BY <4>1, <4>2, <4>3 DEF StaleHasCause
    <3> QED
      BY <3>1, <3>2, <3>3
  <2> QED
    BY <1>1, <1>4, <2>2, <2>3, <2>4 DEF Write, WriteRows, CachesToClear
<1>5. CASE Clear(r)
  <2>1. pc'[r] = "item" /\ job[r].op = "import" /\ job[r].overwrite
    BY <1>1, <1>5 DEF Clear, ShapeOf
  <2> QED
    BY <1>1, <2>1 DEF Caused, Clearing
<1>6. CASE Item(r)
  <2>1. /\ pc[r] = "item" /\ pc' = pc /\ job[r].op = "import"
        /\ cache' = cache /\ tainted \subseteq tainted'
    BY <1>1, <1>6 DEF Item, ShapeOf
  <2>2. CASE job[r].overwrite \/ e = List
    BY <1>1, <2>1, <2>2 DEF Caused, Clearing
  <2>3. CASE ~job[r].overwrite /\ e = job[r].batch[idx[r]].key
    BY <1>6, <2>3 DEF Item, Caused
  <2>4. CASE ~job[r].overwrite /\ e # List /\ e # job[r].batch[idx[r]].key
    <3>1. View(e)' = View(e)
      BY <1>6, <2>4 DEF Item, WriteRows, View, TypeOK, Tables, Entries
    <3>2. ~Clearing(r, e)
      BY <2>1, <2>4 DEF Clearing
    <3> QED
      BY <2>1, <3>1, <3>2, CauseKept
  <2> QED
    BY <2>2, <2>3, <2>4
<1>7. CASE ItemsDone(r)
  <2>1. rows' = rows /\ cache' = cache /\ tainted \subseteq tainted'
    BY <1>1, <1>7, AfterItems DEF ItemsDone
  <2>2. pc[r] = "item" /\ job[r].op = "import"
    BY <1>1, <1>7, AfterItems
  <2>3. ASSUME Clearing(r, e) PROVE Caused(e)'
    <3>1. e = List \/ job[r].overwrite
      BY <2>2, <2>3 DEF Clearing
    <3>2. CASE pc'[r] = "keys"
      BY <1>1, <2>2, <3>1, <3>2 DEF Clearing, Caused
    <3>3. CASE pc'[r] = "keysall" /\ job[r].overwrite
      BY <1>1, <2>2, <3>3 DEF Clearing, Caused
    <3>4. CASE ~job[r].overwrite /\ tainted' = tainted \cup {List}
      BY <3>1, <3>4 DEF Caused
    <3> QED
      BY <1>1, <1>7, <3>2, <3>3, <3>4, AfterItems
  <2> QED
    BY <2>1, <2>3, CauseKept DEF View
<1>8. ASSUME NEW es \in SUBSET Entries, Drop(es) \/ Keep(es), e \in es
      PROVE  Stale(e)' => Caused(e)'
  BY <1>8 DEF Drop, Keep, Stale, Caused
<1>9. ASSUME NEW es \in SUBSET Entries, Drop(es) \/ Keep(es), e \notin es
      PROVE  cache'[e] = cache[e] /\ (e \in tainted => e \in tainted')
  BY <1>9 DEF Drop, Keep
<1>10. CASE Del(r)
  <2>1. /\ pc[r] = "del" /\ pc'[r] = "keys" /\ rows' = rows
        /\ job[r].op \in {"add", "update", "delete"}
        /\ Drop({job[r].key}) \/ Keep({job[r].key})
    BY <1>1, <1>10 DEF Del, ShapeOf
  <2>2. CASE e = job[r].key
    BY <1>8, <2>1, <2>2
  <2>3. CASE e # job[r].key
    <3>1. cache'[e] = cache[e] /\ (e \in tainted => e \in tainted')
      BY <2>1, <2>3 DEF Drop, Keep
    <3>2. Clearing(r, e) => Caused(e)'
      BY <1>1, <2>1, <2>3 DEF Clearing, Caused
    <3> QED
      BY <2>1, <3>1, <3>2, CauseKept DEF View
  <2> QED
    BY <2>2, <2>3
<1>11. CASE KeysOf(r)
  <2>1. rows' = rows /\ cache' = cache /\ tainted \subseteq tainted'
    BY <1>11 DEF KeysOf
  <2>2. CASE pc[r] = "keys"
    <3>1. pc'[r] = "delkeys" /\ job[r].op \notin {"read", "start"}
      BY <1>1, <1>11, <2>2 DEF KeysOf, ShapeOf, Writing
    <3>2. \/ seen'[r] = Cached({List})
          \/ List \in tainted'
      BY <1>1, <1>11, <2>2 DEF KeysOf
    <3>3. Clearing(r, e) /\ Stale(e)' => Caused(e)'
      BY <1>1, <2>1, <2>2, <3>1, <3>2 DEF Clearing, Caused, Cached, Stale
    <3> QED
      BY <2>1, <3>3, CauseKept DEF View
  <2>3. CASE pc[r] = "keysall"
    <3>1. pc'[r] = "delall" /\ job[r].op \notin {"read", "start"}
      BY <1>1, <1>11, <2>3 DEF KeysOf, ShapeOf, Writing
    <3>2. \/ seen'[r] = Cached(Entries)
          \/ tainted' = tainted \cup Entries
      BY <1>1, <1>11, <2>3 DEF KeysOf
    <3>3. Stale(e)' => Caused(e)'
      BY <1>1, <2>1, <3>1, <3>2 DEF Clearing, Caused, Cached, Stale
    <3> QED
      BY <3>3
  <2> QED
    BY <1>11, <2>2, <2>3 DEF KeysOf
<1>12. CASE DelKeys(r)
  <2>1. /\ pc[r] \in {"delkeys", "delall"} /\ rows' = rows /\ job[r].op \notin {"read", "start"}
        /\ seen[r] \in SUBSET Entries /\ (Drop(seen[r]) \/ Keep(seen[r]))
    BY <1>1, <1>12 DEF DelKeys, ShapeOf, Writing, TypeOK
  <2>2. CASE e \in seen[r]
    BY <1>8, <2>1, <2>2
  <2>3. CASE e \notin seen[r]
    <3>1. cache'[e] = cache[e] /\ (e \in tainted => e \in tainted')
      BY <1>9, <2>1, <2>3
    <3>2. CASE pc[r] = "delkeys" /\ job[r].op = "import" /\ job[r].overwrite
      <4>1. pc'[r] = "keysall"
        BY <1>1, <1>12, <3>2 DEF DelKeys
      <4> QED
        BY <1>1, <3>2, <4>1 DEF Clearing, Caused
    <3>3. CASE ~(pc[r] = "delkeys" /\ job[r].op = "import" /\ job[r].overwrite)
      <4>1. ~Clearing(r, e)
        BY <2>1, <2>3, <3>3 DEF Clearing
      <4> QED
        BY <2>1, <3>1, <4>1, CauseKept DEF View
    <3> QED
      BY <3>2, <3>3
  <2> QED
    BY <2>2, <2>3
<1>13. CASE Abandon(r)
  <2>1. /\ rows' = rows /\ cache' = cache
        /\ tainted' = tainted \cup {x \in Entries : Clearing(r, x)}
    BY <1>13 DEF Abandon
  <2>2. Clearing(r, e) => Caused(e)'
    BY <2>1 DEF Caused
  <2> QED
    BY <2>1, <2>2, CauseKept DEF View
<1>14. CASE Adopt(r)
  <2>1. PICK new \in Tables :
          /\ \A k \in Keys : rows[k] # NoRow => new[k] = rows[k]
          /\ WriteRows(new, plan)
          /\ tainted' = IF new = rows THEN tainted ELSE tainted \cup {List}
    BY <1>14 DEF Adopt
  <2>2. /\ cache' = cache /\ tainted \subseteq tainted' /\ rows' = new
        /\ ~Clearing(r, e)
    BY <1>1, <1>14, <2>1 DEF Adopt, WriteRows, Clearing, ShapeOf, Starting
  <2>3. CASE rows' = rows
    BY <2>2, <2>3, CauseKept DEF View
  <2>4. CASE rows' # rows /\ e = List
    BY <2>1, <2>2, <2>4 DEF Caused
  <2>5. CASE e # List
    <3>1. e \in Keys /\ cache[e] \in Values \cup {Absent}
      BY <2>5 DEF TypeOK, Entries
    <3>2. CASE rows[e] # NoRow
      <4>1. View(e)' = View(e)
        BY <2>1, <2>2, <2>5, <3>1, <3>2 DEF View
      <4> QED
        BY <2>2, <4>1, CauseKept
    <3>3. CASE rows[e] = NoRow
      <4>1. Stale(e)' => Stale(e)
        BY <2>2, <2>5, <3>1, <3>3, CacheAssumption DEF Stale, View
      <4>2. ASSUME NEW w \in Writers, Clearing(w, e) PROVE Caused(e)'
        BY <2>2, <4>2, ClearingPersists DEF Caused
      <4>3. CASE e \in tainted
        BY <2>2, <4>3 DEF Caused
      <4> QED
        BY <4>1, <4>2, <4>3 DEF StaleHasCause
    <3> QED
      BY <3>2, <3>3
  <2> QED
    BY <2>3, <2>4, <2>5
<1>15. CASE Rewrite(r)
  <2>1. PICK k \in Keys :
          /\ rows' = [rows EXCEPT ![k] = plan[r][k]]
          /\ tainted' = tainted \cup {k, List}
    BY <1>15 DEF Rewrite, WriteRows
  <2>2. cache' = cache /\ ~Clearing(r, e)
    BY <1>1, <1>15 DEF Rewrite, Clearing, ShapeOf, Starting
  <2>3. CASE e \in {k, List}
    BY <2>1, <2>3 DEF Caused
  <2>4. CASE e \notin {k, List}
    <3>1. View(e)' = View(e)
      BY <2>1, <2>4 DEF View, TypeOK, Tables, Entries
    <3> QED
      BY <2>1, <2>2, <3>1, CauseKept
  <2> QED
    BY <2>3, <2>4
<1> QED
  BY Step(r), <1>2, <1>3, <1>4, <1>5, <1>6, <1>7, <1>10, <1>11, <1>12, <1>13, <1>14,
     <1>15 DEF Step

LEMMA CauseOfExpire ==
  ASSUME TypeOK, StaleHasCause, HeldIsCurrent, NEW x \in Entries, Expire(x)
  PROVE  StaleHasCause' /\ HeldIsCurrent'
<1>1. HeldIsCurrent'
  BY DEF Expire, HeldIsCurrent, View, EntryOf
<1>2. ASSUME NEW e \in Entries, Stale(e)'
      PROVE  e \in tainted' \/ \E w \in Writers' : Clearing(w, e)'
  <2>1. e # x /\ cache'[e] = cache[e] /\ rows' = rows
    BY <1>2 DEF Expire, Stale, TypeOK
  <2>2. Stale(e)
    BY <1>2, <2>1 DEF Stale, View
  <2>3. Writers' = Writers /\ \A w \in Writers : Clearing(w, e)' <=> Clearing(w, e)
    BY DEF Expire, Writers, Clearing
  <2> QED
    BY <2>1, <2>2, <2>3 DEF StaleHasCause, Expire
<1> QED
  BY <1>1, <1>2 DEF StaleHasCause

\* A stale entry is about to be cleared or has one of the six causes: the
\* invalidation blocks of AddConfig, UpdateConfig and DeleteConfig clear all
\* entries that show what was changed, that of ImportConfigs all but those named,
\* and a start none, for every number of readers, writers and starts, and without
\* use of the lock.
THEOREM StaleHasCauseTheorem == Spec => []StaleHasCause
<1>1. Init => HeldIsCurrent /\ StaleHasCause
  BY DEF Init, HeldIsCurrent, StaleHasCause, Stale
<1>2. TypeOK /\ Shape /\ HeldIsCurrent /\ StaleHasCause /\ [Next]_vars
        => HeldIsCurrent' /\ StaleHasCause'
  <2> SUFFICES ASSUME TypeOK, Shape, HeldIsCurrent, StaleHasCause, [Next]_vars
               PROVE  HeldIsCurrent' /\ StaleHasCause'
    OBVIOUS
  <2>1. ASSUME NEW r \in Requests, Step(r) PROVE HeldIsCurrent' /\ StaleHasCause'
    BY <2>1, HeldStep, CauseStep DEF StaleHasCause, Caused
  <2>2. CASE UNCHANGED vars
    BY <2>2 DEF vars, HeldIsCurrent, StaleHasCause, Stale, View, EntryOf, Writers,
       Clearing
  <2> QED
    BY <2>1, <2>2, CauseOfExpire DEF Next
<1> QED
  BY <1>1, <1>2, TypeCorrect, PTL DEF Spec

------------------------------------------------------------------------------
Alone == \A r, s \in Inside : r = s

\* Who is inside changes only by a step of one's own.
LEMMA OthersStay ==
  ASSUME TypeOK, NEW r \in Requests, Step(r), NEW s \in Requests, s # r
  PROVE  s \in Inside' <=> s \in Inside
BY Frame DEF Inside, Writers

LEMMA EnterOrStay ==
  ASSUME TypeOK, NEW r \in Requests, Step(r), r \notin Inside, r \in Inside'
  PROVE  Inside = {} /\ Inside' = {r}
<1>1. job' = job /\ r \in Writers
  BY Frame DEF Inside, Writers
<1>2. pc[r] \notin Writing \cup Reading
  BY <1>1 DEF Inside, Writers
<1>3. pc'[r] \in Writing \cup Reading /\ \A l : [pc EXCEPT ![r] = l][r] = l
  BY DEF Inside, TypeOK
<1>4. ~Adopt(r) /\ ~Find(r) /\ ~Rewrite(r) /\ ~Rewrote(r) /\ ~Abandon(r)
  BY <1>2, <1>3 DEF Adopt, Find, Rewrite, Rewrote, Abandon, Goto, Writing, Reading
<1>5. Begin(r)
  BY <1>2, <1>4, Step(r) DEF Step, Hit, Miss, Select, Set, SetFails, Write, Clear,
     Item, ItemsDone, Del, KeysOf, DelKeys, Writing, Reading
<1> QED
  BY <1>1, <1>5 DEF Begin, Lock!Enter

\* The writers use the lock as WriteMutex promises it, and as WriteLock gives
\* it, up to the read that ends UpdateConfig; readers and starts never enter.
THEOREM MutexRespected == Spec => Lock!Spec
<1>1. Init => Lock!Init /\ Alone
  BY DEF Init, Lock!Init, Alone, Inside, Writers, Writing, Reading
<1>2. TypeOK /\ Alone /\ [Next]_vars => [Lock!Next]_Inside /\ Alone'
  <2> SUFFICES ASSUME TypeOK, Alone, [Next]_vars
               PROVE  (Lock!Next \/ Inside' = Inside) /\ Alone'
    OBVIOUS
  <2>1. ASSUME NEW r \in Requests, Step(r)
        PROVE  (Lock!Next \/ Inside' = Inside) /\ Alone'
    <3>1. Inside \subseteq Requests /\ Inside' \subseteq Requests
      BY DEF Inside, Writers
    <3>2. CASE r \notin Inside /\ r \in Inside'
      BY <2>1, <3>2, EnterOrStay DEF Lock!Next, Lock!Enter, Alone
    <3>3. CASE r \in Inside /\ r \notin Inside'
      <4>1. Inside = {r}
        BY <3>3 DEF Alone
      <4>2. Inside' = {}
        BY <2>1, <3>1, <3>3, <4>1, OthersStay
      <4> QED
        BY <4>1, <4>2 DEF Lock!Next, Lock!Leave, Alone
    <3>4. CASE r \in Inside <=> r \in Inside'
      <4>1. Inside' = Inside
        BY <2>1, <3>1, <3>4, OthersStay
      <4> QED
        BY <4>1 DEF Alone
    <3> QED
      BY <3>2, <3>3, <3>4
  <2>2. ASSUME NEW e \in Entries, Expire(e)
        PROVE  (Lock!Next \/ Inside' = Inside) /\ Alone'
    BY <2>2 DEF Expire, Inside, Writers, Alone
  <2>3. CASE UNCHANGED vars
    BY <2>3 DEF vars, Inside, Writers, Alone
  <2> QED
    BY <2>1, <2>2, <2>3 DEF Next
<1> QED
  BY <1>1, <1>2, TypeCorrect, PTL DEF Spec, Lock!Spec
==============================================================================
