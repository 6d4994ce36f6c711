-------------------------- MODULE ConfigStoreProofs --------------------------
(***************************************************************************)
(* Proofs about ConfigStore for every set of requests, jobs and contents.  *)
(* With the write lock, and imports that name no resource keys (archives   *)
(* of whole channels or environments), aliases are unique and the table    *)
(* obeys ConfigTable.                                                      *)
(***************************************************************************)
EXTENDS ConfigStore, TLAPS

\* What the program counter says of the operation, the batch position and the
\* content already validated.
ShapeOf(r) ==
    /\ pc[r] \in {"validate", "alias", "create", "exists", "update", "delete",
                  "lookup"} => idx[r] \in 1 .. Len(job[r].batch)
    /\ job[r].op # "import" => idx[r] = 1
    /\ pc[r] \in {"clear", "item", "lookup"} => job[r].op = "import"
    /\ pc[r] = "clear" => job[r].overwrite
    /\ pc[r] \in {"validate", "exists"} => job[r].op # "import"
    /\ pc[r] \in {"alias", "create"} => job[r].op \in {"add", "import"}
    /\ pc[r] = "exists" => job[r].op \in {"update", "delete"}
    /\ pc[r] = "update" => job[r].op \in {"update", "import"}
    /\ pc[r] = "delete" => job[r].op = "delete"
    /\ pc[r] \in {"alias", "create", "update", "lookup"}
         => Cfg(r).content # Invalid
    /\ pc[r] = "exists" /\ job[r].op = "update" => Cfg(r).content # Invalid

Shape == \A r \in Requests : ShapeOf(r)

\* A step of one request says nothing about the others.
LEMMA OthersUntouched ==
  ASSUME Shape, NEW r \in Requests, job' = job,
         \A s \in Requests : s # r => pc'[s] = pc[s] /\ idx'[s] = idx[s],
         ShapeOf(r)'
  PROVE  Shape'
<1>1. ASSUME NEW s \in Requests, s # r PROVE ShapeOf(s)'
  BY <1>1 DEF Shape, ShapeOf, Cfg
<1> QED
  BY <1>1 DEF Shape

\* A configuration of the batch, and of a row to insert, is well typed.
LEMMA CfgType ==
  ASSUME TypeOK, NEW r \in Requests, idx[r] \in 1 .. Len(job[r].batch)
  PROVE  Cfg(r) \in Config
<1>1. job[r] \in JobType
  BY ConfigAssumption DEF TypeOK
<1> QED
  BY <1>1 DEF JobType, Cfg

LEMMA NewRowType ==
  ASSUME TypeOK, NEW r \in Requests, idx[r] \in 1 .. Len(job[r].batch),
         Cfg(r).content # Invalid
  PROVE  NewRow(r) \in Row
<1>1. Cfg(r) \in Config /\ Cfg(r).content \in Contents
  BY CfgType DEF Config
<1>2. <<r, idx[r]>> \in UUID
  BY DEF TypeOK, UUID
<1> QED
  BY <1>1, <1>2 DEF NewRow, Row, Config

\* The labels a step may lead to, and what else it may touch.
LEMMA FrameOfStep ==
  ASSUME TypeOK, NEW r \in Requests, Step(r)
  PROVE  /\ job' = job
         /\ \A s \in Requests : s # r => pc'[s] = pc[s] /\ idx'[s] = idx[s]
BY DEF TypeOK, Step, Begin, Validate, CheckAlias, CheckExists, Create, Update,
   Delete, Clear, Item, Lookup, Finish, Abort, Proceed, Goto, Answer

LEMMA StepKeepsType ==
  ASSUME ConfigAssumption, TypeOK, NEW r \in Requests, ShapeOf(r), Step(r)
  PROVE  TypeOK'
<1> USE DEF Running, Goto, Answer
<1>1. job[r] \in JobType /\ job' \in [Requests -> Jobs]
  BY FrameOfStep, ConfigAssumption DEF TypeOK
<1>2. CASE Begin(r)
  BY <1>2 DEF TypeOK, Begin
<1>3. CASE Validate(r)
  BY <1>3 DEF TypeOK, Validate
<1>4. CASE CheckAlias(r)
  BY <1>4 DEF TypeOK, CheckAlias
<1>5. CASE CheckExists(r)
  <2>1. job[r].op \in {"update", "delete"}
    BY <1>5 DEF CheckExists, ShapeOf
  <2> QED
    BY <1>5, <2>1 DEF TypeOK, CheckExists
<1>6. CASE Create(r)
  <2>1. NewRow(r) \in Row
    BY <1>6, NewRowType DEF Create, ShapeOf
  <2>2. rows' \in SUBSET Row
    BY <1>6, <2>1 DEF TypeOK, Create
  <2> QED
    BY <1>6, <2>2 DEF TypeOK, Create, Proceed
<1>7. CASE Update(r)
  <2>1. Cfg(r).content \in Contents
    BY <1>7, CfgType DEF Update, Config, ShapeOf
  <2>2. \A x \in rows : Updated(r, x) \in Row
    BY <2>1 DEF Updated, Row, TypeOK
  <2>3. rows' \in SUBSET Row
    BY <1>7, <2>2 DEF Update, WithKey, TypeOK
  <2> QED
    BY <1>7, <2>3 DEF TypeOK, Update, Proceed
<1>8. CASE Delete(r)
  BY <1>8 DEF TypeOK, Delete, Proceed
<1>9. CASE Clear(r)
  BY <1>9 DEF TypeOK, Clear
<1>10. CASE Item(r)
  <2>1. \A n \in Nat \ {0} : n + 1 \in Nat \ {0}
    OBVIOUS
  <2>2. idx' \in [Requests -> Nat \ {0}]
    BY <1>10, <2>1 DEF TypeOK, Item
  <2>3. /\ pc' \in [Requests -> Running \cup {"new", "done"}]
        /\ \/ answer' = answer
           \/ answer' = [answer EXCEPT ![r] = "invalid"]
        /\ rows' = rows /\ target' = target
    BY <1>10 DEF TypeOK, Item
  <2> QED
    BY <1>1, <2>2, <2>3 DEF TypeOK
<1>11. CASE Lookup(r)
  <2>1. \A x \in Found(r) : x.key \in Keys \cup UUID
    BY DEF Found, WithKey, WithAlias, Row, TypeOK
  <2> QED
    BY <1>11, <2>1 DEF TypeOK, Lookup
<1>12. CASE Finish(r)
  BY <1>12 DEF TypeOK, Finish
<1>13. CASE Abort(r)
  BY <1>13 DEF TypeOK, Abort
<1> QED
  BY Step(r), <1>2, <1>3, <1>4, <1>5, <1>6, <1>7, <1>8, <1>9, <1>10, <1>11,
     <1>12, <1>13 DEF Step

LEMMA StepKeepsShape ==
  ASSUME ConfigAssumption, TypeOK, NEW r \in Requests, ShapeOf(r), Step(r)
  PROVE  ShapeOf(r)'
<1>1. /\ job[r] \in JobType
      /\ job[r].op # "import" => Len(job[r].batch) = 1
      /\ Len(job[r].batch) \in Nat
      /\ idx[r] \in Nat \ {0}
      /\ job' = job
      /\ \A l : [pc EXCEPT ![r] = l][r] = l
      /\ \A n : [idx EXCEPT ![r] = n][r] = n
  BY FrameOfStep, ConfigAssumption DEF TypeOK, JobType
<1>2. CASE pc'[r] = "done" /\ idx'[r] = idx[r]
  BY <1>1, <1>2 DEF ShapeOf
<1>3. CASE pc'[r] \in {"finish", "item"} /\ job[r].op = "import"
  BY <1>1, <1>3 DEF ShapeOf
<1>4. CASE pc'[r] = "finish" /\ idx'[r] = idx[r]
  BY <1>1, <1>4 DEF ShapeOf
<1>5. CASE Begin(r)
  <2>1. idx' = idx /\ pc[r] = "new"
    BY <1>5 DEF Begin
  <2>2. CASE pc'[r] = "validate" /\ job[r].op # "import"
    <3>1. idx[r] = 1 /\ Len(job[r].batch) = 1 /\ idx[r] \in 1 .. Len(job[r].batch)
      BY <1>1, <2>2 DEF ShapeOf
    <3> QED
      BY <1>1, <2>1, <2>2, <3>1 DEF ShapeOf
  <2>3. CASE pc'[r] = "clear" /\ job[r].op = "import" /\ job[r].overwrite
    BY <1>1, <2>1, <2>3 DEF ShapeOf, Cfg
  <2> QED
    BY <1>1, <1>3, <1>5, <2>2, <2>3 DEF Begin, Goto
<1>6. CASE Validate(r)
  <2>1. idx' = idx /\ pc[r] = "validate" /\ Cfg(r)' = Cfg(r)
    BY <1>1, <1>6 DEF Validate, Cfg
  <2>2. CASE /\ pc'[r] = "exists" /\ job[r].op \in {"update", "delete"}
             /\ job[r].op = "delete" \/ Cfg(r).content # Invalid
    BY <1>1, <2>1, <2>2 DEF ShapeOf
  <2>3. CASE /\ pc'[r] \in {"create", "alias"} /\ job[r].op = "add"
             /\ Cfg(r).content # Invalid
    BY <1>1, <2>1, <2>3 DEF ShapeOf
  <2>4. job[r].op \in {"add", "update", "delete"}
    BY <1>1, <2>1 DEF ShapeOf, JobType
  <2> QED
    BY <1>1, <1>2, <1>6, <2>1, <2>2, <2>3, <2>4 DEF Validate, Goto, Answer
<1>7. CASE CheckAlias(r)
  <2>1. idx' = idx /\ pc[r] = "alias" /\ Cfg(r)' = Cfg(r)
    BY <1>1, <1>7 DEF CheckAlias, Cfg
  <2>2. CASE pc'[r] = "create"
    BY <1>1, <2>1, <2>2 DEF ShapeOf
  <2> QED
    BY <1>1, <1>2, <1>7, <2>1, <2>2 DEF CheckAlias, Goto, Answer
<1>8. CASE CheckExists(r)
  <2>1. idx' = idx /\ pc[r] = "exists" /\ Cfg(r)' = Cfg(r)
    BY <1>1, <1>8 DEF CheckExists, Cfg
  <2>2. job[r].op \in {"update", "delete"}
    BY <2>1 DEF ShapeOf
  <2>3. CASE pc'[r] = job[r].op
    BY <1>1, <2>1, <2>2, <2>3 DEF ShapeOf
  <2> QED
    BY <1>1, <1>2, <1>8, <2>1, <2>3 DEF CheckExists, Goto, Answer
<1>9. CASE Create(r) \/ Update(r) \/ Delete(r)
  <2>1. \/ pc'[r] = "done" /\ idx' = idx
        \/ pc'[r] = "finish" /\ idx' = idx
        \/ pc'[r] = "item" /\ job[r].op = "import"
    BY <1>1, <1>9 DEF Create, Update, Delete, Proceed, Goto, Answer
  <2> QED
    BY <1>2, <1>3, <1>4, <2>1
<1>10. CASE Clear(r)
  <2>1. pc'[r] = "item" /\ job[r].op = "import"
    BY <1>1, <1>10 DEF Clear, Goto, ShapeOf
  <2> QED
    BY <1>3, <2>1
<1>11. CASE Item(r)
  <2>1. job[r].op = "import"
    BY <1>11 DEF Item, ShapeOf
  <2>2. CASE /\ pc'[r] = "lookup" /\ idx' = idx /\ idx[r] <= Len(job[r].batch)
             /\ Cfg(r).content # Invalid
    BY <1>1, <2>1, <2>2 DEF ShapeOf, Cfg
  <2>3. \/ pc'[r] = "done" /\ idx' = idx
        \/ pc'[r] \in {"finish", "item"}
        \/ /\ pc'[r] = "lookup" /\ idx' = idx /\ idx[r] <= Len(job[r].batch)
           /\ Cfg(r).content # Invalid
    BY <1>1, <1>11 DEF Item, Goto, Answer
  <2> QED
    BY <1>2, <1>3, <2>1, <2>2, <2>3
<1>12. CASE Lookup(r)
  <2>1. idx' = idx /\ pc[r] = "lookup" /\ Cfg(r)' = Cfg(r)
    BY <1>1, <1>12 DEF Lookup, Cfg
  <2>2. pc'[r] \in {"create", "update"}
    BY <1>1, <1>12 DEF Lookup, Goto
  <2> QED
    BY <1>1, <2>1, <2>2 DEF ShapeOf
<1>13. CASE Finish(r) \/ Abort(r)
  <2>1. pc'[r] = "done" /\ idx' = idx
    BY <1>1, <1>13 DEF Finish, Abort, Goto, Answer
  <2> QED
    BY <1>2, <2>1
<1> QED
  BY Step(r), <1>5, <1>6, <1>7, <1>8, <1>9, <1>10, <1>11, <1>12, <1>13 DEF Step

\* Table, positions and answers stay well typed, and each request stays within
\* the statements its own operation runs (the handlers' control flow).
THEOREM TypeCorrect == Spec => [](TypeOK /\ Shape)
<1>1. Init => TypeOK /\ Shape
  BY ConfigAssumption DEF Init, TypeOK, Shape, ShapeOf, Cfg
<1>2. TypeOK /\ Shape /\ [Next]_vars => (TypeOK /\ Shape)'
  <2> SUFFICES ASSUME TypeOK, Shape, [Next]_vars PROVE (TypeOK /\ Shape)'
    OBVIOUS
  <2>1. ASSUME NEW r \in Requests, Step(r) PROVE (TypeOK /\ Shape)'
    <3>1. ShapeOf(r)
      BY DEF Shape
    <3>2. TypeOK' /\ ShapeOf(r)'
      BY <2>1, <3>1, ConfigAssumption, StepKeepsType, StepKeepsShape
    <3> QED
      BY <2>1, <3>2, FrameOfStep, OthersUntouched
  <2>2. CASE UNCHANGED vars
    BY <2>2 DEF vars, TypeOK, Shape, ShapeOf, Cfg
  <2> QED
    BY <2>1, <2>2 DEF Next
<1> QED
  BY <1>1, <1>2, PTL DEF Spec
------------------------------------------------------------------------------
\* The unique index uk_config_resource.
KeyUnique == \A x, y \in rows : Table!SameKey(x, y) => x = y

\* What one statement does to the table.
RowsStep(r) ==
    \/ rows' = rows
    \/ /\ pc[r] = "create"
       /\ rows' = rows \cup {NewRow(r)}
       /\ \A y \in rows : ~Table!SameKey(NewRow(r), y)
    \/ \E x \in rows :
         /\ x.scope = Cfg(r).scope /\ x.key = TargetKey(r)
         /\ rows' = (rows \ {x}) \cup {Updated(r, x)}
    \/ \E x \in rows :
         /\ pc[r] = "delete" /\ x.scope = Cfg(r).scope /\ x.key = Cfg(r).key
         /\ rows' = rows \ {x}
    \/ pc[r] = "clear" /\ rows' = {}

LEMMA RowsSteps ==
  ASSUME KeyUnique, NEW r \in Requests, Step(r)
  PROVE  RowsStep(r)
<1>1. CASE Create(r)
  <2>1. ASSUME WithKey(NewRow(r).scope, NewRow(r).key) = {}, NEW y \in rows
        PROVE  ~Table!SameKey(NewRow(r), y)
    BY <2>1 DEF WithKey, Table!SameKey
  <2> QED
    BY <1>1, <2>1 DEF Create, RowsStep
<1>2. CASE Update(r)
  <2> DEFINE hit == WithKey(Cfg(r).scope, TargetKey(r))
  <2>1. rows' = (rows \ hit) \cup {Updated(r, x) : x \in hit}
    BY <1>2 DEF Update
  <2>2. CASE hit = {}
    BY <2>1, <2>2 DEF RowsStep
  <2>3. ASSUME NEW x \in hit PROVE RowsStep(r)
    <3>1. x \in rows /\ x.scope = Cfg(r).scope /\ x.key = TargetKey(r)
      BY DEF WithKey
    <3>2. \A y \in hit : y = x
      BY <3>1 DEF WithKey, KeyUnique, Table!SameKey
    <3>3. hit = {x}
      BY <3>2
    <3>4. {Updated(r, y) : y \in hit} = {Updated(r, x)}
      BY <3>3
    <3> QED
      BY <2>1, <3>1, <3>3, <3>4 DEF RowsStep
  <2> QED
    BY <2>2, <2>3
<1>3. CASE Delete(r)
  <2> DEFINE hit == WithKey(Cfg(r).scope, Cfg(r).key)
  <2>1. rows' = rows \ hit /\ pc[r] = "delete"
    BY <1>3 DEF Delete
  <2>2. CASE hit = {}
    BY <2>1, <2>2 DEF RowsStep
  <2>3. ASSUME NEW x \in hit PROVE RowsStep(r)
    <3>1. x \in rows /\ x.scope = Cfg(r).scope /\ x.key = Cfg(r).key
      BY DEF WithKey
    <3>2. \A y \in hit : y = x
      BY <3>1 DEF WithKey, KeyUnique, Table!SameKey
    <3> QED
      BY <2>1, <3>1, <3>2 DEF RowsStep
  <2> QED
    BY <2>2, <2>3
<1>4. CASE Clear(r)
  BY <1>4 DEF Clear, RowsStep
<1>5. CASE \/ Begin(r) \/ Validate(r) \/ CheckAlias(r) \/ CheckExists(r)
           \/ Item(r) \/ Lookup(r) \/ Finish(r) \/ Abort(r)
  BY <1>5 DEF RowsStep, Begin, Validate, CheckAlias, CheckExists, Item, Lookup,
     Finish, Abort
<1> QED
  BY Step(r), <1>1, <1>2, <1>3, <1>4, <1>5 DEF Step

\* Updating a row changes neither its key nor its alias.
LEMMA UpdatedKeeps ==
  ASSUME TypeOK, NEW r \in Requests, NEW x \in rows
  PROVE  /\ Updated(r, x).scope = x.scope
         /\ Updated(r, x).key = x.key
         /\ Updated(r, x).alias = x.alias
BY DEF Updated, TypeOK, Row

LEMMA KeyUniqueStep ==
  ASSUME TypeOK, KeyUnique, NEW r \in Requests, Step(r)
  PROVE  KeyUnique'
<1>1. RowsStep(r)
  BY RowsSteps
<1>2. CASE rows' \subseteq rows
  BY <1>2 DEF KeyUnique, Table!SameKey
<1>3. CASE /\ rows' = rows \cup {NewRow(r)}
           /\ \A y \in rows : ~Table!SameKey(NewRow(r), y)
  BY <1>3 DEF KeyUnique, Table!SameKey
<1>4. ASSUME NEW x \in rows, rows' = (rows \ {x}) \cup {Updated(r, x)}
      PROVE  KeyUnique'
  BY <1>4, UpdatedKeeps DEF KeyUnique, Table!SameKey
<1> QED
  BY <1>1, <1>2, <1>3, <1>4 DEF RowsStep

LEMMA KeysUnique == Spec => [](TypeOK /\ Shape /\ KeyUnique)
<1>1. Init => KeyUnique
  BY DEF Init, KeyUnique
<1>2. TypeOK /\ KeyUnique /\ [Next]_vars => KeyUnique'
  BY KeyUniqueStep DEF Next, vars, KeyUnique
<1> QED
  BY <1>1, <1>2, TypeCorrect, PTL DEF Spec

\* A configuration keeps its alias for life: whatever updates, imports and
\* failures interleave, locked or not, no statement rewrites the alias column
\* of a row (Omit("alias") in UpdateByEnvironmentAndPipeline).
THEOREM AliasForLifeTheorem == Spec => AliasForLife
<1>1. ASSUME TypeOK, Shape, KeyUnique, [Next]_vars,
             NEW x \in rows, NEW y \in rows', Table!SameKey(x, y)
      PROVE  x.alias = y.alias
  <2>1. CASE rows' \subseteq rows
    BY <1>1, <2>1 DEF KeyUnique
  <2>2. ASSUME NEW r \in Requests, Step(r) PROVE x.alias = y.alias
    <3>1. RowsStep(r)
      BY <1>1, <2>2, RowsSteps
    <3>2. CASE /\ rows' = rows \cup {NewRow(r)}
               /\ \A z \in rows : ~Table!SameKey(NewRow(r), z)
      BY <1>1, <3>2 DEF KeyUnique, Table!SameKey
    <3>3. ASSUME NEW z \in rows, rows' = (rows \ {z}) \cup {Updated(r, z)}
          PROVE  x.alias = y.alias
      BY <1>1, <3>3, UpdatedKeeps DEF KeyUnique, Table!SameKey
    <3> QED
      BY <2>1, <3>1, <3>2, <3>3 DEF RowsStep
  <2> QED
    BY <1>1, <2>1, <2>2 DEF Next, vars
<1>2. TypeOK /\ Shape /\ KeyUnique /\ [Next]_vars
        => [\A x \in rows, y \in rows' : Table!SameKey(x, y) => x.alias = y.alias]_vars
  BY <1>1
<1> QED
  BY <1>2, KeysUnique, PTL DEF Spec, AliasForLife

\* Rows disappear only through a delete of their key or an overwriting import.
THEOREM LostOnlyOnRequestTheorem == Spec => LostOnlyOnRequest
<1> DEFINE Gone(x) == \E r \in Requests :
              \/ pc[r] = "delete" /\ Cfg(r).scope = x.scope /\ Cfg(r).key = x.key
              \/ pc[r] = "clear" /\ job[r].overwrite
<1>1. ASSUME TypeOK, Shape, KeyUnique, [Next]_vars, NEW x \in rows
      PROVE  (\E y \in rows' : Table!SameKey(x, y)) \/ Gone(x)
  <2>1. CASE rows \subseteq rows'
    BY <2>1 DEF Table!SameKey
  <2>2. ASSUME NEW r \in Requests, Step(r)
        PROVE  (\E y \in rows' : Table!SameKey(x, y)) \/ Gone(x)
    <3>1. RowsStep(r)
      BY <1>1, <2>2, RowsSteps
    <3>2. ASSUME NEW z \in rows, rows' = (rows \ {z}) \cup {Updated(r, z)}
          PROVE  \E y \in rows' : Table!SameKey(x, y)
      BY <1>1, <3>2, UpdatedKeeps DEF Table!SameKey
    <3>3. ASSUME NEW z \in rows, rows' = rows \ {z}, pc[r] = "delete",
                 z.scope = Cfg(r).scope, z.key = Cfg(r).key
          PROVE  (\E y \in rows' : Table!SameKey(x, y)) \/ Gone(x)
      <4>1. CASE x = z
        BY <3>3, <4>1
      <4>2. CASE x # z
        BY <3>3, <4>2 DEF Table!SameKey
      <4> QED
        BY <4>1, <4>2
    <3>4. CASE pc[r] = "clear"
      BY <1>1, <3>4 DEF Shape, ShapeOf
    <3> QED
      BY <2>1, <3>1, <3>2, <3>3, <3>4 DEF RowsStep
  <2> QED
    BY <1>1, <2>1, <2>2 DEF Next, vars
<1>2. TypeOK /\ Shape /\ KeyUnique /\ [Next]_vars
        => [\A x \in rows : (\E y \in rows' : Table!SameKey(x, y)) \/ Gone(x)]_vars
  BY <1>1
<1> QED
  BY <1>2, KeysUnique, PTL DEF Spec, LostOnlyOnRequest
------------------------------------------------------------------------------
(* With the lock, and imports whose items name no resource key. *)

NoKeysImported ==
    \A j \in Jobs : j.op = "import" =>
      \A i \in 1 .. Len(j.batch) : j.batch[i].key = NoKey

OneInside == \A r, s \in Inside : r = s

\* Every other request stays outside while one runs.
LEMMA OthersOutside ==
  ASSUME LockEnabled, TypeOK, OneInside, NEW r \in Requests, Step(r),
         NEW s \in Requests, s # r
  PROVE  pc'[s] \notin Running
<1>1. pc'[s] = pc[s]
  BY FrameOfStep
<1>2. CASE Begin(r)
  BY <1>1, <1>2 DEF Begin, Lock!Enter, Inside
<1>3. CASE pc[r] \in Running
  BY <1>1, <1>3 DEF OneInside, Inside
<1> QED
  BY Step(r), <1>2, <1>3 DEF Step, Validate, CheckAlias, CheckExists, Create,
     Update, Delete, Clear, Item, Lookup, Finish, Abort, Running

LEMMA OneInsideStep ==
  ASSUME LockEnabled, TypeOK, OneInside, NEW r \in Requests, Step(r)
  PROVE  OneInside'
BY OthersOutside DEF OneInside, Inside

\* A free alias stays free up to the insert, because nobody else writes.
LEMMA AliasStillFreeStep ==
  ASSUME LockEnabled, NoKeysImported, TypeOK, Shape, OneInside,
         NEW r \in Requests, Step(r)
  PROVE  AliasStillFree'
<1> SUFFICES ASSUME NEW s \in Requests, pc'[s] = "create", Cfg(s)'.alias # NoAlias
             PROVE  WithAlias(Cfg(s).scope, Cfg(s).alias)' = {}
  BY DEF AliasStillFree
<1>1. s = r
  BY OthersOutside DEF Running
<1>2. ShapeOf(r) /\ (\A l : [pc EXCEPT ![r] = l][r] = l)
  BY DEF Shape, TypeOK
<1>3. CASE /\ rows' = rows /\ Cfg(r)' = Cfg(r)
           /\ WithAlias(Cfg(r).scope, Cfg(r).alias) = {}
  BY <1>1, <1>3 DEF WithAlias
<1>4. CASE CheckAlias(r)
  <2>1. rows' = rows /\ Cfg(r)' = Cfg(r)
    BY <1>4 DEF CheckAlias, Cfg
  <2>2. WithAlias(Cfg(r).scope, Cfg(r).alias) = {}
    BY <1>1, <1>2, <1>4 DEF CheckAlias, Goto, Answer
  <2> QED
    BY <1>3, <2>1, <2>2
<1>5. CASE Lookup(r)
  <2>1. rows' = rows /\ Cfg(r)' = Cfg(r)
    BY <1>5 DEF Lookup, Cfg
  <2>2. job[r] \in Jobs /\ job[r].op = "import" /\ idx[r] \in 1 .. Len(job[r].batch)
    BY <1>2, <1>5 DEF Lookup, ShapeOf, TypeOK
  <2>3. Cfg(r).key = NoKey
    BY <2>2 DEF NoKeysImported, Cfg
  <2>4. Found(r) = {}
    BY <1>1, <1>2, <1>5 DEF Lookup, Goto
  <2>5. Cfg(r).alias # NoAlias
    BY <1>1, <2>1
  <2>6. WithAlias(Cfg(r).scope, Cfg(r).alias) = {}
    BY <2>3, <2>4, <2>5 DEF Found
  <2> QED
    BY <1>3, <2>1, <2>6
<1>6. CASE Validate(r)
  <2>1. Cfg(r)' = Cfg(r) /\ Cfg(r).alias = NoAlias
    BY <1>1, <1>2, <1>6 DEF Validate, Cfg, Goto, Answer
  <2> QED
    BY <1>1, <2>1
<1>7. CASE \/ Begin(r) \/ CheckExists(r) \/ Create(r) \/ Update(r) \/ Delete(r)
           \/ Clear(r) \/ Item(r) \/ Finish(r) \/ Abort(r)
  <2>1. pc'[r] # "create"
    BY <1>2, <1>7 DEF Begin, CheckExists, Create, Update, Delete, Clear, Item,
       Finish, Abort, Proceed, Goto, Answer, ShapeOf
  <2> QED
    BY <1>1, <2>1
<1> QED
  BY Step(r), <1>4, <1>5, <1>6, <1>7 DEF Step

LEMMA AliasUniqueStep ==
  ASSUME TypeOK, KeyUnique, AliasUnique, AliasStillFree, NEW r \in Requests, Step(r)
  PROVE  AliasUnique'
<1>1. RowsStep(r)
  BY RowsSteps
<1>2. CASE rows' \subseteq rows
  BY <1>2 DEF AliasUnique, Table!SameAlias
<1>3. CASE pc[r] = "create" /\ rows' = rows \cup {NewRow(r)}
  <2>1. \A y \in rows : ~Table!SameAlias(NewRow(r), y)
    BY <1>3 DEF AliasStillFree, WithAlias, Table!SameAlias, NewRow
  <2> QED
    BY <1>3, <2>1 DEF AliasUnique, Table!SameAlias
<1>4. ASSUME NEW x \in rows, rows' = (rows \ {x}) \cup {Updated(r, x)}
      PROVE  AliasUnique'
  BY <1>4, UpdatedKeeps DEF AliasUnique, Table!SameAlias
<1> QED
  BY <1>1, <1>2, <1>3, <1>4 DEF RowsStep

\* What holds in every state when the lock serializes the writers.
LockedInv == TypeOK /\ Shape /\ KeyUnique /\ OneInside /\ AliasStillFree /\ AliasUnique

LEMMA LockedInvariant ==
  ASSUME LockEnabled, NoKeysImported
  PROVE  Spec => []LockedInv
<1>1. Init => OneInside /\ AliasStillFree /\ AliasUnique
  BY DEF Init, OneInside, Inside, Running, AliasStillFree, AliasUnique
<1>2. TypeOK /\ Shape /\ KeyUnique /\ OneInside /\ AliasStillFree /\ AliasUnique
      /\ [Next]_vars => (OneInside /\ AliasStillFree /\ AliasUnique)'
  <2> SUFFICES ASSUME TypeOK, Shape, KeyUnique, OneInside, AliasStillFree,
                      AliasUnique, [Next]_vars
               PROVE  (OneInside /\ AliasStillFree /\ AliasUnique)'
    OBVIOUS
  <2>1. ASSUME NEW r \in Requests, Step(r)
        PROVE  (OneInside /\ AliasStillFree /\ AliasUnique)'
    BY <2>1, OneInsideStep, AliasStillFreeStep, AliasUniqueStep
  <2>2. CASE UNCHANGED vars
    BY <2>2 DEF vars, OneInside, Inside, AliasStillFree, AliasUnique, Cfg, WithAlias
  <2> QED
    BY <2>1, <2>2 DEF Next
<1> QED
  BY <1>1, <1>2, KeysUnique, PTL DEF Spec, LockedInv

\* Aliases are unique within an environment and pipeline, as the README
\* promises, although no index enforces it: the check before the insert does,
\* provided that requests are serialized and no imported item has a key.
THEOREM AliasUniqueTheorem ==
  ASSUME LockEnabled, NoKeysImported
  PROVE  Spec => [](AliasUnique /\ AliasStillFree)
BY LockedInvariant, PTL DEF LockedInv

\* The alias that AddConfig or ImportConfigs found free is free when they insert.
THEOREM AliasStillFreeTheorem ==
  ASSUME LockEnabled, NoKeysImported
  PROVE  Spec => []AliasStillFree
BY LockedInvariant, PTL DEF LockedInv

\* Under the same conditions the statement-by-statement store implements the
\* abstract table, where a row appears with an unused alias and keeps it.
THEOREM ImplementsTableTheorem ==
  ASSUME LockEnabled, NoKeysImported
  PROVE  Spec => ImplementsTable
<1>1. Init => Table!Init
  BY DEF Init, Table!Init, Table!Tidy
<1>2. LockedInv /\ [Next]_vars => [Table!Next]_rows
  <2> SUFFICES ASSUME LockedInv, [Next]_vars PROVE [Table!Next]_rows
    OBVIOUS
  <2>1. ASSUME NEW r \in Requests, Step(r) PROVE [Table!Next]_rows
    <3>1. RowsStep(r)
      BY <2>1, RowsSteps DEF LockedInv
    <3>2. CASE /\ pc[r] = "create" /\ rows' = rows \cup {NewRow(r)}
               /\ \A y \in rows : ~Table!SameKey(NewRow(r), y)
      <4>1. \A y \in rows : ~Table!SameAlias(NewRow(r), y)
        BY <3>2 DEF LockedInv, AliasStillFree, WithAlias, Table!SameAlias, NewRow
      <4> QED
        BY <3>2, <4>1 DEF Table!Next, Table!Appear
    <3>3. ASSUME NEW x \in rows, rows' = (rows \ {x}) \cup {Updated(r, x)}
          PROVE  Table!Next
      BY <3>3, UpdatedKeeps DEF LockedInv, Table!Next, Table!Change, Table!SameKey
    <3>4. ASSUME NEW x \in rows, rows' = rows \ {x} PROVE Table!Next
      BY <3>4 DEF Table!Next, Table!Disappear
    <3>5. CASE rows' = {}
      BY <3>5 DEF Table!Next, Table!Reset
    <3> QED
      BY <3>1, <3>2, <3>3, <3>4, <3>5 DEF RowsStep
  <2> QED
    BY <2>1 DEF Next, vars
<1> QED
  BY <1>1, <1>2, LockedInvariant, PTL DEF Spec, ImplementsTable, Table!Spec
------------------------------------------------------------------------------
(* What an operation has achieved by each of its statements. *)

DoneOf(r) ==
    LET b == job[r].batch IN
    /\ pc[r] \in {"new", "clear"} => idx[r] = 1
    /\ pc[r] = "alias" => job[r].op # "import"
    /\ pc[r] = "finish" => Effect(r)
    /\ pc[r] = "update" /\ job[r].op = "update" => WithKey(Cfg(r).scope, Cfg(r).key) # {}
    /\ pc[r] \in {"item", "lookup", "create", "update"} /\ job[r].op = "import" =>
         \A i \in 1 .. idx[r] - 1 : ~Repeated(b, i) => Stored(b[i])
    /\ pc[r] \in {"lookup", "create", "update"} /\ job[r].op = "import" =>
         ~Repeated(b, idx[r])
    /\ pc[r] = "update" /\ job[r].op = "import" =>
         \E x \in rows : /\ x.scope = Cfg(r).scope /\ x.key = target[r]
                         /\ x.alias = Cfg(r).alias /\ Cfg(r).alias # NoAlias

\* Writing the current item keeps what the earlier ones have stored.
LEMMA ItemStored ==
  ASSUME TypeOK, Shape, KeyUnique, NoKeysImported, NEW r \in Requests, DoneOf(r),
         job[r].op = "import", Create(r) \/ Update(r), pc'[r] = "item",
         NEW b, b = job[r].batch, NEW n, n = idx[r]
  PROVE  Stored(b[n])' /\ \A i \in 1 .. n - 1 : ~Repeated(b, i) => Stored(b[i])'
<1>1. /\ n \in 1 .. Len(b) /\ Cfg(r) = b[n] /\ job[r] \in Jobs
      /\ \A l : [pc EXCEPT ![r] = l][r] = l
  BY DEF Shape, ShapeOf, Create, Update, Cfg, TypeOK
<1>2. Cfg(r).key = NoKey
  BY <1>1 DEF NoKeysImported
<1>3. \A i \in 1 .. n - 1 : ~Repeated(b, i) => Stored(b[i])
  BY DEF DoneOf, Create, Update
<1>4. CASE Create(r)
  <2>1. rows' = rows \cup {NewRow(r)}
    BY <1>1, <1>4 DEF Create, Answer, Goto
  <2>2. NewRow(r).scope = Cfg(r).scope /\ NewRow(r).alias = Cfg(r).alias
        /\ NewRow(r).content = Cfg(r).content
    BY DEF NewRow
  <2> QED
    BY <1>1, <1>3, <2>1, <2>2 DEF Stored
<1>5. CASE Update(r)
  <2>1. pc[r] = "update" /\ ~Repeated(b, n)
    BY <1>5 DEF Update, DoneOf
  <2>2. PICK x \in rows : /\ x.scope = Cfg(r).scope /\ x.key = target[r]
                          /\ x.alias = Cfg(r).alias /\ Cfg(r).alias # NoAlias
    BY <2>1 DEF DoneOf
  <2>3. WithKey(Cfg(r).scope, TargetKey(r)) = {x}
    BY <2>2 DEF WithKey, TargetKey, KeyUnique, Table!SameKey
  <2>4. rows' = (rows \ {x}) \cup {Updated(r, x)}
    BY <1>5, <2>3 DEF Update
  <2>5. /\ Updated(r, x).scope = x.scope /\ Updated(r, x).alias = x.alias
        /\ Updated(r, x).content = Cfg(r).content
    BY <2>2 DEF Updated, TypeOK, Row
  <2>6. Stored(b[n])'
    BY <1>1, <2>2, <2>4, <2>5 DEF Stored
  <2>7. ASSUME NEW i \in 1 .. n - 1, ~Repeated(b, i) PROVE Stored(b[i])'
    <3>1. PICK z \in rows : /\ z.scope = b[i].scope /\ z.alias = b[i].alias
                            /\ z.content = b[i].content
      BY <1>3, <2>7 DEF Stored
    <3>2. z # x
      <4>1. ~Table!SameAlias(b[i], b[n]) \/ b[n].alias = NoAlias
        BY <2>1 DEF Repeated
      <4> QED
        BY <1>1, <2>2, <3>1, <4>1 DEF Table!SameAlias
    <3> QED
      BY <2>4, <3>1, <3>2 DEF Stored
  <2> QED
    BY <2>6, <2>7
<1> QED
  BY <1>4, <1>5

LEMMA DoneStep ==
  ASSUME LockedInv, LockEnabled, NoKeysImported, NEW r \in Requests, DoneOf(r), Step(r)
  PROVE  DoneOf(r)'
<1>1. /\ TypeOK /\ Shape /\ KeyUnique /\ OneInside
      /\ \A l : [pc EXCEPT ![r] = l][r] = l
      /\ ShapeOf(r) /\ job' = job /\ idx[r] \in Nat \ {0}
  BY FrameOfStep DEF LockedInv, TypeOK, Shape
<1>2. PICK b : b = job[r].batch
  OBVIOUS
<1>3. AlreadyImported(r) <=> Repeated(b, idx[r])
  BY <1>2 DEF AlreadyImported, Repeated, Cfg, Table!SameAlias
<1>4. CASE Begin(r)
  <2>1. idx'[r] = 1 /\ pc'[r] \in {"validate", "clear", "item"}
    BY <1>1, <1>4 DEF Begin, Goto, DoneOf
  <2> QED
    BY <1>1, <2>1 DEF DoneOf
<1>5. CASE Validate(r) \/ CheckAlias(r) \/ Finish(r) \/ Abort(r)
  <2>1. /\ pc'[r] \in {"validate", "exists", "alias", "create", "done"}
        /\ job[r].op = "import" => pc'[r] = "done"
    BY <1>1, <1>5 DEF Validate, CheckAlias, Finish, Abort, Goto, Answer, ShapeOf, DoneOf
  <2> QED
    BY <1>1, <2>1 DEF DoneOf
<1>6. CASE CheckExists(r)
  <2>1. /\ job[r].op \in {"update", "delete"} /\ rows' = rows /\ Cfg(r)' = Cfg(r)
        /\ pc'[r] = "done" \/ (pc'[r] = job[r].op /\ WithKey(Cfg(r).scope, Cfg(r).key) # {})
    BY <1>1, <1>6 DEF CheckExists, Goto, Answer, ShapeOf, Cfg
  <2> QED
    BY <1>1, <2>1 DEF DoneOf, WithKey
<1>7. CASE (Create(r) \/ Update(r) \/ Delete(r)) /\ job[r].op # "import"
  <2>1. /\ pc'[r] \in {"finish", "done"} /\ Cfg(r)' = Cfg(r) /\ NewRow(r)' = NewRow(r)
        /\ pc'[r] = "done" => Create(r)
    BY <1>1, <1>7 DEF Create, Update, Delete, Proceed, Goto, Answer, Cfg, NewRow
  <2>2. CASE Create(r)
    <3>1. job[r].op = "add" /\ (pc'[r] = "finish" => NewRow(r) \in rows')
      BY <1>1, <1>7, <2>2 DEF Create, ShapeOf, Answer, Goto
    <3> QED
      BY <1>1, <2>1, <3>1 DEF DoneOf, Effect
  <2>3. CASE Update(r)
    <3>1. job[r].op = "update" /\ TargetKey(r) = Cfg(r).key /\ pc[r] = "update"
      BY <1>1, <1>7, <2>3 DEF Update, ShapeOf, TargetKey
    <3>2. PICK x \in rows : x.scope = Cfg(r).scope /\ x.key = Cfg(r).key
      BY <3>1 DEF DoneOf, WithKey
    <3>3. /\ Updated(r, x) \in rows' /\ Updated(r, x).scope = x.scope
          /\ Updated(r, x).key = x.key /\ Updated(r, x).content = Cfg(r).content
      BY <1>1, <2>3, <3>1, <3>2 DEF Update, WithKey, Updated, TypeOK, Row
    <3>4. \E y \in WithKey(Cfg(r).scope, Cfg(r).key)' : y.content = Cfg(r).content
      BY <2>1, <3>2, <3>3 DEF WithKey
    <3> QED
      BY <1>1, <2>1, <3>1, <3>4 DEF DoneOf, Effect
  <2>4. CASE Delete(r)
    <3>1. job[r].op = "delete" /\ WithKey(Cfg(r).scope, Cfg(r).key)' = {}
      BY <1>1, <2>1, <2>4 DEF Delete, ShapeOf, WithKey
    <3> QED
      BY <1>1, <2>1, <3>1 DEF DoneOf, Effect
  <2> QED
    BY <1>7, <2>2, <2>3, <2>4
<1>8. CASE (Create(r) \/ Update(r) \/ Delete(r)) /\ job[r].op = "import"
  <2>1. /\ Create(r) \/ Update(r)
        /\ pc'[r] = "done" \/ (pc'[r] = "item" /\ idx'[r] = idx[r] + 1)
    BY <1>1, <1>8 DEF Create, Update, Delete, Proceed, Goto, Answer, ShapeOf, TypeOK
  <2>2. CASE pc'[r] = "done"
    BY <1>1, <2>2 DEF DoneOf
  <2>3. CASE pc'[r] = "item" /\ idx'[r] = idx[r] + 1
    <3>1. PICK n : n = idx[r]
      OBVIOUS
    <3>2. \A i \in 1 .. n : ~Repeated(b, i) => Stored(b[i])'
      BY <1>1, <1>2, <1>8, <2>1, <2>3, <3>1, ItemStored
    <3>3. job'[r].batch = b /\ 1 .. idx'[r] - 1 = 1 .. n
      BY <1>1, <1>2, <2>3, <3>1
    <3> QED
      BY <1>1, <2>3, <3>2, <3>3 DEF DoneOf
  <2> QED
    BY <2>1, <2>2, <2>3
<1>9. CASE Clear(r)
  <2>1. pc'[r] = "item" /\ idx'[r] = 1
    BY <1>1, <1>9 DEF Clear, Goto, DoneOf
  <2> QED
    BY <1>1, <2>1 DEF DoneOf
<1>10. CASE Item(r)
  <2>1. /\ job[r].op = "import" /\ rows' = rows /\ job'[r].batch = b
        /\ \A i \in 1 .. idx[r] - 1 : ~Repeated(b, i) => Stored(b[i])
    BY <1>1, <1>2, <1>10 DEF Item, ShapeOf, DoneOf
  <2>2. \A c : Stored(c)' <=> Stored(c)
    BY <2>1 DEF Stored
  <2>3. CASE idx[r] > Len(b) /\ pc'[r] = "finish"
    <3>1. job[r].batch \in Seq(Config)
      BY <1>1, ConfigAssumption DEF TypeOK, JobType
    <3>2. \A i \in 1 .. Len(b) : ~Repeated(b, i) => Stored(b[i])'
      BY <1>1, <1>2, <2>1, <2>2, <2>3, <3>1
    <3>3. Effect(r)'
      BY <1>1, <2>1, <3>2 DEF Effect
    <3> QED
      BY <1>1, <2>3, <3>3 DEF DoneOf
  <2>4. CASE pc'[r] = "done"
    BY <1>1, <2>4 DEF DoneOf
  <2>5. CASE AlreadyImported(r) /\ pc'[r] = "item" /\ idx'[r] = idx[r] + 1
    <3>1. Repeated(b, idx[r])
      BY <1>3, <2>5
    <3>2. \A i \in 1 .. idx'[r] - 1 : ~Repeated(b, i) => Stored(b[i])'
      BY <1>1, <2>1, <2>2, <2>5, <3>1
    <3> QED
      BY <1>1, <2>1, <2>5, <3>2 DEF DoneOf
  <2>6. CASE ~AlreadyImported(r) /\ pc'[r] = "lookup" /\ idx'[r] = idx[r]
    BY <1>1, <1>2, <1>3, <2>1, <2>2, <2>6 DEF DoneOf
  <2> QED
    BY <1>1, <1>2, <1>10, <2>3, <2>4, <2>5, <2>6 DEF Item, Goto, Answer, TypeOK
<1>11. CASE Lookup(r)
  <2>1. /\ job[r].op = "import" /\ rows' = rows /\ idx' = idx /\ Cfg(r)' = Cfg(r)
        /\ idx[r] \in 1 .. Len(b) /\ job[r] \in Jobs
    BY <1>1, <1>2, <1>11 DEF Lookup, ShapeOf, Cfg, TypeOK
  <2>2. Cfg(r).key = NoKey
    BY <1>2, <2>1 DEF NoKeysImported, Cfg
  <2>3. /\ \A i \in 1 .. idx[r] - 1 : ~Repeated(b, i) => Stored(b[i])
        /\ ~Repeated(b, idx[r])
    BY <1>2, <1>11, <2>1 DEF Lookup, DoneOf
  <2>4. \A c : Stored(c)' <=> Stored(c)
    BY <2>1 DEF Stored
  <2>5. \/ pc'[r] = "create"
        \/ /\ pc'[r] = "update"
           /\ \E x \in rows : /\ x.scope = Cfg(r).scope /\ x.key = target'[r]
                              /\ x.alias = Cfg(r).alias /\ Cfg(r).alias # NoAlias
    BY <1>1, <1>11, <2>2 DEF Lookup, Found, WithAlias, Goto, TypeOK
  <2> QED
    BY <1>1, <1>2, <2>1, <2>3, <2>4, <2>5 DEF DoneOf
<1> QED
  BY Step(r), <1>4, <1>5, <1>6, <1>7, <1>8, <1>9, <1>10, <1>11 DEF Step

\* Under the lock, and when imports name no resource key, an operation that is
\* about to answer "ok" finds in the table what it was asked for.
THEOREM AnsweredOkMeansDoneTheorem ==
  ASSUME LockEnabled, NoKeysImported
  PROVE  Spec => []AnsweredOkMeansDone
<1> DEFINE AllDone == \A r \in Requests : DoneOf(r)
<1>1. Init => AllDone
  BY DEF Init, DoneOf
<1>2. ASSUME LockedInv, AllDone, [Next]_vars PROVE AllDone'
  <2>1. ASSUME NEW r \in Requests, Step(r) PROVE AllDone'
    <3>1. TypeOK /\ OneInside
      BY <1>2 DEF LockedInv
    <3>2. ASSUME NEW s \in Requests, s # r PROVE DoneOf(s)'
      <4>1. pc'[s] \notin Running
        BY <2>1, <3>1, <3>2, OthersOutside
      <4>2. pc'[s] = pc[s] /\ idx'[s] = idx[s]
        BY <2>1, <3>1, <3>2, FrameOfStep
      <4> QED
        BY <1>2, <4>1, <4>2 DEF DoneOf, Running
    <3> QED
      BY <1>2, <2>1, <3>2, DoneStep
  <2>2. CASE UNCHANGED vars
    BY <1>2, <2>2 DEF vars, DoneOf, Effect, Stored, Cfg, NewRow, WithKey
  <2> QED
    BY <1>2, <2>1, <2>2 DEF Next
<1>3. LockedInv /\ AllDone => AnsweredOkMeansDone
  BY DEF DoneOf, AnsweredOkMeansDone
<1> QED
  BY <1>1, <1>2, <1>3, LockedInvariant, PTL DEF Spec

------------------------------------------------------------------------------
\* The requests use the lock as WriteMutex promises it, and as WriteLock gives
\* it: one enters when no other is inside, and leaves before the next one
\* enters, whatever the statements answer and whichever replica dies.
THEOREM MutexRespected == ASSUME LockEnabled PROVE Spec => Lock!Spec
<1>1. Init => Lock!Init /\ OneInside
  BY DEF Init, Lock!Init, OneInside, Inside, Running
<1>2. TypeOK /\ OneInside /\ [Next]_vars => [Lock!Next]_Inside /\ OneInside'
  <2> SUFFICES ASSUME TypeOK, OneInside, [Next]_vars
               PROVE  (Lock!Next \/ Inside' = Inside) /\ OneInside'
    OBVIOUS
  <2>1. ASSUME NEW r \in Requests, Step(r)
        PROVE  (Lock!Next \/ Inside' = Inside) /\ OneInside'
    <3>1. OneInside' /\ \A s \in Requests : s # r => s \notin Inside'
      BY <2>1, OneInsideStep, OthersOutside DEF Inside
    <3>2. \A s \in Requests : s # r => pc'[s] = pc[s]
      BY <2>1, FrameOfStep
    <3>3. Inside' \subseteq {r} /\ Inside \subseteq {r}
      BY <3>1, <3>2 DEF Inside
    <3>4. CASE Inside = {} /\ Inside' = {r}
      BY <3>1, <3>4 DEF Lock!Next, Lock!Enter
    <3>5. CASE Inside = {r} /\ Inside' = {}
      BY <3>1, <3>5 DEF Lock!Next, Lock!Leave
    <3> QED
      BY <3>1, <3>3, <3>4, <3>5
  <2>2. CASE UNCHANGED vars
    BY <2>2 DEF vars, Inside, OneInside
  <2> QED
    BY <2>1, <2>2 DEF Next
<1> QED
  BY <1>1, <1>2, TypeCorrect, PTL DEF Spec, Lock!Spec
==============================================================================
