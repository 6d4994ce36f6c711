--------------------------- MODULE TransferProofs ---------------------------
(***************************************************************************)
(* Proofs about Transfer for any tables, archives and selections: resource *)
(* keys stay unique through every import, an import touches only what it   *)
(* was asked for and removes no row after the clearing, exports are        *)
(* complete whatever lists the cache answers, and only items with a        *)
(* resource key can repeat an alias.                                       *)
(***************************************************************************)
EXTENDS Transfer, WellFoundedInduction, TLAPS

Archived(x) == x \in Item /\ x.key < fresh

\* What an import knows at each of its statements: a full one has parsed the
\* archive before it goes on, and none writes before something was chosen.
ImportKnows ==
    /\ pc = "idle" => todo = {}
    /\ job.full => job.selections = << >>
    /\ pc = "parse" => job.full
    /\ pc = "choose" => ~job.full
    /\ pc = "registry" /\ job.full => Readable /\ todo = archive.items
    /\ pc \in {"clear", "item"} =>
         Readable /\ \E x \in archive.items : ShouldImport(x)
    /\ pc = "clear" =>
         job.overwrite /\ todo = {x \in archive.items : ShouldImport(x)}
    /\ \A x \in todo : ShouldImport(x)

NeverEmpty ==
    /\ archive # Nothing => archive.items # {}
    /\ pc # "idle" => archive.items # {}

\* A list that was cached names rows of its place, with keys assigned before.
PastBelow ==
    \A p \in Places : \A list \in past[p] :
      \A x \in list : x.place = p /\ x.key < fresh

IInv == TypeOK /\ ImportKnows /\ NeverEmpty /\ PastBelow

LEMMA JobTyped ==
  ASSUME NEW f \in BOOLEAN, NEW ss \in Seq(Selection), NEW t \in Target, NEW o \in BOOLEAN
  PROVE  [full |-> f, selections |-> ss, target |-> t, overwrite |-> o] \in Job
BY DEF Job

LEMMA NoJobTyped == NoJob \in Job /\ NoJob.full /\ NoJob.selections = << >>
<1>1. << >> \in Seq(Selection)
  OBVIOUS
<1>2. NoTarget \in Target
  BY DEF NoTarget, Target
<1> QED
  BY <1>1, <1>2 DEF NoJob, Job

LEMMA InitIInv ==
  ASSUME TransferAssumption, Init
  PROVE  IInv
<1>1. /\ rows \in SUBSET Row /\ KeysUnique(rows) /\ Below(rows, fresh)
      /\ fresh \in Nat /\ fresh >= FirstFresh
  BY DEF Init, TransferAssumption
<1>2. archive \in Archive /\ (\A x \in archive.items : x.key < fresh)
  BY DEF Init, TransferAssumption, Nothing, Archive
<1>3. TypeOK
  <2>1. past \in [Places -> SUBSET SUBSET Row]
    BY <1>1 DEF Init, At
  <2> QED
    BY <1>1, <1>2, <2>1, NoJobTyped DEF Init, TypeOK, TransferAssumption
<1>4. ImportKnows
  BY NoJobTyped DEF Init, ImportKnows
<1>5. NeverEmpty
  BY DEF Init, NeverEmpty, TransferAssumption
<1>6. PastBelow
  BY <1>1 DEF Init, PastBelow, At, Below
<1> QED
  BY <1>3, <1>4, <1>5, <1>6 DEF IInv

-----------------------------------------------------------------------------
\* What may be ticked in a tree is a selection, and so are lists of it.
LEMMA TreeTyped ==
  ASSUME NEW list, DOMAIN list \in SUBSET Places,
         \A p \in DOMAIN list : \A x \in list[p] : x.key \in Nat
  PROVE  TreeOf(list) \in SUBSET Selection
<1>1. ASSUME NEW p \in DOMAIN list
      PROVE  [env |-> p[1], pipe |-> p[2], keys |-> {x.key : x \in list[p]}] \in Selection
  <2>1. p[1] \in Envs /\ p[2] \in Pipes
    BY DEF Places
  <2>2. {x.key : x \in list[p]} \in SUBSET Nat
    OBVIOUS
  <2> QED
    BY <2>1, <2>2 DEF Selection
<1> QED
  BY <1>1 DEF TreeOf

LEMMA ChoicesTyped ==
  ASSUME NEW t \in SUBSET Selection
  PROVE  Choices(t) \in SUBSET Selection
<1>1. ASSUME NEW n \in t PROVE [n EXCEPT !.pipe = Any, !.keys = {}] \in Selection
  BY DEF Selection
<1>2. ASSUME NEW n \in t, NEW K \in SUBSET n.keys PROVE [n EXCEPT !.keys = K] \in Selection
  BY DEF Selection
<1>3. {[n EXCEPT !.pipe = Any, !.keys = {}] : n \in t} \in SUBSET Selection
  BY <1>1
<1>4. UNION {{[n EXCEPT !.keys = K] : K \in SUBSET n.keys} : n \in t} \in SUBSET Selection
  BY <1>2
<1> QED
  BY <1>3, <1>4 DEF Choices

LEMMA ListTyped ==
  ASSUME TransferAssumption, NEW S \in SUBSET Selection, NEW ss \in Lists(S)
  PROVE  ss \in Seq(Selection) /\ \A i \in DOMAIN ss : ss[i] \in S
<1>1. PICK n \in 0 .. MaxSelections : ss \in [1 .. n -> S]
  BY DEF Lists
<1>2. n \in Nat
  BY DEF TransferAssumption
<1>3. ss \in [1 .. n -> Selection]
  BY <1>1
<1>4. ss \in Seq(Selection)
  BY <1>2, <1>3
<1> QED
  BY <1>1, <1>4

LEMMA AsItemArchived ==
  ASSUME TypeOK, NEW x \in Row, x.key < fresh
  PROVE  Archived(AsItem(x)) /\ Archived([AsItem(x) EXCEPT !.key = 0])
<1>1. /\ x \in Row /\ x.key < fresh /\ x.key \in Nat /\ fresh \in Nat /\ 0 < fresh
  BY DEF TypeOK, Row
<1>2. AsItem(x) \in Item
  BY <1>1 DEF AsItem, Item, Row
<1>3. ASSUME NEW z, z = [AsItem(x) EXCEPT !.key = 0]
      PROVE  z \in Item /\ z.key = 0
  BY <1>2, <1>3 DEF Item
<1>4. AsItem(x).key = x.key
  BY DEF AsItem
<1> QED
  BY <1>1, <1>2, <1>3, <1>4 DEF Archived

LEMMA SelectedArchived ==
  ASSUME TypeOK, PastBelow, NEW s, s.pipe # Any => <<s.env, s.pipe>> \in Places,
         NEW got \in Selected(s)
  PROVE  \A z \in got : Archived(z)
<1>1. ASSUME NEW p PROVE \A z \in Newest(p) : Archived(z)
  <2>1. \A x \in rows : x \in Row /\ x.key < fresh
    BY DEF TypeOK, Below
  <2> QED
    BY <2>1, AsItemArchived DEF Newest, At
<1>2. \A z \in UNION {Newest(p) : p \in {q \in pipes : q[1] = s.env}} : Archived(z)
  BY <1>1
<1>3. ASSUME s.pipe # Any, NEW list \in past[<<s.env, s.pipe>>]
      PROVE  \A z \in {AsItem(x) : x \in {y \in list : y.key \in s.keys}} : Archived(z)
  <2>1. \A x \in list : x \in Row /\ x.key < fresh
    BY <1>3 DEF TypeOK, PastBelow
  <2> QED
    BY <2>1, AsItemArchived
<1> QED
  BY <1>1, <1>2, <1>3 DEF Selected

-----------------------------------------------------------------------------
\* A new row with fresh id, and with a fresh key or one that was looked for in
\* vain, and a row whose content alone is replaced, leave the keys unique.
LEMMA AddedRow ==
  ASSUME TypeOK, NEW r \in Row, r.id = fresh,
         r.key = fresh \/ (r.key < fresh /\ WithKey(r.place, r.key) = {})
  PROVE  /\ rows \cup {r} \in SUBSET Row /\ KeysUnique(rows \cup {r})
         /\ Below(rows \cup {r}, fresh + 1)
<1>1. /\ rows \in SUBSET Row /\ KeysUnique(rows) /\ fresh \in Nat
      /\ \A x \in rows : x.id < fresh /\ x.key < fresh /\ x.id \in Nat /\ x.key \in Nat
  BY DEF TypeOK, Below, Row
<1>2. r.id \in Nat /\ r.key \in Nat
  BY DEF Row
<1>3. \A x \in rows : x.id # r.id /\ ~(x.place = r.place /\ x.key = r.key)
  BY <1>1, <1>2 DEF WithKey, At
<1>4. KeysUnique(rows \cup {r})
  BY <1>1, <1>3 DEF KeysUnique
<1>5. Below(rows \cup {r}, fresh + 1)
  BY <1>1, <1>2 DEF Below
<1> QED
  BY <1>1, <1>4, <1>5

LEMMA ReplacedRow ==
  ASSUME TypeOK, NEW y \in rows, NEW c \in (Texts \cup Json) \ Unfit,
         NEW S, S = (rows \ {y}) \cup {[y EXCEPT !.content = c]}
  PROVE  S \in SUBSET Row /\ KeysUnique(S) /\ Below(S, fresh)
<1>1. rows \in SUBSET Row /\ KeysUnique(rows) /\ Below(rows, fresh)
  BY DEF TypeOK
<1>2. PICK z : z = [y EXCEPT !.content = c]
  OBVIOUS
<1>3. z \in Row /\ z.id = y.id /\ z.key = y.key /\ z.place = y.place
  BY <1>1, <1>2 DEF Row
<1>4. S = (rows \ {y}) \cup {z}
  BY <1>2
<1>5. KeysUnique(S)
  BY <1>1, <1>3, <1>4 DEF KeysUnique
<1>6. Below(S, fresh)
  BY <1>1, <1>3, <1>4 DEF Below
<1> QED
  BY <1>1, <1>3, <1>4, <1>5, <1>6

\* What is remembered of a table is a list of typed rows.
LEMMA RememberKeeps ==
  ASSUME TypeOK, PastBelow, Remember, rows' \in SUBSET Row, Below(rows', fresh'),
         fresh' \in Nat, fresh <= fresh'
  PROVE  past' \in [Places -> SUBSET SUBSET Row] /\ PastBelow'
<1>1. past \in [Places -> SUBSET SUBSET Row] /\ fresh \in Nat
  BY DEF TypeOK
<1>2. \A q \in Places : At(rows', q) \in SUBSET Row
  BY DEF At
<1>3. past' \in [Places -> SUBSET SUBSET Row]
  BY <1>1, <1>2 DEF Remember
<1>4. ASSUME NEW q \in Places, NEW list \in past'[q], NEW x \in list
      PROVE  x.place = q /\ x.key < fresh'
  <2>1. list \in past[q] \/ list = At(rows', q)
    BY <1>4 DEF Remember
  <2>2. CASE list \in past[q]
    <3>1. x \in Row /\ x.place = q /\ x.key < fresh
      BY <1>1, <1>4, <2>2 DEF PastBelow
    <3>2. x.key \in Nat
      BY <3>1 DEF Row
    <3> QED
      BY <1>1, <3>1, <3>2
  <2>3. CASE list = At(rows', q)
    BY <1>4, <2>3 DEF At, Below
  <2> QED
    BY <2>1, <2>2, <2>3
<1> QED
  BY <1>3, <1>4 DEF PastBelow

LEMMA DestinationPlace ==
  ASSUME TypeOK, NEW x \in archive.items
  PROVE  x \in Item /\ x.key < fresh /\ Destination(x) \in Places
<1>1. x \in Item /\ x.key < fresh
  BY DEF TypeOK, Archive
<1>2. job.target \in Target
  BY DEF TypeOK, Job
<1> QED
  BY <1>1, <1>2 DEF Destination, Item, Target, Places

\* What the import of one item does to the table.
LEMMA ImportItemRows ==
  ASSUME IInv, ImportItem
  PROVE  /\ rows' \in SUBSET Row /\ KeysUnique(rows') /\ Below(rows', fresh')
         /\ fresh' \in Nat /\ fresh' >= fresh
         /\ todo' \in SUBSET todo /\ done' \in SUBSET (Places \X Aliases)
         /\ \A y \in rows : \E z \in rows' : [y EXCEPT !.content = z.content] = z
         /\ \E x \in archive.items :
              /\ ShouldImport(x) /\ x.content \notin Unfit
              /\ \A y \in rows' \ rows :
                   y.place = Destination(x) /\ y.content = x.content
<1>1. PICK x \in todo :
        /\ x.content \notin Unfit
        /\ todo' = todo \ {x}
        /\ done' = IF x.alias = NoAlias THEN done
                   ELSE done \cup {<<Destination(x), x.alias>>}
        /\ \/ UNCHANGED <<rows, fresh>>
           \/ /\ Found(x) = {}
              /\ rows' = rows \cup {Created(x)} /\ fresh' = fresh + 1
           \/ /\ \E y \in Found(x) :
                   rows' = (rows \ {y}) \cup {[y EXCEPT !.content = x.content]}
              /\ UNCHANGED fresh
  BY DEF ImportItem
<1>2. /\ x \in archive.items /\ ShouldImport(x) /\ fresh \in Nat /\ fresh >= FirstFresh
      /\ rows \in SUBSET Row /\ KeysUnique(rows) /\ Below(rows, fresh)
      /\ done \in SUBSET (Places \X Aliases)
  BY DEF IInv, TypeOK, ImportKnows
<1>3. /\ x \in Item /\ x.key < fresh /\ Destination(x) \in Places
      /\ x.key \in Nat /\ x.alias \in Aliases \cup {NoAlias} /\ x.content \in Texts \cup Json
  BY <1>2, DestinationPlace DEF IInv, Item
<1>4. todo' \in SUBSET todo /\ done' \in SUBSET (Places \X Aliases)
  BY <1>1, <1>2, <1>3
<1> DEFINE Kept == \A y \in rows : \E z \in rows' : [y EXCEPT !.content = z.content] = z
<1>0. ASSUME NEW y \in rows PROVE [y EXCEPT !.content = y.content] = y
  BY <1>2 DEF Row
<1>5. CASE UNCHANGED <<rows, fresh>>
  BY <1>0, <1>1, <1>2, <1>4, <1>5
<1>6. CASE Found(x) = {} /\ rows' = rows \cup {Created(x)} /\ fresh' = fresh + 1
  <2>1. /\ Created(x).id = fresh /\ Created(x).place = Destination(x)
        /\ Created(x).key = IF x.key = 0 THEN fresh ELSE x.key
    BY DEF Created
  <2>2. fresh # 0
    BY <1>2, <1>3
  <2>3. Created(x) \in Row /\ Created(x).content = x.content
    BY <1>1, <1>2, <1>3, <2>2 DEF Created, Row
  <2>4. x.key # 0 => WithKey(Destination(x), x.key) = {}
    BY <1>6 DEF Found
  <2>5. /\ rows' \in SUBSET Row /\ KeysUnique(rows') /\ Below(rows', fresh')
    BY <1>3, <1>6, <2>1, <2>3, <2>4, AddedRow DEF IInv
  <2>6. Kept
    BY <1>0, <1>6
  <2> QED
    BY <1>1, <1>2, <1>4, <1>6, <2>1, <2>3, <2>5, <2>6
<1>7. CASE /\ \E y \in Found(x) :
                rows' = (rows \ {y}) \cup {[y EXCEPT !.content = x.content]}
           /\ UNCHANGED fresh
  <2>1. PICK y \in Found(x) :
               rows' = (rows \ {y}) \cup {[y EXCEPT !.content = x.content]}
    BY <1>7
  <2>2. y \in rows /\ y.place = Destination(x)
    BY DEF Found, WithKey, WithAlias, At
  <2>0. x.content \in (Texts \cup Json) \ Unfit
    BY <1>1, <1>3
  <2>3. /\ rows' \in SUBSET Row /\ KeysUnique(rows') /\ Below(rows', fresh)
    BY <2>0, <2>1, <2>2, ReplacedRow DEF IInv
  <2>4. PICK w : w = [y EXCEPT !.content = x.content]
    OBVIOUS
  <2>5. w.place = y.place /\ w.content = x.content
    BY <1>2, <2>2, <2>4 DEF Row
  <2>6. \A z \in rows' \ rows : z.place = Destination(x) /\ z.content = x.content
    BY <2>1, <2>2, <2>4, <2>5
  <2>7. Kept
    <3>1. [y EXCEPT !.content = w.content] = w
      BY <2>4, <2>5
    <3>2. w \in rows' /\ \A v \in rows : v # y => v \in rows'
      BY <2>1, <2>4
    <3>3. ASSUME NEW v \in rows PROVE \E z \in rows' : [v EXCEPT !.content = z.content] = z
      BY <1>0, <3>1, <3>2
    <3> QED
      BY <3>3
  <2> QED
    BY <1>1, <1>2, <1>4, <1>7, <2>3, <2>6, <2>7
<1> QED
  BY <1>1, <1>5, <1>6, <1>7

-----------------------------------------------------------------------------
LEMMA EndKeeps ==
  ASSUME IInv, End, UNCHANGED <<data, envs, pipes, tree, archive, requests>>
  PROVE  IInv'
<1>1. job' \in Job /\ job'.full /\ job'.selections = << >>
  BY NoJobTyped DEF End
<1>2. TypeOK'
  BY <1>1 DEF IInv, TypeOK, End, data
<1>3. ImportKnows'
  BY <1>1 DEF ImportKnows, End
<1>4. NeverEmpty' /\ PastBelow'
  BY DEF IInv, NeverEmpty, PastBelow, End, data
<1> QED
  BY <1>2, <1>3, <1>4 DEF IInv

LEMMA ExportPicks ==
  ASSUME TransferAssumption, TypeOK, Export
  PROVE  \E ss, got, items :
           /\ ss \in Seq(Selection)
           /\ \A i \in DOMAIN ss : got[i] \in Selected(ss[i])
           /\ DOMAIN got = DOMAIN ss
           /\ items \in SUBSET UNION {got[i] : i \in DOMAIN ss}
           /\ items # {} /\ Deduplicated(items, got)
           /\ archive' = Packed(items)
<1>1. PICK ss \in Lists(Choices(tree)) :
        \E got \in [DOMAIN ss -> UNION {Selected(ss[i]) : i \in DOMAIN ss}] :
          /\ \A i \in DOMAIN ss : got[i] \in Selected(ss[i])
          /\ \E items \in SUBSET UNION {got[i] : i \in DOMAIN ss} :
               items # {} /\ Deduplicated(items, got) /\ archive' = Packed(items)
  BY DEF Export
<1>2. PICK got \in [DOMAIN ss -> UNION {Selected(ss[i]) : i \in DOMAIN ss}] :
          /\ \A i \in DOMAIN ss : got[i] \in Selected(ss[i])
          /\ \E items \in SUBSET UNION {got[i] : i \in DOMAIN ss} :
               items # {} /\ Deduplicated(items, got) /\ archive' = Packed(items)
  BY <1>1
<1>3. PICK items \in SUBSET UNION {got[i] : i \in DOMAIN ss} :
        items # {} /\ Deduplicated(items, got) /\ archive' = Packed(items)
  BY <1>2
<1>4. ss \in Seq(Selection)
  <2>1. Choices(tree) \in SUBSET Selection
    BY ChoicesTyped DEF TypeOK
  <2> QED
    BY <2>1, ListTyped
<1>5. DOMAIN got = DOMAIN ss
  BY <1>2
<1> QED
  BY <1>2, <1>3, <1>4, <1>5

LEMMA ExportKeeps ==
  ASSUME TransferAssumption, IInv, Export
  PROVE  IInv'
<1>1. TypeOK /\ PastBelow
  BY DEF IInv
<1>2. PICK ss, got, items :
        /\ ss \in Seq(Selection)
        /\ \A i \in DOMAIN ss : got[i] \in Selected(ss[i])
        /\ items \in SUBSET UNION {got[i] : i \in DOMAIN ss}
        /\ items # {} /\ archive' = Packed(items)
  BY <1>1, ExportPicks
<1>3. \A z \in items : Archived(z)
  <2>1. ASSUME NEW i \in DOMAIN ss PROVE \A z \in got[i] : Archived(z)
    <3>1. ss[i] \in Selection
      BY <1>2
    <3>2. ss[i].pipe # Any => <<ss[i].env, ss[i].pipe>> \in Places
      BY <3>1 DEF Selection, Places
    <3> QED
      BY <1>1, <1>2, <3>2, SelectedArchived
  <2> QED
    BY <1>2, <2>1
<1>4. /\ items \in SUBSET Item
      /\ {e \in envs : \E p \in PlaceOf(items) : p[1] = e} \in SUBSET Envs
      /\ pipes \cap PlaceOf(items) \in SUBSET Places
  BY <1>3 DEF Archived, IInv, TypeOK
<1>5. archive'.items = items /\ archive' \in Archive
  BY <1>2, <1>4 DEF Packed, Archive
<1>6. /\ pc = "idle" /\ requests' = requests + 1 /\ requests < MaxRequests /\ shown' = {}
      /\ UNCHANGED <<rows, envs, pipes, fresh, past, tree, pc, job, todo, done>>
  BY DEF Export, Request, import, data
<1>7. todo = {}
  BY <1>6 DEF IInv, ImportKnows
<1>8. TypeOK'
  <2>1. \A x \in archive'.items : x.key < fresh'
    BY <1>3, <1>5, <1>6 DEF Archived
  <2>2. requests' \in 0 .. MaxRequests
    BY <1>6 DEF IInv, TypeOK, TransferAssumption
  <2> QED
    BY <1>5, <1>6, <1>7, <2>1, <2>2 DEF IInv, TypeOK
<1>9. ImportKnows'
  <2>1. /\ pc' = "idle" /\ todo' = {} /\ job' = job
    BY <1>6, <1>7
  <2>2. job.full => job.selections = << >>
    BY DEF IInv, ImportKnows
  <2> QED
    BY <2>1, <2>2 DEF ImportKnows
<1>10. NeverEmpty' /\ PastBelow'
  BY <1>1, <1>2, <1>5, <1>6 DEF NeverEmpty, PastBelow
<1> QED
  BY <1>8, <1>9, <1>10 DEF IInv

LEMMA StartKeeps ==
  ASSUME TransferAssumption, IInv, Start
  PROVE  IInv'
<1>1. /\ pc = "idle" /\ archive # Nothing
      /\ requests' = requests + 1 /\ requests < MaxRequests
      /\ UNCHANGED <<rows, envs, pipes, fresh, past, tree, archive, shown, todo, done>>
  BY DEF Start, Request, data
<1>2. /\ job' \in Job
      /\ \/ /\ job'.full /\ job'.selections = << >> /\ pc' = "parse"
         \/ /\ ~job'.full /\ job'.target = NoTarget /\ pc' = "registry"
  <2>1. CASE /\ \E o \in BOOLEAN : \E t \in Target :
                   job' = [full |-> TRUE, selections |-> << >>, target |-> t,
                           overwrite |-> o]
             /\ pc' = "parse"
    <3>1. PICK o \in BOOLEAN, t \in Target :
            job' = [full |-> TRUE, selections |-> << >>, target |-> t, overwrite |-> o]
      BY <2>1
    <3>2. << >> \in Seq(Selection)
      OBVIOUS
    <3> QED
      BY <2>1, <3>1, <3>2, JobTyped
  <2>2. CASE /\ \E o \in BOOLEAN :
                  \E ss \in Lists(Choices(TreeOf(ListsOf(archive.items, PlaceOf(archive.items))))) :
                     job' = [full |-> FALSE, selections |-> ss, target |-> NoTarget,
                             overwrite |-> o]
             /\ pc' = "registry"
    <3> DEFINE C == Choices(TreeOf(ListsOf(archive.items, PlaceOf(archive.items))))
    <3>1. PICK o \in BOOLEAN, ss \in Lists(C) :
            job' = [full |-> FALSE, selections |-> ss, target |-> NoTarget, overwrite |-> o]
      BY <2>2
    <3>2. /\ PlaceOf(archive.items) \in SUBSET Places
          /\ \A x \in archive.items : x.key \in Nat
      BY DEF IInv, TypeOK, Archive, Item, PlaceOf
    <3>3. C \in SUBSET Selection
      <4> DEFINE list == ListsOf(archive.items, PlaceOf(archive.items))
      <4>1. /\ DOMAIN list \in SUBSET Places
            /\ \A p \in DOMAIN list : \A x \in list[p] : x.key \in Nat
        BY <3>2 DEF ListsOf, At
      <4> QED
        BY <4>1, TreeTyped, ChoicesTyped
    <3>4. ss \in Seq(Selection)
      BY <3>1, <3>3, ListTyped
    <3>5. NoTarget \in Target
      BY DEF NoTarget, Target
    <3> QED
      BY <2>2, <3>1, <3>4, <3>5, JobTyped
  <2> QED
    BY <2>1, <2>2 DEF Start, Goto
<1>3. requests' \in 0 .. MaxRequests
  BY <1>1 DEF IInv, TypeOK, TransferAssumption
<1>4. TypeOK'
  BY <1>1, <1>2, <1>3 DEF IInv, TypeOK, Running
<1>5. ImportKnows'
  BY <1>1, <1>2 DEF IInv, ImportKnows
<1>6. NeverEmpty' /\ PastBelow'
  BY <1>1 DEF IInv, NeverEmpty, PastBelow
<1> QED
  BY <1>4, <1>5, <1>6 DEF IInv

\* What the statements before the first write leave alone.
Settled == /\ UNCHANGED <<rows, fresh, past, tree, archive, shown, requests, job, done>>
           /\ envs' \in SUBSET Envs /\ pipes' \in SUBSET Places

LEMMA SettledKeeps ==
  ASSUME IInv, Settled, pc # "idle", pc' \in Running, todo' \in SUBSET archive.items, ImportKnows'
  PROVE  IInv'
<1>1. TypeOK'
  BY DEF IInv, TypeOK, Settled
<1>2. NeverEmpty' /\ PastBelow'
  BY DEF IInv, NeverEmpty, PastBelow, Settled
<1> QED
  BY <1>1, <1>2 DEF IInv

LEMMA PreparationKeeps ==
  ASSUME TransferAssumption, IInv, Parse \/ Registry \/ Choose
  PROVE  IInv'
<1>1. /\ envs \in SUBSET Envs /\ pipes \in SUBSET Places
      /\ todo \in SUBSET archive.items /\ archive \in Archive
  BY DEF IInv, TypeOK
<1>2. ImportKnows
  BY DEF IInv
<1>3. ASSUME Readable, UNCHANGED <<archive, job>>
      PROVE  Readable' /\ \A x : ShouldImport(x)' <=> ShouldImport(x)
  BY <1>3 DEF Readable, ShouldImport
<1>4. CASE Parse
  <2>1. CASE End
    BY <1>4, <2>1, EndKeeps DEF Parse
  <2>2. CASE ~End
    <3>1. /\ pc = "parse" /\ Readable /\ todo' = archive.items /\ pc' = "registry"
          /\ UNCHANGED <<rows, envs, pipes, fresh, past, tree, archive, shown, requests, job, done>>
      BY <1>4, <2>2 DEF Parse, Goto, data
    <3>2. job.selections = << >> /\ job.full
      BY <1>2, <3>1 DEF ImportKnows
    <3>3. ImportKnows'
      BY <1>3, <3>1, <3>2 DEF ImportKnows, ShouldImport
    <3> QED
      BY <1>1, <3>1, <3>3, SettledKeeps DEF Settled, Running
  <2> QED
    BY <2>1, <2>2
<1>5. CASE Registry
  <2>1. /\ pc = "registry"
        /\ UNCHANGED <<rows, fresh, past, tree, archive, shown, requests, job, todo, done>>
        /\ IF job.full THEN pc' = IF job.overwrite THEN "clear" ELSE "item"
                       ELSE pc' = "choose"
    BY <1>5 DEF Registry, Ready, Goto, data
  <2>2. envs' \in SUBSET Envs /\ pipes' \in SUBSET Places
    BY <1>1, <1>5 DEF Registry, Archive
  <2>3. job.full => job.selections = << >> /\ Readable /\ todo = archive.items
    BY <1>2, <2>1 DEF ImportKnows
  <2>4. archive.items # {}
    BY <2>1 DEF IInv, NeverEmpty
  <2>5. ImportKnows'
    <3>1. CASE job.full
      <4>1. PICK x \in archive.items : TRUE
        BY <2>4
      <4>2. ShouldImport(x)' /\ Readable'
        BY <1>3, <2>1, <2>3, <3>1 DEF ShouldImport
      <4>3. \A z : ShouldImport(z)'
        BY <2>1, <2>3, <3>1 DEF ShouldImport
      <4>4. todo' = {z \in archive'.items : ShouldImport(z)'}
        BY <2>1, <2>3, <3>1, <4>3
      <4> QED
        BY <2>1, <2>3, <3>1, <4>1, <4>2, <4>3, <4>4 DEF ImportKnows
    <3>2. CASE ~job.full
      <4>1. \A z \in todo' : ShouldImport(z)'
        BY <1>2, <2>1 DEF ShouldImport, ImportKnows
      <4> QED
        BY <2>1, <3>2, <4>1 DEF ImportKnows
    <3> QED
      BY <3>1, <3>2
  <2>6. pc' \in Running
    BY <2>1 DEF Running
  <2> QED
    BY <1>1, <2>1, <2>2, <2>5, <2>6, SettledKeeps DEF Settled
<1>6. CASE Choose
  <2>1. CASE End
    BY <1>6, <2>1, EndKeeps DEF Choose
  <2>2. CASE ~End
    <3> DEFINE chosen == {x \in archive.items : ShouldImport(x)}
    <3>1. /\ pc = "choose" /\ Readable /\ chosen # {} /\ todo' = chosen
          /\ pc' = IF job.overwrite THEN "clear" ELSE "item"
          /\ UNCHANGED <<rows, envs, pipes, fresh, past, tree, archive, shown, requests, job, done>>
      BY <1>6, <2>2 DEF Choose, Ready, Goto, data
    <3>2. ~job.full
      BY <1>2, <3>1 DEF ImportKnows
    <3>3. Readable' /\ \A x : ShouldImport(x)' <=> ShouldImport(x)
      BY <1>3, <3>1
    <3>4. ImportKnows'
      BY <3>1, <3>2, <3>3 DEF ImportKnows
    <3>5. pc' \in Running
      BY <3>1 DEF Running
    <3> QED
      BY <1>1, <3>1, <3>4, <3>5, SettledKeeps DEF Settled
  <2> QED
    BY <2>1, <2>2
<1> QED
  BY <1>4, <1>5, <1>6

LEMMA WriteKeeps ==
  ASSUME TransferAssumption, IInv, Clear \/ ImportItem
  PROVE  IInv'
<1>1. /\ rows' \in SUBSET Row /\ KeysUnique(rows') /\ Below(rows', fresh')
      /\ fresh' \in Nat /\ fresh' >= fresh
      /\ todo' \in SUBSET todo /\ done' \in SUBSET (Places \X Aliases)
      /\ pc \in {"clear", "item"} /\ pc' = "item" /\ Remember
      /\ UNCHANGED <<envs, pipes, tree, archive, shown, requests, job>>
  <2>1. CASE Clear
    BY <2>1 DEF Clear, Goto, IInv, TypeOK, KeysUnique, Below
  <2>2. CASE ImportItem
    <3>1. /\ pc = "item" /\ Remember
          /\ UNCHANGED <<envs, pipes, tree, archive, shown, requests, pc, job>>
      BY <2>2 DEF ImportItem
    <3> QED
      BY <2>2, <3>1, ImportItemRows
  <2> QED
    BY <2>1, <2>2
<1>2. \A x \in archive'.items : x.key < fresh'
  <2>1. archive \in Archive /\ fresh \in Nat /\ \A x \in archive.items : x.key < fresh
    BY DEF IInv, TypeOK
  <2>2. \A x \in archive.items : x.key \in Nat
    BY <2>1 DEF Archive, Item
  <2> QED
    BY <1>1, <2>1, <2>2
<1>6. past' \in [Places -> SUBSET SUBSET Row] /\ PastBelow'
  <2>1. fresh \in Nat /\ fresh <= fresh'
    BY <1>1 DEF IInv, TypeOK
  <2> QED
    BY <1>1, <2>1, RememberKeeps DEF IInv
<1>3. TypeOK'
  <2>1. FirstFresh \in Nat /\ fresh \in Nat /\ fresh >= FirstFresh
    BY DEF IInv, TypeOK, TransferAssumption
  <2>2. fresh' >= FirstFresh
    BY <1>1, <2>1
  <2> QED
    BY <1>1, <1>2, <1>6, <2>2 DEF IInv, TypeOK, Running
<1>4. ImportKnows'
  <2>1. /\ Readable' <=> Readable
        /\ \A x : ShouldImport(x)' <=> ShouldImport(x)
    BY <1>1 DEF Readable, ShouldImport
  <2> QED
    BY <1>1, <2>1 DEF IInv, ImportKnows
<1>5. NeverEmpty'
  BY <1>1 DEF IInv, NeverEmpty
<1> QED
  BY <1>3, <1>4, <1>5, <1>6 DEF IInv

LEMMA EditKeeps ==
  ASSUME TransferAssumption, IInv, Edit
  PROVE  IInv'
<1>1. /\ pc = "idle" /\ requests' = requests + 1 /\ requests < MaxRequests /\ shown' = {}
      /\ Remember /\ UNCHANGED <<tree, archive, pc, job, todo, done>>
  BY DEF Edit, Request, import
<1>2. /\ rows \in SUBSET Row /\ KeysUnique(rows) /\ Below(rows, fresh)
      /\ envs \in SUBSET Envs /\ pipes \in SUBSET Places
      /\ fresh \in Nat /\ fresh >= FirstFresh
  BY DEF IInv, TypeOK
<1>3. /\ rows' \in SUBSET Row /\ KeysUnique(rows') /\ Below(rows', fresh')
      /\ envs' \in SUBSET Envs /\ pipes' \in SUBSET Places
      /\ (fresh' = fresh \/ fresh' = fresh + 1)
  <2>1. CASE /\ \E p \in Places, a \in Aliases \cup {NoAlias}, c \in ConsoleTexts :
                  rows' = rows \cup {[id |-> fresh, place |-> p, key |-> fresh,
                                      alias |-> a, content |-> c]}
             /\ fresh' = fresh + 1 /\ UNCHANGED <<envs, pipes>>
    <3>1. PICK p \in Places, a \in Aliases \cup {NoAlias}, c \in ConsoleTexts :
            rows' = rows \cup {[id |-> fresh, place |-> p, key |-> fresh,
                                alias |-> a, content |-> c]}
      BY <2>1
    <3> DEFINE r == [id |-> fresh, place |-> p, key |-> fresh, alias |-> a, content |-> c]
    <3>2. fresh # 0 /\ c \in (Texts \cup Json) \ Unfit
      BY <1>2 DEF TransferAssumption
    <3>3. r \in Row /\ r.id = fresh /\ r.key = fresh
      BY <1>2, <3>2 DEF Row
    <3> QED
      BY <1>2, <2>1, <3>1, <3>3, AddedRow DEF IInv
  <2>2. CASE \E x \in rows : rows' = rows \ {x} /\ UNCHANGED <<envs, pipes, fresh>>
    BY <1>2, <2>2 DEF KeysUnique, Below
  <2>3. CASE UNCHANGED <<rows, fresh>> /\ envs' \in SUBSET envs /\ pipes' \in SUBSET pipes
    BY <1>2, <2>3
  <2> QED
    BY <2>1, <2>2, <2>3 DEF Edit
<1>4. \A x \in archive'.items : x.key < fresh'
  <2>1. \A x \in archive.items : x.key < fresh /\ x.key \in Nat
    BY DEF IInv, TypeOK, Archive, Item
  <2> QED
    BY <1>1, <1>2, <1>3, <2>1
<1>8. past' \in [Places -> SUBSET SUBSET Row] /\ PastBelow'
  <2>1. fresh' \in Nat /\ fresh <= fresh'
    BY <1>2, <1>3
  <2> QED
    BY <1>1, <1>3, <2>1, RememberKeeps DEF IInv
<1>5. TypeOK'
  <2>1. fresh' \in Nat /\ fresh' >= FirstFresh /\ requests' \in 0 .. MaxRequests
    BY <1>1, <1>2, <1>3 DEF IInv, TypeOK, TransferAssumption
  <2> QED
    BY <1>1, <1>3, <1>4, <1>8, <2>1 DEF IInv, TypeOK
<1>6. ImportKnows'
  BY <1>1 DEF IInv, ImportKnows
<1>7. NeverEmpty'
  BY <1>1 DEF IInv, NeverEmpty
<1> QED
  BY <1>5, <1>6, <1>7, <1>8 DEF IInv

\* A tree or a preview that is shown changes nothing else.
LEMMA ShownKeeps ==
  ASSUME IInv, UNCHANGED <<data, envs, pipes, archive, requests, import>>,
         tree' \in SUBSET Selection,
         shown' \in SUBSET [item : Item, status : {"new", "conflict"}]
  PROVE  IInv'
<1>1. /\ rows' = rows /\ fresh' = fresh /\ past' = past /\ envs' = envs /\ pipes' = pipes
      /\ archive' = archive /\ requests' = requests
      /\ pc' = pc /\ job' = job /\ todo' = todo /\ done' = done
  BY DEF data, import
<1>2. /\ KeysUnique(rows)' <=> KeysUnique(rows)
      /\ Below(rows, fresh)' <=> Below(rows, fresh)
  BY <1>1 DEF KeysUnique, Below
<1>3. TypeOK'
  BY <1>1, <1>2 DEF IInv, TypeOK
<1>4. /\ Readable' <=> Readable
      /\ \A x : ShouldImport(x)' <=> ShouldImport(x)
  BY <1>1 DEF Readable, ShouldImport
<1>5. ImportKnows'
  BY <1>1, <1>4 DEF IInv, ImportKnows
<1>6. NeverEmpty' /\ PastBelow'
  BY <1>1 DEF IInv, NeverEmpty, PastBelow
<1> QED
  BY <1>3, <1>5, <1>6 DEF IInv

LEMMA NextKeepsIInv ==
  ASSUME TransferAssumption, IInv, [Next]_vars
  PROVE  IInv'
<1>0. /\ tree \in SUBSET Selection
      /\ shown \in SUBSET [item : Item, status : {"new", "conflict"}]
  BY DEF IInv, TypeOK
<1>1. CASE ShowTree
  <2> DEFINE there == {p \in pipes : p[1] \in envs}
  <2>1. PICK list \in [there -> UNION {past[p] : p \in there}] :
          (\A p \in there : list[p] \in past[p]) /\ tree' = TreeOf(list)
    BY <1>1 DEF ShowTree
  <2>2. DOMAIN list = there /\ there \in SUBSET Places
    BY DEF IInv, TypeOK
  <2>3. \A p \in there : \A x \in list[p] : x.key \in Nat
    BY <2>1, <2>2 DEF IInv, TypeOK, Row
  <2>4. tree' \in SUBSET Selection
    BY <2>1, <2>2, <2>3, TreeTyped
  <2> QED
    BY <1>0, <1>1, <2>4, ShownKeeps DEF ShowTree
<1>2. CASE Preview
  <2>1. archive.items \in SUBSET Item
    BY DEF IInv, TypeOK, Archive
  <2>2. \A x : CheckStatus(x) \in {"new", "conflict"}
    BY DEF CheckStatus
  <2>3. shown' \in SUBSET [item : Item, status : {"new", "conflict"}]
    BY <1>2, <2>1, <2>2 DEF Preview, Previewed
  <2> QED
    BY <1>0, <1>2, <2>3, ShownKeeps DEF Preview
<1>3. CASE Refuse \/ Finish \/ Abort
  BY <1>3, EndKeeps DEF Refuse, Finish, Abort
<1>4. CASE UNCHANGED vars
  BY <1>0, <1>4, ShownKeeps DEF vars, data, import
<1> QED
  BY <1>1, <1>2, <1>3, <1>4, ExportKeeps, StartKeeps, PreparationKeeps, WriteKeeps, EditKeeps
  DEF Next

-----------------------------------------------------------------------------
\* The invariant holds in every state of every run of exports and imports.
THEOREM Invariant ==
  ASSUME TransferAssumption
  PROVE  Spec => []IInv
<1>1. Init => IInv
  BY InitIInv
<1>2. IInv /\ [Next]_vars => IInv'
  BY NextKeepsIInv
<1> QED
  BY <1>1, <1>2, PTL DEF Spec

\* Tables and archives keep their types; in particular no resource key occurs
\* twice in a scope, although an import takes keys from the archive
\* (importConfigsFromZip, ImportConfigs) and exports clear them.
THEOREM TypeCorrect ==
  ASSUME TransferAssumption
  PROVE  Spec => []TypeOK
<1>1. IInv => TypeOK
  BY DEF IInv
<1> QED
  BY <1>1, Invariant, PTL

\* An import writes no configuration before the archive has been parsed and
\* something was chosen (ImportConfigsArchive, ImportSelective); ImportConfigs
\* then clears the table, if at all, before its first item, and afterwards no
\* row goes, also when an item is refused or a statement fails.
THEOREM OnlyChosenChangeTheorem ==
  ASSUME TransferAssumption
  PROVE  Spec => OnlyChosenChange
<1> DEFINE Cleared == /\ job.overwrite
                      /\ todo = {x \in archive.items : ShouldImport(x)}
                      /\ rows' = {}
           Imported ==
             /\ \A y \in rows : \E z \in rows' : [y EXCEPT !.content = z.content] = z
             /\ \A y \in rows' \ rows :
                  \E x \in archive.items :
                    /\ ShouldImport(x) /\ x.content \notin Unfit
                    /\ y.place = Destination(x) /\ y.content = x.content
           Chosen ==
             pc # "idle" /\ rows' # rows =>
               /\ Readable
               /\ \E x \in archive.items : ShouldImport(x)
               /\ Cleared \/ Imported
<1>1. ASSUME IInv, Next, pc # "idle", rows' # rows PROVE Chosen
  <2>1. Clear \/ ImportItem
    BY <1>1 DEF Next, ShowTree, Export, Preview, Start, Parse, Registry, Choose, Refuse,
                Finish, Abort, Edit, data
  <2>2. ImportKnows
    BY <1>1 DEF IInv
  <2>3. CASE Clear
    <3>1. pc = "clear" /\ rows' = {}
      BY <2>3 DEF Clear
    <3> QED
      BY <2>2, <3>1 DEF ImportKnows
  <2>4. CASE ImportItem
    <3>1. pc = "item"
      BY <2>4 DEF ImportItem
    <3>2. Readable /\ \E x \in archive.items : ShouldImport(x)
      BY <2>2, <3>1 DEF ImportKnows
    <3>3. Imported
      BY <1>1, <2>4, ImportItemRows
    <3> QED
      BY <3>2, <3>3
  <2> QED
    BY <2>1, <2>3, <2>4
<1>2. IInv /\ [Next]_vars => [Chosen]_vars
  BY <1>1
<1> QED
  BY <1>2, Invariant, PTL DEF Spec, OnlyChosenChange

-----------------------------------------------------------------------------
\* What a preview has promised: an alias that was new is still free, or has
\* been imported by now; one in conflict is still taken, unless all was cleared.
PromiseOf(s) ==
    LET p == s.item.place
        a == s.item.alias
    IN  /\ s.status = "new" => WithAlias(p, a) = {} \/ (pc = "item" /\ <<p, a>> \in done)
        /\ s.status = "conflict" /\ ~job.overwrite => WithAlias(p, a) # {}

Promised ==
    /\ pc = "idle" => ~job.overwrite
    /\ \A s \in shown : s.item.alias # NoAlias => PromiseOf(s)

\* The item that is imported, and what becomes of the rows with an alias.
LEMMA ImportItemAlias ==
  ASSUME IInv, ImportItem
  PROVE  \E x \in todo :
           /\ todo' = todo \ {x}
           /\ x.alias # NoAlias => <<Destination(x), x.alias>> \in done'
           /\ done \subseteq done'
           /\ \A y \in rows' :
                \/ \E z \in rows : y.id = z.id /\ y.place = z.place /\ y.alias = z.alias
                \/ Found(x) = {} /\ y.place = Destination(x) /\ y.alias = x.alias
           /\ \A y \in rows : \E z \in rows' : y.place = z.place /\ y.alias = z.alias
           /\ <<Destination(x), x.alias>> \in done => rows' = rows
           /\ Found(x) = {} => rows \subseteq rows'
<1>1. PICK x \in todo :
        /\ todo' = todo \ {x}
        /\ done' = IF x.alias = NoAlias THEN done
                   ELSE done \cup {<<Destination(x), x.alias>>}
        /\ \/ <<Destination(x), x.alias>> \in done /\ UNCHANGED rows
           \/ /\ <<Destination(x), x.alias>> \notin done /\ Found(x) = {}
              /\ rows' = rows \cup {Created(x)}
           \/ /\ <<Destination(x), x.alias>> \notin done
              /\ \E y \in Found(x) :
                   rows' = (rows \ {y}) \cup {[y EXCEPT !.content = x.content]}
  BY DEF ImportItem
<1>2. rows \in SUBSET Row
  BY DEF IInv, TypeOK
<1>3. /\ x.alias # NoAlias => <<Destination(x), x.alias>> \in done'
      /\ done \subseteq done'
  BY <1>1
<1>4. CASE <<Destination(x), x.alias>> \in done /\ UNCHANGED rows
  BY <1>1, <1>3, <1>4
<1>5. CASE /\ <<Destination(x), x.alias>> \notin done /\ Found(x) = {}
           /\ rows' = rows \cup {Created(x)}
  <2>1. Created(x).place = Destination(x) /\ Created(x).alias = x.alias
    BY DEF Created
  <2> QED
    BY <1>1, <1>3, <1>5, <2>1
<1>6. CASE /\ <<Destination(x), x.alias>> \notin done
           /\ \E y \in Found(x) :
                rows' = (rows \ {y}) \cup {[y EXCEPT !.content = x.content]}
  <2>1. PICK y \in Found(x) :
          rows' = (rows \ {y}) \cup {[y EXCEPT !.content = x.content]}
    BY <1>6
  <2>2. y \in rows
    BY DEF Found, WithKey, WithAlias, At
  <2>3. PICK z : z = [y EXCEPT !.content = x.content]
    OBVIOUS
  <2>4. z.id = y.id /\ z.place = y.place /\ z.alias = y.alias
    BY <1>2, <2>2, <2>3 DEF Row
  <2>5. rows' = (rows \ {y}) \cup {z}
    BY <2>1, <2>3
  <2>6. \A v \in rows' : \E w \in rows : v.id = w.id /\ v.place = w.place /\ v.alias = w.alias
    BY <2>2, <2>4, <2>5
  <2>7. \A v \in rows : \E w \in rows' : v.place = w.place /\ v.alias = w.alias
    BY <2>2, <2>4, <2>5
  <2> QED
    BY <1>1, <1>3, <1>6, <2>1, <2>6, <2>7
<1> QED
  BY <1>1, <1>4, <1>5, <1>6

LEMMA NextKeepsPromised ==
  ASSUME TransferAssumption, IInv, Promised, [Next]_vars
  PROVE  Promised'
<1>1. CASE shown' = {} /\ (pc' = "idle" => ~job'.overwrite)
  BY <1>1 DEF Promised
<1>2. CASE End \/ Export \/ Edit
  BY <1>1, <1>2 DEF End, NoJob, Export, Edit, import, data, Promised
<1>3. CASE Preview
  <2>1. /\ UNCHANGED <<rows, pc, job, done>>
        /\ \A s \in shown' : \E x : s = [item |-> x, status |-> CheckStatus(x)]
    BY <1>3 DEF Preview, Previewed, import, data
  <2>2. ASSUME NEW s \in shown' PROVE PromiseOf(s)'
    <3>1. PICK x : s = [item |-> x, status |-> CheckStatus(x)]
      BY <2>1, <2>2
    <3> QED
      BY <2>1, <3>1 DEF PromiseOf, CheckStatus, WithAlias, At
  <2> QED
    BY <2>1, <2>2 DEF Promised
<1>4. CASE Start
  <2>1. pc = "idle" /\ UNCHANGED <<rows, shown, done>> /\ pc' # "idle"
    BY <1>4 DEF Start, Goto, data
  <2>2. ASSUME NEW s \in shown, s.item.alias # NoAlias PROVE PromiseOf(s)'
    BY <2>1, <2>2 DEF Promised, PromiseOf, WithAlias, At
  <2> QED
    BY <2>1, <2>2 DEF Promised
<1>5. CASE ShowTree \/ Registry \/ Clear \/ ((Parse \/ Choose) /\ ~End) \/ UNCHANGED vars
  <2>1. /\ UNCHANGED <<shown, job, done>> /\ (pc = "idle" <=> pc' = "idle")
        /\ pc = "item" => pc' = "item"
        /\ rows' = rows \/ (rows' = {} /\ job.overwrite)
    BY <1>5 DEF ShowTree, Registry, Clear, Parse, Choose, Ready, Goto, import, data, vars,
                IInv, ImportKnows
  <2>2. ASSUME NEW s \in shown, s.item.alias # NoAlias PROVE PromiseOf(s)'
    BY <2>1, <2>2 DEF Promised, PromiseOf, WithAlias, At
  <2> QED
    BY <2>1, <2>2 DEF Promised
<1>6. CASE ImportItem
  <2>1. pc = "item" /\ UNCHANGED <<shown, pc, job>>
    BY <1>6 DEF ImportItem
  <2>2. PICK x \in todo :
           /\ x.alias # NoAlias => <<Destination(x), x.alias>> \in done'
           /\ done \subseteq done'
           /\ \A y \in rows' :
                \/ \E z \in rows : y.place = z.place /\ y.alias = z.alias
                \/ y.place = Destination(x) /\ y.alias = x.alias
           /\ \A y \in rows : \E z \in rows' : y.place = z.place /\ y.alias = z.alias
    BY <1>6, ImportItemAlias
  <2>3. ASSUME NEW s \in shown, s.item.alias # NoAlias PROVE PromiseOf(s)'
    BY <2>1, <2>2, <2>3 DEF Promised, PromiseOf, WithAlias, At
  <2> QED
    BY <2>1, <2>3 DEF Promised
<1> QED
  BY <1>2, <1>3, <1>4, <1>5, <1>6 DEF Next, Refuse, Finish, Abort

\* The import keeps what the preview has shown (checkStatus against
\* ImportConfigs), however many items come before the one it is about.
THEOREM PreviewKeptTheorem ==
  ASSUME TransferAssumption
  PROVE  Spec => PreviewKept
<1> DEFINE Kept ==
      \A s \in shown :
         /\ pc = "item" /\ pc' = "item" /\ s.item \in todo \ todo'
         /\ Destination(s.item) = s.item.place
         /\ s.item.key = 0 /\ s.item.alias # NoAlias
         => /\ s.status = "new" => rows \subseteq rows'
            /\ s.status = "conflict" /\ ~job.overwrite =>
                 \A y \in rows' : \E x \in rows : x.id = y.id
<1>1. Init => Promised
  BY DEF Init, Promised, NoJob
<1>2. IInv /\ Promised /\ [Next]_vars => Promised'
  BY NextKeepsPromised, TransferAssumption
<1>3. ASSUME IInv, Promised, Next PROVE Kept
  <2>1. SUFFICES ASSUME NEW s \in shown, pc = "item", pc' = "item", s.item \in todo \ todo',
                        Destination(s.item) = s.item.place,
                        s.item.key = 0, s.item.alias # NoAlias
                 PROVE  /\ s.status = "new" => rows \subseteq rows'
                        /\ s.status = "conflict" /\ ~job.overwrite =>
                             \A y \in rows' : \E x \in rows : x.id = y.id
    OBVIOUS
  <2>2. CASE todo' = todo
    BY <2>1, <2>2
  <2>3. CASE ImportItem
    <3>1. PICK x \in todo :
             /\ todo' = todo \ {x}
             /\ \A y \in rows' :
                  \/ \E z \in rows : y.id = z.id
                  \/ Found(x) = {}
             /\ <<Destination(x), x.alias>> \in done => rows' = rows
             /\ Found(x) = {} => rows \subseteq rows'
      BY <1>3, <2>3, ImportItemAlias
    <3>2. x = s.item
      BY <2>1, <3>1
    <3>3. Found(x) = WithAlias(s.item.place, s.item.alias)
      BY <2>1, <3>2 DEF Found
    <3>4. PromiseOf(s)
      BY <1>3, <2>1 DEF Promised
    <3> QED
      BY <2>1, <3>1, <3>2, <3>3, <3>4 DEF PromiseOf
  <2> QED
    BY <1>3, <2>1, <2>2, <2>3 DEF Next, ShowTree, Export, Preview, Start, Parse, Registry,
       Choose, Clear, Refuse, Finish, Abort, End, Edit, import, data
<1>4. IInv /\ Promised /\ [Next]_vars => [Kept]_vars
  BY <1>3
<1> QED
  BY <1>1, <1>2, <1>4, Invariant, PTL DEF Spec, PreviewKept
-----------------------------------------------------------------------------
(* An export is complete.  The newest row of an alias exists because ids     *)
(* are numbers below the next one.                                           *)

\* A nonempty set of numbers below some number has a greatest one.
LEMMA Greatest ==
  ASSUME NEW I, \A k \in I : k \in Nat, I # {}, NEW n \in Nat, \A k \in I : k < n
  PROVE  \E m \in I : \A k \in I : k <= m
<1> DEFINE R == OpToRel(<, Nat)
           T == {n - k : k \in I}
<1>1. IsWellFoundedOn(R, Nat)
  BY NatLessThanWellFounded, Zenon
<1>2. T \subseteq Nat /\ T # {}
  OBVIOUS
<1>3. PICK d \in T : \A e \in T : ~(<<e, d>> \in R)
  <2> HIDE DEF R, T
  <2> QED
    BY <1>1, <1>2, WFMin
<1>4. ASSUME NEW e \in T, e < d PROVE <<e, d>> \in R
  BY <1>2, <1>4 DEF OpToRel
<1>5. ASSUME NEW e \in T PROVE d <= e
  <2> HIDE DEF R, T
  <2>1. ~(<<e, d>> \in R)
    BY <1>3
  <2>2. ~(e < d)
    BY <1>4, <2>1
  <2>3. e \in Nat /\ d \in Nat
    BY <1>2
  <2> QED
    BY <2>2, <2>3
<1>6. PICK m \in I : d = n - m
  BY <1>3, Zenon
<1>7. ASSUME NEW k \in I PROVE k <= m
  <2>1. d <= n - k
    BY <1>5
  <2> QED
    BY <1>6, <2>1
<1> QED
  BY <1>7

\* Every configuration of a place has a newest one with its alias, and that
\* one is among the newest of the place.
LEMMA NewestOf ==
  ASSUME TypeOK, NEW p, NEW y \in At(rows, p)
  PROVE  \E w \in WithAlias(p, y.alias) :
            /\ \A v \in WithAlias(p, y.alias) : v.id <= w.id
            /\ [AsItem(w) EXCEPT !.key = 0] \in Newest(p)
<1> DEFINE S == WithAlias(p, y.alias)
           I == {v.id : v \in S}
<1>1. y \in S /\ \A v \in S : v \in rows /\ v \in At(rows, p) /\ v.alias = y.alias
  BY DEF WithAlias, At
<1>2. fresh \in Nat /\ \A v \in rows : v.id \in Nat /\ v.id < fresh
  BY DEF TypeOK, Below, Row
<1>3. /\ I # {} /\ \A k \in I : k \in Nat /\ k < fresh
  BY <1>1, <1>2
<1>4. PICK m \in I : \A k \in I : k <= m
  <2> HIDE DEF I
  <2> QED
    BY <1>2, <1>3, Greatest
<1>5. PICK w \in S : w.id = m
  BY <1>4
<1>6. \A v \in S : v.id <= w.id
  BY <1>4, <1>5
<1>7. w \in {u \in At(rows, p) : \A v \in WithAlias(p, u.alias) : v.id <= u.id}
  BY <1>1, <1>5, <1>6
<1>8. [AsItem(w) EXCEPT !.key = 0] \in Newest(p)
  BY <1>7 DEF Newest
<1> QED
  BY <1>5, <1>6, <1>8

\* A selected item carries what it should, and if its key was cleared, the
\* newest of every alias of its place were selected with it.
LEMMA CarriesRow ==
  ASSUME TypeOK, PastBelow, NEW s \in Selection, NEW got \in Selected(s), NEW z \in got
  PROVE  Carries(z) /\ (z.key = 0 => Newest(z.place) \subseteq got)
<1>1. ASSUME NEW p, z \in Newest(p)
      PROVE  z.place = p /\ z.key = 0 /\ Carries(z)
  <2>1. PICK x \in At(rows, p) :
          /\ \A v \in WithAlias(p, x.alias) : v.id <= x.id
          /\ z = [AsItem(x) EXCEPT !.key = 0]
    BY <1>1 DEF Newest
  <2>2. z.place = p /\ z.key = 0 /\ z.alias = x.alias
    BY <2>1 DEF AsItem, At
  <2>3. x \in WithAlias(z.place, z.alias)
    BY <2>1, <2>2 DEF WithAlias
  <2> QED
    BY <2>1, <2>2, <2>3 DEF Carries
<1>2. CASE s.pipe = Any
  <2>1. got = UNION {Newest(p) : p \in {q \in pipes : q[1] = s.env}}
    BY <1>2 DEF Selected
  <2>2. PICK p \in {q \in pipes : q[1] = s.env} : z \in Newest(p)
    BY <2>1
  <2>3. Newest(p) \subseteq got
    BY <2>1
  <2> QED
    BY <1>1, <2>2, <2>3
<1>3. CASE s.pipe # Any /\ s.keys = {}
  <2>1. got = Newest(<<s.env, s.pipe>>)
    BY <1>3 DEF Selected
  <2> QED
    BY <1>1, <2>1
<1>4. CASE s.pipe # Any /\ s.keys # {}
  <2>1. PICK list \in past[<<s.env, s.pipe>>] :
          got = {AsItem(x) : x \in {y \in list : y.key \in s.keys}}
    BY <1>4 DEF Selected
  <2>2. PICK x \in list : z = AsItem(x)
    BY <2>1
  <2>3. <<s.env, s.pipe>> \in Places
    BY <1>4 DEF Selection, Places
  <2>4. x \in Row /\ x.place = <<s.env, s.pipe>>
    BY <2>1, <2>2, <2>3 DEF TypeOK, PastBelow
  <2>5. z.place = x.place /\ z.key = x.key /\ z.key # 0
    BY <2>2, <2>4 DEF AsItem, Row
  <2> QED
    BY <2>1, <2>2, <2>4, <2>5 DEF Carries
<1> QED
  BY <1>2, <1>3, <1>4

LEMMA ExportIsComplete ==
  ASSUME TransferAssumption, TypeOK, PastBelow, Export, NEW x \in archive'.items
  PROVE  /\ \A y \in archive'.items :
              x.place = y.place /\ x.alias = y.alias => x = y
         /\ Carries(x)
         /\ x.key = 0 => WholePlace(x.place)
<1>1. PICK ss, got, items :
        /\ ss \in Seq(Selection)
        /\ \A i \in DOMAIN ss : got[i] \in Selected(ss[i])
        /\ DOMAIN got = DOMAIN ss
        /\ items \in SUBSET UNION {got[i] : i \in DOMAIN ss}
        /\ Deduplicated(items, got) /\ archive' = Packed(items)
  BY ExportPicks
<1>2. archive'.items = items /\ x \in items
  BY <1>1 DEF Packed
<1>3. \A y \in items : x.place = y.place /\ x.alias = y.alias => x = y
  BY <1>1, <1>2 DEF Deduplicated, SameItem
<1>4. PICK i \in DOMAIN ss : x \in got[i]
  BY <1>1, <1>2
<1>5. Carries(x) /\ (x.key = 0 => Newest(x.place) \subseteq got[i])
  <2>1. ss[i] \in Selection /\ got[i] \in Selected(ss[i])
    BY <1>1
  <2> QED
    BY <1>4, <2>1, CarriesRow
<1>6. ASSUME x.key = 0, NEW y \in At(rows, x.place)
      PROVE  \E z \in items : z.place = x.place /\ z.alias = y.alias
  <2>1. PICK w \in WithAlias(x.place, y.alias) :
          [AsItem(w) EXCEPT !.key = 0] \in Newest(x.place)
    BY NewestOf
  <2>2. PICK z0 : z0 = [AsItem(w) EXCEPT !.key = 0]
    OBVIOUS
  <2>3. z0 \in got[i] /\ z0.place = x.place /\ z0.alias = y.alias
    BY <1>5, <1>6, <2>1, <2>2 DEF AsItem, WithAlias, At
  <2>4. PICK h \in 1 .. i : \E z \in items \cap got[h] : SameItem(z0, z)
    BY <1>1, <1>4, <2>3 DEF Deduplicated
  <2> QED
    BY <2>3, <2>4 DEF SameItem
<1>7. /\ x.place \in pipes => x.place \in archive'.pipes
      /\ x.place[1] \in envs => x.place[1] \in archive'.envs
  BY <1>1, <1>2 DEF Packed, PlaceOf
<1>8. x.key = 0 => WholePlace(x.place)
  BY <1>2, <1>6, <1>7 DEF WholePlace
<1> QED
  BY <1>2, <1>3, <1>5, <1>8

\* Where an archive has cleared the keys it has all of the pipeline, per alias
\* one item, for any selections in any order (collectFromSelections,
\* ExportConfigs, writeConfigArchive), and whatever lists ListConfigs answered
\* to the selections by key.
THEOREM ExportCompleteTheorem ==
  ASSUME TransferAssumption
  PROVE  Spec => ExportComplete
<1> DEFINE Complete ==
      archive' # archive =>
         \A x \in archive'.items :
           /\ \A y \in archive'.items :
                x.place = y.place /\ x.alias = y.alias => x = y
           /\ Carries(x)
           /\ x.key = 0 => WholePlace(x.place)
<1>1. ASSUME IInv, Next PROVE Complete
  <2>1. CASE Export
    BY <1>1, <2>1, ExportIsComplete, TransferAssumption DEF IInv
  <2>2. CASE ~Export
    <3>1. archive' = archive
      BY <1>1, <2>2 DEF Next, ShowTree, Preview, Start, Parse, Registry, Choose, Clear,
         ImportItem, Refuse, Finish, Abort, Edit
    <3> QED
      BY <3>1
  <2> QED
    BY <2>1, <2>2
<1>2. IInv /\ [Next]_vars => [Complete]_vars
  BY <1>1
<1> QED
  BY <1>2, Invariant, PTL DEF Spec, ExportComplete
-----------------------------------------------------------------------------
(* Steps of the abstract table.  View(rows) is the table as ConfigTable sees *)
(* it.                                                                       *)
View(S) == {AsConfig(x) : x \in S}

LEMMA ViewAdds ==
  ASSUME NEW S, NEW y
  PROVE  View(S \cup {y}) = View(S) \cup {AsConfig(y)}
BY DEF View

LEMMA ViewRemoves ==
  ASSUME NEW S, KeysUnique(S), NEW z \in S
  PROVE  View(S \ {z}) = View(S) \ {AsConfig(z)} /\ AsConfig(z) \in View(S)
<1>1. \A x \in S : AsConfig(x) = AsConfig(z) => x = z
  BY DEF AsConfig, KeysUnique
<1> QED
  BY <1>1 DEF View

LEMMA AppearStep ==
  ASSUME NEW y, rows' = rows \cup {y}, WithKey(y.place, y.key) = {},
         y.alias # NoAlias => WithAlias(y.place, y.alias) = {}
  PROVE  Table!Next
<1>1. View(rows') = View(rows) \cup {AsConfig(y)}
  BY ViewAdds
<1>2. ASSUME NEW x \in rows
      PROVE  /\ ~Table!SameKey(AsConfig(y), AsConfig(x))
             /\ ~Table!SameAlias(AsConfig(y), AsConfig(x))
  BY DEF Table!SameKey, Table!SameAlias, AsConfig, WithKey, WithAlias, At
<1>3. \A c \in View(rows) : ~Table!SameKey(AsConfig(y), c)
                            /\ ~Table!SameAlias(AsConfig(y), c)
  BY <1>2 DEF View
<1>4. Table!Appear(AsConfig(y))
  BY <1>1, <1>3 DEF Table!Appear, View, Configs
<1>5. AsConfig(y) \in View(rows')
  BY <1>1
<1> QED
  BY <1>4, <1>5 DEF Table!Next, View, Configs

LEMMA ChangeStep ==
  ASSUME TypeOK, NEW z \in rows, NEW c, rows' = (rows \ {z}) \cup {[z EXCEPT !.content = c]}
  PROVE  Table!Next
<1>1. PICK y : y = [z EXCEPT !.content = c]
  OBVIOUS
<1>2. y.place = z.place /\ y.key = z.key /\ y.alias = z.alias
  BY <1>1 DEF TypeOK, Row
<1>3. View(rows') = (View(rows) \ {AsConfig(z)}) \cup {AsConfig(y)}
  <2>1. View(rows') = View(rows \ {z}) \cup {AsConfig(y)}
    BY <1>1, ViewAdds
  <2>2. View(rows \ {z}) = View(rows) \ {AsConfig(z)}
    BY ViewRemoves DEF TypeOK
  <2> QED
    BY <2>1, <2>2
<1>4. AsConfig(z) \in View(rows) /\ AsConfig(y) \in View(rows')
  BY <1>3 DEF View
<1>5. Table!SameKey(AsConfig(z), AsConfig(y)) /\ AsConfig(z).alias = AsConfig(y).alias
  BY <1>2 DEF Table!SameKey, AsConfig
<1>6. Table!Change(AsConfig(z), AsConfig(y))
  BY <1>3, <1>4, <1>5 DEF Table!Change, View, Configs
<1> QED
  BY <1>4, <1>6 DEF Table!Next, View, Configs

LEMMA DisappearStep ==
  ASSUME TypeOK, NEW z \in rows, rows' = rows \ {z}
  PROVE  Table!Next
<1>1. View(rows') = View(rows) \ {AsConfig(z)} /\ AsConfig(z) \in View(rows)
  BY ViewRemoves DEF TypeOK
<1> QED
  BY <1>1 DEF Table!Next, Table!Disappear, View, Configs

\* A key that is still to be assigned is nobody's.
LEMMA FreshKeyFree ==
  ASSUME TypeOK, NEW p
  PROVE  WithKey(p, fresh) = {}
BY DEF TypeOK, Below, Row, WithKey, At

\* An item without a key has looked for its alias before it adds a row.
LEMMA KeylessItemStep ==
  ASSUME TypeOK, ImportItem, \A x \in todo \ todo' : x.key = 0
  PROVE  Table!Next \/ rows' = rows
<1>1. PICK x \in todo :
        /\ todo' = todo \ {x}
        /\ \/ UNCHANGED rows
           \/ Found(x) = {} /\ rows' = rows \cup {Created(x)}
           \/ \E y \in Found(x) :
                rows' = (rows \ {y}) \cup {[y EXCEPT !.content = x.content]}
  BY DEF ImportItem
<1>2. x.key = 0
  BY <1>1
<1>3. CASE Found(x) = {} /\ rows' = rows \cup {Created(x)}
  <2>1. PICK y : y = Created(x)
    OBVIOUS
  <2>2. y.place = Destination(x) /\ y.key = fresh /\ y.alias = x.alias
    BY <1>2, <2>1 DEF Created
  <2>3. y.alias # NoAlias => WithAlias(y.place, y.alias) = {}
    BY <1>2, <1>3, <2>2 DEF Found
  <2> QED
    BY <1>3, <2>1, <2>2, <2>3, AppearStep, FreshKeyFree
<1>4. CASE \E y \in Found(x) :
              rows' = (rows \ {y}) \cup {[y EXCEPT !.content = x.content]}
  <2>1. PICK y \in Found(x) :
          rows' = (rows \ {y}) \cup {[y EXCEPT !.content = x.content]}
    BY <1>4
  <2>2. y \in rows
    BY DEF Found, WithKey, WithAlias, At
  <2> QED
    BY <2>1, <2>2, ChangeStep
<1> QED
  BY <1>1, <1>3, <1>4

LEMMA EditStep ==
  ASSUME TypeOK, Edit
  PROVE  Table!Next \/ rows' = rows
<1>1. ASSUME NEW p \in Places, NEW a \in Aliases \cup {NoAlias}, NEW c \in ConsoleTexts,
             a # NoAlias => WithAlias(p, a) = {},
             rows' = rows \cup
               {[id |-> fresh, place |-> p, key |-> fresh, alias |-> a, content |-> c]}
      PROVE  Table!Next
  <2>1. PICK y : y = [id |-> fresh, place |-> p, key |-> fresh, alias |-> a, content |-> c]
    OBVIOUS
  <2>2. y.place = p /\ y.key = fresh /\ y.alias = a
    BY <2>1
  <2> QED
    BY <1>1, <2>1, <2>2, AppearStep, FreshKeyFree
<1>2. ASSUME NEW x \in rows, rows' = rows \ {x} PROVE Table!Next
  BY <1>2, DisappearStep
<1> QED
  BY <1>1, <1>2 DEF Edit

\* Two configurations of a place come to share an alias only through an item
\* that carries a resource key (ImportConfigs looks for its key alone); every
\* other step is one of the abstract table, or none.
THEOREM OnlyKeyedItemsStrayTheorem ==
  ASSUME TransferAssumption
  PROVE  Spec => OnlyKeyedItemsStray
<1> DEFINE Keyless == \A x \in todo \ todo' : x.key = 0
<1>1. ASSUME TypeOK, Next, Keyless PROVE Table!Next \/ rows' = rows
  <2>1. CASE ImportItem
    BY <1>1, <2>1, KeylessItemStep
  <2>2. CASE Clear
    <3>1. Configs' = {}
      BY <2>2 DEF Clear, Configs
    <3> QED
      BY <3>1 DEF Table!Next, Table!Reset
  <2>3. CASE Edit
    BY <1>1, <2>3, EditStep
  <2>4. CASE ShowTree \/ Export \/ Preview \/ Start \/ Parse \/ Registry \/ Choose
             \/ Refuse \/ Finish \/ Abort
    BY <2>4 DEF ShowTree, Export, Preview, Start, Parse, Registry, Choose, Refuse, Finish,
                Abort, data
  <2> QED
    BY <1>1, <2>1, <2>2, <2>3, <2>4 DEF Next
<1>2. rows' = rows => Configs' = Configs
  BY DEF Configs
<1>3. TypeOK /\ [Next]_vars => [Keyless => [Table!Next]_Configs]_vars
  BY <1>1, <1>2
<1> QED
  BY <1>3, TypeCorrect, PTL DEF Spec, OnlyKeyedItemsStray
=============================================================================
