--------------------------- MODULE MigrateProofs ---------------------------
(***************************************************************************)
(* Proofs about Migrate for every number of migrations and every table:    *)
(* types, the references to copied assets, what a migration may replace    *)
(* and, with the write lock, where it may create, that what it reports is  *)
(* stored, and that the table changes only as ConfigTable allows.          *)
(***************************************************************************)
EXTENDS Migrate, TLAPS

\* What a migration at work holds: the copy whose row is about to be created
\* has its file, only an overwriting migration has found a row to replace, and
\* every content it carries refers to assets that are served.
ProgressOf(m) ==
    /\ pc[m] = "row" => /\ copy[m] \in FirstFresh .. fresh - 1
                        /\ \E f \in files : f.id = copy[m]
    /\ found[m] # 0 => job[m].overwrite
    /\ Served(draft[m])
    /\ \A x \in todo[m] : Served(x.content)

Progress == \A m \in Migrations : ProgressOf(m)

\* So do the lists that may be cached: a reference once served stays served.
PastServed == \A s \in Scopes : \A list \in past[s] : \A x \in list : Served(x.content)

IInv == TypeOK /\ Progress /\ RefsServed /\ PastServed

LEMMA InitIInv ==
  ASSUME MigrateAssumption, Init
  PROVE  IInv
<1>1. TypeOK
  BY DEF MigrateAssumption, Init, TypeOK, Below, NoText, Content, Running, File, ListOf
<1>2. \A m \in Migrations : ProgressOf(m)
  BY DEF Init, ProgressOf, Served, NoText
<1>3. RefsServed
  <2>1. rows \in SUBSET Row /\ \A x \in rows : x.content.id < FirstFresh
    BY DEF MigrateAssumption, Init
  <2>2. \A x \in rows : x.content.id \in Nat
    BY <2>1 DEF Row, Content
  <2> QED
    BY <2>1, <2>2 DEF RefsServed, Served, MigrateAssumption
<1>4. PastServed
  BY <1>3 DEF Init, PastServed, RefsServed, ListOf
<1> QED
  BY <1>1, <1>2, <1>3, <1>4 DEF IInv, Progress

\* Numbers only grow and neither assets nor files go away.
LEMMA Grows ==
  ASSUME TypeOK, Next
  PROVE  /\ assets \subseteq assets' /\ files \subseteq files'
         /\ fresh <= fresh' /\ fresh' \in Nat /\ job' = job
<1>1. fresh \in Nat /\ fresh + 1 \in Nat /\ fresh <= fresh /\ fresh <= fresh + 1
  BY DEF TypeOK
<1>2. CASE Crash
  BY <1>1, <1>2 DEF Crash, data
<1>3. CASE Edit
  BY <1>1, <1>3 DEF Edit
<1>4. ASSUME NEW m \in Migrations, Step(m)
      PROVE  /\ assets \subseteq assets' /\ files \subseteq files'
             /\ fresh <= fresh' /\ fresh' \in Nat /\ job' = job
  BY <1>1, <1>4 DEF Step, Start, Verify, List, Lookup, LookupFails, CopyFile,
     CopyRow, Check, Write, Finish, data, work
<1> QED
  BY <1>2, <1>3, <1>4 DEF Next

LEMMA ServedStays ==
  ASSUME assets \subseteq assets', files \subseteq files', NEW c, Served(c)
  PROVE  Served(c)'
BY DEF Served

\* A step of one migration leaves what the others hold as it is.
LEMMA FrameOfStep ==
  ASSUME TypeOK, NEW m \in Migrations, Step(m), NEW n \in Migrations, n # m
  PROVE  /\ pc'[n] = pc[n] /\ todo'[n] = todo[n] /\ found'[n] = found[n]
         /\ draft'[n] = draft[n] /\ copy'[n] = copy[n] /\ item'[n] = item[n]
         /\ n \in lagging' <=> n \in lagging
BY DEF TypeOK, Step, Start, Verify, List, Lookup, LookupFails, CopyFile, CopyRow,
   Check, Write, Finish, Report, Take, Hold, Goto, Fails, work

LEMMA RememberType ==
  ASSUME TypeOK, rows' \in SUBSET Row, Remember
  PROVE  past' \in [Scopes -> SUBSET SUBSET Row]
BY DEF TypeOK, Remember, ListOf

\* What ListConfigs may answer is typed and served as the table is.
LEMMA AnswersSound ==
  ASSUME IInv, NEW s \in Scopes, NEW list \in Answers(s)
  PROVE  list \in SUBSET Row /\ \A x \in list : Served(x.content)
BY DEF IInv, TypeOK, RefsServed, PastServed, Answers, ListOf

LEMMA ReportType ==
  ASSUME TypeOK, NEW m \in Migrations, NEW x \in Row, NEW status \in Status,
         Report(m, x, status)
  PROVE  /\ pc' \in [Migrations -> Running \cup {"new", "done", "refused", "crashed"}]
         /\ todo' \in [Migrations -> SUBSET Row]
         /\ item' \in [Migrations -> SUBSET Row]
         /\ found' \in [Migrations -> Nat]
         /\ draft' \in [Migrations -> Content]
         /\ copy' \in [Migrations -> Nat]
         /\ results' \in [Migrations -> SUBSET [item : Row, status : Status]]
<1>1. NoText \in Content
  BY DEF NoText, Content
<1>2. [item |-> x, status |-> status] \in [item : Row, status : Status]
  OBVIOUS
<1> QED
  BY <1>1, <1>2 DEF Report, Hold, Goto, Running, TypeOK

LEMMA TakeType ==
  ASSUME TypeOK, NEW m \in Migrations, NEW x \in Row, NEW k \in Nat, Take(m, x, k)
  PROVE  /\ pc' \in [Migrations -> Running \cup {"new", "done", "refused", "crashed"}]
         /\ item' \in [Migrations -> SUBSET Row]
         /\ found' \in [Migrations -> Nat]
         /\ draft' \in [Migrations -> Content]
         /\ copy' \in [Migrations -> Nat]
         /\ todo' = todo /\ results' = results
<1>1. x.content \in Content
  BY DEF Row
<1> QED
  BY <1>1 DEF Take, Hold, Goto, Running, TypeOK

LEMMA StepKeepsType ==
  ASSUME MigrateAssumption, IInv, NEW m \in Migrations, Step(m)
  PROVE  TypeOK'
<1> TypeOK /\ ProgressOf(m)
  BY DEF IInv, Progress
<1>1. /\ fresh \in Nat /\ fresh >= FirstFresh /\ FirstFresh \in Nat \ {0}
      /\ fresh \in Nat \ {0} /\ fresh + 1 \in Nat /\ fresh + 1 >= FirstFresh
      /\ \A n \in Nat : n < fresh => n < fresh + 1
      /\ fresh < fresh + 1
  BY DEF TypeOK, MigrateAssumption
<1>2. CASE Start(m)
  BY <1>2 DEF TypeOK, Start, Goto, Running, data, work
<1>3. CASE Verify(m)
  BY <1>3 DEF TypeOK, Verify, Goto, Running, data, work
<1>4. CASE List(m)
  <2>1. job[m].source \in Scopes
    BY DEF TypeOK, MigrateAssumption, Job
  <2>2. PICK list \in Answers(job[m].source) :
          /\ todo' = [todo EXCEPT ![m] =
               {x \in list : job[m].keys = {} \/ x.id \in job[m].keys}]
          /\ lagging' = IF list = ListOf(rows, job[m].source)
                        THEN lagging ELSE lagging \cup {m}
    BY <1>4 DEF List
  <2>3. todo' \in [Migrations -> SUBSET Row] /\ lagging' \subseteq Migrations
    BY <2>1, <2>2, AnswersSound DEF TypeOK
  <2> QED
    BY <1>4, <2>3 DEF TypeOK, List, Goto, Running, data
<1>5. CASE Lookup(m)
  <2>1. PICK x \in todo[m] :
          LET same == WithAlias(job[m].target, x.alias) IN
          \/ same = {} /\ Take(m, x, 0)
          \/ /\ same # {} /\ ~job[m].overwrite
             /\ Report(m, x, "skipped")
          \/ job[m].overwrite /\ \E y \in same : Take(m, x, y.id)
    BY <1>5 DEF Lookup
  <2>2. x \in Row /\ "skipped" \in Status /\ 0 \in Nat
    BY DEF TypeOK, Status
  <2>3. \A y \in WithAlias(job[m].target, x.alias) : y.id \in Nat
    BY DEF WithAlias, TypeOK, Row
  <2>4. CASE \E k \in Nat : Take(m, x, k)
    BY <1>5, <2>2, <2>4, TakeType DEF TypeOK, Lookup, data
  <2>5. CASE Report(m, x, "skipped")
    BY <1>5, <2>2, <2>5, ReportType DEF TypeOK, Lookup, data
  <2> QED
    BY <2>1, <2>2, <2>3, <2>4, <2>5
<1>6. CASE LookupFails(m)
  <2>1. PICK x \in todo[m] : Take(m, x, 0)
    BY <1>6 DEF LookupFails
  <2>2. x \in Row /\ 0 \in Nat
    BY DEF TypeOK
  <2> QED
    BY <1>6, <2>1, <2>2, TakeType DEF TypeOK, LookupFails, data
<1>7. ASSUME Fails(m), UNCHANGED <<rows, assets, files, live, fresh, edits, job, lagging>>,
             past' = past \/ Remember
      PROVE  TypeOK'
  <2>1. PICK x \in item[m] : Report(m, x, "failed")
    BY <1>7 DEF Fails
  <2>2. x \in Row /\ "failed" \in Status
    BY DEF TypeOK, Status
  <2> QED
    BY <1>7, <2>1, <2>2, ReportType, RememberType DEF TypeOK
<1>8. CASE CopyFile(m)
  <2>1. CASE Fails(m) /\ UNCHANGED <<files, fresh>>
    BY <1>7, <1>8, <2>1 DEF CopyFile
  <2>2. CASE Goto(m, "check") /\ UNCHANGED <<files, fresh, work>>
    BY <1>8, <2>2 DEF CopyFile, TypeOK, Goto, Running, work
  <2>3. CASE /\ files' = files \cup {[id |-> fresh, of |-> f.of] :
                                       f \in {g \in files : g.id = draft[m].id}}
             /\ copy' = [copy EXCEPT ![m] = fresh]
             /\ fresh' = fresh + 1
             /\ Goto(m, "row")
             /\ UNCHANGED <<todo, item, found, draft, results>>
    <3>1. files' \in SUBSET File /\ \A f \in files' : f.id < fresh'
      BY <1>1, <2>3 DEF TypeOK, File
    <3>2. /\ \A x \in rows : x.id < fresh'
          /\ \A a \in assets : a < fresh'
      BY <1>1, <2>3 DEF TypeOK, Row
    <3>3. copy' \in [Migrations -> Nat] /\ fresh' \in Nat /\ fresh' >= FirstFresh
      BY <1>1, <2>3 DEF TypeOK
    <3> QED
      BY <1>8, <2>3, <3>1, <3>2, <3>3 DEF CopyFile, TypeOK, Goto, Running
  <2> QED
    BY <1>8, <2>1, <2>2, <2>3 DEF CopyFile
<1>9. CASE CopyRow(m)
  <2>1. CASE Fails(m) /\ UNCHANGED assets
    BY <1>7, <1>9, <2>1 DEF CopyRow
  <2>2. CASE /\ assets' = assets \cup {copy[m]}
             /\ Hold(m, item[m], found[m], Redirected(draft[m], copy[m]), 0)
             /\ Goto(m, "check")
             /\ UNCHANGED <<todo, results>>
    <3>1. copy[m] \in Nat \ {0} /\ copy[m] < fresh
      BY <1>1, <1>9 DEF CopyRow, ProgressOf
    <3>2. Redirected(draft[m], copy[m]) \in Content
      BY <3>1 DEF Redirected, Content, TypeOK
    <3>3. /\ draft' \in [Migrations -> Content] /\ copy' \in [Migrations -> Nat]
          /\ item' \in [Migrations -> SUBSET Row] /\ found' \in [Migrations -> Nat]
      BY <2>2, <3>2 DEF Hold, TypeOK
    <3>4. assets' \in SUBSET (Nat \ {0}) /\ \A a \in assets' : a < fresh
      BY <2>2, <3>1 DEF TypeOK
    <3> QED
      BY <1>9, <2>2, <3>3, <3>4 DEF CopyRow, TypeOK, Goto, Running
  <2> QED
    BY <1>9, <2>1, <2>2 DEF CopyRow
<1>10. CASE Check(m)
  <2>1. CASE Fails(m)
    BY <1>7, <1>10, <2>1 DEF Check, data
  <2>2. CASE Goto(m, "write") /\ UNCHANGED work
    BY <1>10, <2>2 DEF Check, TypeOK, Goto, Running, data, work
  <2> QED
    BY <1>10, <2>1, <2>2 DEF Check
<1>11. CASE Write(m)
  <2>1. CASE Fails(m) /\ UNCHANGED <<rows, fresh>>
    BY <1>7, <1>11, <2>1 DEF Write
  <2>2. draft[m] \in Content /\ job[m] \in Job /\ "succeeded" \in Status
    BY DEF TypeOK, Status, MigrateAssumption
  <2>3. CASE \E x \in item[m] : rows' = rows \cup {Copied(m, x)}
                                /\ fresh' = fresh + 1 /\ Report(m, x, "succeeded")
    <3>1. PICK x \in item[m] : rows' = rows \cup {Copied(m, x)}
                               /\ Report(m, x, "succeeded")
      BY <2>3
    <3>2. x \in Row /\ Copied(m, x) \in Row /\ Copied(m, x).id = fresh
      BY <1>1, <2>2 DEF TypeOK, Copied, Row, Job
    <3>3. fresh' = fresh + 1
      BY <2>3
    <3>4. rows' \in SUBSET Row /\ \A y \in rows' : y.id < fresh'
      BY <1>1, <3>1, <3>2, <3>3 DEF TypeOK, Row
    <3>5. /\ \A a \in assets : a < fresh'
          /\ \A f \in files : f.id < fresh'
      BY <1>1, <3>3 DEF TypeOK, File
    <3>6. past' \in [Scopes -> SUBSET SUBSET Row]
      BY <1>11, <3>4, RememberType DEF Write
    <3> QED
      BY <1>1, <1>11, <2>2, <3>1, <3>2, <3>3, <3>4, <3>5, <3>6, ReportType
      DEF Write, TypeOK
  <2>4. CASE /\ LET hit == WithKey(job[m].target, found[m]) IN
                rows' = (rows \ hit) \cup {[x EXCEPT !.content = draft[m]] : x \in hit}
             /\ fresh' = fresh
             /\ \E x \in item[m] : Report(m, x, "succeeded")
    <3>1. PICK x \in item[m] : Report(m, x, "succeeded")
      BY <2>4
    <3>2. x \in Row
      BY DEF TypeOK
    <3>3. ASSUME NEW z \in rows, NEW y, y = [z EXCEPT !.content = draft[m]]
          PROVE  y \in Row /\ y.id = z.id
      BY <2>2, <3>3 DEF TypeOK, Row
    <3>4. \A y \in rows' :
            y \in rows \/ \E z \in rows : y = [z EXCEPT !.content = draft[m]]
      BY <2>4 DEF WithKey
    <3>5. \A y \in rows' : y \in Row /\ y.id < fresh
      <4>1. \A y \in rows : y \in Row /\ y.id < fresh
        BY DEF TypeOK
      <4> QED
        BY <3>3, <3>4, <4>1
    <3>6. past' \in [Scopes -> SUBSET SUBSET Row]
      BY <1>11, <3>5, RememberType DEF Write
    <3> QED
      BY <1>11, <2>2, <2>4, <3>5, <3>6, <3>1, <3>2, <3>4, ReportType DEF Write, TypeOK
  <2> QED
    BY <1>11, <2>1, <2>3, <2>4 DEF Write
<1>12. CASE Finish(m)
  BY <1>12 DEF TypeOK, Finish, Goto, Running, data
<1> QED
  BY Step(m), <1>2, <1>3, <1>4, <1>5, <1>6, <1>8, <1>9, <1>10, <1>11, <1>12
  DEF Step

LEMMA CrashKeepsType ==
  ASSUME TypeOK, Crash
  PROVE  TypeOK'
<1>1. NoText \in Content
  BY DEF NoText, Content
<1> QED
  BY <1>1 DEF TypeOK, Crash, Forget, data

LEMMA EditKeepsType ==
  ASSUME MigrateAssumption, TypeOK, Edit
  PROVE  TypeOK'
<1>1. /\ fresh \in Nat \ {0} /\ fresh + 1 \in Nat /\ fresh + 1 >= FirstFresh
      /\ \A n \in Nat : n < fresh => n < fresh + 1
      /\ fresh < fresh + 1
  BY DEF TypeOK, MigrateAssumption
<1>2. edits' \in 0 .. MaxEdits
  BY DEF Edit, TypeOK, MigrateAssumption
<1>3. /\ assets' = assets /\ files' = files /\ pc' = pc /\ job' = job
      /\ todo' = todo /\ item' = item /\ found' = found /\ draft' = draft
      /\ copy' = copy /\ results' = results /\ lagging' = lagging
      /\ rows' \in SUBSET Row => past' \in [Scopes -> SUBSET SUBSET Row]
  BY RememberType DEF Edit, work
<1>4. ConsoleTexts \subseteq Content
  BY DEF MigrateAssumption
<1>5. ASSUME NEW s \in Scopes, NEW a \in Aliases \cup {NoAlias},
             NEW c \in ConsoleTexts,
             rows' = rows \cup
               {[id |-> fresh, scope |-> s, alias |-> a, content |-> c]},
             fresh' = fresh + 1, live' = live
      PROVE  TypeOK'
  <2>1. /\ [id |-> fresh, scope |-> s, alias |-> a, content |-> c] \in Row
        /\ [id |-> fresh, scope |-> s, alias |-> a, content |-> c].id = fresh
    BY <1>1, <1>4 DEF Row
  <2>2. rows' \in SUBSET Row /\ \A x \in rows' : x.id < fresh'
    BY <1>1, <1>5, <2>1 DEF TypeOK, Row
  <2>3. /\ \A a_1 \in assets : a_1 < fresh'
        /\ \A f \in files : f.id < fresh'
    BY <1>1, <1>5 DEF TypeOK, File
  <2> QED
    BY <1>1, <1>2, <1>3, <1>5, <2>2, <2>3 DEF TypeOK
<1>6. ASSUME NEW x \in rows, NEW c \in ConsoleTexts,
             rows' = (rows \ {x}) \cup {[x EXCEPT !.content = c]},
             fresh' = fresh, live' = live
      PROVE  TypeOK'
  <2>1. x \in Row /\ x.id < fresh
    BY DEF TypeOK
  <2>2. ASSUME NEW y, y = [x EXCEPT !.content = c]
        PROVE  y \in Row /\ y.id = x.id
    BY <1>4, <2>1, <2>2 DEF Row
  <2>3. \A y \in rows' : y \in Row /\ y.id < fresh
    BY <1>6, <2>1, <2>2 DEF TypeOK
  <2> QED
    BY <1>2, <1>3, <1>6, <2>3 DEF TypeOK
<1>7. ASSUME NEW x \in rows, rows' = rows \ {x}, fresh' = fresh, live' = live
      PROVE  TypeOK'
  BY <1>2, <1>3, <1>7 DEF TypeOK
<1>8. ASSUME NEW s \in live, live' = live \ {s}, rows' = rows, fresh' = fresh
      PROVE  TypeOK'
  BY <1>2, <1>3, <1>8 DEF TypeOK
<1> QED
  BY <1>5, <1>6, <1>7, <1>8 DEF Edit

\* What the step of a migration does to what it holds itself.
LEMMA StepKeepsProgress ==
  ASSUME MigrateAssumption, IInv, NEW m \in Migrations, Step(m)
  PROVE  ProgressOf(m)'
<1>1. TypeOK /\ ProgressOf(m) /\ RefsServed
  BY DEF IInv, Progress
<1>2. /\ assets \subseteq assets' /\ files \subseteq files' /\ job' = job
      /\ fresh <= fresh' /\ fresh' \in Nat /\ fresh \in Nat
  BY <1>1, Grows DEF Next, TypeOK
<1>3. /\ Served(draft[m])' \/ draft'[m] # draft[m]
      /\ \A x \in todo[m] : Served(x.content)'
      /\ \A x \in rows : Served(x.content)'
      /\ Served(NoText)'
  BY <1>1, <1>2, ServedStays DEF ProgressOf, RefsServed, Served, NoText
<1>4. ASSUME NEW x, NEW status, Report(m, x, status)
      PROVE  ProgressOf(m)'
  <2>1. /\ pc'[m] = "item" /\ found'[m] = 0 /\ draft'[m] = NoText
        /\ todo'[m] \subseteq todo[m]
    BY <1>1, <1>4 DEF Report, Hold, Goto, TypeOK
  <2> QED
    BY <1>3, <2>1 DEF ProgressOf, Served
<1>5. ASSUME pc'[m] # "row", UNCHANGED work
      PROVE  ProgressOf(m)'
  <2>1. todo'[m] = todo[m] /\ found'[m] = found[m] /\ draft'[m] = draft[m]
    BY <1>5 DEF work
  <2> QED
    BY <1>1, <1>2, <1>3, <1>5, <2>1 DEF ProgressOf, Served
<1>6. ASSUME NEW x \in todo[m], NEW k, Take(m, x, k), k # 0 => job[m].overwrite
      PROVE  ProgressOf(m)'
  <2>1. /\ pc'[m] = "copy" /\ found'[m] = k /\ draft'[m] = x.content
        /\ todo'[m] = todo[m]
    BY <1>1, <1>6 DEF Take, Hold, Goto, TypeOK
  <2> QED
    BY <1>2, <1>3, <1>6, <2>1 DEF ProgressOf, Served
<1>7. CASE Start(m) \/ Verify(m)
  BY <1>1, <1>5, <1>7 DEF Start, Verify, Goto, TypeOK
<1>8. CASE List(m)
  <2>1. /\ pc'[m] = "item" /\ found'[m] = found[m] /\ draft'[m] = draft[m]
        /\ \E list \in Answers(job[m].source) : todo'[m] \subseteq list
    BY <1>1, <1>8 DEF List, Goto, TypeOK
  <2>2. job[m].source \in Scopes
    BY <1>1 DEF TypeOK, MigrateAssumption, Job
  <2>3. \A x \in todo'[m] : Served(x.content)
    BY <2>1, <2>2, AnswersSound
  <2> QED
    BY <1>1, <1>2, <1>3, <2>1, <2>3 DEF ProgressOf, Served
<1>9. CASE Lookup(m)
  BY <1>4, <1>6, <1>9 DEF Lookup
<1>10. CASE LookupFails(m)
  BY <1>6, <1>10 DEF LookupFails
<1>11. CASE Fails(m)
  BY <1>4, <1>11 DEF Fails
<1>12. CASE CopyFile(m)
  <2>1. CASE Goto(m, "check") /\ UNCHANGED work
    BY <1>1, <1>5, <2>1 DEF Goto, TypeOK
  <2>2. CASE /\ \E f \in files : f.id = draft[m].id
             /\ files' = files \cup {[id |-> fresh, of |-> f.of] :
                                       f \in {g \in files : g.id = draft[m].id}}
             /\ copy' = [copy EXCEPT ![m] = fresh]
             /\ fresh' = fresh + 1
             /\ UNCHANGED <<todo, item, found, draft, results>>
    <3>1. copy'[m] = fresh /\ fresh \in FirstFresh .. fresh' - 1
      BY <1>1, <2>2 DEF TypeOK, MigrateAssumption
    <3>2. PICK g \in files : g.id = draft[m].id
      BY <2>2
    <3>3. \E f \in files' : f.id = fresh
      <4>1. [id |-> fresh, of |-> g.of] \in files'
        BY <2>2, <3>2
      <4> QED
        BY <4>1
    <3> QED
      BY <1>1, <1>2, <1>3, <2>2, <3>1, <3>3 DEF ProgressOf, Served
  <2> QED
    BY <1>11, <1>12, <2>1, <2>2 DEF CopyFile
<1>13. CASE CopyRow(m)
  <2>1. CASE /\ assets' = assets \cup {copy[m]}
             /\ Hold(m, item[m], found[m], Redirected(draft[m], copy[m]), 0)
             /\ Goto(m, "check")
             /\ UNCHANGED <<todo, results>>
    <3>1. /\ pc'[m] = "check" /\ found'[m] = found[m] /\ todo'[m] = todo[m]
          /\ draft'[m] = Redirected(draft[m], copy[m])
      BY <1>1, <2>1 DEF Hold, Goto, TypeOK
    <3>2. copy[m] \in assets' /\ \E f \in files' : f.id = copy[m]
      BY <1>1, <1>2, <1>13, <2>1 DEF CopyRow, ProgressOf
    <3>3. draft[m] \in Content /\ Served(draft[m]) /\ files' = files
      BY <1>1, <1>13 DEF TypeOK, ProgressOf, CopyRow
    <3>4. ASSUME NEW c, c = Redirected(draft[m], copy[m])
          PROVE  Served(c)'
      <4>1. CASE draft[m].form = "asset"
        BY <3>2, <3>3, <3>4, <4>1 DEF Served, Redirected, Content
      <4>2. CASE draft[m].form # "asset"
        BY <2>1, <3>3, <3>4, <4>2 DEF Served, Redirected
      <4> QED
        BY <4>1, <4>2
    <3> QED
      BY <1>1, <1>2, <1>3, <3>1, <3>4 DEF ProgressOf, Served
  <2> QED
    BY <1>11, <1>13, <2>1 DEF CopyRow
<1>14. CASE Check(m)
  BY <1>1, <1>5, <1>11, <1>14 DEF Check, Goto, TypeOK
<1>15. CASE Write(m)
  BY <1>4, <1>11, <1>15 DEF Write
<1>16. CASE Finish(m)
  <2>1. /\ pc'[m] = "done" /\ todo'[m] = todo[m]
        /\ found'[m] = found[m] /\ draft'[m] = draft[m]
    BY <1>1, <1>16 DEF Finish, Goto, TypeOK
  <2> QED
    BY <1>1, <1>2, <1>3, <2>1 DEF ProgressOf, Served
<1> QED
  BY Step(m), <1>7, <1>8, <1>9, <1>10, <1>12, <1>13, <1>14, <1>15, <1>16 DEF Step

LEMMA OthersProgress ==
  ASSUME MigrateAssumption, IInv, NEW m \in Migrations, Step(m),
         NEW n \in Migrations, n # m
  PROVE  ProgressOf(n)'
<1>1. TypeOK /\ ProgressOf(n)
  BY DEF IInv, Progress
<1>2. /\ assets \subseteq assets' /\ files \subseteq files' /\ job' = job
      /\ fresh <= fresh' /\ fresh' \in Nat /\ fresh \in Nat /\ FirstFresh \in Nat
  BY <1>1, Grows DEF Next, TypeOK, MigrateAssumption
<1>3. /\ pc'[n] = pc[n] /\ todo'[n] = todo[n] /\ found'[n] = found[n]
      /\ draft'[n] = draft[n] /\ copy'[n] = copy[n]
  BY <1>1, FrameOfStep
<1>4. Served(draft[n])' /\ \A x \in todo'[n] : Served(x.content)'
  BY <1>1, <1>2, <1>3 DEF ProgressOf, Served
<1>5. pc[n] = "row" => copy[n] \in FirstFresh .. fresh' - 1
  BY <1>1, <1>2 DEF ProgressOf
<1> QED
  BY <1>1, <1>2, <1>3, <1>4, <1>5 DEF ProgressOf

\* A list that gets cached is one the table shows.
LEMMA NextKeepsPast ==
  ASSUME TypeOK, PastServed, Next, RefsServed'
  PROVE  PastServed'
<1>1. assets \subseteq assets' /\ files \subseteq files'
  BY Grows
<1>2. past' = past \/ Remember
  BY DEF Next, Step, Start, Verify, List, Lookup, LookupFails, CopyFile, CopyRow,
     Check, Write, Finish, Crash, Edit, data
<1>3. \A s \in Scopes : \A list \in past'[s] :
        list \in past[s] \/ \A x \in list : Served(x.content)'
  BY <1>2 DEF TypeOK, Remember, ListOf, RefsServed
<1> QED
  BY <1>1, <1>3 DEF PastServed, Served

\* The console's operations and a crash take nothing from the references.
LEMMA OthersKeepInv ==
  ASSUME MigrateAssumption, IInv, Crash \/ Edit
  PROVE  IInv'
<1>1. TypeOK /\ RefsServed /\ \A m \in Migrations : ProgressOf(m)
  BY DEF IInv, Progress
<1>2. TypeOK'
  BY <1>1, CrashKeepsType, EditKeepsType
<1>3. /\ assets' = assets /\ files' = files /\ job' = job
      /\ fresh <= fresh' /\ fresh' \in Nat /\ fresh \in Nat /\ FirstFresh \in Nat
  BY <1>1, Grows DEF Crash, Edit, data, Next, TypeOK, MigrateAssumption
<1>4. RefsServed'
  <2>1. CASE Crash
    BY <1>1, <2>1 DEF Crash, data, RefsServed, Served
  <2>2. CASE Edit
    <3>1. \A x \in rows' : x \in rows \/ x.content \in ConsoleTexts
      <4>1. ASSUME NEW z \in rows, NEW c \in ConsoleTexts,
                   NEW x, x = [z EXCEPT !.content = c]
            PROVE  x.content = c
        BY <1>1, <4>1 DEF TypeOK, Row
      <4> QED
        BY <2>2, <4>1 DEF Edit
    <3>2. \A c \in ConsoleTexts : c.form = "text"
      BY DEF MigrateAssumption
    <3> QED
      BY <1>1, <1>3, <3>1, <3>2 DEF RefsServed, Served
  <2> QED
    BY <2>1, <2>2
<1>5. ASSUME NEW m \in Migrations PROVE ProgressOf(m)'
  <2>1. CASE Edit
    <3>1. /\ pc' = pc /\ todo' = todo /\ found' = found /\ draft' = draft
          /\ copy' = copy
      BY <2>1 DEF Edit, work
    <3>2. pc[m] = "row" => copy[m] \in FirstFresh .. fresh' - 1
      BY <1>1, <1>3 DEF ProgressOf
    <3> QED
      BY <1>1, <1>3, <3>1, <3>2 DEF ProgressOf, Served
  <2>2. CASE Crash
    <3>1. \/ /\ pc'[m] = "crashed" /\ todo'[m] = {} /\ found'[m] = 0
             /\ draft'[m] = NoText
          \/ /\ pc'[m] = pc[m] /\ todo'[m] = todo[m] /\ found'[m] = found[m]
             /\ draft'[m] = draft[m] /\ copy'[m] = copy[m]
      BY <2>2 DEF Crash, Forget
    <3>2. fresh' = fresh
      BY <2>2 DEF Crash, data
    <3> QED
      BY <1>1, <1>3, <3>1, <3>2 DEF ProgressOf, Served, NoText
  <2> QED
    BY <2>1, <2>2
<1>6. PastServed'
  BY <1>1, <1>4, NextKeepsPast DEF IInv, Next
<1> QED
  BY <1>2, <1>4, <1>5, <1>6 DEF IInv, Progress

\* Only the saving of an item writes rows, and with the content it carries.
LEMMA StepKeepsRefs ==
  ASSUME MigrateAssumption, IInv, NEW m \in Migrations, Step(m)
  PROVE  RefsServed'
<1>1. TypeOK /\ RefsServed /\ ProgressOf(m)
  BY DEF IInv, Progress
<1>2. assets \subseteq assets' /\ files \subseteq files'
  BY <1>1, Grows DEF Next
<1>3. CASE rows' = rows
  BY <1>1, <1>2, <1>3 DEF RefsServed, Served
<1>4. CASE Write(m)
  <2>1. ASSUME NEW z \in rows, NEW x, x = [z EXCEPT !.content = draft[m]]
        PROVE  x.content = draft[m]
    BY <1>1, <2>1 DEF TypeOK, Row
  <2>2. \A x \in rows' : x \in rows \/ x.content = draft[m]
    BY <1>4, <2>1 DEF Write, WithKey, Copied
  <2> QED
    BY <1>1, <1>2, <2>2 DEF RefsServed, Served, ProgressOf
<1> QED
  BY Step(m), <1>3, <1>4 DEF Step, Start, Verify, List, Lookup, LookupFails,
     CopyFile, CopyRow, Check, Finish, data

LEMMA NextKeepsIInv ==
  ASSUME MigrateAssumption, IInv, Next
  PROVE  IInv'
<1>1. ASSUME NEW m \in Migrations, Step(m) PROVE IInv'
  <2>1. TypeOK'
    BY <1>1, StepKeepsType
  <2>2. \A n \in Migrations : ProgressOf(n)'
    BY <1>1, StepKeepsProgress, OthersProgress
  <2>3. RefsServed' /\ PastServed'
    BY <1>1, StepKeepsRefs, NextKeepsPast DEF IInv, Next
  <2> QED
    BY <1>1, <2>1, <2>2, <2>3 DEF IInv, Progress
<1> QED
  BY <1>1, OthersKeepInv DEF Next

LEMMA StutterKeepsIInv ==
  ASSUME IInv, UNCHANGED vars
  PROVE  IInv'
BY DEF vars, IInv, TypeOK, Progress, ProgressOf, RefsServed, PastServed, Served, Running,
   File, Row, Status

\* The inductive invariant.
THEOREM Invariant == Spec => []IInv
<1>1. Init => IInv
  BY InitIInv, MigrateAssumption
<1>2. IInv /\ [Next]_vars => IInv'
  BY NextKeepsIInv, StutterKeepsIInv, MigrateAssumption
<1> QED
  BY <1>1, <1>2, PTL DEF Spec

\* The tables and the migrations keep their types; in particular a row is
\* never stored without a resource key (ConfigDAO.Create).
THEOREM TypeCorrect == Spec => []TypeOK
<1>1. IInv => TypeOK
  BY DEF IInv
<1> QED
  BY <1>1, Invariant, PTL

\* No stored reference to a copied asset leads nowhere, whatever step of
\* copyConfigAssets failed and whatever the console did in between.
THEOREM RefsServedTheorem == Spec => []RefsServed
<1>1. IInv => RefsServed
  BY DEF IInv
<1> QED
  BY <1>1, Invariant, PTL

\* A migration replaces rows of its target only, and only when it overwrites.
THEOREM OnlyOverwriteReplacesTheorem == Spec => OnlyOverwriteReplaces
<1> DEFINE Allowed ==
      \A x \in rows \ rows' :
         \/ edits' # edits
         \/ \E m \in Migrations : /\ pc[m] = "write" /\ pc'[m] = "item"
                                  /\ job[m].overwrite
                                  /\ x.scope = job[m].target
<1>1. IInv /\ [Next]_vars => [Allowed]_vars
  <2> SUFFICES ASSUME IInv, Next PROVE Allowed
    OBVIOUS
  <2>1. CASE Crash
    BY <2>1 DEF Crash, data
  <2>2. CASE Edit
    BY <2>2 DEF Edit, IInv, TypeOK, MigrateAssumption
  <2>3. ASSUME NEW m \in Migrations, Step(m) PROVE Allowed
    <3>1. CASE Write(m)
      <4> SUFFICES ASSUME NEW x \in rows \ rows'
                   PROVE  /\ pc[m] = "write" /\ pc'[m] = "item"
                          /\ job[m].overwrite /\ x.scope = job[m].target
        OBVIOUS
      <4>1. found[m] # 0 /\ x \in WithKey(job[m].target, found[m])
            /\ \E y, s : Report(m, y, s)
        BY <3>1 DEF Write
      <4>2. pc[m] = "write" /\ pc'[m] = "item"
        BY <3>1, <4>1 DEF Write, Report, Goto, IInv, TypeOK
      <4> QED
        BY <4>1, <4>2 DEF WithKey, IInv, Progress, ProgressOf
    <3>2. CASE rows' = rows
      BY <3>2
    <3> QED
      BY <2>3, <3>1, <3>2 DEF Step, Start, Verify, List, Lookup, LookupFails,
         CopyFile, CopyRow, Check, Finish, data
  <2> QED
    BY <2>1, <2>2, <2>3 DEF Next
<1> QED
  BY <1>1, Invariant, PTL DEF Spec, OnlyOverwriteReplaces

-----------------------------------------------------------------------------
\* With the lock nobody else is inside, and what the migration has checked
\* still holds.
Alone == \A m, n \in Inside : m = n

CheckedOf(m) ==
    /\ pc[m] \in Running \ {"verify"} => job[m].target \in live
    /\ pc[m] = "write" /\ found[m] = 0 =>
         \A x \in item[m] : x.alias = NoAlias \/ WithAlias(job[m].target, x.alias) = {}

LockInv == IInv /\ Alone /\ \A m \in Migrations : CheckedOf(m)

\* While a migration inside takes a step all others are outside.
LEMMA OnlyOneSteps ==
  ASSUME LockEnabled, IInv, Alone, NEW m \in Migrations, Step(m),
         m \in Inside \/ m \in Inside', NEW n \in Migrations, n # m
  PROVE  n \notin Inside /\ n \notin Inside'
<1>1. TypeOK
  BY DEF IInv
<1>2. pc'[n] = pc[n]
  BY <1>1, FrameOfStep
<1>3. CASE m \in Inside
  BY <1>2, <1>3 DEF Alone, Inside
<1>4. CASE m \notin Inside
  <2>1. Start(m)
    BY <1>4, Step(m) DEF Step, Verify, List, Lookup, LookupFails, CopyFile, CopyRow,
       Check, Write, Finish, Inside, Running
  <2>2. pc'[m] \in Running
    BY <1>4 DEF Inside
  <2>3. Lock!Enter(m)
    BY <1>1, <2>1, <2>2 DEF Start, Goto, Running, TypeOK
  <2> QED
    BY <1>2, <2>3 DEF Lock!Enter, Inside
<1> QED
  BY <1>3, <1>4

\* A migration that is outside before and after its step was refused.
LEMMA RefusedKeepsData ==
  ASSUME TypeOK, NEW m \in Migrations, Step(m), m \notin Inside, m \notin Inside'
  PROVE  UNCHANGED <<data, work>> /\ pc'[m] # "write"
<1>1. Start(m)
  BY DEF Step, Verify, List, Lookup, LookupFails, CopyFile, CopyRow,
     Check, Write, Finish, Inside, Running
<1> QED
  BY <1>1 DEF Start, Goto, TypeOK

LEMMA StepKeepsChecked ==
  ASSUME LockEnabled, LockInv, NEW m \in Migrations, Step(m)
  PROVE  CheckedOf(m)'
<1>1. TypeOK /\ CheckedOf(m) /\ job' = job
  BY Grows DEF LockInv, IInv, Next
<1>2. ASSUME NEW x, NEW status, Report(m, x, status), live' = live,
             pc[m] \in Running \ {"verify"}
      PROVE  CheckedOf(m)'
  <2>1. pc'[m] = "item"
    BY <1>1, <1>2 DEF Report, Goto, TypeOK
  <2> QED
    BY <1>1, <1>2, <2>1 DEF CheckedOf
<1>3. CASE Start(m)
  BY <1>1, <1>3 DEF Start, Goto, TypeOK, CheckedOf, Running
<1>4. CASE Verify(m)
  BY <1>1, <1>4 DEF Verify, Goto, TypeOK, CheckedOf, Running, data
<1>5. CASE List(m)
  BY <1>1, <1>5 DEF List, Goto, TypeOK, CheckedOf, Running, data
<1>6. CASE Lookup(m) \/ LookupFails(m)
  <2>1. ASSUME NEW x, NEW k, Take(m, x, k) PROVE pc'[m] = "copy"
    BY <1>1, <2>1 DEF Take, Goto, TypeOK
  <2> QED
    BY <1>1, <1>2, <1>6, <2>1 DEF Lookup, LookupFails, CheckedOf, Running, data
<1>7. CASE Fails(m) /\ live' = live /\ pc[m] \in Running \ {"verify"}
  BY <1>2, <1>7 DEF Fails
<1>8. CASE CopyFile(m)
  BY <1>1, <1>7, <1>8 DEF CopyFile, Goto, TypeOK, CheckedOf, Running
<1>9. CASE CopyRow(m)
  BY <1>1, <1>7, <1>9 DEF CopyRow, Goto, TypeOK, CheckedOf, Running
<1>10. CASE Check(m)
  <2>1. CASE Fails(m)
    BY <1>7, <1>10, <2>1 DEF Check, data, Running
  <2>2. CASE /\ Goto(m, "write") /\ UNCHANGED work
             /\ found[m] = 0 =>
                  \A x \in item[m] : \/ x.alias = NoAlias
                                     \/ WithAlias(job[m].target, x.alias) = {}
    <3>1. pc'[m] = "write" /\ pc[m] \in Running \ {"verify"}
      BY <1>1, <1>10, <2>2 DEF Check, Goto, TypeOK, Running
    <3>2. /\ live' = live /\ rows' = rows /\ found'[m] = found[m]
          /\ item'[m] = item[m]
      BY <1>10, <2>2 DEF Check, data, work
    <3> QED
      BY <1>1, <2>2, <3>1, <3>2 DEF CheckedOf, WithAlias
  <2> QED
    BY <1>10, <2>1, <2>2 DEF Check
<1>11. CASE Write(m)
  BY <1>2, <1>7, <1>11 DEF Write, Running
<1>12. CASE Finish(m)
  BY <1>1, <1>12 DEF Finish, Goto, TypeOK, CheckedOf, Running
<1> QED
  BY Step(m), <1>3, <1>4, <1>5, <1>6, <1>8, <1>9, <1>10, <1>11, <1>12 DEF Step

LEMMA NextKeepsLockInv ==
  ASSUME MigrateAssumption, LockEnabled, LockInv, Next
  PROVE  LockInv'
<1>1. IInv' /\ TypeOK
  BY NextKeepsIInv DEF LockInv, IInv
<1>2. ASSUME Inside' = {} PROVE Alone' /\ \A m \in Migrations : CheckedOf(m)'
  <2>1. \A m \in Migrations : pc'[m] \notin Running
    BY <1>2 DEF Inside
  <2>2. \A m \in Migrations : pc'[m] # "write"
    BY <2>1 DEF Running
  <2> QED
    BY <1>2, <2>1, <2>2 DEF Alone, CheckedOf
<1>3. CASE Crash
  <2>1. \A m \in Migrations : pc'[m] = "crashed" \/ (m \notin Inside /\ pc'[m] = pc[m])
    BY <1>3 DEF Crash, Forget
  <2>2. Inside' = {}
    BY <2>1 DEF Inside, Running
  <2> QED
    BY <1>1, <1>2, <2>2 DEF LockInv
<1>4. CASE Edit
  <2>1. Inside' = {}
    BY <1>4 DEF Edit, Inside
  <2> QED
    BY <1>1, <1>2, <2>1 DEF LockInv
<1>5. ASSUME NEW m \in Migrations, Step(m) PROVE LockInv'
  <2>1. ASSUME NEW n \in Migrations, n # m
        PROVE  pc'[n] = pc[n] /\ found'[n] = found[n] /\ item'[n] = item[n]
               /\ job'[n] = job[n]
    BY <1>1, <1>5, <2>1, FrameOfStep, Grows DEF Next
  <2>2. Alone'
    <3>1. CASE m \in Inside'
      BY <1>5, <3>1, OnlyOneSteps DEF LockInv, Alone, Inside
    <3>2. CASE m \notin Inside'
      BY <2>1, <3>2 DEF LockInv, Alone, Inside
    <3> QED
      BY <3>1, <3>2
  <2>3. ASSUME NEW n \in Migrations, n # m PROVE CheckedOf(n)'
    <3>1. CASE m \in Inside \/ m \in Inside'
      <4>1. pc'[n] \notin Running
        BY <1>5, <2>3, <3>1, OnlyOneSteps DEF Inside, LockInv
      <4>2. pc'[n] # "write"
        BY <4>1 DEF Running
      <4> QED
        BY <4>1, <4>2 DEF CheckedOf
    <3>2. CASE m \notin Inside /\ m \notin Inside'
      <4>1. UNCHANGED <<live, rows>>
        BY <1>1, <1>5, <3>2, RefusedKeepsData DEF data
      <4> QED
        BY <2>1, <2>3, <4>1 DEF LockInv, CheckedOf, WithAlias
    <3> QED
      BY <3>1, <3>2
  <2>4. CheckedOf(m)'
    BY <1>5, StepKeepsChecked
  <2> QED
    BY <1>1, <2>2, <2>3, <2>4 DEF LockInv
<1> QED
  BY <1>3, <1>4, <1>5 DEF Next

LEMMA InitLockInv ==
  ASSUME MigrateAssumption, Init
  PROVE  LockInv
<1>1. Inside = {}
  BY DEF Init, Inside, Running
<1> QED
  BY <1>1, InitIInv DEF LockInv, Alone, CheckedOf, Init, Running

LEMMA StutterKeepsLockInv ==
  ASSUME LockInv, UNCHANGED vars
  PROVE  LockInv'
BY StutterKeepsIInv DEF LockInv, Alone, CheckedOf, vars, Inside, Running, WithAlias

\* What the lock adds to the inductive invariant.
THEOREM LockInvariant == ASSUME LockEnabled PROVE Spec => []LockInv
<1>1. Init => LockInv
  BY InitLockInv, MigrateAssumption
<1>2. LockInv /\ [Next]_vars => LockInv'
  BY StutterKeepsLockInv, NextKeepsLockInv, MigrateAssumption
<1> QED
  BY <1>1, <1>2, PTL DEF Spec

\* With the lock a migration creates only in an environment and pipeline that
\* exist and under a free alias: the checks it made statements, and items,
\* earlier are never stale.
THEOREM CreatesInItsPlaceTheorem ==
  ASSUME LockEnabled PROVE Spec => CreatesInItsPlace
<1> DEFINE Created ==
      edits' = edits =>
         \A y \in rows' :
           (\A x \in rows : x.id # y.id) =>
             /\ y.scope \in live
             /\ y.alias # NoAlias => WithAlias(y.scope, y.alias) = {}
<1>1. LockInv /\ [Next]_vars => [Created]_vars
  <2> SUFFICES ASSUME LockInv, Next, edits' = edits,
                      NEW y \in rows', \A x \in rows : x.id # y.id
               PROVE  /\ y.scope \in live
                      /\ y.alias # NoAlias => WithAlias(y.scope, y.alias) = {}
    OBVIOUS
  <2>1. y \notin rows /\ rows' # rows
    OBVIOUS
  <2>2. ~Crash /\ ~Edit
    BY <2>1 DEF Crash, Edit, data, LockInv, IInv, TypeOK, MigrateAssumption
  <2>3. PICK m \in Migrations : Step(m)
    BY <2>2 DEF Next
  <2>4. Write(m)
    BY <2>1, <2>3 DEF Step, Start, Verify, List, Lookup, LookupFails,
       CopyFile, CopyRow, Check, Finish, data
  <2>5. ASSUME NEW z \in rows, y = [z EXCEPT !.content = draft[m]] PROVE FALSE
    <3>1. z \in Row
      BY DEF LockInv, IInv, TypeOK
    <3>2. y.id = z.id
      BY <2>5, <3>1 DEF Row
    <3> QED
      BY <3>2
  <2>6. found[m] = 0 /\ \E x \in item[m] : rows' = rows \cup {Copied(m, x)}
    BY <2>1, <2>4, <2>5 DEF Write, WithKey
  <2>7. PICK x \in item[m] : y = Copied(m, x)
    BY <2>1, <2>6
  <2>8. y.scope = job[m].target /\ y.alias = x.alias
    BY <2>7 DEF Copied
  <2>9. pc[m] = "write" /\ CheckedOf(m)
    BY <2>4 DEF Write, LockInv
  <2> QED
    BY <2>6, <2>8, <2>9 DEF CheckedOf, Running
<1> QED
  BY <1>1, LockInvariant, PTL DEF Spec, CreatesInItsPlace

-----------------------------------------------------------------------------
\* What a success means for a set of results, a table, stored files and a
\* target, so that each of them may change by itself.
BytesIn(F, i) == {f.of : f \in {g \in F : g.id = i}}

SameIn(F, c, d) ==
    \/ c = d
    \/ c.form = d.form /\ c.form # "text" /\ BytesIn(F, c.id) = BytesIn(F, d.id)

OnlyOne(R, r) == \A q \in R : q.item.alias = r.item.alias => q = r

StoredIn(R, T, F, t) ==
    \A r \in R : r.status = "succeeded" =>
      \E y \in T : /\ y.scope = t /\ y.alias = r.item.alias
                   /\ OnlyOne(R, r) => SameIn(F, y.content, r.item.content)

Result(x, s) == [item |-> x, status |-> s]

\* One more result does not take a success back, as long as it is none itself.
LEMMA ReportedStays ==
  ASSUME NEW R, NEW T, NEW F, NEW t, StoredIn(R, T, F, t),
         NEW x, NEW s, s # "succeeded"
  PROVE  StoredIn(R \cup {Result(x, s)}, T, F, t)
<1>1. Result(x, s).status # "succeeded"
  BY DEF Result
<1>2. ASSUME NEW r \in R, OnlyOne(R \cup {Result(x, s)}, r) PROVE OnlyOne(R, r)
  BY <1>2 DEF OnlyOne
<1> QED
  BY <1>1, <1>2 DEF StoredIn

\* A row that holds the content of an item makes the item a success; the rows
\* that stay keep the other successes.
LEMMA CreatedIsStored ==
  ASSUME NEW R, NEW T, NEW F, NEW t, StoredIn(R, T, F, t), NEW x, NEW y,
         y.scope = t, y.alias = x.alias, SameIn(F, y.content, x.content)
  PROVE  StoredIn(R \cup {Result(x, "succeeded")}, T \cup {y}, F, t)
<1> DEFINE new == Result(x, "succeeded")
<1>1. new.item = x
  BY DEF Result
<1>2. ASSUME NEW r \in R, OnlyOne(R \cup {new}, r) PROVE OnlyOne(R, r)
  BY <1>2 DEF OnlyOne
<1> HIDE DEF new
<1> QED
  BY <1>1, <1>2 DEF StoredIn, new

\* A replaced row serves the item that replaces it, and nobody else's success
\* rested on its content alone: they share its alias.
LEMMA ReplacedIsStored ==
  ASSUME NEW R, NEW T, NEW F, NEW t, StoredIn(R, T, F, t), NEW x,
         NEW z \in T, NEW y, z.alias = x.alias, y.scope = t, y.alias = z.alias,
         SameIn(F, y.content, x.content)
  PROVE  StoredIn(R \cup {Result(x, "succeeded")}, (T \ {z}) \cup {y}, F, t)
<1> DEFINE new == Result(x, "succeeded")
           R2 == R \cup {new}
           T2 == (T \ {z}) \cup {y}
<1>1. new.item = x
  BY DEF Result
<1> HIDE DEF new
<1> SUFFICES ASSUME NEW r \in R2, r.status = "succeeded"
             PROVE  \E w \in T2 : /\ w.scope = t /\ w.alias = r.item.alias
                                  /\ OnlyOne(R2, r)
                                       => SameIn(F, w.content, r.item.content)
  BY DEF StoredIn, new
<1>2. CASE r = new
  BY <1>1, <1>2
<1>3. CASE r # new /\ r.item.alias = x.alias
  <2>1. ~OnlyOne(R2, r)
    BY <1>1, <1>3 DEF OnlyOne
  <2> QED
    BY <1>3, <2>1
<1>4. CASE r # new /\ r.item.alias # x.alias
  <2>1. PICK w \in T : /\ w.scope = t /\ w.alias = r.item.alias
                       /\ OnlyOne(R, r) => SameIn(F, w.content, r.item.content)
    BY <1>4 DEF StoredIn
  <2>2. OnlyOne(R2, r) => OnlyOne(R, r)
    BY DEF OnlyOne
  <2>3. w \in T2
    BY <1>4, <2>1
  <2> QED
    BY <2>1, <2>2, <2>3
<1> QED
  BY <1>2, <1>3, <1>4

\* A copy gets a new file, so the bytes behind a number in use do not change.
AddsOnly(F, G, n) == F \subseteq G /\ \A f \in G : f \in F \/ f.id = n

LEMMA FilesOnlyAdded ==
  ASSUME Next
  PROVE  AddsOnly(files, files', fresh)
<1>1. ASSUME NEW m \in Migrations, CopyFile(m)
      PROVE  AddsOnly(files, files', fresh)
  BY <1>1 DEF CopyFile, work, AddsOnly
<1>2. ASSUME files' = files
      PROVE  AddsOnly(files, files', fresh)
  BY <1>2 DEF AddsOnly
<1> QED
  BY <1>1, <1>2 DEF Next, Step, Start, Verify, List, Lookup, LookupFails,
     CopyRow, Check, Write, Finish, Crash, Edit, data

LEMMA BytesStay ==
  ASSUME NEW F, NEW G, NEW n, AddsOnly(F, G, n)
  PROVE  \A i : i # n => BytesIn(G, i) = BytesIn(F, i)
BY DEF BytesIn, AddsOnly

\* A served reference leads to a number in use.
LEMMA ServedIsOld ==
  ASSUME MigrateAssumption, TypeOK, NEW c \in Content, Served(c), c.form # "text"
  PROVE  c.id # fresh
<1>1. fresh \in Nat /\ fresh >= FirstFresh /\ c.id \in Nat /\ FirstFresh \in Nat
  BY DEF MigrateAssumption, TypeOK, Content
<1>2. \A f \in files : f.id < fresh
  BY DEF TypeOK
<1>3. \A f \in files : f.id \in Nat
  BY DEF TypeOK, File
<1> QED
  BY <1>1, <1>2, <1>3 DEF Served

LEMMA SameStays ==
  ASSUME MigrateAssumption, TypeOK, NEW c \in Content, NEW d \in Content,
         Served(c), Served(d), SameIn(files, c, d), NEW G, AddsOnly(files, G, fresh)
  PROVE  SameIn(G, c, d)
<1>1. CASE c = d
  BY <1>1 DEF SameIn
<1>2. CASE c # d
  <2>1. c.form = d.form /\ c.form # "text" /\ BytesIn(files, c.id) = BytesIn(files, d.id)
    BY <1>2 DEF SameIn
  <2>2. c.id # fresh /\ d.id # fresh
    BY <2>1, ServedIsOld
  <2>3. \A i : i # fresh => BytesIn(G, i) = BytesIn(files, i)
    BY BytesStay
  <2> QED
    BY <2>1, <2>2, <2>3 DEF SameIn
<1> QED
  BY <1>1, <1>2

-----------------------------------------------------------------------------
\* What a migration knows once it has the lock: its content is the item's, byte
\* for byte, the row it has found has the item's alias and is still there when
\* it is written, and what it has reported is stored.
Holding == {"copy", "row", "check", "write"}

KnowsOf(m) ==
    /\ results[m] # {} => pc[m] \in {"item"} \cup Holding
    /\ \A r \in results[m] : Served(r.item.content)
    /\ pc[m] \in Holding =>
         \A x \in item[m] : /\ Served(x.content)
                            /\ SameIn(files, draft[m], x.content)
    /\ pc[m] = "row" =>
         /\ draft[m].form # "text"
         /\ BytesIn(files, copy[m]) = BytesIn(files, draft[m].id)
    /\ pc[m] \in Holding /\ found[m] # 0 =>
         \A z \in WithKey(job[m].target, found[m]), x \in item[m] : z.alias = x.alias
    /\ pc[m] = "write" /\ found[m] # 0 => WithKey(job[m].target, found[m]) # {}
    /\ StoredIn(results[m], rows, files, job[m].target)

StoredInv == LockInv /\ OneEach(rows) /\ \A m \in Migrations : KnowsOf(m)

\* No two rows get one UUID.
LEMMA RowsStayDistinct ==
  ASSUME MigrateAssumption, TypeOK, OneEach(rows), Next
  PROVE  OneEach(rows')
<1>1. \A x \in rows : x.id \in Nat /\ x.id # fresh
  BY DEF TypeOK, Row
<1>2. ASSUME NEW y, y.id = fresh, rows' = rows \cup {y}
      PROVE  OneEach(rows')
  BY <1>1, <1>2 DEF OneEach
<1>3. CASE rows' \subseteq rows
  BY <1>3 DEF OneEach
<1>4. ASSUME NEW z \in rows, NEW c, rows' = (rows \ {z}) \cup {[z EXCEPT !.content = c]}
      PROVE  OneEach(rows')
  <2>1. ASSUME NEW y, y = [z EXCEPT !.content = c] PROVE y.id = z.id
    BY <2>1 DEF TypeOK, Row
  <2>2. \A x \in rows \ {z} : x.id # z.id
    BY DEF OneEach
  <2> QED
    BY <1>4, <2>1, <2>2 DEF OneEach
<1>5. CASE Edit
  <2>1. ASSUME NEW s \in Scopes, NEW a \in Aliases \cup {NoAlias},
               NEW c \in ConsoleTexts,
               rows' = rows \cup
                 {[id |-> fresh, scope |-> s, alias |-> a, content |-> c]}
        PROVE  OneEach(rows')
    <3>1. [id |-> fresh, scope |-> s, alias |-> a, content |-> c].id = fresh
      OBVIOUS
    <3> QED
      BY <1>2, <2>1, <3>1
  <2> QED
    BY <1>3, <1>4, <1>5, <2>1 DEF Edit
<1>6. ASSUME NEW m \in Migrations, Write(m) PROVE OneEach(rows')
  <2>1. CASE \E x \in item[m] : rows' = rows \cup {Copied(m, x)}
    <3>1. \A x : Copied(m, x).id = fresh
      BY DEF Copied
    <3> QED
      BY <1>2, <2>1, <3>1
  <2>2. CASE rows' = (rows \ WithKey(job[m].target, found[m])) \cup
                     {[x EXCEPT !.content = draft[m]] :
                        x \in WithKey(job[m].target, found[m])}
    <3>1. CASE WithKey(job[m].target, found[m]) = {}
      BY <1>3, <2>2, <3>1
    <3>2. CASE WithKey(job[m].target, found[m]) # {}
      <4>1. PICK z \in rows : WithKey(job[m].target, found[m]) = {z}
        BY <3>2 DEF WithKey, OneEach
      <4>2. rows' = (rows \ {z}) \cup {[z EXCEPT !.content = draft[m]]}
        BY <2>2, <4>1
      <4> QED
        BY <1>4, <4>2
    <3> QED
      BY <3>1, <3>2
  <2> QED
    BY <1>3, <1>6, <2>1, <2>2 DEF Write
<1> QED
  BY <1>3, <1>5, <1>6 DEF Next, Crash, data, Step, Start, Verify, List, Lookup,
     LookupFails, CopyFile, CopyRow, Check, Finish

\* Whatever a step does to the files, what was stored in the table as it was
\* before the step is stored there still.
LEMMA StoredStays ==
  ASSUME MigrateAssumption, StoredInv, Next, NEW m \in Migrations
  PROVE  StoredIn(results[m], rows, files', job[m].target)
<1>1. TypeOK /\ RefsServed /\ AddsOnly(files, files', fresh)
  BY FilesOnlyAdded DEF StoredInv, LockInv, IInv
<1>2. ASSUME NEW r \in results[m], NEW y \in rows, SameIn(files, y.content, r.item.content)
      PROVE  SameIn(files', y.content, r.item.content)
  <2>1. y.content \in Content /\ r.item.content \in Content
    BY <1>1 DEF TypeOK, Row
  <2>2. Served(y.content) /\ Served(r.item.content)
    BY <1>1 DEF RefsServed, StoredInv, KnowsOf
  <2> QED
    BY <1>1, <1>2, <2>1, <2>2, SameStays
<1> QED
  BY <1>2 DEF StoredInv, KnowsOf, StoredIn

\* A copy holds the bytes of its original.
LEMMA CopyHasBytes ==
  ASSUME TypeOK, NEW a,
         files' = files \cup {[id |-> fresh, of |-> f.of] :
                                f \in {g \in files : g.id = a}}
  PROVE  BytesIn(files', fresh) = BytesIn(files, a)
<1>1. \A f \in files : f.id # fresh
  BY DEF TypeOK, File
<1>2. ASSUME NEW b, b \in BytesIn(files', fresh) PROVE b \in BytesIn(files, a)
  BY <1>1, <1>2 DEF BytesIn
<1>3. ASSUME NEW b, b \in BytesIn(files, a) PROVE b \in BytesIn(files', fresh)
  <2>1. PICK f \in files : f.id = a /\ f.of = b
    BY <1>3 DEF BytesIn
  <2>2. [id |-> fresh, of |-> f.of] \in files'
    BY <2>1
  <2> QED
    BY <2>1, <2>2 DEF BytesIn
<1> QED
  BY <1>2, <1>3 DEF BytesIn

\* What remains to be shown when an item has been reported.
LEMMA ReportKnows ==
  ASSUME TypeOK, NEW m \in Migrations, KnowsOf(m), NEW x, Served(x.content),
         NEW s, Report(m, x, s), job' = job,
         assets \subseteq assets', files \subseteq files',
         StoredIn(results[m] \cup {Result(x, s)}, rows', files', job[m].target)
  PROVE  KnowsOf(m)'
<1>1. pc'[m] = "item" /\ results'[m] = results[m] \cup {Result(x, s)}
  BY DEF Report, Goto, TypeOK, Result
<1>2. \A r \in results'[m] : Served(r.item.content)'
  <2>1. Result(x, s).item = x
    BY DEF Result
  <2> QED
    BY <1>1, <2>1 DEF KnowsOf, Served
<1> QED
  BY <1>1, <1>2 DEF KnowsOf, Holding

\* A step that leaves results, item, draft, copy and what was found as they are
\* disturbs nothing as long as it moves to a statement it has earned.
LEMMA CarriedOn ==
  ASSUME MigrateAssumption, StoredInv, Next, NEW m \in Migrations,
         rows' = rows, files' = files, UNCHANGED work, job' = job,
         assets \subseteq assets',
         pc[m] \in Holding, pc'[m] \in Holding \ {"row"},
         pc'[m] = "write" /\ found[m] # 0 => WithKey(job[m].target, found[m]) # {}
  PROVE  KnowsOf(m)'
<1>1. /\ results'[m] = results[m] /\ item'[m] = item[m] /\ draft'[m] = draft[m]
      /\ found'[m] = found[m] /\ copy'[m] = copy[m]
  BY DEF work
<1>2. KnowsOf(m)
  BY DEF StoredInv
<1>3. StoredIn(results[m], rows, files', job[m].target)
  BY StoredStays
<1> QED
  BY <1>1, <1>2, <1>3 DEF KnowsOf, Served, WithKey

\* The checks of the service make an item a success, the lock keeps it one.
LEMMA StepKeepsKnown ==
  ASSUME MigrateAssumption, LockEnabled, StoredInv, NEW m \in Migrations, Step(m)
  PROVE  KnowsOf(m)'
<1>1. /\ TypeOK /\ RefsServed /\ ProgressOf(m) /\ KnowsOf(m) /\ OneEach(rows)
      /\ job[m].target \in Scopes
  BY DEF StoredInv, LockInv, IInv, Progress, TypeOK, MigrateAssumption, Job
<1>2. /\ assets \subseteq assets' /\ files \subseteq files' /\ job' = job
      /\ AddsOnly(files, files', fresh) /\ Next
  BY <1>1, Grows, FilesOnlyAdded DEF Next
<1>3. StoredIn(results[m], rows, files', job[m].target)
  BY <1>2, StoredStays
<1>4. ASSUME NEW x, Served(x.content), NEW s, s # "succeeded", Report(m, x, s),
             rows' = rows
      PROVE  KnowsOf(m)'
  <2>1. StoredIn(results[m] \cup {Result(x, s)}, rows, files', job[m].target)
    BY <1>3, <1>4, ReportedStays
  <2> QED
    BY <1>1, <1>2, <1>4, <2>1, ReportKnows
<1>5. CASE Start(m)
  <2>1. pc[m] = "new" /\ pc'[m] \in {"refused", "verify"} /\ results'[m] = results[m]
        /\ rows' = rows
    BY <1>1, <1>5 DEF Start, Goto, TypeOK, work, data
  <2>2. results[m] = {}
    BY <1>1, <2>1 DEF KnowsOf, Holding
  <2> QED
    BY <2>1, <2>2 DEF KnowsOf, Holding, StoredIn
<1>6. CASE Verify(m) \/ List(m)
  <2>1. /\ pc[m] \in {"verify", "list"} /\ pc'[m] \in {"list", "refused", "item"}
        /\ results'[m] = results[m]
    BY <1>1, <1>6 DEF Verify, List, Goto, TypeOK, work
  <2>2. results[m] = {}
    BY <1>1, <2>1 DEF KnowsOf, Holding
  <2> QED
    BY <2>1, <2>2 DEF KnowsOf, Holding, StoredIn
<1>7. ASSUME NEW x \in todo[m], NEW k, Take(m, x, k), rows' = rows, files' = files,
             k # 0 => \E y \in WithAlias(job[m].target, x.alias) : k = y.id
      PROVE  KnowsOf(m)'
  <2>1. /\ pc'[m] = "copy" /\ item'[m] = {x} /\ found'[m] = k
        /\ draft'[m] = x.content /\ results'[m] = results[m]
    BY <1>1, <1>7 DEF Take, Hold, Goto, TypeOK
  <2>2. Served(x.content)
    BY <1>1 DEF ProgressOf
  <2>3. SameIn(files', draft'[m], x.content)
    BY <2>1 DEF SameIn
  <2>4. k # 0 => \A z \in WithKey(job[m].target, k) : z.alias = x.alias
    BY <1>1, <1>7 DEF WithKey, WithAlias, OneEach
  <2>5. pc'[m] \in {"item"} \cup Holding /\ pc'[m] # "row" /\ pc'[m] # "write"
    BY <2>1 DEF Holding
  <2> QED
    BY <1>1, <1>2, <1>3, <1>7, <2>1, <2>2, <2>3, <2>4, <2>5
    DEF KnowsOf, Served, WithKey
<1>8. CASE Lookup(m)
  <2>1. rows' = rows /\ files' = files
    BY <1>8 DEF Lookup, data
  <2>2. PICK x \in todo[m] :
          LET same == WithAlias(job[m].target, x.alias) IN
          \/ same = {} /\ Take(m, x, 0)
          \/ /\ same # {} /\ ~job[m].overwrite
             /\ Report(m, x, "skipped")
          \/ job[m].overwrite /\ \E y \in same : Take(m, x, y.id)
    BY <1>8 DEF Lookup
  <2>3. Served(x.content)
    BY <1>1 DEF ProgressOf
  <2> QED
    BY <1>4, <1>7, <2>1, <2>2, <2>3
<1>9. CASE LookupFails(m)
  BY <1>7, <1>9 DEF LookupFails, data
<1>10. CASE Fails(m) /\ rows' = rows /\ pc[m] \in Holding
  <2>1. PICK x \in item[m] : Report(m, x, "failed")
    BY <1>10 DEF Fails
  <2>2. Served(x.content)
    BY <1>1, <1>10, <2>1 DEF KnowsOf
  <2> QED
    BY <1>4, <1>10, <2>1, <2>2
<1>11. CASE CopyFile(m)
  <2>1. rows' = rows /\ pc[m] \in Holding
    BY <1>11 DEF CopyFile, Holding
  <2>2. CASE Goto(m, "check") /\ UNCHANGED <<files, fresh, work>>
    <3>1. pc'[m] = "check"
      BY <1>1, <2>2 DEF Goto, TypeOK
    <3> QED
      BY <1>2, <2>1, <2>2, <3>1, CarriedOn DEF Holding
  <2>3. CASE /\ draft[m].form # "text" /\ \E f \in files : f.id = draft[m].id
             /\ files' = files \cup {[id |-> fresh, of |-> f.of] :
                                       f \in {g \in files : g.id = draft[m].id}}
             /\ copy' = [copy EXCEPT ![m] = fresh]
             /\ Goto(m, "row")
             /\ UNCHANGED <<todo, item, found, draft, results>>
    <3>1. pc'[m] = "row" /\ copy'[m] = fresh
      BY <1>1, <2>3 DEF Goto, TypeOK
    <3>2. \A f \in files : f.id # fresh
      BY <1>1 DEF TypeOK, File
    <3>3. BytesIn(files', fresh) = BytesIn(files', draft[m].id)
      BY <1>1, <1>2, <2>3, <3>2, CopyHasBytes, BytesStay
    <3>4. ASSUME NEW x \in item[m] PROVE SameIn(files', draft[m], x.content)
      <4>1. Served(draft[m]) /\ Served(x.content) /\ SameIn(files, draft[m], x.content)
        BY <1>1, <2>1 DEF KnowsOf, ProgressOf
      <4>2. draft[m] \in Content /\ x.content \in Content
        BY <1>1 DEF TypeOK, Row
      <4> QED
        BY <1>1, <1>2, <4>1, <4>2, SameStays
    <3> QED
      BY <1>1, <1>2, <1>3, <2>1, <2>3, <3>1, <3>3, <3>4
      DEF KnowsOf, Served, WithKey, Holding
  <2> QED
    BY <1>10, <1>11, <2>1, <2>2, <2>3 DEF CopyFile
<1>12. CASE CopyRow(m)
  <2>1. rows' = rows /\ files' = files /\ pc[m] \in Holding
    BY <1>12 DEF CopyRow, Holding
  <2>2. CASE /\ Hold(m, item[m], found[m], Redirected(draft[m], copy[m]), 0)
             /\ Goto(m, "check")
             /\ UNCHANGED <<todo, results>>
    <3>1. /\ pc'[m] = "check" /\ item'[m] = item[m] /\ found'[m] = found[m]
          /\ draft'[m] = Redirected(draft[m], copy[m]) /\ results'[m] = results[m]
      BY <1>1, <2>2 DEF Hold, Goto, TypeOK
    <3>2. draft[m] \in Content /\ draft[m].form # "text"
          /\ BytesIn(files, copy[m]) = BytesIn(files, draft[m].id)
      BY <1>1, <1>12 DEF KnowsOf, CopyRow, TypeOK
    <3>3. ASSUME NEW x \in item[m] PROVE SameIn(files, draft'[m], x.content)
      <4>1. SameIn(files, draft[m], x.content)
        BY <1>1, <2>1 DEF KnowsOf
      <4>2. CASE draft[m].form = "asset"
        <5>1. draft'[m].form = draft[m].form /\ draft'[m].id = copy[m]
          BY <3>1, <3>2, <4>2 DEF Redirected, Content
        <5> QED
          BY <3>2, <4>1, <5>1 DEF SameIn
      <4>3. CASE draft[m].form # "asset"
        BY <3>1, <4>1, <4>3 DEF Redirected
      <4> QED
        BY <4>2, <4>3
    <3> QED
      BY <1>1, <1>2, <1>3, <2>1, <3>1, <3>3 DEF KnowsOf, Served, WithKey, Holding
  <2> QED
    BY <1>10, <1>12, <2>1, <2>2 DEF CopyRow
<1>13. CASE Check(m)
  <2>1. rows' = rows /\ files' = files /\ pc[m] \in Holding
    BY <1>13 DEF Check, Holding, data
  <2>2. CASE /\ Goto(m, "write") /\ UNCHANGED work
             /\ found[m] # 0 => WithKey(job[m].target, found[m]) # {}
    <3>1. pc'[m] = "write"
      BY <1>1, <2>2 DEF Goto, TypeOK
    <3> QED
      BY <1>2, <2>1, <2>2, <3>1, CarriedOn DEF Holding
  <2> QED
    BY <1>10, <1>13, <2>1, <2>2 DEF Check
<1>14. CASE Write(m)
  <2>1. files' = files /\ pc[m] \in Holding /\ pc[m] = "write"
    BY <1>14 DEF Write, Holding
  <2>2. \A x \in item[m] : Served(x.content) /\ SameIn(files, draft[m], x.content)
    BY <1>1, <2>1 DEF KnowsOf
  <2>3. ASSUME NEW x \in item[m], rows' = rows \cup {Copied(m, x)},
               Report(m, x, "succeeded")
        PROVE  KnowsOf(m)'
    <3>1. /\ Copied(m, x).scope = job[m].target /\ Copied(m, x).alias = x.alias
          /\ Copied(m, x).content = draft[m]
      BY DEF Copied
    <3>2. SameIn(files', Copied(m, x).content, x.content)
      BY <2>1, <2>2, <3>1
    <3>3. StoredIn(results[m] \cup {Result(x, "succeeded")},
                   rows \cup {Copied(m, x)}, files', job[m].target)
      BY <1>3, <3>1, <3>2, CreatedIsStored
    <3> QED
      BY <1>1, <1>2, <2>2, <2>3, <3>3, ReportKnows
  <2>4. ASSUME NEW x \in item[m], found[m] # 0,
               rows' = (rows \ WithKey(job[m].target, found[m])) \cup
                         {[z EXCEPT !.content = draft[m]] :
                            z \in WithKey(job[m].target, found[m])},
               Report(m, x, "succeeded")
        PROVE  KnowsOf(m)'
    <3>1. PICK z \in rows : WithKey(job[m].target, found[m]) = {z}
      BY <1>1, <2>1, <2>4 DEF KnowsOf, WithKey, OneEach
    <3>2. z \in Row /\ z.scope = job[m].target /\ z.alias = x.alias
      BY <1>1, <2>1, <2>4, <3>1 DEF KnowsOf, WithKey, TypeOK
    <3>3. PICK y : y = [z EXCEPT !.content = draft[m]]
      OBVIOUS
    <3>4. /\ y.scope = job[m].target /\ y.alias = z.alias /\ y.content = draft[m]
          /\ rows' = (rows \ {z}) \cup {y}
      BY <2>4, <3>1, <3>2, <3>3 DEF Row
    <3>5. SameIn(files', y.content, x.content)
      BY <2>1, <2>2, <3>4
    <3>6. StoredIn(results[m] \cup {Result(x, "succeeded")},
                   (rows \ {z}) \cup {y}, files', job[m].target)
      BY <1>3, <3>2, <3>4, <3>5, ReplacedIsStored
    <3> QED
      BY <1>1, <1>2, <2>2, <2>4, <3>4, <3>6, ReportKnows
  <2> QED
    BY <1>10, <1>14, <2>1, <2>3, <2>4 DEF Write
<1>15. CASE Finish(m)
  <2>1. results'[m] = {} /\ pc'[m] = "done"
    BY <1>1, <1>15 DEF Finish, Goto, TypeOK
  <2> QED
    BY <2>1 DEF KnowsOf, Holding, StoredIn
<1> QED
  BY Step(m), <1>5, <1>6, <1>8, <1>9, <1>11, <1>12, <1>13, <1>14, <1>15 DEF Step

\* A migration outside knows nothing.
LEMMA OutsideKnown ==
  ASSUME NEW m, pc'[m] \notin Running, results'[m] = {}
  PROVE  KnowsOf(m)'
BY DEF KnowsOf, Running, Holding, StoredIn

LEMMA NextKeepsStored ==
  ASSUME MigrateAssumption, LockEnabled, StoredInv, Next
  PROVE  StoredInv'
<1>1. LockInv' /\ OneEach(rows') /\ TypeOK /\ IInv /\ Alone
  BY NextKeepsLockInv, RowsStayDistinct DEF StoredInv, LockInv, IInv
<1>2. \A m \in Migrations : pc[m] \notin Running => results[m] = {}
  BY DEF StoredInv, KnowsOf, Running, Holding
<1>3. CASE Crash
  <2>1. ASSUME NEW m \in Migrations PROVE pc'[m] \notin Running /\ results'[m] = {}
    BY <1>2, <1>3 DEF Crash, Forget, Inside, Running
  <2> QED
    BY <1>1, <2>1, OutsideKnown DEF StoredInv
<1>4. CASE Edit
  <2>1. ASSUME NEW m \in Migrations PROVE pc'[m] \notin Running /\ results'[m] = {}
    BY <1>2, <1>4 DEF Edit, work, Inside
  <2> QED
    BY <1>1, <2>1, OutsideKnown DEF StoredInv
<1>5. ASSUME NEW m \in Migrations, Step(m), NEW n \in Migrations, n # m
      PROVE  KnowsOf(n)'
  <2>1. /\ pc'[n] = pc[n] /\ found'[n] = found[n] /\ draft'[n] = draft[n]
        /\ copy'[n] = copy[n] /\ item'[n] = item[n] /\ job' = job
    BY <1>1, <1>5, FrameOfStep, Grows DEF Next
  <2>2. results'[n] = results[n]
    BY <1>1, <1>5 DEF TypeOK, Step, Start, Verify, List, Lookup, LookupFails,
       CopyFile, CopyRow, Check, Write, Finish, Report, Take, Fails, work
  <2>3. CASE m \in Inside \/ m \in Inside'
    <3>1. pc[n] \notin Running
      BY <1>1, <1>5, <2>3, OnlyOneSteps DEF Inside
    <3> QED
      BY <1>2, <2>1, <2>2, <3>1, OutsideKnown
  <2>4. CASE m \notin Inside /\ m \notin Inside'
    <3>1. UNCHANGED data
      BY <1>1, <1>5, <2>4, RefusedKeepsData
    <3> QED
      BY <2>1, <2>2, <3>1 DEF StoredInv, KnowsOf, data, Served, WithKey
  <2> QED
    BY <2>3, <2>4
<1> QED
  BY <1>1, <1>3, <1>4, <1>5, StepKeepsKnown DEF Next, StoredInv

\* The inductive invariant with what migrations know of their results.
THEOREM StoredInvariant == ASSUME LockEnabled PROVE Spec => []StoredInv
<1>1. Init => LockInv
  BY InitLockInv, MigrateAssumption
<1>2. Init => StoredInv
  BY <1>1, MigrateAssumption DEF Init, StoredInv, KnowsOf, StoredIn, Holding
<1>3. StoredInv /\ [Next]_vars => StoredInv'
  <2>1. ASSUME StoredInv, UNCHANGED vars PROVE StoredInv'
    <3>1. LockInv'
      BY <2>1, StutterKeepsLockInv DEF StoredInv
    <3> QED
      BY <2>1, <3>1 DEF StoredInv, KnowsOf, vars, Served, WithKey, Holding
  <2> QED
    BY <2>1, NextKeepsStored, MigrateAssumption
<1> QED
  BY <1>2, <1>3, PTL DEF Spec

-----------------------------------------------------------------------------
\* A migration whose list was the table's carries rows of its source, which
\* nobody changes while it is inside: it writes its target only.
Source(m) == ListOf(rows, job[m].source)

ListedOf(m) ==
    /\ pc[m] \in Running => job[m].source # job[m].target
    /\ pc[m] \in {"item"} \cup Holding /\ m \notin lagging =>
         /\ todo[m] \subseteq Source(m)
         /\ pc[m] \in Holding => item[m] \subseteq Source(m)
         /\ \A r \in results[m] : r.item \in Source(m)

ListedInv == StoredInv /\ \A m \in Migrations : ListedOf(m)

LEMMA SourceStays ==
  ASSUME NEW m \in Migrations, Step(m), job' = job,
         pc[m] \in Running => job[m].source # job[m].target
  PROVE  Source(m) \subseteq Source(m)'
<1>1. CASE Write(m)
  <2>1. job[m].source # job[m].target
    BY <1>1 DEF Write, Running
  <2> QED
    BY <1>1, <2>1 DEF Write, Source, ListOf, WithKey
<1>2. CASE rows' = rows
  BY <1>2 DEF Source
<1> QED
  BY Step(m), <1>1, <1>2 DEF Step, Start, Verify, List, Lookup, LookupFails, CopyFile,
     CopyRow, Check, Finish, data

LEMMA StepKeepsListed ==
  ASSUME MigrateAssumption, ListedInv, NEW m \in Migrations, Step(m)
  PROVE  ListedOf(m)'
<1>1. TypeOK /\ ListedOf(m) /\ KnowsOf(m)
  BY DEF ListedInv, StoredInv, LockInv, IInv
<1>2. job' = job /\ Source(m) \subseteq Source(m)'
  BY <1>1, Grows, SourceStays DEF Next, ListedOf
<1>3. ASSUME NEW x, NEW s, Report(m, x, s), lagging' = lagging,
             pc[m] \in {"item"} \cup Holding, m \notin lagging => x \in Source(m)
      PROVE  ListedOf(m)'
  <2>1. /\ pc'[m] = "item" /\ todo'[m] \subseteq todo[m]
        /\ results'[m] = results[m] \cup {Result(x, s)}
    BY <1>1, <1>3 DEF Report, Goto, TypeOK, Result
  <2>2. Result(x, s).item = x
    BY DEF Result
  <2> QED
    BY <1>1, <1>2, <1>3, <2>1, <2>2 DEF ListedOf, Holding, Running
<1>4. ASSUME NEW x \in todo[m], NEW k, Take(m, x, k), lagging' = lagging, pc[m] = "item"
      PROVE  ListedOf(m)'
  <2>1. /\ pc'[m] = "copy" /\ item'[m] = {x} /\ todo'[m] = todo[m]
        /\ results'[m] = results[m]
    BY <1>1, <1>4 DEF Take, Hold, Goto, TypeOK
  <2> QED
    BY <1>1, <1>2, <1>4, <2>1 DEF ListedOf, Holding, Running
<1>5. ASSUME UNCHANGED <<todo, item, results, lagging>>, pc[m] \in Holding,
             pc'[m] \in Holding
      PROVE  ListedOf(m)'
  BY <1>1, <1>2, <1>5 DEF ListedOf, Holding, Running
<1>6. CASE Fails(m) /\ lagging' = lagging /\ pc[m] \in Holding
  <2>1. PICK x \in item[m] : Report(m, x, "failed")
    BY <1>6 DEF Fails
  <2> QED
    BY <1>1, <1>3, <1>6, <2>1 DEF ListedOf
<1>7. CASE Start(m)
  BY <1>1, <1>2, <1>7 DEF Start, Goto, TypeOK, ListedOf, Holding, Running
<1>8. CASE Verify(m)
  BY <1>1, <1>2, <1>8 DEF Verify, Goto, TypeOK, ListedOf, Holding, Running
<1>9. CASE List(m)
  <2>1. /\ pc[m] = "list" /\ pc'[m] = "item" /\ results'[m] = results[m]
        /\ rows' = rows
    BY <1>1, <1>9 DEF List, Goto, TypeOK, data
  <2>2. results[m] = {}
    BY <1>1, <2>1 DEF KnowsOf, Holding
  <2>3. m \notin lagging' => todo'[m] \subseteq Source(m)
    BY <1>1, <1>9 DEF List, TypeOK, Source
  <2> QED
    BY <1>1, <1>2, <2>1, <2>2, <2>3 DEF ListedOf, Holding, Running
<1>10. CASE Lookup(m)
  <2>1. PICK x \in todo[m] :
          LET same == WithAlias(job[m].target, x.alias) IN
          \/ same = {} /\ Take(m, x, 0)
          \/ /\ same # {} /\ ~job[m].overwrite
             /\ Report(m, x, "skipped")
          \/ job[m].overwrite /\ \E y \in same : Take(m, x, y.id)
    BY <1>10 DEF Lookup
  <2>2. pc[m] = "item" /\ lagging' = lagging
    BY <1>10 DEF Lookup
  <2>3. m \notin lagging => x \in Source(m)
    BY <1>1, <2>2 DEF ListedOf
  <2> QED
    BY <1>3, <1>4, <2>1, <2>2, <2>3
<1>11. CASE LookupFails(m)
  BY <1>4, <1>11 DEF LookupFails
<1>12. CASE CopyFile(m)
  BY <1>1, <1>5, <1>6, <1>12 DEF CopyFile, Goto, TypeOK, Holding, work
<1>13. CASE CopyRow(m)
  <2>1. ASSUME Hold(m, item[m], found[m], Redirected(draft[m], copy[m]), 0)
        PROVE  item' = item
    BY <1>1, <2>1 DEF Hold, TypeOK
  <2> QED
    BY <1>1, <1>5, <1>6, <1>13, <2>1 DEF CopyRow, Goto, TypeOK, Holding
<1>14. CASE Check(m)
  BY <1>1, <1>5, <1>6, <1>14 DEF Check, Goto, TypeOK, Holding, work
<1>15. CASE Write(m)
  <2>1. pc[m] \in Holding /\ lagging' = lagging
    BY <1>15 DEF Write, Holding
  <2>2. \/ \E x \in item[m] : Report(m, x, "succeeded")
        \/ Fails(m)
    BY <1>15 DEF Write
  <2>3. \A x \in item[m] : m \notin lagging => x \in Source(m)
    BY <1>1, <2>1 DEF ListedOf
  <2> QED
    BY <1>3, <1>6, <2>1, <2>2, <2>3
<1>16. CASE Finish(m)
  BY <1>1, <1>16 DEF Finish, Goto, TypeOK, ListedOf, Holding, Running
<1> QED
  BY Step(m), <1>7, <1>8, <1>9, <1>10, <1>11, <1>12, <1>13, <1>14, <1>15, <1>16 DEF Step

LEMMA NextKeepsListed ==
  ASSUME MigrateAssumption, LockEnabled, ListedInv, Next
  PROVE  ListedInv'
<1>1. StoredInv' /\ TypeOK /\ Alone
  BY NextKeepsStored DEF ListedInv, StoredInv, LockInv, IInv
<1>2. \A m : pc'[m] \notin Running => ListedOf(m)'
  BY DEF ListedOf, Running, Holding
<1>3. ASSUME NEW m \in Migrations, Step(m), NEW n \in Migrations, n # m
      PROVE  ListedOf(n)'
  <2>1. /\ pc'[n] = pc[n] /\ item'[n] = item[n] /\ todo'[n] = todo[n]
        /\ (n \in lagging' <=> n \in lagging) /\ job' = job
    BY <1>1, <1>3, FrameOfStep, Grows DEF Next
  <2>2. CASE m \in Inside \/ m \in Inside'
    <3>1. pc'[n] \notin Running
      BY <1>1, <1>3, <2>1, <2>2, OnlyOneSteps DEF Inside, ListedInv, StoredInv, LockInv
    <3> QED
      BY <1>2, <3>1
  <2>3. CASE m \notin Inside /\ m \notin Inside'
    <3>1. UNCHANGED <<data, work>>
      BY <1>1, <1>3, <2>3, RefusedKeepsData
    <3> QED
      BY <2>1, <3>1 DEF ListedInv, ListedOf, Source, data, work
  <2> QED
    BY <2>2, <2>3
<1>4. CASE Crash
  BY <1>1, <1>2, <1>4 DEF ListedInv, Crash, Forget, Inside, Running
<1>5. CASE Edit
  BY <1>1, <1>2, <1>5 DEF ListedInv, Edit, Inside
<1> QED
  BY <1>1, <1>3, <1>4, <1>5, StepKeepsListed DEF ListedInv, Next

THEOREM ListedInvariant == ASSUME LockEnabled PROVE Spec => []ListedInv
<1>1. Init => LockInv
  BY InitLockInv, MigrateAssumption
<1>2. Init => ListedInv
  BY <1>1, MigrateAssumption DEF Init, ListedInv, ListedOf, StoredInv, KnowsOf, StoredIn,
     Holding, Running
<1>3. ListedInv /\ [Next]_vars => ListedInv'
  <2>1. ASSUME ListedInv, UNCHANGED vars PROVE ListedInv'
    <3>1. LockInv'
      BY <2>1, StutterKeepsLockInv DEF ListedInv, StoredInv
    <3>2. StoredInv'
      BY <2>1, <3>1 DEF ListedInv, StoredInv, KnowsOf, vars, Served, WithKey, Holding
    <3> QED
      BY <2>1, <3>2 DEF ListedInv, ListedOf, vars, Source
  <2> QED
    BY <2>1, NextKeepsListed, MigrateAssumption
<1> QED
  BY <1>2, <1>3, PTL DEF Spec

\* With the lock an item reported as succeeded is in the target, with the content
\* it was listed with, byte for byte, until the summary is sent: neither a failure
\* in the middle of another item nor a later item takes it away, unless that one
\* has the same alias.  Where the list was not an old one from the cache, the source
\* holds that configuration still.
THEOREM SucceededIsStoredTheorem ==
  ASSUME LockEnabled PROVE Spec => []SucceededIsStored
<1>1. ListedInv => SucceededIsStored
  BY DEF ListedInv, StoredInv, KnowsOf, StoredIn, OnlyOne, SameIn, BytesIn, Inside,
     SucceededIsStored, SameContent, Bytes, ListedOf, Source
<1> QED
  BY <1>1, ListedInvariant, PTL

-----------------------------------------------------------------------------
\* The table as ConfigTable sees it.
View(S) == {AsConfig(x) : x \in S}

LEMMA ViewAdds ==
  ASSUME NEW S, NEW y
  PROVE  View(S \cup {y}) = View(S) \cup {AsConfig(y)}
BY DEF View

LEMMA ViewRemoves ==
  ASSUME NEW S, OneEach(S), NEW z \in S
  PROVE  View(S \ {z}) = View(S) \ {AsConfig(z)} /\ AsConfig(z) \in View(S)
<1>1. \A x \in S : AsConfig(x) = AsConfig(z) => x = z
  BY DEF AsConfig, OneEach
<1> QED
  BY <1>1 DEF View

LEMMA AppearStep ==
  ASSUME NEW y, rows' = rows \cup {y}, \A x \in rows : x.id # y.id,
         y.alias # NoAlias => WithAlias(y.scope, y.alias) = {}
  PROVE  Table!Next
<1>1. View(rows') = View(rows) \cup {AsConfig(y)}
  BY ViewAdds
<1>2. ASSUME NEW x \in rows
      PROVE  /\ ~Table!SameKey(AsConfig(y), AsConfig(x))
             /\ ~Table!SameAlias(AsConfig(y), AsConfig(x))
  BY DEF Table!SameKey, Table!SameAlias, AsConfig, WithAlias
<1>3. \A c \in View(rows) : ~Table!SameKey(AsConfig(y), c)
                            /\ ~Table!SameAlias(AsConfig(y), c)
  BY <1>2 DEF View
<1>4. Table!Appear(AsConfig(y))
  BY <1>1, <1>3 DEF Table!Appear, View
<1>5. AsConfig(y) \in View(rows')
  BY <1>1
<1> QED
  BY <1>4, <1>5 DEF Table!Next, View

LEMMA ChangeStep ==
  ASSUME OneEach(rows), NEW z \in rows, NEW y, rows' = (rows \ {z}) \cup {y},
         y.id = z.id, y.scope = z.scope, y.alias = z.alias
  PROVE  Table!Next
<1>1. View(rows') = (View(rows) \ {AsConfig(z)}) \cup {AsConfig(y)}
  <2>1. View(rows') = View(rows \ {z}) \cup {AsConfig(y)}
    BY ViewAdds
  <2>2. View(rows \ {z}) = View(rows) \ {AsConfig(z)}
    BY ViewRemoves
  <2> QED
    BY <2>1, <2>2
<1>2. AsConfig(z) \in View(rows) /\ AsConfig(y) \in View(rows')
  BY <1>1, ViewRemoves
<1>3. Table!SameKey(AsConfig(z), AsConfig(y)) /\ AsConfig(z).alias = AsConfig(y).alias
  BY DEF Table!SameKey, AsConfig
<1>4. Table!Change(AsConfig(z), AsConfig(y))
  BY <1>1, <1>2, <1>3 DEF Table!Change, View
<1> QED
  BY <1>2, <1>4 DEF Table!Next, View

LEMMA DisappearStep ==
  ASSUME OneEach(rows), NEW z \in rows, rows' = rows \ {z}
  PROVE  Table!Next
<1>1. View(rows') = View(rows) \ {AsConfig(z)} /\ AsConfig(z) \in View(rows)
  BY ViewRemoves
<1> QED
  BY <1>1 DEF Table!Next, Table!Disappear, View

\* Every step of a migration or the console is one of the table, or none.
LEMMA NextIsTableStep ==
  ASSUME MigrateAssumption, StoredInv, Next, rows' # rows
  PROVE  Table!Next
<1>1. TypeOK /\ OneEach(rows)
  BY DEF StoredInv, LockInv, IInv
<1>2. \A x \in rows : x \in Row /\ x.id \in Nat /\ x.id # fresh
  BY <1>1 DEF TypeOK, Row
<1>3. ASSUME NEW z \in rows, NEW c,
             rows' = (rows \ {z}) \cup {[z EXCEPT !.content = c]}
      PROVE  Table!Next
  <2>1. PICK y : y = [z EXCEPT !.content = c]
    OBVIOUS
  <2>2. y.id = z.id /\ y.scope = z.scope /\ y.alias = z.alias
    BY <1>2, <2>1 DEF Row
  <2> QED
    BY <1>1, <1>3, <2>1, <2>2, ChangeStep
<1>4. CASE Edit
  <2>1. ASSUME NEW s \in Scopes, NEW a \in Aliases \cup {NoAlias},
               NEW c \in ConsoleTexts, a # NoAlias => WithAlias(s, a) = {},
               rows' = rows \cup
                 {[id |-> fresh, scope |-> s, alias |-> a, content |-> c]}
        PROVE  Table!Next
    <3>1. PICK y : y = [id |-> fresh, scope |-> s, alias |-> a, content |-> c]
      OBVIOUS
    <3>2. y.id = fresh /\ y.scope = s /\ y.alias = a
      BY <3>1
    <3> QED
      BY <1>2, <2>1, <3>1, <3>2, AppearStep
  <2> QED
    BY <1>1, <1>3, <1>4, <2>1, DisappearStep, rows' # rows DEF Edit
<1>5. ASSUME NEW m \in Migrations, Write(m) PROVE Table!Next
  <2>1. pc[m] = "write" /\ CheckedOf(m) /\ KnowsOf(m)
    BY <1>5 DEF Write, StoredInv, LockInv
  <2>2. ASSUME NEW x \in item[m], found[m] = 0, rows' = rows \cup {Copied(m, x)}
        PROVE  Table!Next
    <3>1. PICK y : y = Copied(m, x)
      OBVIOUS
    <3>2. y.id = fresh /\ y.scope = job[m].target /\ y.alias = x.alias
      BY <3>1 DEF Copied
    <3>3. y.alias # NoAlias => WithAlias(y.scope, y.alias) = {}
      BY <2>1, <2>2, <3>2 DEF CheckedOf
    <3> QED
      BY <1>2, <2>2, <3>1, <3>2, <3>3, AppearStep
  <2>3. ASSUME found[m] # 0,
               rows' = (rows \ WithKey(job[m].target, found[m])) \cup
                         {[z EXCEPT !.content = draft[m]] :
                            z \in WithKey(job[m].target, found[m])}
        PROVE  Table!Next
    <3>1. PICK z \in rows : WithKey(job[m].target, found[m]) = {z}
      BY <1>1, <2>1, <2>3 DEF KnowsOf, WithKey, OneEach
    <3>2. rows' = (rows \ {z}) \cup {[z EXCEPT !.content = draft[m]]}
      BY <2>3, <3>1
    <3> QED
      BY <1>3, <3>2
  <2> QED
    BY <1>5, <2>2, <2>3, rows' # rows DEF Write
<1> QED
  BY <1>4, <1>5, rows' # rows DEF Next, Crash, data, Step, Start, Verify, List,
     Lookup, LookupFails, CopyFile, CopyRow, Check, Finish

\* No table the system starts from repeats an alias.  The code does not see to
\* that: an import of items with resource keys can store one (ConfigStore).
AliasesDistinct(T) ==
    \A x, y \in T : x.scope = y.scope /\ x.alias = y.alias /\ x.alias # NoAlias => x = y

NoAliasRepeated == \A T \in InitialRows : AliasesDistinct(T)

\* With the lock, migrations implement the abstract table, as the operations of
\* ConfigStore do: both may run on one table.
THEOREM ImplementsTableTheorem ==
  ASSUME LockEnabled, NoAliasRepeated PROVE Spec => ImplementsTable
<1>1. Init => Table!Init
  <2> SUFFICES ASSUME Init, NEW x \in rows, NEW y \in rows,
                      \/ Table!SameKey(AsConfig(x), AsConfig(y))
                      \/ Table!SameAlias(AsConfig(x), AsConfig(y))
               PROVE  x = y
    BY DEF Table!Init, Table!Tidy
  <2>1. OneEach(rows) /\ AliasesDistinct(rows)
    BY MigrateAssumption DEF Init, MigrateAssumption, NoAliasRepeated
  <2> QED
    BY <2>1 DEF OneEach, AliasesDistinct, Table!SameKey, Table!SameAlias, AsConfig
<1>2. StoredInv /\ [Next]_vars => [Table!Next]_(View(rows))
  BY NextIsTableStep, MigrateAssumption DEF vars
<1> QED
  BY <1>1, <1>2, StoredInvariant, PTL DEF Spec, ImplementsTable, Table!Spec, View

\* Hence no migration ever makes two configurations of one environment and
\* pipeline share an alias.
THEOREM AliasesStayDistinct ==
  ASSUME LockEnabled, NoAliasRepeated PROVE Spec => []AliasesDistinct(rows)
<1>1. Table!Tidy /\ [Table!Next]_(View(rows)) => Table!Tidy'
  <2> SUFFICES ASSUME Table!Tidy, [Table!Next]_(View(rows)),
                      NEW x \in View(rows'), NEW y \in View(rows'),
                      Table!SameKey(x, y) \/ Table!SameAlias(x, y)
               PROVE  x = y
    BY DEF Table!Tidy, View
  <2>1. \A v, w \in View(rows) : Table!SameKey(v, w) \/ Table!SameAlias(v, w) => v = w
    BY DEF Table!Tidy, View
  <2>2. CASE View(rows') = View(rows)
    BY <2>1, <2>2
  <2>3. CASE \E v \in View(rows') :
               /\ \A w \in View(rows) : ~Table!SameKey(v, w) /\ ~Table!SameAlias(v, w)
               /\ View(rows') = View(rows) \cup {v}
    BY <2>1, <2>3 DEF Table!SameKey, Table!SameAlias
  <2>4. CASE \E u \in View(rows), v \in View(rows') :
               /\ Table!SameKey(u, v) /\ u.alias = v.alias
               /\ View(rows') = (View(rows) \ {u}) \cup {v}
    BY <2>1, <2>4 DEF Table!SameKey, Table!SameAlias
  <2>5. CASE View(rows') \subseteq View(rows)
    BY <2>1, <2>5
  <2> QED
    BY <2>2, <2>3, <2>4, <2>5
    DEF Table!Next, Table!Appear, Table!Change, Table!Disappear, Table!Reset, View
<1>2. StoredInv /\ Table!Tidy => AliasesDistinct(rows)
  <2> SUFFICES ASSUME StoredInv, Table!Tidy, NEW x \in rows, NEW y \in rows,
                      x.scope = y.scope, x.alias = y.alias, x.alias # NoAlias
               PROVE  x = y
    BY DEF AliasesDistinct
  <2>1. Table!SameAlias(AsConfig(x), AsConfig(y))
    BY DEF Table!SameAlias, AsConfig
  <2>2. AsConfig(x) = AsConfig(y)
    BY <2>1 DEF Table!Tidy
  <2> QED
    BY <2>2 DEF AsConfig, StoredInv, OneEach
<1> QED
  BY <1>1, <1>2, ImplementsTableTheorem, StoredInvariant, PTL
  DEF ImplementsTable, Table!Spec, Table!Init, View

-----------------------------------------------------------------------------
\* Migrations use the lock as WriteMutex promises it, and as WriteLock gives it:
\* the table they share with ConfigStore has one writer at a time.
THEOREM MutexRespected == ASSUME LockEnabled PROVE Spec => Lock!Spec
<1>1. Init => Lock!Init
  BY DEF Init, Lock!Init, Inside, Running
<1>2. LockInv /\ [Next]_vars => [Lock!Next]_Inside
  <2> SUFFICES ASSUME LockInv, Next PROVE Lock!Next \/ Inside' = Inside
    BY DEF vars, Inside
  <2> USE DEF LockInv
  <2>1. ASSUME NEW m \in Migrations, Step(m) PROVE Lock!Next \/ Inside' = Inside
    <3>1. CASE m \in Inside \/ m \in Inside'
      <4>1. Inside \subseteq {m} /\ Inside' \subseteq {m}
        BY <2>1, <3>1, OnlyOneSteps DEF Inside
      <4>2. CASE Inside = {} /\ Inside' = {m}
        BY <4>2 DEF Lock!Next, Lock!Enter
      <4>3. CASE Inside = {m} /\ Inside' = {}
        BY <4>3 DEF Lock!Next, Lock!Leave
      <4> QED
        BY <3>1, <4>1, <4>2, <4>3
    <3>2. CASE m \notin Inside /\ m \notin Inside'
      BY <2>1, <3>2, FrameOfStep DEF IInv, Inside
    <3> QED
      BY <3>1, <3>2
  <2>2. CASE Crash
    <3>1. PICK m \in Migrations : Inside = {m}
      BY <2>2 DEF Crash, Alone, Inside
    <3>2. Inside' = {}
      BY <2>2 DEF Crash, Forget, Inside, Running
    <3> QED
      BY <3>1, <3>2 DEF Lock!Next, Lock!Leave
  <2>3. CASE Edit
    BY <2>3 DEF Edit, Inside
  <2> QED
    BY <2>1, <2>2, <2>3 DEF Next
<1> QED
  BY <1>1, <1>2, LockInvariant, PTL DEF Spec, Lock!Spec
=============================================================================
