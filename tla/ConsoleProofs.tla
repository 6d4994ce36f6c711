--------------------------- MODULE ConsoleProofs ---------------------------
(***************************************************************************)
(* Proofs about Console for any number of writers and readers and any      *)
(* environments and pipelines: what the columns may become, whom a client  *)
(* is served, and what an overview shows.                                  *)
(***************************************************************************)
EXTENDS Console, TLAPS

\* No row is ever inactive, and only a row that exists has a name.
Sound(x) == x.active /\ (x.state = "free" => x.name = Blank)

TablesSound == (\A e \in Envs : Sound(env[e])) /\ (\A p \in Places : Sound(pipe[p]))

\* What a reader knows at each of its statements.
KnowsOf(r) ==
    /\ pc[r] \in Reading => /\ before[r] \subseteq Live(env, pipe)
                            /\ Live(env, pipe) \subseteq during[r]
    /\ pc[r] = "pipe" => place[r][1] \in during[r]
    /\ pc[r] \in {"list", "served"} => {place[r][1], place[r]} \subseteq during[r]
    /\ pc[r] = "refused" => ~({place[r][1], place[r]} \subseteq before[r])
    /\ pc[r] = "envs" => shown[r] = {}

\* An overview on its way: an environment that was there all along is shown or
\* still to come, and its pipelines are shown once it is.
PartOf(r) ==
    /\ todo[r] \subseteq during[r] /\ shown[r] \subseteq during[r]
    /\ before[r] \cap Envs \subseteq shown[r] \cup todo[r]
    /\ \A p \in before[r] \cap Places :
         p[1] \in before[r] /\ p[1] \notin todo[r] => p \in shown[r]

ReaderOf(r) == KnowsOf(r) /\ (pc[r] \in {"pipes", "overview"} => PartOf(r))
               /\ (pc[r] = "overview" => todo[r] = {})

IInv == TypeOK /\ TablesSound /\ \A r \in Readers : ReaderOf(r)

LEMMA LiveIn ==
  ASSUME ConsoleAssumption, NEW E, NEW P
  PROVE  /\ Live(E, P) \subseteq Envs \cup Places
         /\ \A e \in Envs : e \in Live(E, P) <=> E[e].state = "live"
         /\ \A p \in Places : p \in Live(E, P) <=> P[p].state = "live"
BY DEF Live, ConsoleAssumption

LEMMA InitIInv ==
  ASSUME ConsoleAssumption, Init
  PROVE  IInv
<1>1. Free \in Entry
  BY DEF Free, Entry
<1>2. TypeOK
  BY <1>1 DEF Init, TypeOK
<1>3. TablesSound
  BY DEF Init, TablesSound, Sound, Free
<1>4. \A r \in Readers : ReaderOf(r)
  BY DEF Init, ReaderOf, KnowsOf, Reading
<1> QED
  BY <1>2, <1>3, <1>4 DEF IInv

\* What a statement makes of a row.
LEMMA WrittenEntry ==
  ASSUME ConsoleAssumption, NEW x \in Entry, Sound(x), NEW g \in Given,
         NEW op \in {"add", "update", "delete"}
  PROVE  /\ Written(x, op, g) \in Entry /\ Sound(Written(x, op, g))
         /\ Outlasts(x, Written(x, op, g))
<1>1. Created(g) \in Entry /\ Sound(Created(g))
  BY DEF Created, Entry, Given, Sound
<1>2. CASE op = "add" /\ x.state = "free"
  <2>1. Written(x, op, g) = Created(g)
    BY <1>2 DEF Written
  <2> QED
    BY <1>1, <1>2, <2>1 DEF Outlasts, Sound, Created
<1>3. CASE op = "update" /\ x.state = "live"
  <2>1. Written(x, op, g) = Updated(x, g)
    BY <1>3 DEF Written
  <2>2. ASSUME NEW y, y = Updated(x, g)
        PROVE  /\ y \in Entry /\ y.state = x.state /\ y.active
               /\ y.name = IF g.name = Blank THEN x.name ELSE g.name
    BY <2>2 DEF Updated, Entry, Given, Sound
  <2> QED
    BY <1>3, <2>1, <2>2 DEF Outlasts, Sound
<1>4. CASE op = "delete" /\ x.state = "live"
  <2>1. Written(x, op, g) = [x EXCEPT !.state = "gone"]
    BY <1>4 DEF Written
  <2>2. ASSUME NEW y, y = [x EXCEPT !.state = "gone"]
        PROVE  y \in Entry /\ y.state = "gone" /\ y.name = x.name /\ y.active = x.active
    BY <2>2 DEF Entry
  <2> QED
    BY <1>4, <2>1, <2>2 DEF Outlasts, Sound
<1>5. CASE /\ ~(op = "add" /\ x.state = "free")
           /\ ~(op = "update" /\ x.state = "live")
           /\ ~(op = "delete" /\ x.state = "live")
  BY <1>5 DEF Written, Outlasts
<1> QED
  BY <1>2, <1>3, <1>4, <1>5

\* What a step of a writer does to the tables.
TablesStep ==
    /\ env' \in [Envs -> Entry] /\ pipe' \in [Places -> Entry] /\ TablesSound'
    /\ \A e \in Envs : Outlasts(env[e], env'[e])
    /\ \A p \in Places : Outlasts(pipe[p], pipe'[p])

LEMMA WritersStep ==
  ASSUME ConsoleAssumption, TypeOK, TablesSound, NEW w \in Writers, Write(w)
  PROVE  /\ TablesStep /\ job' \in [Writers -> Jobs \cup {Nobody}]
         /\ UNCHANGED <<pc, place, todo, shown>>
         /\ Observe \/ UNCHANGED <<env, pipe, before, during>>
<1>1. \A j \in Jobs : /\ j.place \in Places /\ j.place[1] \in Envs /\ j.given \in Given
                      /\ j.op \in {"add", "update", "delete"}
  BY DEF ConsoleAssumption, Job, Places
<1>2. job[w] # Nobody => job[w] \in Jobs
  BY DEF TypeOK
<1>3. \A x : Outlasts(x, x)
  BY DEF Outlasts
<1>4. CASE Check(w)
  BY <1>3, <1>4 DEF Check, TablesStep, TypeOK, TablesSound
<1>5. CASE AddEnvironment(w)
  <2>1. job[w] \in Jobs
    BY <1>2, <1>5 DEF AddEnvironment
  <2> DEFINE j == job[w]
             d == <<j.place[1], DefaultPipe>>
             e == j.place[1]
  <2>2. d \in Places /\ e \in Envs
    BY <1>1, <2>1 DEF Places, ConsoleAssumption
  <2>3. CASE env' = env /\ pipe' = pipe
    BY <1>3, <1>5, <2>3 DEF AddEnvironment, TablesStep, TypeOK, TablesSound
  <2>4. CASE /\ env[e].state = "free" /\ pipe[d].state = "free"
             /\ env' = [env EXCEPT ![e] = Created(j.given)]
             /\ pipe' = [pipe EXCEPT ![d] =
                           Created([name |-> DefaultName, active |-> TRUE])]
    <3>1. /\ Created(j.given) \in Entry /\ Sound(Created(j.given))
          /\ Outlasts(env[e], Created(j.given))
      BY <1>1, <2>1, <2>2, <2>4
      DEF Created, Entry, Given, Sound, Outlasts, TablesSound
    <3> DEFINE c == Created([name |-> DefaultName, active |-> TRUE])
    <3>2. c \in Entry /\ Sound(c) /\ Outlasts(pipe[d], c)
      BY <2>2, <2>4 DEF Created, Entry, Sound, Outlasts, TablesSound
    <3>3. /\ \A a \in Envs : env'[a] = IF a = e THEN Created(j.given) ELSE env[a]
          /\ \A p \in Places : pipe'[p] = IF p = d THEN c ELSE pipe[p]
          /\ env' \in [Envs -> Entry] /\ pipe' \in [Places -> Entry]
      BY <2>2, <2>4, <3>1, <3>2 DEF TypeOK
    <3>4. TablesStep
      BY <1>3, <3>1, <3>2, <3>3 DEF TablesStep, TablesSound
    <3> QED
      BY <1>5, <3>4 DEF AddEnvironment, TypeOK
  <2> QED
    BY <1>5, <2>3, <2>4 DEF AddEnvironment
<1>6. CASE EditEnvironment(w)
  <2>1. job[w] \in Jobs
    BY <1>2, <1>6 DEF EditEnvironment
  <2> DEFINE j == job[w]
             e == j.place[1]
             y == Written(env[e], j.op, j.given)
  <2>2. e \in Envs /\ env[e] \in Entry /\ Sound(env[e])
    BY <1>1, <2>1 DEF TypeOK, TablesSound
  <2>3. y \in Entry /\ Sound(y) /\ Outlasts(env[e], y)
    BY <1>1, <2>1, <2>2, WrittenEntry
  <2>4. /\ \A a \in Envs : env'[a] = IF a = e THEN y ELSE env[a]
        /\ env' \in [Envs -> Entry] /\ pipe' = pipe
    BY <1>6, <2>2, <2>3 DEF EditEnvironment, TypeOK
  <2>5. TablesStep
    BY <1>3, <2>3, <2>4 DEF TablesStep, TablesSound, TypeOK
  <2> QED
    BY <1>6, <2>5 DEF EditEnvironment, TypeOK
<1>7. CASE EditPipeline(w)
  <2>1. job[w] \in Jobs
    BY <1>2, <1>7 DEF EditPipeline
  <2> DEFINE j == job[w]
             y == Written(pipe[j.place], j.op, j.given)
  <2>2. j.place \in Places /\ pipe[j.place] \in Entry /\ Sound(pipe[j.place])
    BY <1>1, <2>1 DEF TypeOK, TablesSound
  <2>3. y \in Entry /\ Sound(y) /\ Outlasts(pipe[j.place], y)
    BY <1>1, <2>1, <2>2, WrittenEntry
  <2>4. /\ \A p \in Places : pipe'[p] = IF p = j.place THEN y ELSE pipe[p]
        /\ pipe' \in [Places -> Entry] /\ env' = env
    BY <1>7, <2>2, <2>3 DEF EditPipeline, TypeOK
  <2>5. TablesStep
    BY <1>3, <2>3, <2>4 DEF TablesStep, TablesSound, TypeOK
  <2> QED
    BY <1>7, <2>5 DEF EditPipeline, TypeOK
<1> QED
  BY Write(w), <1>4, <1>5, <1>6, <1>7 DEF Write

\* A writer's step takes from a reader's "before" what is gone and adds to its
\* "during" what is new; nothing else a reader knows is touched.
LEMMA WriterKeepsReaders ==
  ASSUME ConsoleAssumption, IInv, NEW w \in Writers, Write(w), NEW r \in Readers
  PROVE  ReaderOf(r)' /\ before'[r] \subseteq before[r] /\ during[r] \subseteq during'[r]
<1>1. /\ UNCHANGED <<pc, place, todo, shown>>
      /\ Observe \/ UNCHANGED <<env, pipe, before, during>>
  BY WritersStep DEF IInv
<1>2. ReaderOf(r)
  BY DEF IInv
<1>3. CASE UNCHANGED <<env, pipe, before, during>>
  BY <1>1, <1>2, <1>3 DEF ReaderOf, KnowsOf, PartOf, Live
<1>4. CASE Observe
  <2> DEFINE now == Live(env', pipe')
  <2>1. /\ before'[r] = IF pc[r] \in Reading THEN before[r] \cap now ELSE before[r]
        /\ during'[r] = IF pc[r] \in Reading THEN during[r] \cup now ELSE during[r]
    BY <1>4 DEF Observe
  <2>2. before'[r] \subseteq before[r] /\ during[r] \subseteq during'[r]
    BY <2>1
  <2>3. KnowsOf(r)'
    BY <1>1, <1>2, <2>1, <2>2 DEF ReaderOf, KnowsOf, Reading, Live
  <2>4. PartOf(r) => PartOf(r)'
    BY <1>1, <2>2 DEF PartOf
  <2> QED
    BY <1>1, <1>2, <2>2, <2>3, <2>4 DEF ReaderOf
<1> QED
  BY <1>1, <1>3, <1>4

LEMMA WriterKeepsIInv ==
  ASSUME ConsoleAssumption, IInv, NEW w \in Writers, Write(w)
  PROVE  IInv'
<1>1. /\ TablesStep /\ job' \in [Writers -> Jobs \cup {Nobody}]
      /\ UNCHANGED <<pc, place, todo, shown>>
      /\ Observe \/ UNCHANGED <<env, pipe, before, during>>
  BY WritersStep DEF IInv
<1>2. Live(env', pipe') \subseteq Envs \cup Places
  BY LiveIn
<1>3. /\ before' \in [Readers -> SUBSET (Envs \cup Places)]
      /\ during' \in [Readers -> SUBSET (Envs \cup Places)]
  <2>1. /\ before \in [Readers -> SUBSET (Envs \cup Places)]
        /\ during \in [Readers -> SUBSET (Envs \cup Places)]
    BY DEF IInv, TypeOK
  <2> QED
    BY <1>1, <1>2, <2>1 DEF Observe
<1>4. TypeOK'
  BY <1>1, <1>3 DEF IInv, TypeOK, TablesStep
<1>5. \A r \in Readers : ReaderOf(r)'
  BY WriterKeepsReaders
<1> QED
  BY <1>1, <1>4, <1>5 DEF IInv, TablesStep

\* A reader's step changes what this reader knows and nothing else.
Elsewhere(r) ==
    /\ UNCHANGED <<env, pipe, job>>
    /\ \A s \in Readers \ {r} :
         /\ pc'[s] = pc[s] /\ place'[s] = place[s] /\ todo'[s] = todo[s]
         /\ shown'[s] = shown[s] /\ before'[s] = before[s] /\ during'[s] = during[s]

LEMMA OthersKept ==
  ASSUME IInv, NEW r \in Readers, Elsewhere(r), ReaderOf(r)'
  PROVE  \A s \in Readers : ReaderOf(s)'
<1>1. SUFFICES ASSUME NEW s \in Readers, s # r PROVE ReaderOf(s)'
  OBVIOUS
<1>2. ReaderOf(s)
  BY DEF IInv
<1> QED
  BY <1>1, <1>2 DEF Elsewhere, ReaderOf, KnowsOf, PartOf, Live

LEMMA BeginKeeps ==
  ASSUME ConsoleAssumption, IInv, NEW r \in Readers,
         NEW p \in Places \cup {Nobody}, NEW label \in {"env", "envs"},
         label = "env" => p \in Places, Begin(r, label, p)
  PROVE  TypeOK' /\ Elsewhere(r) /\ ReaderOf(r)'
<1> DEFINE now == Live(env, pipe)
<1>1. now \subseteq Envs \cup Places
  BY LiveIn
<1>2. /\ pc \in [Readers -> {"idle"} \cup Reading \cup Answered]
      /\ place \in [Readers -> Places \cup {Nobody}]
      /\ todo \in [Readers -> SUBSET Envs]
      /\ shown \in [Readers -> SUBSET (Envs \cup Places)]
      /\ before \in [Readers -> SUBSET (Envs \cup Places)]
      /\ during \in [Readers -> SUBSET (Envs \cup Places)]
  BY DEF IInv, TypeOK
<1>3. /\ pc' = [pc EXCEPT ![r] = label] /\ place' = [place EXCEPT ![r] = p]
      /\ todo' = [todo EXCEPT ![r] = {}] /\ shown' = [shown EXCEPT ![r] = {}]
      /\ before' = [before EXCEPT ![r] = now] /\ during' = [during EXCEPT ![r] = now]
      /\ UNCHANGED <<env, pipe, job>>
  BY DEF Begin, Goto
<1>4. /\ pc'[r] = label /\ place'[r] = p /\ todo'[r] = {} /\ shown'[r] = {}
      /\ before'[r] = now /\ during'[r] = now
  BY <1>2, <1>3
<1>5. Elsewhere(r)
  BY <1>2, <1>3 DEF Elsewhere
<1>6. TypeOK'
  <2>1. /\ pc' \in [Readers -> {"idle"} \cup Reading \cup Answered]
        /\ place' \in [Readers -> Places \cup {Nobody}]
        /\ todo' \in [Readers -> SUBSET Envs]
        /\ shown' \in [Readers -> SUBSET (Envs \cup Places)]
        /\ before' \in [Readers -> SUBSET (Envs \cup Places)]
        /\ during' \in [Readers -> SUBSET (Envs \cup Places)]
    BY <1>1, <1>2, <1>3 DEF Reading
  <2>2. \A s \in Readers : pc'[s] \in {"env", "pipe", "list", "served", "refused"}
                             => place'[s] \in Places
    BY <1>4, <1>5 DEF Elsewhere, IInv, TypeOK
  <2> QED
    BY <1>3, <2>1, <2>2 DEF IInv, TypeOK
<1>7. ReaderOf(r)'
  <2>1. Live(env', pipe') = now
    BY <1>3 DEF Live
  <2> QED
    BY <1>4, <2>1 DEF ReaderOf, KnowsOf
<1> QED
  BY <1>5, <1>6, <1>7

\* A lookup that finds its thing live shows it, or the reader is refused.
LEMMA FindKeeps ==
  ASSUME ConsoleAssumption, IInv, NEW r \in Readers,
         NEW thing \in Envs \cup Places, NEW found \in BOOLEAN, NEW label,
         \/ /\ pc[r] = "env" /\ label = "pipe" /\ thing = place[r][1]
         \/ /\ pc[r] = "pipe" /\ label = "list" /\ thing = place[r],
         found <=> thing \in Live(env, pipe),
         Find(r, thing, found, label)
  PROVE  TypeOK' /\ Elsewhere(r) /\ ReaderOf(r)'
<1>1. /\ pc \in [Readers -> {"idle"} \cup Reading \cup Answered]
      /\ shown \in [Readers -> SUBSET (Envs \cup Places)]
      /\ place[r] \in Places
  BY DEF IInv, TypeOK
<1>2. ReaderOf(r)
  BY DEF IInv
<1>3. UNCHANGED <<env, pipe, job, place, todo, before, during>>
  BY DEF Find
<1>4. Live(env', pipe') = Live(env, pipe)
  BY <1>3 DEF Live
<1>5. pc[r] \in Reading
  BY DEF Reading
<1>6. before[r] \subseteq Live(env, pipe) /\ Live(env, pipe) \subseteq during[r]
  BY <1>2, <1>5 DEF ReaderOf, KnowsOf
<1>7. CASE found /\ pc' = [pc EXCEPT ![r] = label]
                 /\ shown' = [shown EXCEPT ![r] = @ \cup {thing}]
  <2>1. /\ pc'[r] = label
        /\ pc' \in [Readers -> {"idle"} \cup Reading \cup Answered]
        /\ shown' \in [Readers -> SUBSET (Envs \cup Places)]
        /\ \A s \in Readers \ {r} : pc'[s] = pc[s] /\ shown'[s] = shown[s]
    BY <1>1, <1>7 DEF Reading
  <2>2. TypeOK'
    BY <1>1, <1>3, <2>1 DEF IInv, TypeOK
  <2>3. Elsewhere(r)
    BY <1>3, <2>1 DEF Elsewhere
  <2>4. thing \in during[r]
    BY <1>6, <1>7
  <2>5. ReaderOf(r)'
    BY <1>2, <1>3, <1>4, <1>6, <2>1, <2>4 DEF ReaderOf, KnowsOf
  <2> QED
    BY <2>2, <2>3, <2>5
<1>8. CASE ~found /\ pc' = [pc EXCEPT ![r] = "refused"] /\ UNCHANGED shown
  <2>1. /\ pc'[r] = "refused"
        /\ pc' \in [Readers -> {"idle"} \cup Reading \cup Answered]
        /\ \A s \in Readers \ {r} : pc'[s] = pc[s]
    BY <1>1, <1>8 DEF Answered
  <2>2. TypeOK'
    BY <1>1, <1>3, <1>8, <2>1 DEF IInv, TypeOK
  <2>3. Elsewhere(r)
    BY <1>3, <1>8, <2>1 DEF Elsewhere
  <2>4. thing \notin before[r]
    BY <1>6, <1>8
  <2>5. ReaderOf(r)'
    BY <1>2, <1>3, <1>4, <1>6, <2>1, <2>4 DEF ReaderOf, KnowsOf, Reading
  <2> QED
    BY <2>2, <2>3, <2>5
<1> QED
  BY <1>7, <1>8 DEF Find, Goto

\* The steps after which only the label, "todo" and "shown" may differ.
LEMMA ReaderKeepsIInv ==
  ASSUME ConsoleAssumption, IInv, NEW r \in Readers, Read(r)
  PROVE  IInv'
<1>1. /\ pc \in [Readers -> {"idle"} \cup Reading \cup Answered]
      /\ todo \in [Readers -> SUBSET Envs]
      /\ shown \in [Readers -> SUBSET (Envs \cup Places)]
      /\ env \in [Envs -> Entry] /\ pipe \in [Places -> Entry]
  BY DEF IInv, TypeOK
<1>2. ReaderOf(r) /\ TablesSound
  BY DEF IInv
<1>3. UNCHANGED <<env, pipe, job>>
  BY DEF Read, GetRuntimeConfig, GetRuntimeOverview, Begin, FindEnvironment,
         FindPipeline, Find, ServeConfigs, ListEnvironments, ListPipelines, SendOverview
<1>4. SUFFICES TypeOK' /\ Elsewhere(r) /\ ReaderOf(r)'
  <2>1. TablesSound'
    BY <1>2, <1>3 DEF TablesSound
  <2> QED
    BY <1>4, <2>1, OthersKept DEF IInv
<1>5. Live(env', pipe') = Live(env, pipe)
  BY <1>3 DEF Live
<1>6. CASE GetRuntimeConfig(r)
  <2>1. PICK p \in Places : Begin(r, "env", p)
    BY <1>6 DEF GetRuntimeConfig
  <2> QED
    BY <2>1, BeginKeeps
<1>7. CASE GetRuntimeOverview(r)
  <2>1. Begin(r, "envs", Nobody)
    BY <1>7 DEF GetRuntimeOverview
  <2> QED
    BY <2>1, BeginKeeps
<1>8. CASE FindEnvironment(r)
  <2>1. pc[r] = "env" /\ place[r] \in Places
    BY <1>8 DEF FindEnvironment, IInv, TypeOK
  <2> DEFINE e == place[r][1]
  <2>2. e \in Envs
    BY <2>1 DEF Places
  <2>3. (env[e].state = "live") <=> e \in Live(env, pipe)
    BY <2>2, LiveIn
  <2>4. Find(r, e, env[e].state = "live", "pipe")
    BY <1>8 DEF FindEnvironment
  <2>5. (env[e].state = "live") \in BOOLEAN
    OBVIOUS
  <2> QED
    BY <2>1, <2>2, <2>3, <2>4, <2>5, FindKeeps
<1>9. CASE FindPipeline(r)
  <2>1. pc[r] = "pipe" /\ place[r] \in Places
    BY <1>9 DEF FindPipeline, IInv, TypeOK
  <2>2. (pipe[place[r]].state = "live") <=> place[r] \in Live(env, pipe)
    BY <2>1, LiveIn
  <2>3. Find(r, place[r], pipe[place[r]].state = "live", "list")
    BY <1>9 DEF FindPipeline
  <2>4. (pipe[place[r]].state = "live") \in BOOLEAN
    OBVIOUS
  <2> QED
    BY <2>1, <2>2, <2>3, <2>4, FindKeeps
<1>10. CASE ServeConfigs(r)
  <2>1. /\ pc[r] = "list" /\ pc' = [pc EXCEPT ![r] = "served"]
        /\ UNCHANGED <<place, todo, shown, before, during>>
    BY <1>10 DEF ServeConfigs, Goto
  <2>2. /\ pc'[r] = "served" /\ \A s \in Readers \ {r} : pc'[s] = pc[s]
        /\ pc' \in [Readers -> {"idle"} \cup Reading \cup Answered]
    BY <1>1, <2>1 DEF Answered
  <2>3. TypeOK' /\ Elsewhere(r)
    BY <1>3, <2>1, <2>2 DEF IInv, TypeOK, Elsewhere
  <2>4. ReaderOf(r)'
    BY <1>2, <2>1, <2>2 DEF ReaderOf, KnowsOf, Reading
  <2> QED
    BY <2>3, <2>4
<1>11. CASE ListEnvironments(r)
  <2> DEFINE V == {e \in Envs : Visible(env[e])}
  <2>1. /\ pc[r] = "envs" /\ pc' = [pc EXCEPT ![r] = "pipes"]
        /\ todo' = [todo EXCEPT ![r] = V]
        /\ UNCHANGED <<place, shown, before, during>>
    BY <1>11 DEF ListEnvironments, Goto
  <2>2. /\ pc'[r] = "pipes" /\ todo'[r] = V
        /\ pc' \in [Readers -> {"idle"} \cup Reading \cup Answered]
        /\ todo' \in [Readers -> SUBSET Envs]
        /\ \A s \in Readers \ {r} : pc'[s] = pc[s] /\ todo'[s] = todo[s]
    BY <1>1, <2>1 DEF Reading
  <2>3. TypeOK' /\ Elsewhere(r)
    BY <1>3, <2>1, <2>2 DEF IInv, TypeOK, Elsewhere
  <2>4. \A e \in Envs : e \in V <=> e \in Live(env, pipe)
    BY <1>2, LiveIn DEF TablesSound, Sound, Visible
  <2>5. /\ before[r] \subseteq Live(env, pipe) /\ Live(env, pipe) \subseteq during[r]
        /\ shown[r] = {}
    BY <1>2, <2>1 DEF ReaderOf, KnowsOf, Reading
  <2>6. KnowsOf(r)'
    BY <1>5, <2>1, <2>2, <2>5 DEF KnowsOf
  <2>7. PartOf(r)'
    BY <2>1, <2>2, <2>4, <2>5 DEF PartOf, Places
  <2> QED
    BY <2>2, <2>3, <2>6, <2>7 DEF ReaderOf
<1>12. CASE ListPipelines(r)
  <2>1. PICK e \in todo[r] :
           /\ todo' = [todo EXCEPT ![r] = @ \ {e}]
           /\ shown' = [shown EXCEPT ![r] = @ \cup {e} \cup
                          {p \in Places : p[1] = e /\ Visible(pipe[p])}]
    BY <1>12 DEF ListPipelines
  <2> DEFINE P == {p \in Places : p[1] = e /\ Visible(pipe[p])}
  <2>2. pc[r] = "pipes" /\ UNCHANGED <<pc, place, before, during>>
    BY <1>12 DEF ListPipelines
  <2>3. e \in Envs
    BY <1>1, <2>1
  <2>4. /\ todo'[r] = todo[r] \ {e} /\ shown'[r] = shown[r] \cup {e} \cup P
        /\ todo' \in [Readers -> SUBSET Envs]
        /\ shown' \in [Readers -> SUBSET (Envs \cup Places)]
        /\ \A s \in Readers \ {r} : todo'[s] = todo[s] /\ shown'[s] = shown[s]
    BY <1>1, <2>1, <2>3
  <2>5. TypeOK' /\ Elsewhere(r)
    BY <1>3, <2>2, <2>4 DEF IInv, TypeOK, Elsewhere
  <2>6. /\ before[r] \subseteq Live(env, pipe) /\ Live(env, pipe) \subseteq during[r]
    BY <1>2, <2>2 DEF ReaderOf, KnowsOf, Reading
  <2>7. \A p \in Places : p \in P <=> p[1] = e /\ p \in Live(env, pipe)
    BY <1>2, LiveIn DEF TablesSound, Sound, Visible
  <2>8. PartOf(r)
    BY <1>2, <2>2 DEF ReaderOf
  <2>9. KnowsOf(r)'
    BY <1>2, <1>5, <2>2, <2>6 DEF ReaderOf, KnowsOf
  <2>10. PartOf(r)'
    <3>1. todo'[r] \subseteq during'[r] /\ shown'[r] \subseteq during'[r]
      BY <2>1, <2>2, <2>4, <2>6, <2>7, <2>8 DEF PartOf
    <3>2. before'[r] \cap Envs \subseteq shown'[r] \cup todo'[r]
      BY <2>2, <2>4, <2>8 DEF PartOf
    <3>3. ASSUME NEW p \in before'[r] \cap Places, p[1] \in before'[r], p[1] \notin todo'[r]
          PROVE  p \in shown'[r]
      <4>1. CASE p[1] = e
        BY <2>2, <2>4, <2>6, <2>7, <3>3, <4>1
      <4>2. CASE p[1] # e
        BY <2>2, <2>4, <2>8, <3>3, <4>2 DEF PartOf
      <4> QED
        BY <4>1, <4>2
    <3> QED
      BY <3>1, <3>2, <3>3 DEF PartOf
  <2> QED
    BY <2>2, <2>5, <2>9, <2>10 DEF ReaderOf
<1>13. CASE SendOverview(r)
  <2>1. /\ pc[r] = "pipes" /\ todo[r] = {} /\ pc' = [pc EXCEPT ![r] = "overview"]
        /\ UNCHANGED <<place, todo, shown, before, during>>
    BY <1>13 DEF SendOverview, Goto
  <2>2. /\ pc'[r] = "overview" /\ \A s \in Readers \ {r} : pc'[s] = pc[s]
        /\ pc' \in [Readers -> {"idle"} \cup Reading \cup Answered]
    BY <1>1, <2>1 DEF Answered
  <2>3. TypeOK' /\ Elsewhere(r)
    BY <1>3, <2>1, <2>2 DEF IInv, TypeOK, Elsewhere
  <2>4. PartOf(r)
    BY <1>2, <2>1 DEF ReaderOf
  <2>5. KnowsOf(r)'
    BY <2>2 DEF KnowsOf, Reading
  <2>6. PartOf(r)'
    BY <2>1, <2>4 DEF PartOf
  <2> QED
    BY <2>1, <2>2, <2>3, <2>5, <2>6 DEF ReaderOf
<1> QED
  BY <1>6, <1>7, <1>8, <1>9, <1>10, <1>11, <1>12, <1>13 DEF Read

LEMMA NextKeepsIInv ==
  ASSUME ConsoleAssumption, IInv, [Next]_vars
  PROVE  IInv'
<1>1. CASE Next
  BY <1>1, WriterKeepsIInv, ReaderKeepsIInv DEF Next
<1>2. CASE UNCHANGED vars
  <2>1. TypeOK'
    BY <1>2 DEF vars, IInv, TypeOK
  <2>2. TablesSound' /\ \A r \in Readers : ReaderOf(r)'
    BY <1>2 DEF vars, IInv, TablesSound, ReaderOf, KnowsOf, PartOf, Live
  <2> QED
    BY <2>1, <2>2 DEF IInv
<1> QED
  BY <1>1, <1>2

-----------------------------------------------------------------------------
\* The invariant holds in every state of every run of the console.
THEOREM Invariant ==
  ASSUME ConsoleAssumption
  PROVE  Spec => []IInv
<1>1. Init => IInv
  BY InitIInv
<1>2. IInv /\ [Next]_vars => IInv'
  BY NextKeepsIInv
<1> QED
  BY <1>1, <1>2, PTL DEF Spec

\* Tables, requests and answers keep their types, however many requests of
\* pipeline_service.go, environment_service.go and runtime_service.go overlap.
THEOREM TypeCorrect ==
  ASSUME ConsoleAssumption
  PROVE  Spec => []TypeOK
<1>1. IInv => TypeOK
  BY DEF IInv
<1> QED
  BY <1>1, Invariant, PTL

\* Although deletions leave pipelines behind, GetRuntimeConfig serves only an
\* environment and a pipeline that were live while it asked.
THEOREM OrphansNotServedTheorem ==
  ASSUME ConsoleAssumption
  PROVE  Spec => []OrphansNotServed
<1>1. IInv => OrphansNotServed
  BY DEF IInv, ReaderOf, KnowsOf, OrphansNotServed
<1> QED
  BY <1>1, Invariant, PTL

\* The overview that GetRuntimeOverview puts together from several reads shows
\* all that was live throughout and nothing that never was.
THEOREM OverviewExactTheorem ==
  ASSUME ConsoleAssumption
  PROVE  Spec => []OverviewExact
<1>1. ASSUME IInv, NEW r \in Readers, pc[r] = "overview"
      PROVE  /\ shown[r] \subseteq during[r]
             /\ before[r] \cap Envs \subseteq shown[r]
             /\ \A p \in before[r] \cap Places : p[1] \in before[r] => p \in shown[r]
  <2>1. PartOf(r) /\ todo[r] = {}
    BY <1>1 DEF IInv, ReaderOf
  <2> QED
    BY <2>1 DEF PartOf
<1>2. IInv => OverviewExact
  BY <1>1 DEF OverviewExact
<1> QED
  BY <1>2, Invariant, PTL

\* No statement of the console blanks a name, deactivates a row or touches a
\* deleted one, since GORM skips zero values and hides deleted rows.
THEOREM ColumnsOutlastTheorem ==
  ASSUME ConsoleAssumption
  PROVE  Spec => ColumnsOutlast
<1> DEFINE Kept == /\ \A e \in Envs : Outlasts(env[e], env'[e])
                   /\ \A p \in Places : Outlasts(pipe[p], pipe'[p])
<1>1. \A x : Outlasts(x, x)
  BY DEF Outlasts
<1>2. ASSUME IInv, Next PROVE Kept
  <2>1. CASE \E w \in Writers : Write(w)
    BY <1>2, <2>1, WritersStep DEF IInv, TablesStep
  <2>2. CASE \E r \in Readers : Read(r)
    <3>1. UNCHANGED <<env, pipe>>
      BY <2>2 DEF Read, GetRuntimeConfig, GetRuntimeOverview, Begin, FindEnvironment,
                  FindPipeline, Find, ServeConfigs, ListEnvironments, ListPipelines,
                  SendOverview
    <3> QED
      BY <1>1, <3>1
  <2> QED
    BY <1>2, <2>1, <2>2 DEF Next
<1>3. IInv /\ [Next]_vars => [Kept]_vars
  BY <1>2
<1> QED
  BY <1>3, Invariant, PTL DEF Spec, ColumnsOutlast
=============================================================================
