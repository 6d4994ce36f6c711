--------------------------- MODULE WriteLockProofs ---------------------------
(***************************************************************************)
(* Proofs about WriteLock for every set of requests and every TTL, timeout *)
(* and handler duration.                                                   *)
(***************************************************************************)
EXTENDS WriteLock, TLAPS

\* The states of Acquire, Release and Tick stay well typed.
THEOREM TypeCorrect == Spec => []TypeOK
<1> USE LockAssumption DEF TypeOK, PC, Waiting, Answered
<1>1. Init => TypeOK
  BY DEF Init
<1>2. TypeOK /\ [Next]_vars => TypeOK'
  <2> SUFFICES ASSUME TypeOK, [Next]_vars PROVE TypeOK'
    OBVIOUS
  <2>1. ASSUME NEW r \in Requests, Step(r) PROVE TypeOK'
    <3>1. CASE Arrive(r)
      BY <3>1 DEF Arrive, Goto
    <3>2. CASE Acquire(r)
      BY <3>2 DEF Acquire, SetNXWins, SetNXLoses, SetNXResent, SetNXError,
                  SetKey, NotAcquired, Goto
    <3>3. CASE Cancelled(r)
      BY <3>3 DEF Cancelled, Goto
    <3>4. CASE HandlerReturns(r)
      BY <3>4 DEF HandlerReturns, Goto
    <3>5. CASE Release(r)
      BY <3>5 DEF Release, Goto
    <3>6. CASE ReleaseError(r)
      BY <3>6 DEF ReleaseError, Goto
    <3>7. CASE Crash(r)
      BY <3>7 DEF Crash, Goto
    <3> QED
      BY <2>1, <3>1, <3>2, <3>3, <3>4, <3>5, <3>6, <3>7 DEF Step
  <2>2. CASE Tick
    <3>1. pc' \in [Requests -> PC] /\ waited' \in [Requests -> Nat]
      BY <2>2 DEF Tick, KeyAges
    <3>2. held' \in [Requests -> 0 .. MaxHold]
      BY <2>2 DEF Tick, KeyAges
    <3>3. owner' \in Requests \cup {NoOwner} /\ ttl' \in 0 .. LockTTL
      BY <2>2 DEF Tick, KeyAges
    <3> QED
      BY <3>1, <3>2, <3>3
  <2>3. CASE UNCHANGED vars
    BY <2>3 DEF vars
  <2> QED
    BY <2>1, <2>2, <2>3 DEF Next
<1> QED
  BY <1>1, <1>2, PTL DEF Spec

\* A handler within its TTL owns the key: nobody else can set, delete or
\* outlive it (SETNX, releaseScript, expiry).
THEOREM HandlerOwnsKey == Spec => []KeyGuardsHandler
<1> USE LockAssumption DEF KeyGuardsHandler, Inside, TypeOK
<1>1. Init => KeyGuardsHandler
  BY DEF Init
<1>2. TypeOK /\ KeyGuardsHandler /\ [Next]_vars => KeyGuardsHandler'
  <2> SUFFICES ASSUME TypeOK, KeyGuardsHandler, [Next]_vars
               PROVE  KeyGuardsHandler'
    OBVIOUS
  <2>1. ASSUME NEW r \in Requests, Step(r) PROVE KeyGuardsHandler'
    <3>1. CASE Arrive(r)
      BY <3>1 DEF Arrive, Goto
    <3>2. CASE SetNXWins(r)
      \* No handler within its TTL was running: it would own the key.
      <4>1. \A s \in Inside : held[s] >= LockTTL
        BY <3>2 DEF SetNXWins, SetKey
      <4> QED
        BY <3>2, <4>1 DEF SetNXWins, SetKey, Goto
    <3>3. CASE SetNXLoses(r)
      BY <3>3 DEF SetNXLoses, NotAcquired, Goto
    <3>4. CASE SetNXResent(r)
      BY <3>4 DEF SetNXResent, SetKey, NotAcquired, Goto
    <3>5. CASE SetNXError(r)
      BY <3>5 DEF SetNXError, SetKey, Goto
    <3>6. CASE Cancelled(r)
      BY <3>6 DEF Cancelled, Goto
    <3>7. CASE HandlerReturns(r)
      BY <3>7 DEF HandlerReturns, Goto
    <3>8. CASE Release(r)
      BY <3>8 DEF Release, Goto
    <3>9. CASE ReleaseError(r)
      BY <3>9 DEF ReleaseError, Goto
    <3>10. CASE Crash(r)
      BY <3>10 DEF Crash, Goto
    <3> QED
      BY <2>1, <3>1, <3>2, <3>3, <3>4, <3>5, <3>6, <3>7, <3>8, <3>9, <3>10
      DEF Step, Acquire
  <2>2. CASE Tick
    <3>1. (owner = NoOwner <=> ttl = 0)'
      BY <2>2 DEF Tick, KeyAges
    <3>2. ASSUME NEW s \in Inside', (held[s] < LockTTL)'
          PROVE  (owner = s /\ ttl = LockTTL - held[s])'
      <4>1. s \in Inside /\ held'[s] = held[s] + 1
        BY <2>2, <3>2 DEF Tick, KeyAges
      <4>2. owner = s /\ ttl = LockTTL - held[s] /\ ttl > 1
        BY <3>2, <4>1
      <4> QED
        BY <2>2, <4>1, <4>2 DEF Tick, KeyAges
    <3> QED
      BY <3>1, <3>2
  <2>3. CASE UNCHANGED vars
    BY <2>3 DEF vars
  <2> QED
    BY <2>1, <2>2, <2>3 DEF Next
<1> QED
  BY <1>1, <1>2, TypeCorrect, PTL DEF Spec

\* Two handlers overlap only after one of them has outlived its TTL, however
\* long handlers may run.
THEOREM OverlapTheorem == Spec => []OverlapNeedsOverstay
<1>1. TypeOK /\ KeyGuardsHandler => OverlapNeedsOverstay
  BY LockAssumption DEF TypeOK, KeyGuardsHandler, OverlapNeedsOverstay, Inside
<1> QED
  BY <1>1, TypeCorrect, HandlerOwnsKey, PTL

\* When every handler returns within the TTL, write requests are serialized.
THEOREM SerializedTheorem ==
  ASSUME MaxHold < LockTTL
  PROVE  Spec => []Serialized
<1>1. TypeOK /\ OverlapNeedsOverstay => Serialized
  BY LockAssumption DEF TypeOK, OverlapNeedsOverstay, Serialized, Inside
<1> QED
  BY <1>1, TypeCorrect, OverlapTheorem, PTL

\* Acquire answers within acquireTimeout and one backoff.
THEOREM BoundedWaitTheorem == Spec => []BoundedWait
<1> USE LockAssumption DEF BoundedWait, TypeOK, Waiting
<1> DEFINE AsleepInTime ==
             \A r \in Requests : pc[r] = "backoff" => waited[r] <= AcquireTimeout
           WInv == BoundedWait /\ AsleepInTime
<1>1. Init => WInv
  BY DEF Init
<1>2. TypeOK /\ WInv /\ [Next]_vars => WInv'
  <2> SUFFICES ASSUME TypeOK, WInv, [Next]_vars PROVE WInv'
    OBVIOUS
  <2>1. ASSUME NEW r \in Requests, Step(r) PROVE WInv'
    <3>1. CASE Acquire(r)
      BY <3>1 DEF Acquire, SetNXWins, SetNXLoses, SetNXResent, SetNXError,
                  NotAcquired, Goto
    <3>2. CASE Arrive(r)
      BY <3>2 DEF Arrive, Goto
    <3>3. CASE ~Acquire(r) /\ ~Arrive(r)
      BY <2>1, <3>3 DEF Step, Cancelled, HandlerReturns, Release, ReleaseError,
                        Crash, Goto
    <3> QED
      BY <3>1, <3>2, <3>3
  <2>2. CASE Tick
    BY <2>2 DEF Tick, KeyAges
  <2>3. CASE UNCHANGED vars
    BY <2>3 DEF vars
  <2> QED
    BY <2>1, <2>2, <2>3 DEF Next
<1> QED
  BY <1>1, <1>2, TypeCorrect, PTL DEF Spec

\* Nobody but its owner deletes a live lock key.
THEOREM ReleaseTheorem == Spec => ReleasedByOwnerOnly
<1> DEFINE Rightful ==
      \A r \in Requests :
        owner = r /\ owner' # r =>
          \/ pc[r] = "deferred" /\ pc'[r] = "served"
          \/ ttl = 1 /\ ttl' = 0 /\ owner' = NoOwner
<1>1. TypeOK /\ KeyGuardsHandler /\ [Next]_vars => [Rightful]_vars
  <2> SUFFICES ASSUME TypeOK, KeyGuardsHandler, [Next]_vars, NEW r \in Requests,
                      owner = r, owner' # r
               PROVE  \/ pc[r] = "deferred" /\ pc'[r] = "served"
                      \/ ttl = 1 /\ ttl' = 0 /\ owner' = NoOwner
    OBVIOUS
  <2> USE LockAssumption DEF TypeOK
  <2>1. ASSUME NEW s \in Requests, Step(s)
        PROVE  pc[r] = "deferred" /\ pc'[r] = "served"
    BY <2>1 DEF Step, Arrive, Acquire, SetNXWins, SetNXLoses, SetNXResent,
       SetNXError, SetKey, Cancelled, HandlerReturns, Release, ReleaseError,
       Crash, Goto
  <2>2. CASE Tick
    BY <2>2 DEF Tick, KeyAges, KeyGuardsHandler
  <2>3. CASE UNCHANGED vars
    BY <2>3 DEF vars
  <2> QED
    BY <2>1, <2>2, <2>3 DEF Next
<1> QED
  BY <1>1, TypeCorrect, HandlerOwnsKey, PTL DEF Spec, ReleasedByOwnerOnly

\* A key that is set goes or keeps its owner and loses life: no step renews it
\* or passes it on, and every tick takes one off.  So it is gone within LockTTL
\* ticks, whoever crashed: the safety behind LockRecovers, which adds that
\* ticks go on ("prevents deadlock", New).
KeyRunsOut ==
    [][owner # NoOwner =>
         \/ owner' = NoOwner
         \/ owner' = owner /\ ttl' <= ttl /\ (Tick => ttl' < ttl)]_vars

THEOREM KeyRunsOutTheorem == Spec => KeyRunsOut
<1> DEFINE Fades == owner # NoOwner =>
                      \/ owner' = NoOwner
                      \/ owner' = owner /\ ttl' <= ttl /\ (Tick => ttl' < ttl)
<1>1. TypeOK /\ [Next]_vars => [Fades]_vars
  <2> SUFFICES ASSUME TypeOK, Next, owner # NoOwner, owner' # NoOwner
               PROVE  owner' = owner /\ ttl' <= ttl /\ (Tick => ttl' < ttl)
    OBVIOUS
  <2> USE LockAssumption DEF TypeOK
  <2>1. CASE Tick
    BY <2>1 DEF Tick, KeyAges
  <2>2. ASSUME NEW r \in Requests, Step(r), ~Tick
        PROVE  owner' = owner /\ ttl' = ttl
    BY <2>2 DEF Step, Arrive, Acquire, SetNXWins, SetNXLoses, SetNXResent,
       SetNXError, SetKey, Cancelled, HandlerReturns, Release, ReleaseError, Crash
  <2> QED
    BY <2>1, <2>2 DEF Next
<1> QED
  BY <1>1, TypeCorrect, PTL DEF Spec, KeyRunsOut

\* With handlers bounded by the TTL, every step of the lock is a step of the
\* abstract mutex or leaves its state alone.
THEOREM RefinementTheorem ==
  ASSUME MaxHold < LockTTL
  PROVE  Spec => ImplementsMutex
<1> USE LockAssumption DEF Inside
<1>1. Init => Mutex!Init
  BY DEF Init, Mutex!Init
<1>2. TypeOK /\ KeyGuardsHandler /\ Serialized /\ [Next]_vars
        => [Mutex!Next]_Inside
  <2> SUFFICES ASSUME TypeOK, KeyGuardsHandler, Serialized, [Next]_vars
               PROVE  Mutex!Next \/ Inside' = Inside
    OBVIOUS
  <2> USE DEF TypeOK
  <2>1. ASSUME NEW r \in Requests, Step(r)
        PROVE  Mutex!Next \/ Inside' = Inside
    <3>1. CASE SetNXWins(r)
      <4>1. Inside = {}
        BY <3>1 DEF SetNXWins, SetKey, KeyGuardsHandler
      <4>2. Inside' = {r}
        BY <3>1, <4>1 DEF SetNXWins, Goto
      <4> QED
        BY <4>1, <4>2 DEF Mutex!Next, Mutex!Enter
    <3>2. CASE pc[r] = "handler"
      <4>1. Inside = {r}
        BY <3>2 DEF Serialized
      <4>2. Inside' = {}
        BY <2>1, <3>2, <4>1 DEF Step, Arrive, Acquire, SetNXWins, SetNXLoses,
           SetNXResent, SetNXError, Cancelled, HandlerReturns, Release,
           ReleaseError, Crash, Goto
      <4> QED
        BY <4>1, <4>2 DEF Mutex!Next, Mutex!Leave
    <3>3. CASE ~SetNXWins(r) /\ pc[r] # "handler"
      <4>1. \A s \in Requests : pc'[s] = "handler" <=> pc[s] = "handler"
        BY <2>1, <3>3 DEF Step, Arrive, Acquire, SetNXLoses, SetNXResent,
           SetNXError, NotAcquired, Cancelled, HandlerReturns, Release,
           ReleaseError, Crash, Goto
      <4> QED
        BY <4>1
    <3> QED
      BY <3>1, <3>2, <3>3
  <2>2. CASE Tick
    BY <2>2 DEF Tick, KeyAges
  <2>3. CASE UNCHANGED vars
    BY <2>3 DEF vars
  <2> QED
    BY <2>1, <2>2, <2>3 DEF Next
<1> QED
  BY <1>1, <1>2, TypeCorrect, HandlerOwnsKey, SerializedTheorem, PTL
  DEF Spec, ImplementsMutex, Mutex!Spec
==============================================================================
