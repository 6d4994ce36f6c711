------------------------------ MODULE WriteLock ------------------------------
(***************************************************************************)
(* The Redis write lock (pkg/lock/lock.go) and the middleware that takes   *)
(* it around every write handler (biz/middleware/writelock.go).            *)
(*                                                                         *)
(* Requests are HTTP write requests, spread over any number of replicas.   *)
(* Each runs once and its lockID is a fresh UUID, so the request itself    *)
(* stands for its lockID.  Time is counted in ticks; a Redis round trip    *)
(* and a backoff sleep (at most 500ms) fit inside one tick, a handler may  *)
(* run for up to MaxHold ticks (the code sets no bound: MaxHold is what    *)
(* the environment grants).                                                *)
(***************************************************************************)
EXTENDS Naturals

CONSTANTS
    Requests,          \* write requests, and their lockIDs
    NoOwner,           \* the lock key does not exist in Redis
    LockTTL,           \* lockTTL, 30s in initialize.go
    AcquireTimeout,    \* acquireTimeout, 60s in initialize.go
    MaxHold            \* ticks a handler may run

ASSUME LockAssumption ==
    /\ NoOwner \notin Requests
    /\ LockTTL \in Nat \ {0}
    /\ AcquireTimeout \in Nat
    /\ MaxHold \in Nat

VARIABLES
    pc,        \* where each request is in writeLockHandler / Acquire / Release
    owner,     \* the value of the lock key, or NoOwner
    ttl,       \* remaining life of the lock key, 0 when it does not exist
    waited,    \* ticks since Acquire set its deadline
    held       \* ticks since the SETNX that let the handler in

vars == <<pc, owner, ttl, waited, held>>

\* "busy" is the 503 answer, "deferred" the deferred Release call.
Answered == {"served", "busy", "crashed"}
Waiting == {"setnx", "backoff"}
PC == {"new", "handler", "deferred"} \cup Waiting \cup Answered

TypeOK ==
    /\ pc \in [Requests -> PC]
    /\ owner \in Requests \cup {NoOwner}
    /\ ttl \in 0 .. LockTTL
    /\ waited \in [Requests -> Nat]
    /\ held \in [Requests -> 0 .. MaxHold]

Init ==
    /\ pc = [r \in Requests |-> "new"]
    /\ owner = NoOwner
    /\ ttl = 0
    /\ waited = [r \in Requests |-> 0]
    /\ held = [r \in Requests |-> 0]

Goto(r, label) == pc' = [pc EXCEPT ![r] = label]

------------------------------------------------------------------------------
\* Acquire is called: the lockID and the deadline are made.
Arrive(r) ==
    /\ pc[r] = "new"
    /\ Goto(r, "setnx")
    /\ waited' = [waited EXCEPT ![r] = 0]
    /\ UNCHANGED <<owner, ttl, held>>

\* Mutants of SetKey: SET without NX; lockTTL and acquireTimeout exchanged.
SetKeyWithoutNX(r) == owner' = r /\ ttl' = LockTTL
SetKeyWrongLife(r) == owner = NoOwner /\ owner' = r /\ ttl' = AcquireTimeout

\* SET key lockID NX EX lockTTL, executed by Redis when the key is absent.
SetKey(r) ==
    /\ owner = NoOwner
    /\ owner' = r
    /\ ttl' = LockTTL

SetNXWins(r) ==
    /\ pc[r] = "setnx"
    /\ SetKey(r)
    /\ Goto(r, "handler")
    /\ held' = [held EXCEPT ![r] = 0]
    /\ UNCHANGED waited

\* Mutant of NotAcquired: the deadline is not looked at.
BackOffAlways(r) == Goto(r, "backoff")

\* SETNX answered false: give up once the deadline is over, else sleep.
NotAcquired(r) ==
    Goto(r, IF waited[r] > AcquireTimeout THEN "busy" ELSE "backoff")

SetNXLoses(r) ==
    /\ pc[r] = "setnx"
    /\ owner # NoOwner
    /\ NotAcquired(r)
    /\ UNCHANGED <<owner, ttl, waited, held>>

\* The reply of a SETNX that took effect is lost and go-redis sends the
\* command again (it retries by default): the second one finds the key set by
\* the first and answers false.
SetNXResent(r) ==
    /\ pc[r] = "setnx"
    /\ SetKey(r)
    /\ NotAcquired(r)
    /\ UNCHANGED <<waited, held>>

\* SETNX fails with an error, whether or not Redis executed it: 503, and
\* nobody releases the key that may have been set.
SetNXError(r) ==
    /\ pc[r] = "setnx"
    /\ SetKey(r) \/ UNCHANGED <<owner, ttl>>
    /\ Goto(r, "busy")
    /\ UNCHANGED <<waited, held>>

\* ctx.Done wins the select against the backoff timer.
Cancelled(r) ==
    /\ pc[r] = "backoff"
    /\ Goto(r, "busy")
    /\ UNCHANGED <<owner, ttl, waited, held>>

\* c.Next returns, or panics: the deferred Release runs in both cases.
HandlerReturns(r) ==
    /\ pc[r] = "handler"
    /\ Goto(r, "deferred")
    /\ UNCHANGED <<owner, ttl, waited, held>>

\* Mutant of Release: DEL without comparing the value.
ReleaseUnchecked(r) ==
    /\ pc[r] = "deferred"
    /\ owner' = NoOwner /\ ttl' = 0
    /\ Goto(r, "served")
    /\ UNCHANGED <<waited, held>>

\* releaseScript: delete the key only if it still holds this lockID.
Release(r) ==
    /\ pc[r] = "deferred"
    /\ IF owner = r THEN owner' = NoOwner /\ ttl' = 0
                    ELSE UNCHANGED <<owner, ttl>>
    /\ Goto(r, "served")
    /\ UNCHANGED <<waited, held>>

\* The script call fails before Redis runs it; the error is only logged.
ReleaseError(r) ==
    /\ pc[r] = "deferred"
    /\ Goto(r, "served")
    /\ UNCHANGED <<owner, ttl, waited, held>>

\* The replica serving r dies; nothing it deferred is run.
Crash(r) ==
    /\ pc[r] \in Waiting \cup {"handler", "deferred"}
    /\ Goto(r, "crashed")
    /\ UNCHANGED <<owner, ttl, waited, held>>

\* Mutant of KeyAges: the key was set without an expiry.
KeyStays == UNCHANGED <<owner, ttl>>

\* Redis counts the key's life down and removes it at its end.
KeyAges ==
    IF ttl > 1 THEN ttl' = ttl - 1 /\ owner' = owner
               ELSE ttl' = 0 /\ owner' = NoOwner

\* One tick passes: the pending round trips have ended, the key expires when
\* its life is over, and every sleeper wakes to send SETNX again (the attempts
\* of one tick that answer false change nothing, so one of them is enough).
Tick ==
    /\ \A r \in Requests : pc[r] # "setnx"
    /\ \A r \in Requests : pc[r] = "handler" => held[r] < MaxHold
    /\ pc' = [r \in Requests |-> IF pc[r] = "backoff" THEN "setnx" ELSE pc[r]]
    /\ waited' = [r \in Requests |->
                    IF pc[r] = "backoff" THEN waited[r] + 1 ELSE waited[r]]
    /\ held' = [r \in Requests |->
                  IF pc[r] = "handler" THEN held[r] + 1 ELSE held[r]]
    /\ KeyAges

Acquire(r) ==
    \/ SetNXWins(r)
    \/ SetNXLoses(r)
    \/ SetNXResent(r)
    \/ SetNXError(r)

Step(r) ==
    \/ Arrive(r)
    \/ Acquire(r)
    \/ Cancelled(r)
    \/ HandlerReturns(r)
    \/ Release(r)
    \/ ReleaseError(r)
    \/ Crash(r)

Next == Tick \/ \E r \in Requests : Step(r)

Spec == Init /\ [][Next]_vars

\* Time does not stop, Redis answers and handlers return.
Fairness ==
    /\ WF_vars(Tick)
    /\ \A r \in Requests :
        /\ WF_vars(Acquire(r))
        /\ WF_vars(HandlerReturns(r))
        /\ WF_vars(Release(r) \/ ReleaseError(r))

FairSpec == Spec /\ Fairness

------------------------------------------------------------------------------
Inside == {r \in Requests : pc[r] = "handler"}

\* Write requests are serialized: no two handlers run at once.
\* (biz/middleware/writelock.go, InitWriteLock's contract.)
Serialized == \A r, s \in Inside : r = s

\* Whatever crashes, errors and lost replies occur, two handlers overlap only
\* after one of them has outlived the TTL of the key it set.
OverlapNeedsOverstay ==
    \A r, s \in Inside : r # s => held[r] >= LockTTL \/ held[s] >= LockTTL

\* A handler within its TTL owns the key, with the rest of the TTL to live
\* (the strengthening that makes the two properties above inductive).
KeyGuardsHandler ==
    /\ owner = NoOwner <=> ttl = 0
    /\ \A r \in Inside :
         held[r] < LockTTL => owner = r /\ ttl = LockTTL - held[r]

\* No request waits for the lock longer than acquireTimeout and one backoff,
\* the time Acquire promises ("max time to wait when trying to acquire").
BoundedWait == \A r \in Requests : pc[r] \in Waiting => waited[r] <= AcquireTimeout + 1

\* A lock key disappears only by its own owner's Release or by expiry: "preventing
\* a client from releasing a lock it no longer owns" (releaseScript).
ReleasedByOwnerOnly ==
    [][\A r \in Requests :
         owner = r /\ owner' # r =>
            \/ pc[r] = "deferred" /\ pc'[r] = "served"
            \/ ttl = 1 /\ ttl' = 0 /\ owner' = NoOwner]_vars

\* A lock whose holder crashed, or whose SETNX reply was lost, does not stay
\* locked: the TTL "prevents deadlock" (New).
LockRecovers == owner # NoOwner ~> owner = NoOwner

\* With handlers bounded by the TTL the lock implements the abstract mutex.
Mutex == INSTANCE WriteMutex WITH inside <- Inside
ImplementsMutex == Mutex!Spec
==============================================================================
