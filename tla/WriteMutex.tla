----------------------------- MODULE WriteMutex -----------------------------
(***************************************************************************)
(* What the global write lock promises: "all write endpoints will          *)
(* serialize through this lock" (biz/middleware/writelock.go).  At most    *)
(* one write request at a time is inside its handler.                      *)
(***************************************************************************)
CONSTANT Requests       \* the write requests ever sent to any replica

VARIABLE inside         \* the requests whose handler is running

Init == inside = {}

Enter(r) ==
    /\ inside = {}
    /\ inside' = {r}

Leave(r) ==
    /\ inside = {r}
    /\ inside' = {}

Next == \E r \in Requests : Enter(r) \/ Leave(r)

Spec == Init /\ [][Next]_inside
=============================================================================
