------------------------- MODULE ExclusiveResource --------------------------
(* What a lock promises: its users come one at a time, each after the last *)
(* has left.  Nothing is said of who comes next, or how.                   *)
CONSTANT User

VARIABLE users

Init == users = {}

Acquire(u) == users = {} /\ users' = {u}

Release == users # {} /\ users' = {}

Next == (\E u \in User : Acquire(u)) \/ Release

Spec == Init /\ [][Next]_users
=============================================================================
