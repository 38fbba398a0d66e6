------------------------------- MODULE Lease -------------------------------
(***************************************************************************)
(* What the account lock of the token refresh promises, with no clock and  *)
(* no Redis: a lease that one client holds at a time.  A client that stops *)
(* without releasing (a crash, a lost reply) leaves the lease behind, and  *)
(* only such an abandoned lease may lapse.  A third party may withdraw the *)
(* lease, without telling the client that works under it.                  *)
(***************************************************************************)
CONSTANTS Clients,   \* those who may hold the lease
          NoClient   \* "held by nobody"

VARIABLES holder,    \* the client the lease is granted to, or NoClient
          working    \* the clients that work under it

vars == <<holder, working>>

Init == holder = NoClient /\ working = {}

Acquire(c) ==
  /\ holder = NoClient
  /\ holder' = c
  /\ working' = working \cup {c}

\* A client that gets no reply may hold the lease without knowing it.
AcquireUnknowingly(c) ==
  /\ holder = NoClient
  /\ holder' = c
  /\ UNCHANGED working

Release(c) ==
  /\ holder = c
  /\ c \in working
  /\ holder' = NoClient
  /\ working' = working \ {c}

Abandon(c) ==
  /\ holder = c
  /\ c \in working
  /\ working' = working \ {c}
  /\ UNCHANGED holder

Lapse ==
  /\ holder # NoClient
  /\ holder \notin working
  /\ holder' = NoClient
  /\ UNCHANGED working

\* Whoever works under the lease goes on without it.
Withdraw ==
  /\ holder # NoClient
  /\ holder' = NoClient
  /\ working' = {}

Next ==
  \/ \E c \in Clients : Acquire(c) \/ AcquireUnknowingly(c) \/ Release(c) \/ Abandon(c)
  \/ Lapse
  \/ Withdraw

Spec == Init /\ [][Next]_vars

----------------------------------------------------------------------------
\* At most one client works under the lease, and the lease is its own
\* (redis.client.ts acquireLock: SET NX EX with the caller's lockId).
Exclusive == \A c \in working : holder = c
============================================================================
