------------------------ MODULE RefreshTokenProofs ------------------------
(***************************************************************************)
(* What becomes of the tokens in AccessTokenRefresh: the life of a cached  *)
(* access token, and what may be found of the stored refresh token, both   *)
(* whatever becomes of the lock.                                           *)
(***************************************************************************)
EXTENDS AccessTokenRefreshProofs

---------------------------------------------------------------------------
(* The cached access token *)

\* How much longer than its validity a token received may be kept, at await
\* q with time t left.
Timely(q, t, a) ==
  /\ q = "idp" => t <= IdpTimeout
  /\ q = "answer" => t <= IdpTimeout /\ a.ttl + t <= a.left + IdpTimeout
  /\ q = "work" => a.ttl <= a.left + IdpTimeout
  /\ q = "setAccess" => t <= RedisMax /\ a.ttl + t <= a.left + IdpTimeout + RedisMax

CacheInv == CacheFollowsIdp /\ \A p \in Procs : Timely(pc[p], timer[p], at[p])

\* The variables that CacheInv reads.
LEMMA CacheTypes ==
  ASSUME TypeOK
  PROVE  /\ pc \in [Procs -> PCs] /\ timer \in [Procs -> Nat]
         /\ at \in [Procs -> [ttl : Int, left : Int]]
         /\ access \in [ttl : Nat, left : Int]
         /\ at = [p \in Procs |-> at[p]] /\ timer = [p \in Procs |-> timer[p]]
         /\ IdpTimeout \in Nat /\ RedisMax \in Nat /\ LoginMax \in Nat
         /\ Calls \subseteq Procs /\ Logins \subseteq Procs
  BY TimeAssumption DEF TypeOK, ProcsType, MemType, RedisType, Procs

\* One execution moves, the others stay where they are.
LEMMA CacheMove ==
  ASSUME TypeOK, CacheInv, NEW p \in Procs, NEW q, NEW t, NEW a,
         pc' = [pc EXCEPT ![p] = q], timer' = [timer EXCEPT ![p] = t],
         at' = [at EXCEPT ![p] = a], Timely(q, t, a), CacheFollowsIdp'
  PROVE  CacheInv'
  <1> SUFFICES ASSUME NEW s \in Procs PROVE Timely(pc'[s], timer'[s], at'[s])
    BY DEF CacheInv, Timely
  <1>1. CASE s = p
    BY <1>1, CacheTypes
  <1>2. CASE s # p
    <2>1. pc'[s] = pc[s] /\ timer'[s] = timer[s] /\ at'[s] = at[s]
      BY <1>2, CacheTypes
    <2> QED BY <2>1 DEF CacheInv
  <1> QED BY <1>1, <1>2

\* An execution moves to an await that says nothing of its token.
LEMMA CacheStep ==
  ASSUME TypeOK, CacheInv, NEW p \in Procs, NEW q,
         pc' = [pc EXCEPT ![p] = q], NEW t, timer' = [timer EXCEPT ![p] = t],
         q \notin {"idp", "answer", "work", "setAccess"},
         UNCHANGED at \/ at' = [at EXCEPT ![p] = NoAccess], CacheFollowsIdp'
  PROVE  CacheInv'
  <1>1. \A a : Timely(q, t, a)
    BY DEF Timely
  <1>2. PICK a : at' = [at EXCEPT ![p] = a]
    <2>1. UNCHANGED at => at' = [at EXCEPT ![p] = at[p]]
      BY CacheTypes
    <2> QED BY <2>1
  <1> QED BY <1>1, <1>2, CacheMove

\* The same, for the actions that use Step, Finish and StoreDone.
LEMMA CacheHelpers ==
  ASSUME TypeOK, CacheInv, NEW p \in Procs, CacheFollowsIdp'
  PROVE  /\ \A q : /\ q \notin {"idp", "answer", "work", "setAccess"}
                   /\ Step(p, q) /\ (UNCHANGED at \/ Forget(p))
                   => CacheInv'
         /\ \A r : Finish(p, r) => CacheInv'
         /\ StoreDone(p) => CacheInv'
  <1>1. ASSUME NEW q, q \notin {"idp", "answer", "work", "setAccess"},
               Step(p, q), UNCHANGED at \/ Forget(p)
        PROVE  CacheInv'
    BY <1>1, CacheStep DEF Step, Forget
  <1>2. ASSUME NEW r, Finish(p, r) PROVE CacheInv'
    <2>1. Step(p, "idle") /\ Forget(p)
      BY <1>2 DEF Finish
    <2> QED BY <1>1, <2>1
  <1>3. ASSUME StoreDone(p) PROVE CacheInv'
    BY <1>1, <1>2, <1>3 DEF StoreDone
  <1> QED BY <1>1, <1>2, <1>3

\* The IdP's answer makes a token, which ages on its way.
LEMMA CacheReceives ==
  ASSUME TypeOK, CacheInv
  PROVE  /\ \A c \in Calls : IdpExchange(c) \/ ReceiveTokenSet(c) => CacheInv'
         /\ \A l \in Logins : LoginExchange(l) \/ LoginAccepted(l) => CacheInv'
  <1> USE CacheTypes
  <1>1. ASSUME NEW c \in Calls, IdpExchange(c) PROVE CacheInv'
    <2>1. timer' = [timer EXCEPT ![c] = timer[c]] /\ CacheFollowsIdp'
      BY <1>1 DEF IdpExchange, redis, CacheInv, CacheFollowsIdp, Stored
    <2>2. timer[c] <= IdpTimeout
      BY <1>1 DEF IdpExchange, CacheInv, Timely
    <2>3. Timely("answer", timer[c], [ttl |-> AccessTtl, left |-> AccessTtl])
      BY <2>2, TimeAssumption DEF Timely
    <2> QED BY <1>1, <2>1, <2>3, CacheMove DEF IdpExchange
  <1>2. ASSUME NEW c \in Calls, ReceiveTokenSet(c) PROVE CacheInv'
    <2>1. at' = [at EXCEPT ![c] = at[c]] /\ CacheFollowsIdp'
      BY <1>2 DEF ReceiveTokenSet, redis, mem, CacheInv, CacheFollowsIdp, Stored
    <2>2. /\ pc' = [pc EXCEPT ![c] = "setAccess"]
          /\ timer' = [timer EXCEPT ![c] = RedisMax]
      BY <1>2 DEF ReceiveTokenSet, Step, AwaitMax, Holding
    <2>3. timer[c] \in Nat /\ at[c].ttl + timer[c] <= at[c].left + IdpTimeout
      BY <1>2 DEF ReceiveTokenSet, CacheInv, Timely
    <2>4. Timely("setAccess", RedisMax, at[c])
      BY <2>3 DEF Timely
    <2> QED BY <2>1, <2>2, <2>4, CacheMove
  <1>3. ASSUME NEW l \in Logins, LoginExchange(l) PROVE CacheInv'
    <2>1. CacheFollowsIdp' /\ Step(l, "work")
      BY <1>3 DEF LoginExchange, redis, CacheInv, CacheFollowsIdp, Stored
    <2>2. PICK delay \in 0..IdpTimeout :
            at' = [at EXCEPT ![l] = [ttl |-> AccessTtl, left |-> AccessTtl - delay]]
      BY <1>3 DEF LoginExchange
    <2>3. Timely("work", AwaitMax("work"), [ttl |-> AccessTtl, left |-> AccessTtl - delay])
      BY <2>2, TimeAssumption DEF Timely
    <2> QED BY <2>1, <2>2, <2>3, CacheMove DEF Step
  <1>4. ASSUME NEW l \in Logins, LoginAccepted(l) PROVE CacheInv'
    <2>1. at' = [at EXCEPT ![l] = at[l]] /\ CacheFollowsIdp'
      BY <1>4 DEF LoginAccepted, redis, mem, CacheInv, CacheFollowsIdp, Stored
    <2>2. /\ pc' = [pc EXCEPT ![l] = "setAccess"]
          /\ timer' = [timer EXCEPT ![l] = RedisMax]
      BY <1>4 DEF LoginAccepted, Step, AwaitMax, Holding
    <2>3. at[l].ttl <= at[l].left + IdpTimeout
      BY <1>4 DEF LoginAccepted, CacheInv, Timely
    <2>4. Timely("setAccess", RedisMax, at[l])
      BY <2>3 DEF Timely
    <2> QED BY <2>1, <2>2, <2>4, CacheMove
  <1> QED BY <1>1, <1>2, <1>3, <1>4

\* A token stored is kept no longer than what its SET allows.
LEMMA CacheStores ==
  ASSUME TypeOK, CacheInv, NEW p \in Procs, pc[p] = "setAccess",
         access' = access \/ access' = at[p]
  PROVE  CacheFollowsIdp'
  <1>1. /\ timer[p] \in Nat
        /\ at[p].ttl + timer[p] <= at[p].left + IdpTimeout + RedisMax
    BY CacheTypes DEF CacheInv, Timely
  <1>2. at[p].ttl \in Int /\ at[p].left \in Int
    BY CacheTypes
  <1>3. CASE access' = at[p]
    BY <1>1, <1>2, <1>3, CacheTypes DEF CacheFollowsIdp
  <1> QED BY <1>3 DEF CacheInv, CacheFollowsIdp, Stored

\* Every action.
LEMMA CacheNext == TypeOK /\ CacheInv /\ [Next]_vars => CacheInv'
  <1> SUFFICES ASSUME TypeOK, CacheInv, [Next]_vars PROVE CacheInv'
    OBVIOUS
  <1> USE CacheTypes
  <1>1. UNCHANGED access => CacheFollowsIdp'
    BY DEF CacheInv, CacheFollowsIdp, Stored
  <1>2. ASSUME NEW c \in Calls,
               \/ Request(c) \/ GetAccess(c) \/ AcquireLock(c) \/ IdpRefuse(c)
               \/ ReleaseGet(c) \/ ReleaseDel(c) \/ Wake(c)
               \/ IdpUnreachable(c) \/ ReadFails(c) \/ AcquireLockFails(c) \/ ReleaseDelFails(c)
        PROVE  CacheInv'
    <2>1. UNCHANGED access
      BY <1>2 DEF Request, GetAccess, AcquireLock, IdpRefuse, ReleaseGet, ReleaseDel, Wake,
                  IdpUnreachable, ReadFails, AcquireLockFails, ReleaseDelFails, redis
    <2>2. \/ \E r : Finish(c, r)
          \/ \E q : /\ q \notin {"idp", "answer", "work", "setAccess"}
                    /\ Step(c, q) /\ (UNCHANGED at \/ Forget(c))
      BY <1>2 DEF Request, GetAccess, AcquireLock, IdpRefuse, ReleaseGet, ReleaseDel, Wake,
                  IdpUnreachable, ReadFails, AcquireLockFails, ReleaseDelFails, mem
    <2> QED BY <1>1, <2>1, <2>2, CacheHelpers
  <1>3. ASSUME NEW c \in Calls, GetRefresh(c) PROVE CacheInv'
    <2>1. UNCHANGED <<access, at>>
      BY <1>3 DEF GetRefresh, redis
    <2>2. CASE Step(c, "relGet")
      BY <1>1, <2>1, <2>2, CacheHelpers
    <2>3. CASE Step(c, "idp")
      <3>1. Timely("idp", IdpTimeout, at[c])
        BY DEF Timely
      <3>2. /\ pc' = [pc EXCEPT ![c] = "idp"] /\ timer' = [timer EXCEPT ![c] = IdpTimeout]
            /\ at' = [at EXCEPT ![c] = at[c]]
        BY <2>1, <2>3 DEF Step, AwaitMax
      <3> QED BY <1>1, <2>1, <3>1, <3>2, CacheMove
    <2> QED BY <1>3, <2>2, <2>3 DEF GetRefresh
  <1>4. ASSUME NEW c \in Calls, Poll(c) PROVE CacheInv'
    <2>1. UNCHANGED access
      BY <1>4 DEF Poll, redis
    <2>2. CASE Stored(access)
      BY <1>1, <1>4, <2>1, <2>2, CacheHelpers DEF Poll
    <2>3. CASE ~Stored(access)
      BY <1>1, <1>4, <2>1, <2>3, CacheStep DEF Poll, mem
    <2> QED BY <2>2, <2>3
  <1>5. ASSUME NEW p \in Procs, StoreAccess(p) PROVE CacheInv'
    <2>1. CacheFollowsIdp'
      BY <1>5, CacheStores DEF StoreAccess
    <2>2. StoreDone(p) \/ (Step(p, "setRefresh") /\ UNCHANGED at)
      BY <1>5 DEF StoreAccess, mem
    <2> QED BY <2>1, <2>2, CacheHelpers
  <1>6. ASSUME NEW p \in Procs, StoreRefresh(p) PROVE CacheInv'
    BY <1>1, <1>6, CacheHelpers DEF StoreRefresh
  <1>7. ASSUME NEW p \in Procs, StoreFails(p) PROVE CacheInv'
    <2>1. CacheFollowsIdp'
      <3>1. CASE pc[p] = "setAccess"
        BY <1>7, <3>1, CacheStores DEF StoreFails
      <3>2. CASE pc[p] # "setAccess"
        BY <1>1, <1>7, <3>2 DEF StoreFails
      <3> QED BY <3>1, <3>2
    <2>2. (Step(p, "relGet") /\ Forget(p)) \/ Finish(p, None)
      BY <1>7 DEF StoreFails
    <2> QED BY <2>1, <2>2, CacheHelpers
  <1>8. ASSUME NEW l \in Logins, LoginRefused(l) PROVE CacheInv'
    BY <1>1, <1>8, CacheHelpers DEF LoginRefused, redis
  <1>9. ASSUME NEW p \in Procs, Crash(p) PROVE CacheInv'
    BY <1>1, <1>9, CacheHelpers DEF Crash, redis
  <1>10. CASE RefreshExpires \/ DeleteLock
    BY <1>1, <1>10 DEF RefreshExpires, DeleteLock, procs, mem, CacheInv, Timely
  <1>13. CASE DeleteAccess
    BY <1>13 DEF DeleteAccess, procs, mem, CacheInv, CacheFollowsIdp, Timely, Stored, NoAccess
  <1>11. CASE Tick
    <2>1. CacheFollowsIdp'
      <3>1. CASE access.ttl > 1
        <4>1. access' = [ttl |-> access.ttl - 1, left |-> access.left - 1]
          BY <1>11, <3>1 DEF Tick
        <4>2. access'.ttl = access.ttl - 1 /\ access'.left = access.left - 1
          BY <4>1
        <4>3. access.ttl <= access.left + IdpTimeout + RedisMax
          BY <3>1 DEF CacheInv, CacheFollowsIdp, Stored
        <4> QED BY <4>2, <4>3 DEF CacheFollowsIdp
      <3>2. CASE ~(access.ttl > 1)
        BY <1>11, <3>2 DEF Tick, NoAccess, CacheFollowsIdp, Stored
      <3> QED BY <3>1, <3>2
    <2>2. ASSUME NEW p \in Procs PROVE Timely(pc'[p], timer'[p], at'[p])
      <3>1. pc'[p] = pc[p] /\ Timely(pc[p], timer[p], at[p])
        BY <1>11 DEF Tick, CacheInv
      <3>2. timer[p] \in Nat /\ at[p] \in [ttl : Int, left : Int]
        OBVIOUS
      <3>3. timer'[p] = IF timer[p] > 0 THEN timer[p] - 1 ELSE 0
        BY <1>11 DEF Tick
      <3>4. CASE pc[p] = "work"
        <4>1. at'[p] = [ttl |-> at[p].ttl - 1, left |-> at[p].left - 1]
          BY <1>11, <3>4 DEF Tick
        <4>2. at'[p].ttl = at[p].ttl - 1 /\ at'[p].left = at[p].left - 1
          BY <4>1
        <4> QED BY <3>1, <3>2, <3>4, <4>2 DEF Timely
      <3>5. CASE pc[p] \in {"answer", "setAccess"}
        <4>1. at'[p] = [at[p] EXCEPT !.left = at[p].left - 1]
          BY <1>11, <3>5 DEF Tick
        <4>2. at'[p].ttl = at[p].ttl /\ at'[p].left = at[p].left - 1
          BY <3>2, <4>1
        <4>3. timer'[p] = timer[p] - 1
          BY <1>11, <3>2, <3>3, <3>5 DEF Tick, HasDeadline, Holding
        <4> QED BY <3>1, <3>2, <3>5, <4>2, <4>3 DEF Timely
      <3>6. CASE pc[p] \notin {"work", "answer", "setAccess"}
        BY <3>1, <3>2, <3>3, <3>6 DEF Timely
      <3> QED BY <3>4, <3>5, <3>6
    <2> QED BY <2>1, <2>2 DEF CacheInv, Timely
  <1>12. CASE UNCHANGED vars
    BY <1>1, <1>12 DEF vars, procs, mem, redis, CacheInv, Timely
  <1> QED
    BY <1>2, <1>3, <1>4, <1>5, <1>6, <1>7, <1>8, <1>9, <1>10, <1>11, <1>12, <1>13,
       CacheReceives
       DEF Next, CallStep, CallFails, LoginStep

\* A cached access token outlives its validity at the IdP by no more than one
\* answer of the IdP and one Redis command, with or without the lock
\* (TokenService.setToken).
THEOREM CacheIsTimely == Spec => []CacheFollowsIdp
  <1>1. Init => CacheInv
    BY TimeAssumption DEF Init, CacheInv, CacheFollowsIdp, Timely, Stored, NoAccess
  <1>2. CacheInv => CacheFollowsIdp
    BY DEF CacheInv
  <1> QED BY <1>1, <1>2, CacheNext, TypeCorrect, PTL DEF Spec
---------------------------------------------------------------------------
(* The refresh tokens *)

\* Between the exchange and the store of what it gave.
Received == {"answer", "setAccess", "setRefresh"}

\* A refresh token that an execution has received and has yet to store is
\* known to it alone, and has not been used.
UnstoredIsPrivate ==
  \A p \in Procs : nt[p] # None =>
    /\ nt[p] # refresh /\ nt[p] \notin spent
    /\ \A q \in Procs : nt[p] # rt[q] /\ (nt[p] = nt[q] => p = q)

TokenInv == UnstoredIsPrivate /\ StoredRefreshTokenIsCurrent

\* The variables that TokenInv reads.
LEMMA TokenTypes ==
  ASSUME TypeOK
  PROVE  /\ pc \in [Procs -> PCs]
         /\ rt \in [Procs -> RefreshTokens \cup {None}]
         /\ nt \in [Procs -> RefreshTokens \cup {None}]
         /\ refresh \in RefreshTokens \cup {None}
         /\ spent \subseteq RefreshTokens /\ lost \subseteq RefreshTokens
         /\ None \notin RefreshTokens
         /\ Calls \subseteq Procs /\ Logins \subseteq Procs
         /\ Received \subseteq Holding /\ "idp" \in Holding /\ "idp" \notin Received
  BY NoneAssumption DEF TypeOK, ProcsType, MemType, RedisType, IdpType, Procs, Received, Holding

\* An execution moves without using a token: it may store the one it has
\* received, or forget its tokens, and then counts as lost what it alone could
\* have replaced.
LEMMA QuietMove ==
  ASSUME TypeOK, TokenInv, NEW p \in Procs, NEW q,
         q # "idp", pc' = [pc EXCEPT ![p] = q], UNCHANGED spent, lost \subseteq lost',
         \/ UNCHANGED <<rt, nt>> /\ (pc[p] \in Received => q \in Received)
            /\ (UNCHANGED refresh \/ refresh' = None)
         \/ /\ rt' = [rt EXCEPT ![p] = None] /\ nt' = [nt EXCEPT ![p] = None]
            /\ \/ UNCHANGED refresh /\ (pc[p] \in Received /\ nt[p] # None /\ rt[p] \in spent
                                          => rt[p] \in lost')
               \/ refresh' = nt[p]
  PROVE  TokenInv'
  <1> USE TokenTypes
  <1>1. /\ \A s \in Procs \ {p} : pc'[s] = pc[s] /\ rt'[s] = rt[s] /\ nt'[s] = nt[s]
        /\ pc'[p] = q /\ rt'[p] \in {rt[p], None} /\ nt'[p] \in {nt[p], None}
    OBVIOUS
  <1>2. UnstoredIsPrivate'
    <2>1. \A s \in Procs : nt'[s] # None => nt[s] # None /\ nt'[s] = nt[s]
      BY <1>1
    <2>2. \A s \in Procs : rt'[s] \in {rt[s], None}
      BY <1>1
    <2>3. \A s \in Procs : nt'[s] # None => nt'[s] # refresh'
      BY <1>1, <2>1 DEF TokenInv, UnstoredIsPrivate
    <2> QED BY <2>1, <2>2, <2>3 DEF TokenInv, UnstoredIsPrivate
  <1>4. StoredRefreshTokenIsCurrent'
    <2> SUFFICES ASSUME refresh' \in spent, refresh' \notin lost'
                 PROVE  \E c \in Calls : pc'[c] \in Received /\ rt'[c] = refresh' /\ nt'[c] # None
      BY DEF StoredRefreshTokenIsCurrent, Received
    <2>1. refresh' = refresh /\ refresh' # nt[p]
      <3>1. nt[p] \notin spent
        BY DEF TokenInv, UnstoredIsPrivate
      <3> QED BY <3>1
    <2>2. PICK c \in Calls : pc[c] \in Received /\ rt[c] = refresh /\ nt[c] # None
      BY <2>1 DEF TokenInv, StoredRefreshTokenIsCurrent, Received
    <2>3. CASE c # p
      BY <1>1, <2>1, <2>2, <2>3
    <2>4. CASE c = p
      <3>1. CASE UNCHANGED <<rt, nt>> /\ (pc[p] \in Received => q \in Received)
        BY <1>1, <2>1, <2>2, <2>4, <3>1
      <3>2. CASE pc[p] \in Received /\ nt[p] # None /\ rt[p] \in spent => rt[p] \in lost'
        BY <2>1, <2>2, <2>4, <3>2
      <3> QED BY <2>1, <3>1, <3>2
    <2> QED BY <2>3, <2>4
  <1> QED BY <1>2, <1>4 DEF TokenInv

\* An execution that is not between its exchange and its store.
LEMMA QuietHelpers ==
  ASSUME TypeOK, TokenInv, NEW p \in Procs, UNCHANGED <<refresh, spent>>, lost \subseteq lost',
         pc[p] \notin Received \/ nt[p] = None \/ (rt[p] \in spent => rt[p] \in lost')
  PROVE  /\ \A q : /\ q # "idp" /\ (pc[p] \in Received => q \in Received)
                   /\ pc' = [pc EXCEPT ![p] = q] /\ UNCHANGED <<rt, nt>>
                   => TokenInv'
         /\ \A q : q # "idp" /\ Step(p, q) /\ Forget(p) => TokenInv'
         /\ \A r : Finish(p, r) => TokenInv'
  <1>1. ASSUME NEW q, q # "idp", pc[p] \in Received => q \in Received,
               pc' = [pc EXCEPT ![p] = q], UNCHANGED <<rt, nt>>
        PROVE  TokenInv'
    BY <1>1, QuietMove
  <1>2. ASSUME NEW q, q # "idp", Step(p, q), Forget(p) PROVE TokenInv'
    BY <1>2, QuietMove DEF Step, Forget
  <1>3. ASSUME NEW r, Finish(p, r) PROVE TokenInv'
    <2>1. Step(p, "idle") /\ Forget(p)
      BY <1>3 DEF Finish
    <2> QED BY <1>2, <2>1
  <1> QED BY <1>1, <1>2, <1>3

\* A call reads the stored token.
LEMMA ReadsToken ==
  ASSUME TypeOK, TokenInv, NEW c \in Calls, GetRefresh(c)
  PROVE  TokenInv'
  <1> USE TokenTypes
  <1>0. pc[c] = "getRefresh" /\ UNCHANGED <<nt, refresh, spent, lost>> /\ "getRefresh" \notin Received
    BY DEF GetRefresh, redis, idp, Received
  <1>1. CASE refresh = None
    <2>1. Step(c, "relGet") /\ UNCHANGED rt
      BY <1>1 DEF GetRefresh
    <2> QED BY <1>0, <2>1, QuietHelpers DEF Step
  <1>2. CASE refresh # None
    <2>1. pc' = [pc EXCEPT ![c] = "idp"] /\ rt' = [rt EXCEPT ![c] = refresh]
      BY <1>2 DEF GetRefresh, Step
    <2>2. UnstoredIsPrivate'
      BY <1>0, <2>1 DEF TokenInv, UnstoredIsPrivate
    <2>3. \A d \in Calls \ {c} : pc'[d] = pc[d] /\ rt'[d] = rt[d]
      BY <2>1
    <2>4. StoredRefreshTokenIsCurrent'
      BY <1>0, <2>3 DEF TokenInv, StoredRefreshTokenIsCurrent, Received
    <2> QED BY <2>2, <2>4 DEF TokenInv
  <1> QED BY <1>1, <1>2

\* The IdP rotates the token presented: from then on its successor is on its
\* way to the store.
LEMMA Rotates ==
  ASSUME TypeOK, TokenInv, NEW c \in Calls, IdpExchange(c)
  PROVE  TokenInv'
  <1> USE TokenTypes
  <1>0. /\ pc[c] = "idp" /\ rt[c] \notin spent /\ rt[c] # None
        /\ pc' = [pc EXCEPT ![c] = "answer"] /\ UNCHANGED <<rt, refresh>>
    BY DEF IdpExchange, redis, TypeOK, PresentsType
  <1>2. CASE UNCHANGED <<nt, idp>>
    BY <1>0, <1>2, QuietHelpers DEF idp, Received
  <1>3. ASSUME NEW f \in RefreshTokens, Fresh(f), nt' = [nt EXCEPT ![c] = f],
               spent' = (spent \ {f}) \cup {rt[c]}, lost' = lost \ {f}
        PROVE  TokenInv'
    <2>1. f # refresh /\ \A p \in Procs : f # rt[p] /\ f # nt[p]
      BY <1>3 DEF Fresh
    <2>2. UnstoredIsPrivate'
      <3>1. \A p \in Procs : nt[p] # None => nt[p] # rt[c]
        BY DEF TokenInv, UnstoredIsPrivate
      <3> QED BY <1>0, <1>3, <2>1, <3>1 DEF TokenInv, UnstoredIsPrivate
    <2>3. StoredRefreshTokenIsCurrent'
      <3>1. CASE refresh = rt[c]
        <4>1. pc'[c] \in Received /\ rt'[c] = refresh' /\ nt'[c] # None
          BY <1>0, <1>3, <3>1 DEF Received
        <4> QED BY <4>1 DEF StoredRefreshTokenIsCurrent, Received
      <3>2. CASE refresh # rt[c]
        <4>1. refresh \in spent' => refresh \in spent
          BY <1>3, <3>2
        <4>2. \A d \in Calls \ {c} : pc'[d] = pc[d] /\ rt'[d] = rt[d] /\ nt'[d] = nt[d]
          BY <1>0, <1>3
        <4>3. pc[c] \notin Received
          BY <1>0
        <4>4. refresh \in lost => refresh \in lost'
          BY <1>3, <2>1
        <4> QED
          BY <1>0, <4>1, <4>2, <4>3, <4>4
             DEF TokenInv, StoredRefreshTokenIsCurrent, Received
      <3> QED BY <3>1, <3>2
    <2> QED BY <2>2, <2>3 DEF TokenInv
  <1> QED BY <1>2, <1>3 DEF IdpExchange

\* A login receives a token that nobody knows.
LEMMA LogsIn ==
  ASSUME TypeOK, TokenInv, NEW l \in Logins, LoginExchange(l)
  PROVE  TokenInv'
  <1> USE TokenTypes
  <1>0. /\ pc[l] = "idle" /\ pc' = [pc EXCEPT ![l] = "work"] /\ UNCHANGED <<rt, refresh>>
        /\ l \notin Calls
    BY NoneAssumption DEF LoginExchange, redis, Step
  <1>1. CASE UNCHANGED <<nt, idp>>
    BY <1>0, <1>1, QuietHelpers DEF idp, Received
  <1>2. ASSUME NEW f \in RefreshTokens, Fresh(f), nt' = [nt EXCEPT ![l] = f],
               spent' = spent \ {f}, lost' = lost \ {f}
        PROVE  TokenInv'
    <2>1. f # refresh /\ \A p \in Procs : f # rt[p] /\ f # nt[p]
      BY <1>2 DEF Fresh
    <2>2. UnstoredIsPrivate'
      BY <1>0, <1>2, <2>1 DEF TokenInv, UnstoredIsPrivate
    <2>4. StoredRefreshTokenIsCurrent'
      <3>1. \A c \in Calls : pc'[c] = pc[c] /\ nt'[c] = nt[c]
        BY <1>0, <1>2
      <3> QED BY <1>0, <1>2, <2>1, <3>1 DEF TokenInv, StoredRefreshTokenIsCurrent
    <2> QED BY <2>2, <2>4 DEF TokenInv
  <1> QED BY <1>1, <1>2 DEF LoginExchange

\* The tokens received are stored, or lost on the way.
LEMMA Stores ==
  ASSUME TypeOK, TokenInv, NEW p \in Procs,
         StoreAccess(p) \/ StoreRefresh(p) \/ StoreFails(p)
  PROVE  TokenInv'
  <1> USE TokenTypes
  <1>1. ASSUME NEW q, Step(p, q), Forget(p), q # "idp", UNCHANGED spent, lost \subseteq lost',
               refresh' = nt[p] \/
                 (UNCHANGED refresh /\ (nt[p] = None \/ (rt[p] \in spent => rt[p] \in lost')))
        PROVE  TokenInv'
    BY <1>1, QuietMove DEF Step, Forget
  <1>2. StoreDone(p) => \E q : q # "idp" /\ Step(p, q) /\ Forget(p)
    BY DEF StoreDone, Finish
  <1>3. CASE StoreAccess(p)
    <2>1. UNCHANGED <<refresh, spent, lost>> /\ pc[p] = "setAccess"
      BY <1>3 DEF StoreAccess, idp
    <2>2. CASE nt[p] = None
      BY <1>1, <1>2, <1>3, <2>1, <2>2 DEF StoreAccess
    <2>3. CASE nt[p] # None
      <3>1. pc' = [pc EXCEPT ![p] = "setRefresh"] /\ UNCHANGED <<rt, nt>>
        BY <1>3, <2>3 DEF StoreAccess, Step, mem
      <3> QED BY <2>1, <3>1, QuietMove DEF Received
    <2> QED BY <2>2, <2>3
  <1>4. CASE StoreRefresh(p)
    BY <1>1, <1>2, <1>4 DEF StoreRefresh, idp
  <1>5. CASE StoreFails(p)
    <2>1. \E q : q # "idp" /\ Step(p, q) /\ Forget(p)
      BY <1>5 DEF StoreFails, Finish
    <2>2. /\ UNCHANGED spent /\ lost \subseteq lost'
          /\ \/ refresh' = nt[p]
             \/ UNCHANGED refresh /\ (nt[p] = None \/ (rt[p] \in spent => rt[p] \in lost'))
      BY <1>5 DEF StoreFails, Lose, idp
    <2> QED BY <1>1, <2>1, <2>2
  <1> QED BY <1>3, <1>4, <1>5

\* Every action.
LEMMA TokenNext ==
  ASSUME TypeOK, TokenInv, [Next]_vars
  PROVE  TokenInv'
  <1> USE TokenTypes
  <1>1. ASSUME NEW c \in Calls,
               \/ Request(c) \/ GetAccess(c) \/ AcquireLock(c) \/ IdpRefuse(c)
               \/ ReleaseGet(c) \/ ReleaseDel(c) \/ Wake(c)
               \/ ReadFails(c) \/ AcquireLockFails(c) \/ ReleaseDelFails(c)
        PROVE  TokenInv'
    <2>1. UNCHANGED <<refresh, spent, lost>> /\ pc[c] \notin Received
      BY <1>1 DEF Request, GetAccess, AcquireLock, IdpRefuse, ReleaseGet, ReleaseDel, Wake,
                  ReadFails, AcquireLockFails, ReleaseDelFails, redis, idp, Received
    <2>2. \/ \E r : Finish(c, r)
          \/ \E q : q # "idp" /\ Step(c, q) /\ (UNCHANGED <<rt, nt>> \/ Forget(c))
      BY <1>1 DEF Request, GetAccess, AcquireLock, IdpRefuse, ReleaseGet, ReleaseDel, Wake,
                  ReadFails, AcquireLockFails, ReleaseDelFails, mem
    <2> QED BY <2>1, <2>2, QuietHelpers DEF Step
  <1>2. ASSUME NEW c \in Calls, Poll(c) PROVE TokenInv'
    <2>1. UNCHANGED <<refresh, spent, lost>> /\ pc[c] \notin Received
      BY <1>2 DEF Poll, redis, idp, Received
    <2>2. CASE Stored(access)
      BY <1>2, <2>1, <2>2, QuietHelpers DEF Poll
    <2>3. CASE ~Stored(access)
      BY <1>2, <2>1, <2>3, QuietHelpers DEF Poll, mem
    <2> QED BY <2>2, <2>3
  <1>3. ASSUME NEW c \in Calls, ReceiveTokenSet(c) PROVE TokenInv'
    <2>1. UNCHANGED <<refresh, spent, lost, rt, nt>> /\ pc' = [pc EXCEPT ![c] = "setAccess"]
      BY <1>3 DEF ReceiveTokenSet, redis, idp, mem, Step
    <2> QED BY <2>1, QuietMove DEF Received
  <1>4. ASSUME NEW c \in Calls, IdpUnreachable(c) PROVE TokenInv'
    BY <1>4, QuietHelpers DEF IdpUnreachable, redis, Lose
  <1>5. ASSUME NEW l \in Logins, LoginAccepted(l) PROVE TokenInv'
    BY <1>5, QuietHelpers DEF LoginAccepted, redis, idp, mem, Step, Received
  <1>6. ASSUME NEW l \in Logins, LoginRefused(l) PROVE TokenInv'
    BY <1>6, QuietHelpers DEF LoginRefused, redis, idp, Received
  <1>7. ASSUME NEW p \in Procs, Crash(p) PROVE TokenInv'
    BY <1>7, QuietHelpers DEF Crash, redis, Lose
  <1>8. CASE RefreshExpires
    <2>1. refresh' = None /\ UNCHANGED <<pc, rt, nt, spent, lost>>
      BY <1>8 DEF RefreshExpires, procs, mem, idp
    <2> QED BY <2>1 DEF TokenInv, UnstoredIsPrivate, StoredRefreshTokenIsCurrent
  <1>9. CASE Tick \/ DeleteLock \/ DeleteAccess \/ UNCHANGED vars
    <2>1. UNCHANGED <<pc, rt, nt, refresh, spent, lost>>
      BY <1>9 DEF Tick, DeleteLock, DeleteAccess, vars, procs, mem, redis, idp
    <2> QED BY <2>1 DEF TokenInv, UnstoredIsPrivate, StoredRefreshTokenIsCurrent
  <1> QED
    BY <1>1, <1>2, <1>3, <1>4, <1>5, <1>6, <1>7, <1>8, <1>9, ReadsToken, Rotates, LogsIn, Stores
       DEF Next, CallStep, CallFails, LoginStep

\* What is received and what is stored.
LEMMA TokenInvariance == Spec => []TokenInv
  <1>1. Init => TokenInv
    BY NoneAssumption
       DEF Init, TokenInv, UnstoredIsPrivate, StoredRefreshTokenIsCurrent, Procs
  <1>2. TypeOK /\ TokenInv /\ [Next]_vars => TokenInv'
    BY TokenNext
  <1> QED BY <1>1, <1>2, TypeCorrect, PTL DEF Spec

\* Whatever the TTL of the lock and whoever deletes it, the refresh token that
\* is stored can be used, or the one that replaces it is on its way to the
\* store, or was lost (refresh, callback, setToken, deletePattern).
THEOREM StoredTokenIsCurrent == Spec => []StoredRefreshTokenIsCurrent
  <1>1. TokenInv => StoredRefreshTokenIsCurrent
    BY DEF TokenInv
  <1> QED BY <1>1, TokenInvariance, PTL
===========================================================================
