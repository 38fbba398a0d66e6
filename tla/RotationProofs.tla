--------------------------- MODULE RotationProofs ---------------------------
(***************************************************************************)
(* AccessTokenRefresh implements TokenRotation: under the lock, the        *)
(* refresh token of an account is a chain of tokens.  Every step is first  *)
(* summed up by what it does to the tokens (TokenEffects); that effect     *)
(* keeps the invariants the mapping needs, the absence of replays among    *)
(* them, and is a step of the chain.                                       *)
(***************************************************************************)
EXTENDS RefreshTokenProofs

---------------------------------------------------------------------------
(* Where the tokens are *)

\* A call in the locked section stays exposed until it leaves it.
ExposureGrows == Exposed \subseteq exposed' /\ exposed' \subseteq Calls

\* From the reading of the stored token to the store of its successor.
Presenting == Received \cup {"idp"}

\* An execution knows tokens between those two moments only; it has one to
\* store when it is about to store one; and the token it got no successor for
\* has not been replaced, unless a deletion let another call present it.
Carries(p) ==
  /\ p \in Logins => rt[p] = None
  /\ p \in Calls =>
       /\ rt[p] # None <=> pc[p] \in Presenting
       /\ nt[p] # None => pc[p] \in Received
       /\ pc[p] \in Received /\ nt[p] = None => rt[p] \notin spent \/ p \in exposed
  /\ pc[p] = "idle" => nt[p] = None
  /\ pc[p] = "setRefresh" => nt[p] # None

CarryInv == \A p \in Procs : Carries(p)

---------------------------------------------------------------------------
(* What a step does to the tokens *)

\* An execution goes on with the tokens it has.
Moves(p, q) ==
  /\ pc' = [pc EXCEPT ![p] = q]
  /\ UNCHANGED <<rt, nt, refresh, spent, lost>>
  /\ ExposureGrows
  /\ q # "idle"
  /\ q = "setRefresh" => nt[p] # None
  /\ p \in Calls =>
       \/ {pc[p], q} \subseteq Received
       \/ {pc[p], q} \cap Presenting = {}
       \/ pc[p] = "idp" /\ q = "answer" /\ rt[p] \notin spent

\* It forgets them: there was none to store, or it is lost, or it is stored.
Ends(p, q) ==
  /\ pc' = [pc EXCEPT ![p] = q]
  /\ q \notin Presenting
  /\ rt' = [rt EXCEPT ![p] = None]
  /\ nt' = [nt EXCEPT ![p] = None]
  /\ UNCHANGED <<spent, exposed>>
  /\ \/ nt[p] = None /\ UNCHANGED <<refresh, lost>>
     \/ nt[p] # None /\ UNCHANGED refresh /\ lost' = lost \cup ({rt[p]} \cap spent)
     \/ nt[p] # None /\ refresh' = nt[p] /\ UNCHANGED lost

\* A call reads the stored token.
Takes(c) ==
  /\ pc[c] = "getRefresh"
  /\ pc' = [pc EXCEPT ![c] = "idp"]
  /\ refresh # None
  /\ rt' = [rt EXCEPT ![c] = refresh]
  /\ UNCHANGED <<nt, refresh, spent, lost, exposed>>

\* The IdP replaces the token a call presents.
Replaces(c, f) ==
  /\ pc[c] = "idp"
  /\ rt[c] \notin spent
  /\ Fresh(f)
  /\ pc' = [pc EXCEPT ![c] = "answer"]
  /\ nt' = [nt EXCEPT ![c] = f]
  /\ spent' = (spent \ {f}) \cup {rt[c]}
  /\ lost' = lost \ {f}
  /\ UNCHANGED <<rt, refresh, exposed>>

\* The IdP gives a token to a login.
Gives(l, f) ==
  /\ pc[l] = "idle"
  /\ Fresh(f)
  /\ pc' = [pc EXCEPT ![l] = "work"]
  /\ nt' = [nt EXCEPT ![l] = f]
  /\ spent' = spent \ {f}
  /\ lost' = lost \ {f}
  /\ UNCHANGED <<rt, refresh, exposed>>

\* Time passes, the lock is deleted, or the stored token expires.
Rests ==
  /\ UNCHANGED <<pc, rt, nt, spent, lost>>
  /\ \/ UNCHANGED refresh /\ ExposureGrows
     \/ refresh # None /\ refresh' = None /\ UNCHANGED exposed

TokenEffect ==
  \/ \E p \in Procs, q \in PCs : Moves(p, q) \/ Ends(p, q)
  \/ \E c \in Calls : Takes(c) \/ \E f \in RefreshTokens : Replaces(c, f)
  \/ \E l \in Logins, f \in RefreshTokens : Gives(l, f)
  \/ Rests

\* An execution that ends, or goes on to release the lock.
LEMMA EndsEffect ==
  ASSUME NEW p \in Procs, UNCHANGED <<spent, exposed>>,
         \/ nt[p] = None /\ UNCHANGED <<refresh, lost>>
         \/ nt[p] # None /\ UNCHANGED refresh /\ lost' = lost \cup ({rt[p]} \cap spent)
         \/ nt[p] # None /\ refresh' = nt[p] /\ UNCHANGED lost
  PROVE  /\ \A r : Finish(p, r) => TokenEffect
         /\ Step(p, "relGet") /\ Forget(p) => TokenEffect
         /\ StoreDone(p) => TokenEffect
  <1>1. "idle" \in PCs \ Presenting /\ "relGet" \in PCs \ Presenting
    BY DEF PCs, Holding, Presenting, Received
  <1>2. ASSUME NEW q \in PCs \ Presenting, Step(p, q), Forget(p) PROVE TokenEffect
    <2>1. Ends(p, q)
      BY <1>2 DEF Ends, Step, Forget
    <2> QED BY <2>1 DEF TokenEffect
  <1>3. ASSUME NEW r, Finish(p, r) PROVE TokenEffect
    <2>1. Step(p, "idle") /\ Forget(p)
      BY <1>3 DEF Finish
    <2> QED BY <1>1, <1>2, <2>1
  <1>4. Step(p, "relGet") /\ Forget(p) => TokenEffect
    BY <1>1, <1>2
  <1> QED BY <1>3, <1>4 DEF StoreDone

\* Every step has one of these effects.
LEMMA TokenEffects ==
  ASSUME TypeOK, CarryInv, [Next]_vars
  PROVE  TokenEffect
  <1> USE TokenTypes
  <1>0. \A p \in Procs : Carries(p)
    BY DEF CarryInv
  <1>a. UNCHANGED exposed => ExposureGrows
    BY DEF ExposureGrows, Exposed, TypeOK, RedisType
  <1>1. ASSUME NEW c \in Calls,
               \/ Request(c) \/ AcquireLock(c)
               \/ GetAccess(c) /\ ~Stored(access)
               \/ GetRefresh(c) /\ refresh = None
               \/ ReleaseGet(c) /\ lock.owner = c
               \/ Poll(c) /\ ~Stored(access)
               \/ Wake(c) /\ retries[c] > 0
        PROVE  TokenEffect
    <2> DEFINE Others == {"getAccess", "lock", "poll", "getRefresh", "relGet", "relDel", "sleep"}
    <2>1. PICK q \in Others : /\ pc' = [pc EXCEPT ![c] = q]
                             /\ UNCHANGED <<rt, nt, refresh, spent, lost>>
      BY <1>1 DEF Request, AcquireLock, GetAccess, GetRefresh, ReleaseGet, Poll, Wake,
                  Step, mem, redis, idp
    <2>2. pc[c] \in Others \cup {"idle"}
      BY <1>1 DEF Request, AcquireLock, GetAccess, GetRefresh, ReleaseGet, Poll, Wake
    <2>3. Others \subseteq PCs /\ (Others \cup {"idle"}) \cap Presenting = {} /\ "idle" \notin Others
      BY DEF PCs, Holding, Presenting, Received
    <2>4. ExposureGrows
      <3>1. CASE AcquireLock(c) /\ ~Stored(lock)
        BY <3>1 DEF AcquireLock, Enter, ExposureGrows, Exposed, TypeOK, RedisType
      <3>2. CASE ~(AcquireLock(c) /\ ~Stored(lock))
        BY <1>1, <1>a, <3>2 DEF Request, AcquireLock, GetAccess, GetRefresh, ReleaseGet, Poll,
                                Wake, redis
      <3> QED BY <3>1, <3>2
    <2>5. Moves(c, q)
      BY <2>1, <2>2, <2>3, <2>4 DEF Moves, Presenting, Received
    <2> QED BY <2>3, <2>5 DEF TokenEffect
  <1>2. ASSUME NEW c \in Calls,
               \/ GetAccess(c) /\ Stored(access)
               \/ ReleaseGet(c) /\ lock.owner # c
               \/ Poll(c) /\ Stored(access)
               \/ Wake(c) /\ ~(retries[c] > 0)
               \/ ReleaseDel(c) \/ ReadFails(c) \/ AcquireLockFails(c) \/ ReleaseDelFails(c)
               \/ IdpRefuse(c)
        PROVE  TokenEffect
    <2>1. UNCHANGED <<refresh, spent, lost, exposed>> /\ pc[c] \notin Received
      BY <1>2 DEF GetAccess, ReleaseGet, Poll, Wake, ReleaseDel, ReadFails, AcquireLockFails,
                  ReleaseDelFails, IdpRefuse, redis, idp, Received
    <2>2. nt[c] = None
      BY <1>0, <2>1 DEF Carries
    <2>3. (\E r : Finish(c, r)) \/ (Step(c, "relGet") /\ Forget(c))
      BY <1>2 DEF GetAccess, ReleaseGet, Poll, Wake, ReleaseDel, ReadFails, AcquireLockFails,
                  ReleaseDelFails, IdpRefuse
    <2> QED BY <2>1, <2>2, <2>3, EndsEffect
  <1>3. ASSUME NEW c \in Calls, GetRefresh(c), refresh # None PROVE TokenEffect
    <2>1. Takes(c)
      BY <1>3 DEF GetRefresh, Takes, Step, redis, idp
    <2> QED BY <2>1 DEF TokenEffect
  <1>4. ASSUME NEW c \in Calls, IdpExchange(c) PROVE TokenEffect
    <2>1. CASE UNCHANGED <<nt, idp>>
      <3>1. Moves(c, "answer")
        BY <1>4, <1>a, <2>1 DEF IdpExchange, Moves, redis, idp
      <3> QED BY <3>1 DEF TokenEffect, PCs, Holding
    <2>2. ASSUME NEW f \in RefreshTokens, Fresh(f), nt' = [nt EXCEPT ![c] = f],
                 spent' = (spent \ {f}) \cup {rt[c]}, lost' = lost \ {f}
          PROVE  TokenEffect
      <3>1. Replaces(c, f)
        BY <1>4, <2>2 DEF IdpExchange, Replaces, redis
      <3> QED BY <3>1 DEF TokenEffect
    <2> QED BY <1>4, <2>1, <2>2 DEF IdpExchange
  <1>5. ASSUME NEW c \in Calls, ReceiveTokenSet(c) PROVE TokenEffect
    <2>1. Moves(c, "setAccess")
      BY <1>5, <1>a DEF ReceiveTokenSet, Moves, Step, mem, redis, idp, Received
    <2> QED BY <2>1 DEF TokenEffect, PCs, Holding
  <1>6. ASSUME NEW c \in Calls, IdpUnreachable(c) PROVE TokenEffect
    BY <1>6, EndsEffect DEF IdpUnreachable, Lose, redis
  <1>7. ASSUME NEW p \in Procs, StoreAccess(p) PROVE TokenEffect
    <2>1. CASE nt[p] = None
      BY <1>7, <2>1, EndsEffect DEF StoreAccess, idp
    <2>2. CASE nt[p] # None
      <3>1. Moves(p, "setRefresh")
        BY <1>7, <1>a, <2>2 DEF StoreAccess, Moves, Step, mem, idp, Received
      <3> QED BY <3>1 DEF TokenEffect, PCs, Holding
    <2> QED BY <2>1, <2>2
  <1>8. ASSUME NEW p \in Procs, StoreRefresh(p) PROVE TokenEffect
    <2>1. nt[p] # None
      BY <1>0, <1>8 DEF StoreRefresh, Carries
    <2> QED BY <1>8, <2>1, EndsEffect DEF StoreRefresh, idp
  <1>9. ASSUME NEW p \in Procs, StoreFails(p) PROVE TokenEffect
    <2>1. pc[p] = "setRefresh" => nt[p] # None
      BY <1>0 DEF Carries
    <2>2. /\ UNCHANGED <<spent, exposed>>
          /\ \/ nt[p] = None /\ UNCHANGED <<refresh, lost>>
             \/ nt[p] # None /\ UNCHANGED refresh /\ lost' = lost \cup ({rt[p]} \cap spent)
             \/ nt[p] # None /\ refresh' = nt[p] /\ UNCHANGED lost
      BY <1>9, <2>1 DEF StoreFails, Lose, idp
    <2>3. (Step(p, "relGet") /\ Forget(p)) \/ Finish(p, None)
      BY <1>9 DEF StoreFails
    <2> QED BY <2>2, <2>3, EndsEffect
  <1>10. ASSUME NEW l \in Logins, LoginExchange(l) PROVE TokenEffect
    <2>1. CASE UNCHANGED <<nt, idp>>
      <3>1. Moves(l, "work")
        BY <1>10, <1>a, <2>1, NoneAssumption DEF LoginExchange, Moves, Step, redis, idp
      <3> QED BY <3>1 DEF TokenEffect, PCs
    <2>2. ASSUME NEW f \in RefreshTokens, Fresh(f), nt' = [nt EXCEPT ![l] = f],
                 spent' = spent \ {f}, lost' = lost \ {f}
          PROVE  TokenEffect
      <3>1. Gives(l, f)
        BY <1>10, <2>2 DEF LoginExchange, Gives, Step, redis
      <3> QED BY <3>1 DEF TokenEffect
    <2> QED BY <1>10, <2>1, <2>2 DEF LoginExchange
  <1>11. ASSUME NEW l \in Logins, LoginAccepted(l) PROVE TokenEffect
    <2>1. Moves(l, "setAccess")
      BY <1>11, <1>a, NoneAssumption DEF LoginAccepted, Moves, Step, mem, redis, idp
    <2> QED BY <2>1 DEF TokenEffect, PCs, Holding
  <1>12. ASSUME NEW l \in Logins, LoginRefused(l) PROVE TokenEffect
    <2>1. lost' = lost \cup ({rt[l]} \cap spent) /\ UNCHANGED <<refresh, spent, lost, exposed>>
      BY <1>0, <1>12 DEF LoginRefused, Carries, redis, idp
    <2> QED BY <1>12, <2>1, EndsEffect DEF LoginRefused
  <1>13. ASSUME NEW p \in Procs, Crash(p) PROVE TokenEffect
    BY <1>13, EndsEffect DEF Crash, Lose, redis
  <1>14. CASE RefreshExpires \/ DeleteLock \/ DeleteAccess \/ Tick \/ UNCHANGED vars
    <2>1. DeleteLock => ExposureGrows
      BY DEF DeleteLock, ExposureGrows, Exposed, TypeOK, RedisType
    <2>2. Rests
      BY <1>14, <1>a, <2>1
         DEF Rests, RefreshExpires, DeleteLock, DeleteAccess, Tick, vars, procs, mem, redis, idp
    <2> QED BY <2>2 DEF TokenEffect
  <1> QED
    BY <1>1, <1>2, <1>3, <1>4, <1>5, <1>6, <1>7, <1>8, <1>9, <1>10, <1>11, <1>12, <1>13, <1>14
       DEF Next, CallStep, CallFails, LoginStep

\* Whatever its effect, a step keeps what an execution knows of the tokens.
LEMMA EffectCarries ==
  ASSUME TypeOK, OneRefresher, CarryInv, TokenEffect
  PROVE  CarryInv'
  <1> USE TokenTypes
  <1>0. \A p \in Procs : Carries(p)
    BY DEF CarryInv
  <1>a. ASSUME ExposureGrows
        PROVE  \A c \in Calls : pc[c] \in Received /\ c \in exposed => c \in exposed'
    BY <1>a DEF ExposureGrows, Exposed
  <1>1. ASSUME NEW p \in Procs, NEW q \in PCs, Moves(p, q) PROVE CarryInv'
    <2> SUFFICES ASSUME NEW s \in Procs PROVE Carries(s)'
      BY DEF CarryInv
    <2>1. CASE s = p
      <3>1. pc'[s] = q
        BY <1>1, <2>1 DEF Moves
      <3> QED BY <1>0, <1>1, <1>a, <2>1, <3>1 DEF Carries, Moves, Presenting, Received
    <2>2. CASE s # p
      <3>1. pc'[s] = pc[s]
        BY <1>1, <2>2 DEF Moves
      <3> QED BY <1>0, <1>1, <1>a, <3>1 DEF Carries, Moves
    <2> QED BY <2>1, <2>2
  <1>2. ASSUME NEW p \in Procs, NEW q \in PCs, Ends(p, q) PROVE CarryInv'
    <2> SUFFICES ASSUME NEW s \in Procs PROVE Carries(s)'
      BY DEF CarryInv
    <2>1. CASE s = p
      <3>1. pc'[s] = q /\ rt'[s] = None /\ nt'[s] = None
        BY <1>2, <2>1 DEF Ends
      <3> QED BY <1>2, <3>1 DEF Carries, Ends, Presenting, Received
    <2>2. CASE s # p
      <3>1. pc'[s] = pc[s] /\ rt'[s] = rt[s] /\ nt'[s] = nt[s] /\ spent' = spent
            /\ exposed' = exposed
        BY <1>2, <2>2 DEF Ends
      <3> QED BY <1>0, <3>1 DEF Carries
    <2> QED BY <2>1, <2>2
  <1>3. ASSUME NEW c \in Calls, Takes(c) PROVE CarryInv'
    <2> SUFFICES ASSUME NEW s \in Procs PROVE Carries(s)'
      BY DEF CarryInv
    <2>1. CASE s = c
      <3>1. pc'[s] = "idp" /\ rt'[s] # None /\ nt'[s] = nt[s] /\ s \notin Logins
        BY <1>3, <2>1, NoneAssumption DEF Takes
      <3>2. nt[s] = None
        BY <1>0, <1>3, <2>1 DEF Carries, Takes, Received
      <3> QED BY <3>1, <3>2 DEF Carries, Presenting
    <2>2. CASE s # c
      <3>1. pc'[s] = pc[s] /\ rt'[s] = rt[s] /\ nt'[s] = nt[s] /\ spent' = spent
            /\ exposed' = exposed
        BY <1>3, <2>2 DEF Takes
      <3> QED BY <1>0, <3>1 DEF Carries
    <2> QED BY <2>1, <2>2
  <1>4. ASSUME NEW c \in Calls, NEW f \in RefreshTokens, Replaces(c, f) PROVE CarryInv'
    <2> SUFFICES ASSUME NEW s \in Procs PROVE Carries(s)'
      BY DEF CarryInv
    <2>1. CASE s = c
      <3>1. pc'[s] = "answer" /\ rt'[s] = rt[s] /\ nt'[s] = f /\ s \notin Logins
        BY <1>4, <2>1, NoneAssumption DEF Replaces
      <3>2. rt[s] # None
        BY <1>0, <1>4, <2>1 DEF Carries, Replaces, Presenting
      <3> QED BY <3>1, <3>2 DEF Carries, Presenting, Received
    <2>2. CASE s # c
      <3>1. pc'[s] = pc[s] /\ rt'[s] = rt[s] /\ nt'[s] = nt[s]
        BY <1>4, <2>2 DEF Replaces
      <3>2. s \in Calls /\ pc[s] \in Received => s \in exposed'
        BY <1>4, <2>2 DEF Replaces, OneRefresher
      <3> QED BY <1>0, <3>1, <3>2 DEF Carries
    <2> QED BY <2>1, <2>2
  <1>5. ASSUME NEW l \in Logins, NEW f \in RefreshTokens, Gives(l, f) PROVE CarryInv'
    <2> SUFFICES ASSUME NEW s \in Procs PROVE Carries(s)'
      BY DEF CarryInv
    <2>1. CASE s = l
      <3>1. pc'[s] = "work" /\ rt'[s] = rt[s] /\ s \notin Calls
        BY <1>5, <2>1, NoneAssumption DEF Gives
      <3> QED BY <1>0, <2>1, <3>1 DEF Carries
    <2>2. CASE s # l
      <3>1. pc'[s] = pc[s] /\ rt'[s] = rt[s] /\ nt'[s] = nt[s] /\ spent' \subseteq spent
            /\ exposed' = exposed
        BY <1>5, <2>2 DEF Gives
      <3> QED BY <1>0, <3>1 DEF Carries
    <2> QED BY <2>1, <2>2
  <1>6. CASE Rests
    BY <1>0, <1>6, <1>a DEF Rests, CarryInv, Carries
  <1> QED BY <1>1, <1>2, <1>3, <1>4, <1>5, <1>6 DEF TokenEffect

\* The tokens are where the invariant of the refresh and this one say.
LEMMA CarryInvariance == LockTtlSuffices => (Spec => []CarryInv)
  <1>1. Init => CarryInv
    BY NoneAssumption DEF Init, CarryInv, Carries, Procs, Presenting, Received
  <1>2. TypeOK /\ OneRefresher /\ CarryInv /\ [Next]_vars => CarryInv'
    BY TokenEffects, EffectCarries
  <1> QED BY <1>1, <1>2, TypeCorrect, MutualExclusion, PTL DEF Spec

---------------------------------------------------------------------------
(* No replays *)

\* Whatever its effect, a step makes no call present a token that was replaced:
\* a call that is not exposed reads the stored token while nobody else presents
\* it, and nobody else replaces it meanwhile.
LEMMA EffectReplays ==
  ASSUME TypeOK, OneRefresher, TokenInv, CarryInv, NoReplay, TokenEffect
  PROVE  NoReplay'
  <1> USE TokenTypes
  <1> SUFFICES ASSUME NEW c \in Calls, pc'[c] = "idp", rt'[c] \in spent',
                      c \notin exposed'
               PROVE  rt'[c] \in lost'
    BY DEF NoReplay
  <1>0. pc[c] = "idp" /\ rt[c] \in spent => rt[c] \in lost \/ c \in Exposed
    BY DEF NoReplay, Exposed, Holding
  <1>1. ASSUME NEW p \in Procs, NEW q \in PCs, Moves(p, q) PROVE rt'[c] \in lost'
    <2>1. c # p
      BY <1>1 DEF Moves, Presenting, Received
    <2>2. pc[c] = "idp" /\ rt[c] \in spent /\ c \notin Exposed
      BY <1>1, <2>1 DEF Moves, ExposureGrows
    <2> QED BY <1>0, <1>1, <2>2 DEF Moves
  <1>2. ASSUME NEW p \in Procs, NEW q \in PCs, Ends(p, q) PROVE rt'[c] \in lost'
    <2>1. c # p
      BY <1>2 DEF Ends, Presenting
    <2>2. pc[c] = "idp" /\ rt[c] \in spent /\ c \notin Exposed /\ rt'[c] = rt[c]
      BY <1>2, <2>1 DEF Ends, Exposed
    <2> QED BY <1>0, <1>2, <2>2 DEF Ends
  <1>3. ASSUME NEW d \in Calls, Takes(d) PROVE rt'[c] \in lost'
    <2>1. CASE c = d
      <3>1. rt'[c] = refresh /\ refresh \in spent /\ pc[c] = "getRefresh" /\ c \notin exposed
        BY <1>3, <2>1 DEF Takes
      <3>2. ASSUME NEW e \in Calls, pc[e] \in Received PROVE FALSE
        BY <3>1, <3>2 DEF OneRefresher, Holding, Received
      <3> QED BY <1>3, <3>1, <3>2 DEF Takes, TokenInv, StoredRefreshTokenIsCurrent, Received
    <2>2. CASE c # d
      BY <1>0, <1>3, <2>2 DEF Takes, Exposed
    <2> QED BY <2>1, <2>2
  <1>4. ASSUME NEW d \in Calls, NEW f \in RefreshTokens, Replaces(d, f) PROVE rt'[c] \in lost'
    <2>1. c # d
      BY <1>4 DEF Replaces
    <2>2. pc[c] = "idp" /\ c \notin exposed
      BY <1>4, <2>1 DEF Replaces
    <2> QED BY <1>4, <2>1, <2>2 DEF Replaces, OneRefresher, Holding
  <1>5. ASSUME NEW l \in Logins, NEW f \in RefreshTokens, Gives(l, f) PROVE rt'[c] \in lost'
    <2>1. c # l
      BY NoneAssumption
    <2>2. pc[c] = "idp" /\ rt[c] \in spent /\ c \notin Exposed /\ rt'[c] = rt[c] /\ rt[c] # f
      BY <1>5, <2>1 DEF Gives, Fresh, Exposed
    <2> QED BY <1>0, <1>5, <2>2 DEF Gives
  <1>6. CASE Rests
    <2>1. pc[c] = "idp" /\ rt[c] \in spent /\ rt'[c] = rt[c] /\ lost' = lost
      BY <1>6 DEF Rests
    <2>2. c \notin Exposed
      BY <1>6 DEF Rests, ExposureGrows, Exposed
    <2> QED BY <1>0, <2>1, <2>2
  <1> QED BY <1>1, <1>2, <1>3, <1>4, <1>5, <1>6 DEF TokenEffect

\* If the TTL of the lock outlasts the awaits, no call presents a refresh token
\* that was replaced, however many requests, logins, failures and crashes
\* overlap, unless its successor was lost or a deletion of the lock let another
\* call refresh beside it (refreshAccessTokenWithLock, deletePattern).
THEOREM NoTokenIsReplayed == LockTtlSuffices => (Spec => []NoReplay)
  <1> SUFFICES ASSUME LockTtlSuffices PROVE Spec => []NoReplay
    OBVIOUS
  <1>1. Init => NoReplay
    BY DEF Init, NoReplay, Procs
  <1>2. /\ TypeOK /\ OneRefresher /\ TokenInv /\ CarryInv /\ NoReplay /\ [Next]_vars
        => NoReplay'
    BY TokenEffects, EffectReplays
  <1> QED
    BY <1>1, <1>2, TypeCorrect, MutualExclusion, TokenInvariance, CarryInvariance, PTL DEF Spec

---------------------------------------------------------------------------
(* The mapping *)

\* The exchange of an execution, and the executions that have one.
Exchange(p) == [by |-> p, old |-> rt[p], new |-> nt[p]]
Exchanging == {q \in Procs : rt[q] # None \/ nt[q] # None}

ChainInv == OneRefresher /\ TokenInv /\ CarryInv /\ NoReplay

\* When one execution takes, receives or forgets a token, its exchange is the
\* only one that changes.
LEMMA OneExchangeChanges ==
  ASSUME NEW p \in Procs, \A s \in Procs \ {p} : rt'[s] = rt[s] /\ nt'[s] = nt[s]
  PROVE  OpenExchanges' = (OpenExchanges \ {Exchange(p)})
                            \cup IF p \in Exchanging' THEN {Exchange(p)'} ELSE {}
  <1> DEFINE Others == {Exchange(s) : s \in Exchanging \ {p}}
  <1>1. /\ Exchanging' \ {p} = Exchanging \ {p}
        /\ \A s \in Exchanging \ {p} : Exchange(s)' = Exchange(s)
    BY DEF Exchanging, Exchange
  <1>2. OpenExchanges' = Others \cup IF p \in Exchanging' THEN {Exchange(p)'} ELSE {}
    BY <1>1 DEF OpenExchanges, Exchange, Exchanging
  <1>3. Others = OpenExchanges \ {Exchange(p)}
    <2>1. ASSUME NEW s \in Exchanging \ {p} PROVE Exchange(s) # Exchange(p)
      <3>1. Exchange(s).by # Exchange(p).by
        BY DEF Exchange
      <3> QED BY <3>1
    <2> QED BY <2>1 DEF OpenExchanges, Exchange, Exchanging
  <1> QED BY <1>2, <1>3

---------------------------------------------------------------------------
(* Every effect is a step of the chain *)

\* A token that nobody knows here is unknown in the chain.
LEMMA FreshIsUnknown ==
  ASSUME TypeOK, NEW f, Fresh(f)
  PROVE  Rotation!Unknown(f)
  BY TokenTypes DEF Fresh, Rotation!Unknown, OpenExchanges

Chain == [Rotation!Next]_(Rotation!vars)

\* An exchange that ends is stored, given up or lost.
LEMMA EndsAsChain ==
  ASSUME TypeOK, ChainInv, NEW p \in Procs, NEW q \in PCs, Ends(p, q)
  PROVE  Chain
  <1> USE TokenTypes
  <1>0. /\ \A s \in Procs \ {p} : rt'[s] = rt[s] /\ nt'[s] = nt[s]
        /\ rt'[p] = None /\ nt'[p] = None /\ UNCHANGED <<spent, exposed>>
    BY DEF Ends
  <1>1. OpenExchanges' = OpenExchanges \ {Exchange(p)}
    BY <1>0, OneExchangeChanges DEF Exchanging
  <1>2. CASE p \notin Exchanging
    <2>1. Exchange(p) \notin OpenExchanges
      BY <1>2 DEF OpenExchanges, Exchange, Exchanging
    <2>2. rt[p] = None /\ nt[p] = None
      BY <1>2 DEF Exchanging
    <2>3. UNCHANGED <<refresh, lost>>
      BY <2>2 DEF Ends
    <2> QED BY <1>0, <1>1, <2>1, <2>3 DEF Chain, Rotation!vars
  <1>3. CASE p \in Exchanging
    <2> DEFINE e == Exchange(p)
    <2>1. e \in OpenExchanges /\ e.by = p /\ e.old = rt[p] /\ e.new = nt[p]
      BY <1>3 DEF OpenExchanges, Exchange, Exchanging
    <2>2. CASE nt[p] # None /\ refresh' = nt[p] /\ UNCHANGED lost
      <3>1. nt[p] \notin spent
        BY <2>2 DEF ChainInv, TokenInv, UnstoredIsPrivate
      <3>2. Rotation!Store(e)
        BY <1>0, <1>1, <2>1, <2>2, <3>1 DEF Rotation!Store
      <3> QED BY <2>1, <3>2 DEF Chain, Rotation!Next
    <2>3. CASE nt[p] # None /\ UNCHANGED refresh /\ lost' = lost \cup ({rt[p]} \cap spent)
      <3>1. Rotation!Lose(e)
        BY <1>0, <1>1, <2>1, <2>3 DEF Rotation!Lose
      <3> QED BY <2>1, <3>1 DEF Chain, Rotation!Next
    <2>4. CASE nt[p] = None
      <3>1. rt[p] # None /\ p \in Calls /\ pc[p] \in Presenting
        BY <1>3, <2>4 DEF Exchanging, ChainInv, CarryInv, Carries, Procs
      <3>2. p \in exposed \/ (rt[p] \in spent => rt[p] \in lost)
        <4>1. pc[p] \in Received => rt[p] \notin spent \/ p \in exposed
          BY <2>4, <3>1 DEF ChainInv, CarryInv, Carries
        <4>2. pc[p] = "idp" => p \in exposed \/ (rt[p] \in spent => rt[p] \in lost)
          BY <3>1 DEF ChainInv, NoReplay
        <4> QED BY <3>1, <4>1, <4>2 DEF Presenting
      <3>3. UNCHANGED <<refresh, lost>>
        BY <2>4, <3>2 DEF Ends
      <3>4. Rotation!Keep(e)
        BY <1>0, <1>1, <2>1, <2>4, <3>2, <3>3 DEF Rotation!Keep, Rotation!Usable
      <3> QED BY <2>1, <3>4 DEF Chain, Rotation!Next
    <2> QED BY <2>2, <2>3, <2>4 DEF Ends
  <1> QED BY <1>2, <1>3

\* The stored token is taken by one call at a time, while it is usable, or by
\* calls that share it.
LEMMA TakesAsChain ==
  ASSUME TypeOK, ChainInv, NEW c \in Calls, Takes(c)
  PROVE  Chain
  <1> USE TokenTypes
  <1>1. rt[c] = None /\ nt[c] = None /\ c \in Procs /\ pc[c] \in Holding
    BY DEF Takes, ChainInv, CarryInv, Carries, Presenting, Received, Holding
  <1>2. ASSUME NEW d \in Procs, rt[d] # None PROVE {c, d} \subseteq exposed
    <2>1. d \in Calls /\ pc[d] \in Presenting /\ d # c
      BY <1>1, <1>2 DEF ChainInv, CarryInv, Carries, Procs
    <2>2. pc[d] \in Holding
      BY <2>1 DEF Presenting, Received, Holding
    <2> QED BY <1>1, <2>1, <2>2 DEF ChainInv, OneRefresher
  <1>3. Rotation!Idle(c) /\ Rotation!Alone(c)
    BY <1>1, <1>2 DEF OpenExchanges, Rotation!Idle, Rotation!Alone
  <1>4. c \in exposed \/ (refresh \in spent => refresh \in lost)
    <2>1. ASSUME NEW d \in Calls, rt[d] = refresh PROVE c \in exposed
      BY <1>2, <2>1 DEF Takes
    <2> QED BY <2>1 DEF ChainInv, TokenInv, StoredRefreshTokenIsCurrent
  <1>5. OpenExchanges' = OpenExchanges \cup {[by |-> c, old |-> refresh, new |-> None]}
    <2>1. c \in Exchanging' /\ Exchange(c)' = [by |-> c, old |-> refresh, new |-> None]
      BY <1>1 DEF Takes, Exchanging, Exchange
    <2>2. \A s \in Procs \ {c} : rt'[s] = rt[s] /\ nt'[s] = nt[s]
      BY DEF Takes
    <2>3. Exchange(c) \notin OpenExchanges
      BY <1>1 DEF OpenExchanges, Exchanging, Exchange
    <2> QED BY <1>1, <2>1, <2>2, <2>3, OneExchangeChanges
  <1>6. Rotation!Take(c)
    BY <1>3, <1>4, <1>5 DEF Takes, Rotation!Take, Rotation!Usable
  <1> QED BY <1>1, <1>6 DEF Chain, Rotation!Next

\* The IdP replaces a token, or gives a first one to a login.
LEMMA ReceivesAsChain ==
  ASSUME TypeOK, ChainInv, NEW p \in Procs, NEW f \in RefreshTokens,
         (p \in Calls /\ Replaces(p, f)) \/ (p \in Logins /\ Gives(p, f))
  PROVE  Chain
  <1> USE TokenTypes
  <1>1. Fresh(f) /\ Rotation!Unknown(f) /\ f # None
    BY FreshIsUnknown DEF Replaces, Gives
  <1>2. OpenExchanges' = (OpenExchanges \ {Exchange(p)}) \cup {[by |-> p, old |-> rt[p], new |-> f]}
    <2>1. \A s \in Procs \ {p} : rt'[s] = rt[s] /\ nt'[s] = nt[s]
      BY DEF Replaces, Gives
    <2>2. p \in Exchanging' /\ Exchange(p)' = [by |-> p, old |-> rt[p], new |-> f]
      BY <1>1 DEF Replaces, Gives, Exchanging, Exchange
    <2> QED BY <2>1, <2>2, OneExchangeChanges
  <1>3. CASE p \in Calls /\ Replaces(p, f)
    <2> DEFINE e == Exchange(p)
    <2>1. rt[p] # None /\ nt[p] = None
      BY <1>3 DEF Replaces, ChainInv, CarryInv, Carries, Presenting, Received
    <2>2. e \in OpenExchanges /\ e.old = rt[p] /\ e.new = None
      BY <2>1 DEF OpenExchanges, Exchanging, Exchange
    <2>3. [e EXCEPT !.new = f] = [by |-> p, old |-> rt[p], new |-> f]
      BY DEF Exchange
    <2>4. Rotation!Rotate(e, f)
      BY <1>1, <1>2, <1>3, <2>1, <2>2, <2>3 DEF Replaces, Rotation!Rotate
    <2> QED BY <2>2, <2>4 DEF Chain, Rotation!Next
  <1>4. CASE p \in Logins /\ Gives(p, f)
    <2>1. rt[p] = None /\ nt[p] = None
      BY <1>4 DEF Gives, ChainInv, CarryInv, Carries
    <2>2. Exchange(p) \notin OpenExchanges
      BY <2>1 DEF OpenExchanges, Exchanging, Exchange
    <2>3. Rotation!Idle(p)
      BY <2>1 DEF Rotation!Idle, OpenExchanges
    <2>4. Rotation!Issue(p, f)
      BY <1>1, <1>2, <1>4, <2>1, <2>2, <2>3 DEF Gives, Rotation!Issue
    <2> QED BY <2>4 DEF Chain, Rotation!Next
  <1> QED BY <1>3, <1>4

\* A step that leaves the tokens alone may change who is protected.
LEMMA SharesAsChain ==
  ASSUME TypeOK, ChainInv, ExposureGrows, UNCHANGED <<rt, nt, refresh, spent, lost>>
  PROVE  Chain
  <1>1. UNCHANGED OpenExchanges
    BY DEF OpenExchanges
  <1>2. ASSUME NEW e \in OpenExchanges, e.old # None, e.by \in exposed PROVE e.by \in exposed'
    <2>1. PICK p \in Procs : e = [by |-> p, old |-> rt[p], new |-> nt[p]]
      BY DEF OpenExchanges
    <2>2. p \in Calls /\ pc[p] \in Presenting
      BY <1>2, <2>1 DEF ChainInv, CarryInv, Carries, Procs
    <2>3. p \in Exposed
      BY <1>2, <2>1, <2>2 DEF Exposed, Presenting, Received, Holding
    <2> QED BY <2>1, <2>3 DEF ExposureGrows
  <1>3. Rotation!Share(exposed')
    BY <1>1, <1>2 DEF Rotation!Share
  <1>4. exposed' \in SUBSET Procs
    BY DEF ExposureGrows, Procs
  <1> QED BY <1>3, <1>4 DEF Chain, Rotation!Next

\* Every effect.
LEMMA EffectAsChain ==
  ASSUME TypeOK, ChainInv, TokenEffect
  PROVE  Chain
  <1>1. ASSUME NEW p \in Procs, NEW q \in PCs, Moves(p, q) PROVE Chain
    BY <1>1, SharesAsChain DEF Moves
  <1>2. CASE Rests
    <2>1. CASE UNCHANGED refresh /\ ExposureGrows
      BY <1>2, <2>1, SharesAsChain DEF Rests
    <2>2. CASE refresh # None /\ refresh' = None /\ UNCHANGED exposed
      <3>1. Rotation!Expire
        BY <1>2, <2>2 DEF Rests, OpenExchanges, Rotation!Expire
      <3> QED BY <3>1 DEF Chain, Rotation!Next
    <2> QED BY <1>2, <2>1, <2>2 DEF Rests
  <1> QED
    BY <1>1, <1>2, EndsAsChain, TakesAsChain, ReceivesAsChain, TokenTypes DEF TokenEffect

\* Under the condition on the lock, the refresh token of an account is a chain:
\* taken by one refresh at a time and while it is usable, replaced, and its
\* successor stored once by the execution that received it; a deletion of the
\* lock lets the calls it leaves unprotected share a token, and no others
\* (refreshAccessTokenWithLock, callback, setToken, deletePattern).
THEOREM RefreshIsARotation == LockTtlSuffices => (Spec => RotationSpec)
  <1> SUFFICES ASSUME LockTtlSuffices PROVE Spec => RotationSpec
    OBVIOUS
  <1>1. Init => Rotation!Init
    BY NoneAssumption DEF Init, Rotation!Init, OpenExchanges, Procs
  <1>2. /\ TypeOK /\ OneRefresher /\ TokenInv /\ CarryInv /\ NoReplay /\ [Next]_vars
        => [Rotation!Next]_(Rotation!vars)
    BY TokenEffects, EffectAsChain DEF ChainInv, Chain
  <1> QED
    BY <1>1, <1>2, TypeCorrect, MutualExclusion, TokenInvariance, CarryInvariance,
       NoTokenIsReplayed, PTL
       DEF Spec, RotationSpec, Rotation!Spec

---------------------------------------------------------------------------
(* What the chain promises *)

\* Typed, and no token is the absence of one.
PromiseInv ==
  /\ refresh \in RefreshTokens \cup {None}
  /\ OpenExchanges \subseteq Rotation!Exchanges
  /\ None \notin spent
  /\ Rotation!Promise

\* Each step of the chain keeps the promise.
LEMMA ChainPromises ==
  ASSUME PromiseInv, [Rotation!Next]_(Rotation!vars)
  PROVE  PromiseInv'
  <1> USE DEF PromiseInv, Rotation!Promise, Rotation!OneExchange, Rotation!PresentedIsUsable,
              Rotation!StoredIsCurrent, Rotation!Usable
  <1>1. CASE UNCHANGED Rotation!vars
    BY <1>1 DEF Rotation!vars
  <1>2. ASSUME NEW x \in Procs, Rotation!Take(x) PROVE PromiseInv'
    <2>1. [by |-> x, old |-> refresh, new |-> None] \in Rotation!Exchanges
      BY <1>2 DEF Rotation!Take, Rotation!Exchanges
    <2> QED BY <1>2, <2>1 DEF Rotation!Take, Rotation!Alone
  <1>3. ASSUME NEW x \in Procs, NEW t \in RefreshTokens, Rotation!Issue(x, t)
        PROVE  PromiseInv'
    <2>1. [by |-> x, old |-> None, new |-> t] \in Rotation!Exchanges /\ t # None
      BY NoneAssumption DEF Rotation!Exchanges
    <2> QED BY <1>3, <2>1 DEF Rotation!Issue, Rotation!Unknown
  <1>4. ASSUME NEW t \in RefreshTokens, NEW e \in OpenExchanges, Rotation!Rotate(e, t)
        PROVE  PromiseInv'
    <2> DEFINE f == [e EXCEPT !.new = t]
    <2>1. f \in Rotation!Exchanges /\ f.by = e.by /\ f.old = e.old /\ f.new = t /\ t # None
      BY NoneAssumption DEF Rotation!Exchanges
    <2> HIDE DEF f
    <2>2. /\ OpenExchanges' = (OpenExchanges \ {e}) \cup {f}
          /\ spent' = (spent \ {t}) \cup {e.old} /\ lost' = lost \ {t} /\ UNCHANGED <<refresh, exposed>>
          /\ e.old \notin spent \cup {None} /\ e.new = None
          /\ t # refresh /\ \A d \in OpenExchanges : t # d.old
      BY <1>4 DEF Rotation!Rotate, Rotation!Unknown, f
    <2> QED BY <2>1, <2>2
  <1>5. ASSUME NEW e \in OpenExchanges, Rotation!Store(e) PROVE PromiseInv'
    <2>1. e.new \in RefreshTokens \cup {None}
      BY DEF Rotation!Exchanges
    <2> QED BY <1>5, <2>1 DEF Rotation!Store
  <1>6. ASSUME NEW e \in OpenExchanges, Rotation!Keep(e) PROVE PromiseInv'
    BY <1>6 DEF Rotation!Keep
  <1>7. ASSUME NEW e \in OpenExchanges, Rotation!Lose(e) PROVE PromiseInv'
    BY <1>7 DEF Rotation!Lose
  <1>8. CASE Rotation!Expire
    BY <1>8 DEF Rotation!Expire
  <1>9. ASSUME NEW S \in SUBSET Procs, Rotation!Share(S) PROVE PromiseInv'
    BY <1>9 DEF Rotation!Share
  <1> QED
    BY <1>1, <1>2, <1>3, <1>4, <1>5, <1>6, <1>7, <1>8, <1>9 DEF Rotation!Next

\* What implementing the chain is good for: one exchange of a stored token at a
\* time, but for the calls that share it after a deletion of the lock, none of a
\* token already replaced unless its successor was lost or it is shared, and a
\* stored token that is usable or about to be replaced (refresh, setToken).
THEOREM ChainKeepsItsPromise == RotationSpec => []Rotation!Promise
  <1>1. Rotation!Init => PromiseInv
    BY DEF Rotation!Init, PromiseInv, Rotation!Promise, Rotation!OneExchange,
           Rotation!PresentedIsUsable, Rotation!StoredIsCurrent
  <1>2. PromiseInv => Rotation!Promise
    BY DEF PromiseInv
  <1> QED
    BY <1>1, <1>2, ChainPromises, PTL DEF RotationSpec, Rotation!Spec
===========================================================================
