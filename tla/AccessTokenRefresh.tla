------------------------ MODULE AccessTokenRefresh ------------------------
(***************************************************************************)
(* The stored IdP tokens of ONE account and everything that reads or       *)
(* writes them:                                                            *)
(*   - GetAccessTokenUsecase (src/token/get-access-token.usecase.ts): the  *)
(*     calls that serve the account's IdP access token, refreshing it      *)
(*     under a Redis lock when it is missing;                              *)
(*   - IdpService.callback (src/idp/service/idp.service.ts), which stores  *)
(*     the tokens of a new login without taking the lock;                  *)
(*   - TokenService and RedisClient, down to the single Redis command;     *)
(*   - the deletion of the account's keys, lock included, by the API       *)
(*     (RedisClient.deletePattern) or by the revocation script;            *)
(*   - the IdP, which may rotate the refresh token at each exchange.       *)
(*                                                                         *)
(* One action per await: between two of them any other request, of this    *)
(* or of another Node process, may run.  An action is the moment Redis (or *)
(* the IdP) executes the command.  Time is a countdown: every Redis key    *)
(* carries the time it has left to live and every await the time within    *)
(* which it ends.                                                          *)
(***************************************************************************)
EXTENDS Integers

CONSTANTS
  Calls,          \* concurrent executions of GetAccessTokenUsecase.execute
  Logins,         \* concurrent executions of IdpService.callback
  RefreshTokens,  \* names of refresh tokens, reused once nobody knows them
  None,
  LockTtl,        \* TTL of the lock key (30 s)
  AccessTtl,      \* lifetime of an access token at the IdP
  IdpTimeout,     \* longest time client.refresh takes: the token request and,
                  \* with its new Issuer, the keys of the IdP (15 s each)
  RedisMax,       \* ASSUMED longest time from one Redis command to the next
  LoginMax,       \* longest time a login spends before it stores its tokens
  WaitStep,       \* waitInMillis before the first poll (150 ms)
  Faults          \* the faults and deletions this instance may meet

ASSUME NoneAssumption ==
  None \notin Calls /\ None \notin RefreshTokens /\ Calls \cap Logins = {}
ASSUME TimeAssumption ==
  /\ {AccessTtl, LockTtl} \subseteq Nat \ {0}
  /\ {IdpTimeout, RedisMax, LoginMax, WaitStep} \subseteq Nat
ASSUME FaultsAssumption == Faults \subseteq {"redis", "network", "crash", "deletion"}

VARIABLES
  pc,       \* the await each execution is at
  timer,    \* time left before that await ends (or the sleep is over)
  retries,  \* waitForRefresh's counter
  result,   \* the last answer of each call
  rt,       \* the refresh token a call has read and presents to the IdP
  nt,       \* the refresh token an execution received and has yet to store
  at,       \* the access token an execution received and has yet to store
  lock,     \* key access_token_lock:<account>
  exposed,  \* history: the calls whose lock was deleted while they worked
            \* under it, and those that then worked beside one of them
  access,   \* key access_token:<account>
  refresh,  \* key refresh_token:<account>
  spent,    \* the refresh tokens the IdP has rotated away
  lost      \* history: spent tokens whose successor was never stored

procs == <<pc, timer, retries, result>>
mem   == <<rt, nt, at>>
redis == <<lock, exposed, access, refresh>>
idp   == <<spent, lost>>
vars  == <<procs, mem, redis, idp>>

Procs == Calls \cup Logins

\* Lock held: the awaits between a granted acquireLock and the end of
\* releaseLock.
Holding == {"getRefresh", "idp", "answer", "setAccess", "setRefresh", "relGet", "relDel"}

PCs == {"idle", "getAccess", "lock", "poll", "sleep", "work"} \cup Holding

Results == {"none", "success", "NonTrouve", "AuthError", "ErreurReseauIDP",
            "getTokenRejected", "rejected", "crashed"}

\* Time left to live in Redis and time left of the validity given by the
\* IdP.  A Redis key with no time left does not exist.
NoLock   == [owner |-> None, ttl |-> 0]
NoAccess == [ttl |-> 0, left |-> 0]

Stored(key) == key.ttl > 0

ProcsType ==
  /\ pc \in [Procs -> PCs]
  /\ timer \in [Procs -> Nat]
  /\ retries \in [Calls -> 0..3]
  /\ \A c \in Calls : pc[c] = "poll" => retries[c] > 0
  /\ result \in [Calls -> Results]

MemType ==
  /\ rt \in [Procs -> RefreshTokens \cup {None}]
  /\ nt \in [Procs -> RefreshTokens \cup {None}]
  /\ at \in [Procs -> [ttl : Int, left : Int]]

RedisType ==
  /\ lock \in {NoLock} \cup [owner : Calls, ttl : 1..LockTtl]
  /\ exposed \subseteq Calls
  /\ access \in [ttl : Nat, left : Int]
  /\ refresh \in RefreshTokens \cup {None}

IdpType == spent \subseteq RefreshTokens /\ lost \subseteq RefreshTokens

\* A call at the IdP has a token to present.
PresentsType == \A c \in Calls : pc[c] = "idp" => rt[c] # None

TypeOK == ProcsType /\ MemType /\ RedisType /\ IdpType /\ PresentsType

Init ==
  /\ pc = [p \in Procs |-> "idle"]
  /\ timer = [p \in Procs |-> 0]
  /\ retries = [c \in Calls |-> 0]
  /\ result = [c \in Calls |-> "none"]
  /\ rt = [p \in Procs |-> None]
  /\ nt = [p \in Procs |-> None]
  /\ at = [p \in Procs |-> NoAccess]
  /\ lock = NoLock
  /\ exposed = {}
  /\ access = NoAccess
  /\ refresh \in RefreshTokens \cup {None}
  /\ spent = {}
  /\ lost = {}

---------------------------------------------------------------------------
(* Helpers *)

\* How long an await may last.  The awaits made without the lock need no
\* bound: their timer is not used.
AwaitMax(q) ==
  CASE q \in {"idp", "answer"} -> IdpTimeout
    [] q = "work" -> LoginMax
    [] q \in Holding \ {"idp", "answer"} -> RedisMax
    [] OTHER -> 0

HasDeadline(q) == q \in Holding \cup {"work"}

Step(p, q) ==
  /\ pc' = [pc EXCEPT ![p] = q]
  /\ timer' = [timer EXCEPT ![p] = AwaitMax(q)]

Answer(c, r) == result' = [result EXCEPT ![c] = r]

\* The local variables of the execution go out of scope.
Forget(p) ==
  /\ rt' = [rt EXCEPT ![p] = None]
  /\ nt' = [nt EXCEPT ![p] = None]
  /\ at' = [at EXCEPT ![p] = NoAccess]

\* An exchange is abandoned: the successor the IdP gave to the token presented,
\* if it gave one, is known to nobody.
Lose(p) ==
  /\ lost' = IF nt[p] = None THEN lost ELSE lost \cup ({rt[p]} \cap spent)
  /\ UNCHANGED spent

\* The calls that work while the lock does not protect them.
Exposed == {c \in exposed : pc[c] \in Holding}

\* A call that enters the locked section beside them is no better protected.
Enter(c) == exposed' = Exposed \cup IF Exposed = {} THEN {} ELSE {c}

\* The execution ends, its caller being answered r (None for a login).
Finish(p, r) ==
  /\ Step(p, "idle")
  /\ IF p \in Calls
       THEN Answer(p, r) /\ retries' = [retries EXCEPT ![p] = 0]
       ELSE UNCHANGED <<result, retries>>
  /\ Forget(p)

\* A refresh token the IdP hands out is unknown to everybody else.
Fresh(f) ==
  /\ f \in RefreshTokens
  /\ f # refresh
  /\ \A p \in Procs : f # rt[p] /\ f # nt[p]

---------------------------------------------------------------------------
(* execute, refreshAccessTokenWithLock *)

Request(c) ==
  /\ pc[c] = "idle"
  /\ Step(c, "getAccess")
  /\ Answer(c, "none")
  /\ UNCHANGED <<retries, mem, redis, idp>>

\* A stored access token is served as it is; without one, refresh under lock.
GetAccess(c) ==
  /\ pc[c] = "getAccess"
  /\ IF Stored(access)
       THEN Finish(c, "success")
       ELSE Step(c, "lock") /\ UNCHANGED <<retries, result, mem>>
  /\ UNCHANGED <<redis, idp>>

\* Mutated AcquireLock: SET without NX.
AcquireLockWithoutNX(c) ==
  /\ pc[c] = "lock"
  /\ Step(c, "getRefresh")
  /\ lock' = [owner |-> c, ttl |-> LockTtl]
  /\ Enter(c)
  /\ UNCHANGED <<retries, result, mem, access, refresh, idp>>

\* Mutated AcquireLock: a TTL that covers the exchange and not what follows.
AcquireLockTooShort(c) ==
  /\ pc[c] = "lock"
  /\ IF Stored(lock)
       THEN Step(c, "poll") /\ retries' = [retries EXCEPT ![c] = 3] /\ UNCHANGED <<lock, exposed>>
       ELSE /\ Step(c, "getRefresh")
            /\ lock' = [owner |-> c, ttl |-> IdpTimeout + 5 * RedisMax]
            /\ Enter(c)
            /\ UNCHANGED retries
  /\ UNCHANGED <<result, mem, access, refresh, idp>>

\* Mutated AcquireLock: a refused attempt renews the TTL.
AcquireLockRenewing(c) ==
  /\ pc[c] = "lock"
  /\ IF Stored(lock)
       THEN /\ Step(c, "poll")
            /\ retries' = [retries EXCEPT ![c] = 3]
            /\ lock' = [lock EXCEPT !.ttl = LockTtl]
            /\ UNCHANGED exposed
       ELSE /\ Step(c, "getRefresh")
            /\ lock' = [owner |-> c, ttl |-> LockTtl]
            /\ Enter(c)
            /\ UNCHANGED retries
  /\ UNCHANGED <<result, mem, access, refresh, idp>>

\* SET <lock> <lockId> EX 30 NX: granted when the key does not exist.
\* Refused, the call waits for the refresh of the holder.
AcquireLock(c) ==
  /\ pc[c] = "lock"
  /\ IF Stored(lock)
       THEN /\ Step(c, "poll")
            /\ retries' = [retries EXCEPT ![c] = 3]
            /\ UNCHANGED <<lock, exposed>>
       ELSE /\ Step(c, "getRefresh")
            /\ lock' = [owner |-> c, ttl |-> LockTtl]
            /\ Enter(c)
            /\ UNCHANGED retries
  /\ UNCHANGED <<result, mem, access, refresh, idp>>

---------------------------------------------------------------------------
(* refresh *)

GetRefresh(c) ==
  /\ pc[c] = "getRefresh"
  /\ IF refresh = None
       THEN Step(c, "relGet") /\ Answer(c, "NonTrouve") /\ UNCHANGED rt
       ELSE Step(c, "idp") /\ rt' = [rt EXCEPT ![c] = refresh] /\ UNCHANGED result
  /\ UNCHANGED <<retries, nt, at, redis, idp>>

\* The IdP executes the exchange, keeping the refresh token presented or
\* rotating it.  The same await goes on until the answer is there.
IdpExchange(c) ==
  /\ pc[c] = "idp"
  /\ rt[c] \notin spent
  /\ pc' = [pc EXCEPT ![c] = "answer"]
  /\ at' = [at EXCEPT ![c] = [ttl |-> AccessTtl, left |-> AccessTtl]]
  /\ \/ UNCHANGED <<nt, idp>>
     \/ \E f \in RefreshTokens :
          /\ Fresh(f)
          /\ nt' = [nt EXCEPT ![c] = f]
          /\ spent' = (spent \ {f}) \cup {rt[c]}
          /\ lost' = lost \ {f}
  /\ UNCHANGED <<timer, retries, result, rt, redis>>

\* The IdP refuses: always a token it has rotated away, any token for
\* reasons of its own (OPError, hence AuthError).
IdpRefuse(c) ==
  /\ pc[c] = "idp"
  /\ Step(c, "relGet")
  /\ Answer(c, "AuthError")
  /\ Forget(c)
  /\ UNCHANGED <<retries, redis, idp>>

\* The token set arrives; expires_at is counted from this moment.
ReceiveTokenSet(c) ==
  /\ pc[c] = "answer"
  /\ Step(c, "setAccess")
  /\ UNCHANGED <<retries, result, mem, redis, idp>>

\* No answer: the connection is refused, cut or too slow, whether or not
\* the IdP executed the exchange (erreurReseauIDP tells some codes apart).
IdpUnreachable(c) ==
  /\ "network" \in Faults
  /\ pc[c] \in {"idp", "answer"}
  /\ Step(c, "relGet")
  /\ \E r \in {"ErreurReseauIDP", "AuthError"} : Answer(c, r)
  /\ Lose(c)
  /\ Forget(c)
  /\ UNCHANGED <<retries, redis>>

---------------------------------------------------------------------------
(* setToken, by a refresh or by a login.  The ttl is computed before the    *)
(* command is sent.                                                         *)

StoreDone(p) ==
  IF p \in Calls
    THEN /\ Step(p, "relGet")
         /\ Answer(p, "success")
         /\ Forget(p)
         /\ UNCHANGED retries
    ELSE Finish(p, None)

\* Mutated StoreAccess: the rotated refresh token is not stored.
StoreAccessOnly(p) ==
  /\ pc[p] = "setAccess"
  /\ at[p].ttl > 0
  /\ access' = at[p]
  /\ StoreDone(p)
  /\ UNCHANGED <<lock, exposed, refresh, idp>>


StoreAccess(p) ==
  /\ pc[p] = "setAccess"
  /\ at[p].ttl > 0
  /\ access' = at[p]
  /\ IF nt[p] = None
       THEN StoreDone(p)
       ELSE Step(p, "setRefresh") /\ UNCHANGED <<retries, result, mem>>
  /\ UNCHANGED <<lock, exposed, refresh, idp>>

\* Mutated StoreRefresh: the token presented is stored again.
StoreRefreshStale(p) ==
  /\ pc[p] = "setRefresh"
  /\ refresh' = IF p \in Calls THEN rt[p] ELSE nt[p]
  /\ StoreDone(p)
  /\ UNCHANGED <<lock, exposed, access, idp>>


StoreRefresh(p) ==
  /\ pc[p] = "setRefresh"
  /\ refresh' = nt[p]
  /\ StoreDone(p)
  /\ UNCHANGED <<lock, exposed, access, idp>>

\* SET fails, executed or not; Redis refuses an EX that is not positive.
\* refresh() catches the error and the call goes on to release its lock;
\* callback() catches it and the login fails.
StoreFails(p) ==
  /\ \/ /\ "redis" \in Faults
        /\ pc[p] = "setAccess"
        /\ access' \in {access} \cup IF at[p].ttl > 0 THEN {at[p]} ELSE {}
        /\ Lose(p)
        /\ UNCHANGED refresh
     \/ /\ pc[p] = "setAccess"
        /\ at[p].ttl <= 0
        /\ Lose(p)
        /\ UNCHANGED <<access, refresh>>
     \/ /\ "redis" \in Faults
        /\ pc[p] = "setRefresh"
        /\ \/ refresh' = nt[p] /\ UNCHANGED idp
           \/ Lose(p) /\ UNCHANGED refresh
        /\ UNCHANGED access
  /\ IF p \in Calls
       THEN /\ Step(p, "relGet")
            /\ \E r \in {"ErreurReseauIDP", "AuthError"} : Answer(p, r)
            /\ Forget(p)
            /\ UNCHANGED retries
       ELSE Finish(p, None)
  /\ UNCHANGED <<lock, exposed>>

---------------------------------------------------------------------------
(* releaseLock: GET, then DEL when the value is the caller's lockId *)

ReleaseGet(c) ==
  /\ pc[c] = "relGet"
  /\ IF lock.owner = c
       THEN Step(c, "relDel") /\ UNCHANGED <<retries, result, mem>>
       ELSE Finish(c, result[c])
  /\ UNCHANGED <<redis, idp>>

\* DEL does not look at the value again.
ReleaseDel(c) ==
  /\ pc[c] = "relDel"
  /\ lock' = NoLock
  /\ Finish(c, result[c])
  /\ UNCHANGED <<exposed, access, refresh, idp>>

---------------------------------------------------------------------------
(* waitForRefresh *)

\* waitInMillis *= retries, at each turn: 450, 900 and 900 ms.
WaitInMillis(r) ==
  CASE r = 3 -> WaitStep * 3
    [] r = 2 -> WaitStep * 6
    [] OTHER -> WaitStep * 6

\* Mutated Poll: the counter is not decremented.
PollForever(c) ==
  /\ pc[c] = "poll"
  /\ IF Stored(access)
       THEN Finish(c, "success")
       ELSE /\ pc' = [pc EXCEPT ![c] = "sleep"]
            /\ timer' = [timer EXCEPT ![c] = WaitInMillis(retries[c])]
            /\ UNCHANGED <<retries, result, mem>>
  /\ UNCHANGED <<redis, idp>>


Poll(c) ==
  /\ pc[c] = "poll"
  /\ IF Stored(access)
       THEN Finish(c, "success")
       ELSE /\ pc' = [pc EXCEPT ![c] = "sleep"]
            /\ timer' = [timer EXCEPT ![c] = WaitInMillis(retries[c])]
            /\ retries' = [retries EXCEPT ![c] = @ - 1]
            /\ UNCHANGED <<result, mem>>
  /\ UNCHANGED <<redis, idp>>

\* Mutated Wake: one poll too many.
WakeOnceMore(c) ==
  /\ pc[c] = "sleep"
  /\ timer[c] = 0
  /\ IF retries[c] >= 0
       THEN Step(c, "poll") /\ UNCHANGED <<retries, result, mem>>
       ELSE Finish(c, "NonTrouve")
  /\ UNCHANGED <<redis, idp>>

\* Mutated Wake: a call that gives up waiting breaks the lock.
WakeBreaksLock(c) ==
  /\ pc[c] = "sleep"
  /\ timer[c] = 0
  /\ IF retries[c] > 0
       THEN Step(c, "poll") /\ UNCHANGED <<retries, result, mem, lock>>
       ELSE Finish(c, "NonTrouve") /\ lock' = NoLock
  /\ UNCHANGED <<exposed, access, refresh, idp>>

\* Mutated Wake: a call that gives up waiting asks for the lock again.
WakeAsksAgain(c) ==
  /\ pc[c] = "sleep"
  /\ timer[c] = 0
  /\ Step(c, IF retries[c] > 0 THEN "poll" ELSE "lock")
  /\ UNCHANGED <<retries, result, mem, redis, idp>>

\* After its last sleep the call gives up without looking again.
Wake(c) ==
  /\ pc[c] = "sleep"
  /\ timer[c] = 0
  /\ IF retries[c] > 0
       THEN Step(c, "poll") /\ UNCHANGED <<retries, result, mem>>
       ELSE Finish(c, "NonTrouve")
  /\ UNCHANGED <<redis, idp>>

---------------------------------------------------------------------------
(* IdpService.callback, as far as the stored tokens are concerned *)

\* client.callback: the IdP opens a session and issues its tokens, which
\* arrive some time later.
LoginExchange(l) ==
  /\ pc[l] = "idle"
  /\ Step(l, "work")
  /\ \E delay \in 0..IdpTimeout :
       at' = [at EXCEPT ![l] = [ttl |-> AccessTtl, left |-> AccessTtl - delay]]
  /\ \/ UNCHANGED <<nt, idp>>
     \/ \E f \in RefreshTokens :
          /\ Fresh(f)
          /\ nt' = [nt EXCEPT ![l] = f]
          /\ spent' = spent \ {f}
          /\ lost' = lost \ {f}
  /\ UNCHANGED <<retries, result, rt, redis>>

\* Mutated LoginAccepted: the ttl is expires_in, whatever time has passed.
LoginAcceptedExpiresIn(l) ==
  /\ pc[l] = "work"
  /\ Step(l, "setAccess")
  /\ at' = [at EXCEPT ![l].ttl = AccessTtl]
  /\ UNCHANGED <<retries, result, rt, nt, redis, idp>>

\* The user is known to the API: on to setToken.
LoginAccepted(l) ==
  /\ pc[l] = "work"
  /\ Step(l, "setAccess")
  /\ UNCHANGED <<retries, result, mem, redis, idp>>

\* userinfo, the API or a check turns the login down.
LoginRefused(l) ==
  /\ pc[l] = "work"
  /\ Finish(l, None)
  /\ UNCHANGED <<redis, idp>>

---------------------------------------------------------------------------
(* Faults of the Redis commands of a call, crashes, and time *)

\* A getToken rejects, or the GET of releaseLock.  Only the first getToken is
\* inside the try block that is awaited.
ReadFails(c) ==
  /\ "redis" \in Faults
  /\ \/ pc[c] = "getAccess" /\ Finish(c, "NonTrouve")
     \/ pc[c] \in {"getRefresh", "poll"} /\ Finish(c, "getTokenRejected")
     \/ pc[c] = "relGet" /\ Finish(c, "rejected")
  /\ UNCHANGED <<redis, idp>>

\* Mutated AcquireLockFails: a lock that cannot be asked for is assumed.
AcquireLockFailsOpen(c) ==
  /\ "redis" \in Faults
  /\ pc[c] = "lock"
  /\ Step(c, "getRefresh")
  /\ UNCHANGED <<retries, result, mem, redis, idp>>

\* The SET NX rejects, executed or not.
AcquireLockFails(c) ==
  /\ "redis" \in Faults
  /\ pc[c] = "lock"
  /\ lock' \in {lock} \cup IF Stored(lock) THEN {} ELSE {[owner |-> c, ttl |-> LockTtl]}
  /\ Finish(c, "rejected")
  /\ UNCHANGED <<exposed, access, refresh, idp>>

\* The DEL of releaseLock rejects, executed or not.
ReleaseDelFails(c) ==
  /\ "redis" \in Faults
  /\ pc[c] = "relDel"
  /\ lock' \in {lock, NoLock}
  /\ Finish(c, "rejected")
  /\ UNCHANGED <<exposed, access, refresh, idp>>

\* The Node process stops: its execution is gone, its lock stays.
Crash(p) ==
  /\ "crash" \in Faults
  /\ pc[p] # "idle"
  /\ Lose(p)
  /\ Finish(p, "crashed")
  /\ UNCHANGED redis

\* The refresh token key reaches its TTL (30 or 42 days: at any moment of
\* the executions modelled here), or a deletion of the account reaches it.
RefreshExpires ==
  /\ refresh # None
  /\ refresh' = None
  /\ UNCHANGED <<procs, mem, lock, exposed, access, idp>>

\* RedisClient.deletePattern and the revocation script DEL the keys of the
\* account one by one, in no order of theirs, and never look at what a key
\* holds: whichever key is there may be the next one to go.
DeleteLock ==
  /\ "deletion" \in Faults
  /\ Stored(lock)
  /\ lock' = NoLock
  /\ exposed' = Exposed \cup {c \in Calls : lock.owner = c /\ pc[c] \in Holding}
  /\ UNCHANGED <<procs, mem, access, refresh, idp>>

DeleteAccess ==
  /\ "deletion" \in Faults
  /\ Stored(access)
  /\ access' = NoAccess
  /\ UNCHANGED <<procs, mem, lock, exposed, refresh, idp>>

Tick ==
  /\ \A p \in Procs : HasDeadline(pc[p]) => timer[p] > 0
  /\ timer' = [p \in Procs |-> IF timer[p] > 0 THEN timer[p] - 1 ELSE 0]
  /\ lock' = IF lock.ttl > 1 THEN [lock EXCEPT !.ttl = @ - 1] ELSE NoLock
  /\ access' = IF access.ttl > 1
                 THEN [ttl |-> access.ttl - 1, left |-> access.left - 1] ELSE NoAccess
  /\ at' = [p \in Procs |->
       CASE pc[p] = "work" -> [ttl |-> at[p].ttl - 1, left |-> at[p].left - 1]
         [] pc[p] \in {"answer", "setAccess"} -> [at[p] EXCEPT !.left = @ - 1]
         [] OTHER -> at[p]]
  /\ UNCHANGED <<pc, retries, result, rt, nt, exposed, refresh, idp>>

---------------------------------------------------------------------------
\* What a call does when nothing fails.
CallStep(c) ==
  \/ GetAccess(c) \/ AcquireLock(c)
  \/ GetRefresh(c) \/ IdpExchange(c) \/ IdpRefuse(c) \/ ReceiveTokenSet(c)
  \/ StoreAccess(c) \/ StoreRefresh(c) \/ ReleaseGet(c) \/ ReleaseDel(c)
  \/ Poll(c) \/ Wake(c)

LoginStep(l) ==
  LoginAccepted(l) \/ LoginRefused(l) \/ StoreAccess(l) \/ StoreRefresh(l) \/ StoreFails(l)

CallFails(c) ==
  \/ IdpUnreachable(c) \/ StoreFails(c)
  \/ ReadFails(c) \/ AcquireLockFails(c) \/ ReleaseDelFails(c)

Next ==
  \/ \E c \in Calls : Request(c) \/ CallStep(c) \/ CallFails(c)
  \/ \E l \in Logins : LoginExchange(l) \/ LoginStep(l)
  \/ \E p \in Procs : Crash(p)
  \/ RefreshExpires \/ DeleteLock \/ DeleteAccess
  \/ Tick

Spec == Init /\ [][Next]_vars

\* Node resumes a pending await once its reply is there and Redis expires
\* keys; nobody has to make a request, to log in or to fail.
Fairness ==
  /\ \A c \in Calls : WF_vars(CallStep(c) \/ CallFails(c))
  /\ \A l \in Logins : WF_vars(LoginStep(l))
  /\ WF_vars(Tick)

FairSpec == Spec /\ Fairness

---------------------------------------------------------------------------
(* Properties *)

\* At await q with time t left, how far a call that holds the lock may be
\* from the end of its releaseLock.
TimeLeft(q, t) ==
  CASE q = "getRefresh" -> t + IdpTimeout + 4 * RedisMax
    [] q \in {"idp", "answer"} -> t + 4 * RedisMax
    [] q = "setAccess" -> t + 3 * RedisMax
    [] q = "setRefresh" -> t + 2 * RedisMax
    [] q = "relGet" -> t + RedisMax
    [] OTHER -> t

TimeToRelease(c) == TimeLeft(pc[c], timer[c])

\* The condition on the TTL of the lock under which it does its work.  The
\* code does not ensure it: of its 30 s the two requests of client.refresh
\* may take 15 s each, and the five Redis commands have no timeout.
LockTtlSuffices == LockTtl > IdpTimeout + 5 * RedisMax

\* Whoever is between acquireLock and the end of releaseLock owns the lock
\* key, and the key outlives the longest way left to the release.  Only a
\* deletion of the account's keys takes it away, and what it breaks ends with
\* the calls that worked at that moment and those that came in beside them.
HolderKeepsLock ==
  \A c \in Calls :
    pc[c] \in Holding /\ c \notin exposed => lock.owner = c /\ lock.ttl > TimeToRelease(c)

\* At most one call of the account is refreshing (the reason why
\* refreshAccessTokenWithLock takes a lock), but for those let in after a
\* deletion of the lock: a call that no deletion has exposed works alone.
OneRefresher ==
  \A c, d \in Calls : {pc[c], pc[d]} \subseteq Holding => c = d \/ {c, d} \subseteq exposed

\* A call never presents to the IdP a refresh token the IdP has already
\* rotated away, whatever logins and other calls do meanwhile, unless the
\* successor could not be stored (a lost answer, a failed SET, a crash) or a
\* deletion of the lock has let another call refresh beside it.
NoReplay ==
  \A c \in Calls :
    pc[c] = "idp" /\ rt[c] \in spent => rt[c] \in lost \/ c \in exposed

\* The stored refresh token is usable, or its successor is on its way to
\* the store, or was lost.
StoredRefreshTokenIsCurrent ==
  refresh \in spent =>
    \/ refresh \in lost
    \/ \E c \in Calls :
         pc[c] \in {"answer", "setAccess", "setRefresh"} /\ rt[c] = refresh /\ nt[c] # None

\* A cached access token outlives its validity at the IdP by no more than
\* the time an IdP answer and one Redis command take (setToken computes the
\* TTL from expires_at, not from expires_in).
CacheFollowsIdp == Stored(access) => access.ttl <= access.left + IdpTimeout + RedisMax

\* The lock behaves as a lease: it is released by its owner, lapses only once
\* its owner has stopped, or is withdrawn by a deletion, which leaves those who
\* worked under it without a lease.
Holder == INSTANCE Lease WITH
  Clients <- Calls,
  NoClient <- None,
  holder <- lock.owner,
  working <- {c \in Calls : pc[c] \in Holding /\ c \notin exposed}
LeaseSpec == Holder!Spec

\* What each execution knows of the tokens, from the reading of the stored
\* token (or the login) until its successor is stored.
OpenExchanges ==
  {[by |-> p, old |-> rt[p], new |-> nt[p]] :
     p \in {q \in Procs : rt[q] # None \/ nt[q] # None}}

\* The refresh token is a chain of tokens, each exchanged by one execution at
\* a time and stored by the one that received it; where a deletion of the lock
\* lets several exchange one token, they all know it for shared.
Rotation == INSTANCE TokenRotation WITH
  Executions <- Procs,
  Tokens <- RefreshTokens,
  NoToken <- None,
  stored <- refresh,
  open <- OpenExchanges,
  shared <- exposed
RotationSpec == Rotation!Spec

\* The steps an execution may still take: through the locked section down to
\* its release, or a poll and a sleep for each retry left.
StepsFrom(q, tries) ==
  CASE q = "getAccess" -> 9
    [] q = "lock" -> 8
    [] q = "getRefresh" -> 7
    [] q = "idp" -> 6
    [] q \in {"answer", "work"} -> 5
    [] q = "setAccess" -> 4
    [] q = "setRefresh" -> 3
    [] q = "relGet" -> 2
    [] q = "relDel" -> 1
    [] q = "poll" -> 2 * tries
    [] q = "sleep" -> 2 * tries + 1
    [] q = "idle" -> 0

StepsLeft(c) == StepsFrom(pc[c], retries[c])

\* No step, failure or expiry sends a call back: once under way it is answered
\* within nine steps of its own, however often the lock changes hands while
\* it waits (the counter of waitForRefresh, and no second attempt at the lock).
CallsAdvance ==
  [][\A c \in Calls :
       pc[c] # "idle" =>
         \/ StepsLeft(c)' < StepsLeft(c)
         \/ pc'[c] = pc[c] /\ retries'[c] = retries[c]]_vars

\* Every call is answered, whatever becomes of the holder of the lock.
EveryCallEnds == \A c \in Calls : pc[c] = "getAccess" ~> pc[c] = "idle"

\* The lock never stays for ever: after a crash or a lost reply of its owner
\* too, refreshes become possible again.
LockIsAlwaysFreed == []<>(~Stored(lock))

\* (test/token/get-access-token.usecase.test.ts l.127: "erreur quand getToken
\* echoue") a failing getToken is answered by a failure, never by a rejection.
FailuresAreResults == \A c \in Calls : result[c] # "getTokenRejected"
===========================================================================
