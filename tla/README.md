# A TLA+ model of pass-emploi-connect

`pass-emploi-connect` is the authentication service of the pass-emploi
applications. It is an OpenID Connect *provider* for the mobile and web
applications (with the library oidc-provider), and a *client* of the identity
providers (IdP) where users really log in: i-milo, France Travail Connect, the
conseils départementaux. A guest (*invité*) has no IdP: the service makes its
identity. Everything it remembers is in one Redis, shared by all its Node
processes; the state machine of the system is therefore the sequence of the
Redis commands (and calls to IdPs and to the API) of requests that interleave at
every `await`.

This directory holds TLA+ modules translated from `src/`, TLC configurations
that check them on small instances, and proofs checked by TLAPS that hold for
every instance. `PROJECT.json` is the machine-readable index: components, runs,
the lines each definition stands for, hazards, theorems. Paths below are
relative to the repository (`src/...` is its source directory).

    tlc -workers 2 -config RefreshUnderLock.cfg MCAccessTokenRefresh
    tlapm LoginFlowProofs.tla

## 1. Inventory

### IdP access tokens: cache, refresh, lock
`src/token/get-access-token.usecase.ts`, `src/token/token.service.ts`,
`src/redis/redis.client.ts`.
*State*: `access_token:<account>` (TTL: what is left of its validity),
`refresh_token:<account>`, `access_token_lock:<account>` (30 s).
*Operations*: `execute` (read the token; else take the lock and refresh, or wait
for whoever has it: 3 polls, each followed by a sleep), `getToken`, `setToken`, `acquireLock`
(`SET NX EX`), `releaseLock` (`GET`, then `DEL`), `deletePattern`.
*Interactions*: called by the token exchange; a login (`IdpService.callback`)
stores tokens of the same account without the lock; `DELETE /accounts/:idAuth` and
the revocation script delete the keys of the account one by one, the lock among
them; the IdP may rotate refresh tokens.
*Hard*: concurrent refreshes with a rotated token, a lock that lapses or is deleted
under its holder, one of two `SET`s failing, lost IdP answers, crashes, stale waiters.
*Correct when*: one refresh at a time, as long as nobody deletes the lock; no rotated
refresh token is presented again, unless its successor was lost or a deletion of the
lock let two calls in; the stored token is usable in any case; the cache does not
outlive the token; every call is answered; the lock is always freed.

### OIDC persistence
`src/redis/redis.adapter.ts`. *State*: `<Model>:<id>`, the list `grant:<id>` of
the keys of the tokens of a Grant, `uid:<uid>`. *Operations*: `upsert`, `find`,
`findByUid`, `findByUserCode`, `consume`, `destroy`, `revokeByGrantId`.
*Interactions*: oidc-provider calls it for every object.
*Hard*: the TTL of the list is read before the transaction that uses it; errors of
`upsert` are swallowed; `consume` asks neither whether the key is there nor whether
it is consumed already, so two presentations of a code that overlap both pass.
*Correct when*: the list names every live token of the Grant; a code that has given
a token is accepted from nobody who looks it up afterwards; a revocation is final.

### Guest mode and account deletion
`src/idp/invite/*`, `src/account/delete-account.usecase.ts`,
`src/app.controller.ts`, `revoquerGrantInvite` in
`src/oidc-provider/oidc.service.ts`. *State*: a Grant and a refresh token without
TTL, the index `grant_invite:<account>`. *Operations*: `connect` (API, Grant,
index, result), `execute` (index, Grant, `revokeByGrantId`, `destroy`, `DEL` of the
index, `deletePattern`). *Hard*: nothing ever expires, so what is not indexed or
not deleted stays for ever; a deletion fails or stops in the middle and is
called again; an authorization is in flight.
*Correct when*: a usable guest token is always reachable from the index; a
deletion that is carried through is final.

### Login through an identity provider
`src/idp/service/idp.service.ts`, `src/idp/service/helpers.ts`,
`src/oidc-provider/resume-cookie.ts`, `recoverInteraction` and
`finishInteraction` in `src/oidc-provider/oidc.service.ts`. *State*: Interactions
(1 h), Grants, Sessions, cookies of the browser. *Operations*:
`getAuthorizationUrl`, `callback`, `recoverInteraction`, `generateNewGrantId`,
`finishInteraction`, `ensureResumeCookie`. *Hard*: tabs share cookies, iOS loses
them, callbacks are reloaded, an account logs in over the session of another,
interactions expire while a request works on its copy of them.
*Correct when*: the result of an interaction is that of its own login; the Grant of
a session belongs to its account; a session is not open before its tokens are
stored; a callback is refused only when its interaction is gone.

### Access of a connected account
`src/oidc-provider/oidc.service.ts` (ttl, clients, `findAccount`, `issueRefreshToken`,
`expiresWithSession`, `forcerLoginSiCompteInexistant`, logout),
`src/account/delete-account.usecase.ts`, `src/oidc-provider/token-exchange.grant.ts`.
*State*: the session of the browser (42 days, sliding), one Grant per client in it
(42 days, not sliding), the refresh tokens (42 days, not rotated), the JWTs (30
minutes), the tokens of the IdP. *Operations*: login, `/authorize` in a session,
`/token` with a code or a refresh token, logout, token exchange, `DELETE
/accounts/:idAuth`. *Interactions*: the API archives the account at any time and is
asked by `findAccount`, except at the end of a login; the deletion reads the keys
and deletes them while logins and refreshes store them. *Hard*: five lives that
start at different requests, an account that goes while everything else stays, a
deletion that overlaps what it deletes.
*Correct when*: an archived account is locked out after the life of one JWT; nobody
goes on for more than 42 days without a login; a deletion leaves no IdP token.

### Accounts, connectors, token exchange
`src/domain/account.ts`, `src/domain/user.ts`, the services under `src/idp/`,
`src/oidc-provider/token-exchange.grant.ts`, `interactions.url` and `findAccount` of
`src/oidc-provider/oidc.service.ts`, `src/api/pass-emploi-api.client.ts`,
`src/api/francetravail-api.client.ts`, `src/token/verify-jwt.usecase.ts`. Four
tables on types and structures of users that must agree; a login that asks the API
twice when a jeune has no conseiller, the second time with the structure of its
statut at France Travail; the verification of a JWT with each key of a list that
rotates. *Hard*: an account id is `type|structure|sub`, cut again at each `|`, so a
sub that contains one does not come back; an answer of France Travail that names no
statut is no failure, and counts as that of an espace candidat. *Correct when*: a
refresh token goes to the IdP that issued it; an exchange, for oneself or by
delegation, finds the tokens its login stored, for subs without separator; the API
is never asked for two users in the same words; the account of a login is one that
the API knows; a statut that cannot be read enrols nobody; a JWT is accepted exactly
when a key of the list signed it and it has not ended.

### Revocation script
`src/account/revoquer-acces.ts`, `src/scripts/revoquer-acces.ts`. Goes through all
keys with `SCAN`, then deletes the Grants, sessions, tokens of a list of users,
in a Redis in service. *Hard*: keys written during and after the scan, objects
read before and saved after their deletion, lists of Grants that have lapsed before
their tokens, an interruption between the two series of `DEL`s, unreadable keys.
*Correct when*: what these users could use when the run began is refused as soon as
the Grants are deleted, and gone once the run ends if the list of its Grant was still
there to name it; nobody else loses anything.

### Parts without behaviour of their own
Controllers and guard, configuration, logs: stateless, or read once at start. They
appear as outcomes of the actions that call them (a refusal, an error page).
oidc-provider and openid-client are libraries: the actions that stand for them are
marked external in `PROJECT.json` and modelled from how `src/` configures and serves
them.

## 2. Modules

| module | models | checked by | proved in |
|---|---|---|---|
| `AccessTokenRefresh` | the tokens of one account: calls, logins, lock, IdP | `MCAccessTokenRefresh`, 5 runs | `AccessTokenRefreshProofs`, `RefreshTokenProofs`, `RotationProofs` |
| `Lease` | abstract: what a lock with an owner promises | implemented by `AccessTokenRefresh` (`LeaseSpec`) | `AccessTokenRefreshProofs` |
| `TokenRotation` | abstract: the refresh token of an account as a chain of tokens | implemented by `AccessTokenRefresh` (`RotationSpec`) | `RotationProofs` |
| `GrantStore` | one Grant in Redis: codes, tokens, list, index, deletion, revocation | `MCGrantStore`, 4 runs | `GrantStoreProofs` |
| `LoginFlow` | the logins of one browser | `MCLoginFlow`, 1 run | `LoginFlowProofs` |
| `SignOn` | abstract: what a login promises, without requests, cookies or Redis | implemented by `LoginFlow` (`SignOnSpec`) | `LoginFlowProofs` |
| `AccountAccess` | a connected account from login to archive and deletion | `MCAccountAccess`, 1 run | `AccountAccessProofs` |
| `AccountRouting` | types, structures, IdPs, profiles; who a login is to the API; JWTs | `MCAccountRouting`, 1 run | `AccountRoutingProofs` |
| `AccessRevocation` | the revocation script against live requests | `MCAccessRevocation`, 1 run | `AccessRevocationProofs` |

In every module an action is what happens between two `await`s: one Redis
command or transaction (or the IdP or the API executing a request) and the
synchronous code up to the next one. Local variables that survive an `await` are
variables of the model (`rt`, `nt`, `at`, `seen`, `listed`, `target`, `grantId`,
`found`, `names`...), which is where stale reads come from. A request that fails
or a process that stops simply never takes its next step, or takes a `Fail` /
`Crash` step. A step of each module reads the definitions in the order of the
code; `PROJECT.json` gives the lines of each.

**AccessTokenRefresh.** `pc` follows `execute`, `refreshAccessTokenWithLock`,
`refresh`, `waitForRefresh` and, for logins, the end of `callback`. Time is a
countdown: keys have a remaining TTL, awaits made under the lock a deadline, and
`Tick` lets one unit pass for all of them, never past a deadline. An access token
has two countdowns, its TTL in Redis (`ttl`) and its validity at the IdP
(`left`). `spent` is the set of refresh tokens the IdP has rotated away; `lost`
those whose successor never reached Redis. A failing Redis command may have been
executed or not (`Faults`: `"redis"`), an IdP answer may be lost after the
rotation (`"network"`), a process may stop (`"crash"`). `DeleteLock`, `DeleteAccess`
(`"deletion"`) and `RefreshExpires` are the `DEL`s of `deletePattern` and of the
script, at any moment and in any order. `exposed` remembers the calls that were
working under a lock when it was deleted, and those that came in beside them: what
the lock protects is stated for the others.

**GrantStore.** `key`, `list`, `grant`, `index` are the Redis keys with the
answers of `TTL` (`NoExpiry` -1, `Absent` -2). `Upsert` is two steps, as in the
code: the `TTL` of the list, then the transaction. `Flows` are authorizations
(save of the Grant, index for a guest, code, exchange, refresh token). An exchange
presents the code of its own flow or that of another (`presents`), whether or not
another presentation of it is under way; `accepted` are the codes for which a token
was stored.
`Deletions` are `DeleteAccountUsecase`, `Logouts` the revocation by
oidc-provider. A login that reuses the Grant (`ReuseGrant`, `RenewGrant`) reads it
and saves it again two commands later, with the end it had. `Overlap` tells whether
requests on the Grant may overlap.

**AccountAccess.** A request (`call`) goes through the steps of a login, of
`/authorize` in a session, of `/token` or of a token exchange; `del` is the deletion
being served, with the keys it has read. A `Tick` is far longer than a request: it
finds users at their IdP, and codes that end with it, but no request half served;
`Stop` ends a request after any step. `idp` is which of the two IdP tokens are
stored. The history variables say how long the API has not found the account
(`lostFor`), how long ago it took a login (`loginAge`), and whether a deletion that
overlapped nothing has been carried through since (`purged`). The three clients that
matter are the native one, which always interacts, the web, whose codes and tokens
end with its session, and the API, which exchanges JWTs.

**LoginFlow.** Two kinds of requests, callbacks and guest connections, of one
browser: its cookie, the `state` and `nonce` that come back or not, the
interactions with the three ages that `finishInteraction` distinguishes (before,
at, and after the second of `exp`), the results, the session, the Grants with
their owners, and the accounts whose IdP tokens were stored.

**The abstract specifications.** `Lease` has a holder and those who work under it; a
third party may withdraw the lease, and whoever worked then works without one. In
`TokenRotation` the stored token is taken by one exchange at a time, replaced, and its
successor stored once or lost; executions that have lost their protection (`shared`) may
take what another one of them holds, and nobody else may. `RotationSpec` maps to it what
each execution knows (`rt`, `nt`: `OpenExchanges`) and who is `exposed`, and hides the
lock, the clock, the awaits and the access token. In `SignOn` a login (an authorization
code, or a guest made by the server) authenticates for one interaction, completes once,
and its interaction opens one session; `SignOnSpec` maps to it the request that
presented a code first (`Who`), the codes whose request is done (`Completed`) and the
results that are still stored (`Pending`), and hides cookies, states, reloads and the
steps on the way.

**AccountRouting.** The tables are operators translated entry by entry. A string is
the sequence of its parts between separators: the `join` of an account id is a
concatenation, its `split` reads the sequence by index, and a sub of two parts comes
back as its first one (`fromAccountToAccountId`, `fromAccountIdToAccount`). The
behaviour is a journey: logins by any hint, then the verification of one JWT and
its exchange. `directory` is what the API knows. A callback (`login`) asks it once
(`PutUser`), and a second time, after `resoudreStructureNonAccompagne`, when it
did not find the user and the mode is active (`PutUserAgain`); the API may enrol or
move the user between any two of these steps (`Enrol`, `Move`: only then, since
nothing else in the model reads the directory). `ValidateJWT` is the loop over the
keys, as the set of the answers of the pass that ends it.

**AccessRevocation.** A key is `<<kind, id>>`. SCAN is modelled by its guarantee: what
was there all along (`always`) is returned, what was there for a time (`ever`) may be.
Requests are reduced to what the script meets: the Grant saved after it was read, the
session saved from a copy, codes and tokens upserted after the Grant was looked up, the
`consume` that recreates the key of a deleted code without its payload (`husks`).
`ListLapses` ends the list of a Grant before the tokens it names, up to the moment the
script reads it: `orphans` are the targets whose list had gone by then, those no run
finds. The account of a token is that of its Grant. `targets`, `orphans`, `refused`,
`deleted`, `quiet`, `cleared` are history variables for the properties.

Composition: GrantStore takes the save of the Grant from the logins of LoginFlow
and reduces it to one step; AccessTokenRefresh takes from a login its two
`setToken`s; AccessRevocation takes both. AccountAccess composes logins, sessions,
tokens, the IdP tokens and the deletion, each reduced to the steps that the others
can meet: it has the lives and the overlaps that the detailed modules do not have
together. The modules share no variable: each
looks at the keys of one account, one Grant, one browser, or one list of users.

## 3. Runs

States are distinct states; a passing run takes three minutes or less with two
workers.

| run | instance | shows |
|---|---|---|
| `refresh_under_lock` | 3 calls, 3 refresh tokens, all faults, deletions, 1.1 M states | `HolderKeepsLock`, `OneRefresher`, `NoReplay`, `StoredRefreshTokenIsCurrent`, refinement of `Lease` |
| `refresh_with_logins` | 2 calls, 1 login, 3 tokens, lost answers, deletions, 2.3 M states | `TypeOK`, `CacheFollowsIdp`, refinement of `TokenRotation` |
| `refresh_slow_redis` | 2 calls, a lock shorter than a refresh, failures, crashes, 165 k states | `CallsAdvance`; liveness: `EveryCallEnds`, `LockIsAlwaysFreed` |
| `refresh_redis_rejects` | 1 call, failing Redis | **violated**: `FailuresAreResults` |
| `guest_deletion` | a guest, 2 overlapping flows, each presenting either code, 1 deletion, failures, crashes, 598 k states | `IndexedWhileUsable`, `CodeIsSpent`, `RevocationIsFinal` |
| `connected_list` | a connected account, 3 flows one after the other, 1 logout, failures, crashes, 291 k states | `TypeOK`, `ListOutlivesTokens`, `GoneForGood` |
| `guest_list_expires` | a guest, 2 flows one after the other | **violated**: `ListNamesTokens` |
| `list_ttl_race` | 3 overlapping flows | **violated**: `ListNamesTokens` |
| `account_access` | 2 requests at a time, 2 Grants, 1 deletion at a time, 6.9 M states | `TypeOK`, `LockedOut`, `LoginEvery42Days`, `DeletedMeansGone` |
| `account_routing` | 2 accounts among all types and structures, 2 subs (one with a separator, one without a statut), 2 keys in 3 lists, 5.6 M states | the four agreements of the tables, `NonAccompagneByStatut`, `ValidationIsExact`, `LoginsAreKnown` |
| `login_flow` | 2 requests, 2 interactions, 2 Grants, 2 users, 402 k states | `FinishedByItsOwnLogin`, `NoAccountMismatch`, `SessionHasTokens`, `RefusedOnlyWhenGone`, refinement of `SignOn` |
| `revocation_script` | 2 requests (one login that ended before), 2 accounts, a list that lapses, all faults, 4.7 M states | `RevokedForGood`, `SurvivorsAreRefused`, `RerunFindsNothing`, `OthersAreLeftAlone` |

A property is checked in one run, where the most can go wrong. With logins the
chain of `TokenRotation` stands for `NoReplay`, which it implies
(`ChainKeepsItsPromise`); for a connected account `GoneForGood` stands for
`RevocationIsFinal`, whose theorem covers that case as well.

Every property of a passing run has a mutant in `PROJECT.json`: a plausible
change of one definition (an operator written beside it, "Mutated ...") under
which TLC finds the property violated, so that none of them holds by the shape of
the model.

### What the violated runs show

Each of these runs checks one sentence of the repository against the code.

* `refresh_redis_rejects`: a test names the answer of a call whose `getToken` fails, a
  failure result. `execute` returns the promise of the locked refresh without awaiting
  it in its `try`, so this is so of the first `getToken` only: when the one of the
  refresh, or of a wait, fails, the call rejects.
* `guest_list_expires`: the list of a guest is made persistent for its refresh
  token; the next code on the Grant reads TTL -1, takes it for a short life and
  gives the list 60 s.
* `list_ttl_race`: the TTL of the list is read before the transaction; a refresh
  token upserted in between loses its list to the 60 s of a code.

The last two are why `ListOutlivesTokens` is checked where requests do not overlap
and for connected accounts only, and why `RevocationIsFinal` rests on the
destruction of the Grant rather than on the list.

One more sentence does not hold as it is written, and has no run of its own:
`docs/flow-authentification.md:22` calls the authorization code "à usage unique". Two
exchanges that overlap may both find it unconsumed, and both are given tokens
(`GrantStore`, `Exchange` and `Consume` on one code). `CodeIsSpent` says what remains true:
once a token has been stored for a code, whoever looks the code up finds it consumed
or gone.

### Bounds, and why they are enough

* *Calls, flows, requests.* Every hazard listed involves two requests that
  interleave; `refresh_under_lock` has a third so that a lock is waited for while
  it changes hands. The theorems of the proof modules hold for any number.
* *Durations* in `AccessTokenRefresh`: one unit for a Redis command and one for the IdP
  already lets every order of events happen within a deadline; `LockTtl` 7 is the
  smallest value with `LockTtl > IdpTimeout + 5 * RedisMax`, the condition of the lock
  theorems (`LockTtlSuffices`); 2 is below it. `AccessTtl` 1 makes a slow login store an
  expired token.
* *Refresh tokens* are names that are reused once nobody (Redis, a request, the
  IdP's memory of rotations) knows them: 2 to 4 names are enough for the number of
  requests of each run, and the model never runs out of them.
* *Lifetimes* in `GrantStore`: 1 for a code and 2 to 4 for a token keep the
  order of 60 s and 42 days, with room for a code to expire before, between and
  after the steps of a flow. In `guest_deletion` the guest's keys have none.
* *`AccountAccess`*: `GrantIds` bounds the Grants remembered at the same time (an id
  that nothing remembers is used again): one per client, or an old and a new one.
  `Life` 2 and `JwtLife` 1 keep the order of 42 days and 30 minutes and let every
  life end before, with and after another one. The history counters stop at the
  bound of their property, which is then either violated or not. Two requests are
  what the hazards need; the theorems hold for any number.
* *`AccountRouting`*: all types, structures, hints and connectors of the code; two
  accounts (`MaxAccounts`, which also bounds the directory while the API enrols) are
  what the properties relate. `Subs` has a sub that is one part and one that is cut at
  its separator and then reads as the first, the case in which account ids collide; the
  first is a demandeur d'emploi at France Travail, of the second no statut comes back.
  The three lists of keys are those of a rotation: the old key alone, the new key first
  and the old one kept, the new one alone.
* *`AccessRevocation`*: one login that ended before and one request of any kind
  (new login, login over a session, visit), two accounts of which one is revoked;
  runs of the script are unbounded in number. SCAN, lists and DELs are
  per key. `Expiring` names the keys whose life may end: the IdP tokens of the revoked
  user, and the list of the login that ended before, whose tokens were there when the
  run began. The theorems hold for any set.
* *Symmetry* permutes processes, tokens, interactions, Grants or users that the
  models treat alike, in runs that check no liveness. The VIEW of
  `refresh_under_lock` and `refresh_with_logins` leaves out `result`, which no action
  and no property of these runs but its type reads.
* Deadlock is checked where the system cannot stop (the token refresh: calls may
  always arrive). The other instances run each request once and then stop, so
  their configurations say `CHECK_DEADLOCK FALSE`.

### Fairness

Only `refresh_slow_redis` is about liveness. `FairSpec` assumes weak fairness of
the steps of each call (`CallStep \/ CallFails`: Node resumes a pending await, or
it is rejected), of each login, and of `Tick` (Redis expires keys). Nothing
forces a request to arrive, a user to log in, a fault or the absence of faults.
That is what the Node event loop, the 15 s timeout of IdP calls and Redis
guarantee. With it, a call is answered whatever becomes of the holder of the lock
(a waiter polls three times), and the lock is free infinitely often thanks to its
TTL.

## 4. Proofs

| theorem | statement | from |
|---|---|---|
| `AccessTokenRefreshProofs!TypeCorrect` | `Spec => []TypeOK` | the assumptions on constants |
| `...!LockOutlivesRefresh` | `LockTtlSuffices => (Spec => []HolderKeepsLock)` | the lock TTL exceeds the IdP requests and five Redis commands; deletions at any moment |
| `...!MutualExclusion` | `LockTtlSuffices => (Spec => []OneRefresher)` | id. |
| `...!LockIsALease` | `LockTtlSuffices => (Spec => LeaseSpec)` | id. |
| `...!CallsComeToAnEnd` | `Spec => CallsAdvance` | the assumptions on constants |
| `RefreshTokenProofs!CacheIsTimely` | `Spec => []CacheFollowsIdp` | the assumptions on constants |
| `...!StoredTokenIsCurrent` | `Spec => []StoredRefreshTokenIsCurrent` | the assumptions on constants, whatever becomes of the lock |
| `RotationProofs!NoTokenIsReplayed` | `LockTtlSuffices => (Spec => []NoReplay)` | the lock TTL, as above |
| `...!RefreshIsARotation` | `LockTtlSuffices => (Spec => RotationSpec)` | id. |
| `...!ChainKeepsItsPromise` | `RotationSpec => []Rotation!Promise` | `NoneAssumption` |
| `LoginFlowProofs!TypeCorrect`, `LoginsAreTheirOwn`, `GrantsAreTheirAccounts`, `SessionsHaveTokens`, `RefusalsAreDue` | `TypeOK`, `FinishedByItsOwnLogin`, `NoAccountMismatch`, `SessionHasTokens`, `RefusedOnlyWhenGone` | `NoneAssumption` |
| `...!LoginsSignOn` | `Spec => SignOnSpec` | `NoneAssumption`, `GuestAssumption` |
| `...!SignOnKeepsItsPromise` | `SignOnSpec => []Sso!Promise` | `NoneAssumption` |
| `GrantStoreProofs!TypeCorrect`, `GuestsAreIndexed` | `TypeOK`, `IndexedWhileUsable` | the assumptions on constants |
| `...!RevocationsAreFinal` | `Spec => []RevocationIsFinal` | the account is a guest's, or requests do not overlap |
| `...!ListsOutliveTokens` | `Spec => []ListOutlivesTokens` | a connected account whose requests do not overlap |
| `...!CodesAreSpent`, `GoneGrantsStayGone` | `Spec => []CodeIsSpent`, `Spec => GoneForGood` | the assumptions on constants |
| `AccountAccessProofs!TypeCorrect`, `ArchivedAccountIsLockedOut`, `LoginEvery42DaysCorrect`, `DeletionIsComplete` | `TypeOK`, `LockedOut`, `LoginEvery42Days`, `DeletedMeansGone` | `LifeAssumption`, `GrantAssumption` |
| `AccountRoutingProofs!TypeCorrect`, `TokensRefreshedWhereIssued`, `OwnTokensAreFound`, `DelegationIsFound`, `ProfilesNameAccounts` | `TypeOK` and the four agreements, for subs of any number of parts | `SubAssumption` |
| `...!LoginsKnownToApi`, `StructureIsOfTheStatut`, `ValidationCorrect` | `LoginsAreKnown`, `NonAccompagneByStatut`, `ValidationIsExact` | `SubAssumption`, `StatutAssumption`, `KeyAssumption` |
| `AccessRevocationProofs!TypeCorrect`, `TargetsAreRevokedForGood`, `TargetsAreRefused`, `RerunsFindNothing`, `OthersAreUntouched` | `TypeOK`, `RevokedForGood`, `SurvivorsAreRefused`, `RerunFindsNothing`, `OthersAreLeftAlone` | `RequestsAssumption` |

**The lock.** Whoever is between `acquireLock` and the end of `releaseLock`, and was
not exposed by a deletion, owns the key *and* the key has more time to live than
`TimeToRelease`, the sum of the deadlines of the awaits left before the release.
Without the second conjunct the first is not inductive: a `Tick` may take the key
away. Each step of the locked section moves at least as much deadline out of the sum
as it spends; acquiring the lock starts with the whole TTL. `OneRefresher` is needed
beside it (`LockInv` is the two): the `DEL` of an exposed call takes away whatever
lock is there, and only because all who work beside it are exposed too is it never
that of a protected one. The refinement of `Lease` follows, since the key can only
lapse when its owner is no longer working, and a deletion is a `Withdraw`.

There are thus two ways for two calls to refresh at once in the code. A deletion of the
keys of the account (`deletePattern`, the script) takes the lock from its holder; the
model does it at any moment, and the theorems say that the damage ends with the calls
that worked then and those that came in beside them. And the lock may lapse under its
holder, when `LockTtlSuffices` does not hold: of the 30 s of the lock `client.refresh`
may take 15 s for the token request and, since each refresh makes a new `Issuer`, 15 s
more for the keys of the IdP, which leaves nothing for the five Redis commands; the
condition asks for an IdP that answers both sooner than its timeouts allow, and a Redis
that does not stall. In both cases `releaseLock`, which compares with `GET` and deletes
with a separate `DEL`, may delete the lock of another call.

**The tokens.** `CacheInv` follows an access token from the IdP to its key: by how
much its TTL may exceed its validity is bounded by what is left of the deadlines on
the way (`Timely`). No lock is needed. For the refresh token the invariant
(`TokenInv`) adds to `StoredRefreshTokenIsCurrent` that a token received and not yet
stored is known to one execution only, unused, and not the one in Redis
(`UnstoredIsPrivate`). No lock is needed here either: two calls that present the same
token are given one successor, since the IdP refuses the second of them. The lock is
needed for what a call presents (`NoTokenIsReplayed`): it reads the stored token as the
only protected call, so the call which might be storing a successor is itself, and it
presents a spent token only if the successor was lost.

**The rotation.** `TokenEffects` sums up each action once, by what it does to the
tokens: an execution moves on with what it knows, ends, takes the stored token, has it
replaced, is given one by a login, or rests. The rest of the proof no longer sees the
code. `CarryInv` says what an execution may know at each step (a token to present only
between the reading and the store, a successor only once the IdP has answered), which
makes the exchanges of two executions different members of `OpenExchanges`; each effect
is then a step of the chain. The lock is needed for one of them: a token is taken while
no other exchange of a stored token is open, but by calls exposed together. To lose or
regain the protection is a step of its own (`Share`), which no exchange under way comes
out of. `ChainKeepsItsPromise` says what that is good for, from the chain alone: its
`Promise` is `NoReplay` and `StoredRefreshTokenIsCurrent` without calls, lock and time.

**The end of a call.** `StepsLeft` counts the steps a call may still take, a
poll and a sleep for each retry left of `waitForRefresh`. Every action lowers it,
failures and crashes included, and no action of another execution or of time
changes it: no fairness and no condition on the lock is used. The nine steps are
the whole of what is proved towards `EveryCallEnds`; that the next of them is
eventually taken is what fairness adds.

**The logins.** `IInv` of `LoginFlowProofs` adds to the types: a request works on
the interaction whose uid it carries (`OwnInteraction`, from the check of the
nonce), its Grant belongs to its account (`OwnGrant`), a Grant not yet saved is
known by one request only (`UnsavedGrantIsPrivate`, needed because `createGrant`
chooses an id before `save` makes it exist), who has passed `setToken` has tokens
(`OwnTokens`), and every result was written by such a request
(`ResultsAreSound`). The properties are consequences. For the refusals
(`RefusalInv`): an interaction that is alive is stored or was finished
(`LiveIsStored`), so a miss by the state means it is gone, for good since it is
opened once; and a code already exchanged was presented by another request, which
is past its exchange (`UsedCodesWerePresented`).

For the sign-on, `LoginInv` says that a request which presents the code of
another carries its account and interaction (`ReloadsAreReloads`), that of the
requests with one code at most one is past the exchange (`OneRequestPerCode`,
from the IdP refusing a used code), and that an interaction not yet opened has no
result (`UnopenedIsEmpty`). A step of the environment, of the exchange and of the
end is then a step of `SignOn`, every other one a stutter.
The `Promise` of `SignOn` (a result or a session has its Grant and tokens, and a login
completed for it) follows from `SignOn` alone.
`GuestAssumption` says that the account a guest's request makes is nobody's at an
IdP: the structure in its id is `INVITE`.

**The store.** For a guest (`GuestInv`) two notions carry the proof through every
interleaving. `Fresh`: the guest is still being connected, by one request at most, and
nothing with a payload was issued. `Over`: nobody connects the guest any more, and its
Grant is gone or it was never let in. The index is missing only before the guest exists,
while it is being connected (and then `Fresh` holds), or when all is `Over`; a
revocation carried through is `Over` too. A stored, usable token thus has its index. For
a connected account logins save the Grant again, and the revocation is final only if
none of them has read it before: `SerialInv` says that one request is served at a time,
and that no login is at its save once the Grant is revoked. With overlaps the property
fails, for the reason that the revocation script meets too (section 5). What holds there
too is `GoneForGood`: without a Grant and with a session no request starts a save, so
once no login holds a copy of a Grant that is gone, nothing of it is accepted again.
`CodeInv` is about each code, in every mode and however many presentations of it
overlap: from the first `consume` on, which must succeed for a token to be issued, the
code is marked or gone, and every later `consume` or `find` leaves it so. Those who had
looked it up before may still be given a token. `ListInv` adds that what a request has
read of the list is still so (`seen[f] = list.ttl`, `listed[p] = list.keys`), which is
what overlaps break (`list_ttl_race`), and that the list is never persistent, which is
what a guest breaks (`guest_list_expires`): the two violated runs show that neither
hypothesis can be left out.

**The access.** Each theorem strengthens its property by what a request under way may
still do. `LockedOutInv`: a request that is about to issue a JWT to an account no
longer known found it in this very tick. `LoginInv`: a Grant, and the life under
which one is about to be saved, ends at most 42 days after the last login, so a
request past its Grant's check is of a login younger than that; refresh tokens and
sessions do not count, however long they live. `DeletedInv`: a deletion that
overlaps nothing has read every key that is stored, and nobody is storing any.

**The tables.** `ReadBack` is what an account id gives when it is cut again: type,
structure and the first part of the sub, hence the account itself when the sub has no
separator (`AccountIdRoundTrip`); the properties about ids are stated for those subs,
while the users that log in may have any. `ConnectorsAgree` and `ProfilesAreDistinct`
relate two tables by cases; `IInv` then says that every account that logged in by an IdP
has tokens under its own id, that an exchange is for the target its claims lead to, and
(`LoginUnderway`) that a structure without conseiller carried by a callback is the one
of its user's statut, with the mode active. `ValidationIsExact` follows from the loop
itself: some pass ends it, and whichever does answers the same.

**The revocation.** A step of a request is summed up once (`RequestEffect`): it
takes nothing away, writes each token once, keeps the Grant and account it works
on, and makes no Grant that was not there or read before. Against that summary
`TargetsAreFollowed` traces each target through the script: its Grant is in sight
of the SCAN, then found; its key is in the list of that Grant, then read (`NamesAreRead`),
unless the list lapses first, which makes it one of the `orphans`; then it
is deleted or a DEL has failed, in which case the run does not end normally. An
orphan stays, and is refused all the same (`TargetsAreRefused`, which no list bears
on).
`RefusedGrantsAreGone` says that a Grant whose tokens are refused is not stored
and that no request is about to save it. `ScriptIsOnTarget` says
that each key the script holds belongs to a revoked user, also when it was read in the
list of a Grant, since a list names tokens of its Grant only; `QuietRunSeesAll`, that
what a run which is alone found is deleted, still to be deleted or has failed, and
that the rest was reported.

**Only model-checked.** Liveness (`EveryCallEnds`, `LockIsAlwaysFreed`), out of the
prover's reach with everything about `ENABLED` (`CallsComeToAnEnd` is the part of the
first that is a safety property): every safety property of the passing runs is also
proved, from what the table says. The prover cannot do induction over data or use
`RECURSIVE` operators either; the modules contain neither.

## 5. Abstractions, and what is not modelled

* One account, one Grant or one browser per model: keys of different accounts
  do not interact, except in the revocation script, which has several accounts.
* oidc-provider is reduced to what touches the modelled keys. It accepts a
  refresh token that is stored, unconsumed or not (no rotation), and whose Grant
  is stored; it refuses a Grant of another account; it saves the session at the
  end of `/authorize`.
* Contents of tokens, profiles, coordinates, scopes and the texts of errors are left
  out. A signature is the identity of the key that made it.
* The separator of account ids matters in `AccountRouting` only; the other modules take
  an account for what its id says, as it is for a sub without `|`. Nothing in the code
  asks for that of an IdP.
* `LoginFlow`: the end of an interaction by oidc-provider (`Resume`: find it, open the
  session, destroy it) is one step, so two resumptions of one interaction that overlap
  are left out; they are the library's.
* `AccessRevocation`: besides the IdP tokens, only the lists of the Grants end by their
  TTL. The others (Grants, sessions, codes, refresh tokens) are there until they are
  deleted, the harder case for a run that must find them; a Grant that ends early makes
  its tokens refused, and they are not usable then.
* `AccountRouting` assumes that the API answers the type it was given, and at
  each connector a structure of the table `ApiStructures`; that it creates nobody
  at the first `putUser` of a callback, and at the second the user it is given unless it
  has one. The coordinates are reduced to whether an email is known, the only
  thing the code refuses a login for.
* `AccountAccess` takes Redis commands as executed: their failures are in
  `GrantStore` and `AccessTokenRefresh`. A deletion during which a login or a refresh
  stores tokens may leave them, and `DeletedMeansGone` says nothing of it.
* The model of the script relies on the prerequisite of its runbook only where it says so:
  a login under way or to come is not stopped by it, and `RerunFindsNothing` is
  about runs during which nothing was served.
* `ContextStorage`, the guard, controllers, APM, logs: no effect on this state.

Observed while modelling, consistent with the code, and without a run of their
own:

* After another call's refresh, a call that finds the lock free does not read the
  access token again and refreshes once more.
* `consume` recreates, without payload and without TTL, the key of a code that
  expired since `find`.
* An interaction finished in the very second of its `exp` is saved with a TTL of
  0, which `upsert` takes for none.
* A waiting call sleeps once more after its last poll and gives up without reading
  the token, which may have been stored during that sleep: the answer is then a failure
  although there is a token, which no property forbids (`EveryCallEnds` asks for an
  answer only).
* A deletion of the lock under a refresh lets a second call present the same refresh
  token; at an IdP that rotates, one of the two is refused and its caller told so.
* A Grant is saved at logins only: `/authorize` in a session issues refresh tokens
  of a full life on a Grant that ends before them, whose refreshes are then refused
  (the comment beside the lives, "ISO refresh", is about the two constants). That
  is also what bounds a session that slides (`LoginEvery42Days`).
* A deletion that overlaps a refresh or a login of the account leaves the tokens
  that they store, until these expire or the API asks again.
* A JWT that has expired is reported with the error of the last key of the list,
  most often that of a signature.
* A run of the revocation script that is interrupted between its two series of DELs, or
  that comes after the list of a Grant has lapsed, leaves refresh tokens that no later
  run finds, since they are reached through the Grant and its list. The bilan does not
  count them. They are refused (`SurvivorsAreRefused`), unless a login
  that had read the Grant before its deletion saves it again: the comment
  "sans lui oidc-provider refuse tout refresh" holds but for that window.
* Each load of the guest connection makes a guest that never expires.
* No controller of the repository serves `/choice`, where an unknown hint leads.

## 6. Plan

Done: the core (`AccessTokenRefresh` with `Lease` and `TokenRotation`), the store
(`GrantStore`), the logins (`LoginFlow` with `SignOn`), the tables and the directory of
the API (`AccountRouting`), the life of an account (`AccountAccess`), the script
(`AccessRevocation`), each with its proofs.

An abstract specification of access (granted, revoked, refused) was considered for
`GrantStore` and `AccessRevocation`, and left out: both are about one kind of
step, what is refused stays refused, that `GoneForGood`, `RevokedForGood` and
`SurvivorsAreRefused` state already, each under the condition its module needs.

Next: the sessions and tokens of `AccountAccess` as an abstract specification of
one account's access, with the archive and the deletion as its only ends.
