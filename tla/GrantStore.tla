---------------------------- MODULE GrantStore ----------------------------
(***************************************************************************)
(* What Redis holds of ONE grant of oidc-provider, and everything that     *)
(* reads or writes it:                                                     *)
(*   - RedisAdapter (src/redis/redis.adapter.ts): the codes and refresh    *)
(*     tokens of the grant, the list grant:<id> that names them, the Grant *)
(*     object;                                                             *)
(*   - InviteService.connect, IdpService.callback and generateNewGrantId,  *)
(*     which save the Grant, and for a guest its index grant_invite:<...>; *)
(*   - DeleteAccountUsecase and OidcService.revoquerGrantInvite;           *)
(*   - oidc-provider: /authorize, the exchange of a code, the revocation   *)
(*     of a grant (external, from how src/ configures and serves it).      *)
(*                                                                         *)
(* A guest (Invite) has a Grant and a refresh token that never expire, so  *)
(* nothing but the index leads to them.  One action per Redis command or   *)
(* MULTI/EXEC transaction; TTLs are countdowns with the values of Redis's  *)
(* own TTL command.                                                        *)
(***************************************************************************)
EXTENDS Integers

CONSTANTS
  Flows,      \* requests on the grant: authorize for a code, present a code
  Deletions,  \* concurrent DELETE /accounts/:idAuth (DeleteAccountUsecase)
  Logouts,    \* concurrent revocations of the grant by oidc-provider's logout
  Invite,     \* the account of the grant is a guest's
  CodeTtl,    \* lifetime of a code (60 s)
  TokenTtl,   \* lifetime of a Grant and of a refresh token (42 days)
  Overlap,    \* requests on the grant may overlap, and last
  Faults      \* the faults this instance may meet

ASSUME ProcsAssumption ==
  Flows \cap (Deletions \cup Logouts) = {} /\ Deletions \cap Logouts = {}
ASSUME TtlAssumption == {CodeTtl, TokenTtl} \subseteq Nat \ {0}
ASSUME ModeAssumption == {Invite, Overlap} \subseteq BOOLEAN /\ Faults \subseteq {"redis", "crash"}

VARIABLES
  pc,       \* the Redis command each request is about to send
  presents, \* the authorization whose code a client presents
  seen,     \* the TTL a request has read: of the list, of the Grant it reuses
  listed,   \* the members of the list a revocation has read
  key,      \* AuthorizationCode:<id> and RefreshToken:<id> of each flow
  list,     \* grant:<grantId>
  grant,    \* TTL of Grant:<grantId>
  index,    \* grant_invite:<accountId> leads to the grant
  session,  \* what the browser's session knows of the grant
  revoked,  \* history: a revocation or a deletion has been carried through
  accepted  \* history: the codes that a presentation went past consume with

local == <<pc, seen, listed, presents>>
redis == <<key, list, grant, index>>
vars  == <<local, redis, session, revoked, accepted>>

Procs == Flows \cup Deletions \cup Logouts
Keys  == {"code", "token"} \X Flows

\* The answers of TTL: a number of seconds left, or one of these.
NoExpiry == -1
Absent   == -2
Ttls     == (Nat \ {0}) \cup {NoExpiry, Absent}

Missing   == [ttl |-> Absent, payload |-> FALSE, consumed |-> FALSE]
EmptyList == [ttl |-> Absent, keys |-> {}]

Stored(ttl) == ttl # Absent

\* The TTL given to a Grant or to a refresh token (none for a guest:
\* TTL_INVITE_JAMAIS).
LifeTtl == IF Invite THEN NoExpiry ELSE TokenTtl

\* Redis's order on TTLs: no expiry is the longest life.
AtLeast(s, t) == s = NoExpiry \/ (t # NoExpiry /\ s >= t)

FlowPCs == {"idle", "saveGrant", "renewGrant", "index", "loadGrant", "codeTtl", "codeExec", "issued",
            "findCode", "grantOfCode", "grantOfUsed", "consume", "account",
            "tokenTtl", "tokenExec", "done"}

\* Up to the code, which the client then has.
AuthorizePCs == {"idle", "saveGrant", "renewGrant", "index", "loadGrant", "codeTtl", "codeExec"}

RevokePCs == {"lrange", "exec", "destroy"}
DeletePCs == {"getIndex", "findGrant", "delIndex", "deletePattern"}

TypeOK ==
  /\ pc \in [Procs -> FlowPCs \cup RevokePCs \cup DeletePCs]
  /\ \A f \in Flows : pc[f] \in FlowPCs \cup RevokePCs
  /\ seen \in [Flows -> Ttls]
  /\ listed \in [Procs -> SUBSET Keys]
  /\ presents \in [Flows -> Flows]
  /\ key \in [Keys -> [ttl : Ttls, payload : BOOLEAN, consumed : BOOLEAN]]
  /\ list \in [ttl : Ttls, keys : SUBSET Keys]
  /\ grant \in Ttls
  /\ session \in {"none", "connecting", "open"}
  /\ {index, revoked} \subseteq BOOLEAN
  /\ accepted \subseteq Flows

Init ==
  /\ pc = [p \in Procs |-> "idle"]
  /\ seen = [f \in Flows |-> Absent]
  /\ listed = [p \in Procs |-> {}]
  /\ presents = [f \in Flows |-> f]
  /\ key = [k \in Keys |-> Missing]
  /\ list = EmptyList
  /\ grant = Absent
  /\ index = FALSE
  /\ session = "none"
  /\ revoked = FALSE
  /\ accepted = {}

---------------------------------------------------------------------------
(* Helpers *)

Goto(p, q) == pc' = [pc EXCEPT ![p] = q]

\* A request may arrive: always, or only when no other one is served.
MayStart == Overlap \/ \A p \in Procs : pc[p] \in {"idle", "issued", "done"}

CanFail == "redis" \in Faults

Connecting == \E f \in Flows : pc[f] \in {"saveGrant", "renewGrant", "index"}

KeyOf(f) == IF pc[f] \in {"codeTtl", "codeExec"} THEN <<"code", f>> ELSE <<"token", f>>

ExpiresIn(f) == IF pc[f] \in {"codeTtl", "codeExec"} THEN CodeTtl ELSE LifeTtl

AfterUpsert(f) == IF pc[f] \in {"codeTtl", "codeExec"} THEN "issued" ELSE "done"

---------------------------------------------------------------------------
(* connect, callback: the Grant and its index *)

\* generateNewGrantId without a grant to reuse: a new one.
NewGrant(f) ==
  /\ pc[f] = "idle" /\ MayStart
  /\ session = "none"
  /\ session' = "connecting"
  /\ Goto(f, "saveGrant")
  /\ UNCHANGED <<seen, listed, presents, redis, revoked, accepted>>

\* Mutated ReuseGrant: the Grant of the session is not looked up.
ReuseGrantUnseen(f) ==
  /\ pc[f] = "idle" /\ MayStart
  /\ ~Invite /\ session = "open"
  /\ seen' = [seen EXCEPT ![f] = TokenTtl]
  /\ Goto(f, "renewGrant")
  /\ UNCHANGED <<listed, presents, redis, session, revoked, accepted>>

\* generateNewGrantId of a login in a session that has the grant already
\* (same account; a guest's connect never reuses a grant).
ReuseGrant(f) ==
  /\ pc[f] = "idle" /\ MayStart
  /\ ~Invite /\ session = "open"
  /\ Stored(grant)
  /\ seen' = [seen EXCEPT ![f] = grant]
  /\ Goto(f, "renewGrant")
  /\ UNCHANGED <<listed, presents, redis, session, revoked, accepted>>

\* grant.save(): SET, EXPIRE unless it never expires.  upsert swallows errors.
SaveGrant(f) ==
  /\ pc[f] = "saveGrant"
  /\ grant' \in {LifeTtl} \cup IF CanFail THEN {grant} ELSE {}
  /\ Goto(f, IF Invite THEN "index" ELSE "loadGrant")
  /\ UNCHANGED <<seen, listed, presents, key, list, index, session, revoked, accepted>>

\* A reused Grant is saved again with the end it had (oidc-provider computes
\* it once): what is left of its life, also when it was destroyed meanwhile.
RenewGrant(f) ==
  /\ pc[f] = "renewGrant"
  /\ grant' \in {ttl \in 1..seen[f] : Stored(grant) => ttl = grant}
                 \cup IF CanFail THEN {grant} ELSE {}
  /\ Goto(f, "loadGrant")
  /\ UNCHANGED <<seen, listed, presents, key, list, index, session, revoked, accepted>>

\* Mutated IndexGrant: a failure does not stop the login.
IndexGrantAnyway(f) ==
  /\ pc[f] = "index"
  /\ \/ index' = TRUE
     \/ CanFail /\ UNCHANGED index
  /\ Goto(f, "loadGrant")
  /\ UNCHANGED <<seen, listed, presents, key, list, grant, session, revoked, accepted>>

\* indexerGrantInvite, before the interaction is finished.  An error (the
\* SET executed or not) fails the login.
IndexGrant(f) ==
  /\ pc[f] = "index"
  /\ \/ index' = TRUE /\ Goto(f, "loadGrant")
     \/ CanFail /\ index' \in {TRUE, index} /\ Goto(f, "done")
  /\ UNCHANGED <<seen, listed, presents, key, list, grant, session, revoked, accepted>>

---------------------------------------------------------------------------
(* /authorize *)

\* A browser with a session comes back: no login.
AuthorizeWithSession(f) ==
  /\ pc[f] = "idle" /\ MayStart
  /\ session = "open"
  /\ Goto(f, "loadGrant")
  /\ UNCHANGED <<seen, listed, presents, redis, session, revoked, accepted>>

\* The Grant of the interaction's result, or of the session, must be there.
LoadGrant(f) ==
  /\ pc[f] = "loadGrant"
  /\ Goto(f, IF Stored(grant) THEN "codeTtl" ELSE "done")
  /\ UNCHANGED <<seen, listed, presents, redis, session, revoked, accepted>>

---------------------------------------------------------------------------
(* RedisAdapter.upsert of a code or of a refresh token *)

\* TTL grant:<id>, before the transaction is sent.
ReadListTtl(f) ==
  /\ pc[f] \in {"codeTtl", "tokenTtl"}
  /\ seen' = [seen EXCEPT ![f] = list.ttl]
  /\ Goto(f, IF pc[f] = "codeTtl" THEN "codeExec" ELSE "tokenExec")
  /\ UNCHANGED <<listed, presents, redis, session, revoked, accepted>>

\* Mutated ListTtlAfter: the last token alone decides.
ListTtlOfLast(f, pushed) ==
  IF ExpiresIn(f) = NoExpiry THEN NoExpiry ELSE ExpiresIn(f)

\* The TTL of the list after the transaction, pushed being its TTL after
\* RPUSH: PERSIST, EXPIRE, or nothing when the list was seen to live longer.
ListTtlAfter(f, pushed) ==
  CASE ExpiresIn(f) = NoExpiry -> NoExpiry
    [] ExpiresIn(f) # NoExpiry /\ ExpiresIn(f) > seen[f] -> ExpiresIn(f)
    [] OTHER -> pushed

\* HMSET, EXPIRE, RPUSH and the TTL of the list in one transaction.
\* RPUSH creates a list that never expires.
Exec(f) ==
  /\ key' = [key EXCEPT ![KeyOf(f)] =
       [ttl |-> ExpiresIn(f), payload |-> TRUE, consumed |-> FALSE]]
  /\ list' = [keys |-> list.keys \cup {KeyOf(f)},
              ttl |-> ListTtlAfter(f, IF Stored(list.ttl) THEN list.ttl ELSE NoExpiry)]

\* The code is handed out, and the session keeps the grant; or the token is.
HandOut(f) == Goto(f, AfterUpsert(f)) /\ session' = "open"

\* An error is logged and swallowed.
Upsert(f) ==
  /\ pc[f] \in {"codeExec", "tokenExec"}
  /\ Exec(f) \/ (CanFail /\ UNCHANGED <<key, list>>)
  /\ HandOut(f)
  /\ UNCHANGED <<seen, listed, presents, grant, index, revoked, accepted>>

---------------------------------------------------------------------------
(* The exchange of a code *)

\* The client presents its code, again if no answer has come; or a request of
\* its own presents a code that another one may be presenting (a retry, a
\* reload of the redirection).
Exchange(f) ==
  /\ pc[f] \in {"idle", "issued", "done"} /\ MayStart
  /\ \E g \in Flows :
       /\ pc[g] \notin AuthorizePCs
       /\ g = presents[f] \/ pc[f] = "idle"
       /\ presents' = [presents EXCEPT ![f] = g]
  /\ Goto(f, "findCode")
  /\ UNCHANGED <<seen, listed, redis, session, revoked, accepted>>

CodeOf(f) == <<"code", presents[f]>>

\* find: HGETALL.  No key is no code; a key without payload is an error.
FindCode(f) ==
  /\ pc[f] = "findCode"
  /\ LET code == key[CodeOf(f)] IN
     Goto(f, CASE ~code.payload -> "done"
               [] code.payload /\ code.consumed -> "grantOfUsed"
               [] OTHER -> "grantOfCode")
  /\ UNCHANGED <<seen, listed, presents, redis, session, revoked, accepted>>

\* The Grant must be there; a code already used has its grant revoked.
FindGrantOfCode(f) ==
  /\ pc[f] \in {"grantOfCode", "grantOfUsed"}
  /\ Goto(f, CASE ~Stored(grant) -> "done"
               [] Stored(grant) /\ pc[f] = "grantOfUsed" -> "lrange"
               [] OTHER -> "consume")
  /\ UNCHANGED <<seen, listed, presents, redis, session, revoked, accepted>>

\* Mutated Consume: an error is swallowed, as those of upsert are.
ConsumeSwallows(f) ==
  /\ pc[f] = "consume"
  /\ key' \in {[key EXCEPT ![CodeOf(f)].consumed = TRUE]} \cup IF CanFail THEN {key} ELSE {}
  /\ accepted' = accepted \cup {presents[f]}
  /\ Goto(f, "account")
  /\ UNCHANGED <<seen, listed, presents, list, grant, index, session, revoked>>

\* consume: HSET consumed, which creates the key when it is gone, and does not
\* tell whether another presentation has set it since this one's find.
Consume(f) ==
  /\ pc[f] = "consume"
  /\ LET code == key[CodeOf(f)]
         ttl  == IF Stored(code.ttl) THEN code.ttl ELSE NoExpiry
     IN  key' = [key EXCEPT ![CodeOf(f)] =
           [ttl |-> ttl, payload |-> code.payload, consumed |-> TRUE]]
  /\ accepted' = accepted \cup {presents[f]}
  /\ Goto(f, "account")
  /\ UNCHANGED <<seen, listed, presents, list, grant, index, session, revoked>>

\* findAccount asks the API: known, unknown, or no answer.  A token that
\* never expires needs no TTL read.
FindAccount(f) ==
  /\ pc[f] = "account"
  /\ \E q \in {IF Invite THEN "tokenExec" ELSE "tokenTtl", "done"} : Goto(f, q)
  /\ UNCHANGED <<seen, listed, presents, redis, session, revoked, accepted>>

---------------------------------------------------------------------------
(* Revocation of the grant: revokeByGrantId, then the Grant itself *)

Logout(o) ==
  /\ pc[o] = "idle" /\ MayStart
  /\ session = "open"
  /\ Goto(o, "lrange")
  /\ UNCHANGED <<seen, listed, presents, redis, session, revoked, accepted>>

ReadList(p) ==
  /\ pc[p] = "lrange"
  /\ listed' = [listed EXCEPT ![p] = list.keys]
  /\ Goto(p, "exec")
  /\ UNCHANGED <<seen, presents, redis, session, revoked, accepted>>

\* The keys read before, and the list, are deleted in one transaction.
RevokeByGrantId(p) ==
  /\ pc[p] = "exec"
  /\ key' = [k \in Keys |-> IF k \in listed[p] THEN Missing ELSE key[k]]
  /\ list' = EmptyList
  /\ listed' = [listed EXCEPT ![p] = {}]
  /\ Goto(p, IF p \in Deletions THEN "findGrant" ELSE "destroy")
  /\ UNCHANGED <<seen, presents, grant, index, session, revoked, accepted>>

\* Mutated DestroyGrant: only the tokens are revoked.
DestroyNothing(p) ==
  /\ pc[p] = "destroy"
  /\ Goto(p, IF p \in Deletions THEN "delIndex" ELSE "done")
  /\ revoked' = (revoked \/ p \notin Deletions)
  /\ UNCHANGED <<seen, listed, presents, redis, session, accepted>>

DestroyGrant(p) ==
  /\ pc[p] = "destroy"
  /\ grant' = Absent
  /\ Goto(p, IF p \in Deletions THEN "delIndex" ELSE "done")
  /\ revoked' = (revoked \/ p \notin Deletions)
  /\ UNCHANGED <<seen, listed, presents, key, list, index, session, accepted>>

---------------------------------------------------------------------------
(* DeleteAccountUsecase *)

\* The API deletes accounts it has seen connect.
Delete(d) ==
  /\ pc[d] = "idle" /\ MayStart
  /\ session # "none" /\ ~Connecting
  /\ Goto(d, "getIndex")
  /\ UNCHANGED <<seen, listed, presents, redis, session, revoked, accepted>>

\* revoquerGrantInvite: nothing to revoke without an index.
GetIndex(d) ==
  /\ pc[d] = "getIndex"
  /\ Goto(d, IF index THEN "lrange" ELSE "deletePattern")
  /\ UNCHANGED <<seen, listed, presents, redis, session, revoked, accepted>>

FindGrant(d) ==
  /\ pc[d] = "findGrant"
  /\ Goto(d, IF Stored(grant) THEN "destroy" ELSE "delIndex")
  /\ UNCHANGED <<seen, listed, presents, redis, session, revoked, accepted>>

DelIndex(d) ==
  /\ pc[d] = "delIndex"
  /\ index' = FALSE
  /\ Goto(d, "deletePattern")
  /\ UNCHANGED <<seen, listed, presents, key, list, grant, session, revoked, accepted>>

\* deletePattern(sub): of the keys of this module, only the index names the sub.
DeletePattern(d) ==
  /\ pc[d] = "deletePattern"
  /\ index' = FALSE
  /\ revoked' = (revoked \/ Invite)
  /\ Goto(d, "done")
  /\ UNCHANGED <<seen, listed, presents, key, list, grant, session, accepted>>

\* The API asks again after a failure, or to no purpose.
RetryDelete(d) ==
  /\ d \in Deletions
  /\ pc[d] = "done"
  /\ Goto(d, "idle")
  /\ UNCHANGED <<seen, listed, presents, redis, session, revoked, accepted>>

---------------------------------------------------------------------------
(* Faults and time *)

\* A read rejects, or a process stops: the request is answered by an error,
\* or by nothing.  (A command executed whose reply is lost: the request fails
\* at the next one.)
Fail(p) ==
  /\ \/ "crash" \in Faults
     \/ CanFail /\ pc[p] \notin {"saveGrant", "renewGrant", "codeTtl", "codeExec", "tokenTtl", "tokenExec"}
  /\ pc[p] \notin {"idle", "issued", "done"}
  /\ Goto(p, "done")
  /\ listed' = [listed EXCEPT ![p] = {}]
  /\ UNCHANGED <<seen, presents, redis, session, revoked, accepted>>

\* upsert cannot read the TTL of the list: swallowed, nothing is written.
ReadListTtlFails(f) ==
  /\ CanFail
  /\ pc[f] \in {"codeTtl", "tokenTtl"}
  /\ HandOut(f)
  /\ UNCHANGED <<seen, listed, presents, redis, revoked, accepted>>

\* Mutated Older: a key with no second left is kept.
OlderToZero(ttl) == IF ttl > 0 THEN ttl - 1 ELSE ttl

Older(ttl) == CASE ttl = 1 -> Absent [] ttl > 1 -> ttl - 1 [] OTHER -> ttl

Tick ==
  /\ MayStart
  /\ key' = [k \in Keys |-> IF key[k].ttl = 1 THEN Missing ELSE [key[k] EXCEPT !.ttl = Older(@)]]
  /\ list' = IF list.ttl = 1 THEN EmptyList ELSE [list EXCEPT !.ttl = Older(@)]
  /\ grant' = Older(grant)
  /\ UNCHANGED <<local, index, session, revoked, accepted>>

---------------------------------------------------------------------------
FlowStep(f) ==
  \/ NewGrant(f) \/ SaveGrant(f) \/ ReuseGrant(f) \/ RenewGrant(f) \/ IndexGrant(f)
  \/ AuthorizeWithSession(f) \/ LoadGrant(f)
  \/ ReadListTtl(f) \/ ReadListTtlFails(f) \/ Upsert(f)
  \/ Exchange(f) \/ FindCode(f) \/ FindGrantOfCode(f) \/ Consume(f) \/ FindAccount(f)

DeleteStep(d) ==
  Delete(d) \/ GetIndex(d) \/ FindGrant(d) \/ DelIndex(d) \/ DeletePattern(d) \/ RetryDelete(d)

RevokeStep(p) == ReadList(p) \/ RevokeByGrantId(p) \/ DestroyGrant(p)

Next ==
  \/ \E f \in Flows : FlowStep(f)
  \/ \E d \in Deletions : DeleteStep(d)
  \/ \E o \in Logouts : Logout(o)
  \/ \E p \in Procs : RevokeStep(p) \/ Fail(p)
  \/ Tick

Spec == Init /\ [][Next]_vars

---------------------------------------------------------------------------
(* Properties *)

\* oidc-provider accepts a refresh token that is stored, with its payload,
\* and whose Grant is stored.
Usable(k) == key[k].payload /\ k[1] = "token" /\ Stored(grant)

\* As long as a guest has a usable refresh token, the index leads to its
\* grant: an account deletion, even one repeated after a failure or a crash,
\* finds it (the comment on PREFIX_GRANT_INVITE).
IndexedWhileUsable == Invite /\ (\E k \in Keys : Usable(k)) => index

\* Once a deletion of a guest, a logout or the replay of a code has been
\* carried through, no refresh token of the grant is accepted, whatever was
\* being issued meanwhile.
RevocationIsFinal == revoked => \A k \in Keys : ~Usable(k)

\* A Grant that is gone and that no login has read to save it again is gone
\* for good, and its tokens with it, also where requests overlap
\* (generateNewGrantId looks the Grant up before it reuses its id).
Gone ==
  /\ session # "none" /\ ~Stored(grant)
  /\ \A f \in Flows : pc[f] \notin {"saveGrant", "renewGrant"}
GoneForGood == [][Gone => Gone']_vars

\* A code that find would take for one to exchange.
Exchangeable(f) == key[<<"code", f>>].payload /\ ~key[<<"code", f>>].consumed

\* Once one presentation of a code has gone past consume, on its way to issue
\* tokens, no presentation that looks the code up from then on is accepted: it
\* is marked, expired or revoked, whatever fails, is presented again or comes
\* back.  (Presentations that had looked it up before are all accepted: find and
\* consume are two commands, and consume compares nothing.)
CodeIsSpent == \A f \in accepted : ~Exchangeable(f)

\* Every code and refresh token that is stored is named by a list that lives
\* as long, so that revokeByGrantId reaches it to the end of its life.
ListOutlivesTokens ==
  \A k \in Keys :
    key[k].payload => k \in list.keys /\ AtLeast(list.ttl, key[k].ttl)

\* Every refresh token that is stored is named by the list ("la liste doit
\* lui survivre", redis.adapter.ts; "max des tokens", docs/stockage-redis.md).
ListNamesTokens ==
  \A f \in Flows : key[<<"token", f>>].payload => <<"token", f>> \in list.keys
===========================================================================
