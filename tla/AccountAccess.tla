--------------------------- MODULE AccountAccess ---------------------------
(***************************************************************************)
(* One connected account through its life: what the API knows of it, the   *)
(* session of its browser, the Grants, refresh tokens and JWTs it has been *)
(* given and the tokens of its IdP, with every request that issues one of  *)
(* them or takes it away:                                                  *)
(*   - the login (IdpService.callback), /authorize in a session, the code, *)
(*     the refresh token and the logout of oidc-provider as OidcService    *)
(*     configures it (src/oidc-provider/oidc.service.ts);                  *)
(*   - findAccount, which asks the API at each of them but a login;        *)
(*   - the token exchange (src/oidc-provider/token-exchange.grant.ts);     *)
(*   - DELETE /accounts/:idAuth (src/account/delete-account.usecase.ts).   *)
(*                                                                         *)
(* Lives are countdowns.  A tick is far longer than a request: it may find *)
(* a user at its IdP, never a request half served.                         *)
(* Failures of Redis commands are left to GrantStore and                   *)
(* AccessTokenRefresh; here a request may stop after any of its steps.     *)
(***************************************************************************)
EXTENDS Integers, FiniteSets

CONSTANTS
  Calls,      \* requests that may be served at the same time
  GrantIds,   \* the ids of Grants: bounds those remembered at the same time
  NoGrant,
  Life,       \* 42 days: a refresh token, a new Grant, a session not used
  JwtLife     \* 30 minutes: an access token

ASSUME LifeAssumption == {Life, JwtLife} \subseteq Nat \ {0}
ASSUME GrantAssumption == NoGrant \notin GrantIds

\* The client of the mobile app is native; those of the web and of swagger
\* are not and are told apart by nothing else, hence one for both.  The
\* client of the API may do nothing but exchange JWTs.
Clients == {"app", "web"}
API     == "api"

VARIABLES
  known,    \* the API finds the account
  session,  \* the session of the browser: its life, the Grant of each client
  grants,   \* the life left to each Grant, 0 for none
  tokens,   \* the life left to the last refresh token of each client and Grant
  jwt,      \* the life left to the JWT that lives longest
  idp,      \* the tokens of the IdP that are stored
  call,     \* the requests being served
  del,      \* the deletion being served
  lostFor,  \* history: how long the API has not found the account
  loginAge, \* history: how long ago the API took a login
  purged    \* history: a deletion left nothing, and no login came since

store   == <<session, grants, tokens>>
history == <<lostFor, loginAge, purged>>
vars    == <<known, jwt, store, idp, call, del, history>>

MaybeGrant == GrantIds \cup {NoGrant}
NoGrants   == [c \in Clients |-> NoGrant]

\* What outlives the steps of a request: its client, its Grant (and the life
\* under which it will be saved), the session it has read, and whether a
\* refresh token comes with the JWT.
Idle == [pc |-> "idle", client |-> API, grant |-> NoGrant, life |-> 0, seen |-> NoGrants,
         code |-> FALSE]

\* A deletion: the keys it has still to delete, and whether some token may have
\* been stored since it read them.
NoDeletion == [busy |-> FALSE, keys |-> {}, overlap |-> FALSE]

\* From the putUser of a login on, or within a refresh of the IdP's tokens:
\* what will store tokens of the IdP.
Storing == {"save", "setAccess", "setRefresh"}
PCs == {"idle", "callback", "resume", "lookup", "code", "account", "issue"} \cup Storing

Requests == [pc : PCs, client : Clients \cup {API}, grant : MaybeGrant, life : Nat,
             seen : [Clients -> MaybeGrant], code : BOOLEAN]

TypeOK ==
  /\ {jwt, lostFor, loginAge} \subseteq Nat
  /\ {known, purged} \subseteq BOOLEAN
  /\ session \in [life : Nat, grants : [Clients -> MaybeGrant]]
  /\ grants \in [GrantIds -> Nat]
  /\ tokens \in [Clients -> [GrantIds -> Nat]]
  /\ idp \subseteq {"access", "refresh"}
  /\ call \in [Calls -> Requests]
  /\ del \in [busy : BOOLEAN, keys : SUBSET {"access", "refresh"}, overlap : BOOLEAN]

Init ==
  /\ known = TRUE
  /\ jwt = 0
  /\ session = [life |-> 0, grants |-> NoGrants]
  /\ grants = [g \in GrantIds |-> 0]
  /\ tokens = [c \in Clients |-> [g \in GrantIds |-> 0]]
  /\ idp = {}
  /\ call = [r \in Calls |-> Idle]
  /\ del = NoDeletion
  /\ lostFor = 0 /\ loginAge = 0 /\ purged = FALSE

---------------------------------------------------------------------------
(* Helpers *)

SessionLive  == session.life > 0
GrantLive(g) == g \in GrantIds /\ grants[g] > 0

\* An id that nothing remembers.
Unused(g) ==
  /\ grants[g] = 0
  /\ g \notin {session.grants[c] : c \in Clients}
  /\ \A c \in Clients : tokens[c][g] = 0
  /\ \A r \in Calls : g # call[r].grant /\ g \notin {call[r].seen[c] : c \in Clients}

Larger(a, b)  == IF a > b THEN a ELSE b
Smaller(a, b) == IF a < b THEN a ELSE b

\* Mutated Older: what has ended goes on ageing.
OlderForEver(life) == life - 1

Older(life) == IF life > 0 THEN life - 1 ELSE 0

\* expiresWithSession: a code or refresh token of a client that is not native
\* needs the session that issued it, with the Grant that it gave this client.
SessionAllows(client, g) ==
  client = "app" \/ (SessionLive /\ session.grants[client] = g)

At(r, pc)   == call[r].pc = pc
Goto(r, pc) == call' = [call EXCEPT ![r].pc = pc]
End(r)      == call' = [call EXCEPT ![r] = Idle]

\* GET /auth/users/:sub: the user, 404, or any other failure.
getUser == {IF known THEN "user" ELSE "NonTrouve", "ErreurReseauIDP"}

\* The session is saved for 42 days more by each request that touches it.
SaveSession(given) == session' = [life |-> Life, grants |-> given]

---------------------------------------------------------------------------
(* Login *)

\* /authorize of the app (a native client always interacts) or without a
\* session: the browser goes to the IdP.
StartLogin(r, c) ==
  /\ At(r, "idle")
  /\ c = "app" \/ ~SessionLive
  /\ call' = [call EXCEPT ![r] = [Idle EXCEPT !.pc = "callback", !.client = c,
       !.grant = IF SessionLive THEN session.grants[c] ELSE NoGrant]]
  /\ UNCHANGED <<known, jwt, store, idp, del, history>>

\* generateNewGrantId: the Grant that the session had given the client, or a
\* new one.  A Grant that was found keeps its end (oidc-provider computes it
\* when the Grant is first saved).
FindGrant(r) ==
  \/ /\ GrantLive(call[r].grant)
     /\ call' = [call EXCEPT ![r].pc = "save", ![r].life = grants[call[r].grant]]
  \/ /\ ~GrantLive(call[r].grant)
     /\ \E g \in {h \in GrantIds : Unused(h)} :
          call' = [call EXCEPT ![r].pc = "save", ![r].life = Life, ![r].grant = g]

\* callback: the API takes the user, whom it may create (again), then the
\* Grant is looked for; what happens in between could as well happen before.
\* When the API refuses the request stops.
PutUser(r) ==
  /\ At(r, "callback")
  /\ known' = TRUE
  /\ FindGrant(r)
  /\ del' = [del EXCEPT !.overlap = @ \/ del.busy]
  /\ lostFor' = 0 /\ loginAge' = 0 /\ purged' = FALSE
  /\ UNCHANGED <<jwt, store, idp>>

SaveGrant(r) ==
  /\ At(r, "save")
  /\ grants' = [grants EXCEPT ![call[r].grant] = call[r].life]
  /\ call' = [call EXCEPT ![r].pc = "setAccess", ![r].life = 0]
  /\ UNCHANGED <<known, jwt, session, tokens, idp, del, history>>

\* The tokens of the IdP are stored one after the other, by a login and by
\* the refresh of a token exchange; the login then ends its interaction.
SetAccessToken(r) ==
  /\ At(r, "setAccess")
  /\ idp' = idp \cup {"access"}
  /\ Goto(r, "setRefresh")
  /\ UNCHANGED <<known, jwt, store, del, history>>

SetRefreshToken(r) ==
  /\ At(r, "setRefresh")
  /\ idp' = idp \cup {"refresh"}
  /\ IF call[r].client = API THEN End(r) ELSE Goto(r, "resume")
  /\ UNCHANGED <<known, jwt, store, del, history>>

\* The interaction is resumed.  findAccount takes the user from its result
\* and asks nobody.  The session gets the Grant, the client a code.
Resume(r) ==
  /\ At(r, "resume")
  /\ GrantLive(call[r].grant)
  /\ LET given == IF SessionLive THEN session.grants ELSE NoGrants
     IN  SaveSession([given EXCEPT ![call[r].client] = call[r].grant])
  /\ call' = [call EXCEPT ![r].pc = "code", ![r].code = TRUE]
  /\ UNCHANGED <<known, jwt, grants, tokens, idp, del, history>>

---------------------------------------------------------------------------
(* /authorize in a session *)

\* The web comes back with a session: findAccount will ask the API.
Authorize(r) ==
  /\ At(r, "idle")
  /\ SessionLive
  /\ call' = [call EXCEPT ![r] =
       [Idle EXCEPT !.pc = "lookup", !.client = "web", !.seen = session.grants]]
  /\ UNCHANGED <<known, jwt, store, idp, del, history>>

\* Mutated AccountOfSession: the Grant is given the life of the session.
AccountOfSessionAligned(r) ==
  /\ At(r, "lookup")
  /\ LET g == call[r].seen["web"]
     IN  \E user \in getUser \ {"ErreurReseauIDP"} :
           IF user = "user" /\ GrantLive(g)
             THEN /\ call' = [call EXCEPT ![r] =
                       [@ EXCEPT !.pc = "code", !.grant = g, !.seen = NoGrants, !.code = TRUE]]
                  /\ grants' = [grants EXCEPT ![g] = Life]
             ELSE /\ call' = [call EXCEPT ![r] =
                       [@ EXCEPT !.pc = "callback", !.grant = g, !.seen = NoGrants]]
                  /\ UNCHANGED grants
  /\ SaveSession(call[r].seen)
  /\ UNCHANGED <<known, jwt, tokens, idp, del, history>>

\* The policy of the prompt "login": a session whose account findAccount does
\* not find is sent to the login, and so is a client without a live Grant.
\* Otherwise a code is issued.  The session is saved as it was read.
AccountOfSession(r) ==
  /\ At(r, "lookup")
  /\ LET g == call[r].seen["web"]
     IN  \E user \in getUser \ {"ErreurReseauIDP"} :
           call' = [call EXCEPT ![r] =
             IF user = "user" /\ GrantLive(g)
               THEN [@ EXCEPT !.pc = "code", !.grant = g, !.seen = NoGrants, !.code = TRUE]
               ELSE [@ EXCEPT !.pc = "callback", !.grant = g, !.seen = NoGrants]]
  /\ SaveSession(call[r].seen)
  /\ UNCHANGED <<known, jwt, grants, tokens, idp, del, history>>

---------------------------------------------------------------------------
(* /token: codes and refresh tokens *)

\* A code is exchanged within its 60 seconds, if its Grant and, for the web,
\* its session are still there.
ExchangeCode(r) ==
  /\ At(r, "code")
  /\ GrantLive(call[r].grant)
  /\ SessionAllows(call[r].client, call[r].grant)
  /\ Goto(r, "account")
  /\ UNCHANGED <<known, jwt, store, idp, del, history>>

\* A refresh token is presented.  It is not rotated.
Refresh(r, c, g) ==
  /\ At(r, "idle")
  /\ tokens[c][g] > 0
  /\ GrantLive(g)
  /\ SessionAllows(c, g)
  /\ call' = [call EXCEPT ![r] = [Idle EXCEPT !.pc = "account", !.client = c, !.grant = g]]
  /\ UNCHANGED <<known, jwt, store, idp, del, history>>

\* Mutated FindAccount: only a user that is not found is refused, a failing API
\* leaves the user as it was.
FindAccountOrFailure(r) ==
  /\ At(r, "account")
  /\ \E user \in getUser : IF user # "NonTrouve" THEN Goto(r, "issue") ELSE End(r)
  /\ UNCHANGED <<known, jwt, store, idp, del, history>>

\* findAccount: no user is invalid_grant, a failure of the API is an error.
\* Both end the request.
FindAccount(r) ==
  /\ At(r, "account")
  /\ \E user \in getUser : IF user = "user" THEN Goto(r, "issue") ELSE End(r)
  /\ UNCHANGED <<known, jwt, store, idp, del, history>>

\* A JWT; with a code, also a refresh token (issueRefreshToken).
IssueTokens(r) ==
  /\ At(r, "issue")
  /\ jwt' = Larger(jwt, JwtLife)
  /\ tokens' = IF call[r].code
                 THEN [tokens EXCEPT ![call[r].client][call[r].grant] = Life]
                 ELSE tokens
  /\ End(r)
  /\ UNCHANGED <<known, session, grants, idp, del, history>>

---------------------------------------------------------------------------
(* The token exchange *)

\* The API presents a JWT of the account or, by delegation, of another one,
\* which it may have at any time.  A stored access token is answered at once
\* and nothing changes.  A request that found none reads the refresh token
\* (another may have stored an access token meanwhile) and sends it to the
\* IdP; without one the exchange is refused, and nothing changes.
TokenExchange(r) ==
  /\ At(r, "idle")
  /\ "refresh" \in idp
  /\ call' = [call EXCEPT ![r] = [Idle EXCEPT !.pc = "setAccess"]]
  /\ del' = [del EXCEPT !.overlap = @ \/ del.busy]
  /\ UNCHANGED <<known, jwt, store, idp, history>>

---------------------------------------------------------------------------
(* Logout and deletion *)

\* end_session of the web: the Grant that the session gave it is revoked with
\* its tokens.  The session stays (the page submits the form without
\* logout=yes), and so does the Grant of the app (persistsLogout).
Logout ==
  /\ SessionLive
  /\ LET g == session.grants["web"]
     IN  /\ g # NoGrant
         /\ grants' = [grants EXCEPT ![g] = 0]
         /\ tokens' = [c \in Clients |-> [tokens[c] EXCEPT ![g] = 0]]
  /\ SaveSession([session.grants EXCEPT !["web"] = NoGrant])
  /\ UNCHANGED <<known, jwt, idp, call, del, history>>

\* The API archives the user.
Archive ==
  /\ known
  /\ known' = FALSE
  /\ lostFor' = 0
  /\ UNCHANGED <<jwt, store, idp, call, del, loginAge, purged>>

\* DeleteAccountUsecase for a connected account: no index of a guest, then
\* KEYS *sub*.  Of the keys of the account, only those of its IdP tokens (and
\* of its lock) hold the sub.
ReadKeys ==
  /\ ~del.busy
  /\ del' = [busy |-> TRUE, keys |-> idp,
             overlap |-> \E r \in Calls : call[r].pc \in Storing]
  /\ UNCHANGED <<known, jwt, store, idp, call, history>>

\* Mutated DeleteKey: the loop stops after the first key.
DeleteKeyAndStop(k) ==
  /\ del.busy /\ k \in del.keys
  /\ idp' = idp \ {k}
  /\ del' = [del EXCEPT !.keys = {}]
  /\ UNCHANGED <<known, jwt, store, call, history>>

\* One DEL per key that KEYS had answered.
DeleteKey(k) ==
  /\ del.busy /\ k \in del.keys
  /\ idp' = idp \ {k}
  /\ del' = [del EXCEPT !.keys = @ \ {k}]
  /\ UNCHANGED <<known, jwt, store, call, history>>

\* emptySuccess.
EndDeletion ==
  /\ del.busy /\ del.keys = {}
  /\ del' = NoDeletion
  /\ purged' = (purged \/ ~del.overlap)
  /\ UNCHANGED <<known, jwt, store, idp, call, lostFor, loginAge>>

\* A command fails (DELETE_TOKENS is answered) or the process stops; the API
\* may ask again.
FailDeletion ==
  /\ del.busy
  /\ del' = NoDeletion
  /\ UNCHANGED <<known, jwt, store, idp, call, history>>

---------------------------------------------------------------------------
(* Failures and time *)

\* A request fails, is refused, or its user goes no further.
Stop(r) ==
  /\ ~At(r, "idle")
  /\ End(r)
  /\ UNCHANGED <<known, jwt, store, idp, del, history>>

\* A token of the IdP reaches its own expiry.
IdpTokenExpires(k) ==
  /\ k \in idp
  /\ idp' = idp \ {k}
  /\ UNCHANGED <<known, jwt, store, call, del, history>>

\* A code does not live as long as a tick.
Tick ==
  /\ \A r \in Calls : call[r].pc \in {"idle", "callback", "code"}
  /\ call' = [r \in Calls |-> IF At(r, "code") THEN Idle ELSE call[r]]
  /\ session' = [session EXCEPT !.life = Older(@)]
  /\ grants' = [g \in GrantIds |-> Older(grants[g])]
  /\ tokens' = [c \in Clients |-> [g \in GrantIds |-> Older(tokens[c][g])]]
  /\ jwt' = Older(jwt)
  /\ lostFor' = IF known THEN lostFor ELSE Smaller(lostFor + 1, JwtLife)
  /\ loginAge' = Smaller(loginAge + 1, Life + JwtLife)
  /\ UNCHANGED <<known, idp, del, purged>>

---------------------------------------------------------------------------
LoginStep(r) ==
  \/ \E c \in Clients : StartLogin(r, c)
  \/ PutUser(r) \/ SaveGrant(r)
  \/ SetAccessToken(r) \/ SetRefreshToken(r) \/ Resume(r)

TokenStep(r) ==
  \/ Authorize(r) \/ AccountOfSession(r) \/ ExchangeCode(r)
  \/ \E c \in Clients, g \in GrantIds : Refresh(r, c, g)
  \/ FindAccount(r) \/ IssueTokens(r)
  \/ TokenExchange(r)

DeletionStep == ReadKeys \/ EndDeletion \/ FailDeletion \/ \E k \in del.keys : DeleteKey(k)

Next ==
  \/ \E r \in Calls : LoginStep(r) \/ TokenStep(r) \/ Stop(r)
  \/ Logout \/ Archive \/ DeletionStep
  \/ \E k \in idp : IdpTokenExpires(k)
  \/ Tick

Spec == Init /\ [][Next]_vars

---------------------------------------------------------------------------
(* Properties *)

\* An account that the API no longer finds is locked out within the life of
\* one JWT: whatever it keeps (session, refresh tokens, codes, a login under
\* way when it was archived) gets it no JWT any more ("inutilisable des que
\* l'api ne trouve plus le compte", docs/stockage-redis.md).
LockedOut == ~known => jwt + lostFor <= JwtLife

\* The session slides and /authorize in it issues refresh tokens with a full
\* life, and yet nobody is given JWTs for longer than 42 days without a login
\* at the IdP that the API takes: the Grant ends.
LoginEvery42Days == jwt + loginAge <= Life + JwtLife

\* Once a deletion has been carried through while no login and no refresh of
\* the IdP's tokens was storing any (purged), no token of the IdP is left to
\* be exchanged, nor about to be stored, until the user logs in again.
DeletedMeansGone == purged => idp = {} /\ \A r \in Calls : call[r].pc \notin Storing

===========================================================================
