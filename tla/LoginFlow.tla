----------------------------- MODULE LoginFlow -----------------------------
(***************************************************************************)
(* The logins of one browser.  /authorize opens an Interaction and sends   *)
(* the browser to an identity provider with state = nonce = the uid of the *)
(* interaction; the IdP sends it back to IdpService.callback, which finds  *)
(* the interaction, exchanges the code, asks the API for the user, saves a *)
(* Grant, stores the IdP tokens, writes the result into the interaction    *)
(* and sends the browser to /auth/:uid, where oidc-provider opens the      *)
(* session.  A guest has no IdP: InviteService.connect makes its account.  *)
(*                                                                         *)
(* Requests interleave at every await: two tabs, a reloaded callback, a    *)
(* second login on the interaction of another, interactions that expire    *)
(* while a request works on its copy of them, cookies that browsers drop.  *)
(***************************************************************************)
EXTENDS Naturals, FiniteSets

CONSTANTS
  Requests,      \* callbacks and guest connections, each run once
  Interactions,  \* uids of interactions
  Grants,        \* ids of Grants
  Users,         \* users of the identity provider, one account each
  None

\* The account of a guest is made by the request that connects it.
GuestOf(r) == <<"invite", r>>
Accounts   == Users \cup {GuestOf(r) : r \in Requests}

ASSUME NoneAssumption ==
  None \notin Interactions \cup Grants \cup Accounts
                \cup [interaction : Interactions, account : Accounts]
\* Account.fromAccountToAccountId: the structure INVITE is that of no user of an IdP.
ASSUME GuestAssumption == \A r \in Requests : GuestOf(r) \notin Users

VARIABLES
  pc,          \* where each request is
  nonce,       \* the interaction whose uid the request carries
  stateKept,   \* the state parameter came back from the IdP
  code,        \* the request that first presented its authorization code
  target,      \* the interaction it recovered
  account,     \* who it logs in
  grantId,     \* the Grant it works on
  usedCodes,   \* authorization codes the IdP has exchanged
  life,        \* of an interaction: before, at and after the second of its exp
  stored,      \* interactions stored in Redis
  grantOf,     \* the session's Grant when the interaction was opened
  result,      \* what the stored interaction says of the login
  consumed,    \* interactions resumed once
  cookie,      \* the interaction cookie of the browser
  session,     \* the SSO session of the browser
  owner,       \* the account of each Grant ever saved
  grants,      \* Grants stored in Redis
  withTokens   \* accounts whose IdP access token was stored

requestVars     == <<pc, nonce, stateKept, code, target, account, grantId>>
interactionVars == <<life, stored, grantOf, result, consumed, cookie>>
grantVars       == <<owner, grants>>
vars == <<requestVars, usedCodes, interactionVars, session, grantVars, withTokens>>

Working == {"recover", "exchange", "api", "findInteraction", "putInvite", "findGrant",
            "saveGrant", "indexGrant", "setAccess", "setRefresh",
            "finish"}
Ended   == {"done", "SessionNotFound", "Callback", "failed"}

Result == [account : Accounts, grant : Grants]

TypeOK ==
  /\ pc \in [Requests -> {"idle"} \cup Working \cup Ended]
  /\ nonce \in [Requests -> Interactions \cup {None}]
  /\ stateKept \in [Requests -> BOOLEAN]
  /\ code \in [Requests -> Requests]
  /\ target \in [Requests -> Interactions \cup {None}]
  /\ account \in [Requests -> Accounts \cup {None}]
  /\ grantId \in [Requests -> Grants \cup {None}]
  /\ usedCodes \subseteq Requests
  /\ life \in [Interactions -> {"unopened", "live", "due", "over"}]
  /\ stored \subseteq Interactions
  /\ grantOf \in [Interactions -> Grants \cup {None}]
  /\ result \in [Interactions -> Result \cup {None}]
  /\ consumed \subseteq Interactions
  /\ cookie \in Interactions \cup {None}
  /\ session \in Result \cup {None}
  /\ owner \in [Grants -> Accounts \cup {None}]
  /\ grants \subseteq Grants
  /\ withTokens \subseteq Accounts

Init ==
  /\ pc = [r \in Requests |-> "idle"]
  /\ nonce = [r \in Requests |-> None]
  /\ stateKept = [r \in Requests |-> TRUE]
  /\ code = [r \in Requests |-> r]
  /\ target = [r \in Requests |-> None]
  /\ account = [r \in Requests |-> None]
  /\ grantId = [r \in Requests |-> None]
  /\ usedCodes = {}
  /\ life = [i \in Interactions |-> "unopened"]
  /\ stored = {}
  /\ grantOf = [i \in Interactions |-> None]
  /\ result = [i \in Interactions |-> None]
  /\ consumed = {}
  /\ cookie = None
  /\ session = None
  /\ owner = [g \in Grants |-> None]
  /\ grants = {}
  /\ withTokens = {}

Goto(r, from, to) ==
  /\ pc[r] = from
  /\ pc' = [pc EXCEPT ![r] = to]

---------------------------------------------------------------------------
(* The browser *)

\* /authorize: oidc-provider stores an interaction, with the Grant of the
\* session if there is one, and sets its cookie.
Authorize(i) ==
  /\ life[i] = "unopened"
  /\ life' = [life EXCEPT ![i] = "live"]
  /\ stored' = stored \cup {i}
  /\ grantOf' = [grantOf EXCEPT ![i] = IF session = None THEN None ELSE session.grant]
  /\ cookie' = i
  /\ UNCHANGED <<requestVars, usedCodes, result, consumed, session, grantVars, withTokens>>

\* Browsers purge the cookies of domains that only redirect.
LoseCookie ==
  /\ cookie # None
  /\ cookie' = None
  /\ UNCHANGED <<requestVars, usedCodes, life, stored, grantOf, result, consumed, session,
                 grantVars, withTokens>>

\* connect, then the user authenticates at the IdP: the id token will carry
\* the uid of the interaction as nonce, and so does the state, which an
\* interaction opened before a deployment may lack.
ReturnFromIdp(r, i, user, kept) ==
  /\ Goto(r, "idle", "recover")
  /\ life[i] # "unopened"
  /\ nonce' = [nonce EXCEPT ![r] = i]
  /\ account' = [account EXCEPT ![r] = user]
  /\ stateKept' = [stateKept EXCEPT ![r] = kept]
  /\ UNCHANGED <<code, target, grantId, usedCodes, interactionVars, session, grantVars,
                 withTokens>>

\* The callback URL is loaded again.
Reload(r, first) ==
  /\ Goto(r, "idle", "recover")
  /\ pc[first] # "idle"
  /\ account[first] \in Users
  /\ nonce' = [nonce EXCEPT ![r] = nonce[first]]
  /\ account' = [account EXCEPT ![r] = account[first]]
  /\ stateKept' = [stateKept EXCEPT ![r] = stateKept[first]]
  /\ code' = [code EXCEPT ![r] = code[first]]
  /\ UNCHANGED <<target, grantId, usedCodes, interactionVars, session, grantVars, withTokens>>

\* The hint "invite" sends the browser to the path with the uid; a reload
\* makes another guest.
ConnectInvite(r, i) ==
  /\ Goto(r, "idle", "findInteraction")
  /\ life[i] # "unopened"
  /\ nonce' = [nonce EXCEPT ![r] = i]
  /\ UNCHANGED <<stateKept, code, target, account, grantId, usedCodes, interactionVars,
                 session, grantVars, withTokens>>

---------------------------------------------------------------------------
(* IdpService.callback *)

\* Mutated Recover: the cookie first, as oidc-provider does.
RecoverByCookie(r) ==
  /\ IF cookie \in stored
       THEN /\ Goto(r, "recover", "exchange")
            /\ target' = [target EXCEPT ![r] = cookie]
            /\ UNCHANGED cookie
       ELSE /\ Goto(r, "recover", "SessionNotFound")
            /\ cookie' = None
            /\ UNCHANGED target
  /\ UNCHANGED <<nonce, stateKept, code, account, grantId, usedCodes, life, stored, grantOf,
                 result, consumed, session, grantVars, withTokens>>

\* recoverInteraction: by the state, else by the cookie, whose interaction
\* oidc-provider may refuse for its session.  A failure clears the
\* interaction cookies and nothing else.
Recover(r) ==
  /\ \/ /\ stateKept[r] /\ nonce[r] \in stored
        /\ Goto(r, "recover", "exchange")
        /\ target' = [target EXCEPT ![r] = nonce[r]]
        /\ UNCHANGED cookie
     \/ /\ ~ (stateKept[r] /\ nonce[r] \in stored)
        /\ cookie \in stored
        /\ Goto(r, "recover", "exchange")
        /\ target' = [target EXCEPT ![r] = cookie]
        /\ UNCHANGED cookie
     \/ /\ ~ (stateKept[r] /\ nonce[r] \in stored)
        /\ Goto(r, "recover", "SessionNotFound")
        /\ cookie' = None
        /\ UNCHANGED target
  /\ UNCHANGED <<nonce, stateKept, code, account, grantId, usedCodes, life, stored, grantOf,
                 result, consumed, session, grantVars, withTokens>>

\* Mutated Exchange: the nonce is not checked.
ExchangeAnyNonce(r) ==
  /\ code[r] \notin usedCodes
  /\ usedCodes' = usedCodes \cup {code[r]}
  /\ Goto(r, "exchange", "api")
  /\ UNCHANGED <<nonce, stateKept, code, target, account, grantId, interactionVars, session,
                 grantVars, withTokens>>

\* client.callback: the IdP exchanges a code once, and the nonce of the id
\* token must be the uid of the recovered interaction.
Exchange(r) ==
  /\ usedCodes' = usedCodes \cup {code[r]}
  /\ IF code[r] \notin usedCodes /\ nonce[r] = target[r]
       THEN Goto(r, "exchange", "api")
       ELSE Goto(r, "exchange", "Callback")
  /\ UNCHANGED <<nonce, stateKept, code, target, account, grantId, interactionVars, session,
                 grantVars, withTokens>>

\* userinfo, getCoordonnees, the check of departmental conseillers and
\* putUser, asked again with another profile for a user without conseiller:
\* who they answer is the user, and their refusals are failures of the
\* request.
PutUser(r) ==
  /\ Goto(r, "api", "findGrant")
  /\ UNCHANGED <<nonce, stateKept, code, target, account, grantId, usedCodes,
                 interactionVars, session, grantVars, withTokens>>

---------------------------------------------------------------------------
(* generateNewGrantId: the session's Grant if it is the account's, or a new *)
(* one; read and saved in two commands                                      *)

NewGrants == {g \in Grants : owner[g] = None /\ \A r \in Requests : grantId[r] # g}

\* Mutated Reusable: whoever it belongs to.
AnyStored(r, g) == g \in grants

Reusable(r, g) == g \in grants /\ owner[g] = account[r]

\* Mutated FindGrant: no Grant is created when there is none to reuse.
FindGrantOnly(r) ==
  /\ Goto(r, "findGrant", "saveGrant")
  /\ grantId' = [grantId EXCEPT ![r] = grantOf[target[r]]]
  /\ UNCHANGED <<nonce, stateKept, code, target, account, usedCodes, interactionVars, session,
                 grantVars, withTokens>>

\* findGrant or createGrant.  A guest never reuses a Grant.
FindGrant(r) ==
  /\ Goto(r, "findGrant", "saveGrant")
  /\ LET old == grantOf[target[r]]
     IN  \/ /\ account[r] \in Users /\ old # None /\ Reusable(r, old)
            /\ grantId' = [grantId EXCEPT ![r] = old]
         \/ /\ ~ (account[r] \in Users /\ old # None /\ Reusable(r, old))
            /\ \E g \in NewGrants : grantId' = [grantId EXCEPT ![r] = g]
  /\ UNCHANGED <<nonce, stateKept, code, target, account, usedCodes, interactionVars, session,
                 grantVars, withTokens>>

\* grant.save: the scopes are added and the Grant written, even if it was
\* destroyed since it was read.
SaveGrant(r) ==
  /\ Goto(r, "saveGrant", IF account[r] \in Users THEN "setAccess" ELSE "indexGrant")
  /\ owner' = [owner EXCEPT ![grantId[r]] = IF @ = None THEN account[r] ELSE @]
  /\ grants' = grants \cup {grantId[r]}
  /\ UNCHANGED <<nonce, stateKept, code, target, account, grantId, usedCodes,
                 interactionVars, session, withTokens>>

\* Mutated SetAccess: an error of Redis is swallowed.
SetAccessOrNot(r) ==
  /\ Goto(r, "setAccess", "setRefresh")
  /\ withTokens' \in {withTokens, withTokens \cup {account[r]}}
  /\ UNCHANGED <<nonce, stateKept, code, target, account, grantId, usedCodes,
                 interactionVars, session, grantVars>>

\* setToken of the access token.
SetAccess(r) ==
  /\ Goto(r, "setAccess", "setRefresh")
  /\ withTokens' = withTokens \cup {account[r]}
  /\ UNCHANGED <<nonce, stateKept, code, target, account, grantId, usedCodes,
                 interactionVars, session, grantVars>>

\* setToken of the refresh token, if the IdP gave one; what becomes of it is
\* in AccessTokenRefresh.
SetRefresh(r) ==
  /\ Goto(r, "setRefresh", "finish")
  /\ UNCHANGED <<nonce, stateKept, code, target, account, grantId, usedCodes,
                 interactionVars, session, grantVars, withTokens>>

---------------------------------------------------------------------------
(* InviteService.connect *)

\* By the uid of the path; the guest mode may be disabled, which is a
\* failure of the request.
FindInteraction(r) ==
  /\ Goto(r, "findInteraction", IF nonce[r] \in stored THEN "putInvite" ELSE "SessionNotFound")
  /\ target' = [target EXCEPT ![r] = IF nonce[r] \in stored THEN nonce[r] ELSE None]
  /\ UNCHANGED <<nonce, stateKept, code, account, grantId, usedCodes, interactionVars,
                 session, grantVars, withTokens>>

\* putUtilisateurInvite with a sub made here.
PutInvite(r) ==
  /\ Goto(r, "putInvite", "findGrant")
  /\ account' = [account EXCEPT ![r] = GuestOf(r)]
  /\ UNCHANGED <<nonce, stateKept, code, target, grantId, usedCodes, interactionVars,
                 session, grantVars, withTokens>>

\* indexerGrantInvite; what the index is for is in GrantStore.
IndexGrant(r) ==
  /\ Goto(r, "indexGrant", "finish")
  /\ UNCHANGED <<nonce, stateKept, code, target, account, grantId, usedCodes,
                 interactionVars, session, grantVars, withTokens>>

---------------------------------------------------------------------------
(* The end of a request *)

\* finishInteraction writes the request's copy of the interaction back with
\* what is left of its hour.  With nothing left the key is written without a
\* TTL; past the hour EXPIRE removes it at once.  The cookies are set again.
Finish(r) ==
  /\ Goto(r, "finish", "done")
  /\ result' = [result EXCEPT ![target[r]] = [account |-> account[r], grant |-> grantId[r]]]
  /\ stored' = IF life[target[r]] = "over" THEN stored \ {target[r]} ELSE stored \cup {target[r]}
  /\ cookie' = target[r]
  /\ UNCHANGED <<nonce, stateKept, code, target, account, grantId, usedCodes, life, grantOf,
                 consumed, session, grantVars, withTokens>>

\* Any await may reject (IdP, API, Redis), the API may refuse the user, the
\* process may stop.
Fail(r) ==
  /\ pc[r] \in Working
  /\ Goto(r, pc[r], "failed")
  /\ UNCHANGED <<nonce, stateKept, code, target, account, grantId, usedCodes,
                 interactionVars, session, grantVars, withTokens>>

---------------------------------------------------------------------------
(* oidc-provider *)

\* Mutated Resume: the interaction is not destroyed.
ResumeKeeps(i) ==
  /\ i \in stored
  /\ result[i] # None
  /\ session' = result[i]
  /\ consumed' = consumed \cup {i}
  /\ UNCHANGED <<requestVars, usedCodes, life, stored, grantOf, result, cookie, grantVars,
                 withTokens>>

\* /auth/:uid, whose cookie ensureResumeCookie makes from the path: the
\* stored result opens the session and the interaction is destroyed.  In one
\* step: oidc-provider reads and destroys it by two commands, and two
\* resumptions of one interaction that overlap are left out.
Resume(i) ==
  /\ i \in stored
  /\ result[i] # None
  /\ session' = result[i]
  /\ stored' = stored \ {i}
  /\ consumed' = consumed \cup {i}
  /\ UNCHANGED <<requestVars, usedCodes, life, grantOf, result, cookie, grantVars, withTokens>>

\* The session ends; its Grant goes with it or, for a native client, stays.
Logout ==
  /\ session # None
  /\ session' = None
  /\ grants' \in {grants, grants \ {session.grant}}
  /\ UNCHANGED <<requestVars, usedCodes, interactionVars, owner, withTokens>>

\* Time: the second of its exp, when an interaction saved with a TTL is gone,
\* and after.
Age(i) ==
  /\ \/ /\ life[i] = "live"
        /\ life' = [life EXCEPT ![i] = "due"]
        /\ stored' = stored \ {i}
     \/ /\ life[i] = "due"
        /\ life' = [life EXCEPT ![i] = "over"]
        /\ UNCHANGED stored
  /\ UNCHANGED <<requestVars, usedCodes, grantOf, result, consumed, cookie, session, grantVars,
                 withTokens>>

Next ==
  \/ \E i \in Interactions : Authorize(i) \/ Resume(i) \/ Age(i)
  \/ LoseCookie \/ Logout
  \/ \E r \in Requests, i \in Interactions, user \in Users, kept \in BOOLEAN :
       ReturnFromIdp(r, i, user, kept)
  \/ \E r, first \in Requests : Reload(r, first)
  \/ \E r \in Requests, i \in Interactions : ConnectInvite(r, i)
  \/ \E r \in Requests :
       \/ Recover(r) \/ Exchange(r) \/ PutUser(r) \/ FindGrant(r) \/ SaveGrant(r)
       \/ SetAccess(r) \/ SetRefresh(r) \/ FindInteraction(r) \/ PutInvite(r)
       \/ IndexGrant(r) \/ Finish(r) \/ Fail(r)

Spec == Init /\ [][Next]_vars

---------------------------------------------------------------------------
(* Properties *)

\* The result of an interaction names a user who authenticated at the IdP
\* for that very interaction, or the guest made for it: neither the cookie of
\* another tab nor a state from elsewhere puts a user into an interaction.
FinishedByItsOwnLogin ==
  \A i \in Interactions : result[i] # None =>
    \E r \in Requests :
      pc[r] = "done" /\ nonce[r] = i /\ account[r] = result[i].account

\* The Grant of a session, and of a result that may become one, belongs to
\* its account (oidc-provider refuses the others: accountId mismatch), also
\* when a guest logs in, or another account, over a session.
NoAccountMismatch ==
  \A res \in {session} \cup {result[i] : i \in Interactions} :
    res # None => owner[res.grant] = res.account

\* Whoever has a session logged in as a guest or has had its IdP tokens
\* stored first: a token exchange finds them.
SessionHasTokens == session # None => session.account \in withTokens \/ session.account \notin Users

\* A callback is refused for want of its interaction, or for the interaction
\* of another, only when its own is expired or finished or its state was
\* lost: a cookie lost or overwritten by another tab is never the reason.
RefusedOnlyWhenGone ==
  \A r \in Requests :
    pc[r] \in {"SessionNotFound", "Callback"} /\ account[r] \in Users =>
      \/ ~ stateKept[r]
      \/ life[nonce[r]] # "live"
      \/ nonce[r] \in consumed
      \/ \E other \in Requests \ {r} : code[other] = code[r]

\* The logins of the browser are a single sign-on: a login is the request
\* that first presented an authorization code, or that made a guest.
Who ==
  [c \in Requests |->
     IF code[c] = c /\ account[c] # None
       THEN [interaction |-> nonce[c], account |-> account[c]]
       ELSE None]
Completed == {code[r] : r \in {s \in Requests : pc[s] = "done"}}
Pending   == [i \in Interactions |-> IF i \in stored THEN result[i] ELSE None]
Sso == INSTANCE SignOn WITH
  Logins <- Requests,
  Nobody <- None,
  who <- Who,
  completed <- Completed,
  pending <- Pending
SignOnSpec == Sso!Spec
============================================================================
