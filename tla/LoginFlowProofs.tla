-------------------------- MODULE LoginFlowProofs --------------------------
(***************************************************************************)
(* The safety of the login for any number of requests, interactions,       *)
(* Grants and users.  The argument follows a request: once its code is     *)
(* exchanged its interaction is the one its user authenticated for; once   *)
(* its Grant is saved the Grant is its account's, because a Grant id is    *)
(* taken either new, by one request, or from a stored Grant of the same    *)
(* account; once its tokens are stored its account has tokens.  A result,  *)
(* and the session opened from it, inherit all three.                      *)
(* At the end, the refusals (what is gone stays so), then the sign-on: each*)
(* action is a step of SignOn, or one that SignOn does not see.            *)
(***************************************************************************)
EXTENDS LoginFlow, TLAPS

\* The steps at which a request knows its interaction, its account, a Grant.
Recovered == {"api", "putInvite", "findGrant", "saveGrant", "indexGrant", "setAccess",
              "setRefresh", "finish", "done"}
Named     == {"recover", "exchange", "api", "findGrant", "saveGrant", "indexGrant",
              "setAccess", "setRefresh", "finish", "done"}
Granted   == {"saveGrant", "indexGrant", "setAccess", "setRefresh", "finish", "done"}

\* Past the exchange, a request works on its own interaction.
OwnInteraction ==
  \A r \in Requests :
    /\ pc[r] = "exchange" => target[r] \in Interactions
    /\ pc[r] \in Recovered => target[r] \in Interactions /\ target[r] = nonce[r]
    /\ pc[r] \in Named => account[r] \in Accounts

\* The Grant of a request is unsaved or its account's; saved, its account's.
OwnGrant ==
  \A r \in Requests :
    /\ pc[r] \in Granted => grantId[r] \in Grants
    /\ pc[r] = "saveGrant" => owner[grantId[r]] \in {None, account[r]}
    /\ pc[r] \in Granted \ {"saveGrant"} => owner[grantId[r]] = account[r]

\* Two requests do not hold the same unsaved Grant.
UnsavedGrantIsPrivate ==
  \A r, s \in Requests :
    r # s /\ grantId[r] \in Grants /\ grantId[r] = grantId[s] => owner[grantId[r]] # None

\* A user whose login is past the storing of its tokens has them; only
\* guests take the other way.
OwnTokens ==
  \A r \in Requests :
    /\ pc[r] = "indexGrant" => account[r] \notin Users
    /\ pc[r] \in {"setRefresh", "finish"} /\ account[r] \in Users => account[r] \in withTokens

\* What is asked of a result and of a session.
Sound(res) ==
  res # None =>
    owner[res.grant] = res.account /\ (res.account \in Users => res.account \in withTokens)

ResultsAreSound == Sound(session) /\ \A i \in Interactions : Sound(result[i])

\* Steps of the browser, of oidc-provider and of time, which touch no request.
Environment ==
  \/ \E i \in Interactions : Authorize(i) \/ Resume(i) \/ Age(i)
  \/ LoseCookie \/ Logout
  \/ UNCHANGED vars

RequestInv == OwnInteraction /\ OwnGrant /\ UnsavedGrantIsPrivate /\ OwnTokens
IInv == TypeOK /\ RequestInv /\ ResultsAreSound /\ FinishedByItsOwnLogin

---------------------------------------------------------------------------
(* Types *)

\* Every variable keeps its type.
LEMMA InitType == Init => TypeOK
BY NoneAssumption DEF Init, TypeOK

\* Every step keeps the types.
LEMMA NextType ==
  ASSUME IInv, [Next]_vars
  PROVE  TypeOK'
<1>1. ASSUME NEW i \in Interactions, Authorize(i) PROVE TypeOK'
  BY <1>1, NoneAssumption DEF IInv, TypeOK, Authorize, Goto, Working, Ended, Result, Accounts,
    requestVars, interactionVars, grantVars
<1>2. ASSUME NEW i \in Interactions, Resume(i) PROVE TypeOK'
  BY <1>2, NoneAssumption DEF IInv, TypeOK, Resume, Goto, Working, Ended, Result, Accounts,
    requestVars, interactionVars, grantVars
<1>3. ASSUME NEW i \in Interactions, Age(i) PROVE TypeOK'
  BY <1>3, NoneAssumption DEF IInv, TypeOK, Age, Goto, Working, Ended, Result, Accounts,
    requestVars, interactionVars, grantVars
<1>4. ASSUME LoseCookie PROVE TypeOK'
  BY <1>4, NoneAssumption DEF IInv, TypeOK, LoseCookie, Goto, Working, Ended, Result, Accounts,
    requestVars, interactionVars, grantVars
<1>5. ASSUME Logout PROVE TypeOK'
  BY <1>5, NoneAssumption DEF IInv, TypeOK, Logout, Goto, Working, Ended, Result, Accounts,
    requestVars, interactionVars, grantVars
<1>6. ASSUME NEW r \in Requests, NEW i \in Interactions, NEW user \in Users, NEW kept \in BOOLEAN,
            ReturnFromIdp(r, i, user, kept)
     PROVE  TypeOK'
  BY <1>6, NoneAssumption DEF IInv, TypeOK, ReturnFromIdp, Goto, Working, Ended, Result, Accounts,
    requestVars, interactionVars, grantVars
<1>7. ASSUME NEW r \in Requests, NEW first \in Requests, Reload(r, first) PROVE TypeOK'
  BY <1>7, NoneAssumption DEF IInv, TypeOK, Reload, Goto, Working, Ended, Result, Accounts,
    requestVars, interactionVars, grantVars
<1>8. ASSUME NEW r \in Requests, NEW i \in Interactions, ConnectInvite(r, i) PROVE TypeOK'
  BY <1>8, NoneAssumption DEF IInv, TypeOK, ConnectInvite, Goto, Working, Ended, Result, Accounts,
    requestVars, interactionVars, grantVars
<1>9. ASSUME NEW r \in Requests, Recover(r) PROVE TypeOK'
  BY <1>9, NoneAssumption DEF IInv, TypeOK, Recover, Goto, Working, Ended, Result, Accounts,
    requestVars, interactionVars, grantVars
<1>10. ASSUME NEW r \in Requests, Exchange(r) PROVE TypeOK'
  BY <1>10, NoneAssumption DEF IInv, TypeOK, Exchange, Goto, Working, Ended, Result, Accounts,
    requestVars, interactionVars, grantVars
<1>11. ASSUME NEW r \in Requests, PutUser(r) PROVE TypeOK'
  BY <1>11, NoneAssumption DEF IInv, TypeOK, PutUser, Goto, Working, Ended, Result, Accounts,
    requestVars, interactionVars, grantVars
<1>12. ASSUME NEW r \in Requests, FindGrant(r) PROVE TypeOK'
  <2>1. /\ target[r] \in Interactions /\ account[r] \in Accounts
        /\ pc[r] \in Granted => grantId[r] \in Grants
    BY <1>12 DEF FindGrant, Goto, IInv, RequestInv, OwnInteraction, OwnGrant, Recovered, Named
  <2> QED BY <1>12, <2>1 DEF IInv, TypeOK, FindGrant, Goto, Working, Ended, Result, Granted,
    NewGrants, interactionVars, grantVars
<1>13. ASSUME NEW r \in Requests, SaveGrant(r) PROVE TypeOK'
  <2>1. /\ target[r] \in Interactions /\ account[r] \in Accounts
        /\ pc[r] \in Granted => grantId[r] \in Grants
    BY <1>13 DEF SaveGrant, Goto, IInv, RequestInv, OwnInteraction, OwnGrant, Recovered, Named
  <2> QED BY <1>13, <2>1 DEF IInv, TypeOK, SaveGrant, Goto, Working, Ended, Result, Granted,
    NewGrants, interactionVars, grantVars
<1>14. ASSUME NEW r \in Requests, SetAccess(r) PROVE TypeOK'
  <2>1. /\ target[r] \in Interactions /\ account[r] \in Accounts
        /\ pc[r] \in Granted => grantId[r] \in Grants
    BY <1>14 DEF SetAccess, Goto, IInv, RequestInv, OwnInteraction, OwnGrant, Recovered, Named
  <2> QED BY <1>14, <2>1 DEF IInv, TypeOK, SetAccess, Goto, Working, Ended, Result, Granted,
    NewGrants, interactionVars, grantVars
<1>15. ASSUME NEW r \in Requests, SetRefresh(r) PROVE TypeOK'
  BY <1>15, NoneAssumption DEF IInv, TypeOK, SetRefresh, Goto, Working, Ended, Result, Accounts,
    requestVars, interactionVars, grantVars
<1>16. ASSUME NEW r \in Requests, FindInteraction(r) PROVE TypeOK'
  BY <1>16, NoneAssumption DEF IInv, TypeOK, FindInteraction, Goto, Working, Ended, Result, Accounts,
    requestVars, interactionVars, grantVars
<1>17. ASSUME NEW r \in Requests, PutInvite(r) PROVE TypeOK'
  BY <1>17, NoneAssumption DEF IInv, TypeOK, PutInvite, Goto, Working, Ended, Result, Accounts,
    requestVars, interactionVars, grantVars
<1>18. ASSUME NEW r \in Requests, IndexGrant(r) PROVE TypeOK'
  BY <1>18, NoneAssumption DEF IInv, TypeOK, IndexGrant, Goto, Working, Ended, Result, Accounts,
    requestVars, interactionVars, grantVars
<1>19. ASSUME NEW r \in Requests, Finish(r) PROVE TypeOK'
  <2>1. /\ target[r] \in Interactions /\ account[r] \in Accounts
        /\ pc[r] \in Granted => grantId[r] \in Grants
    BY <1>19 DEF Finish, Goto, IInv, RequestInv, OwnInteraction, OwnGrant, Recovered, Named
  <2> QED BY <1>19, <2>1 DEF IInv, TypeOK, Finish, Goto, Working, Ended, Result, Granted,
    NewGrants, interactionVars, grantVars
<1>20. ASSUME NEW r \in Requests, Fail(r) PROVE TypeOK'
  BY <1>20, NoneAssumption DEF IInv, TypeOK, Fail, Goto, Working, Ended, Result, Accounts,
    requestVars, interactionVars, grantVars
<1>21. CASE UNCHANGED vars
  BY <1>21, NoneAssumption DEF IInv, TypeOK, vars, Goto, Working, Ended, Result, Accounts,
    requestVars, interactionVars, grantVars
<1> QED BY <1>1, <1>2, <1>3, <1>4, <1>5, <1>6, <1>7, <1>8, <1>9, <1>10, <1>11,
  <1>12, <1>13, <1>14, <1>15, <1>16, <1>17, <1>18, <1>19, <1>20, <1>21 DEF Next

---------------------------------------------------------------------------
(* The invariant of the requests *)

\* A step of the environment leaves every request, every Grant's account and
\* the tokens alone.
LEMMA EnvironmentStep ==
  ASSUME Environment
  PROVE  UNCHANGED <<requestVars, owner, withTokens>>
BY DEF Environment, Authorize, Resume, Age, LoseCookie, Logout, vars, interactionVars, grantVars

\* A request past the exchange keeps the interaction it recovered, which is its own.
LEMMA NextOwnInteraction ==
  ASSUME IInv, [Next]_vars
  PROVE  OwnInteraction'
<1>1. CASE Environment
  BY <1>1, EnvironmentStep DEF IInv, RequestInv, OwnInteraction, requestVars
<1>2. ASSUME NEW r \in Requests, NEW i \in Interactions, NEW user \in Users, NEW kept \in BOOLEAN,
            ReturnFromIdp(r, i, user, kept)
     PROVE  OwnInteraction'
  BY <1>2, NoneAssumption DEF IInv, TypeOK, RequestInv, OwnInteraction, Recovered, Named, Accounts,
    ReturnFromIdp, Goto, interactionVars, grantVars
<1>3. ASSUME NEW r \in Requests, NEW first \in Requests, Reload(r, first)
     PROVE  OwnInteraction'
  BY <1>3, NoneAssumption DEF IInv, TypeOK, RequestInv, OwnInteraction, Recovered, Named, Accounts,
    Reload, Goto, interactionVars, grantVars
<1>4. ASSUME NEW r \in Requests, NEW i \in Interactions, ConnectInvite(r, i)
     PROVE  OwnInteraction'
  BY <1>4, NoneAssumption DEF IInv, TypeOK, RequestInv, OwnInteraction, Recovered, Named, Accounts,
    ConnectInvite, Goto, interactionVars, grantVars
<1>5. ASSUME NEW r \in Requests, Recover(r)
     PROVE  OwnInteraction'
  BY <1>5, NoneAssumption DEF IInv, TypeOK, RequestInv, OwnInteraction, Recovered, Named, Accounts,
    Recover, Goto, interactionVars, grantVars
<1>6. ASSUME NEW r \in Requests, Exchange(r)
     PROVE  OwnInteraction'
  BY <1>6, NoneAssumption DEF IInv, TypeOK, RequestInv, OwnInteraction, Recovered, Named, Accounts,
    Exchange, Goto, interactionVars, grantVars
<1>7. ASSUME NEW r \in Requests, PutUser(r)
     PROVE  OwnInteraction'
  BY <1>7, NoneAssumption DEF IInv, TypeOK, RequestInv, OwnInteraction, Recovered, Named, Accounts,
    PutUser, Goto, interactionVars, grantVars
<1>8. ASSUME NEW r \in Requests, FindGrant(r)
     PROVE  OwnInteraction'
  BY <1>8, NoneAssumption DEF IInv, TypeOK, RequestInv, OwnInteraction, Recovered, Named, Accounts,
    FindGrant, Goto, interactionVars, grantVars
<1>9. ASSUME NEW r \in Requests, SaveGrant(r)
     PROVE  OwnInteraction'
  BY <1>9, NoneAssumption DEF IInv, TypeOK, RequestInv, OwnInteraction, Recovered, Named, Accounts,
    SaveGrant, Goto, interactionVars, grantVars
<1>10. ASSUME NEW r \in Requests, SetAccess(r)
     PROVE  OwnInteraction'
  BY <1>10, NoneAssumption DEF IInv, TypeOK, RequestInv, OwnInteraction, Recovered, Named, Accounts,
    SetAccess, Goto, interactionVars, grantVars
<1>11. ASSUME NEW r \in Requests, SetRefresh(r)
     PROVE  OwnInteraction'
  BY <1>11, NoneAssumption DEF IInv, TypeOK, RequestInv, OwnInteraction, Recovered, Named, Accounts,
    SetRefresh, Goto, interactionVars, grantVars
<1>12. ASSUME NEW r \in Requests, FindInteraction(r)
     PROVE  OwnInteraction'
  BY <1>12, NoneAssumption DEF IInv, TypeOK, RequestInv, OwnInteraction, Recovered, Named, Accounts,
    FindInteraction, Goto, interactionVars, grantVars
<1>13. ASSUME NEW r \in Requests, PutInvite(r)
     PROVE  OwnInteraction'
  BY <1>13, NoneAssumption DEF IInv, TypeOK, RequestInv, OwnInteraction, Recovered, Named, Accounts,
    PutInvite, Goto, interactionVars, grantVars
<1>14. ASSUME NEW r \in Requests, IndexGrant(r)
     PROVE  OwnInteraction'
  BY <1>14, NoneAssumption DEF IInv, TypeOK, RequestInv, OwnInteraction, Recovered, Named, Accounts,
    IndexGrant, Goto, interactionVars, grantVars
<1>15. ASSUME NEW r \in Requests, Finish(r)
     PROVE  OwnInteraction'
  BY <1>15, NoneAssumption DEF IInv, TypeOK, RequestInv, OwnInteraction, Recovered, Named, Accounts,
    Finish, Goto, interactionVars, grantVars
<1>16. ASSUME NEW r \in Requests, Fail(r)
     PROVE  OwnInteraction'
  BY <1>16, NoneAssumption DEF IInv, TypeOK, RequestInv, OwnInteraction, Recovered, Named, Accounts,
    Fail, Goto, interactionVars, grantVars
<1> QED BY <1>1, <1>2, <1>3, <1>4, <1>5, <1>6, <1>7, <1>8, <1>9,
  <1>10, <1>11, <1>12, <1>13, <1>14, <1>15, <1>16 DEF Next, Environment

\* A request keeps the Grant it found: no other request saves it for another account.
LEMMA NextOwnGrant ==
  ASSUME IInv, [Next]_vars
  PROVE  OwnGrant'
<1>1. CASE Environment
  BY <1>1, EnvironmentStep DEF IInv, RequestInv, OwnGrant, requestVars
<1>2. ASSUME NEW r \in Requests, NEW i \in Interactions, NEW user \in Users, NEW kept \in BOOLEAN,
            ReturnFromIdp(r, i, user, kept)
     PROVE  OwnGrant'
  BY <1>2, NoneAssumption DEF IInv, TypeOK, RequestInv, OwnInteraction, OwnGrant, UnsavedGrantIsPrivate,
    Recovered, Named, Granted, Reusable, NewGrants,
    ReturnFromIdp, Goto, interactionVars, grantVars
<1>3. ASSUME NEW r \in Requests, NEW first \in Requests, Reload(r, first)
     PROVE  OwnGrant'
  BY <1>3, NoneAssumption DEF IInv, TypeOK, RequestInv, OwnInteraction, OwnGrant, UnsavedGrantIsPrivate,
    Recovered, Named, Granted, Reusable, NewGrants,
    Reload, Goto, interactionVars, grantVars
<1>4. ASSUME NEW r \in Requests, NEW i \in Interactions, ConnectInvite(r, i)
     PROVE  OwnGrant'
  BY <1>4, NoneAssumption DEF IInv, TypeOK, RequestInv, OwnInteraction, OwnGrant, UnsavedGrantIsPrivate,
    Recovered, Named, Granted, Reusable, NewGrants,
    ConnectInvite, Goto, interactionVars, grantVars
<1>5. ASSUME NEW r \in Requests, Recover(r)
     PROVE  OwnGrant'
  BY <1>5, NoneAssumption DEF IInv, TypeOK, RequestInv, OwnInteraction, OwnGrant, UnsavedGrantIsPrivate,
    Recovered, Named, Granted, Reusable, NewGrants,
    Recover, Goto, interactionVars, grantVars
<1>6. ASSUME NEW r \in Requests, Exchange(r)
     PROVE  OwnGrant'
  BY <1>6, NoneAssumption DEF IInv, TypeOK, RequestInv, OwnInteraction, OwnGrant, UnsavedGrantIsPrivate,
    Recovered, Named, Granted, Reusable, NewGrants,
    Exchange, Goto, interactionVars, grantVars
<1>7. ASSUME NEW r \in Requests, PutUser(r)
     PROVE  OwnGrant'
  BY <1>7, NoneAssumption DEF IInv, TypeOK, RequestInv, OwnInteraction, OwnGrant, UnsavedGrantIsPrivate,
    Recovered, Named, Granted, Reusable, NewGrants,
    PutUser, Goto, interactionVars, grantVars
<1>8. ASSUME NEW r \in Requests, FindGrant(r)
     PROVE  OwnGrant'
  BY <1>8, NoneAssumption DEF IInv, TypeOK, RequestInv, OwnInteraction, OwnGrant, UnsavedGrantIsPrivate,
    Recovered, Named, Granted, Reusable, NewGrants,
    FindGrant, Goto, interactionVars, grantVars
<1>9. ASSUME NEW r \in Requests, SaveGrant(r)
     PROVE  OwnGrant'
  BY <1>9, NoneAssumption DEF IInv, TypeOK, RequestInv, OwnInteraction, OwnGrant, UnsavedGrantIsPrivate,
    Recovered, Named, Granted, Reusable, NewGrants,
    SaveGrant, Goto, interactionVars, grantVars
<1>10. ASSUME NEW r \in Requests, SetAccess(r)
     PROVE  OwnGrant'
  BY <1>10, NoneAssumption DEF IInv, TypeOK, RequestInv, OwnInteraction, OwnGrant, UnsavedGrantIsPrivate,
    Recovered, Named, Granted, Reusable, NewGrants,
    SetAccess, Goto, interactionVars, grantVars
<1>11. ASSUME NEW r \in Requests, SetRefresh(r)
     PROVE  OwnGrant'
  BY <1>11, NoneAssumption DEF IInv, TypeOK, RequestInv, OwnInteraction, OwnGrant, UnsavedGrantIsPrivate,
    Recovered, Named, Granted, Reusable, NewGrants,
    SetRefresh, Goto, interactionVars, grantVars
<1>12. ASSUME NEW r \in Requests, FindInteraction(r)
     PROVE  OwnGrant'
  BY <1>12, NoneAssumption DEF IInv, TypeOK, RequestInv, OwnInteraction, OwnGrant, UnsavedGrantIsPrivate,
    Recovered, Named, Granted, Reusable, NewGrants,
    FindInteraction, Goto, interactionVars, grantVars
<1>13. ASSUME NEW r \in Requests, PutInvite(r)
     PROVE  OwnGrant'
  BY <1>13, NoneAssumption DEF IInv, TypeOK, RequestInv, OwnInteraction, OwnGrant, UnsavedGrantIsPrivate,
    Recovered, Named, Granted, Reusable, NewGrants,
    PutInvite, Goto, interactionVars, grantVars
<1>14. ASSUME NEW r \in Requests, IndexGrant(r)
     PROVE  OwnGrant'
  BY <1>14, NoneAssumption DEF IInv, TypeOK, RequestInv, OwnInteraction, OwnGrant, UnsavedGrantIsPrivate,
    Recovered, Named, Granted, Reusable, NewGrants,
    IndexGrant, Goto, interactionVars, grantVars
<1>15. ASSUME NEW r \in Requests, Finish(r)
     PROVE  OwnGrant'
  BY <1>15, NoneAssumption DEF IInv, TypeOK, RequestInv, OwnInteraction, OwnGrant, UnsavedGrantIsPrivate,
    Recovered, Named, Granted, Reusable, NewGrants,
    Finish, Goto, interactionVars, grantVars
<1>16. ASSUME NEW r \in Requests, Fail(r)
     PROVE  OwnGrant'
  BY <1>16, NoneAssumption DEF IInv, TypeOK, RequestInv, OwnInteraction, OwnGrant, UnsavedGrantIsPrivate,
    Recovered, Named, Granted, Reusable, NewGrants,
    Fail, Goto, interactionVars, grantVars
<1> QED BY <1>1, <1>2, <1>3, <1>4, <1>5, <1>6, <1>7, <1>8, <1>9,
  <1>10, <1>11, <1>12, <1>13, <1>14, <1>15, <1>16 DEF Next, Environment

\* A new Grant id is taken by one request.
LEMMA NextUnsaved ==
  ASSUME IInv, [Next]_vars
  PROVE  UnsavedGrantIsPrivate'
<1>1. CASE Environment
  BY <1>1, EnvironmentStep DEF IInv, RequestInv, UnsavedGrantIsPrivate, requestVars
<1>2. ASSUME NEW r \in Requests, NEW i \in Interactions, NEW user \in Users, NEW kept \in BOOLEAN,
            ReturnFromIdp(r, i, user, kept)
     PROVE  UnsavedGrantIsPrivate'
  BY <1>2, NoneAssumption DEF IInv, TypeOK, RequestInv, OwnInteraction, OwnGrant, UnsavedGrantIsPrivate,
    Recovered, Named, Granted, Reusable, NewGrants,
    ReturnFromIdp, Goto, interactionVars, grantVars
<1>3. ASSUME NEW r \in Requests, NEW first \in Requests, Reload(r, first)
     PROVE  UnsavedGrantIsPrivate'
  BY <1>3, NoneAssumption DEF IInv, TypeOK, RequestInv, OwnInteraction, OwnGrant, UnsavedGrantIsPrivate,
    Recovered, Named, Granted, Reusable, NewGrants,
    Reload, Goto, interactionVars, grantVars
<1>4. ASSUME NEW r \in Requests, NEW i \in Interactions, ConnectInvite(r, i)
     PROVE  UnsavedGrantIsPrivate'
  BY <1>4, NoneAssumption DEF IInv, TypeOK, RequestInv, OwnInteraction, OwnGrant, UnsavedGrantIsPrivate,
    Recovered, Named, Granted, Reusable, NewGrants,
    ConnectInvite, Goto, interactionVars, grantVars
<1>5. ASSUME NEW r \in Requests, Recover(r)
     PROVE  UnsavedGrantIsPrivate'
  BY <1>5, NoneAssumption DEF IInv, TypeOK, RequestInv, OwnInteraction, OwnGrant, UnsavedGrantIsPrivate,
    Recovered, Named, Granted, Reusable, NewGrants,
    Recover, Goto, interactionVars, grantVars
<1>6. ASSUME NEW r \in Requests, Exchange(r)
     PROVE  UnsavedGrantIsPrivate'
  BY <1>6, NoneAssumption DEF IInv, TypeOK, RequestInv, OwnInteraction, OwnGrant, UnsavedGrantIsPrivate,
    Recovered, Named, Granted, Reusable, NewGrants,
    Exchange, Goto, interactionVars, grantVars
<1>7. ASSUME NEW r \in Requests, PutUser(r)
     PROVE  UnsavedGrantIsPrivate'
  BY <1>7, NoneAssumption DEF IInv, TypeOK, RequestInv, OwnInteraction, OwnGrant, UnsavedGrantIsPrivate,
    Recovered, Named, Granted, Reusable, NewGrants,
    PutUser, Goto, interactionVars, grantVars
<1>8. ASSUME NEW r \in Requests, FindGrant(r)
     PROVE  UnsavedGrantIsPrivate'
  BY <1>8, NoneAssumption DEF IInv, TypeOK, RequestInv, OwnInteraction, OwnGrant, UnsavedGrantIsPrivate,
    Recovered, Named, Granted, Reusable, NewGrants,
    FindGrant, Goto, interactionVars, grantVars
<1>9. ASSUME NEW r \in Requests, SaveGrant(r)
     PROVE  UnsavedGrantIsPrivate'
  BY <1>9, NoneAssumption DEF IInv, TypeOK, RequestInv, OwnInteraction, OwnGrant, UnsavedGrantIsPrivate,
    Recovered, Named, Granted, Reusable, NewGrants,
    SaveGrant, Goto, interactionVars, grantVars
<1>10. ASSUME NEW r \in Requests, SetAccess(r)
     PROVE  UnsavedGrantIsPrivate'
  BY <1>10, NoneAssumption DEF IInv, TypeOK, RequestInv, OwnInteraction, OwnGrant, UnsavedGrantIsPrivate,
    Recovered, Named, Granted, Reusable, NewGrants,
    SetAccess, Goto, interactionVars, grantVars
<1>11. ASSUME NEW r \in Requests, SetRefresh(r)
     PROVE  UnsavedGrantIsPrivate'
  BY <1>11, NoneAssumption DEF IInv, TypeOK, RequestInv, OwnInteraction, OwnGrant, UnsavedGrantIsPrivate,
    Recovered, Named, Granted, Reusable, NewGrants,
    SetRefresh, Goto, interactionVars, grantVars
<1>12. ASSUME NEW r \in Requests, FindInteraction(r)
     PROVE  UnsavedGrantIsPrivate'
  BY <1>12, NoneAssumption DEF IInv, TypeOK, RequestInv, OwnInteraction, OwnGrant, UnsavedGrantIsPrivate,
    Recovered, Named, Granted, Reusable, NewGrants,
    FindInteraction, Goto, interactionVars, grantVars
<1>13. ASSUME NEW r \in Requests, PutInvite(r)
     PROVE  UnsavedGrantIsPrivate'
  BY <1>13, NoneAssumption DEF IInv, TypeOK, RequestInv, OwnInteraction, OwnGrant, UnsavedGrantIsPrivate,
    Recovered, Named, Granted, Reusable, NewGrants,
    PutInvite, Goto, interactionVars, grantVars
<1>14. ASSUME NEW r \in Requests, IndexGrant(r)
     PROVE  UnsavedGrantIsPrivate'
  BY <1>14, NoneAssumption DEF IInv, TypeOK, RequestInv, OwnInteraction, OwnGrant, UnsavedGrantIsPrivate,
    Recovered, Named, Granted, Reusable, NewGrants,
    IndexGrant, Goto, interactionVars, grantVars
<1>15. ASSUME NEW r \in Requests, Finish(r)
     PROVE  UnsavedGrantIsPrivate'
  BY <1>15, NoneAssumption DEF IInv, TypeOK, RequestInv, OwnInteraction, OwnGrant, UnsavedGrantIsPrivate,
    Recovered, Named, Granted, Reusable, NewGrants,
    Finish, Goto, interactionVars, grantVars
<1>16. ASSUME NEW r \in Requests, Fail(r)
     PROVE  UnsavedGrantIsPrivate'
  BY <1>16, NoneAssumption DEF IInv, TypeOK, RequestInv, OwnInteraction, OwnGrant, UnsavedGrantIsPrivate,
    Recovered, Named, Granted, Reusable, NewGrants,
    Fail, Goto, interactionVars, grantVars
<1> QED BY <1>1, <1>2, <1>3, <1>4, <1>5, <1>6, <1>7, <1>8, <1>9,
  <1>10, <1>11, <1>12, <1>13, <1>14, <1>15, <1>16 DEF Next, Environment

\* Tokens stored stay known.
LEMMA NextOwnTokens ==
  ASSUME IInv, [Next]_vars
  PROVE  OwnTokens'
<1>1. CASE Environment
  BY <1>1, EnvironmentStep DEF IInv, RequestInv, OwnTokens, requestVars
<1>2. ASSUME NEW r \in Requests, NEW i \in Interactions, NEW user \in Users, NEW kept \in BOOLEAN,
            ReturnFromIdp(r, i, user, kept)
     PROVE  OwnTokens'
  BY <1>2, NoneAssumption DEF IInv, TypeOK, RequestInv, OwnTokens,
    ReturnFromIdp, Goto, interactionVars, grantVars
<1>3. ASSUME NEW r \in Requests, NEW first \in Requests, Reload(r, first)
     PROVE  OwnTokens'
  BY <1>3, NoneAssumption DEF IInv, TypeOK, RequestInv, OwnTokens,
    Reload, Goto, interactionVars, grantVars
<1>4. ASSUME NEW r \in Requests, NEW i \in Interactions, ConnectInvite(r, i)
     PROVE  OwnTokens'
  BY <1>4, NoneAssumption DEF IInv, TypeOK, RequestInv, OwnTokens,
    ConnectInvite, Goto, interactionVars, grantVars
<1>5. ASSUME NEW r \in Requests, Recover(r)
     PROVE  OwnTokens'
  BY <1>5, NoneAssumption DEF IInv, TypeOK, RequestInv, OwnTokens,
    Recover, Goto, interactionVars, grantVars
<1>6. ASSUME NEW r \in Requests, Exchange(r)
     PROVE  OwnTokens'
  BY <1>6, NoneAssumption DEF IInv, TypeOK, RequestInv, OwnTokens,
    Exchange, Goto, interactionVars, grantVars
<1>7. ASSUME NEW r \in Requests, PutUser(r)
     PROVE  OwnTokens'
  BY <1>7, NoneAssumption DEF IInv, TypeOK, RequestInv, OwnTokens,
    PutUser, Goto, interactionVars, grantVars
<1>8. ASSUME NEW r \in Requests, FindGrant(r)
     PROVE  OwnTokens'
  BY <1>8, NoneAssumption DEF IInv, TypeOK, RequestInv, OwnTokens,
    FindGrant, Goto, interactionVars, grantVars
<1>9. ASSUME NEW r \in Requests, SaveGrant(r)
     PROVE  OwnTokens'
  BY <1>9, NoneAssumption DEF IInv, TypeOK, RequestInv, OwnTokens,
    SaveGrant, Goto, interactionVars, grantVars
<1>10. ASSUME NEW r \in Requests, SetAccess(r)
     PROVE  OwnTokens'
  BY <1>10, NoneAssumption DEF IInv, TypeOK, RequestInv, OwnTokens,
    SetAccess, Goto, interactionVars, grantVars
<1>11. ASSUME NEW r \in Requests, SetRefresh(r)
     PROVE  OwnTokens'
  BY <1>11, NoneAssumption DEF IInv, TypeOK, RequestInv, OwnTokens,
    SetRefresh, Goto, interactionVars, grantVars
<1>12. ASSUME NEW r \in Requests, FindInteraction(r)
     PROVE  OwnTokens'
  BY <1>12, NoneAssumption DEF IInv, TypeOK, RequestInv, OwnTokens,
    FindInteraction, Goto, interactionVars, grantVars
<1>13. ASSUME NEW r \in Requests, PutInvite(r)
     PROVE  OwnTokens'
  BY <1>13, NoneAssumption DEF IInv, TypeOK, RequestInv, OwnTokens,
    PutInvite, Goto, interactionVars, grantVars
<1>14. ASSUME NEW r \in Requests, IndexGrant(r)
     PROVE  OwnTokens'
  BY <1>14, NoneAssumption DEF IInv, TypeOK, RequestInv, OwnTokens,
    IndexGrant, Goto, interactionVars, grantVars
<1>15. ASSUME NEW r \in Requests, Finish(r)
     PROVE  OwnTokens'
  BY <1>15, NoneAssumption DEF IInv, TypeOK, RequestInv, OwnTokens,
    Finish, Goto, interactionVars, grantVars
<1>16. ASSUME NEW r \in Requests, Fail(r)
     PROVE  OwnTokens'
  BY <1>16, NoneAssumption DEF IInv, TypeOK, RequestInv, OwnTokens,
    Fail, Goto, interactionVars, grantVars
<1> QED BY <1>1, <1>2, <1>3, <1>4, <1>5, <1>6, <1>7, <1>8, <1>9,
  <1>10, <1>11, <1>12, <1>13, <1>14, <1>15, <1>16 DEF Next, Environment

\* A result is written by a request whose Grant and tokens are stored; later steps
\* change neither the account of a saved Grant nor the tokens.
LEMMA NextResults ==
  ASSUME IInv, [Next]_vars
  PROVE  ResultsAreSound'
<1>1. CASE Environment
  BY <1>1, EnvironmentStep DEF IInv, TypeOK, ResultsAreSound, Sound, Environment, Authorize, Resume,
    Age, LoseCookie, Logout, vars, interactionVars
<1>2. ASSUME NEW r \in Requests, NEW i \in Interactions, NEW user \in Users, NEW kept \in BOOLEAN,
            ReturnFromIdp(r, i, user, kept)
     PROVE  ResultsAreSound'
  BY <1>2, NoneAssumption DEF IInv, TypeOK, RequestInv, OwnTokens, OwnGrant,
    OwnInteraction, Recovered, Named, Granted, ResultsAreSound, Sound,
    ReturnFromIdp, Goto, interactionVars, grantVars
<1>3. ASSUME NEW r \in Requests, NEW first \in Requests, Reload(r, first)
     PROVE  ResultsAreSound'
  BY <1>3, NoneAssumption DEF IInv, TypeOK, RequestInv, OwnTokens, OwnGrant,
    OwnInteraction, Recovered, Named, Granted, ResultsAreSound, Sound,
    Reload, Goto, interactionVars, grantVars
<1>4. ASSUME NEW r \in Requests, NEW i \in Interactions, ConnectInvite(r, i)
     PROVE  ResultsAreSound'
  BY <1>4, NoneAssumption DEF IInv, TypeOK, RequestInv, OwnTokens, OwnGrant,
    OwnInteraction, Recovered, Named, Granted, ResultsAreSound, Sound,
    ConnectInvite, Goto, interactionVars, grantVars
<1>5. ASSUME NEW r \in Requests, Recover(r)
     PROVE  ResultsAreSound'
  BY <1>5, NoneAssumption DEF IInv, TypeOK, RequestInv, OwnTokens, OwnGrant,
    OwnInteraction, Recovered, Named, Granted, ResultsAreSound, Sound,
    Recover, Goto, interactionVars, grantVars
<1>6. ASSUME NEW r \in Requests, Exchange(r)
     PROVE  ResultsAreSound'
  BY <1>6, NoneAssumption DEF IInv, TypeOK, RequestInv, OwnTokens, OwnGrant,
    OwnInteraction, Recovered, Named, Granted, ResultsAreSound, Sound,
    Exchange, Goto, interactionVars, grantVars
<1>7. ASSUME NEW r \in Requests, PutUser(r)
     PROVE  ResultsAreSound'
  BY <1>7, NoneAssumption DEF IInv, TypeOK, RequestInv, OwnTokens, OwnGrant,
    OwnInteraction, Recovered, Named, Granted, ResultsAreSound, Sound,
    PutUser, Goto, interactionVars, grantVars
<1>8. ASSUME NEW r \in Requests, FindGrant(r)
     PROVE  ResultsAreSound'
  BY <1>8, NoneAssumption DEF IInv, TypeOK, RequestInv, OwnTokens, OwnGrant,
    OwnInteraction, Recovered, Named, Granted, ResultsAreSound, Sound,
    FindGrant, Goto, interactionVars, grantVars
<1>9. ASSUME NEW r \in Requests, SaveGrant(r)
     PROVE  ResultsAreSound'
  <2>1. \A g \in Grants : owner[g] # None => owner'[g] = owner[g]
    BY <1>9 DEF IInv, TypeOK, SaveGrant
  <2>2. ASSUME NEW res \in Result \cup {None}, Sound(res) PROVE Sound(res)'
    BY <1>9, <2>1, <2>2, NoneAssumption DEF Sound, SaveGrant, Result
  <2> QED BY <1>9, <2>2 DEF IInv, TypeOK, ResultsAreSound, SaveGrant, interactionVars
<1>10. ASSUME NEW r \in Requests, SetAccess(r)
     PROVE  ResultsAreSound'
  BY <1>10, NoneAssumption DEF IInv, TypeOK, RequestInv, OwnTokens, OwnGrant,
    OwnInteraction, Recovered, Named, Granted, ResultsAreSound, Sound,
    SetAccess, Goto, interactionVars, grantVars
<1>11. ASSUME NEW r \in Requests, SetRefresh(r)
     PROVE  ResultsAreSound'
  BY <1>11, NoneAssumption DEF IInv, TypeOK, RequestInv, OwnTokens, OwnGrant,
    OwnInteraction, Recovered, Named, Granted, ResultsAreSound, Sound,
    SetRefresh, Goto, interactionVars, grantVars
<1>12. ASSUME NEW r \in Requests, FindInteraction(r)
     PROVE  ResultsAreSound'
  BY <1>12, NoneAssumption DEF IInv, TypeOK, RequestInv, OwnTokens, OwnGrant,
    OwnInteraction, Recovered, Named, Granted, ResultsAreSound, Sound,
    FindInteraction, Goto, interactionVars, grantVars
<1>13. ASSUME NEW r \in Requests, PutInvite(r)
     PROVE  ResultsAreSound'
  BY <1>13, NoneAssumption DEF IInv, TypeOK, RequestInv, OwnTokens, OwnGrant,
    OwnInteraction, Recovered, Named, Granted, ResultsAreSound, Sound,
    PutInvite, Goto, interactionVars, grantVars
<1>14. ASSUME NEW r \in Requests, IndexGrant(r)
     PROVE  ResultsAreSound'
  BY <1>14, NoneAssumption DEF IInv, TypeOK, RequestInv, OwnTokens, OwnGrant,
    OwnInteraction, Recovered, Named, Granted, ResultsAreSound, Sound,
    IndexGrant, Goto, interactionVars, grantVars
<1>15. ASSUME NEW r \in Requests, Finish(r)
     PROVE  ResultsAreSound'
  BY <1>15, NoneAssumption DEF IInv, TypeOK, RequestInv, OwnTokens, OwnGrant,
    OwnInteraction, Recovered, Named, Granted, ResultsAreSound, Sound,
    Finish, Goto, interactionVars, grantVars
<1>16. ASSUME NEW r \in Requests, Fail(r)
     PROVE  ResultsAreSound'
  BY <1>16, NoneAssumption DEF IInv, TypeOK, RequestInv, OwnTokens, OwnGrant,
    OwnInteraction, Recovered, Named, Granted, ResultsAreSound, Sound,
    Fail, Goto, interactionVars, grantVars
<1> QED BY <1>1, <1>2, <1>3, <1>4, <1>5, <1>6, <1>7, <1>8, <1>9,
  <1>10, <1>11, <1>12, <1>13, <1>14, <1>15, <1>16 DEF Next, Environment

\* A result stays that of a request that is done, and done for good.
LEMMA NextFinished ==
  ASSUME IInv, [Next]_vars
  PROVE  FinishedByItsOwnLogin'
<1>1. CASE Environment
  BY <1>1, EnvironmentStep DEF IInv, FinishedByItsOwnLogin, Environment, Authorize, Resume, Age,
    LoseCookie, Logout, requestVars, vars, interactionVars
<1>2. ASSUME NEW r \in Requests, NEW i \in Interactions, NEW user \in Users, NEW kept \in BOOLEAN,
            ReturnFromIdp(r, i, user, kept)
     PROVE  FinishedByItsOwnLogin'
  BY <1>2, NoneAssumption DEF IInv, TypeOK, RequestInv, OwnInteraction, Recovered,
    FinishedByItsOwnLogin, Working,
    ReturnFromIdp, Goto, interactionVars, grantVars
<1>3. ASSUME NEW r \in Requests, NEW first \in Requests, Reload(r, first)
     PROVE  FinishedByItsOwnLogin'
  BY <1>3, NoneAssumption DEF IInv, TypeOK, RequestInv, OwnInteraction, Recovered,
    FinishedByItsOwnLogin, Working,
    Reload, Goto, interactionVars, grantVars
<1>4. ASSUME NEW r \in Requests, NEW i \in Interactions, ConnectInvite(r, i)
     PROVE  FinishedByItsOwnLogin'
  BY <1>4, NoneAssumption DEF IInv, TypeOK, RequestInv, OwnInteraction, Recovered,
    FinishedByItsOwnLogin, Working,
    ConnectInvite, Goto, interactionVars, grantVars
<1>5. ASSUME NEW r \in Requests, Recover(r)
     PROVE  FinishedByItsOwnLogin'
  BY <1>5, NoneAssumption DEF IInv, TypeOK, RequestInv, OwnInteraction, Recovered,
    FinishedByItsOwnLogin, Working,
    Recover, Goto, interactionVars, grantVars
<1>6. ASSUME NEW r \in Requests, Exchange(r)
     PROVE  FinishedByItsOwnLogin'
  BY <1>6, NoneAssumption DEF IInv, TypeOK, RequestInv, OwnInteraction, Recovered,
    FinishedByItsOwnLogin, Working,
    Exchange, Goto, interactionVars, grantVars
<1>7. ASSUME NEW r \in Requests, PutUser(r)
     PROVE  FinishedByItsOwnLogin'
  BY <1>7, NoneAssumption DEF IInv, TypeOK, RequestInv, OwnInteraction, Recovered,
    FinishedByItsOwnLogin, Working,
    PutUser, Goto, interactionVars, grantVars
<1>8. ASSUME NEW r \in Requests, FindGrant(r)
     PROVE  FinishedByItsOwnLogin'
  BY <1>8, NoneAssumption DEF IInv, TypeOK, RequestInv, OwnInteraction, Recovered,
    FinishedByItsOwnLogin, Working,
    FindGrant, Goto, interactionVars, grantVars
<1>9. ASSUME NEW r \in Requests, SaveGrant(r)
     PROVE  FinishedByItsOwnLogin'
  BY <1>9, NoneAssumption DEF IInv, TypeOK, RequestInv, OwnInteraction, Recovered,
    FinishedByItsOwnLogin, Working,
    SaveGrant, Goto, interactionVars, grantVars
<1>10. ASSUME NEW r \in Requests, SetAccess(r)
     PROVE  FinishedByItsOwnLogin'
  BY <1>10, NoneAssumption DEF IInv, TypeOK, RequestInv, OwnInteraction, Recovered,
    FinishedByItsOwnLogin, Working,
    SetAccess, Goto, interactionVars, grantVars
<1>11. ASSUME NEW r \in Requests, SetRefresh(r)
     PROVE  FinishedByItsOwnLogin'
  BY <1>11, NoneAssumption DEF IInv, TypeOK, RequestInv, OwnInteraction, Recovered,
    FinishedByItsOwnLogin, Working,
    SetRefresh, Goto, interactionVars, grantVars
<1>12. ASSUME NEW r \in Requests, FindInteraction(r)
     PROVE  FinishedByItsOwnLogin'
  BY <1>12, NoneAssumption DEF IInv, TypeOK, RequestInv, OwnInteraction, Recovered,
    FinishedByItsOwnLogin, Working,
    FindInteraction, Goto, interactionVars, grantVars
<1>13. ASSUME NEW r \in Requests, PutInvite(r)
     PROVE  FinishedByItsOwnLogin'
  BY <1>13, NoneAssumption DEF IInv, TypeOK, RequestInv, OwnInteraction, Recovered,
    FinishedByItsOwnLogin, Working,
    PutInvite, Goto, interactionVars, grantVars
<1>14. ASSUME NEW r \in Requests, IndexGrant(r)
     PROVE  FinishedByItsOwnLogin'
  BY <1>14, NoneAssumption DEF IInv, TypeOK, RequestInv, OwnInteraction, Recovered,
    FinishedByItsOwnLogin, Working,
    IndexGrant, Goto, interactionVars, grantVars
<1>15. ASSUME NEW r \in Requests, Finish(r)
     PROVE  FinishedByItsOwnLogin'
  BY <1>15, NoneAssumption DEF IInv, TypeOK, RequestInv, OwnInteraction, Recovered,
    FinishedByItsOwnLogin, Working,
    Finish, Goto, interactionVars, grantVars
<1>16. ASSUME NEW r \in Requests, Fail(r)
     PROVE  FinishedByItsOwnLogin'
  BY <1>16, NoneAssumption DEF IInv, TypeOK, RequestInv, OwnInteraction, Recovered,
    FinishedByItsOwnLogin, Working,
    Fail, Goto, interactionVars, grantVars
<1> QED BY <1>1, <1>2, <1>3, <1>4, <1>5, <1>6, <1>7, <1>8, <1>9,
  <1>10, <1>11, <1>12, <1>13, <1>14, <1>15, <1>16 DEF Next, Environment

---------------------------------------------------------------------------
(* Refusals *)

\* The interaction of a request cannot be found by the state, for good.
Gone(r) ==
  ~ stateKept[r] \/ life[nonce[r]] \in {"due", "over"} \/ nonce[r] \in consumed

\* Another request presented the code of this one.
Shared(r) == \E other \in Requests \ {r} : pc[other] # "idle" /\ code[other] = code[r]

\* An interaction is stored as long as it lives and is not finished.
LiveIsStored == \A i \in Interactions : life[i] = "live" => i \in stored \cup consumed

\* A request comes with the uid of an interaction that was opened; it has no
\* account before it is given one.
RequestsComeFromLogins ==
  \A r \in Requests :
    /\ pc[r] # "idle" => nonce[r] \in Interactions /\ life[nonce[r]] # "unopened"
    /\ pc[r] \in {"idle", "findInteraction"} => account[r] = None

\* A code that was exchanged was presented by a request that is past it.
UsedCodesWerePresented ==
  \A c \in usedCodes : \E r \in Requests :
    code[r] = c /\ pc[r] \notin {"idle", "recover", "exchange"}

\* The cookie is used, or the request refused, when the interaction is gone.
CookieWhenGone == \A r \in Requests : pc[r] = "exchange" => target[r] = nonce[r] \/ Gone(r)
RefusedIsGone ==
  \A r \in Requests :
    pc[r] \in {"SessionNotFound", "Callback"} /\ account[r] \in Users => Gone(r) \/ Shared(r)

RefusalInv ==
  /\ LiveIsStored
  /\ RequestsComeFromLogins
  /\ UsedCodesWerePresented
  /\ CookieWhenGone
  /\ RefusedIsGone

\* A request that arrives is about to recover its interaction, or a guest's.
LEMMA ArrivalKeepsRefusals ==
  ASSUME TypeOK, RefusalInv, NEW r \in Requests, pc[r] = "idle",
         NEW to \in {"recover", "findInteraction"}, pc' = [pc EXCEPT ![r] = to],
         NEW i \in Interactions, life[i] # "unopened", nonce' = [nonce EXCEPT ![r] = i],
         \A s \in Requests \ {r} : stateKept'[s] = stateKept[s] /\ account'[s] = account[s]
                                     /\ code'[s] = code[s],
         to = "findInteraction" => account'[r] = account[r],
         UNCHANGED <<target, usedCodes, life, stored, consumed>>
  PROVE  RefusalInv'
<1> USE DEF RefusalInv, TypeOK
<1>1. \A s \in Requests : pc'[s] = IF s = r THEN to ELSE pc[s]
  OBVIOUS
<1>2. \A s \in Requests : nonce'[s] = IF s = r THEN i ELSE nonce[s]
  OBVIOUS
<1>3. LiveIsStored'
  BY DEF LiveIsStored
<1>4. RequestsComeFromLogins'
  BY <1>1, <1>2 DEF RequestsComeFromLogins
<1>5. UsedCodesWerePresented'
  BY <1>1 DEF UsedCodesWerePresented
<1>6. CookieWhenGone'
  BY <1>1, <1>2 DEF CookieWhenGone, Gone
<1>7. RefusedIsGone'
  <2> SUFFICES ASSUME NEW s \in Requests, pc'[s] \in {"SessionNotFound", "Callback"},
                      account'[s] \in Users
               PROVE  Gone(s)' \/ Shared(s)'
    BY DEF RefusedIsGone
  <2>1. s # r /\ (Gone(s) \/ Shared(s))
    BY <1>1 DEF RefusedIsGone
  <2>2. Gone(s) => Gone(s)'
    BY <1>2, <2>1 DEF Gone
  <2>3. Shared(s) => Shared(s)'
    BY <1>1, <2>1 DEF Shared
  <2> QED BY <2>1, <2>2, <2>3
<1> QED BY <1>3, <1>4, <1>5, <1>6, <1>7

\* A request that goes on to a step where nothing is asked of it.
LEMMA MoveKeepsRefusals ==
  ASSUME TypeOK, RefusalInv, NEW r \in Requests, pc[r] # "idle", NEW to,
         to \notin {"idle", "recover", "exchange", "findInteraction", "SessionNotFound", "Callback"},
         pc' = [pc EXCEPT ![r] = to],
         \A s \in Requests \ {r} : account'[s] = account[s] /\ target'[s] = target[s],
         UNCHANGED <<nonce, stateKept, code, usedCodes, life, consumed>>,
         \A j \in Interactions : life[j] = "live" /\ j \in stored => j \in stored'
  PROVE  RefusalInv'
<1> USE DEF RefusalInv, TypeOK
<1>1. \A s \in Requests : pc'[s] = IF s = r THEN to ELSE pc[s]
  OBVIOUS
<1>2. LiveIsStored'
  BY DEF LiveIsStored
<1>3. RequestsComeFromLogins'
  BY <1>1 DEF RequestsComeFromLogins
<1>4. UsedCodesWerePresented'
  BY <1>1 DEF UsedCodesWerePresented
<1>5. CookieWhenGone'
  BY <1>1 DEF CookieWhenGone, Gone
<1>6. RefusedIsGone'
  BY <1>1 DEF RefusedIsGone, Gone, Shared
<1> QED BY <1>2, <1>3, <1>4, <1>5, <1>6

\* The interaction is looked for by the state first: a miss means it is gone.
LEMMA RecoverKeepsRefusals ==
  ASSUME TypeOK, RefusalInv, NEW r \in Requests, Recover(r)
  PROVE  RefusalInv'
<1> USE DEF RefusalInv, TypeOK
<1>1. PICK to \in {"exchange", "SessionNotFound"} :
        /\ pc[r] = "recover" /\ pc' = [pc EXCEPT ![r] = to]
        /\ \/ stateKept[r] /\ nonce[r] \in stored
              /\ to = "exchange" /\ target' = [target EXCEPT ![r] = nonce[r]]
           \/ ~ (stateKept[r] /\ nonce[r] \in stored)
        /\ \A s \in Requests \ {r} : target'[s] = target[s]
        /\ UNCHANGED <<nonce, stateKept, code, account, usedCodes, life, stored, consumed>>
  BY DEF Recover, Goto
<1>2. \A s \in Requests : pc'[s] = IF s = r THEN to ELSE pc[s]
  BY <1>1
<1>3. ~ (stateKept[r] /\ nonce[r] \in stored) => Gone(r)
  BY <1>1 DEF Gone, LiveIsStored, RequestsComeFromLogins
<1>4. \A s \in Requests : Gone(s)' = Gone(s) /\ Shared(s)' = Shared(s)
  BY <1>1, <1>2 DEF Gone, Shared
<1>5. LiveIsStored' /\ RequestsComeFromLogins' /\ UsedCodesWerePresented'
  BY <1>1, <1>2 DEF LiveIsStored, RequestsComeFromLogins, UsedCodesWerePresented
<1>6. CookieWhenGone'
  BY <1>1, <1>2, <1>3, <1>4 DEF CookieWhenGone
<1>7. RefusedIsGone'
  BY <1>1, <1>2, <1>3, <1>4 DEF RefusedIsGone
<1> QED BY <1>5, <1>6, <1>7

\* The IdP refuses a code already exchanged, which another request presented;
\* a nonce is another's when the cookie served.
LEMMA ExchangeKeepsRefusals ==
  ASSUME TypeOK, RefusalInv, NEW r \in Requests, Exchange(r)
  PROVE  RefusalInv'
<1> USE DEF RefusalInv, TypeOK
<1>1. PICK to \in {"api", "Callback"} :
        /\ pc[r] = "exchange" /\ pc' = [pc EXCEPT ![r] = to]
        /\ to = "Callback" => code[r] \in usedCodes \/ nonce[r] # target[r]
        /\ usedCodes' = usedCodes \cup {code[r]}
        /\ UNCHANGED <<nonce, stateKept, code, target, account, life, stored, consumed>>
  BY DEF Exchange, Goto, interactionVars
<1>2. \A s \in Requests : pc'[s] = IF s = r THEN to ELSE pc[s]
  BY <1>1
<1>3. to = "Callback" => Gone(r) \/ Shared(r)
  <2>1. code[r] \in usedCodes => Shared(r)
    BY <1>1 DEF UsedCodesWerePresented, Shared
  <2>2. nonce[r] # target[r] => Gone(r)
    BY <1>1 DEF CookieWhenGone
  <2> QED BY <1>1, <2>1, <2>2
<1>4. \A s \in Requests : Gone(s)' = Gone(s) /\ Shared(s)' = Shared(s)
  BY <1>1, <1>2 DEF Gone, Shared
<1>5. LiveIsStored' /\ RequestsComeFromLogins' /\ CookieWhenGone'
  BY <1>1, <1>2, <1>4 DEF LiveIsStored, RequestsComeFromLogins, CookieWhenGone
<1>6. UsedCodesWerePresented'
  BY <1>1, <1>2 DEF UsedCodesWerePresented
<1>7. RefusedIsGone'
  BY <1>1, <1>2, <1>3, <1>4 DEF RefusedIsGone
<1> QED BY <1>5, <1>6, <1>7

\* A guest whose interaction is not found has no account yet.
LEMMA FindInteractionKeepsRefusals ==
  ASSUME TypeOK, RefusalInv, NEW r \in Requests, FindInteraction(r)
  PROVE  RefusalInv'
<1> USE DEF RefusalInv, TypeOK
<1>1. PICK to \in {"putInvite", "SessionNotFound"} :
        /\ pc[r] = "findInteraction" /\ pc' = [pc EXCEPT ![r] = to]
        /\ \A s \in Requests \ {r} : target'[s] = target[s]
        /\ UNCHANGED <<nonce, stateKept, code, account, usedCodes, life, stored, consumed>>
  BY DEF FindInteraction, Goto, interactionVars
<1>2. \A s \in Requests : pc'[s] = IF s = r THEN to ELSE pc[s]
  BY <1>1
<1>3. account[r] \notin Users
  BY <1>1, NoneAssumption DEF RequestsComeFromLogins, Accounts
<1>4. \A s \in Requests : Gone(s)' = Gone(s) /\ Shared(s)' = Shared(s)
  BY <1>1, <1>2 DEF Gone, Shared
<1>5. LiveIsStored' /\ RequestsComeFromLogins' /\ UsedCodesWerePresented'
  BY <1>1, <1>2 DEF LiveIsStored, RequestsComeFromLogins, UsedCodesWerePresented
<1>6. CookieWhenGone' /\ RefusedIsGone'
  BY <1>1, <1>2, <1>3, <1>4 DEF CookieWhenGone, RefusedIsGone
<1> QED BY <1>5, <1>6

\* What is gone stays so: an interaction is opened once, and its end is final.
LEMMA EnvironmentKeepsRefusals ==
  ASSUME TypeOK, RefusalInv, Environment
  PROVE  RefusalInv'
<1> USE DEF RefusalInv
<1>1. UNCHANGED <<pc, nonce, stateKept, code, target, account, usedCodes>>
  BY DEF Environment, Authorize, Resume, Age, LoseCookie, Logout, vars, requestVars
<1>2. /\ consumed \subseteq consumed'
      /\ \A i \in Interactions : /\ life[i] \in {"due", "over"} => life'[i] \in {"due", "over"}
                                 /\ life[i] # "unopened" => life'[i] # "unopened"
  BY DEF TypeOK, Environment, Authorize, Resume, Age, LoseCookie, Logout, vars, interactionVars
<1>3. LiveIsStored'
  BY DEF TypeOK, LiveIsStored, Environment, Authorize, Resume, Age, LoseCookie, Logout, vars,
    interactionVars
<1>4. \A r \in Requests : /\ pc[r] # "idle" /\ Gone(r) => Gone(r)'
                          /\ Shared(r)' = Shared(r)
  BY <1>1, <1>2 DEF Gone, Shared, RequestsComeFromLogins
<1>5. RequestsComeFromLogins' /\ UsedCodesWerePresented'
  BY <1>1, <1>2 DEF RequestsComeFromLogins, UsedCodesWerePresented
<1>6. CookieWhenGone' /\ RefusedIsGone'
  BY <1>1, <1>4 DEF CookieWhenGone, RefusedIsGone
<1> QED BY <1>3, <1>5, <1>6

\* Every step keeps the reasons of the refusals.
LEMMA NextRefusals ==
  ASSUME TypeOK, RefusalInv, [Next]_vars
  PROVE  RefusalInv'
<1> USE DEF TypeOK, Goto
<1>1. CASE Environment
  BY <1>1, EnvironmentKeepsRefusals
<1>2. ASSUME NEW r \in Requests, NEW i \in Interactions, NEW user \in Users, NEW kept \in BOOLEAN,
             ReturnFromIdp(r, i, user, kept)
      PROVE  RefusalInv'
  BY <1>2, ArrivalKeepsRefusals DEF ReturnFromIdp, interactionVars
<1>3. ASSUME NEW r \in Requests, NEW first \in Requests, Reload(r, first) PROVE RefusalInv'
  <2>1. nonce[first] \in Interactions /\ life[nonce[first]] # "unopened"
    BY <1>3 DEF Reload, RefusalInv, RequestsComeFromLogins
  <2> QED BY <1>3, <2>1, ArrivalKeepsRefusals DEF Reload, interactionVars
<1>4. ASSUME NEW r \in Requests, NEW i \in Interactions, ConnectInvite(r, i) PROVE RefusalInv'
  BY <1>4, ArrivalKeepsRefusals DEF ConnectInvite, interactionVars
<1>5. ASSUME NEW r \in Requests, Recover(r) \/ Exchange(r) \/ FindInteraction(r) PROVE RefusalInv'
  BY <1>5, RecoverKeepsRefusals, ExchangeKeepsRefusals, FindInteractionKeepsRefusals
<1>6. ASSUME NEW r \in Requests,
             PutUser(r) \/ FindGrant(r) \/ SetAccess(r) \/ SetRefresh(r) \/ IndexGrant(r)
      PROVE  RefusalInv'
  BY <1>6, MoveKeepsRefusals
    DEF PutUser, FindGrant, SetAccess, SetRefresh, IndexGrant, interactionVars
<1>7. ASSUME NEW r \in Requests, SaveGrant(r) PROVE RefusalInv'
  BY <1>7, MoveKeepsRefusals DEF SaveGrant, interactionVars
<1>8. ASSUME NEW r \in Requests, PutInvite(r) PROVE RefusalInv'
  <2>1. /\ pc[r] = "putInvite" /\ pc' = [pc EXCEPT ![r] = "findGrant"]
        /\ \A s \in Requests \ {r} : account'[s] = account[s] /\ target'[s] = target[s]
        /\ UNCHANGED <<nonce, stateKept, code, usedCodes, life, stored, consumed>>
    BY <1>8 DEF PutInvite, interactionVars
  <2> QED BY <2>1, MoveKeepsRefusals
<1>9. ASSUME NEW r \in Requests, Fail(r) PROVE RefusalInv'
  <2>1. /\ pc[r] # "idle" /\ pc' = [pc EXCEPT ![r] = "failed"]
        /\ UNCHANGED <<nonce, stateKept, code, target, account, usedCodes, life, stored, consumed>>
    BY <1>9 DEF Fail, Working, interactionVars
  <2> QED BY <2>1, MoveKeepsRefusals
<1>10. ASSUME NEW r \in Requests, Finish(r) PROVE RefusalInv'
  <2>1. \A j \in Interactions : life[j] = "live" /\ j \in stored => j \in stored'
    BY <1>10 DEF Finish
  <2> QED BY <1>10, <2>1, MoveKeepsRefusals DEF Finish
<1> QED BY <1>1, <1>2, <1>3, <1>4, <1>5, <1>6, <1>7, <1>8, <1>9, <1>10 DEF Next, Environment

---------------------------------------------------------------------------
(* The theorems *)

\* Nothing has happened at first.
LEMMA InitIInv == Init => IInv
BY InitType, NoneAssumption DEF Init, IInv, RequestInv, OwnInteraction, OwnGrant,
  UnsavedGrantIsPrivate, OwnTokens, ResultsAreSound, Sound, FinishedByItsOwnLogin, Recovered,
  Named, Granted

\* The invariant holds in every reachable state.
THEOREM Invariance == Spec => []IInv
<1>1. IInv /\ [Next]_vars => IInv'
  BY NextType, NextOwnInteraction, NextOwnGrant, NextUnsaved, NextOwnTokens, NextResults,
    NextFinished DEF IInv, RequestInv
<1> QED BY <1>1, InitIInv, PTL DEF Spec

\* Every variable keeps its type.
THEOREM TypeCorrect == Spec => []TypeOK
<1>1. IInv => TypeOK
  BY DEF IInv
<1> QED BY <1>1, Invariance, PTL

\* A result is that of a login made for its interaction (the nonce checked by
\* IdpService.callback, the path of InviteService.connect).
THEOREM LoginsAreTheirOwn == Spec => []FinishedByItsOwnLogin
<1>1. IInv => FinishedByItsOwnLogin
  BY DEF IInv
<1> QED BY <1>1, Invariance, PTL

\* The Grant of a session is its account's (generateNewGrantId).
THEOREM GrantsAreTheirAccounts == Spec => []NoAccountMismatch
<1>1. IInv => NoAccountMismatch
  BY DEF IInv, ResultsAreSound, Sound, NoAccountMismatch
<1> QED BY <1>1, Invariance, PTL

\* The session of a user of an IdP is opened after its tokens are stored
\* (the order of IdpService.callback).
THEOREM SessionsHaveTokens == Spec => []SessionHasTokens
<1>1. IInv => SessionHasTokens
  BY NoneAssumption DEF IInv, TypeOK, ResultsAreSound, Sound, SessionHasTokens
<1> QED BY <1>1, Invariance, PTL

\* The reasons of the refusals hold in every reachable state.
LEMMA RefusalInvariance == Spec => []RefusalInv
<1>1. Init => RefusalInv
  BY DEF Init, RefusalInv, LiveIsStored, RequestsComeFromLogins, UsedCodesWerePresented,
    CookieWhenGone, RefusedIsGone
<1>2. IInv => TypeOK
  BY DEF IInv
<1>3. TypeOK /\ RefusalInv /\ [Next]_vars => RefusalInv'
  BY NextRefusals
<1> QED BY <1>1, <1>2, <1>3, Invariance, PTL DEF Spec

\* A login is refused only when its own interaction is over, finished, or not
\* named by the state, or when its code was presented twice
\* (recoverInteraction: the state first, then the cookie).
THEOREM RefusalsAreDue == Spec => []RefusedOnlyWhenGone
<1>1. RefusalInv => RefusedOnlyWhenGone
  BY DEF RefusalInv, RefusedIsGone, Gone, Shared, RefusedOnlyWhenGone
<1> QED BY <1>1, RefusalInvariance, PTL

---------------------------------------------------------------------------
(* One session for one login *)

\* Past the exchange of its code, or the making of its guest.
Past == {"api", "findGrant", "saveGrant", "indexGrant", "setAccess", "setRefresh", "finish", "done"}

\* A request whose code was first presented by another is a reload of it.
ReloadsAreReloads ==
  \A r \in Requests :
    /\ code[r] \in Requests
    /\ pc[r] \in {"idle", "findInteraction", "putInvite"} => account[r] = None
    /\ code[r] # r =>
         /\ code[code[r]] = code[r]
         /\ account[code[r]] \in Users
         /\ account[r] = account[code[r]] /\ nonce[r] = nonce[code[r]]

\* One request at most gets past the exchange with a code, which it uses up,
\* unless it is a guest's, who has none.
OneRequestPerCode ==
  \A r \in Requests : pc[r] \in Past =>
    /\ code[r] \in usedCodes \/ account[r] \notin Users
    /\ \A s \in Requests : pc[s] \in Past /\ code[s] = code[r] => s = r

\* An interaction that is not opened has no result.
UnopenedIsEmpty == \A i \in Interactions : life[i] = "unopened" => result[i] = None

LoginInv == ReloadsAreReloads /\ OneRequestPerCode /\ UnopenedIsEmpty

\* A request that arrives, with a code of its own or that of the request it
\* reloads.
LEMMA ArrivalKeepsLogins ==
  ASSUME TypeOK, LoginInv, NEW r \in Requests, pc[r] = "idle",
         NEW to \in {"recover", "findInteraction"}, pc' = [pc EXCEPT ![r] = to],
         NEW i, nonce' = [nonce EXCEPT ![r] = i],
         \/ to = "findInteraction" /\ UNCHANGED <<code, account>>
         \/ \E user \in Users : to = "recover" /\ UNCHANGED code
                                  /\ account' = [account EXCEPT ![r] = user]
         \/ \E first \in Requests :
              /\ to = "recover" /\ account[first] \in Users /\ i = nonce[first]
              /\ code' = [code EXCEPT ![r] = code[first]]
              /\ account' = [account EXCEPT ![r] = account[first]],
         UNCHANGED <<usedCodes, life, result>>
  PROVE  LoginInv'
<1> USE DEF TypeOK, LoginInv
<1>1. /\ \A s \in Requests : pc'[s] = IF s = r THEN to ELSE pc[s]
      /\ \A s \in Requests \ {r} : /\ nonce'[s] = nonce[s] /\ account'[s] = account[s]
                                   /\ code'[s] = code[s]
      /\ nonce'[r] = i
  OBVIOUS
<1>2. account[r] = None /\ None \notin Users
  BY NoneAssumption DEF ReloadsAreReloads, Accounts
<1>3. code[r] = r /\ \A s \in Requests \ {r} : code[s] # r
  BY <1>2 DEF ReloadsAreReloads
<1>4. ReloadsAreReloads'
  <2>1. CASE UNCHANGED code
    <3>1. to = "findInteraction" => account'[r] = None
      BY <1>2, <2>1, NoneAssumption
    <3> QED BY <1>1, <1>3, <2>1, <3>1 DEF ReloadsAreReloads
  <2>2. ASSUME NEW first \in Requests, to = "recover", account[first] \in Users, i = nonce[first],
               code' = [code EXCEPT ![r] = code[first]],
               account' = [account EXCEPT ![r] = account[first]]
        PROVE  ReloadsAreReloads'
    <3>1. first # r /\ code[first] # r
      BY <1>2, <1>3, <2>2
    <3>2. code[code[first]] = code[first] /\ account[code[first]] = account[first]
            /\ nonce[code[first]] = nonce[first] /\ code[first] \in Requests
      BY DEF ReloadsAreReloads
    <3>3. code'[r] = code[first] /\ account'[r] = account[first]
      BY <2>2
    <3> QED BY <1>1, <1>3, <2>2, <3>1, <3>2, <3>3 DEF ReloadsAreReloads
  <2> QED BY <2>1, <2>2
<1>5. OneRequestPerCode'
  BY <1>1 DEF OneRequestPerCode, Past
<1>6. UnopenedIsEmpty'
  BY DEF UnopenedIsEmpty
<1> QED BY <1>4, <1>5, <1>6

\* A request that goes on, or fails, and gets past no exchange.
LEMMA MoveKeepsLogins ==
  ASSUME TypeOK, LoginInv, NEW r \in Requests, NEW to, to \notin {"idle", "findInteraction"},
         pc' = [pc EXCEPT ![r] = to],
         to = "putInvite" => pc[r] = "findInteraction",
         to \in Past => pc[r] \in Past,
         UNCHANGED <<nonce, code, account, usedCodes, life>>,
         \A i \in Interactions : life[i] = "unopened" => result'[i] = result[i]
  PROVE  LoginInv'
<1> USE DEF TypeOK, LoginInv
<1>1. \A s \in Requests : pc'[s] = IF s = r THEN to ELSE pc[s]
  OBVIOUS
<1>2. ReloadsAreReloads'
  BY <1>1 DEF ReloadsAreReloads
<1>3. OneRequestPerCode'
  BY <1>1 DEF OneRequestPerCode
<1>4. UnopenedIsEmpty'
  BY DEF UnopenedIsEmpty
<1> QED BY <1>2, <1>3, <1>4

\* The IdP exchanges a code for the first request that presents it.
LEMMA ExchangeKeepsLogins ==
  ASSUME TypeOK, LoginInv, NEW r \in Requests, Exchange(r)
  PROVE  LoginInv'
<1> USE DEF TypeOK, LoginInv
<1>1. PICK to \in {"api", "Callback"} :
        /\ pc[r] = "exchange" /\ pc' = [pc EXCEPT ![r] = to]
        /\ to = "api" => code[r] \notin usedCodes
        /\ usedCodes' = usedCodes \cup {code[r]}
        /\ UNCHANGED <<nonce, code, account, life, result>>
  BY DEF Exchange, Goto, interactionVars
<1>2. \A s \in Requests : pc'[s] = IF s = r THEN to ELSE pc[s]
  BY <1>1
<1>3. ReloadsAreReloads' /\ UnopenedIsEmpty'
  BY <1>1, <1>2 DEF ReloadsAreReloads, UnopenedIsEmpty
<1>4. OneRequestPerCode'
  <2>1. CASE to = "Callback"
    BY <1>1, <1>2, <2>1 DEF OneRequestPerCode, Past
  <2>2. CASE to = "api"
    <3>1. ASSUME NEW s \in Requests, s # r, pc[s] \in Past, code[s] = code[r] PROVE FALSE
      <4>1. account[s] \notin Users
        BY <1>1, <2>2, <3>1 DEF OneRequestPerCode
      <4>2. code[s] = s
        BY <4>1 DEF ReloadsAreReloads
      <4>3. code[r] # r /\ code[r] = s
        BY <3>1, <4>2
      <4> QED BY <4>1, <4>3 DEF ReloadsAreReloads
    <3> QED BY <1>1, <1>2, <2>2, <3>1 DEF OneRequestPerCode
  <2> QED BY <2>1, <2>2
<1> QED BY <1>3, <1>4

\* A guest is made for one request.
LEMMA PutInviteKeepsLogins ==
  ASSUME TypeOK, LoginInv, NEW r \in Requests, PutInvite(r)
  PROVE  LoginInv'
<1> USE DEF TypeOK, LoginInv
<1>1. /\ pc[r] = "putInvite" /\ pc' = [pc EXCEPT ![r] = "findGrant"]
      /\ account' = [account EXCEPT ![r] = GuestOf(r)]
      /\ UNCHANGED <<nonce, code, usedCodes, life, result>>
  BY DEF PutInvite, Goto, interactionVars
<1>2. /\ \A s \in Requests : pc'[s] = IF s = r THEN "findGrant" ELSE pc[s]
      /\ \A s \in Requests : account'[s] = IF s = r THEN GuestOf(r) ELSE account[s]
  BY <1>1
<1>3. code[r] = r /\ \A s \in Requests \ {r} : code[s] # r
  <2>1. account[r] \notin Users
    BY <1>1, NoneAssumption DEF ReloadsAreReloads, Accounts
  <2> QED BY <2>1 DEF ReloadsAreReloads
<1>4. ReloadsAreReloads' /\ UnopenedIsEmpty'
  BY <1>1, <1>2, <1>3 DEF ReloadsAreReloads, UnopenedIsEmpty
<1>5. OneRequestPerCode'
  BY <1>1, <1>2, <1>3, GuestAssumption DEF OneRequestPerCode
<1> QED BY <1>4, <1>5

\* Every step keeps to one request per code.
LEMMA NextLogins ==
  ASSUME IInv, RefusalInv, LoginInv, [Next]_vars
  PROVE  LoginInv'
<1>0. TypeOK
  BY DEF IInv
<1> USE DEF Goto
<1>1. CASE Environment
  <2>1. UNCHANGED <<pc, nonce, code, account, usedCodes, result>>
    BY <1>1 DEF Environment, Authorize, Resume, Age, LoseCookie, Logout, vars, requestVars,
      interactionVars
  <2>2. \A i \in Interactions : life'[i] = "unopened" => life[i] = "unopened"
    BY <1>0, <1>1 DEF TypeOK, Environment, Authorize, Resume, Age, LoseCookie, Logout, vars,
      interactionVars
  <2> QED BY <2>1, <2>2 DEF LoginInv, ReloadsAreReloads, OneRequestPerCode, UnopenedIsEmpty
<1>2. ASSUME NEW r \in Requests, NEW i \in Interactions, NEW user \in Users, NEW kept \in BOOLEAN,
             ReturnFromIdp(r, i, user, kept)
      PROVE  LoginInv'
  BY <1>0, <1>2, ArrivalKeepsLogins DEF ReturnFromIdp, interactionVars
<1>3. ASSUME NEW r \in Requests, NEW first \in Requests, Reload(r, first) PROVE LoginInv'
  BY <1>0, <1>3, ArrivalKeepsLogins DEF Reload, interactionVars
<1>4. ASSUME NEW r \in Requests, NEW i \in Interactions, ConnectInvite(r, i) PROVE LoginInv'
  BY <1>0, <1>4, ArrivalKeepsLogins DEF ConnectInvite, interactionVars
<1>5. ASSUME NEW r \in Requests, Exchange(r) \/ PutInvite(r) PROVE LoginInv'
  BY <1>0, <1>5, ExchangeKeepsLogins, PutInviteKeepsLogins
<1>6. ASSUME NEW r \in Requests,
             \/ Recover(r) \/ FindInteraction(r) \/ Fail(r)
             \/ PutUser(r) \/ FindGrant(r) \/ SaveGrant(r) \/ SetAccess(r) \/ SetRefresh(r)
             \/ IndexGrant(r)
      PROVE  LoginInv'
  <2>1. /\ UNCHANGED <<nonce, code, account, usedCodes, life, result>>
        /\ \E to : /\ to \notin {"idle", "findInteraction"} /\ pc' = [pc EXCEPT ![r] = to]
                   /\ to = "putInvite" => pc[r] = "findInteraction"
                   /\ to \in Past => pc[r] \in Past
    BY <1>6 DEF Recover, FindInteraction, Fail, PutUser, FindGrant, SaveGrant, SetAccess,
      SetRefresh, IndexGrant, Past, interactionVars
  <2> QED BY <1>0, <2>1, MoveKeepsLogins
<1>7. ASSUME NEW r \in Requests, Finish(r) PROVE LoginInv'
  <2>1. life[target[r]] # "unopened"
    BY <1>7 DEF Finish, IInv, RequestInv, OwnInteraction, Recovered, RefusalInv,
      RequestsComeFromLogins
  <2>2. \A i \in Interactions : life[i] = "unopened" => result'[i] = result[i]
    BY <1>0, <1>7, <2>1 DEF Finish, TypeOK
  <2> QED BY <1>0, <1>7, <2>2, MoveKeepsLogins DEF Finish, Past
<1> QED BY <1>1, <1>2, <1>3, <1>4, <1>5, <1>6, <1>7 DEF Next, Environment

\* The codes are used once in every reachable state.
LEMMA LoginInvariance == Spec => []LoginInv
<1>1. Init => LoginInv
  BY NoneAssumption DEF Init, LoginInv, ReloadsAreReloads, OneRequestPerCode, UnopenedIsEmpty, Past
<1> QED BY <1>1, NextLogins, Invariance, RefusalInvariance, PTL DEF Spec

SsoInv  == IInv /\ RefusalInv /\ LoginInv
SsoStep == [Sso!Next]_(Sso!vars)

\* A step that keeps the accounts of the requests and ends none of them.
LEMMA UnseenStep ==
  ASSUME TypeOK, NEW r \in Requests, NEW to,
         pc' = [pc EXCEPT ![r] = to], pc[r] # "done", to # "done",
         UNCHANGED <<nonce, code, account>>
  PROVE  UNCHANGED <<Who, Completed>>
<1>1. Completed' = Completed
  <2>1. \A s \in Requests : pc'[s] = "done" <=> pc[s] = "done"
    BY DEF TypeOK
  <2> QED BY <2>1 DEF Completed
<1> QED BY <1>1 DEF Who

\* The interactions wait for the same sessions.
LEMMA SamePending ==
  ASSUME UNCHANGED <<stored, result>>
  PROVE  UNCHANGED Pending
BY DEF Pending

\* oidc-provider opens a session from the result of an interaction, which is
\* then over; sessions end; interactions expire.
LEMMA EnvironmentSignsOn ==
  ASSUME SsoInv, Environment
  PROVE  SsoStep
<1>0. TypeOK /\ UNCHANGED <<Who, Completed, owner, withTokens>>
  BY EnvironmentStep DEF SsoInv, IInv, requestVars, Who, Completed
<1>1. ASSUME NEW i \in Interactions, Authorize(i) PROVE SsoStep
  <2>1. result[i] = None
    BY <1>1 DEF Authorize, SsoInv, LoginInv, UnopenedIsEmpty
  <2>2. Pending' = Pending
    BY <1>1, <2>1 DEF Authorize, Pending
  <2> QED BY <1>0, <1>1, <2>2 DEF SsoStep, Sso!vars, Authorize
<1>2. ASSUME NEW i \in Interactions, Resume(i) PROVE SsoStep
  <2>1. Pending[i] = result[i] /\ Pending' = [Pending EXCEPT ![i] = None]
    BY <1>2 DEF Resume, Pending
  <2>2. Sso!Open(i)
    BY <1>0, <1>2, <2>1 DEF Resume, Sso!Open
  <2> QED BY <2>2 DEF SsoStep, Sso!Next
<1>3. ASSUME NEW i \in Interactions, Age(i) PROVE SsoStep
  <2>1. Pending' = Pending \/ Pending' = [Pending EXCEPT ![i] = None]
    BY <1>3 DEF Age, Pending
  <2>2. CASE Pending[i] # None /\ Pending' = [Pending EXCEPT ![i] = None]
    <3>1. Sso!Expire(i)
      BY <1>0, <1>3, <2>2 DEF Age, Sso!Expire
    <3> QED BY <3>1 DEF SsoStep, Sso!Next
  <2>3. CASE Pending' = Pending \/ Pending[i] = None
    <3>1. Pending' = Pending
      BY <2>1, <2>3 DEF Pending
    <3> QED BY <1>0, <1>3, <3>1 DEF SsoStep, Sso!vars, Age
  <2> QED BY <2>1, <2>2, <2>3
<1>4. CASE Logout
  <2>1. Sso!Close
    BY <1>0, <1>4, SamePending DEF Logout, Sso!Close, interactionVars
  <2> QED BY <2>1 DEF SsoStep, Sso!Next
<1>5. CASE LoseCookie \/ UNCHANGED vars
  <2>1. UNCHANGED <<stored, result, session>>
    BY <1>5 DEF LoseCookie, vars, interactionVars
  <2> QED BY <1>0, <2>1, SamePending DEF SsoStep, Sso!vars
<1> QED BY <1>1, <1>2, <1>3, <1>4, <1>5 DEF Environment

\* A request that arrives with a code of its own authenticates its user, as
\* does the making of a guest; a reload adds nothing.
LEMMA AuthenticationSignsOn ==
  ASSUME SsoInv, NEW r \in Requests, account[r] = None,
         NEW to, pc' = [pc EXCEPT ![r] = to], pc[r] # "done", to # "done",
         \A s \in Requests \ {r} : /\ nonce'[s] = nonce[s] /\ account'[s] = account[s]
                                   /\ code'[s] = code[s],
         \/ code'[r] = r /\ nonce'[r] \in Interactions /\ account'[r] \in Accounts
         \/ code'[r] # r
         \/ account'[r] = None,
         UNCHANGED <<stored, result, session, owner, withTokens>>
  PROVE  SsoStep
<1>0. TypeOK /\ None \notin Accounts
  BY NoneAssumption DEF SsoInv, IInv
<1>1. Completed' = Completed
  <2>1. \A s \in Requests : /\ pc'[s] = "done" <=> pc[s] = "done"
                            /\ pc[s] = "done" => code'[s] = code[s]
    BY <1>0 DEF TypeOK
  <2> QED BY <2>1 DEF Completed
<1>2. Pending' = Pending /\ Who[r] = None
  BY SamePending DEF Who
<1>3. CASE code'[r] = r /\ nonce'[r] \in Interactions /\ account'[r] \in Accounts
  <2>1. Who' = [Who EXCEPT ![r] = [interaction |-> nonce'[r], account |-> account'[r]]]
    <3>1. account'[r] # None
      BY <1>0, <1>3
    <3>2. Who'[r] = [interaction |-> nonce'[r], account |-> account'[r]]
      BY <1>3, <3>1 DEF Who
    <3>3. \A s \in Requests \ {r} : Who'[s] = Who[s]
      BY DEF Who
    <3>4. Who = [c \in Requests |-> Who[c]] /\ Who' = [c \in Requests |-> Who'[c]]
      BY DEF Who
    <3> QED BY <3>2, <3>3, <3>4
  <2>2. Sso!Authenticate(r, nonce'[r], account'[r])
    BY <1>1, <1>2, <2>1 DEF Sso!Authenticate
  <2> QED BY <1>3, <2>2 DEF SsoStep, Sso!Next
<1>4. CASE code'[r] # r \/ account'[r] = None
  <2>1. Who' = Who
    BY <1>2, <1>4 DEF Who
  <2> QED BY <1>1, <1>2, <2>1 DEF SsoStep, Sso!vars
<1> QED BY <1>3, <1>4

\* A request ends once, with the Grant and the tokens of its account.
LEMMA FinishSignsOn ==
  ASSUME SsoInv, NEW r \in Requests, Finish(r)
  PROVE  SsoStep
<1> DEFINE l == code[r]
           res == [account |-> account[r], grant |-> grantId[r]]
<1>0. /\ TypeOK /\ pc[r] = "finish" /\ pc' = [pc EXCEPT ![r] = "done"]
      /\ UNCHANGED <<nonce, code, account, owner, withTokens, session>>
  BY DEF Finish, Goto, SsoInv, IInv, grantVars
<1>1. /\ target[r] \in Interactions /\ target[r] = nonce[r] /\ account[r] \in Accounts
      /\ grantId[r] \in Grants /\ owner[grantId[r]] = account[r]
      /\ account[r] \in Users => account[r] \in withTokens
  BY <1>0 DEF SsoInv, IInv, RequestInv, OwnInteraction, OwnGrant, OwnTokens, Recovered, Named,
    Granted
<1>2. l \in Requests /\ Who[l] = [interaction |-> target[r], account |-> account[r]]
  <2>1. CASE code[r] = r
    BY <1>1, <2>1, NoneAssumption DEF Who
  <2>2. CASE code[r] # r
    BY <1>1, <2>2, NoneAssumption DEF Who, SsoInv, LoginInv, ReloadsAreReloads, Accounts
  <2> QED BY <2>1, <2>2
<1>3. l \notin Completed
  BY <1>0 DEF Completed, SsoInv, LoginInv, OneRequestPerCode, Past
<1>4. Completed' = Completed \cup {l}
  <2>1. \A s \in Requests : pc'[s] = "done" <=> pc[s] = "done" \/ s = r
    BY <1>0 DEF TypeOK
  <2> QED BY <1>0, <2>1 DEF Completed
<1>5. \E x \in {res, None} : Pending' = [Pending EXCEPT ![target[r]] = x]
  <2>1. result' = [result EXCEPT ![target[r]] = res]
    BY DEF Finish
  <2>2. CASE life[target[r]] = "over"
    <3>1. stored' = stored \ {target[r]}
      BY <2>2 DEF Finish
    <3> QED BY <1>0, <1>1, <2>1, <3>1 DEF Pending, TypeOK
  <2>3. CASE life[target[r]] # "over"
    <3>1. stored' = stored \cup {target[r]}
      BY <2>3 DEF Finish
    <3> QED BY <1>0, <1>1, <2>1, <3>1 DEF Pending, TypeOK
  <2> QED BY <2>2, <2>3
<1>6. Who' = Who
  BY <1>0 DEF Who
<1>7. Sso!Complete(l, grantId[r])
  <2>1. Who[l] # None /\ Who[l].interaction = target[r] /\ Who[l].account = account[r]
    BY <1>1, <1>2, NoneAssumption
  <2> QED BY <1>0, <1>1, <1>3, <1>4, <1>5, <1>6, <2>1 DEF Sso!Complete
<1> QED BY <1>1, <1>2, <1>7 DEF SsoStep, Sso!Next

\* Every step.
LEMMA NextSignsOn ==
  ASSUME SsoInv, [Next]_vars
  PROVE  SsoStep
<1>0. TypeOK
  BY DEF SsoInv, IInv
<1> USE DEF Goto
<1>1. CASE Environment
  BY <1>1, EnvironmentSignsOn
<1>2. ASSUME NEW r \in Requests,
             \/ \E i \in Interactions, user \in Users, kept \in BOOLEAN :
                  ReturnFromIdp(r, i, user, kept)
             \/ \E first \in Requests : Reload(r, first)
             \/ \E i \in Interactions : ConnectInvite(r, i)
             \/ PutInvite(r)
      PROVE  SsoStep
  <2>1. account[r] = None
    BY <1>2 DEF ReturnFromIdp, Reload, ConnectInvite, PutInvite, SsoInv, LoginInv,
      ReloadsAreReloads
  <2>2. code[r] = r
    BY <2>1, NoneAssumption DEF SsoInv, LoginInv, ReloadsAreReloads, Accounts
  <2>3. UNCHANGED <<stored, result, session, owner, withTokens>>
    BY <1>2 DEF ReturnFromIdp, Reload, ConnectInvite, PutInvite, interactionVars, grantVars
  <2>4. \A s \in Requests \ {r} : /\ nonce'[s] = nonce[s] /\ account'[s] = account[s]
                                  /\ code'[s] = code[s]
    BY <1>0, <1>2 DEF ReturnFromIdp, Reload, ConnectInvite, PutInvite, TypeOK
  <2>5. \E to : pc' = [pc EXCEPT ![r] = to] /\ pc[r] # "done" /\ to # "done"
    BY <1>2 DEF ReturnFromIdp, Reload, ConnectInvite, PutInvite
  <2>6. \/ code'[r] = r /\ nonce'[r] \in Interactions /\ account'[r] \in Accounts
        \/ code'[r] # r
        \/ account'[r] = None
    <3>1. ASSUME NEW i \in Interactions, NEW user \in Users, NEW kept \in BOOLEAN,
                 ReturnFromIdp(r, i, user, kept)
          PROVE  code'[r] = r /\ nonce'[r] \in Interactions /\ account'[r] \in Accounts
      BY <1>0, <2>2, <3>1 DEF ReturnFromIdp, TypeOK, Accounts
    <3>2. ASSUME NEW first \in Requests, Reload(r, first) PROVE code'[r] # r
      <4>1. account[first] \in Users
        BY <3>2 DEF Reload
      <4>2. first # r /\ code[first] # r
        BY <2>1, <4>1, NoneAssumption DEF Accounts, SsoInv, LoginInv, ReloadsAreReloads
      <4> QED BY <1>0, <3>2, <4>2 DEF Reload, TypeOK
    <3>3. ASSUME NEW i \in Interactions, ConnectInvite(r, i) PROVE account'[r] = None
      BY <2>1, <3>3 DEF ConnectInvite
    <3>4. ASSUME PutInvite(r)
          PROVE  code'[r] = r /\ nonce'[r] \in Interactions /\ account'[r] \in Accounts
      <4>1. nonce[r] \in Interactions
        BY <3>4 DEF PutInvite, SsoInv, RefusalInv, RequestsComeFromLogins
      <4> QED BY <1>0, <2>2, <3>4, <4>1 DEF PutInvite, TypeOK, Accounts
    <3> QED BY <1>2, <3>1, <3>2, <3>3, <3>4
  <2> QED BY <2>1, <2>3, <2>4, <2>5, <2>6, AuthenticationSignsOn
<1>3. ASSUME NEW r \in Requests,
             \/ Recover(r) \/ Exchange(r) \/ FindInteraction(r) \/ Fail(r)
             \/ PutUser(r) \/ FindGrant(r) \/ SetRefresh(r) \/ IndexGrant(r)
      PROVE  SsoStep
  <2>1. /\ UNCHANGED <<nonce, code, account, stored, result, session, owner, withTokens>>
        /\ \E to : pc' = [pc EXCEPT ![r] = to] /\ pc[r] # "done" /\ to # "done"
    BY <1>3 DEF Recover, Exchange, FindInteraction, Fail, PutUser, FindGrant, SetRefresh,
      IndexGrant, Working, interactionVars, grantVars
  <2> QED BY <1>0, <2>1, UnseenStep, SamePending DEF SsoStep, Sso!vars
<1>4. ASSUME NEW r \in Requests, SaveGrant(r) PROVE SsoStep
  <2>1. UNCHANGED <<Who, Completed, Pending, session, withTokens>>
    <3>1. /\ UNCHANGED <<nonce, code, account, stored, result, session, withTokens>>
          /\ \E to : pc' = [pc EXCEPT ![r] = to] /\ pc[r] # "done" /\ to # "done"
      BY <1>4 DEF SaveGrant, interactionVars
    <3> QED BY <1>0, <3>1, UnseenStep, SamePending
  <2>2. grantId[r] \in Grants /\ account[r] \in Accounts
    BY <1>4 DEF SaveGrant, SsoInv, IInv, RequestInv, OwnInteraction, OwnGrant, Named, Granted
  <2>3. CASE owner[grantId[r]] = None
    <3>1. owner' = [owner EXCEPT ![grantId[r]] = account[r]]
      BY <1>0, <1>4, <2>2, <2>3 DEF SaveGrant, TypeOK
    <3>2. Sso!SaveGrant(grantId[r], account[r])
      BY <2>1, <2>3, <3>1 DEF Sso!SaveGrant
    <3> QED BY <2>2, <3>2 DEF SsoStep, Sso!Next
  <2>4. CASE owner[grantId[r]] # None
    <3>1. owner' = owner
      BY <1>0, <1>4, <2>2, <2>4 DEF SaveGrant, TypeOK
    <3> QED BY <2>1, <3>1 DEF SsoStep, Sso!vars
  <2> QED BY <2>3, <2>4
<1>5. ASSUME NEW r \in Requests, SetAccess(r) PROVE SsoStep
  <2>1. UNCHANGED <<Who, Completed, Pending, session, owner>>
    <3>1. /\ UNCHANGED <<nonce, code, account, stored, result, session, owner>>
          /\ \E to : pc' = [pc EXCEPT ![r] = to] /\ pc[r] # "done" /\ to # "done"
      BY <1>5 DEF SetAccess, interactionVars, grantVars
    <3> QED BY <1>0, <3>1, UnseenStep, SamePending
  <2>2. account[r] \in Accounts
    BY <1>5 DEF SetAccess, SsoInv, IInv, RequestInv, OwnInteraction, Named
  <2>3. Sso!StoreTokens(account[r])
    BY <1>5, <2>1 DEF SetAccess, Sso!StoreTokens
  <2> QED BY <2>2, <2>3 DEF SsoStep, Sso!Next
<1>6. ASSUME NEW r \in Requests, Finish(r) PROVE SsoStep
  BY <1>6, FinishSignsOn
<1> QED BY <1>1, <1>2, <1>3, <1>4, <1>5, <1>6 DEF Next, Environment

\* The logins are a single sign-on: an authentication completes once, for its
\* own interaction, with a Grant and the tokens of its account, and opens one
\* session (IdpService.callback, InviteService.connect, generateNewGrantId,
\* finishInteraction), whatever reloads, other logins and expiries do meanwhile.
THEOREM LoginsSignOn == Spec => SignOnSpec
<1>1. Init => Sso!Init
  BY NoneAssumption DEF Init, Sso!Init, Who, Completed, Pending
<1>2. IInv /\ RefusalInv /\ LoginInv /\ [Next]_vars => [Sso!Next]_(Sso!vars)
  BY NextSignsOn DEF SsoInv, SsoStep
<1> QED
  BY <1>1, <1>2, Invariance, RefusalInvariance, LoginInvariance, PTL
     DEF Spec, SignOnSpec, Sso!Spec

---------------------------------------------------------------------------
(* What the sign-on promises *)

Openings == [account : Accounts, grant : Grants]

\* Typed: an account is somebody's.
PromiseInv ==
  /\ Who \in [Requests -> [interaction : Interactions, account : Accounts] \cup {None}]
  /\ Completed \subseteq Requests
  /\ Pending \in [Interactions -> Openings \cup {None}]
  /\ session \in Openings \cup {None}
  /\ owner \in [Grants -> Accounts \cup {None}]
  /\ Sso!Promise

\* Each step of the sign-on keeps the promise: a login, once it has
\* authenticated, stays what it is; so does the account of a Grant.
LEMMA SignOnPromises ==
  ASSUME PromiseInv, [Sso!Next]_(Sso!vars)
  PROVE  PromiseInv'
<1>0. None \notin Accounts /\ None \notin [interaction : Interactions, account : Accounts]
  BY NoneAssumption
<1> USE DEF PromiseInv, Sso!Promise, Sso!Entitled, Openings
<1>1. CASE UNCHANGED Sso!vars
  BY <1>1 DEF Sso!vars
<1>2. ASSUME NEW l \in Requests, NEW i \in Interactions, NEW a \in Accounts,
             Sso!Authenticate(l, i, a)
      PROVE  PromiseInv'
  <2>1. /\ Who' \in [Requests -> [interaction : Interactions, account : Accounts] \cup {None}]
        /\ \A m \in Requests : Who[m] # None => Who'[m] = Who[m]
    BY <1>2 DEF Sso!Authenticate
  <2>2. \A j \in Interactions, b \in Accounts : [interaction |-> j, account |-> b] # None
    BY <1>0
  <2>3. \A m \in Completed, j \in Interactions, b \in Accounts :
          Who[m] = [interaction |-> j, account |-> b] => Who'[m] = [interaction |-> j, account |-> b]
    BY <2>1, <2>2
  <2>4. UNCHANGED <<Completed, Pending, session, owner, withTokens>>
    BY <1>2 DEF Sso!Authenticate
  <2>5. \A j \in Interactions : Pending[j] # None =>
          /\ Pending[j].account \in Accounts
          /\ \E m \in Completed : Who[m] = [interaction |-> j, account |-> Pending[j].account]
    OBVIOUS
  <2>6. session # None =>
          /\ session.account \in Accounts
          /\ \E m \in Completed, j \in Interactions :
               Who[m] = [interaction |-> j, account |-> session.account]
    OBVIOUS
  <2>7. \A j \in Interactions : Pending[j] # None =>
          \E m \in Completed : Who'[m] = [interaction |-> j, account |-> Pending[j].account]
    BY <2>3, <2>5
  <2>8. session # None => \E m \in Completed, j \in Interactions :
          Who'[m] = [interaction |-> j, account |-> session.account]
    BY <2>3, <2>6
  <2> QED BY <2>1, <2>4, <2>7, <2>8
<1>3. ASSUME NEW g \in Grants, NEW a \in Accounts, Sso!SaveGrant(g, a) PROVE PromiseInv'
  <2>1. /\ owner' \in [Grants -> Accounts \cup {None}]
        /\ \A h \in Grants : owner[h] # None => owner'[h] = owner[h]
    BY <1>3 DEF Sso!SaveGrant
  <2>2. \A res \in Openings : Sso!Entitled(res) => Sso!Entitled(res)'
    BY <1>0, <1>3, <2>1 DEF Sso!SaveGrant
  <2>3. UNCHANGED <<Who, Completed, Pending, session>>
    BY <1>3 DEF Sso!SaveGrant
  <2> QED BY <2>1, <2>2, <2>3
<1>4. ASSUME NEW a \in Accounts, Sso!StoreTokens(a) PROVE PromiseInv'
  BY <1>4 DEF Sso!StoreTokens
<1>5. ASSUME NEW l \in Requests, NEW g \in Grants, Sso!Complete(l, g) PROVE PromiseInv'
  <2>1. PICK i \in Interactions, a \in Accounts : Who[l] = [interaction |-> i, account |-> a]
    BY <1>5 DEF Sso!Complete
  <2>2. Who[l].interaction = i /\ Who[l].account = a
    BY <2>1
  <2>3. /\ Completed' = Completed \cup {l} /\ UNCHANGED <<Who, session, owner, withTokens>>
        /\ owner[g] = a /\ (a \in Users => a \in withTokens)
        /\ \/ Pending' = [Pending EXCEPT ![i] = [account |-> a, grant |-> g]]
           \/ Pending' = [Pending EXCEPT ![i] = None]
    BY <1>5, <2>2 DEF Sso!Complete
  <2>4. /\ Pending' \in [Interactions -> Openings \cup {None}]
        /\ \A j \in Interactions \ {i} : Pending'[j] = Pending[j]
        /\ Pending'[i] \in {[account |-> a, grant |-> g], None}
    BY <2>3
  <2>5. \A j \in Interactions : Pending'[j] # None =>
          /\ Sso!Entitled(Pending'[j])
          /\ \E m \in Completed' : Who[m] = [interaction |-> j, account |-> Pending'[j].account]
    <3> SUFFICES ASSUME NEW j \in Interactions, Pending'[j] # None
                 PROVE  /\ Sso!Entitled(Pending'[j])
                        /\ \E m \in Completed' :
                             Who[m] = [interaction |-> j, account |-> Pending'[j].account]
      OBVIOUS
    <3>1. CASE j = i
      <4>1. Pending'[j] = [account |-> a, grant |-> g]
        BY <2>4, <3>1
      <4>2. Pending'[j].account = a /\ Pending'[j].grant = g
        BY <4>1
      <4> QED BY <2>1, <2>3, <3>1, <4>2
    <3>2. CASE j # i
      BY <2>3, <2>4, <3>2
    <3> QED BY <3>1, <3>2
  <2>6. session # None => \E m \in Completed', j \in Interactions :
          Who[m] = [interaction |-> j, account |-> session.account]
    BY <2>3
  <2>7. Completed' \subseteq Requests
    BY <2>3
  <2> QED BY <2>3, <2>4, <2>5, <2>6, <2>7
<1>6. ASSUME NEW i \in Interactions, Sso!Open(i) PROVE PromiseInv'
  <2>1. /\ Pending' \in [Interactions -> Openings \cup {None}]
        /\ \A j \in Interactions : Pending'[j] # None => Pending'[j] = Pending[j]
    BY <1>6 DEF Sso!Open
  <2> QED BY <1>6, <2>1 DEF Sso!Open
<1>7. ASSUME NEW i \in Interactions, Sso!Expire(i) PROVE PromiseInv'
  <2>1. /\ Pending' \in [Interactions -> Openings \cup {None}]
        /\ \A j \in Interactions : Pending'[j] # None => Pending'[j] = Pending[j]
    BY <1>7 DEF Sso!Expire
  <2> QED BY <1>7, <2>1 DEF Sso!Expire
<1>8. CASE Sso!Close
  BY <1>8 DEF Sso!Close
<1> QED BY <1>1, <1>2, <1>3, <1>4, <1>5, <1>6, <1>7, <1>8 DEF Sso!Next

\* What implementing the sign-on is good for: every result and every session is
\* that of an account which authenticated for an interaction of the browser and
\* completed, with a Grant of its own and, for a user of an identity provider,
\* with its tokens stored (callback, connect, finishInteraction).
THEOREM SignOnKeepsItsPromise == SignOnSpec => []Sso!Promise
<1>1. Sso!Init => PromiseInv
  BY DEF Sso!Init, PromiseInv, Sso!Promise
<1>2. PromiseInv => Sso!Promise
  BY DEF PromiseInv
<1> QED BY <1>1, <1>2, SignOnPromises, PTL DEF SignOnSpec, Sso!Spec
============================================================================
