------------------------ MODULE AccountAccessProofs ------------------------
(***************************************************************************)
(* AccountAccess for any number of requests, any number of Grants and any  *)
(* lives: who is locked out, how long a login lasts, what a deletion       *)
(* leaves.  Each of the three has an invariant of its own, which no other  *)
(* needs but for the types.                                                *)
(***************************************************************************)
EXTENDS AccountAccess, TLAPS

---------------------------------------------------------------------------
(* Types *)

\* The Grant about to be saved is one.
SavesGrant == \A r \in Calls : At(r, "save") => call[r].grant \in GrantIds

TypeInv == TypeOK /\ SavesGrant

LEMMA ClientsAreNotApi == API \notin Clients /\ "web" \in Clients /\ "app" \in Clients
  BY DEF API, Clients

LEMMA NoGrantsType == NoGrants \in [Clients -> MaybeGrant]
  BY DEF NoGrants, MaybeGrant

LEMMA IdleType == Idle \in Requests
<1>1. "idle" \in PCs /\ API \in Clients \cup {API} /\ NoGrant \in MaybeGrant
  BY DEF PCs, MaybeGrant
<1>2. 0 \in Nat /\ FALSE \in BOOLEAN
  OBVIOUS
<1>. QED
  BY <1>1, <1>2, NoGrantsType DEF Idle, Requests

LEMMA TypeInit == Init => TypeInv
<1>. SUFFICES ASSUME Init PROVE TypeInv
  OBVIOUS
<1>1. session \in [life : Nat, grants : [Clients -> MaybeGrant]]
  BY NoGrantsType DEF Init
<1>2. tokens \in [Clients -> [GrantIds -> Nat]] /\ grants \in [GrantIds -> Nat]
  BY DEF Init
<1>3. call \in [Calls -> Requests]
  BY IdleType DEF Init
<1>4. del \in [busy : BOOLEAN, keys : SUBSET {"access", "refresh"}, overlap : BOOLEAN]
  BY DEF Init, NoDeletion
<1>5. SavesGrant
  BY DEF Init, SavesGrant, At, Idle
<1>. QED
  BY <1>1, <1>2, <1>3, <1>4, <1>5 DEF Init, TypeInv, TypeOK

\* A request that is changed into a request: the calls keep their type.
LEMMA CallChanged ==
  ASSUME call \in [Calls -> Requests], NEW r \in Calls, NEW q \in Requests
  PROVE  [call EXCEPT ![r] = q] \in [Calls -> Requests]
  OBVIOUS

LEMMA RequestFields ==
  ASSUME call \in [Calls -> Requests], NEW r \in Calls
  PROVE  /\ call[r].pc \in PCs /\ call[r].client \in Clients \cup {API}
         /\ call[r].grant \in MaybeGrant /\ call[r].life \in Nat
         /\ call[r].seen \in [Clients -> MaybeGrant] /\ call[r].code \in BOOLEAN
         /\ call[r] = [pc |-> call[r].pc, client |-> call[r].client, grant |-> call[r].grant,
                       life |-> call[r].life, seen |-> call[r].seen, code |-> call[r].code]
<1>1. call[r] \in Requests
  OBVIOUS
<1>. QED
  BY <1>1 DEF Requests

\* The calls and the Grants to be saved keep their types.
CallsOK == call \in [Calls -> Requests] /\ SavesGrant

\* A request that does not come to save a Grant: nothing else is to be shown.
LEMMA CallChangedOK ==
  ASSUME CallsOK, NEW r \in Calls, NEW q \in Requests, q.pc = "save" => q.grant \in GrantIds,
         call' = [call EXCEPT ![r] = q]
  PROVE  CallsOK'
<1>1. call' \in [Calls -> Requests]
  BY CallChanged DEF CallsOK
<1>2. ASSUME NEW s \in Calls, call'[s].pc = "save" PROVE call'[s].grant \in GrantIds
  <2>1. CASE s = r
    BY <1>2, <2>1 DEF CallsOK
  <2>2. CASE s # r
    BY <1>2, <2>2 DEF CallsOK, SavesGrant, At
  <2>. QED
    BY <2>1, <2>2
<1>. QED
  BY <1>1, <1>2 DEF CallsOK, SavesGrant, At

LEMMA GotoOK ==
  ASSUME CallsOK, NEW r \in Calls, NEW q \in PCs \ {"save"}, Goto(r, q)
  PROVE  CallsOK'
<1>1. [call[r] EXCEPT !.pc = q] \in Requests /\ [call[r] EXCEPT !.pc = q].pc = q
  BY RequestFields DEF Requests, CallsOK
<1>2. call' = [call EXCEPT ![r] = [call[r] EXCEPT !.pc = q]]
  BY DEF Goto
<1>. QED
  BY <1>1, <1>2, CallChangedOK

LEMMA EndOK ==
  ASSUME CallsOK, NEW r \in Calls, End(r)
  PROVE  CallsOK'
<1>1. Idle \in Requests /\ Idle.pc # "save"
  BY IdleType DEF Idle
<1>. QED
  BY <1>1, CallChangedOK DEF End

LEMMA CallsStep ==
  ASSUME TypeInv, [Next]_vars
  PROVE  CallsOK'
<1>. USE DEF TypeInv
<1>0. CallsOK /\ session.grants \in [Clients -> MaybeGrant]
  BY DEF TypeOK, CallsOK
<1>1. ASSUME NEW r \in Calls, NEW c \in Clients, StartLogin(r, c) PROVE CallsOK'
  <2>. DEFINE g == IF SessionLive THEN session.grants[c] ELSE NoGrant
              q == [Idle EXCEPT !.pc = "callback", !.client = c, !.grant = g]
  <2>1. g \in MaybeGrant
    BY <1>0 DEF MaybeGrant
  <2>2. q \in Requests /\ q.pc = "callback"
    BY <2>1, IdleType DEF Idle, Requests, PCs
  <2>3. call' = [call EXCEPT ![r] = q]
    BY <1>1 DEF StartLogin
  <2>. QED
    BY <1>0, <2>2, <2>3, CallChangedOK
<1>2. ASSUME NEW r \in Calls, PutUser(r) PROVE CallsOK'
  <2>1. CASE GrantLive(call[r].grant)
    <3>. DEFINE q == [call[r] EXCEPT !.pc = "save", !.life = grants[call[r].grant]]
    <3>1. call[r].grant \in GrantIds /\ grants[call[r].grant] \in Nat
      BY <2>1 DEF GrantLive, TypeOK
    <3>2. q \in Requests /\ q.grant = call[r].grant
      BY <1>0, <3>1, RequestFields DEF Requests, PCs, Storing, CallsOK
    <3>3. call' = [call EXCEPT ![r] = q]
      BY <1>2, <2>1 DEF PutUser, FindGrant
    <3>. QED
      BY <1>0, <3>1, <3>2, <3>3, CallChangedOK
  <2>2. CASE ~GrantLive(call[r].grant)
    <3>1. PICK g \in GrantIds :
            call' = [call EXCEPT ![r].pc = "save", ![r].life = Life, ![r].grant = g]
      BY <1>2, <2>2 DEF PutUser, FindGrant
    <3>. DEFINE q == [call[r] EXCEPT !.pc = "save", !.life = Life, !.grant = g]
    <3>2. q \in Requests /\ q.grant = g
      BY <1>0, LifeAssumption, RequestFields DEF Requests, PCs, Storing, CallsOK, MaybeGrant
    <3>3. call' = [call EXCEPT ![r] = q]
      BY <3>1
    <3>. QED
      BY <1>0, <3>2, <3>3, CallChangedOK
  <2>. QED
    BY <2>1, <2>2
<1>3. ASSUME NEW r \in Calls, SaveGrant(r) PROVE CallsOK'
  <2>. DEFINE q == [call[r] EXCEPT !.pc = "setAccess", !.life = 0]
  <2>1. q \in Requests /\ q.pc = "setAccess"
    BY <1>0, RequestFields DEF Requests, PCs, Storing, CallsOK
  <2>2. call' = [call EXCEPT ![r] = q]
    BY <1>3 DEF SaveGrant
  <2>. QED
    BY <1>0, <2>1, <2>2, CallChangedOK
<1>4. ASSUME NEW r \in Calls, SetAccessToken(r) PROVE CallsOK'
  BY <1>0, <1>4, GotoOK DEF SetAccessToken, PCs, Storing
<1>5. ASSUME NEW r \in Calls, SetRefreshToken(r) PROVE CallsOK'
  BY <1>0, <1>5, GotoOK, EndOK DEF SetRefreshToken, PCs
<1>6. ASSUME NEW r \in Calls, Resume(r) PROVE CallsOK'
  <2>. DEFINE q == [call[r] EXCEPT !.pc = "code", !.code = TRUE]
  <2>1. q \in Requests /\ q.pc = "code"
    BY <1>0, RequestFields DEF Requests, PCs, CallsOK
  <2>2. call' = [call EXCEPT ![r] = q]
    BY <1>6 DEF Resume
  <2>. QED
    BY <1>0, <2>1, <2>2, CallChangedOK
<1>7. ASSUME NEW r \in Calls, Authorize(r) PROVE CallsOK'
  <2>. DEFINE q == [Idle EXCEPT !.pc = "lookup", !.client = "web", !.seen = session.grants]
  <2>1. q \in Requests /\ q.pc = "lookup"
    BY <1>0, IdleType, ClientsAreNotApi DEF Idle, Requests, PCs
  <2>2. call' = [call EXCEPT ![r] = q]
    BY <1>7 DEF Authorize
  <2>. QED
    BY <1>0, <2>1, <2>2, CallChangedOK
<1>8. ASSUME NEW r \in Calls, AccountOfSession(r) PROVE CallsOK'
  <2>. DEFINE g == call[r].seen["web"]
              q1 == [call[r] EXCEPT !.pc = "code", !.grant = g, !.seen = NoGrants, !.code = TRUE]
              q2 == [call[r] EXCEPT !.pc = "callback", !.grant = g, !.seen = NoGrants]
  <2>1. g \in MaybeGrant
    BY <1>0, RequestFields, ClientsAreNotApi DEF CallsOK
  <2>2. q1 \in Requests /\ q1.pc = "code"
    BY <1>0, <2>1, NoGrantsType, RequestFields DEF Requests, PCs, CallsOK
  <2>3. q2 \in Requests /\ q2.pc = "callback"
    BY <1>0, <2>1, NoGrantsType, RequestFields DEF Requests, PCs, CallsOK
  <2>4. call' = [call EXCEPT ![r] = q1] \/ call' = [call EXCEPT ![r] = q2]
    BY <1>8 DEF AccountOfSession
  <2>. QED
    BY <1>0, <2>2, <2>3, <2>4, CallChangedOK
<1>9. ASSUME NEW r \in Calls, ExchangeCode(r) PROVE CallsOK'
  BY <1>0, <1>9, GotoOK DEF ExchangeCode, PCs
<1>10. ASSUME NEW r \in Calls, NEW c \in Clients, NEW g \in GrantIds, Refresh(r, c, g)
       PROVE  CallsOK'
  <2>. DEFINE q == [Idle EXCEPT !.pc = "account", !.client = c, !.grant = g]
  <2>1. q \in Requests /\ q.pc = "account"
    BY IdleType DEF Idle, Requests, PCs, MaybeGrant
  <2>2. call' = [call EXCEPT ![r] = q]
    BY <1>10 DEF Refresh
  <2>. QED
    BY <1>0, <2>1, <2>2, CallChangedOK
<1>11. ASSUME NEW r \in Calls, FindAccount(r) PROVE CallsOK'
  BY <1>0, <1>11, GotoOK, EndOK DEF FindAccount, PCs
<1>12. ASSUME NEW r \in Calls, IssueTokens(r) PROVE CallsOK'
  BY <1>0, <1>12, EndOK DEF IssueTokens
<1>13. ASSUME NEW r \in Calls, TokenExchange(r) PROVE CallsOK'
  <2>. DEFINE q == [Idle EXCEPT !.pc = "setAccess"]
  <2>1. q \in Requests /\ q.pc = "setAccess"
    BY IdleType DEF Idle, Requests, PCs, Storing
  <2>2. call' = [call EXCEPT ![r] = q]
    BY <1>13 DEF TokenExchange
  <2>. QED
    BY <1>0, <2>1, <2>2, CallChangedOK
<1>14. ASSUME NEW r \in Calls, Stop(r) PROVE CallsOK'
  BY <1>0, <1>14, EndOK DEF Stop
<1>15. CASE Tick
  <2>1. call' = [r \in Calls |-> IF At(r, "code") THEN Idle ELSE call[r]]
    BY <1>15 DEF Tick
  <2>2. call' \in [Calls -> Requests]
    BY <1>0, <2>1, IdleType DEF CallsOK
  <2>3. ASSUME NEW r \in Calls, call'[r].pc = "save" PROVE call'[r].grant \in GrantIds
    BY <1>0, <2>1, <2>3 DEF CallsOK, SavesGrant, At, Idle
  <2>. QED
    BY <2>2, <2>3 DEF CallsOK, SavesGrant, At
<1>16. CASE UNCHANGED call
  BY <1>0, <1>16 DEF CallsOK, SavesGrant, At
<1>17. Logout \/ Archive \/ DeletionStep \/ (\E k \in idp : IdpTokenExpires(k)) \/ UNCHANGED vars
       => UNCHANGED call
  BY DEF Logout, Archive, DeletionStep, ReadKeys, EndDeletion, FailDeletion, DeleteKey,
         IdpTokenExpires, vars
<1>. QED
  BY <1>1, <1>2, <1>3, <1>4, <1>5, <1>6, <1>7, <1>8, <1>9, <1>10, <1>11, <1>12, <1>13, <1>14,
     <1>15, <1>16, <1>17
  DEF Next, LoginStep, TokenStep
\* The session, the Grants and the refresh tokens keep their types.
StoreOK ==
  /\ session \in [life : Nat, grants : [Clients -> MaybeGrant]]
  /\ grants \in [GrantIds -> Nat]
  /\ tokens \in [Clients -> [GrantIds -> Nat]]

LEMMA SaveSessionType ==
  ASSUME NEW given \in [Clients -> MaybeGrant], SaveSession(given)
  PROVE  session' \in [life : Nat, grants : [Clients -> MaybeGrant]]
  BY LifeAssumption DEF SaveSession

LEMMA StoreStep ==
  ASSUME TypeInv, [Next]_vars
  PROVE  StoreOK'
<1>. USE DEF TypeInv
<1>0. StoreOK /\ CallsOK
  BY DEF TypeOK, StoreOK, CallsOK
<1>1. ASSUME NEW r \in Calls, SaveGrant(r) PROVE StoreOK'
  <2>1. call[r].life \in Nat
    BY <1>0, RequestFields DEF CallsOK
  <2>. QED
    BY <1>0, <1>1, <2>1 DEF SaveGrant, StoreOK
<1>2. ASSUME NEW r \in Calls, Resume(r) PROVE StoreOK'
  <2>. DEFINE given == IF SessionLive THEN session.grants ELSE NoGrants
              all == [given EXCEPT ![call[r].client] = call[r].grant]
  <2>1. given \in [Clients -> MaybeGrant]
    BY <1>0, NoGrantsType DEF StoreOK
  <2>2. call[r].grant \in MaybeGrant
    BY <1>0, RequestFields DEF CallsOK
  <2>3. all \in [Clients -> MaybeGrant]
    BY <2>1, <2>2
  <2>4. SaveSession(all)
    BY <1>2 DEF Resume
  <2>5. session' \in [life : Nat, grants : [Clients -> MaybeGrant]]
    BY <2>3, <2>4, SaveSessionType
  <2>. QED
    BY <1>0, <1>2, <2>5 DEF Resume, StoreOK
<1>3. ASSUME NEW r \in Calls, AccountOfSession(r) PROVE StoreOK'
  <2>1. call[r].seen \in [Clients -> MaybeGrant]
    BY <1>0, RequestFields DEF CallsOK
  <2>2. session' \in [life : Nat, grants : [Clients -> MaybeGrant]]
    BY <1>3, <2>1, SaveSessionType DEF AccountOfSession
  <2>. QED
    BY <1>0, <1>3, <2>2 DEF AccountOfSession, StoreOK
<1>4. ASSUME NEW r \in Calls, IssueTokens(r) PROVE StoreOK'
  BY <1>0, <1>4, LifeAssumption DEF IssueTokens, StoreOK
<1>5. CASE Logout
  <2>. DEFINE given == [session.grants EXCEPT !["web"] = NoGrant]
  <2>1. given \in [Clients -> MaybeGrant] /\ SaveSession(given)
    BY <1>0, <1>5 DEF Logout, StoreOK, MaybeGrant
  <2>2. session' \in [life : Nat, grants : [Clients -> MaybeGrant]]
    BY <2>1, SaveSessionType
  <2>3. grants' \in [GrantIds -> Nat]
    BY <1>0, <1>5 DEF Logout, StoreOK
  <2>4. tokens' \in [Clients -> [GrantIds -> Nat]]
    BY <1>0, <1>5 DEF Logout, StoreOK
  <2>. QED
    BY <2>2, <2>3, <2>4 DEF StoreOK
<1>6. CASE Tick
  <2>1. session' \in [life : Nat, grants : [Clients -> MaybeGrant]]
    BY <1>0, <1>6 DEF Tick, StoreOK, Older
  <2>2. grants' \in [GrantIds -> Nat]
    BY <1>0, <1>6 DEF Tick, StoreOK, Older
  <2>3. tokens' \in [Clients -> [GrantIds -> Nat]]
    BY <1>0, <1>6 DEF Tick, StoreOK, Older
  <2>. QED
    BY <2>1, <2>2, <2>3 DEF StoreOK
<1>7. CASE UNCHANGED store
  BY <1>0, <1>7 DEF StoreOK, store
<1>8. ASSUME NEW r \in Calls,
             \/ \E c \in Clients : StartLogin(r, c)
             \/ \E c \in Clients, g \in GrantIds : Refresh(r, c, g)
             \/ PutUser(r) \/ SetAccessToken(r) \/ SetRefreshToken(r) \/ Authorize(r)
             \/ ExchangeCode(r) \/ FindAccount(r) \/ TokenExchange(r) \/ Stop(r)
      PROVE  UNCHANGED store
  BY <1>8 DEF StartLogin, Refresh, PutUser, SetAccessToken, SetRefreshToken, Authorize,
              ExchangeCode, FindAccount, TokenExchange, Stop
<1>9. Archive \/ DeletionStep \/ (\E k \in idp : IdpTokenExpires(k)) \/ UNCHANGED vars
      => UNCHANGED store
  BY DEF Archive, DeletionStep, ReadKeys, EndDeletion, FailDeletion, DeleteKey,
         IdpTokenExpires, vars
<1>. QED
  BY <1>1, <1>2, <1>3, <1>4, <1>5, <1>6, <1>7, <1>8, <1>9 DEF Next, LoginStep, TokenStep

\* What is left keeps its type.
RestOK ==
  /\ jwt \in Nat /\ lostFor \in Nat /\ loginAge \in Nat
  /\ known \in BOOLEAN /\ purged \in BOOLEAN
  /\ idp \subseteq {"access", "refresh"}
  /\ del \in [busy : BOOLEAN, keys : SUBSET {"access", "refresh"}, overlap : BOOLEAN]

LEMMA RestStep ==
  ASSUME TypeInv, [Next]_vars
  PROVE  RestOK'
<1>. USE DEF TypeInv
<1>0. RestOK
  BY DEF TypeOK, RestOK
<1>1. ASSUME NEW r \in Calls, PutUser(r) PROVE RestOK'
  <2>1. (del.overlap \/ del.busy) \in BOOLEAN
    OBVIOUS
  <2>. QED
    BY <1>0, <1>1, <2>1 DEF PutUser, RestOK
<1>2. ASSUME NEW r \in Calls, SetAccessToken(r) \/ SetRefreshToken(r) PROVE RestOK'
  BY <1>0, <1>2 DEF SetAccessToken, SetRefreshToken, RestOK, history
<1>3. ASSUME NEW r \in Calls, IssueTokens(r) PROVE RestOK'
  <2>1. Larger(jwt, JwtLife) \in Nat
    BY <1>0, LifeAssumption DEF RestOK, Larger
  <2>. QED
    BY <1>0, <1>3, <2>1 DEF IssueTokens, RestOK, history
<1>4. ASSUME NEW r \in Calls, TokenExchange(r) PROVE RestOK'
  BY <1>0, <1>4 DEF TokenExchange, RestOK, history
<1>5. CASE Archive
  BY <1>0, <1>5 DEF Archive, RestOK
<1>6. CASE ReadKeys
  <2>1. (\E r \in Calls : call[r].pc \in Storing) \in BOOLEAN
    OBVIOUS
  <2>. QED
    BY <1>0, <1>6, <2>1 DEF ReadKeys, RestOK, history
<1>7. ASSUME NEW k \in del.keys, DeleteKey(k) PROVE RestOK'
  BY <1>0, <1>7 DEF DeleteKey, RestOK, history
<1>8. CASE EndDeletion \/ FailDeletion
  <2>1. del' \in [busy : BOOLEAN, keys : SUBSET {"access", "refresh"}, overlap : BOOLEAN]
    <3>1. NoDeletion \in [busy : BOOLEAN, keys : SUBSET {"access", "refresh"}, overlap : BOOLEAN]
      BY DEF NoDeletion
    <3>. QED
      BY <1>8, <3>1 DEF EndDeletion, FailDeletion
  <2>2. purged' \in BOOLEAN
    BY <1>0, <1>8 DEF EndDeletion, FailDeletion, RestOK, history
  <2>. QED
    BY <1>0, <1>8, <2>1, <2>2 DEF EndDeletion, FailDeletion, RestOK, history
<1>9. ASSUME NEW k \in idp, IdpTokenExpires(k) PROVE RestOK'
  BY <1>0, <1>9 DEF IdpTokenExpires, RestOK, history
<1>10. CASE Tick
  <2>1. Older(jwt) \in Nat /\ Smaller(lostFor + 1, JwtLife) \in Nat
        /\ Smaller(loginAge + 1, Life + JwtLife) \in Nat
    BY <1>0, LifeAssumption DEF RestOK, Older, Smaller
  <2>. QED
    BY <1>0, <1>10, <2>1 DEF Tick, RestOK
<1>11. ASSUME UNCHANGED <<known, jwt, idp, del, history>> PROVE RestOK'
  BY <1>0, <1>11 DEF RestOK, history
<1>12. ASSUME NEW r \in Calls,
              \/ \E c \in Clients : StartLogin(r, c)
              \/ \E c \in Clients, g \in GrantIds : Refresh(r, c, g)
              \/ SaveGrant(r) \/ Resume(r) \/ Authorize(r) \/ AccountOfSession(r)
              \/ ExchangeCode(r) \/ FindAccount(r) \/ Stop(r)
       PROVE  UNCHANGED <<known, jwt, idp, del, history>>
  BY <1>12 DEF StartLogin, Refresh, SaveGrant, Resume, Authorize, AccountOfSession,
               ExchangeCode, FindAccount, Stop
<1>13. Logout \/ UNCHANGED vars => UNCHANGED <<known, jwt, idp, del, history>>
  BY DEF Logout, vars
<1>. QED
  BY <1>1, <1>2, <1>3, <1>4, <1>5, <1>6, <1>7, <1>8, <1>9, <1>10, <1>11, <1>12, <1>13
  DEF Next, LoginStep, TokenStep, DeletionStep

LEMMA TypeStep == TypeInv /\ [Next]_vars => TypeInv'
<1>. SUFFICES ASSUME TypeInv, [Next]_vars PROVE TypeInv'
  OBVIOUS
<1>1. CallsOK' /\ StoreOK' /\ RestOK'
  BY CallsStep, StoreStep, RestStep
<1>. QED
  BY <1>1 DEF TypeInv, TypeOK, CallsOK, StoreOK, RestOK

\* Every variable keeps its type: no life is counted below zero, no request
\* takes a Grant that is none for one it saves.
THEOREM TypeCorrect == Spec => []TypeOK
<1>1. Init => TypeInv
  BY TypeInit
<1>2. TypeInv /\ [Next]_vars => TypeInv'
  BY TypeStep
<1>3. TypeInv => TypeOK
  BY DEF TypeInv
<1>. QED
  BY <1>1, <1>2, <1>3, PTL DEF Spec

---------------------------------------------------------------------------
(* How a request moves *)

\* Nothing but these steps brings a request to save a Grant, to store a token
\* of the IdP, to ask for its account or to issue a JWT.
Moves(s) ==
  \/ call'[s] = call[s]
  \/ call'[s].pc \in {"idle", "callback", "resume", "lookup", "code"}
  \/ PutUser(s) /\ call'[s].pc = "save"
  \/ SaveGrant(s) /\ call'[s].pc = "setAccess"
  \/ SetAccessToken(s) /\ call'[s].pc = "setRefresh"
  \/ TokenExchange(s) /\ call'[s].pc = "setAccess"
  \/ /\ ExchangeCode(s) \/ \E c \in Clients, g \in GrantIds : Refresh(s, c, g)
     /\ call'[s].pc = "account"
  \/ FindAccount(s) /\ known /\ call'[s].pc = "issue"

LEMMA CallMoves ==
  ASSUME TypeInv, [Next]_vars
  PROVE  \A s \in Calls : Moves(s)
<1>0. CallsOK
  BY DEF TypeInv, TypeOK, CallsOK
<1>1. ASSUME NEW r \in Calls, NEW q, call' = [call EXCEPT ![r] = q], NEW s \in Calls
      PROVE  call'[s] = IF s = r THEN q ELSE call[s]
  BY <1>0, <1>1 DEF CallsOK
<1>2. ASSUME NEW r \in Calls, NEW q \in PCs, Goto(r, q), NEW s \in Calls
      PROVE  (s = r /\ call'[s].pc = q) \/ call'[s] = call[s]
  <2>1. call' = [call EXCEPT ![r] = [call[r] EXCEPT !.pc = q]]
    BY <1>2 DEF Goto
  <2>2. [call[r] EXCEPT !.pc = q].pc = q
    BY <1>0, RequestFields DEF CallsOK
  <2>. QED
    BY <1>1, <2>1, <2>2
<1>3. ASSUME NEW r \in Calls, End(r), NEW s \in Calls PROVE Moves(s)
  BY <1>1, <1>3 DEF End, Idle, Moves
<1>4. ASSUME NEW r \in Calls, NEW c \in Clients, StartLogin(r, c), NEW s \in Calls PROVE Moves(s)
  BY <1>1, <1>4 DEF StartLogin, Idle, Moves
<1>5. ASSUME NEW r \in Calls, PutUser(r), NEW s \in Calls PROVE Moves(s)
  <2>1. CASE GrantLive(call[r].grant)
    <3>. DEFINE q == [call[r] EXCEPT !.pc = "save", !.life = grants[call[r].grant]]
    <3>1. call' = [call EXCEPT ![r] = q] /\ q.pc = "save"
      BY <1>0, <1>5, <2>1, RequestFields DEF PutUser, FindGrant, CallsOK
    <3>. QED
      BY <1>1, <1>5, <3>1 DEF Moves
  <2>2. CASE ~GrantLive(call[r].grant)
    <3>1. PICK g \in GrantIds :
            call' = [call EXCEPT ![r].pc = "save", ![r].life = Life, ![r].grant = g]
      BY <1>5, <2>2 DEF PutUser, FindGrant
    <3>. DEFINE q == [call[r] EXCEPT !.pc = "save", !.life = Life, !.grant = g]
    <3>2. q.pc = "save"
      BY <1>0, RequestFields DEF CallsOK
    <3>3. call' = [call EXCEPT ![r] = q]
      BY <3>1
    <3>. QED
      BY <1>1, <1>5, <3>2, <3>3 DEF Moves
  <2>. QED
    BY <2>1, <2>2
<1>6. ASSUME NEW r \in Calls, SaveGrant(r), NEW s \in Calls PROVE Moves(s)
  <2>. DEFINE q == [call[r] EXCEPT !.pc = "setAccess", !.life = 0]
  <2>1. q.pc = "setAccess"
    BY <1>0, RequestFields DEF CallsOK
  <2>2. call' = [call EXCEPT ![r] = q]
    BY <1>6 DEF SaveGrant
  <2>. QED
    BY <1>1, <1>6, <2>1, <2>2 DEF Moves
<1>7. ASSUME NEW r \in Calls, SetAccessToken(r), NEW s \in Calls PROVE Moves(s)
  BY <1>2, <1>7 DEF SetAccessToken, Moves, PCs, Storing
<1>8. ASSUME NEW r \in Calls, SetRefreshToken(r), NEW s \in Calls PROVE Moves(s)
  BY <1>2, <1>3, <1>8 DEF SetRefreshToken, Moves, PCs
<1>9. ASSUME NEW r \in Calls, Resume(r), NEW s \in Calls PROVE Moves(s)
  <2>. DEFINE q == [call[r] EXCEPT !.pc = "code", !.code = TRUE]
  <2>1. q.pc = "code"
    BY <1>0, RequestFields DEF CallsOK
  <2>2. call' = [call EXCEPT ![r] = q]
    BY <1>9 DEF Resume
  <2>. QED
    BY <1>1, <2>1, <2>2 DEF Moves
<1>10. ASSUME NEW r \in Calls, Authorize(r), NEW s \in Calls PROVE Moves(s)
  BY <1>1, <1>10 DEF Authorize, Idle, Moves
<1>11. ASSUME NEW r \in Calls, AccountOfSession(r), NEW s \in Calls PROVE Moves(s)
  <2>. DEFINE g == call[r].seen["web"]
              q1 == [call[r] EXCEPT !.pc = "code", !.grant = g, !.seen = NoGrants, !.code = TRUE]
              q2 == [call[r] EXCEPT !.pc = "callback", !.grant = g, !.seen = NoGrants]
  <2>1. q1.pc = "code" /\ q2.pc = "callback"
    BY <1>0, RequestFields DEF CallsOK
  <2>2. call' = [call EXCEPT ![r] = q1] \/ call' = [call EXCEPT ![r] = q2]
    BY <1>11 DEF AccountOfSession
  <2>3. call'[s] = call[s] \/ call'[s] = q1 \/ call'[s] = q2
    <3>. HIDE DEF q1, q2
    <3>. QED
      BY <1>1, <2>2
  <2>. QED
    BY <2>1, <2>3 DEF Moves
<1>12. ASSUME NEW r \in Calls, ExchangeCode(r), NEW s \in Calls PROVE Moves(s)
  BY <1>2, <1>12 DEF ExchangeCode, Moves, PCs
<1>13. ASSUME NEW r \in Calls, NEW c \in Clients, NEW g \in GrantIds, Refresh(r, c, g),
              NEW s \in Calls
       PROVE  Moves(s)
  <2>. DEFINE q == [Idle EXCEPT !.pc = "account", !.client = c, !.grant = g]
  <2>1. call' = [call EXCEPT ![r] = q] /\ q.pc = "account"
    BY <1>13 DEF Refresh, Idle
  <2>. QED
    BY <1>1, <1>13, <2>1 DEF Moves
<1>14. ASSUME NEW r \in Calls, FindAccount(r), NEW s \in Calls PROVE Moves(s)
  <2>1. (Goto(r, "issue") /\ known) \/ End(r)
    BY <1>14 DEF FindAccount, getUser
  <2>. QED
    BY <1>2, <1>3, <1>14, <2>1 DEF Moves, PCs
<1>15. ASSUME NEW r \in Calls, IssueTokens(r) \/ Stop(r), NEW s \in Calls PROVE Moves(s)
  BY <1>3, <1>15 DEF IssueTokens, Stop
<1>16. ASSUME NEW r \in Calls, TokenExchange(r), NEW s \in Calls PROVE Moves(s)
  <2>. DEFINE q == [Idle EXCEPT !.pc = "setAccess"]
  <2>1. call' = [call EXCEPT ![r] = q] /\ q.pc = "setAccess"
    BY <1>16 DEF TokenExchange, Idle
  <2>. QED
    BY <1>1, <1>16, <2>1 DEF Moves
<1>17. ASSUME Tick, NEW s \in Calls PROVE Moves(s)
  BY <1>17 DEF Tick, Idle, Moves
<1>18. UNCHANGED call => \A s \in Calls : Moves(s)
  BY DEF Moves
<1>19. Logout \/ Archive \/ DeletionStep \/ (\E k \in idp : IdpTokenExpires(k)) \/ UNCHANGED vars
       => UNCHANGED call
  BY DEF Logout, Archive, DeletionStep, ReadKeys, EndDeletion, FailDeletion, DeleteKey,
         IdpTokenExpires, vars
<1>. QED
  BY <1>4, <1>5, <1>6, <1>7, <1>8, <1>9, <1>10, <1>11, <1>12, <1>13, <1>14, <1>15, <1>16,
     <1>17, <1>18, <1>19
  DEF Next, LoginStep, TokenStep
---------------------------------------------------------------------------
(* An account that the API does not find *)

\* No JWT lives longer than JwtLife; a request whose account was found before
\* it was archived issues its JWT before any time has passed.
LockedOutInv ==
  /\ jwt <= JwtLife
  /\ LockedOut
  /\ \A r \in Calls : At(r, "issue") /\ ~known => lostFor = 0

LEMMA LockedOutStep ==
  ASSUME TypeInv, LockedOutInv, [Next]_vars
  PROVE  LockedOutInv'
<1>. DEFINE Lost == jwt <= JwtLife /\ LockedOut
<1>0. /\ jwt \in Nat /\ lostFor \in Nat /\ JwtLife \in Nat /\ JwtLife > 0 /\ known \in BOOLEAN
  BY LifeAssumption DEF TypeInv, TypeOK
<1>1. ASSUME NEW r \in Calls, PutUser(r) PROVE known' /\ UNCHANGED jwt
  BY <1>1 DEF PutUser
<1>2. CASE Tick
  <2>1. Lost'
    BY <1>0, <1>2 DEF Tick, LockedOutInv, LockedOut, Older, Smaller
  <2>2. \A r \in Calls : ~At(r, "issue")'
    BY <1>2 DEF Tick, At, Idle
  <2>. QED
    BY <2>1, <2>2 DEF LockedOutInv
<1>3. CASE ~Tick
  <2>1. \/ Archive
        \/ \E r \in Calls : PutUser(r)
        \/ \E r \in Calls : IssueTokens(r)
        \/ UNCHANGED <<known, jwt, lostFor>>
    BY <1>3 DEF Next, LoginStep, TokenStep, StartLogin, SaveGrant, SetAccessToken,
       SetRefreshToken, Resume, Authorize, AccountOfSession, ExchangeCode, Refresh, FindAccount,
       TokenExchange, Stop, Logout, DeletionStep, ReadKeys, DeleteKey, EndDeletion, FailDeletion,
       IdpTokenExpires, history, vars
  <2>2. Lost' /\ (~known' => lostFor' = 0 \/ UNCHANGED <<known, lostFor>>)
    <3>1. CASE Archive
      BY <1>0, <3>1 DEF Archive, LockedOutInv, LockedOut
    <3>2. CASE \E r \in Calls : PutUser(r)
      BY <1>0, <1>1, <3>2 DEF LockedOutInv, LockedOut
    <3>3. ASSUME NEW r \in Calls, IssueTokens(r)
          PROVE  Lost' /\ UNCHANGED <<known, lostFor>>
      BY <1>0, <3>3 DEF IssueTokens, LockedOutInv, LockedOut, Larger, history
    <3>4. CASE UNCHANGED <<known, jwt, lostFor>>
      BY <3>4 DEF LockedOutInv, LockedOut
    <3>. QED
      BY <2>1, <3>1, <3>2, <3>3, <3>4
  <2>3. ASSUME NEW r \in Calls, At(r, "issue")', ~known' PROVE lostFor' = 0
    <3>1. CASE At(r, "issue")
      BY <2>2, <2>3, <3>1 DEF LockedOutInv
    <3>2. CASE ~At(r, "issue")
      <4>1. FindAccount(r) /\ known
        BY <2>3, <3>2, CallMoves DEF Moves, At
      <4>. QED
        BY <2>3, <4>1 DEF FindAccount
    <3>. QED
      BY <3>1, <3>2
  <2>. QED
    BY <2>2, <2>3 DEF LockedOutInv
<1>. QED
  BY <1>2, <1>3

\* An account that the API no longer finds is given no JWT any more, whatever
\* session, refresh token or code it keeps: locked out after JwtLife at most.
THEOREM ArchivedAccountIsLockedOut == Spec => []LockedOut
<1>1. Init => TypeInv /\ LockedOutInv
  BY TypeInit, LifeAssumption DEF Init, LockedOutInv, LockedOut, At, Idle
<1>2. (TypeInv /\ LockedOutInv) /\ [Next]_vars => (TypeInv /\ LockedOutInv)'
  BY TypeStep, LockedOutStep
<1>3. LockedOutInv => LockedOut
  BY DEF LockedOutInv
<1>. QED
  BY <1>1, <1>2, <1>3, PTL DEF Spec

---------------------------------------------------------------------------
(* The session slides, the Grant does not *)

\* A Grant, saved or about to be, ends within Life of the last login; a
\* request that has gone past its Grant is served before any time passes.
LoginInv ==
  /\ LoginEvery42Days
  /\ \A g \in GrantIds : grants[g] > 0 => grants[g] + loginAge <= Life
  /\ \A r \in Calls : At(r, "save") => call[r].life > 0 /\ call[r].life + loginAge <= Life
  /\ \A r \in Calls : call[r].pc \in {"account", "issue"} => loginAge < Life

\* Sums of two lives, one of which has aged or ended.
LEMMA OneYounger ==
  ASSUME NEW a \in Nat, NEW b \in Nat, NEW a1 \in Nat, NEW b1 \in Nat, NEW m, NEW n,
         m \in Nat, n \in Nat, a + b <= m + n, a1 = a - 1, b1 <= b + 1
  PROVE  a1 + b1 <= m + n
  OBVIOUS

LEMMA OneIsZero ==
  ASSUME NEW a1 \in Nat, NEW b1 \in Nat, NEW m, NEW n, m \in Nat, n \in Nat,
         a1 = 0, b1 <= m + n
  PROVE  a1 + b1 <= m + n
  OBVIOUS

LEMMA LoginStepOfPutUser ==
  ASSUME TypeInv, LoginInv, NEW r \in Calls, PutUser(r)
  PROVE  call'[r].life > 0 /\ call'[r].life <= Life
<1>0. call \in [Calls -> Requests] /\ Life \in Nat /\ Life > 0 /\ loginAge \in Nat
  BY LifeAssumption DEF TypeInv, TypeOK
<1>1. CASE GrantLive(call[r].grant)
  <2>. DEFINE g == call[r].grant
              q == [call[r] EXCEPT !.pc = "save", !.life = grants[g]]
  <2>1. call' = [call EXCEPT ![r] = q]
    BY <1>1 DEF PutUser, FindGrant
  <2>2. q.life = grants[g]
    BY <1>0, RequestFields
  <2>3. grants[g] \in Nat /\ grants[g] > 0 /\ grants[g] + loginAge <= Life
    BY <1>1 DEF GrantLive, LoginInv, TypeInv, TypeOK
  <2>. QED
    BY <1>0, <2>1, <2>2, <2>3
<1>2. CASE ~GrantLive(call[r].grant)
  <2>1. PICK g \in GrantIds :
          call' = [call EXCEPT ![r].pc = "save", ![r].life = Life, ![r].grant = g]
    BY <1>2 DEF PutUser, FindGrant
  <2>. DEFINE q == [call[r] EXCEPT !.pc = "save", !.life = Life, !.grant = g]
  <2>2. call' = [call EXCEPT ![r] = q]
    BY <2>1
  <2>3. q.life = Life
    BY <1>0, RequestFields
  <2>. QED
    BY <1>0, <2>2, <2>3
<1>. QED
  BY <1>1, <1>2

LEMMA LoginInvStep ==
  ASSUME TypeInv, LoginInv, [Next]_vars
  PROVE  LoginInv'
<1>0. /\ jwt \in Nat /\ loginAge \in Nat /\ grants \in [GrantIds -> Nat]
      /\ Life \in Nat /\ Life > 0 /\ JwtLife \in Nat /\ JwtLife > 0
      /\ call \in [Calls -> Requests] /\ \A r \in Calls : call[r].life \in Nat
  BY LifeAssumption, RequestFields DEF TypeInv, TypeOK
<1>00. call' \in [Calls -> Requests] /\ \A r \in Calls : call'[r].life \in Nat
  BY CallsStep DEF CallsOK, Requests
<1>1. CASE Tick
  <2>1. loginAge' <= loginAge + 1 /\ loginAge' <= Life + JwtLife /\ loginAge' \in Nat
    BY <1>0, <1>1 DEF Tick, Smaller
  <2>2. LoginEvery42Days'
    <3>1. jwt' = IF jwt > 0 THEN jwt - 1 ELSE 0
      BY <1>1 DEF Tick, Older
    <3>2. jwt + loginAge <= Life + JwtLife
      BY DEF LoginInv, LoginEvery42Days
    <3>3. jwt' + loginAge' <= Life + JwtLife
      <4>1. jwt \in Nat /\ loginAge \in Nat /\ Life \in Nat /\ JwtLife \in Nat
        BY <1>0
      <4>2. jwt' \in Nat
        BY <3>1, <4>1
      <4>3. CASE jwt > 0
        BY <2>1, <3>1, <3>2, <4>1, <4>2, <4>3, OneYounger
      <4>4. CASE ~(jwt > 0)
        BY <2>1, <3>1, <4>1, <4>2, <4>4, OneIsZero
      <4>. QED
        BY <4>3, <4>4
    <3>. QED
      BY <3>3 DEF LoginEvery42Days
  <2>3. ASSUME NEW g \in GrantIds, grants'[g] > 0 PROVE grants'[g] + loginAge' <= Life
    <3>1. grants'[g] = Older(grants[g]) /\ grants[g] \in Nat
      BY <1>0, <1>1 DEF Tick
    <3>2. grants[g] > 0 /\ grants'[g] = grants[g] - 1
      BY <2>3, <3>1 DEF Older
    <3>3. grants[g] + loginAge <= Life
      BY <3>2 DEF LoginInv
    <3>. QED
      BY <1>0, <2>1, <3>1, <3>2, <3>3
  <2>4. \A r \in Calls : call'[r].pc \in {"idle", "callback"}
    BY <1>1 DEF Tick, At, Idle
  <2>. QED
    BY <2>2, <2>3, <2>4 DEF LoginInv, At
<1>2. ASSUME NEW r \in Calls, PutUser(r) PROVE LoginInv'
  <2>1. loginAge' = 0 /\ UNCHANGED <<jwt, grants>>
    BY <1>2 DEF PutUser, store
  <2>2. LoginEvery42Days'
    BY <1>0, <2>1 DEF LoginInv, LoginEvery42Days
  <2>3. ASSUME NEW g \in GrantIds, grants'[g] > 0 PROVE grants'[g] + loginAge' <= Life
    BY <1>0, <2>1, <2>3 DEF LoginInv
  <2>4. ASSUME NEW s \in Calls, call'[s].pc = "save"
        PROVE  call'[s].life > 0 /\ call'[s].life + loginAge' <= Life
    <3>1. CASE s = r
      <4>1. call'[r].life > 0 /\ call'[r].life <= Life
        BY <1>2, LoginStepOfPutUser
      <4>. QED
        BY <1>0, <1>00, <2>1, <3>1, <4>1
    <3>2. CASE s # r
      <4>1. call'[s] = call[s]
        BY <1>0, <1>2, <3>2 DEF PutUser, FindGrant
      <4>2. call[s].life > 0 /\ call[s].life + loginAge <= Life
        BY <2>4, <4>1 DEF LoginInv, At
      <4>. QED
        BY <1>0, <2>1, <4>1, <4>2
    <3>. QED
      BY <3>1, <3>2
  <2>. QED
    BY <1>0, <2>1, <2>2, <2>3, <2>4 DEF LoginInv, At
<1>3. CASE ~Tick /\ \A r \in Calls : ~PutUser(r)
  <2>1. UNCHANGED loginAge
    BY <1>3 DEF Next, LoginStep, TokenStep, StartLogin, SaveGrant, SetAccessToken,
       SetRefreshToken, Resume, Authorize, AccountOfSession, ExchangeCode, Refresh, FindAccount,
       IssueTokens, TokenExchange, Stop, Logout, Archive, DeletionStep, ReadKeys, DeleteKey,
       EndDeletion, FailDeletion, IdpTokenExpires, history, vars
  <2>2. \/ \E r \in Calls : SaveGrant(r)
        \/ \E r \in Calls : IssueTokens(r)
        \/ Logout
        \/ UNCHANGED <<jwt, grants>>
    BY <1>3 DEF Next, LoginStep, TokenStep, StartLogin, SetAccessToken,
       SetRefreshToken, Resume, Authorize, AccountOfSession, ExchangeCode, Refresh, FindAccount,
       TokenExchange, Stop, Archive, DeletionStep, ReadKeys, DeleteKey,
       EndDeletion, FailDeletion, IdpTokenExpires, store, vars
  <2>3. LoginEvery42Days'
    <3>1. ASSUME NEW r \in Calls, IssueTokens(r) PROVE LoginEvery42Days'
      <4>1. loginAge < Life /\ jwt' = Larger(jwt, JwtLife)
        BY <3>1 DEF IssueTokens, LoginInv, At
      <4>. QED
        BY <1>0, <2>1, <4>1 DEF Larger, LoginInv, LoginEvery42Days
    <3>2. (\E r \in Calls : SaveGrant(r)) \/ Logout => UNCHANGED jwt
      BY DEF SaveGrant, Logout
    <3>. QED
      BY <2>1, <2>2, <3>1, <3>2 DEF LoginInv, LoginEvery42Days
  <2>4. ASSUME NEW g \in GrantIds, grants'[g] > 0 PROVE grants'[g] + loginAge' <= Life
    <3>1. ASSUME NEW r \in Calls, SaveGrant(r) PROVE grants'[g] + loginAge' <= Life
      <4>1. call[r].life > 0 /\ call[r].life + loginAge <= Life
        BY <3>1 DEF SaveGrant, LoginInv
      <4>2. grants'[g] = IF g = call[r].grant THEN call[r].life ELSE grants[g]
        BY <1>0, <3>1 DEF SaveGrant
      <4>. QED
        BY <2>1, <2>4, <4>1, <4>2 DEF LoginInv
    <3>2. Logout => grants'[g] \in {0, grants[g]}
      BY <1>0 DEF Logout
    <3>3. grants'[g] = grants[g] => grants'[g] + loginAge' <= Life
      BY <2>1, <2>4 DEF LoginInv
    <3>4. (\E r \in Calls : IssueTokens(r)) => UNCHANGED grants
      BY DEF IssueTokens
    <3>. QED
      BY <2>2, <2>4, <3>1, <3>2, <3>3, <3>4
  <2>5. ASSUME NEW r \in Calls, call'[r].pc = "save"
        PROVE  call'[r].life > 0 /\ call'[r].life + loginAge' <= Life
    <3>1. call'[r] = call[r]
      BY <1>3, <2>5, CallMoves DEF Moves
    <3>. QED
      BY <2>1, <2>5, <3>1 DEF LoginInv, At
  <2>6. ASSUME NEW r \in Calls, call'[r].pc \in {"account", "issue"} PROVE loginAge' < Life
    <3>1. CASE call'[r] = call[r]
      BY <2>1, <2>6, <3>1 DEF LoginInv
    <3>2. CASE FindAccount(r)
      BY <2>1, <3>2 DEF FindAccount, LoginInv, At
    <3>3. CASE ExchangeCode(r) \/ \E c \in Clients, g \in GrantIds : Refresh(r, c, g)
      <4>1. PICK g \in GrantIds : grants[g] > 0
        BY <3>3 DEF ExchangeCode, Refresh, GrantLive
      <4>2. grants[g] + loginAge <= Life
        BY <4>1 DEF LoginInv
      <4>. QED
        BY <1>0, <2>1, <4>1, <4>2
    <3>. QED
      BY <2>6, <3>1, <3>2, <3>3, CallMoves DEF Moves
  <2>. QED
    BY <2>3, <2>4, <2>5, <2>6 DEF LoginInv, At
<1>. QED
  BY <1>1, <1>2, <1>3

\* Although the session slides, and /authorize in it gives refresh tokens a
\* full life again, nobody holds a JWT for more than 42 days (and a JWT) after
\* the last login that the API took: a Grant is saved by logins only.
THEOREM LoginEvery42DaysCorrect == Spec => []LoginEvery42Days
<1>1. Init => TypeInv /\ LoginInv
  BY TypeInit, LifeAssumption DEF Init, LoginInv, LoginEvery42Days, At, Idle
<1>2. (TypeInv /\ LoginInv) /\ [Next]_vars => (TypeInv /\ LoginInv)'
  BY TypeStep, LoginInvStep
<1>3. LoginInv => LoginEvery42Days
  BY DEF LoginInv
<1>. QED
  BY <1>1, <1>2, <1>3, PTL DEF Spec

---------------------------------------------------------------------------
(* What a deletion leaves *)

\* While a deletion runs that no login and no refresh overlaps, nothing is
\* stored and what is left are keys it has read.
DeletedInv ==
  /\ DeletedMeansGone
  /\ del.busy /\ ~del.overlap =>
       idp \subseteq del.keys /\ \A r \in Calls : call[r].pc \notin Storing

LEMMA DeletedStep ==
  ASSUME TypeInv, DeletedInv, [Next]_vars
  PROVE  DeletedInv'
<1>0. /\ del \in [busy : BOOLEAN, keys : SUBSET {"access", "refresh"}, overlap : BOOLEAN]
      /\ purged \in BOOLEAN /\ \A r \in Calls : call[r].pc \in PCs
  BY RequestFields DEF TypeInv, TypeOK
<1>. DEFINE Quiet == \A r \in Calls : call[r].pc \notin Storing
<1>1. ASSUME NEW r \in Calls, PutUser(r) \/ TokenExchange(r) PROVE DeletedInv'
  <2>1. del' = [del EXCEPT !.overlap = del.overlap \/ del.busy]
    BY <1>1 DEF PutUser, TokenExchange
  <2>2. del'.busy => del'.overlap
    BY <1>0, <2>1
  <2>3. ~purged'
    BY <1>0, <1>1 DEF PutUser, TokenExchange, DeletedInv, DeletedMeansGone, history
  <2>. QED
    BY <2>2, <2>3 DEF DeletedInv, DeletedMeansGone
<1>2. CASE \A r \in Calls : ~PutUser(r) /\ ~TokenExchange(r)
  <2>1. Quiet => Quiet'
    <3>1. ASSUME NEW r \in Calls, call[r].pc \notin Storing, Moves(r)
          PROVE  call'[r].pc \notin Storing
      BY <1>2, <3>1 DEF Moves, Storing, SaveGrant, SetAccessToken, At
    <3>. QED
      BY <3>1, CallMoves
  <2>2. Quiet => idp' \subseteq idp
    BY <1>2 DEF Next, LoginStep, TokenStep, StartLogin, SaveGrant, SetAccessToken,
       SetRefreshToken, Resume, Authorize, AccountOfSession, ExchangeCode, Refresh, FindAccount,
       IssueTokens, Stop, Logout, Archive, DeletionStep, ReadKeys, DeleteKey,
       EndDeletion, FailDeletion, IdpTokenExpires, Tick, Storing, At, vars
  <2>3. CASE UNCHANGED <<del, purged>>
    BY <2>1, <2>2, <2>3 DEF DeletedInv, DeletedMeansGone
  <2>4. CASE ReadKeys
    <3>1. del' = [busy |-> TRUE, keys |-> idp, overlap |-> ~Quiet] /\ UNCHANGED <<idp, call, purged>>
      BY <2>4 DEF ReadKeys, history
    <3>2. ~del'.overlap => Quiet /\ idp' = del'.keys
      BY <3>1
    <3>. QED
      BY <3>1, <3>2 DEF DeletedInv, DeletedMeansGone
  <2>5. ASSUME NEW k \in del.keys, DeleteKey(k) PROVE DeletedInv'
    <3>1. /\ idp' = idp \ {k} /\ UNCHANGED <<call, purged>>
          /\ del'.busy = del.busy /\ del'.overlap = del.overlap /\ del'.keys = del.keys \ {k}
      BY <1>0, <2>5 DEF DeleteKey, history
    <3>. QED
      BY <3>1 DEF DeletedInv, DeletedMeansGone
  <2>6. CASE EndDeletion
    <3>1. /\ ~del'.busy /\ UNCHANGED <<idp, call>>
          /\ purged' => purged \/ (idp = {} /\ Quiet)
      BY <1>0, <2>6 DEF EndDeletion, NoDeletion, DeletedInv
    <3>. QED
      BY <3>1 DEF DeletedInv, DeletedMeansGone
  <2>7. CASE FailDeletion
    <3>1. ~del'.busy /\ UNCHANGED <<idp, call, purged>>
      BY <2>7 DEF FailDeletion, NoDeletion, history
    <3>. QED
      BY <3>1 DEF DeletedInv, DeletedMeansGone
  <2>8. \/ UNCHANGED <<del, purged>>
        \/ DeletionStep
    BY <1>2 DEF Next, LoginStep, TokenStep, StartLogin, SaveGrant, SetAccessToken,
       SetRefreshToken, Resume, Authorize, AccountOfSession, ExchangeCode, Refresh, FindAccount,
       IssueTokens, Stop, Logout, Archive, IdpTokenExpires, Tick, history, vars
  <2>. QED
    BY <2>3, <2>4, <2>5, <2>6, <2>7, <2>8 DEF DeletionStep
<1>. QED
  BY <1>1, <1>2

\* A deletion that nothing overlaps leaves no token of the IdP, and none comes
\* back before the next login.
THEOREM DeletionIsComplete == Spec => []DeletedMeansGone
<1>1. Init => TypeInv /\ DeletedInv
  BY TypeInit DEF Init, DeletedInv, DeletedMeansGone, NoDeletion
<1>2. (TypeInv /\ DeletedInv) /\ [Next]_vars => (TypeInv /\ DeletedInv)'
  BY TypeStep, DeletedStep
<1>3. DeletedInv => DeletedMeansGone
  BY DEF DeletedInv
<1>. QED
  BY <1>1, <1>2, <1>3, PTL DEF Spec
===========================================================================
