----------------------- MODULE AccessRevocationProofs -----------------------
(***************************************************************************)
(* AccessRevocation for any number of requests and accounts: what a run    *)
(* set out to revoke is gone once it ends, and refused as soon as it has   *)
(* deleted the Grants.  A step of a request is summed up once              *)
(* (RequestEffect); the invariants follow from the summary.                *)
(* A second invariant says what the script touches, and what it leaves.    *)
(***************************************************************************)
EXTENDS AccessRevocation, TLAPS

---------------------------------------------------------------------------
(* The inductive invariant *)

\* Where a request is once it has written its token of a kind: it never
\* writes it again.
After(kind) == IF kind = "code"
               THEN {"saveSession", "issued", "grantOfCode", "consume", "token", "done"}
               ELSE {"done"}
Past(k) == pc[k[2]] \in After(k[1])

\* A token that is stored, named in a list or looked after was written.
TokensAreWritten ==
  \A k \in TokenKeys :
    (k \in stored \/ (\E g \in Requests : k \in list[g]) \/ k \in names
       \/ k \in targets \/ k \in refused \/ k \in deleted)
    => Past(k)

\* A request under way works on the Grant and the session of a login under
\* way or ended, of the same account.
RequestsHaveHolders ==
  \A r \in Requests : pc[r] # "idle" =>
    /\ account[r] \in Accounts
    /\ grantOf[r] \in Requests /\ pc[grantOf[r]] # "idle"
    /\ sessionOf[r] \in Requests /\ pc[sessionOf[r]] # "idle"
    /\ account[grantOf[r]] = account[r]

\* A Grant or a session that is stored was made by a login.
ObjectsWereMade ==
  \A g \in Requests :
    <<"Grant", g>> \in stored \/ <<"Session", g>> \in stored => pc[g] # "idle"

GrantKey(k) == <<"Grant", GrantOfToken(k)>>

\* The way of a target through the script: its Grant is in sight of the SCAN,
\* then found; unless it is an orphan, its key is in the list of that Grant,
\* then read; then it is deleted, or its DEL failed.
TargetIsFollowed(k) ==
  /\ phase # "idle"
  /\ IsRevoked(account[GrantOfToken(k)])
  /\ phase = "scan" => GrantKey(k) \in always
  /\ phase = "lists" => GrantKey(k) \in found
  /\ k \notin orphans =>
       /\ phase = "scan" => k \in list[GrantOfToken(k)]
       /\ phase = "lists" =>
            k \in names \/ (GrantOfToken(k) \in toRead /\ k \in list[GrantOfToken(k)])
       /\ phase = "grants" => k \in names
       /\ phase = "rest" => k \in names /\ (k \in pending \/ failed \/ k \notin stored)

TargetsAreFollowed == \A k \in targets : TargetIsFollowed(k)

\* What the SCAN saw all along is still there.
AlwaysIsStored == always \subseteq stored /\ (phase # "scan" => always = {})

\* The script has nothing in memory before it reads the lists.
NamesAreRead == phase \in {"idle", "scan"} => names = {}

\* A Grant whose targets are refused is not stored, and nobody saves it.
RefusedGrantsAreGone == \A k \in refused : ~ SavedAgain(GrantOfToken(k))

IInv ==
  /\ TypeOK
  /\ TokensAreWritten
  /\ RequestsHaveHolders
  /\ ObjectsWereMade
  /\ AlwaysIsStored
  /\ TargetsAreFollowed
  /\ RefusedGrantsAreGone
  /\ RevokedForGood
  /\ NamesAreRead

---------------------------------------------------------------------------
(* The steps of the requests *)

RequestsTypeOK ==
  /\ pc \in [Requests -> RequestPCs]
  /\ account \in [Requests -> Accounts \cup {None}]
  /\ grantOf \in [Requests -> Requests \cup {None}]
  /\ sessionOf \in [Requests -> Requests \cup {None}]
  /\ stored \subseteq Keys
  /\ list \in [Requests -> SUBSET TokenKeys]
  /\ husks \subseteq TokenKeys

\* What a request under way works on does not change.
KeepsHolders ==
  \A r \in Requests : pc[r] # "idle" =>
    /\ pc'[r] # "idle"
    /\ account'[r] = account[r]
    /\ grantOf'[r] = grantOf[r]

\* Nothing is removed, and a token is written once.
KeepsTokens ==
  /\ stored \subseteq stored'
  /\ \A g \in Requests : list[g] \subseteq list'[g]
  /\ \A k \in TokenKeys : Past(k) => Past(k)' /\ (k \in stored' => k \in stored)
  /\ \A k \in TokenKeys :
       k \in stored' \/ (\E g \in Requests : k \in list'[g])
       => k \in stored \/ (\E g \in Requests : k \in list[g]) \/ Past(k)'

\* Only a new login makes a Grant that was neither there nor read before.
MakesNoOldGrant == \A g \in Requests : SavedAgain(g)' => SavedAgain(g) \/ pc[g] = "idle"

KeepsHistory ==
  /\ UNCHANGED <<targets, orphans, refused, deleted>>
  /\ reported' \in {{}, reported}
  /\ quiet' \in BOOLEAN /\ cleared' \in BOOLEAN

\* Whose request it is is said when it begins; a list only gets tokens of
\* its Grant.
KeepsOwners ==
  /\ \A r \in Requests : pc'[r] = "idle" => account'[r] = account[r]
  /\ \A g \in Requests : \A k \in list'[g] : k \in list[g] \/ (pc[k[2]] # "idle" /\ grantOf[k[2]] = g)

RequestEffect ==
  /\ RequestsTypeOK'
  /\ RequestsHaveHolders'
  /\ ObjectsWereMade'
  /\ KeepsHolders
  /\ KeepsTokens
  /\ MakesNoOldGrant
  /\ KeepsHistory
  /\ KeepsOwners

\* A request that begins: a new login works on its own Grant, any other
\* request on what a login has made.
LEMMA BeginEffect ==
  ASSUME IInv, NEW r \in Requests, pc[r] = "idle",
         NEW to \in {"saveGrant", "loadGrant"}, NEW s \in Requests, NEW a \in Accounts,
         pc' = [pc EXCEPT ![r] = to],
         account' = [account EXCEPT ![r] = a],
         grantOf' = [grantOf EXCEPT ![r] = s],
         sessionOf' = [sessionOf EXCEPT ![r] = s],
         UNCHANGED redis, Arrives,
         \/ s = r
         \/ pc[s] # "idle" /\ a = account[s] /\ (to = "saveGrant" => <<"Grant", s>> \in stored)
  PROVE  RequestEffect
<1> USE DEF IInv
<1>1. RequestsTypeOK'
  BY DEF TypeOK, RequestsTypeOK, RequestPCs, redis
<1>2. RequestsHaveHolders'
  BY DEF TypeOK, RequestsHaveHolders
<1>3. ObjectsWereMade'
  BY DEF TypeOK, ObjectsWereMade, redis
<1>4. KeepsHolders
  BY DEF TypeOK, KeepsHolders
<1>5. KeepsTokens
  <2>1. \A k \in TokenKeys : Past(k) => k[2] # r /\ Past(k)'
    BY DEF TypeOK, Past, After, TokenKeys
  <2> QED BY <2>1 DEF KeepsTokens, redis
<1>6. MakesNoOldGrant
  BY DEF TypeOK, MakesNoOldGrant, SavedAgain, redis
<1>7. KeepsHistory
  BY DEF KeepsHistory, Arrives
<1>8. KeepsOwners
  BY DEF TypeOK, KeepsOwners, redis
<1> QED BY <1>1, <1>2, <1>3, <1>4, <1>5, <1>6, <1>7, <1>8 DEF RequestEffect

\* A request that goes on, writing nothing.
LEMMA ReadEffect ==
  ASSUME IInv, NEW r \in Requests, pc[r] # "idle",
         NEW to \in RequestPCs \ {"idle", "saveGrant"},
         \A kind \in {"code", "token"} : pc[r] \in After(kind) => to \in After(kind),
         pc' = [pc EXCEPT ![r] = to], Reads, Arrives \/ UNCHANGED history
  PROVE  RequestEffect
<1> USE DEF IInv
<1>1. RequestsTypeOK'
  BY DEF TypeOK, RequestsTypeOK, Reads, redis
<1>2. RequestsHaveHolders'
  BY DEF TypeOK, RequestsHaveHolders, Reads
<1>3. ObjectsWereMade'
  BY DEF TypeOK, ObjectsWereMade, Reads, redis
<1>4. KeepsHolders
  BY DEF TypeOK, KeepsHolders, Reads
<1>5. KeepsTokens
  <2>1. \A k \in TokenKeys : Past(k) => Past(k)'
    BY DEF TypeOK, Past, TokenKeys
  <2> QED BY <2>1 DEF KeepsTokens, Reads, redis
<1>6. MakesNoOldGrant
  BY DEF TypeOK, MakesNoOldGrant, SavedAgain, Reads, redis
<1>7. KeepsHistory
  BY DEF TypeOK, KeepsHistory, Arrives, history
<1>8. KeepsOwners
  BY DEF TypeOK, KeepsOwners, Reads, redis
<1> QED BY <1>1, <1>2, <1>3, <1>4, <1>5, <1>6, <1>7, <1>8 DEF RequestEffect

\* A request that goes on, setting keys that are not tokens: its Grant, its
\* session with its index, or the IdP tokens of its account.
LEMMA SetEffect ==
  ASSUME IInv, NEW r \in Requests, pc[r] # "idle",
         NEW to \in RequestPCs \ {"idle", "saveGrant"},
         \A kind \in {"code", "token"} : pc[r] \in After(kind) => to \in After(kind),
         pc' = [pc EXCEPT ![r] = to], UNCHANGED history, NEW K, Set(K),
         \/ K = {<<"Grant", grantOf[r]>>} /\ pc[r] = "saveGrant"
         \/ K = {"Session", "uid"} \X {sessionOf[r]}
         \/ K = {<<"idp", account[r]>>}
  PROVE  RequestEffect
<1> USE DEF IInv
<1>0. /\ grantOf[r] \in Requests /\ pc[grantOf[r]] # "idle"
      /\ sessionOf[r] \in Requests /\ pc[sessionOf[r]] # "idle"
      /\ account[r] \in Accounts
  BY DEF RequestsHaveHolders
<1>k. K \subseteq Keys /\ K \cap TokenKeys = {}
  BY <1>0 DEF Keys, TokenKeys, ObjectKeys, IdpKeys
<1>1. RequestsTypeOK'
  BY <1>k DEF TypeOK, RequestsTypeOK, Set
<1>2. RequestsHaveHolders'
  BY DEF TypeOK, RequestsHaveHolders, Set
<1>3. ObjectsWereMade'
  <2>1. \A g \in Requests : <<"Grant", g>> \in K \/ <<"Session", g>> \in K => pc[g] # "idle"
    BY <1>0
  <2> QED BY <2>1 DEF TypeOK, ObjectsWereMade, Set
<1>4. KeepsHolders
  BY DEF TypeOK, KeepsHolders, Set
<1>5. KeepsTokens
  <2>1. \A k \in TokenKeys : Past(k) => Past(k)'
    BY DEF TypeOK, Past, TokenKeys
  <2>2. \A k \in TokenKeys : k \in stored' => k \in stored
    BY <1>k DEF Set
  <2> QED BY <2>1, <2>2 DEF KeepsTokens, Set
<1>6. MakesNoOldGrant
  <2>1. \A g \in Requests : <<"Grant", g>> \in K => SavedAgain(g)
    BY DEF SavedAgain
  <2> QED BY <2>1 DEF TypeOK, MakesNoOldGrant, SavedAgain, Set
<1>7. KeepsHistory
  BY DEF TypeOK, KeepsHistory, history
<1>8. KeepsOwners
  BY DEF TypeOK, KeepsOwners, Set
<1> QED BY <1>1, <1>2, <1>3, <1>4, <1>5, <1>6, <1>7, <1>8 DEF RequestEffect

\* A request that writes its code or its refresh token, which it had not.
LEMMA UpsertEffect ==
  ASSUME IInv, NEW r \in Requests, NEW kind \in {"code", "token"}, Upsert(r, kind),
         kind = "code" => pc[r] = "code" /\ pc' = [pc EXCEPT ![r] = "saveSession"],
         kind = "token" => pc[r] = "token" /\ pc' = [pc EXCEPT ![r] = "done"]
  PROVE  RequestEffect
<1> USE DEF IInv
<1> DEFINE new == <<kind, r>>
<1>0. grantOf[r] \in Requests
  BY DEF RequestsHaveHolders
<1>k. new \in TokenKeys /\ new \in Keys
  BY DEF TokenKeys, Keys
<1>p. PICK to \in {"saveSession", "done"} :
        /\ pc' = [pc EXCEPT ![r] = to]
        /\ to \in After(kind)
        /\ \A other \in {"code", "token"} : pc[r] \in After(other) => to \in After(other)
  BY DEF After
<1>q. pc[r] \notin After(kind) /\ pc[r] # "idle"
  BY DEF After
<1>1. RequestsTypeOK'
  BY <1>0, <1>k, <1>p DEF TypeOK, RequestsTypeOK, Upsert, RequestPCs
<1>2. RequestsHaveHolders'
  BY <1>p, <1>q DEF TypeOK, RequestsHaveHolders, Upsert
<1>3. ObjectsWereMade'
  BY <1>p, <1>q DEF TypeOK, ObjectsWereMade, Upsert
<1>4. KeepsHolders
  BY <1>p, <1>q DEF TypeOK, KeepsHolders, Upsert
<1>5. KeepsTokens
  <2>1. \A k \in TokenKeys : Past(k) => Past(k)'
    BY <1>p DEF TypeOK, Past, TokenKeys
  <2>2. ~ Past(new) /\ Past(new)'
    BY <1>p, <1>q DEF TypeOK, Past
  <2>3. stored' = stored \cup {new} /\ \A g \in Requests : list'[g] \in {list[g], list[g] \cup {new}}
    BY <1>0 DEF TypeOK, Upsert
  <2> QED BY <2>1, <2>2, <2>3 DEF KeepsTokens
<1>6. MakesNoOldGrant
  BY <1>p DEF TypeOK, MakesNoOldGrant, SavedAgain, Upsert
<1>7. KeepsHistory
  BY DEF TypeOK, KeepsHistory, Upsert, history
<1>8. KeepsOwners
  BY <1>0, <1>p, <1>q DEF TypeOK, KeepsOwners, Upsert
<1> QED BY <1>1, <1>2, <1>3, <1>4, <1>5, <1>6, <1>7, <1>8 DEF RequestEffect

\* A request that consumes its code, which may make its key again.
LEMMA ConsumeEffect ==
  ASSUME IInv, NEW r \in Requests, Consume(r)
  PROVE  RequestEffect
<1> USE DEF IInv
<1>0. /\ pc[r] = "consume" /\ pc' = [pc EXCEPT ![r] = "token"]
      /\ UNCHANGED <<account, grantOf, sessionOf, stored, list>> /\ UNCHANGED history
  BY DEF Consume, Goto
<1>1. RequestsTypeOK'
  <2>1. husks' \subseteq TokenKeys
    BY DEF Consume, TypeOK, TokenKeys
  <2> QED BY <1>0, <2>1 DEF TypeOK, RequestsTypeOK, RequestPCs
<1>2. RequestsHaveHolders'
  BY <1>0 DEF TypeOK, RequestsHaveHolders
<1>3. ObjectsWereMade'
  BY <1>0 DEF TypeOK, ObjectsWereMade
<1>4. KeepsHolders
  BY <1>0 DEF TypeOK, KeepsHolders
<1>5. KeepsTokens
  <2>1. \A k \in TokenKeys : Past(k) => Past(k)'
    BY <1>0 DEF TypeOK, Past, After, TokenKeys
  <2> QED BY <1>0, <2>1 DEF KeepsTokens
<1>6. MakesNoOldGrant
  BY <1>0 DEF TypeOK, MakesNoOldGrant, SavedAgain
<1>7. KeepsHistory
  BY <1>0 DEF TypeOK, KeepsHistory, history
<1>8. KeepsOwners
  BY <1>0 DEF TypeOK, KeepsOwners
<1> QED BY <1>1, <1>2, <1>3, <1>4, <1>5, <1>6, <1>7, <1>8 DEF RequestEffect

\* Every step of a request has these effects.
LEMMA RequestStepEffect == IInv /\ RequestStep => RequestEffect
<1> SUFFICES ASSUME IInv, RequestStep PROVE RequestEffect
  OBVIOUS
<1> USE DEF Goto
<1>1. ASSUME NEW l \in Requests, NEW a \in Accounts, Login(l, a) PROVE RequestEffect
  BY <1>1, BeginEffect DEF Login
<1>2. ASSUME NEW m \in Relogins, NEW s \in Requests, Relogin(m, s) PROVE RequestEffect
  <2>1. m \in Requests
    BY <1>2, RequestsAssumption
  <2>2. pc[s] # "idle" /\ account[s] \in Accounts
    BY <1>2 DEF Relogin, IInv, ObjectsWereMade, RequestsHaveHolders
  <2> QED BY <1>2, <2>1, <2>2, BeginEffect DEF Relogin
<1>3. ASSUME NEW v \in Requests, NEW s \in Requests, Visit(v, s) PROVE RequestEffect
  <2>1. pc[s] # "idle" /\ account[s] \in Accounts
    BY <1>3 DEF Visit, IInv, ObjectsWereMade, RequestsHaveHolders
  <2> QED BY <1>3, <2>1, BeginEffect DEF Visit
<1>4. ASSUME NEW r \in Requests, SaveGrant(r) PROVE RequestEffect
  BY <1>4, SetEffect DEF SaveGrant, After, RequestPCs
<1>5. ASSUME NEW r \in Requests, SetTokens(r) PROVE RequestEffect
  BY <1>5, SetEffect DEF SetTokens, After, RequestPCs
<1>6. ASSUME NEW r \in Requests, LoadGrant(r) PROVE RequestEffect
  BY <1>6, ReadEffect DEF LoadGrant, After, RequestPCs
<1>7. ASSUME NEW r \in Requests, ForceLogin(r) PROVE RequestEffect
  BY <1>7, ReadEffect DEF ForceLogin, After, RequestPCs
<1>8. ASSUME NEW r \in Requests, UpsertCode(r) PROVE RequestEffect
  BY <1>8, UpsertEffect DEF UpsertCode
<1>9. ASSUME NEW r \in Requests, SaveSession(r) PROVE RequestEffect
  BY <1>9, SetEffect DEF SaveSession, After, RequestPCs
<1>10. ASSUME NEW r \in Requests, Exchange(r) PROVE RequestEffect
  BY <1>10, ReadEffect DEF Exchange, After, RequestPCs
<1>11. ASSUME NEW r \in Requests, FindGrant(r) PROVE RequestEffect
  BY <1>11, ReadEffect DEF FindGrant, After, RequestPCs
<1>12. ASSUME NEW r \in Requests, UpsertToken(r) PROVE RequestEffect
  BY <1>12, UpsertEffect DEF UpsertToken
<1>13. ASSUME NEW r \in Requests, Fail(r) PROVE RequestEffect
  BY <1>13, ReadEffect DEF Fail, After, RequestPCs
<1>14. ASSUME NEW r \in Requests, Consume(r) PROVE RequestEffect
  BY <1>14, ConsumeEffect
<1> QED BY <1>1, <1>2, <1>3, <1>4, <1>5, <1>6, <1>7, <1>8, <1>9, <1>10, <1>11, <1>12, <1>13, <1>14
  DEF RequestStep

---------------------------------------------------------------------------
(* The steps of the others keep the invariant *)

\* A token that was written belongs to a Grant made by a login under way or
\* ended, of a known account.
LEMMA WrittenHasGrant ==
  ASSUME IInv, NEW k \in TokenKeys, Past(k)
  PROVE  /\ k[2] \in Requests /\ pc[k[2]] # "idle"
         /\ GrantOfToken(k) \in Requests /\ pc[GrantOfToken(k)] # "idle"
         /\ OwnerOf(k) = account[GrantOfToken(k)]
<1>1. k[1] \in {"code", "token"} /\ k[2] \in Requests
  BY DEF TokenKeys
<1>2. pc[k[2]] # "idle"
  BY <1>1 DEF Past, After
<1> QED BY <1>1, <1>2 DEF IInv, RequestsHaveHolders, GrantOfToken, OwnerOf

\* Requests take nothing from the targets, and give nothing back.
LEMMA RequestStepIInv ==
  ASSUME IInv, RequestEffect, Watch, UNCHANGED script
  PROVE  IInv'
<1> USE DEF IInv, RequestEffect
<1>0. UNCHANGED <<targets, orphans, refused, deleted>> /\ reported' \in {{}, reported}
  BY DEF KeepsHistory
<1>1. TypeOK'
  <2>1. /\ always' \subseteq ObjectKeys \cup IdpKeys
        /\ ever' \subseteq ObjectKeys \cup IdpKeys
    BY DEF TypeOK, Watch, Scannable
  <2> QED BY <2>1, <1>0 DEF TypeOK, RequestsTypeOK, KeepsHistory, script
<1>2. TokensAreWritten'
  BY <1>0 DEF TokensAreWritten, KeepsTokens, script
<1>3. AlwaysIsStored'
  BY DEF AlwaysIsStored, Watch, script
<1>k. ASSUME NEW k \in TokenKeys, Past(k)
      PROVE  /\ GrantOfToken(k)' = GrantOfToken(k)
             /\ GrantOfToken(k) \in Requests /\ pc[GrantOfToken(k)] # "idle"
             /\ account'[GrantOfToken(k)] = account[GrantOfToken(k)]
             /\ list[GrantOfToken(k)] \subseteq list'[GrantOfToken(k)]
             /\ k \notin stored => k \notin stored'
  <2>1. k[2] \in Requests /\ pc[k[2]] # "idle"
    BY <1>k, WrittenHasGrant
  <2>2. GrantOfToken(k) \in Requests /\ pc[GrantOfToken(k)] # "idle"
    BY <1>k, WrittenHasGrant
  <2>3. GrantOfToken(k)' = GrantOfToken(k)
    BY <2>1 DEF KeepsHolders, GrantOfToken
  <2> QED BY <1>k, <2>2, <2>3 DEF KeepsHolders, KeepsTokens
<1>4. TargetsAreFollowed'
  <2> SUFFICES ASSUME NEW k \in targets PROVE TargetIsFollowed(k)'
    BY <1>0 DEF TargetsAreFollowed
  <2>1. k \in TokenKeys /\ Past(k)
    BY DEF TypeOK, TokensAreWritten
  <2>2. TargetIsFollowed(k)
    BY DEF TargetsAreFollowed
  <2>3. GrantKey(k)' = GrantKey(k)
    BY <1>k, <2>1 DEF GrantKey
  <2>4. GrantKey(k) \in always => GrantKey(k) \in always'
    BY DEF AlwaysIsStored, KeepsTokens, Watch
  <2>5. IsRevoked(account[GrantOfToken(k)])'
    BY <1>k, <2>1, <2>2 DEF TargetIsFollowed, IsRevoked
  <2> QED BY <1>0, <1>k, <2>1, <2>2, <2>3, <2>4, <2>5 DEF TargetIsFollowed, script
<1>5. RefusedGrantsAreGone'
  <2> SUFFICES ASSUME NEW k \in refused PROVE ~ SavedAgain(GrantOfToken(k))'
    BY <1>0 DEF RefusedGrantsAreGone
  <2>1. k \in TokenKeys /\ Past(k)
    BY DEF TypeOK, TokensAreWritten
  <2>2. ~ SavedAgain(GrantOfToken(k))
    BY DEF RefusedGrantsAreGone
  <2>3. ~ (\E g \in Requests : g = GrantOfToken(k) /\ SavedAgain(g)')
    BY <1>k, <2>1, <2>2 DEF MakesNoOldGrant
  <2>4. SavedAgain(GrantOfToken(k))' => \E g \in Requests : g = GrantOfToken(k) /\ SavedAgain(g)'
    BY <1>k, <2>1 DEF SavedAgain
  <2> QED BY <2>3, <2>4
<1>6. RevokedForGood' /\ NamesAreRead'
  BY <1>0, <1>k DEF RevokedForGood, NamesAreRead, TypeOK, TokensAreWritten, script
<1> QED BY <1>1, <1>2, <1>3, <1>4, <1>5, <1>6, RequestEffect

\* Neither does the expiry of IdP tokens.
LEMMA ExpireIInv ==
  ASSUME IInv, NEW e \in IdpKeys, Expire(e), Watch, UNCHANGED script
  PROVE  IInv'
<1> USE DEF IInv
<1>0. /\ stored' = stored \ {e}
      /\ UNCHANGED <<pc, account, grantOf, sessionOf, list, husks, targets, orphans, refused,
                     deleted, reported, quiet, cleared>>
      /\ UNCHANGED <<phase, found, toRead, names, pending, failed>>
  BY DEF Expire, requestVars, history, script
<1>1. TypeOK'
  <2>1. /\ always' \subseteq ObjectKeys \cup IdpKeys
        /\ ever' \subseteq ObjectKeys \cup IdpKeys
    BY DEF TypeOK, Watch, Scannable
  <2> QED BY <1>0, <2>1 DEF TypeOK
<1>2. TokensAreWritten'
  BY <1>0 DEF TokensAreWritten, Past
<1>3. RequestsHaveHolders' /\ ObjectsWereMade'
  BY <1>0 DEF RequestsHaveHolders, ObjectsWereMade
<1>4. AlwaysIsStored'
  BY <1>0 DEF AlwaysIsStored, Watch
<1>5. TargetsAreFollowed'
  <2> SUFFICES ASSUME NEW k \in targets PROVE TargetIsFollowed(k)'
    BY <1>0 DEF TargetsAreFollowed
  <2>1. TargetIsFollowed(k)
    BY DEF TargetsAreFollowed
  <2>2. GrantKey(k)' = GrantKey(k) /\ GrantOfToken(k)' = GrantOfToken(k) /\ GrantKey(k) # e
    BY <1>0 DEF GrantKey, GrantOfToken, IdpKeys
  <2>3. GrantKey(k) \in always => GrantKey(k) \in always'
    BY <1>0, <2>2 DEF AlwaysIsStored, Watch
  <2> QED BY <1>0, <2>1, <2>2, <2>3 DEF TargetIsFollowed, IsRevoked
<1>6. RefusedGrantsAreGone' /\ RevokedForGood' /\ NamesAreRead'
  BY <1>0 DEF NamesAreRead, RefusedGrantsAreGone, RevokedForGood, SavedAgain, GrantOfToken
<1> QED BY <1>1, <1>2, <1>3, <1>4, <1>5, <1>6

\* The targets that a list named when it lapsed are orphans from then on.
LEMMA ListLapsesIInv ==
  ASSUME IInv, NEW g \in Requests, ListLapses(g), Watch, UNCHANGED script
  PROVE  IInv'
<1> USE DEF IInv
<1>0. /\ list' = [list EXCEPT ![g] = {}]
      /\ orphans' = orphans \cup ((targets \cap list[g]) \ names)
      /\ UNCHANGED <<pc, account, grantOf, sessionOf, stored, husks, targets, refused, deleted,
                     reported, quiet, cleared>>
      /\ UNCHANGED <<phase, found, toRead, names, pending, failed>>
      /\ always' = always \cap stored
  BY DEF ListLapses, requestVars, script, Watch
<1>1. TypeOK'
  <2>1. ever' \subseteq ObjectKeys \cup IdpKeys
    BY DEF TypeOK, Watch, Scannable
  <2>2. orphans' \subseteq TokenKeys /\ list' \in [Requests -> SUBSET TokenKeys]
    BY <1>0 DEF TypeOK
  <2> QED BY <1>0, <2>1, <2>2 DEF TypeOK
<1>9. \A h \in Requests : list'[h] = IF h = g THEN {} ELSE list[h]
  BY <1>0 DEF TypeOK
<1>2. TokensAreWritten'
  BY <1>0, <1>9 DEF TokensAreWritten, Past
<1>3. RequestsHaveHolders' /\ ObjectsWereMade'
  BY <1>0 DEF RequestsHaveHolders, ObjectsWereMade
<1>4. AlwaysIsStored'
  BY <1>0 DEF AlwaysIsStored
<1>5. TargetsAreFollowed'
  <2> SUFFICES ASSUME NEW k \in targets PROVE TargetIsFollowed(k)'
    BY <1>0 DEF TargetsAreFollowed
  <2>1. TargetIsFollowed(k) /\ k \in TokenKeys /\ Past(k)
    BY DEF TargetsAreFollowed, TypeOK, TokensAreWritten
  <2>2. GrantKey(k)' = GrantKey(k) /\ GrantOfToken(k)' = GrantOfToken(k)
    BY <1>0 DEF GrantKey, GrantOfToken
  <2>3. GrantKey(k) \in always => GrantKey(k) \in always'
    BY <1>0 DEF AlwaysIsStored
  <2>4. GrantOfToken(k) \in Requests
    BY <2>1, WrittenHasGrant
  <2>5. k \notin orphans' => k \notin orphans
    BY <1>0
  <2>6. k \notin orphans' /\ k \in list[GrantOfToken(k)]
        => k \in names \/ k \in list'[GrantOfToken(k)]
    BY <1>0, <1>9, <2>4
  <2>7. phase = "scan" => (k \notin orphans' => k \in list'[GrantOfToken(k)])
    <3>1. phase = "scan" => names = {}
      BY DEF NamesAreRead
    <3> QED BY <2>1, <2>5, <2>6, <3>1 DEF TargetIsFollowed
  <2> QED BY <1>0, <2>1, <2>2, <2>3, <2>5, <2>6, <2>7 DEF TargetIsFollowed, IsRevoked
<1>6. RefusedGrantsAreGone' /\ RevokedForGood' /\ NamesAreRead'
  BY <1>0 DEF NamesAreRead, RefusedGrantsAreGone, RevokedForGood, SavedAgain, GrantOfToken
<1> QED BY <1>1, <1>2, <1>3, <1>4, <1>5, <1>6

---------------------------------------------------------------------------
(* The steps of the script *)

\* What does not move the requests keeps what is known of them.
LEMMA RequestsAside ==
  ASSUME IInv, UNCHANGED requestVars, stored' \subseteq stored
  PROVE  RequestsHaveHolders' /\ ObjectsWereMade'
BY DEF IInv, RequestsHaveHolders, ObjectsWereMade, requestVars

\* A run begins with targets whose Grants are in sight.
LEMMA StartScanIInv ==
  ASSUME IInv, StartScan
  PROVE  IInv'
<1> USE DEF IInv, StartScan
<1>1. TypeOK'
  <2>1. /\ always' \subseteq ObjectKeys \cup IdpKeys
        /\ ever' \subseteq ObjectKeys \cup IdpKeys
        /\ targets' \subseteq TokenKeys /\ orphans' \subseteq TokenKeys
    BY DEF Scannable
  <2>2. quiet' \in BOOLEAN
    OBVIOUS
  <2> QED BY <2>1, <2>2 DEF TypeOK, requestVars, redis, Phases
<1>2. TokensAreWritten'
  BY DEF TokensAreWritten, Past, Usable, requestVars, redis
<1>3. RequestsHaveHolders' /\ ObjectsWereMade'
  BY RequestsAside DEF redis
<1>4. AlwaysIsStored'
  BY DEF AlwaysIsStored, Scannable, redis
<1>5. TargetsAreFollowed'
  <2> SUFFICES ASSUME NEW k \in targets' PROVE TargetIsFollowed(k)'
    BY DEF TargetsAreFollowed
  <2>1. k \in TokenKeys /\ Usable(k) /\ (k \notin orphans' => Named(k)) /\ IsRevoked(OwnerOf(k))
    OBVIOUS
  <2>2. Past(k)
    BY <2>1 DEF TokensAreWritten, Usable
  <2>3. GrantKey(k) \in always'
    BY <2>1, <2>2, WrittenHasGrant DEF Usable, GrantKey, Scannable, ObjectKeys
  <2>4. OwnerOf(k) = account[GrantOfToken(k)]
    BY <2>1, <2>2, WrittenHasGrant
  <2> QED BY <2>1, <2>3, <2>4
    DEF TargetIsFollowed, GrantKey, GrantOfToken, Named, IsRevoked, requestVars, redis
<1>6. RefusedGrantsAreGone' /\ RevokedForGood' /\ NamesAreRead'
  BY DEF NamesAreRead, RefusedGrantsAreGone, RevokedForGood, SavedAgain, GrantOfToken, requestVars, redis
<1> QED BY <1>1, <1>2, <1>3, <1>4, <1>5, <1>6

\* The Grant of a target, in sight all along, is found unless unreadable.
LEMMA EndScanIInv ==
  ASSUME IInv, EndScan
  PROVE  IInv'
<1> USE DEF IInv
<1>1. PICK late \in SUBSET (ever \ always), unreadable \in SUBSET ObjectKeys :
        /\ found' = Keep((always \cup late) \ unreadable)
        /\ reported' = IF quiet THEN unreadable ELSE {}
        /\ targets' = {k \in targets : <<"Grant", GrantOfToken(k)>> \notin unreadable}
  BY DEF EndScan
<1>2. /\ phase = "scan" /\ phase' = "lists"
      /\ always' = {} /\ ever' = {}
      /\ toRead' = {g \in Requests : <<"Grant", g>> \in found'}
      /\ UNCHANGED <<pc, account, grantOf, sessionOf, stored, list, husks, names, pending, failed,
                     orphans, refused, deleted, quiet, cleared>>
  BY DEF EndScan, requestVars, redis
<1>3. TypeOK'
  <2>1. found' \subseteq ObjectKeys \cup IdpKeys /\ reported' \subseteq ObjectKeys \cup IdpKeys
    BY <1>1 DEF TypeOK, Keep
  <2> QED BY <1>1, <1>2, <2>1 DEF TypeOK, Phases
<1>4. TokensAreWritten'
  BY <1>1, <1>2 DEF TokensAreWritten, Past
<1>5. RequestsHaveHolders' /\ ObjectsWereMade'
  BY <1>2, RequestsAside DEF requestVars
<1>6. AlwaysIsStored'
  BY <1>2 DEF AlwaysIsStored
<1>7. TargetsAreFollowed'
  <2> SUFFICES ASSUME NEW k \in targets' PROVE TargetIsFollowed(k)'
    BY DEF TargetsAreFollowed
  <2>1. k \in targets /\ GrantKey(k) \notin unreadable
    BY <1>1 DEF GrantKey
  <2>2. TargetIsFollowed(k) /\ k \in TokenKeys /\ Past(k)
    BY <2>1 DEF TargetsAreFollowed, TypeOK, TokensAreWritten
  <2>3. GrantOfToken(k) \in Requests
    BY <2>2, WrittenHasGrant
  <2>4. OwnerOf(GrantKey(k)) = account[GrantOfToken(k)]
    BY DEF OwnerOf, GrantKey
  <2>5. GrantKey(k) \in found'
    BY <1>1, <1>2, <2>1, <2>2, <2>4 DEF Keep, TargetIsFollowed
  <2>6. GrantKey(k)' = GrantKey(k) /\ GrantOfToken(k)' = GrantOfToken(k)
    BY <1>2 DEF GrantKey, GrantOfToken
  <2>7. GrantOfToken(k) \in toRead'
    BY <1>2, <2>3, <2>5 DEF GrantKey
  <2> QED BY <1>2, <2>2, <2>5, <2>6, <2>7 DEF TargetIsFollowed, IsRevoked
<1>8. RefusedGrantsAreGone' /\ RevokedForGood' /\ NamesAreRead'
  BY <1>2 DEF NamesAreRead, RefusedGrantsAreGone, RevokedForGood, SavedAgain, GrantOfToken
<1> QED BY <1>3, <1>4, <1>5, <1>6, <1>7, <1>8

\* A list is read before anything is deleted.
LEMMA ReadListIInv ==
  ASSUME IInv, NEW g \in Requests, ReadList(g)
  PROVE  IInv'
<1> USE DEF IInv
<1>1. /\ phase = "lists" /\ g \in toRead
      /\ names' = names \cup list[g]
      /\ toRead' = toRead \ {g}
      /\ UNCHANGED <<pc, account, grantOf, sessionOf, stored, list, husks, phase, found, pending,
                     failed, always, ever, targets, orphans, refused, deleted, reported, quiet,
                     cleared>>
  BY DEF ReadList, requestVars, redis, seen, history
<1>2. TypeOK'
  BY <1>1 DEF TypeOK
<1>3. TokensAreWritten'
  BY <1>1 DEF TokensAreWritten, Past
<1>4. RequestsHaveHolders' /\ ObjectsWereMade'
  BY <1>1, RequestsAside DEF requestVars
<1>5. AlwaysIsStored'
  BY <1>1 DEF AlwaysIsStored
<1>6. TargetsAreFollowed'
  BY <1>1 DEF TargetsAreFollowed, TargetIsFollowed, GrantKey, GrantOfToken, IsRevoked
<1>7. RefusedGrantsAreGone' /\ RevokedForGood' /\ NamesAreRead'
  BY <1>1 DEF NamesAreRead, RefusedGrantsAreGone, RevokedForGood, SavedAgain, GrantOfToken
<1> QED BY <1>2, <1>3, <1>4, <1>5, <1>6, <1>7

\* When the deletions begin every list has been read.
LEMMA DeleteGrantsIInv ==
  ASSUME IInv, DeleteGrants
  PROVE  IInv'
<1> USE DEF IInv
<1>1. /\ phase = "lists" /\ toRead = {} /\ phase' = "grants"
      /\ pending' = Grants(found)
      /\ UNCHANGED <<pc, account, grantOf, sessionOf, stored, list, husks, found, toRead, names,
                     failed, always, ever, targets, orphans, refused, deleted, reported, quiet,
                     cleared>>
  BY DEF DeleteGrants, requestVars, redis, seen, history
<1>2. TypeOK'
  BY <1>1 DEF TypeOK, Phases, Grants, Keys
<1>3. TokensAreWritten'
  BY <1>1 DEF TokensAreWritten, Past
<1>4. RequestsHaveHolders' /\ ObjectsWereMade'
  BY <1>1, RequestsAside DEF requestVars
<1>5. AlwaysIsStored'
  BY <1>1 DEF AlwaysIsStored
<1>6. TargetsAreFollowed'
  BY <1>1 DEF TargetsAreFollowed, TargetIsFollowed, GrantKey, GrantOfToken, IsRevoked
<1>7. RefusedGrantsAreGone' /\ RevokedForGood' /\ NamesAreRead'
  BY <1>1 DEF NamesAreRead, RefusedGrantsAreGone, RevokedForGood, SavedAgain, GrantOfToken
<1> QED BY <1>2, <1>3, <1>4, <1>5, <1>6, <1>7

\* A DEL removes its key or is answered by an error.
LEMMA DelIInv ==
  ASSUME IInv, NEW d \in Keys \cup Lists, Del(d)
  PROVE  IInv'
<1> USE DEF IInv
<1>1. /\ phase \in {"grants", "rest"}
      /\ pending' = pending \ {d}
      /\ UNCHANGED <<pc, account, grantOf, sessionOf, phase, found, toRead, names, always, ever,
                     targets, orphans, refused, deleted, reported, quiet, cleared>>
  BY DEF Del, requestVars, seen, history
<1>8. /\ stored' \subseteq stored
      /\ failed' = TRUE \/ (d \notin stored' /\ failed' = failed)
  <2>1. \/ stored' = stored \ {d} /\ failed' = failed
        \/ stored' = stored /\ failed' = TRUE
    BY DEF Del, redis
  <2> QED BY <2>1
<1>9. /\ list' \in [Requests -> SUBSET TokenKeys]
      /\ \A g \in Requests : list'[g] \subseteq list[g]
      /\ husks' \subseteq TokenKeys
  <2>1. \/ list' = [g \in Requests |-> IF d = <<"list", g>> THEN {} ELSE list[g]]
        \/ list' = list
    BY DEF Del, redis
  <2>2. husks' = husks \ {d} \/ husks' = husks
    BY DEF Del, redis
  <2> QED BY <2>1, <2>2 DEF TypeOK
<1>2. TypeOK'
  <2>1. failed' \in BOOLEAN
    BY <1>8 DEF TypeOK
  <2> QED BY <1>1, <1>8, <1>9, <2>1 DEF TypeOK
<1>3. TokensAreWritten'
  BY <1>1, <1>8, <1>9 DEF TokensAreWritten, Past
<1>4. RequestsHaveHolders' /\ ObjectsWereMade'
  BY <1>1, <1>8, RequestsAside DEF requestVars
<1>5. AlwaysIsStored'
  BY <1>1, <1>8, <1>9 DEF AlwaysIsStored
<1>6. TargetsAreFollowed'
  <2> SUFFICES ASSUME NEW k \in targets PROVE TargetIsFollowed(k)'
    BY <1>1 DEF TargetsAreFollowed
  <2>1. TargetIsFollowed(k)
    BY DEF TargetsAreFollowed
  <2>2. phase = "rest" /\ k \notin orphans => k \in pending' \/ failed' \/ k \notin stored'
    <3>1. CASE failed' = TRUE
      BY <3>1
    <3>2. CASE d \notin stored' /\ failed' = failed
      BY <1>1, <1>8, <2>1, <3>2 DEF TargetIsFollowed
    <3> QED BY <1>8, <3>1, <3>2
  <2>3. /\ phase' = phase /\ phase \in {"grants", "rest"} /\ names' = names /\ orphans' = orphans
        /\ IsRevoked(account[GrantOfToken(k)])' = IsRevoked(account[GrantOfToken(k)])
    BY <1>1 DEF IsRevoked, GrantOfToken
  <2> QED BY <2>1, <2>2, <2>3 DEF TargetIsFollowed
<1>7. RefusedGrantsAreGone' /\ RevokedForGood' /\ NamesAreRead'
  BY <1>1, <1>8, <1>9 DEF NamesAreRead, RefusedGrantsAreGone, RevokedForGood, SavedAgain, GrantOfToken
<1> QED BY <1>2, <1>3, <1>4, <1>5, <1>6, <1>7

\* The Grants are deleted: their tokens are refused, and are deleted next.
LEMMA DeleteRestIInv ==
  ASSUME IInv, DeleteRest
  PROVE  IInv'
<1> USE DEF IInv
<1>1. /\ phase = "grants" /\ phase' = "rest"
      /\ pending' = Rest
      /\ refused' = refused \cup {k \in targets : ~ SavedAgain(GrantOfToken(k))}
      /\ UNCHANGED <<pc, account, grantOf, sessionOf, stored, list, husks, found, toRead, names,
                     failed, always, ever, targets, orphans, deleted, reported, quiet, cleared>>
  BY DEF DeleteRest, requestVars, redis, seen
<1>2. TypeOK'
  <2>1. found \subseteq Keys /\ names \subseteq Keys
    BY DEF TypeOK, Keys
  <2>2. \A k \in found : k[1] = "Session" => <<"uid", k[2]>> \in Keys
    BY DEF TypeOK, Keys, ObjectKeys, IdpKeys
  <2>3. Rest \subseteq Keys \cup Lists
    BY <2>1, <2>2 DEF Rest
  <2> QED BY <1>1, <2>3 DEF TypeOK, Phases
<1>3. TokensAreWritten'
  BY <1>1 DEF TokensAreWritten, Past
<1>4. RequestsHaveHolders' /\ ObjectsWereMade'
  BY <1>1, RequestsAside DEF requestVars
<1>5. AlwaysIsStored'
  BY <1>1 DEF AlwaysIsStored
<1>6. TargetsAreFollowed'
  BY <1>1 DEF TargetsAreFollowed, TargetIsFollowed, GrantKey, GrantOfToken, IsRevoked, Rest
<1>7. RefusedGrantsAreGone' /\ RevokedForGood' /\ NamesAreRead'
  BY <1>1 DEF NamesAreRead, RefusedGrantsAreGone, RevokedForGood, SavedAgain, GrantOfToken
<1> QED BY <1>2, <1>3, <1>4, <1>5, <1>6, <1>7

\* A run ends when every key it read in the lists was deleted, or stops
\* before, and then adds nothing to deleted.
LEMMA EndIInv ==
  ASSUME IInv, End \/ Interrupt
  PROVE  IInv'
<1> USE DEF IInv
<1>1. /\ phase' = "idle" /\ targets' = {} /\ orphans' = {} /\ always' = {} /\ ever' = {}
      /\ found' = {} /\ toRead' = {} /\ names' = {} /\ pending' = {} /\ failed' = FALSE
      /\ quiet' = FALSE /\ cleared' \in BOOLEAN
      /\ reported' \in {{}, reported}
      /\ UNCHANGED <<pc, account, grantOf, sessionOf, stored, list, husks, refused>>
  BY DEF End, Interrupt, Stops, TypeOK, requestVars, redis
<1>2. /\ deleted' \subseteq deleted \cup (targets \ orphans)
      /\ \A k \in deleted' : k \notin stored
  BY DEF End, Interrupt, RevokedForGood, TargetsAreFollowed, TargetIsFollowed
<1>3. TypeOK'
  BY <1>1, <1>2 DEF TypeOK, Phases
<1>4. TokensAreWritten'
  BY <1>1, <1>2 DEF TokensAreWritten, Past
<1>5. RequestsHaveHolders' /\ ObjectsWereMade'
  BY <1>1, RequestsAside DEF requestVars
<1>6. AlwaysIsStored' /\ TargetsAreFollowed'
  BY <1>1 DEF AlwaysIsStored, TargetsAreFollowed
<1>7. RefusedGrantsAreGone' /\ RevokedForGood' /\ NamesAreRead'
  BY <1>1, <1>2 DEF NamesAreRead, RefusedGrantsAreGone, RevokedForGood, SavedAgain, GrantOfToken
<1> QED BY <1>3, <1>4, <1>5, <1>6, <1>7

---------------------------------------------------------------------------

\* The logins that ended before left their keys; no run has begun.
LEMMA InitIInv == Init => IInv
<1> SUFFICES ASSUME Init PROVE IInv
  OBVIOUS
<1>1. PICK who \in [Before -> Accounts] :
        /\ account = [r \in Requests |-> IF r \in Before THEN who[r] ELSE None]
        /\ stored = UNION {KeysOf(l, who[l]) : l \in Before}
  BY DEF Init
<1>2. \A k \in stored : \E l \in Before :
        /\ l \in Requests
        /\ k \in {<<"Grant", l>>, <<"Session", l>>, <<"uid", l>>, <<"token", l>>, <<"idp", who[l]>>}
  BY <1>1, RequestsAssumption DEF KeysOf
<1>3. RequestsTypeOK
  <2>1. stored \subseteq Keys
    BY <1>2 DEF Keys, TokenKeys, ObjectKeys, IdpKeys
  <2>2. pc \in [Requests -> RequestPCs]
    BY DEF Init, RequestPCs
  <2>3. account \in [Requests -> Accounts \cup {None}]
    BY <1>1
  <2>4. grantOf \in [Requests -> Requests \cup {None}] /\ sessionOf = grantOf
    BY DEF Init
  <2>5. list \in [Requests -> SUBSET TokenKeys]
    BY DEF Init, TokenKeys
  <2>6. husks \subseteq TokenKeys
    BY DEF Init
  <2> QED BY <2>1, <2>2, <2>3, <2>4, <2>5, <2>6 DEF RequestsTypeOK
<1>4. TypeOK
  BY <1>3 DEF TypeOK, RequestsTypeOK, Init, Phases
<1>5. TokensAreWritten
  <2> SUFFICES ASSUME NEW k \in TokenKeys, k \in stored \/ (\E g \in Requests : k \in list[g])
               PROVE  Past(k)
    BY DEF TokensAreWritten, Init
  <2>1. \E l \in Before : l \in Requests /\ k = <<"token", l>>
    BY <1>2, RequestsAssumption DEF Init, TokenKeys
  <2> QED BY <2>1 DEF Init, Past, After
<1>6. RequestsHaveHolders
  BY <1>1, RequestsAssumption DEF RequestsHaveHolders, Init
<1>7. ObjectsWereMade
  <2>1. \A g \in Requests : <<"Grant", g>> \in stored \/ <<"Session", g>> \in stored => g \in Before
    BY <1>2
  <2> QED BY <2>1 DEF ObjectsWereMade, Init
<1>8. AlwaysIsStored /\ TargetsAreFollowed /\ RefusedGrantsAreGone /\ RevokedForGood /\ NamesAreRead
  BY DEF NamesAreRead, AlwaysIsStored, TargetsAreFollowed, RefusedGrantsAreGone, RevokedForGood, Init
<1> QED BY <1>4, <1>5, <1>6, <1>7, <1>8 DEF IInv

\* The invariant holds in every reachable state.
THEOREM Invariance == Spec => []IInv
<1>1. IInv /\ [Next]_vars => IInv'
  <2> SUFFICES ASSUME IInv, [Next]_vars PROVE IInv'
    OBVIOUS
  <2>1. CASE RequestStep /\ Watch /\ UNCHANGED script
    BY <2>1, RequestStepEffect, RequestStepIInv
  <2>2. CASE /\ (\E k \in IdpKeys : Expire(k)) \/ (\E g \in Requests : ListLapses(g))
             /\ Watch /\ UNCHANGED script
    BY <2>2, ExpireIInv, ListLapsesIInv
  <2>3. CASE ScriptStep
    BY <2>3, StartScanIInv, EndScanIInv, ReadListIInv, DeleteGrantsIInv, DeleteRestIInv, DelIInv,
      EndIInv DEF ScriptStep
  <2>4. CASE UNCHANGED vars
    <3>1. UNCHANGED <<pc, account, grantOf, sessionOf, stored, list, husks, phase, found, toRead,
                      names, pending, failed, always, ever, targets, orphans, refused, deleted,
                      reported, quiet, cleared>>
      BY <2>4 DEF vars, requestVars, redis, script, seen, history
    <3>2. TypeOK'
      BY <3>1 DEF IInv, TypeOK
    <3>3. TokensAreWritten' /\ RequestsHaveHolders' /\ ObjectsWereMade' /\ AlwaysIsStored'
      BY <3>1 DEF IInv, TokensAreWritten, Past, RequestsHaveHolders, ObjectsWereMade, AlwaysIsStored
    <3>4. TargetsAreFollowed' /\ RefusedGrantsAreGone' /\ RevokedForGood' /\ NamesAreRead'
      BY <3>1 DEF IInv, TargetsAreFollowed, TargetIsFollowed, GrantKey, GrantOfToken, IsRevoked,
        RefusedGrantsAreGone, SavedAgain, RevokedForGood, NamesAreRead
    <3> QED BY <3>2, <3>3, <3>4 DEF IInv
  <2> QED BY <2>1, <2>2, <2>3, <2>4 DEF Next
<1> QED BY <1>1, InitIInv, PTL DEF Spec

---------------------------------------------------------------------------

(* What the script deletes, and what a run that is alone leaves *)

\* Nobody's request has not begun; a list names tokens of its Grant; and the
\* script reads and deletes what belongs to revoked users.
ScriptIsOnTarget ==
  /\ \A r \in Requests : pc[r] = "idle" => account[r] = None
  /\ \A g \in Requests : \A k \in list[g] : pc[k[2]] # "idle" /\ grantOf[k[2]] = g
  /\ \A k \in found \cup names \cup pending : IsRevoked(OwnerOf(k))
  /\ \A g \in toRead : IsRevoked(account[g])

\* While a run is alone nothing appears: what it found is deleted, or still to
\* be, or its DEL has failed; what it did not find was reported.
QuietRunSeesAll ==
  quiet => /\ ~ Serving
           /\ phase # "idle"
           /\ phase = "scan" => Scannable \subseteq always
           /\ phase # "scan" => Keep(Scannable) \subseteq found \cup reported
           /\ phase \in {"grants", "rest"} =>
                \A k \in Grants(found) : k \in pending \/ failed \/ k \notin stored
           /\ phase = "rest" =>
                \A k \in found \ Grants(found) : k \in pending \/ failed \/ k \notin stored

\* And nothing appears afterwards, until a request arrives.
ClearedIsIdle == cleared => phase = "idle" /\ ~ Serving

ScopeInv == ScriptIsOnTarget /\ QuietRunSeesAll /\ ClearedIsIdle /\ RerunFindsNothing

\* The owner of a key that belongs to a revoked user does not change.
LEMMA OwnersStay ==
  ASSUME IInv, ScopeInv, NEW k \in Keys \cup Lists, IsRevoked(OwnerOf(k)), KeepsHolders
  PROVE  IsRevoked(OwnerOf(k))'
<1>1. CASE k[1] = "idp"
  BY <1>1 DEF OwnerOf, IsRevoked
<1>2. CASE k[1] # "idp"
  <2>1. k[2] \in Requests
    BY <1>2 DEF Keys, Lists, TokenKeys, ObjectKeys, IdpKeys
  <2>2. pc[k[2]] # "idle"
    BY <1>2, <2>1 DEF ScopeInv, ScriptIsOnTarget, OwnerOf, IsRevoked
  <2> QED BY <1>2, <2>1, <2>2 DEF KeepsHolders, OwnerOf, IsRevoked
<1> QED BY <1>1, <1>2

\* A request that begins is noted, and so is a code that is presented.
LEMMA RequestsAreNoted ==
  ASSUME RequestStep
  PROVE  \/ quiet' = FALSE /\ cleared' = FALSE
         \/ Serving /\ quiet' = quiet /\ cleared' = cleared
<1> USE DEF Goto, Arrives, history
<1>1. ASSUME NEW r \in Requests,
             SaveGrant(r) \/ SetTokens(r) \/ LoadGrant(r) \/ ForceLogin(r) \/ UpsertCode(r)
               \/ SaveSession(r) \/ FindGrant(r) \/ Consume(r) \/ UpsertToken(r) \/ Fail(r)
      PROVE  pc[r] \notin {"idle", "issued", "done"} /\ quiet' = quiet /\ cleared' = cleared
  BY <1>1 DEF SaveGrant, SetTokens, LoadGrant, ForceLogin, UpsertCode, SaveSession, FindGrant,
    Consume, UpsertToken, Fail, Upsert
<1>2. ASSUME NEW r \in Requests, Exchange(r)
      PROVE  quiet' = FALSE /\ cleared' = FALSE
  BY <1>2 DEF Exchange
<1>3. ASSUME NEW r, NEW a, Login(r, a) \/ Relogin(r, a) \/ Visit(r, a)
      PROVE  quiet' = FALSE /\ cleared' = FALSE
  BY <1>3 DEF Login, Relogin, Visit
<1> QED BY <1>1, <1>2, <1>3 DEF RequestStep, Serving

\* Requests change no owner; and a run that is alone meets none.
LEMMA RequestStepScope ==
  ASSUME IInv, ScopeInv, RequestStep, RequestEffect, Watch, UNCHANGED script
  PROVE  ScopeInv'
<1> USE DEF ScopeInv
<1>1. ScriptIsOnTarget'
  <2>1. UNCHANGED <<found, names, pending, toRead>>
    BY DEF script
  <2>2. found \cup names \cup pending \subseteq Keys \cup Lists
    BY DEF IInv, TypeOK, Keys
  <2>3. \A k \in found \cup names \cup pending : IsRevoked(OwnerOf(k))'
    BY <2>2, OwnersStay DEF ScriptIsOnTarget, RequestEffect
  <2>4. \A g \in toRead : IsRevoked(account[g])'
    <3> SUFFICES ASSUME NEW g \in toRead PROVE IsRevoked(account[g])'
      OBVIOUS
    <3>1. g \in Requests /\ IsRevoked(account[g])
      BY DEF IInv, TypeOK, ScriptIsOnTarget
    <3>2. pc[g] # "idle"
      BY <3>1 DEF ScriptIsOnTarget, IsRevoked
    <3> QED BY <3>1, <3>2 DEF RequestEffect, KeepsHolders, IsRevoked
  <2>5. \A r \in Requests : pc'[r] = "idle" => account'[r] = None
    BY DEF ScriptIsOnTarget, RequestEffect, KeepsOwners, KeepsHolders
  <2>6. \A g \in Requests : \A k \in list'[g] : pc'[k[2]] # "idle" /\ grantOf'[k[2]] = g
    <3> SUFFICES ASSUME NEW g \in Requests, NEW k \in list'[g]
                 PROVE  pc'[k[2]] # "idle" /\ grantOf'[k[2]] = g
      OBVIOUS
    <3>1. k[2] \in Requests
      BY DEF RequestEffect, RequestsTypeOK, TokenKeys
    <3>2. pc[k[2]] # "idle" /\ grantOf[k[2]] = g
      BY DEF ScriptIsOnTarget, RequestEffect, KeepsOwners
    <3> QED BY <3>1, <3>2 DEF RequestEffect, KeepsHolders
  <2> QED BY <2>1, <2>3, <2>4, <2>5, <2>6 DEF ScriptIsOnTarget
<1>2. quiet' = FALSE /\ cleared' = FALSE
  BY RequestsAreNoted DEF QuietRunSeesAll, ClearedIsIdle, IInv, TypeOK
<1> QED BY <1>1, <1>2 DEF QuietRunSeesAll, ClearedIsIdle, RerunFindsNothing

\* Expiry only takes away.
LEMMA ExpireScope ==
  ASSUME IInv, ScopeInv, NEW e \in IdpKeys, Expire(e), Watch, UNCHANGED script
  PROVE  ScopeInv'
<1> USE DEF ScopeInv
<1>0. /\ stored' = stored \ {e}
      /\ UNCHANGED <<pc, account, grantOf, list, reported, quiet, cleared>>
      /\ UNCHANGED <<phase, found, toRead, names, pending, failed>>
      /\ always' = always \cap stored'
  BY DEF Expire, requestVars, history, script, Watch
<1>1. ScriptIsOnTarget'
  BY <1>0 DEF ScriptIsOnTarget, OwnerOf, IsRevoked
<1>2. Scannable' \subseteq Scannable /\ Keep(Scannable)' \subseteq Keep(Scannable)
  BY <1>0 DEF Scannable, Keep, OwnerOf, IsRevoked
<1>3. QuietRunSeesAll'
  <2>1. phase = "scan" /\ Scannable \subseteq always => Scannable' \subseteq always'
    BY <1>0, <1>2 DEF Scannable
  <2>2. Serving' = Serving
    BY <1>0 DEF Serving
  <2> QED BY <1>0, <1>2, <2>1, <2>2 DEF QuietRunSeesAll, Grants
<1>4. ClearedIsIdle' /\ RerunFindsNothing'
  BY <1>0, <1>2 DEF ClearedIsIdle, RerunFindsNothing, Serving
<1> QED BY <1>1, <1>3, <1>4

\* So does a list that lapses.
LEMMA ListLapsesScope ==
  ASSUME IInv, ScopeInv, NEW g \in Requests, ListLapses(g), Watch, UNCHANGED script
  PROVE  ScopeInv'
<1> USE DEF ScopeInv
<1>0. /\ list' = [list EXCEPT ![g] = {}]
      /\ UNCHANGED <<pc, account, grantOf, stored, reported, quiet, cleared>>
      /\ UNCHANGED <<phase, found, toRead, names, pending, failed>>
      /\ always' = always \cap stored
  BY DEF ListLapses, requestVars, script, Watch
<1>1. ScriptIsOnTarget'
  <2>1. \A h \in Requests : list'[h] \subseteq list[h]
    BY <1>0 DEF IInv, TypeOK
  <2> QED BY <1>0, <2>1 DEF ScriptIsOnTarget, OwnerOf, IsRevoked
<1>2. QuietRunSeesAll' /\ ClearedIsIdle' /\ RerunFindsNothing'
  BY <1>0 DEF QuietRunSeesAll, ClearedIsIdle, RerunFindsNothing, Serving, Keep, Scannable, OwnerOf,
    IsRevoked, Grants
<1> QED BY <1>1, <1>2

\* The script sees what was there when it began, keeps what belongs to the
\* revoked users, and ends with all of it deleted.
LEMMA ScriptStepScope ==
  ASSUME IInv, ScopeInv, ScriptStep
  PROVE  ScopeInv'
<1> USE DEF ScopeInv
<1>1. CASE StartScan
  <2>0. /\ phase = "idle" /\ phase' = "scan" /\ always' = Scannable /\ quiet' = ~ Serving
        /\ cleared' = FALSE
        /\ UNCHANGED <<pc, account, grantOf, stored, list, found, toRead, names, pending>>
    BY <1>1 DEF StartScan, requestVars, redis
  <2>1. ScriptIsOnTarget'
    BY <2>0 DEF ScriptIsOnTarget, OwnerOf, IsRevoked
  <2>2. QuietRunSeesAll'
    BY <2>0 DEF QuietRunSeesAll, Scannable, Serving
  <2> QED BY <2>0, <2>1, <2>2 DEF ClearedIsIdle, RerunFindsNothing
<1>2. CASE EndScan
  <2>1. PICK late \in SUBSET (ever \ always), unreadable \in SUBSET ObjectKeys :
          /\ found' = Keep((always \cup late) \ unreadable)
          /\ reported' = IF quiet THEN unreadable ELSE {}
    BY <1>2 DEF EndScan
  <2>2. /\ phase = "scan" /\ phase' = "lists"
        /\ toRead' = {g \in Requests : <<"Grant", g>> \in found'}
        /\ UNCHANGED <<pc, account, grantOf, stored, list, names, pending, quiet, cleared>>
    BY <1>2 DEF EndScan, requestVars, redis
  <2>3. \A k \in found' : IsRevoked(OwnerOf(k)')
    BY <2>1, <2>2 DEF Keep, OwnerOf
  <2>4. \A g \in toRead' : IsRevoked(account'[g])
    <3> SUFFICES ASSUME NEW g \in toRead' PROVE IsRevoked(account'[g])
      OBVIOUS
    <3>1. <<"Grant", g>> \in found'
      BY <2>2
    <3> QED BY <2>3, <3>1 DEF OwnerOf
  <2>5. ScriptIsOnTarget'
    <3>1. \A k \in names \cup pending : IsRevoked(OwnerOf(k)')
      BY <2>2 DEF ScriptIsOnTarget, OwnerOf
    <3> QED BY <2>2, <2>3, <2>4, <3>1 DEF ScriptIsOnTarget, IsRevoked
  <2>6. quiet => Keep(Scannable)' \subseteq found' \cup reported'
    BY <2>1, <2>2 DEF QuietRunSeesAll, Keep, Scannable, OwnerOf, IsRevoked
  <2>7. Serving' = Serving
    BY <2>2 DEF Serving
  <2> QED BY <2>2, <2>5, <2>6, <2>7 DEF QuietRunSeesAll, ClearedIsIdle, RerunFindsNothing
<1>3. ASSUME NEW g \in Requests, ReadList(g) PROVE ScopeInv'
  <2>0. /\ phase = "lists" /\ g \in toRead
        /\ names' = names \cup list[g]
        /\ toRead' = toRead \ {g}
        /\ UNCHANGED <<pc, account, grantOf, stored, list, phase, found, pending, always,
                       reported, quiet, cleared>>
    BY <1>3 DEF ReadList, requestVars, redis, seen, history
  <2>1. \A k \in list[g] : IsRevoked(OwnerOf(k))
    <3> SUFFICES ASSUME NEW k \in list[g] PROVE IsRevoked(OwnerOf(k))
      OBVIOUS
    <3>1. k \in TokenKeys /\ IsRevoked(account[g]) /\ pc[k[2]] # "idle" /\ grantOf[k[2]] = g
      BY <2>0 DEF IInv, TypeOK, ScriptIsOnTarget
    <3>2. account[k[2]] = account[g]
      BY <3>1 DEF IInv, RequestsHaveHolders, TokenKeys
    <3> QED BY <3>1, <3>2 DEF OwnerOf, TokenKeys
  <2>2. ScriptIsOnTarget'
    BY <2>0, <2>1 DEF ScriptIsOnTarget, OwnerOf, IsRevoked
  <2> QED BY <2>0, <2>2 DEF QuietRunSeesAll, ClearedIsIdle, RerunFindsNothing, Serving, Keep,
        Scannable, OwnerOf, IsRevoked
<1>4. CASE DeleteGrants
  <2>0. /\ phase = "lists" /\ phase' = "grants" /\ pending' = Grants(found)
        /\ UNCHANGED <<pc, account, grantOf, stored, list, found, toRead, names, reported,
                       quiet, cleared>>
    BY <1>4 DEF DeleteGrants, requestVars, redis, history
  <2>1. ScriptIsOnTarget'
    BY <2>0 DEF ScriptIsOnTarget, OwnerOf, IsRevoked, Grants
  <2> QED BY <2>0, <2>1 DEF QuietRunSeesAll, ClearedIsIdle, RerunFindsNothing, Serving, Keep,
        Scannable, OwnerOf, IsRevoked, Grants
<1>5. CASE DeleteRest
  <2>0. /\ phase = "grants" /\ pending = {} /\ ~ failed /\ phase' = "rest" /\ pending' = Rest
        /\ UNCHANGED <<pc, account, grantOf, stored, list, found, toRead, names, failed, reported,
                       quiet, cleared>>
    BY <1>5 DEF DeleteRest, requestVars, redis
  <2>1. \A k \in Rest : IsRevoked(OwnerOf(k))
    <3>1. \A k \in names \cup found : IsRevoked(OwnerOf(k))
      BY DEF ScriptIsOnTarget
    <3>2. \A k \in Lists : <<"Grant", k[2]>> \in found => IsRevoked(OwnerOf(k))
      BY <3>1 DEF Lists, OwnerOf
    <3>3. \A k \in found : k[1] = "Session" => IsRevoked(OwnerOf(<<"uid", k[2]>>))
      BY <3>1 DEF OwnerOf
    <3> QED BY <3>1, <3>2, <3>3 DEF Rest
  <2>2. ScriptIsOnTarget'
    BY <2>0, <2>1 DEF ScriptIsOnTarget, OwnerOf, IsRevoked
  <2>3. \A k \in found \ Grants(found) : k \in Rest
    BY DEF Rest, Grants
  <2>4. quiet => \A k \in Grants(found) : k \notin stored
    BY <2>0 DEF QuietRunSeesAll
  <2>5. QuietRunSeesAll'
    BY <2>0, <2>3, <2>4 DEF QuietRunSeesAll, Serving, Keep, Scannable, OwnerOf, IsRevoked, Grants
  <2> QED BY <2>0, <2>2, <2>5 DEF QuietRunSeesAll, ClearedIsIdle, RerunFindsNothing
<1>6. ASSUME NEW d \in Keys \cup Lists, Del(d) PROVE ScopeInv'
  <2>0. /\ phase \in {"grants", "rest"}
        /\ pending' = pending \ {d}
        /\ UNCHANGED <<pc, account, grantOf, phase, found, toRead, names, reported, quiet, cleared>>
    BY <1>6 DEF Del, requestVars, history
  <2>1. /\ stored' \subseteq stored
        /\ failed' = TRUE \/ (d \notin stored' /\ failed' = failed)
    <3>1. \/ stored' = stored \ {d} /\ failed' = failed
          \/ stored' = stored /\ failed' = TRUE
      BY <1>6 DEF Del, redis
    <3> QED BY <3>1
  <2>2. \A g \in Requests : list'[g] \subseteq list[g]
    <3>1. \/ list' = [g \in Requests |-> IF d = <<"list", g>> THEN {} ELSE list[g]]
          \/ list' = list
      BY <1>6 DEF Del, redis
    <3> QED BY <3>1
  <2>3. ScriptIsOnTarget'
    BY <2>0, <2>2 DEF ScriptIsOnTarget, OwnerOf, IsRevoked
  <2>4. Scannable' \subseteq Scannable /\ Keep(Scannable)' \subseteq Keep(Scannable)
    BY <2>0, <2>1 DEF Scannable, Keep, OwnerOf, IsRevoked
  <2>5. \A k : k \in pending \/ failed \/ k \notin stored => k \in pending' \/ failed' \/ k \notin stored'
    BY <2>0, <2>1
  <2>6. QuietRunSeesAll'
    BY <2>0, <2>4, <2>5 DEF QuietRunSeesAll, Serving, Grants
  <2> QED BY <2>0, <2>3, <2>4, <2>6 DEF ClearedIsIdle, RerunFindsNothing
<1>7. CASE End \/ Interrupt
  <2>0. /\ phase # "idle" /\ phase' = "idle"
        /\ found' = {} /\ toRead' = {} /\ names' = {} /\ pending' = {} /\ quiet' = FALSE
        /\ UNCHANGED <<pc, account, grantOf, stored, list>>
    BY <1>7 DEF End, Interrupt, Stops, requestVars, redis
  <2>1. ScriptIsOnTarget' /\ QuietRunSeesAll'
    BY <2>0 DEF ScriptIsOnTarget, QuietRunSeesAll
  <2>2. cleared' => ~ Serving /\ Keep(Scannable) \subseteq reported'
    <3>1. CASE End
      <4>1. /\ phase = "rest" /\ pending = {} /\ ~ failed /\ cleared' = quiet
            /\ reported' = reported
        BY <3>1 DEF End
      <4>2. quiet => \A k \in found : k \notin stored
        BY <4>1 DEF QuietRunSeesAll
      <4> QED BY <4>1, <4>2 DEF QuietRunSeesAll, Keep, Scannable
    <3>2. CASE Interrupt
      BY <2>0, <3>2 DEF Interrupt, ClearedIsIdle
    <3> QED BY <1>7, <3>1, <3>2
  <2>3. Keep(Scannable)' = Keep(Scannable) /\ Serving' = Serving
    BY <2>0 DEF Keep, Scannable, OwnerOf, IsRevoked, Serving
  <2> QED BY <2>0, <2>1, <2>2, <2>3 DEF ClearedIsIdle, RerunFindsNothing
<1> QED BY <1>1, <1>2, <1>3, <1>4, <1>5, <1>6, <1>7 DEF ScriptStep

\* The two invariants together hold in every reachable state.
LEMMA ScopeInvariance == Spec => [](IInv /\ ScopeInv)
<1>1. Init => ScopeInv
  <2> SUFFICES ASSUME Init PROVE ScopeInv
    OBVIOUS
  <2>1. \A r \in Requests : pc[r] = "idle" => account[r] = None
    BY DEF Init
  <2>2. \A g \in Requests : \A k \in list[g] : pc[k[2]] # "idle" /\ grantOf[k[2]] = g
    BY DEF Init
  <2> QED BY <2>1, <2>2
    DEF Init, ScopeInv, ScriptIsOnTarget, QuietRunSeesAll, ClearedIsIdle, RerunFindsNothing
<1>2. IInv /\ ScopeInv /\ [Next]_vars => ScopeInv'
  <2> SUFFICES ASSUME IInv, ScopeInv, [Next]_vars PROVE ScopeInv'
    OBVIOUS
  <2>1. CASE RequestStep /\ Watch /\ UNCHANGED script
    BY <2>1, RequestStepEffect, RequestStepScope
  <2>2. CASE /\ (\E k \in IdpKeys : Expire(k)) \/ (\E g \in Requests : ListLapses(g))
             /\ Watch /\ UNCHANGED script
    BY <2>2, ExpireScope, ListLapsesScope
  <2>3. CASE ScriptStep
    BY <2>3, ScriptStepScope
  <2>4. CASE UNCHANGED vars
    <3>1. UNCHANGED <<pc, account, grantOf, stored, list, phase, found, toRead, names, pending,
                      failed, always, reported, quiet, cleared>>
      BY <2>4 DEF vars, requestVars, redis, script, seen, history
    <3> QED BY <3>1 DEF ScopeInv, ScriptIsOnTarget, QuietRunSeesAll, ClearedIsIdle,
          RerunFindsNothing, Serving, Keep, Scannable, OwnerOf, IsRevoked, Grants
  <2> QED BY <2>1, <2>2, <2>3, <2>4 DEF Next
<1> QED BY <1>1, <1>2, Invariance, PTL DEF Spec

---------------------------------------------------------------------------

\* Every variable of the script and of the requests keeps its type: what
\* revoquerAcces reads and deletes are keys that logins may write.
THEOREM TypeCorrect == Spec => []TypeOK
<1>1. IInv => TypeOK
  BY DEF IInv
<1> QED BY <1>1, Invariance, PTL

\* What a run set out to revoke, and what the list of its Grant still named
\* when the run read it, is gone for good once it has ended without error
\* (revoquerAcces), whatever is written meanwhile and whatever lists lapse.
THEOREM TargetsAreRevokedForGood == Spec => []RevokedForGood
<1>1. IInv => RevokedForGood
  BY DEF IInv
<1> QED BY <1>1, Invariance, PTL

\* It is refused as soon as the Grants are deleted ("Grant d'abord"), whether a
\* list named it or not, even if the run stops there.
THEOREM TargetsAreRefused == Spec => []SurvivorsAreRefused
<1>1. IInv => SurvivorsAreRefused
  BY DEF IInv, SurvivorsAreRefused, RefusedGrantsAreGone, SavedAgain, Usable
<1> QED BY <1>1, Invariance, PTL

\* A run during which nothing was served leaves nothing of the revoked users
\* but what it reported, until something is served again: running the script
\* again shows zero everywhere (revoquerAcces, afficherBilan).
THEOREM RerunsFindNothing == Spec => []RerunFindsNothing
<1>1. ScopeInv => RerunFindsNothing
  BY DEF ScopeInv
<1> QED BY <1>1, ScopeInvariance, PTL

\* The script, whatever it meets, takes nothing from an account that is not in
\* its list: each key it deletes is one it read as a revoked user's.
THEOREM OthersAreUntouched == Spec => OthersAreLeftAlone
<1>1. IInv /\ ScopeInv /\ [Next]_vars
      => [ScriptStep => \A a \in Accounts : ~ IsRevoked(a) => HoldingsOf(a)' = HoldingsOf(a)]_vars
  <2> SUFFICES ASSUME IInv, ScopeInv, ScriptStep, NEW a \in Accounts, ~ IsRevoked(a)
               PROVE  HoldingsOf(a)' = HoldingsOf(a)
    OBVIOUS
  <2>1. account' = account
    BY DEF ScriptStep, StartScan, EndScan, ReadList, DeleteGrants, DeleteRest, Del, End, Interrupt,
      Stops, requestVars
  <2>2. CASE UNCHANGED <<stored, list, husks>>
    BY <2>1, <2>2 DEF HoldingsOf, OwnerOf
  <2>3. ASSUME NEW d \in Keys \cup Lists, Del(d)
        PROVE  HoldingsOf(a)' = HoldingsOf(a)
    <3>1. IsRevoked(OwnerOf(d))
      BY <2>3 DEF Del, ScopeInv, ScriptIsOnTarget
    <3>2. OwnerOf(d) # a
      BY <3>1
    <3>3. \A k : OwnerOf(k)' = OwnerOf(k)
      BY <2>1 DEF OwnerOf
    <3>4. \/ /\ stored' = stored \ {d}
             /\ husks' = husks \ {d}
             /\ list' = [g \in Requests |-> IF d = <<"list", g>> THEN {} ELSE list[g]]
          \/ UNCHANGED <<stored, list, husks>>
      BY <2>3 DEF Del, redis
    <3>5. /\ {k \in stored : OwnerOf(k) = a}' = {k \in stored : OwnerOf(k) = a}
          /\ {k \in husks : OwnerOf(k) = a}' = {k \in husks : OwnerOf(k) = a}
      BY <3>2, <3>3, <3>4
    <3>6. \A g \in Requests : account[g] = a => list'[g] = list[g]
      BY <3>2, <3>4 DEF OwnerOf
    <3> QED BY <2>1, <3>5, <3>6 DEF HoldingsOf
  <2>4. UNCHANGED <<stored, list, husks>> \/ \E d \in Keys \cup Lists : Del(d)
    BY DEF ScriptStep, StartScan, EndScan, ReadList, DeleteGrants, DeleteRest, End, Interrupt,
      Stops, redis
  <2> QED BY <2>2, <2>3, <2>4
<1> QED BY <1>1, ScopeInvariance, PTL DEF Spec, OthersAreLeftAlone
=============================================================================
