-------------------------- MODULE GrantStoreProofs --------------------------
(***************************************************************************)
(* GrantStore for any number of flows, deletions and logouts, and any      *)
(* lifetimes.  The types come first; then a guest's grant, whatever        *)
(* overlaps, fails or stops; then the grant of a connected account whose   *)
(* requests come one after the other.                                      *)
(***************************************************************************)
EXTENDS GrantStore, TLAPS

PCs == FlowPCs \cup RevokePCs \cup DeletePCs

PcType == pc \in [Procs -> PCs] /\ \A f \in Flows : pc[f] \in FlowPCs \cup RevokePCs

\* A process goes on to a step of its kind.
LEMMA GotoType ==
  ASSUME PcType, NEW p \in Procs, NEW q \in PCs,
         p \in Flows => q \in FlowPCs \cup RevokePCs, Goto(p, q)
  PROVE  PcType'
BY DEF PcType, Goto

\* A step that only moves a process, and the session of the browser.
LEMMA MoveType ==
  ASSUME TypeOK, PcType', session' \in {session, "connecting", "open"},
         UNCHANGED <<seen, listed, presents, redis, revoked, accepted>>
  PROVE  TypeOK'
BY DEF TypeOK, PcType, PCs, redis

\* What a request of a flow leaves in its variables.
LEMMA FlowType ==
  ASSUME TypeOK, NEW f \in Flows, FlowStep(f)
  PROVE  TypeOK'
<1> USE DEF FlowPCs, RevokePCs, PCs
<1>0. PcType /\ f \in Procs
  BY DEF TypeOK, PcType, Procs
<1>1. CASE NewGrant(f)
  BY <1>0, <1>1, GotoType, MoveType DEF NewGrant
<1>2. CASE SaveGrant(f)
  <2>1. PcType'
    BY <1>0, <1>2, GotoType DEF SaveGrant
  <2>2. LifeTtl \in Ttls
    BY TtlAssumption DEF LifeTtl, Ttls, NoExpiry
  <2> QED BY <1>2, <2>1, <2>2 DEF SaveGrant, TypeOK, PcType
<1>3. CASE ReuseGrant(f)
  <2>1. PcType'
    BY <1>0, <1>3, GotoType DEF ReuseGrant
  <2>2. grant \in Ttls /\ seen \in [Flows -> Ttls]
    BY DEF TypeOK
  <2>3. seen' \in [Flows -> Ttls]
    BY <1>3, <2>2 DEF ReuseGrant
  <2> QED BY <1>3, <2>1, <2>3 DEF ReuseGrant, TypeOK, PcType, redis
<1>4. CASE RenewGrant(f)
  <2>1. PcType'
    BY <1>0, <1>4, GotoType DEF RenewGrant
  <2>2. seen[f] \in Int
    BY DEF TypeOK, Ttls, NoExpiry, Absent
  <2>3. grant' \in Ttls
    BY <1>4, <2>2 DEF RenewGrant, TypeOK, Ttls
  <2> QED BY <1>4, <2>1, <2>3 DEF RenewGrant, TypeOK, PcType
<1>5. CASE IndexGrant(f)
  <2>1. PcType'
    BY <1>0, <1>5, GotoType DEF IndexGrant
  <2>2. index' \in BOOLEAN
    BY <1>5 DEF IndexGrant, TypeOK
  <2> QED BY <1>5, <2>1, <2>2 DEF IndexGrant, TypeOK, PcType
<1>6. CASE AuthorizeWithSession(f)
  BY <1>0, <1>6, GotoType, MoveType DEF AuthorizeWithSession
<1>7. CASE LoadGrant(f)
  BY <1>0, <1>7, GotoType, MoveType DEF LoadGrant
<1>8. CASE ReadListTtl(f)
  <2>1. PcType'
    BY <1>0, <1>8, GotoType DEF ReadListTtl
  <2>2. list.ttl \in Ttls /\ seen \in [Flows -> Ttls]
    BY DEF TypeOK
  <2>3. seen' \in [Flows -> Ttls]
    BY <1>8, <2>2 DEF ReadListTtl
  <2> QED BY <1>8, <2>1, <2>3 DEF ReadListTtl, TypeOK, PcType, redis
<1>9. CASE ReadListTtlFails(f)
  <2>1. AfterUpsert(f) \in FlowPCs
    BY DEF AfterUpsert
  <2> QED BY <1>0, <1>9, <2>1, GotoType, MoveType DEF ReadListTtlFails, HandOut
<1>10. CASE Upsert(f)
  <2>1. AfterUpsert(f) \in FlowPCs
    BY DEF AfterUpsert
  <2>2. PcType' /\ session' = "open"
    BY <1>0, <1>10, <2>1, GotoType DEF Upsert, HandOut
  <2>3. ExpiresIn(f) \in Ttls /\ ExpiresIn(f) # Absent
    BY TtlAssumption DEF ExpiresIn, LifeTtl, Ttls, NoExpiry, Absent
  <2>4. KeyOf(f) \in Keys
    BY DEF KeyOf, Keys
  <2>5. list \in [ttl : Ttls, keys : SUBSET Keys]
        /\ key \in [Keys -> [ttl : Ttls, payload : BOOLEAN, consumed : BOOLEAN]]
    BY DEF TypeOK
  <2>6. CASE Exec(f)
    <3> DEFINE pushed == IF Stored(list.ttl) THEN list.ttl ELSE NoExpiry
    <3>1. pushed \in Ttls
      BY <2>5 DEF Ttls, NoExpiry
    <3>2. ListTtlAfter(f, pushed) \in Ttls
      BY <2>3, <3>1 DEF ListTtlAfter, Ttls
    <3>3. list' \in [ttl : Ttls, keys : SUBSET Keys]
      BY <2>4, <2>5, <2>6, <3>2 DEF Exec
    <3>4. key' \in [Keys -> [ttl : Ttls, payload : BOOLEAN, consumed : BOOLEAN]]
      BY <2>3, <2>5, <2>6 DEF Exec
    <3> QED BY <1>10, <2>2, <3>3, <3>4 DEF Upsert, TypeOK, PcType
  <2>7. CASE UNCHANGED <<key, list>>
    BY <1>10, <2>2, <2>7 DEF Upsert, TypeOK, PcType
  <2> QED BY <1>10, <2>6, <2>7 DEF Upsert
<1>11. CASE Exchange(f)
  <2>1. PcType'
    BY <1>0, <1>11, GotoType DEF Exchange
  <2>2. presents' \in [Flows -> Flows]
    BY <1>11 DEF Exchange, TypeOK
  <2> QED BY <1>11, <2>1, <2>2 DEF Exchange, TypeOK, PcType, redis
<1>12. CASE FindCode(f)
  BY <1>0, <1>12, GotoType, MoveType DEF FindCode
<1>13. CASE FindGrantOfCode(f)
  BY <1>0, <1>13, GotoType, MoveType DEF FindGrantOfCode
<1>14. CASE Consume(f)
  <2>1. PcType'
    BY <1>0, <1>14, GotoType DEF Consume
  <2> DEFINE c == CodeOf(f)
  <2>2. key[c] \in [ttl : Ttls, payload : BOOLEAN, consumed : BOOLEAN]
        /\ accepted \cup {presents[f]} \subseteq Flows
    BY DEF TypeOK, Keys, CodeOf
  <2>3. PICK ttl \in Ttls :
          key' = [key EXCEPT ![c] = [ttl |-> ttl, payload |-> key[c].payload, consumed |-> TRUE]]
    BY <1>14, <2>2 DEF Consume, Ttls, NoExpiry
  <2>4. key' \in [Keys -> [ttl : Ttls, payload : BOOLEAN, consumed : BOOLEAN]]
    BY <2>2, <2>3 DEF TypeOK
  <2> QED BY <1>14, <2>1, <2>2, <2>4 DEF Consume, TypeOK, PcType
<1>15. CASE FindAccount(f)
  BY <1>0, <1>15, GotoType, MoveType DEF FindAccount
<1> QED BY <1>1, <1>2, <1>3, <1>4, <1>5, <1>6, <1>7, <1>8, <1>9, <1>10, <1>11, <1>12, <1>13,
          <1>14, <1>15 DEF FlowStep

\* What deletions, logouts, revocations and faults leave.
LEMMA OtherType ==
  ASSUME TypeOK, NEW p \in Procs,
         \/ p \in Deletions /\ DeleteStep(p)
         \/ p \in Logouts /\ Logout(p)
         \/ RevokeStep(p) \/ Fail(p)
  PROVE  TypeOK'
<1> USE DEF FlowPCs, RevokePCs, DeletePCs, PCs
<1>0. PcType /\ (p \in Deletions \cup Logouts => p \notin Flows)
  BY ProcsAssumption DEF TypeOK, PcType
<1>1. CASE p \in Deletions /\ DeleteStep(p)
  <2>1. PcType'
    BY <1>0, <1>1, GotoType DEF DeleteStep, Delete, GetIndex, FindGrant, DelIndex, DeletePattern,
      RetryDelete
  <2>2. /\ index' \in BOOLEAN /\ revoked' \in BOOLEAN
        /\ UNCHANGED <<seen, listed, presents, accepted, key, list, grant, session>>
    BY <1>1, ModeAssumption DEF DeleteStep, Delete, GetIndex, FindGrant, DelIndex, DeletePattern,
      RetryDelete, TypeOK, redis
  <2> QED BY <2>1, <2>2 DEF TypeOK, PcType
<1>2. CASE p \in Logouts /\ Logout(p)
  BY <1>0, <1>2, GotoType, MoveType DEF Logout
<1>3. CASE ReadList(p)
  <2>1. PcType'
    BY <1>0, <1>3, GotoType DEF ReadList
  <2>2. list.keys \in SUBSET Keys /\ listed \in [Procs -> SUBSET Keys]
    BY DEF TypeOK
  <2>3. listed' \in [Procs -> SUBSET Keys]
    BY <1>3, <2>2 DEF ReadList
  <2> QED BY <1>3, <2>1, <2>3 DEF ReadList, TypeOK, PcType, redis
<1>4. CASE RevokeByGrantId(p)
  <2>1. PcType'
    BY <1>0, <1>4, GotoType DEF RevokeByGrantId
  <2>2. Missing \in [ttl : Ttls, payload : BOOLEAN, consumed : BOOLEAN]
        /\ EmptyList \in [ttl : Ttls, keys : SUBSET Keys]
    BY DEF Missing, EmptyList, Ttls
  <2>3. key' \in [Keys -> [ttl : Ttls, payload : BOOLEAN, consumed : BOOLEAN]]
    BY <1>4, <2>2 DEF RevokeByGrantId, TypeOK
  <2> QED BY <1>4, <2>1, <2>2, <2>3 DEF RevokeByGrantId, TypeOK, PcType
<1>5. CASE DestroyGrant(p)
  <2>1. PcType'
    BY <1>0, <1>5, GotoType DEF DestroyGrant
  <2>2. Absent \in Ttls
    BY DEF Ttls
  <2> QED BY <1>5, <2>1, <2>2 DEF DestroyGrant, TypeOK, PcType
<1>6. CASE Fail(p)
  <2>1. PcType'
    BY <1>0, <1>6, GotoType DEF Fail
  <2> QED BY <1>6, <2>1 DEF Fail, TypeOK, PcType, redis
<1> QED BY <1>1, <1>2, <1>3, <1>4, <1>5, <1>6 DEF RevokeStep

\* Time.
LEMMA TickType ==
  ASSUME TypeOK, Tick
  PROVE  TypeOK'
<1>1. \A t \in Ttls : Older(t) \in Ttls
  BY DEF Older, Ttls, NoExpiry, Absent
<1>2. Missing \in [ttl : Ttls, payload : BOOLEAN, consumed : BOOLEAN]
      /\ EmptyList \in [ttl : Ttls, keys : SUBSET Keys]
  BY DEF Missing, EmptyList, Ttls
<1>3. \A r \in [ttl : Ttls, payload : BOOLEAN, consumed : BOOLEAN] :
        [r EXCEPT !.ttl = Older(@)] \in [ttl : Ttls, payload : BOOLEAN, consumed : BOOLEAN]
  BY <1>1
<1>4. key' \in [Keys -> [ttl : Ttls, payload : BOOLEAN, consumed : BOOLEAN]]
  BY <1>2, <1>3 DEF Tick, TypeOK
<1>5. list' \in [ttl : Ttls, keys : SUBSET Keys]
  BY <1>1, <1>2 DEF Tick, TypeOK
<1>6. grant' \in Ttls
  BY <1>1 DEF Tick, TypeOK
<1> QED BY <1>4, <1>5, <1>6 DEF Tick, TypeOK, local

\* Every variable keeps its type.
THEOREM TypeCorrect == Spec => []TypeOK
<1>1. Init => TypeOK
  <2> SUFFICES ASSUME Init PROVE TypeOK
    OBVIOUS
  <2>1. Absent \in Ttls /\ "idle" \in FlowPCs
    BY DEF Ttls, FlowPCs
  <2>2. Missing \in [ttl : Ttls, payload : BOOLEAN, consumed : BOOLEAN]
        /\ EmptyList \in [ttl : Ttls, keys : SUBSET Keys]
    BY <2>1 DEF Missing, EmptyList
  <2> QED BY <2>1, <2>2 DEF Init, TypeOK, Procs
<1>2. TypeOK /\ [Next]_vars => TypeOK'
  <2> SUFFICES ASSUME TypeOK, [Next]_vars PROVE TypeOK'
    OBVIOUS
  <2>1. CASE UNCHANGED vars
    BY <2>1 DEF vars, local, redis, TypeOK
  <2> QED BY <2>1, FlowType, OtherType, TickType DEF Next, Procs
<1> QED BY <1>1, <1>2, PTL DEF Spec
---------------------------------------------------------------------------
(* The grant of a guest *)

ConnectingAt(f) == pc[f] \in {"saveGrant", "renewGrant", "index"}

NoPayload == \A k \in Keys : ~key[k].payload

\* The guest has not been let in: no code has been issued, and at most one
\* request is connecting it.
Fresh ==
  /\ session = "connecting"
  /\ \A f \in Flows : pc[f] \in {"idle", "done", "findCode", "saveGrant", "index"}
  /\ NoPayload

\* The grant can never be used again: nobody connects the guest any more, and
\* its Grant is gone or the guest was never let in.
Over == session # "none" /\ ~Connecting /\ (grant = Absent \/ Fresh)

GuestInv ==
  /\ session = "none" => NoPayload /\ \A p \in Procs : pc[p] = "idle"
  /\ \A f \in Flows : pc[f] # "renewGrant"
  /\ \A f, g \in Flows : ConnectingAt(f) /\ ConnectingAt(g) => f = g
  /\ Connecting => Fresh
  /\ \A p \in Deletions \cup Logouts : pc[p] # "idle" => session # "none" /\ ~Connecting
  /\ index \/ session = "none" \/ Connecting \/ Over
  /\ \A d \in Deletions : pc[d] = "delIndex" => grant = Absent
  /\ \A d \in Deletions : pc[d] = "deletePattern" => Over
  /\ revoked => Over

\* A step of a flow.
LEMMA GuestFlow ==
  ASSUME Invite, TypeOK, GuestInv, NEW f \in Flows, FlowStep(f)
  PROVE  GuestInv'
<1>0. pc \in [Procs -> PCs] /\ f \in Procs /\ f \notin Deletions \cup Logouts
  BY ProcsAssumption DEF TypeOK, PCs, Procs
<1>a. CodeOf(f) \in Keys
  BY DEF TypeOK, CodeOf, Keys
<1> USE <1>0 DEF GuestInv, Fresh, Over, Connecting, ConnectingAt, NoPayload, Goto, redis, Procs
<1>1. CASE NewGrant(f)
  BY <1>1 DEF NewGrant
<1>2. CASE SaveGrant(f)
  BY <1>2 DEF SaveGrant
<1>3. CASE ReuseGrant(f)
  BY <1>3 DEF ReuseGrant
<1>4. CASE RenewGrant(f)
  BY <1>4 DEF RenewGrant
<1>5. CASE IndexGrant(f)
  BY <1>5 DEF IndexGrant
<1>6. CASE AuthorizeWithSession(f)
  BY <1>6 DEF AuthorizeWithSession
<1>7. CASE LoadGrant(f)
  BY <1>7 DEF LoadGrant, Stored
<1>8. CASE ReadListTtl(f)
  BY <1>8 DEF ReadListTtl
<1>9. CASE ReadListTtlFails(f)
  BY <1>9 DEF ReadListTtlFails, HandOut, AfterUpsert
<1>10. CASE Upsert(f)
  BY <1>10 DEF Upsert, HandOut, AfterUpsert
<1>11. CASE Exchange(f)
  <2>1. PICK g \in Flows : pc[g] # "idle"
    BY <1>11 DEF Exchange, AuthorizePCs
  <2>2. session # "none"
    BY <2>1 DEF Procs
  <2>3. pc[f] \in {"idle", "issued", "done"} /\ pc' = [pc EXCEPT ![f] = "findCode"]
        /\ UNCHANGED <<listed, key, list, grant, index, session, revoked>>
    BY <1>11 DEF Exchange
  <2> QED BY <2>2, <2>3
<1>12. CASE FindCode(f)
  BY <1>12, <1>a DEF FindCode
<1>13. CASE FindGrantOfCode(f)
  BY <1>13 DEF FindGrantOfCode, Stored
<1>14. CASE Consume(f)
  BY <1>14 DEF Consume
<1>15. CASE FindAccount(f)
  BY <1>15 DEF FindAccount
<1> QED BY <1>1, <1>2, <1>3, <1>4, <1>5, <1>6, <1>7, <1>8, <1>9, <1>10, <1>11, <1>12, <1>13,
          <1>14, <1>15 DEF FlowStep

\* A step of a deletion, a logout, a revocation, or a fault.
LEMMA GuestOther ==
  ASSUME Invite, TypeOK, GuestInv, NEW p \in Procs,
         \/ p \in Deletions /\ DeleteStep(p)
         \/ p \in Logouts /\ Logout(p)
         \/ RevokeStep(p) \/ Fail(p)
  PROVE  GuestInv'
<1>0. /\ pc \in [Procs -> PCs]
      /\ p \in Deletions \cup Logouts => p \notin Flows
      /\ p \in Flows => pc[p] \in FlowPCs \cup RevokePCs
      /\ p \in Flows \/ p \in Deletions \/ p \in Logouts
  BY ProcsAssumption DEF TypeOK, PCs, Procs
<1> USE <1>0 DEF GuestInv, Fresh, Over, Connecting, ConnectingAt, NoPayload, Goto, redis, Procs
<1>1. CASE p \in Deletions /\ Delete(p)
  BY <1>1 DEF Delete
<1>2. CASE p \in Deletions /\ GetIndex(p)
  BY <1>2 DEF GetIndex
<1>3. CASE p \in Deletions /\ FindGrant(p)
  BY <1>3 DEF FindGrant, Stored
<1>4. CASE p \in Deletions /\ DelIndex(p)
  BY <1>4 DEF DelIndex
<1>5. CASE p \in Deletions /\ DeletePattern(p)
  BY <1>5 DEF DeletePattern
<1>6. CASE p \in Deletions /\ RetryDelete(p)
  BY <1>6 DEF RetryDelete
<1>7. CASE p \in Logouts /\ Logout(p)
  BY <1>7 DEF Logout
<1>8. CASE ReadList(p)
  BY <1>8 DEF ReadList
<1>9. CASE RevokeByGrantId(p)
  BY <1>9 DEF RevokeByGrantId, Missing
<1>10. CASE DestroyGrant(p)
  BY <1>10 DEF DestroyGrant
<1>11. CASE Fail(p)
  BY <1>11 DEF Fail
<1> QED BY <1>1, <1>2, <1>3, <1>4, <1>5, <1>6, <1>7, <1>8, <1>9, <1>10, <1>11
     DEF DeleteStep, RevokeStep

\* Time.
LEMMA GuestTick ==
  ASSUME Invite, TypeOK, GuestInv, Tick
  PROVE  GuestInv'
<1>1. \A k \in Keys : ~key[k].payload => ~key'[k].payload
  BY DEF Tick, Missing, TypeOK
<1>2. grant = Absent => grant' = Absent
  BY DEF Tick, Older, Absent
<1>3. UNCHANGED <<local, index, session, revoked>>
  BY DEF Tick
<1> QED BY <1>1, <1>2, <1>3 DEF GuestInv, Fresh, Over, Connecting, ConnectingAt, NoPayload, local

\* A guest's grant keeps its invariant, whatever overlaps, fails or stops.
LEMMA GuestInvariance == ASSUME Invite PROVE Spec => []GuestInv
<1>1. Init => GuestInv
  BY DEF Init, GuestInv, Connecting, ConnectingAt, NoPayload, Missing, Procs
<1>2. TypeOK /\ GuestInv /\ [Next]_vars => GuestInv'
  <2> SUFFICES ASSUME TypeOK, GuestInv, [Next]_vars PROVE GuestInv'
    OBVIOUS
  <2>1. CASE UNCHANGED vars
    BY <2>1 DEF vars, local, redis, GuestInv, Fresh, Over, Connecting, ConnectingAt, NoPayload
  <2> QED BY <2>1, GuestFlow, GuestOther, GuestTick DEF Next, Procs
<1> QED BY <1>1, <1>2, TypeCorrect, PTL DEF Spec

\* A usable refresh token of a guest is always found from its index, also by
\* a deletion that is repeated (revoquerGrantInvite, InviteService.connect).
THEOREM GuestsAreIndexed == Spec => []IndexedWhileUsable
<1>1. CASE Invite
  <2>1. GuestInv => IndexedWhileUsable
    BY DEF GuestInv, IndexedWhileUsable, Usable, Over, Fresh, NoPayload, Stored
  <2> QED BY <1>1, <2>1, GuestInvariance, PTL
<1>2. CASE ~Invite
  <2>1. IndexedWhileUsable
    BY <1>2 DEF IndexedWhileUsable
  <2> QED BY <2>1, PTL
<1> QED BY <1>1, <1>2

---------------------------------------------------------------------------
(* Requests one after the other *)

Active(p) == pc[p] \notin {"idle", "issued", "done"}

\* One request is served at a time; and once the grant of a connected account
\* is revoked no request can save it again.
SerialInv ==
  /\ \A p, q \in Procs : Active(p) /\ Active(q) => p = q
  /\ session = "none" => \A p \in Procs : pc[p] = "idle"
  /\ revoked => /\ grant = Absent /\ session # "none"
                /\ \A f \in Flows : pc[f] \notin {"saveGrant", "renewGrant"}

\* A step of a flow.
LEMMA SerialFlow ==
  ASSUME ~Invite, ~Overlap, TypeOK, SerialInv, NEW f \in Flows, FlowStep(f)
  PROVE  SerialInv'
<1>0. pc \in [Procs -> PCs] /\ f \in Procs
  BY DEF TypeOK, PCs, Procs
<1> USE <1>0 DEF SerialInv, Active, MayStart, Goto, redis, Stored
<1>1. CASE NewGrant(f)
  BY <1>1 DEF NewGrant
<1>2. CASE SaveGrant(f)
  BY <1>2 DEF SaveGrant
<1>3. CASE ReuseGrant(f)
  BY <1>3 DEF ReuseGrant
<1>4. CASE RenewGrant(f)
  BY <1>4 DEF RenewGrant
<1>5. CASE IndexGrant(f)
  <2>1. PICK q \in {"loadGrant", "done"} :
          pc' = [pc EXCEPT ![f] = q] /\ UNCHANGED <<grant, session, revoked>>
    BY <1>5 DEF IndexGrant
  <2> QED BY <1>5, <2>1 DEF IndexGrant
<1>6. CASE AuthorizeWithSession(f)
  BY <1>6 DEF AuthorizeWithSession
<1>7. CASE LoadGrant(f)
  BY <1>7 DEF LoadGrant
<1>8. CASE ReadListTtl(f)
  BY <1>8 DEF ReadListTtl
<1>9. CASE ReadListTtlFails(f)
  BY <1>9 DEF ReadListTtlFails, HandOut, AfterUpsert
<1>10. CASE Upsert(f)
  BY <1>10 DEF Upsert, HandOut, AfterUpsert
<1>11. CASE Exchange(f)
  <2>1. PICK g \in Flows : pc[g] # "idle"
    BY <1>11 DEF Exchange, AuthorizePCs
  <2>2. session # "none"
    BY <2>1 DEF Procs
  <2>3. pc[f] \in {"idle", "issued", "done"} /\ pc' = [pc EXCEPT ![f] = "findCode"]
        /\ UNCHANGED <<listed, key, list, grant, index, session, revoked>>
    BY <1>11 DEF Exchange
  <2> QED BY <1>11, <2>2, <2>3 DEF Exchange
<1>12. CASE FindCode(f)
  BY <1>12 DEF FindCode
<1>13. CASE FindGrantOfCode(f)
  BY <1>13 DEF FindGrantOfCode
<1>14. CASE Consume(f)
  BY <1>14 DEF Consume
<1>15. CASE FindAccount(f)
  BY <1>15 DEF FindAccount
<1> QED BY <1>1, <1>2, <1>3, <1>4, <1>5, <1>6, <1>7, <1>8, <1>9, <1>10, <1>11, <1>12, <1>13,
          <1>14, <1>15 DEF FlowStep

\* A step of a deletion, a logout, a revocation, or a fault.
LEMMA SerialOther ==
  ASSUME ~Invite, ~Overlap, TypeOK, SerialInv, NEW p \in Procs,
         \/ p \in Deletions /\ DeleteStep(p)
         \/ p \in Logouts /\ Logout(p)
         \/ RevokeStep(p) \/ Fail(p)
  PROVE  SerialInv'
<1>0. /\ pc \in [Procs -> PCs]
      /\ Flows \subseteq Procs
  BY DEF TypeOK, PCs, Procs
<1> USE <1>0 DEF SerialInv, Active, MayStart, Goto, redis, Stored
<1>1. CASE p \in Deletions /\ DeleteStep(p)
  <2>1. CASE Delete(p)
    BY <2>1 DEF Delete
  <2>2. CASE GetIndex(p)
    BY <2>2 DEF GetIndex
  <2>3. CASE FindGrant(p)
    BY <2>3 DEF FindGrant
  <2>4. CASE DelIndex(p)
    BY <2>4 DEF DelIndex
  <2>5. CASE DeletePattern(p)
    <3>1. revoked' = revoked
      BY <2>5 DEF DeletePattern, TypeOK
    <3> QED BY <2>5, <3>1 DEF DeletePattern
  <2>6. CASE RetryDelete(p)
    BY <2>6 DEF RetryDelete
  <2> QED BY <1>1, <2>1, <2>2, <2>3, <2>4, <2>5, <2>6 DEF DeleteStep
<1>2. CASE p \in Logouts /\ Logout(p)
  BY <1>2 DEF Logout
<1>3. CASE ReadList(p)
  BY <1>3 DEF ReadList
<1>4. CASE RevokeByGrantId(p)
  BY <1>4 DEF RevokeByGrantId
<1>5. CASE DestroyGrant(p)
  BY <1>5 DEF DestroyGrant
<1>6. CASE Fail(p)
  BY <1>6 DEF Fail
<1> QED BY <1>1, <1>2, <1>3, <1>4, <1>5, <1>6 DEF RevokeStep

\* The requests of a connected account, served one after the other.
LEMMA SerialInvariance == ASSUME ~Invite, ~Overlap PROVE Spec => []SerialInv
<1>1. Init => SerialInv
  BY DEF Init, SerialInv, Active
<1>2. TypeOK /\ SerialInv /\ [Next]_vars => SerialInv'
  <2> SUFFICES ASSUME TypeOK, SerialInv, [Next]_vars PROVE SerialInv'
    OBVIOUS
  <2>1. CASE UNCHANGED vars
    BY <2>1 DEF vars, local, redis, SerialInv, Active
  <2>2. CASE Tick
    BY <2>2 DEF Tick, Older, Absent, local, SerialInv, Active
  <2> QED BY <2>1, <2>2, SerialFlow, SerialOther DEF Next, Procs
<1> QED BY <1>1, <1>2, TypeCorrect, PTL DEF Spec

\* A revocation carried through is final: for a guest whatever overlaps it, for
\* a connected account when its requests come one after the other
\* (revokeByGrantId, revoquerGrantInvite, DeleteAccountUsecase).
THEOREM RevocationsAreFinal ==
  ASSUME Invite \/ ~Overlap
  PROVE  Spec => []RevocationIsFinal
<1>1. CASE Invite
  <2>1. GuestInv => RevocationIsFinal
    BY DEF GuestInv, RevocationIsFinal, Usable, Over, Fresh, NoPayload, Stored
  <2> QED BY <1>1, <2>1, GuestInvariance, PTL
<1>2. CASE ~Invite /\ ~Overlap
  <2>1. SerialInv => RevocationIsFinal
    BY DEF SerialInv, RevocationIsFinal, Usable, Stored
  <2> QED BY <1>2, <2>1, SerialInvariance, PTL
<1> QED BY <1>1, <1>2

---------------------------------------------------------------------------
(* The list of the grant *)

\* The list names every code and token for as long as it lives, never for
\* ever; what a request has read of it is still so.
ListInv ==
  /\ ListOutlivesTokens
  /\ \A k \in Keys : key[k].payload => key[k].ttl \in Nat \ {0}
  /\ list.ttl # NoExpiry
  /\ \A f \in Flows : pc[f] \in {"codeExec", "tokenExec"} => seen[f] = list.ttl
  /\ \A p \in Procs : pc[p] = "exec" => listed[p] = list.keys

\* An upsert: the list lives as long as the code or the token it stores.
LEMMA ListUpsert ==
  ASSUME ~Invite, ~Overlap, TypeOK, SerialInv, ListInv, NEW f \in Flows, Upsert(f)
  PROVE  ListInv'
<1>0. /\ pc \in [Procs -> PCs] /\ f \in Procs /\ Flows \subseteq Procs
      /\ list \in [ttl : Ttls, keys : SUBSET Keys]
      /\ key \in [Keys -> [ttl : Ttls, payload : BOOLEAN, consumed : BOOLEAN]]
      /\ pc[f] \in {"codeExec", "tokenExec"}
  BY DEF TypeOK, PCs, Procs, Upsert
<1>1. \A p \in Procs : p # f => pc[p] \in {"idle", "issued", "done"}
  BY <1>0 DEF SerialInv, Active
<1>2. pc' = [pc EXCEPT ![f] = AfterUpsert(f)] /\ AfterUpsert(f) \in {"issued", "done"}
  BY DEF Upsert, HandOut, Goto, AfterUpsert
<1>3. /\ \A g \in Flows : pc'[g] \notin {"codeExec", "tokenExec"}
      /\ \A p \in Procs : pc'[p] # "exec"
  BY <1>0, <1>1, <1>2
<1>4. CASE UNCHANGED <<key, list>>
  BY <1>3, <1>4 DEF ListInv, ListOutlivesTokens
<1>5. CASE Exec(f)
  <2> DEFINE e == ExpiresIn(f)
  <2> DEFINE after == ListTtlAfter(f, IF Stored(list.ttl) THEN list.ttl ELSE NoExpiry)
  <2>1. e \in Nat \ {0} /\ e # NoExpiry
    BY TtlAssumption DEF ExpiresIn, LifeTtl, NoExpiry
  <2>2. seen[f] = list.ttl /\ list.ttl # NoExpiry /\ list.ttl \in Ttls
    BY <1>0 DEF ListInv
  <2>3. after = IF e > list.ttl THEN e ELSE list.ttl
    BY <2>1, <2>2 DEF ListTtlAfter, Stored, Ttls, Absent
  <2> HIDE DEF e, after
  <2>4. after \in Nat \ {0} /\ after >= e /\ after >= list.ttl
    BY <2>1, <2>2, <2>3 DEF Ttls, NoExpiry, Absent
  <2>5. /\ key' = [key EXCEPT ![KeyOf(f)] = [ttl |-> e, payload |-> TRUE, consumed |-> FALSE]]
        /\ list' = [keys |-> list.keys \cup {KeyOf(f)}, ttl |-> after]
    BY <1>5 DEF Exec, e, after
  <2>6. KeyOf(f) \in Keys
    BY DEF KeyOf, Keys
  <2>7. list'.ttl = after /\ list'.keys = list.keys \cup {KeyOf(f)}
    BY <2>5
  <2>8. ASSUME NEW k \in Keys, key'[k].payload
        PROVE  /\ k \in list'.keys /\ AtLeast(list'.ttl, key'[k].ttl)
               /\ key'[k].ttl \in Nat \ {0}
    <3>1. CASE k = KeyOf(f)
      BY <1>0, <2>1, <2>4, <2>5, <2>6, <2>7, <3>1 DEF AtLeast
    <3>2. CASE k # KeyOf(f)
      <4>1. key'[k] = key[k]
        BY <1>0, <2>5, <2>6, <3>2
      <4>2. k \in list.keys /\ AtLeast(list.ttl, key[k].ttl) /\ key[k].ttl \in Nat \ {0}
        BY <2>8, <4>1 DEF ListInv, ListOutlivesTokens
      <4> QED BY <2>2, <2>4, <2>7, <4>1, <4>2 DEF AtLeast, NoExpiry, Ttls, Absent
    <3> QED BY <3>1, <3>2
  <2>9. list'.ttl # NoExpiry
    BY <2>4, <2>7 DEF NoExpiry
  <2> QED BY <1>3, <2>8, <2>9 DEF ListInv, ListOutlivesTokens
<1> QED BY <1>4, <1>5 DEF Upsert

\* Any other step of a flow leaves the list alone, and of the keys it may mark
\* the code.
LEMMA ListFlow ==
  ASSUME ~Invite, ~Overlap, TypeOK, SerialInv, ListInv, NEW f \in Flows, FlowStep(f), ~Upsert(f)
  PROVE  ListInv'
<1>0. /\ pc \in [Procs -> PCs] /\ f \in Procs /\ Flows \subseteq Procs
      /\ seen \in [Flows -> Ttls]
  BY DEF TypeOK, PCs, Procs
<1>1. list' = list /\ listed' = listed
  BY DEF FlowStep, NewGrant, SaveGrant, ReuseGrant, RenewGrant, IndexGrant, AuthorizeWithSession,
    LoadGrant, ReadListTtl, ReadListTtlFails, Exchange, FindCode, FindGrantOfCode, Consume,
    FindAccount, redis
<1>2. \A k \in Keys : key'[k].payload => key[k].payload /\ key'[k].ttl = key[k].ttl
  <2>1. CASE Consume(f)
    <3>1. key[CodeOf(f)].payload => key[CodeOf(f)].ttl \in Nat
      BY DEF ListInv, Keys, CodeOf, TypeOK
    <3> QED BY <2>1, <3>1 DEF Consume, Stored, Absent, TypeOK
  <2>2. CASE UNCHANGED key
    BY <2>2
  <2> QED BY <2>1, <2>2 DEF FlowStep, NewGrant, SaveGrant, ReuseGrant, RenewGrant, IndexGrant,
    AuthorizeWithSession, LoadGrant, ReadListTtl, ReadListTtlFails, Exchange, FindCode,
    FindGrantOfCode, FindAccount, redis
<1>3. \A g \in Flows : pc'[g] \in {"codeExec", "tokenExec"} => seen'[g] = list.ttl
  <2>1. CASE ReadListTtl(f)
    BY <1>0, <2>1 DEF ReadListTtl, Goto, ListInv
  <2>2. CASE ReuseGrant(f)
    BY <1>0, <2>2 DEF ReuseGrant, Goto, ListInv
  <2>3. CASE FindAccount(f)
    BY <1>0, <2>3 DEF FindAccount, Goto, ListInv
  <2>4. CASE ~ReadListTtl(f) /\ ~ReuseGrant(f) /\ ~FindAccount(f)
    <3>1. PICK q \in PCs \ {"codeExec", "tokenExec"} : Goto(f, q)
      BY <2>4 DEF FlowStep, NewGrant, SaveGrant, RenewGrant, IndexGrant, AuthorizeWithSession,
        LoadGrant, ReadListTtlFails, HandOut, AfterUpsert, Exchange, FindCode, FindGrantOfCode,
        Consume, PCs, FlowPCs, RevokePCs
    <3>2. seen' = seen
      BY <2>4 DEF FlowStep, NewGrant, SaveGrant, RenewGrant, IndexGrant, AuthorizeWithSession,
        LoadGrant, ReadListTtlFails, Exchange, FindCode, FindGrantOfCode, Consume
    <3> QED BY <1>0, <3>1, <3>2 DEF Goto, ListInv
  <2> QED BY <2>1, <2>2, <2>3, <2>4
<1>4. \A p \in Procs : pc'[p] = "exec" => pc[p] = "exec"
  BY <1>0 DEF FlowStep, NewGrant, SaveGrant, ReuseGrant, RenewGrant, IndexGrant,
    AuthorizeWithSession, LoadGrant, ReadListTtl, ReadListTtlFails, HandOut, AfterUpsert,
    Exchange, FindCode, FindGrantOfCode, Consume, FindAccount, Goto
<1> QED BY <1>1, <1>2, <1>3, <1>4 DEF ListInv, ListOutlivesTokens

\* A deletion of the list deletes what it names, which is everything.
LEMMA ListOther ==
  ASSUME ~Invite, ~Overlap, TypeOK, SerialInv, ListInv, NEW p \in Procs,
         \/ p \in Deletions /\ DeleteStep(p)
         \/ p \in Logouts /\ Logout(p)
         \/ RevokeStep(p) \/ Fail(p)
  PROVE  ListInv'
<1>0. /\ pc \in [Procs -> PCs] /\ Flows \subseteq Procs
      /\ listed \in [Procs -> SUBSET Keys]
  BY DEF TypeOK, PCs, Procs
<1>1. CASE RevokeByGrantId(p)
  <2>1. listed[p] = list.keys /\ pc[p] = "exec"
    BY <1>1 DEF RevokeByGrantId, ListInv
  <2>2. \A k \in Keys : ~key'[k].payload
    BY <1>1, <2>1 DEF RevokeByGrantId, ListInv, ListOutlivesTokens, Missing
  <2>3. \A q \in Procs : q # p => pc[q] \in {"idle", "issued", "done"}
    BY <2>1 DEF SerialInv, Active
  <2>4. \A q \in Procs : pc'[q] \notin {"codeExec", "tokenExec", "exec"}
    BY <1>0, <1>1, <2>3 DEF RevokeByGrantId, Goto
  <2>5. list'.ttl # NoExpiry
    BY <1>1 DEF RevokeByGrantId, EmptyList, Absent, NoExpiry
  <2> QED BY <1>0, <2>2, <2>4, <2>5 DEF ListInv, ListOutlivesTokens
<1>2. CASE ReadList(p)
  BY <1>0, <1>2 DEF ReadList, Goto, redis, ListInv, ListOutlivesTokens
<1>3. CASE \/ p \in Deletions /\ DeleteStep(p)
           \/ p \in Logouts /\ Logout(p)
           \/ DestroyGrant(p) \/ Fail(p)
  <2>1. UNCHANGED <<key, list, seen>>
    BY <1>3 DEF DeleteStep, Delete, GetIndex, FindGrant, DelIndex, DeletePattern, RetryDelete,
      Logout, DestroyGrant, Fail, redis
  <2>2. PICK q \in PCs \ {"codeExec", "tokenExec", "exec"} : Goto(p, q)
    BY <1>3 DEF DeleteStep, Delete, GetIndex, FindGrant, DelIndex, DeletePattern, RetryDelete,
      Logout, DestroyGrant, Fail, PCs, FlowPCs, RevokePCs, DeletePCs
  <2>3. \A r \in Procs : r # p => listed'[r] = listed[r]
    BY <1>0, <1>3 DEF DeleteStep, Delete, GetIndex, FindGrant, DelIndex, DeletePattern,
      RetryDelete, Logout, DestroyGrant, Fail
  <2> QED BY <1>0, <2>1, <2>2, <2>3 DEF Goto, ListInv, ListOutlivesTokens
<1> QED BY <1>1, <1>2, <1>3 DEF RevokeStep

\* The list ages with the keys it names.
LEMMA ListTick ==
  ASSUME ~Invite, ~Overlap, TypeOK, SerialInv, ListInv, Tick
  PROVE  ListInv'
<1>1. \A p \in Procs : pc[p] \in {"idle", "issued", "done"}
  BY DEF Tick, MayStart
<1>2. pc' = pc
  BY DEF Tick, local
<1>3. list.ttl \in Ttls /\ list.ttl # NoExpiry
  BY DEF TypeOK, ListInv
<1>4. ASSUME NEW k \in Keys, key'[k].payload
      PROVE  k \in list'.keys /\ AtLeast(list'.ttl, key'[k].ttl) /\ key'[k].ttl \in Nat \ {0}
  <2>1. key[k].ttl # 1 /\ key'[k] = [key[k] EXCEPT !.ttl = Older(@)]
    BY <1>4 DEF Tick, Missing
  <2>2. key[k] \in [ttl : Ttls, payload : BOOLEAN, consumed : BOOLEAN]
    BY DEF TypeOK
  <2>3. key[k].payload /\ key'[k].ttl = Older(key[k].ttl)
    BY <1>4, <2>1, <2>2
  <2>4. key[k].ttl \in Nat \ {0} /\ k \in list.keys /\ AtLeast(list.ttl, key[k].ttl)
    BY <2>3 DEF ListInv, ListOutlivesTokens
  <2>5. list.ttl >= key[k].ttl
    BY <1>3, <2>4 DEF AtLeast, NoExpiry
  <2>6. key[k].ttl > 1 /\ list.ttl > 1
    BY <1>3, <2>1, <2>4, <2>5 DEF Ttls, NoExpiry, Absent
  <2>7. list' = [list EXCEPT !.ttl = Older(@)]
    BY <2>6 DEF Tick
  <2>8. list'.ttl = list.ttl - 1 /\ list'.keys = list.keys
    BY <2>6, <2>7 DEF Older, TypeOK
  <2>9. key'[k].ttl = key[k].ttl - 1
    BY <2>3, <2>6 DEF Older
  <2> QED BY <1>3, <2>4, <2>5, <2>6, <2>8, <2>9 DEF AtLeast, Ttls, NoExpiry, Absent
<1>5. list'.ttl # NoExpiry
  <2>1. CASE list.ttl = 1
    BY <2>1 DEF Tick, EmptyList, Absent, NoExpiry
  <2>2. CASE list.ttl # 1
    <3>1. list'.ttl = Older(list.ttl)
      BY <2>2 DEF Tick, TypeOK
    <3> QED BY <1>3, <2>2, <3>1 DEF Older, Ttls, Absent, NoExpiry
  <2> QED BY <2>1, <2>2
<1> QED BY <1>1, <1>2, <1>4, <1>5 DEF ListInv, ListOutlivesTokens, Procs

\* As long as the requests of a connected account come one after the other, its
\* list leads to every stored token to the end of its life (RedisAdapter.upsert
\* and revokeByGrantId).
THEOREM ListsOutliveTokens ==
  ASSUME ~Invite, ~Overlap
  PROVE  Spec => []ListOutlivesTokens
<1>1. Init => ListInv
  BY DEF Init, ListInv, ListOutlivesTokens, Missing, EmptyList, Absent, NoExpiry, Procs
<1>2. TypeOK /\ SerialInv /\ ListInv /\ [Next]_vars => ListInv'
  <2> SUFFICES ASSUME TypeOK, SerialInv, ListInv, [Next]_vars PROVE ListInv'
    OBVIOUS
  <2>1. CASE UNCHANGED vars
    BY <2>1 DEF vars, local, redis, ListInv, ListOutlivesTokens
  <2> QED BY <2>1, ListUpsert, ListFlow, ListOther, ListTick DEF Next, Procs
<1>3. ListInv => ListOutlivesTokens
  BY DEF ListInv
<1> QED BY <1>1, <1>2, <1>3, TypeCorrect, SerialInvariance, PTL DEF Spec
---------------------------------------------------------------------------
(* The codes *)

\* A code is presented once it is issued, and is not written again; a code that
\* was accepted is spent.
CodeInv ==
  /\ \A f \in Flows : pc[f] \in AuthorizePCs => presents[f] = f
  /\ \A f \in Flows : pc[f] \notin AuthorizePCs => pc[presents[f]] \notin AuthorizePCs
  /\ \A f \in accepted : pc[f] \notin AuthorizePCs /\ ~Exchangeable(f)

LEMMA CodeTypes ==
  ASSUME TypeOK
  PROVE  /\ pc \in [Procs -> PCs] /\ Flows \subseteq Procs
         /\ presents \in [Flows -> Flows] /\ accepted \subseteq Flows
         /\ key \in [Keys -> [ttl : Ttls, payload : BOOLEAN, consumed : BOOLEAN]]
         /\ \A f \in Flows : <<"code", f>> \in Keys /\ <<"token", f>> \in Keys
BY DEF TypeOK, PCs, Procs, Keys

\* A step that moves one request, never back to its authorization, writes no
\* code to exchange and accepts none.
LEMMA CodeMoves ==
  ASSUME TypeOK, CodeInv, NEW p \in Procs, NEW q, pc' = [pc EXCEPT ![p] = q],
         p \in Flows /\ q \in AuthorizePCs => pc[p] \in AuthorizePCs,
         \A f \in Flows : key'[<<"code", f>>].payload => key'[<<"code", f>>] = key[<<"code", f>>],
         UNCHANGED <<presents, accepted>>
  PROVE  CodeInv'
<1> USE CodeTypes
<1>1. \A f \in Flows : Exchangeable(f)' => Exchangeable(f)
  BY DEF Exchangeable
<1>2. \A f \in Flows : pc[f] \notin AuthorizePCs => pc'[f] \notin AuthorizePCs
  OBVIOUS
<1>3. \A f \in Flows : pc'[f] \in AuthorizePCs => presents'[f] = f
  BY <1>2 DEF CodeInv
<1>4. ASSUME NEW f \in Flows, pc'[f] \notin AuthorizePCs PROVE pc'[presents[f]] \notin AuthorizePCs
  <2>1. CASE pc[f] \notin AuthorizePCs
    BY <1>2, <2>1 DEF CodeInv
  <2>2. CASE pc[f] \in AuthorizePCs
    BY <1>4, <2>2 DEF CodeInv
  <2> QED BY <2>1, <2>2
<1> QED BY <1>1, <1>2, <1>3, <1>4 DEF CodeInv

\* A step of a flow.
LEMMA CodeFlow ==
  ASSUME TypeOK, CodeInv, NEW f \in Flows, FlowStep(f)
  PROVE  CodeInv'
<1> USE CodeTypes
<1>1. CASE \/ NewGrant(f) \/ SaveGrant(f) \/ ReuseGrant(f) \/ RenewGrant(f)
           \/ AuthorizeWithSession(f) \/ ReadListTtl(f) \/ ReadListTtlFails(f)
  BY <1>1, CodeMoves
     DEF NewGrant, SaveGrant, ReuseGrant, RenewGrant, AuthorizeWithSession, ReadListTtl,
         ReadListTtlFails, HandOut, AfterUpsert, Goto, redis, AuthorizePCs
<1>2. CASE IndexGrant(f)
  BY <1>2, CodeMoves DEF IndexGrant, Goto, AuthorizePCs
<1>3. CASE LoadGrant(f)
  BY <1>3, CodeMoves DEF LoadGrant, Goto, redis, AuthorizePCs
<1>4. CASE Upsert(f)
  <2>1. /\ pc[f] \in {"codeExec", "tokenExec"} /\ pc' = [pc EXCEPT ![f] = AfterUpsert(f)]
        /\ AfterUpsert(f) \notin AuthorizePCs /\ UNCHANGED <<presents, accepted>>
    BY <1>4 DEF Upsert, HandOut, Goto, AfterUpsert, AuthorizePCs
  <2>2. CASE UNCHANGED key
    BY <2>1, <2>2, CodeMoves
  <2>3. CASE pc[f] = "tokenExec" /\ Exec(f)
    <3>1. \A k \in Keys \ {<<"token", f>>} : key'[k] = key[k]
      BY <2>3 DEF Exec, KeyOf
    <3> QED BY <2>1, <3>1, CodeMoves
  <2>4. CASE pc[f] = "codeExec" /\ Exec(f)
    <3>1. \A k \in Keys \ {<<"code", f>>} : key'[k] = key[k]
      BY <2>4 DEF Exec, KeyOf
    <3>2. f \notin accepted /\ presents[f] = f
      BY <2>4 DEF CodeInv, AuthorizePCs
    <3>3. \A g \in accepted : Exchangeable(g)' => Exchangeable(g)
      BY <3>1, <3>2 DEF Exchangeable
    <3>4. \A g \in Flows : pc[g] \notin AuthorizePCs => pc'[g] \notin AuthorizePCs
      BY <2>1
    <3> QED BY <2>1, <3>2, <3>3, <3>4 DEF CodeInv
  <2> QED BY <1>4, <2>1, <2>2, <2>3, <2>4 DEF Upsert
<1>5. CASE Exchange(f)
  <2>1. PICK g \in Flows : pc[g] \notin AuthorizePCs /\ presents' = [presents EXCEPT ![f] = g]
    BY <1>5 DEF Exchange
  <2>2. pc' = [pc EXCEPT ![f] = "findCode"] /\ UNCHANGED <<key, accepted>>
    BY <1>5 DEF Exchange, Goto, redis
  <2>3. \A h \in Flows : pc[h] \notin AuthorizePCs => pc'[h] \notin AuthorizePCs
    BY <2>2 DEF AuthorizePCs
  <2>4. pc'[f] \notin AuthorizePCs /\ presents'[f] = g
    BY <2>1, <2>2 DEF AuthorizePCs
  <2>5. \A h \in Flows \ {f} : pc'[h] = pc[h] /\ presents'[h] = presents[h]
    BY <2>1, <2>2
  <2>6. ASSUME NEW h \in Flows
        PROVE  /\ pc'[h] \in AuthorizePCs => presents'[h] = h
               /\ pc'[h] \notin AuthorizePCs => pc'[presents'[h]] \notin AuthorizePCs
    <3>1. CASE h = f
      BY <2>1, <2>3, <2>4, <3>1
    <3>2. CASE h # f
      BY <2>3, <2>5, <3>2 DEF CodeInv
    <3> QED BY <3>1, <3>2
  <2>7. \A h \in accepted : pc'[h] \notin AuthorizePCs /\ ~Exchangeable(h)'
    BY <2>2, <2>3 DEF CodeInv, Exchangeable
  <2> QED BY <2>2, <2>6, <2>7 DEF CodeInv
<1>6. CASE FindCode(f) \/ FindGrantOfCode(f) \/ FindAccount(f)
  <2>1. pc[f] \in {"findCode", "grantOfCode", "grantOfUsed", "account"} /\ UNCHANGED <<key, presents, accepted>>
    BY <1>6 DEF FindCode, FindGrantOfCode, FindAccount, redis
  <2>2. \E q : pc' = [pc EXCEPT ![f] = q]
    BY <1>6 DEF FindCode, FindGrantOfCode, FindAccount, Goto
  <2> QED BY <1>6, <2>1, <2>2, CodeMoves
          DEF FindCode, FindGrantOfCode, FindAccount, Goto, AuthorizePCs
<1>7. CASE Consume(f)
  <2> DEFINE g == presents[f]
  <2>1. /\ pc[f] = "consume" /\ pc' = [pc EXCEPT ![f] = "account"]
        /\ accepted' = accepted \cup {g} /\ UNCHANGED presents
        /\ \A k \in Keys \ {<<"code", g>>} : key'[k] = key[k]
        /\ key'[<<"code", g>>].consumed
    BY <1>7 DEF Consume, CodeOf, Goto
  <2>2. \A h \in Flows : pc[h] \notin AuthorizePCs => pc'[h] \notin AuthorizePCs
    BY <2>1 DEF AuthorizePCs
  <2>3. pc[f] \notin AuthorizePCs /\ pc[g] \notin AuthorizePCs
    BY <2>1 DEF CodeInv, AuthorizePCs
  <2>4. \A h \in Flows : Exchangeable(h)' => h # g /\ Exchangeable(h)
    BY <2>1 DEF Exchangeable
  <2>5. \A h \in Flows : pc'[h] \in AuthorizePCs <=> pc[h] \in AuthorizePCs
    BY <2>1, <2>3 DEF AuthorizePCs
  <2> HIDE DEF g
  <2>6. \A h \in accepted' : pc'[h] \notin AuthorizePCs /\ ~Exchangeable(h)'
    BY <2>1, <2>2, <2>3, <2>4 DEF CodeInv, g
  <2> QED BY <2>1, <2>5, <2>6 DEF CodeInv
<1> QED BY <1>1, <1>2, <1>3, <1>4, <1>5, <1>6, <1>7 DEF FlowStep

\* A step of a deletion, a logout, a revocation, or a fault: a flow among
\* them is over.
LEMMA CodeOther ==
  ASSUME TypeOK, CodeInv, NEW p \in Procs,
         \/ p \in Deletions /\ DeleteStep(p)
         \/ p \in Logouts /\ Logout(p)
         \/ RevokeStep(p) \/ Fail(p)
  PROVE  CodeInv'
<1>0. /\ UNCHANGED <<presents, accepted>>
      /\ \A k \in Keys : key'[k].payload => key'[k] = key[k]
  BY DEF DeleteStep, Delete, GetIndex, FindGrant, DelIndex, DeletePattern, RetryDelete, Logout,
         RevokeStep, ReadList, RevokeByGrantId, DestroyGrant, Fail, redis, Missing
<1>1. CASE p \in Deletions \cup Logouts
  <2>1. p \notin Flows
    BY <1>1, ProcsAssumption
  <2>2. \E q : pc' = [pc EXCEPT ![p] = q]
    BY DEF DeleteStep, Delete, GetIndex, FindGrant, DelIndex, DeletePattern, RetryDelete, Logout,
           RevokeStep, ReadList, RevokeByGrantId, DestroyGrant, Fail, Goto
  <2> QED BY <1>0, <2>1, <2>2, CodeMoves, CodeTypes
<1>2. CASE p \in Flows
  <2>1. p \notin Deletions \cup Logouts
    BY <1>2, ProcsAssumption
  <2>2. \E q \in {"exec", "findGrant", "destroy", "delIndex", "done"} : pc' = [pc EXCEPT ![p] = q]
    BY <2>1 DEF RevokeStep, ReadList, RevokeByGrantId, DestroyGrant, Fail, Goto
  <2> QED BY <1>0, <2>2, CodeMoves, CodeTypes DEF AuthorizePCs
<1> QED BY <1>1, <1>2 DEF Procs

\* Once a presentation of a code has gone past consume, a presentation that
\* looks the code up later is refused, for guests and for connected accounts,
\* whatever overlaps, fails or is presented again (consume, find and upsert of
\* RedisAdapter).
THEOREM CodesAreSpent == Spec => []CodeIsSpent
<1>1. Init => CodeInv
  BY DEF Init, CodeInv
<1>2. TypeOK /\ CodeInv /\ [Next]_vars => CodeInv'
  <2> SUFFICES ASSUME TypeOK, CodeInv, [Next]_vars PROVE CodeInv'
    OBVIOUS
  <2>1. CASE UNCHANGED vars
    BY <2>1 DEF vars, local, redis, CodeInv, Exchangeable
  <2>2. CASE Tick
    <3>1. \A k \in Keys : /\ key'[k].payload => key[k].payload
                          /\ key'[k].payload => key'[k].consumed = key[k].consumed
      BY <2>2 DEF Tick, Missing, TypeOK
    <3>2. UNCHANGED <<pc, presents, accepted>>
      BY <2>2 DEF Tick, local
    <3> QED BY <3>1, <3>2, CodeTypes DEF CodeInv, Exchangeable
  <2> QED BY <2>1, <2>2, CodeFlow, CodeOther DEF Next, Procs
<1>3. CodeInv => CodeIsSpent
  BY DEF CodeInv, CodeIsSpent
<1> QED BY <1>1, <1>2, <1>3, TypeCorrect, PTL DEF Spec
---------------------------------------------------------------------------
(* Where requests overlap *)

\* A step of a flow: without a Grant, and with a session, none starts a save.
LEMMA GoneFlow ==
  ASSUME TypeOK, Gone, NEW f \in Flows, FlowStep(f)
  PROVE  Gone'
<1>0. pc \in [Procs -> PCs] /\ f \in Procs /\ Flows \subseteq Procs
  BY DEF TypeOK, PCs, Procs
<1>1. ~NewGrant(f) /\ ~SaveGrant(f) /\ ~ReuseGrant(f) /\ ~RenewGrant(f)
  BY DEF Gone, NewGrant, SaveGrant, ReuseGrant, RenewGrant
<1>2. session' # "none" /\ UNCHANGED grant
  BY <1>1 DEF FlowStep, Gone, IndexGrant, AuthorizeWithSession, LoadGrant, ReadListTtl,
       ReadListTtlFails, Upsert, HandOut, Exchange, FindCode, FindGrantOfCode, Consume,
       FindAccount, redis
<1>3. \E q : q \notin {"saveGrant", "renewGrant"} /\ pc' = [pc EXCEPT ![f] = q]
  BY <1>1 DEF FlowStep, IndexGrant, AuthorizeWithSession, LoadGrant, ReadListTtl,
       ReadListTtlFails, Upsert, HandOut, AfterUpsert, Exchange, FindCode, FindGrantOfCode,
       Consume, FindAccount, Goto
<1> QED BY <1>0, <1>2, <1>3 DEF Gone, Stored

\* A step of a deletion, a logout, a revocation, or a fault.
LEMMA GoneOther ==
  ASSUME TypeOK, Gone, NEW p \in Procs,
         \/ p \in Deletions /\ DeleteStep(p)
         \/ p \in Logouts /\ Logout(p)
         \/ RevokeStep(p) \/ Fail(p)
  PROVE  Gone'
<1>0. pc \in [Procs -> PCs] /\ Flows \subseteq Procs
  BY DEF TypeOK, PCs, Procs
<1>1. UNCHANGED session /\ (grant' = grant \/ grant' = Absent)
  BY DEF DeleteStep, Delete, GetIndex, FindGrant, DelIndex, DeletePattern, RetryDelete, Logout,
         RevokeStep, ReadList, RevokeByGrantId, DestroyGrant, Fail, redis
<1>2. \E q : q \notin {"saveGrant", "renewGrant"} /\ pc' = [pc EXCEPT ![p] = q]
  BY DEF DeleteStep, Delete, GetIndex, FindGrant, DelIndex, DeletePattern, RetryDelete, Logout,
         RevokeStep, ReadList, RevokeByGrantId, DestroyGrant, Fail, Goto
<1> QED BY <1>0, <1>1, <1>2 DEF Gone, Stored

\* In every mode, a Grant that is gone and that no login is about to save
\* stays so: none of its refresh tokens is accepted again (generateNewGrantId,
\* DeleteAccountUsecase, the revocation of oidc-provider).
THEOREM GoneGrantsStayGone == Spec => GoneForGood
<1>1. TypeOK /\ [Next]_vars => [Gone => Gone']_vars
  <2> SUFFICES ASSUME TypeOK, Next, Gone PROVE Gone'
    OBVIOUS
  <2>1. CASE Tick
    BY <2>1 DEF Tick, Gone, Stored, Older, Absent, local
  <2> QED BY <2>1, GoneFlow, GoneOther DEF Next, Procs
<1> QED BY <1>1, TypeCorrect, PTL DEF Spec, GoneForGood
===========================================================================
