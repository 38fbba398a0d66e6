--------------------- MODULE AccessTokenRefreshProofs ---------------------
(***************************************************************************)
(* Proofs about AccessTokenRefresh, for every set of calls, logins and     *)
(* refresh tokens, every duration, every set of faults and deletions of    *)
(* the account's keys at any moment.                                       *)
(***************************************************************************)
EXTENDS AccessTokenRefresh, TLAPS

---------------------------------------------------------------------------
(* What the helpers preserve *)

\* Every await has a duration.
LEMMA AwaitMaxNat == \A q : AwaitMax(q) \in Nat
  BY TimeAssumption DEF AwaitMax

\* Moving to another await than a poll.
LEMMA StepType ==
  ASSUME ProcsType, NEW p \in Procs, NEW q \in PCs, Step(p, q)
  PROVE  /\ pc' \in [Procs -> PCs]
         /\ timer' \in [Procs -> Nat]
         /\ pc' = [pc EXCEPT ![p] = q]
  BY AwaitMaxNat DEF ProcsType, Step

\* Answering a call.
LEMMA AnswerType ==
  ASSUME ProcsType, NEW c \in Calls, NEW r \in Results, Answer(c, r)
  PROVE  result' \in [Calls -> Results]
  BY DEF ProcsType, Answer

\* Forgetting the local variables.
LEMMA ForgetType ==
  ASSUME MemType, NEW p \in Procs, Forget(p)
  PROVE  MemType'
  BY DEF MemType, Forget, NoAccess

\* Ending an execution.
LEMMA FinishType ==
  ASSUME ProcsType, MemType, NEW p \in Procs, NEW r,
         p \in Calls => r \in Results, Finish(p, r)
  PROVE  ProcsType' /\ MemType'
  <1>1. MemType'
    BY ForgetType DEF Finish
  <1>2. "idle" \in PCs
    BY DEF PCs
  <1>3. /\ pc' \in [Procs -> PCs]
        /\ timer' \in [Procs -> Nat]
        /\ pc' = [pc EXCEPT ![p] = "idle"]
    BY <1>2, StepType DEF Finish
  <1>4. CASE p \in Calls
    <2>1. result' \in [Calls -> Results]
      BY <1>4, AnswerType DEF Finish
    <2>2. retries' = [retries EXCEPT ![p] = 0]
      BY <1>4 DEF Finish
    <2> QED
      BY <1>1, <1>3, <1>4, <2>1, <2>2 DEF ProcsType, Procs
  <1>5. CASE p \notin Calls
    <2>1. UNCHANGED <<result, retries>>
      BY <1>5 DEF Finish
    <2> QED
      BY <1>1, <1>3, <1>5, <2>1 DEF ProcsType, Procs
  <1> QED
    BY <1>4, <1>5

\* A call moving on to an await that is not a poll, its answer perhaps set.
LEMMA MoveType ==
  ASSUME ProcsType, NEW p \in Procs, NEW q \in PCs \ {"poll"}, Step(p, q),
         UNCHANGED retries, result' \in [Calls -> Results]
  PROVE  ProcsType'
  <1>1. /\ pc' \in [Procs -> PCs]
        /\ timer' \in [Procs -> Nat]
        /\ pc' = [pc EXCEPT ![p] = q]
    BY StepType
  <1> QED
    BY <1>1 DEF ProcsType, Procs

\* The awaits that are not special, and where the answers and the calls lie.
LEMMA PcValues ==
  /\ {"getAccess", "lock", "getRefresh", "answer", "setAccess", "setRefresh",
      "relGet", "relDel", "work"} \subseteq PCs \ {"poll", "idp"}
  /\ {"poll", "idp", "idle", "sleep"} \subseteq PCs
  /\ Results = {"none", "success", "NonTrouve", "AuthError", "ErreurReseauIDP",
                "getTokenRejected", "rejected", "crashed"}
  /\ Calls \subseteq Procs /\ Logins \subseteq Procs
  BY DEF PCs, Holding, Results, Procs

\* Every action but GetRefresh leaves the tokens presented alone.
LEMMA PresentsKept ==
  ASSUME ProcsType, MemType, PresentsType, NEW p \in Procs, NEW q \in PCs \ {"idp"},
         pc' = [pc EXCEPT ![p] = q],
         rt' = [rt EXCEPT ![p] = None] \/ UNCHANGED rt
  PROVE  PresentsType'
  BY DEF ProcsType, MemType, PresentsType, Procs

\* An action that ends an execution.
LEMMA FinishTypeOK ==
  ASSUME TypeOK, NEW p \in Procs, NEW r, p \in Calls => r \in Results, Finish(p, r),
         RedisType', IdpType'
  PROVE  TypeOK'
  <1>1. ProcsType' /\ MemType'
    BY FinishType DEF TypeOK
  <1>2. pc' = [pc EXCEPT ![p] = "idle"] /\ rt' = [rt EXCEPT ![p] = None]
    BY DEF Finish, Step, Forget
  <1>3. PresentsType'
    BY <1>2, PresentsKept, PcValues DEF TypeOK
  <1> QED
    BY <1>1, <1>3 DEF TypeOK

\* An action that moves an execution to its next await.
LEMMA MoveTypeOK ==
  ASSUME TypeOK, NEW p \in Procs, NEW q \in PCs \ {"poll", "idp"}, Step(p, q),
         UNCHANGED retries, result' \in [Calls -> Results], UNCHANGED mem \/ Forget(p),
         RedisType', IdpType'
  PROVE  TypeOK'
  <1>1. ProcsType'
    BY MoveType DEF TypeOK
  <1>2. MemType'
    BY ForgetType DEF TypeOK, MemType, mem
  <1>3. PresentsType'
    BY PresentsKept DEF TypeOK, Step, Forget, mem
  <1> QED
    BY <1>1, <1>2, <1>3 DEF TypeOK

\* An action that polls again, or for the first time.
LEMMA PollTypeOK ==
  ASSUME TypeOK, NEW c \in Calls, Step(c, "poll"), UNCHANGED <<result, mem>>,
         retries' \in [Calls -> 0..3], retries'[c] > 0,
         \A d \in Calls \ {c} : retries'[d] = retries[d],
         RedisType', IdpType'
  PROVE  TypeOK'
  <1>1. /\ pc' \in [Procs -> PCs]
        /\ timer' \in [Procs -> Nat]
        /\ pc' = [pc EXCEPT ![c] = "poll"]
    BY PcValues, StepType DEF TypeOK
  <1>2. ProcsType'
    BY <1>1 DEF TypeOK, ProcsType, Procs
  <1>3. PresentsType'
    BY <1>1, PcValues, PresentsKept DEF TypeOK, mem
  <1> QED
    BY <1>2, <1>3 DEF TypeOK, MemType, mem

\* The end of the two SETs of a token set.
LEMMA StoreDoneTypeOK ==
  ASSUME TypeOK, NEW p \in Procs, StoreDone(p), RedisType', IdpType'
  PROVE  TypeOK'
  <1>1. CASE p \in Calls
    <2>1. Step(p, "relGet") /\ Answer(p, "success") /\ Forget(p) /\ UNCHANGED retries
      BY <1>1 DEF StoreDone
    <2>2. result' \in [Calls -> Results]
      BY <1>1, <2>1, PcValues, AnswerType DEF TypeOK
    <2> QED
      BY <2>1, <2>2, PcValues, MoveTypeOK
  <1>2. CASE p \notin Calls
    BY <1>2, FinishTypeOK DEF StoreDone
  <1> QED
    BY <1>1, <1>2

---------------------------------------------------------------------------
(* Type correctness *)

\* The initial state is typed.
LEMMA InitType == Init => TypeOK
  BY NoneAssumption, TimeAssumption
     DEF Init, TypeOK, ProcsType, MemType, RedisType, IdpType,
         PresentsType, Procs, PCs, Results, Holding, NoLock, NoAccess

\* Every action preserves the types.
LEMMA NextType == TypeOK /\ [Next]_vars => TypeOK'
  <1> SUFFICES ASSUME TypeOK, [Next]_vars PROVE TypeOK'
    OBVIOUS
  <1> USE PcValues
  <1>0. result \in [Calls -> Results]
    BY DEF TypeOK, ProcsType
  <1>1. ASSUME NEW c \in Calls, Request(c) PROVE TypeOK'
    <2>1. RedisType' /\ IdpType'
      BY <1>1 DEF Request, TypeOK, RedisType, IdpType, redis, idp
    <2>2. Step(c, "getAccess") /\ Answer(c, "none") /\ UNCHANGED <<retries, mem>>
      BY <1>1 DEF Request
    <2>3. result' \in [Calls -> Results]
      BY <2>2, AnswerType DEF TypeOK
    <2> QED
      BY <2>1, <2>2, <2>3, MoveTypeOK
  <1>2. ASSUME NEW c \in Calls, GetAccess(c) PROVE TypeOK'
    <2>1. RedisType' /\ IdpType'
      BY <1>2 DEF GetAccess, TypeOK, RedisType, IdpType, redis, idp
    <2>2. CASE Stored(access)
      BY <1>2, <2>1, <2>2, FinishTypeOK DEF GetAccess
    <2>3. CASE ~Stored(access)
      <3>1. Step(c, "lock") /\ UNCHANGED <<retries, result, mem>>
        BY <1>2, <2>3 DEF GetAccess
      <3> QED
        BY <1>0, <2>1, <3>1, MoveTypeOK
    <2> QED
      BY <2>2, <2>3
  <1>3. ASSUME NEW c \in Calls, AcquireLock(c) PROVE TypeOK'
    <2>1. IdpType' /\ UNCHANGED <<result, mem>>
      BY <1>3 DEF AcquireLock, TypeOK, IdpType, idp
    <2>2. CASE Stored(lock)
      <3>1. Step(c, "poll") /\ retries' = [retries EXCEPT ![c] = 3]
        BY <1>3, <2>2 DEF AcquireLock
      <3>2. RedisType'
        BY <1>3, <2>2 DEF AcquireLock, TypeOK, RedisType
      <3>3. /\ retries' \in [Calls -> 0..3] /\ retries'[c] > 0
            /\ \A d \in Calls \ {c} : retries'[d] = retries[d]
        BY <3>1 DEF TypeOK, ProcsType
      <3> QED
        BY <2>1, <3>1, <3>2, <3>3, PollTypeOK
    <2>3. CASE ~Stored(lock)
      <3>1. Step(c, "getRefresh") /\ lock' = [owner |-> c, ttl |-> LockTtl] /\ UNCHANGED retries
        BY <1>3, <2>3 DEF AcquireLock
      <3>2. RedisType'
        BY <1>3, <2>3, <3>1, TimeAssumption
           DEF AcquireLock, Enter, Exposed, TypeOK, RedisType
      <3> QED
        BY <1>0, <2>1, <3>1, <3>2, MoveTypeOK
    <2> QED
      BY <2>2, <2>3
  <1>4. ASSUME NEW c \in Calls, GetRefresh(c) PROVE TypeOK'
    <2>1. RedisType' /\ IdpType'
      BY <1>4 DEF GetRefresh, TypeOK, RedisType, IdpType, redis, idp
    <2>2. CASE refresh = None
      <3>1. Step(c, "relGet") /\ Answer(c, "NonTrouve") /\ UNCHANGED <<retries, mem>>
        BY <1>4, <2>2 DEF GetRefresh, mem
      <3>2. result' \in [Calls -> Results]
        BY <3>1, AnswerType DEF TypeOK
      <3> QED
        BY <2>1, <3>1, <3>2, MoveTypeOK
    <2>3. CASE refresh # None
      <3>1. Step(c, "idp") /\ rt' = [rt EXCEPT ![c] = refresh]
            /\ UNCHANGED <<result, retries, nt, at>>
        BY <1>4, <2>3 DEF GetRefresh
      <3>2. ProcsType'
        BY <1>0, <3>1, MoveType DEF TypeOK
      <3>3. PresentsType'
        BY <2>3, <3>1 DEF TypeOK, PresentsType, Step, ProcsType, MemType
      <3>4. MemType'
        BY <3>1 DEF TypeOK, MemType, RedisType
      <3> QED
        BY <2>1, <3>2, <3>3, <3>4 DEF TypeOK
    <2> QED
      BY <2>2, <2>3
  <1>5. ASSUME NEW c \in Calls, IdpExchange(c) PROVE TypeOK'
    <2>1. ProcsType' /\ RedisType'
      BY <1>5 DEF IdpExchange, TypeOK, ProcsType, RedisType, redis
    <2>2. PresentsType'
      BY <1>5, PresentsKept DEF IdpExchange, TypeOK
    <2>3. at' \in [Procs -> [ttl : Int, left : Int]]
      BY <1>5, TimeAssumption DEF IdpExchange, TypeOK, MemType
    <2>4. CASE UNCHANGED <<nt, idp>>
      BY <1>5, <2>1, <2>2, <2>3, <2>4 DEF IdpExchange, TypeOK, MemType, IdpType, idp
    <2>5. ASSUME NEW f \in RefreshTokens,
                 nt' = [nt EXCEPT ![c] = f],
                 spent' = (spent \ {f}) \cup {rt[c]},
                 lost' = lost \ {f}
          PROVE  MemType' /\ IdpType'
      <3>1. rt[c] \in RefreshTokens
        BY <1>5 DEF IdpExchange, TypeOK, MemType, PresentsType
      <3> QED
        BY <1>5, <2>3, <2>5, <3>1 DEF IdpExchange, TypeOK, MemType, IdpType
    <2> QED
      BY <1>5, <2>1, <2>2, <2>4, <2>5 DEF IdpExchange, TypeOK
  <1>6. ASSUME NEW c \in Calls, IdpRefuse(c) PROVE TypeOK'
    <2>1. RedisType' /\ IdpType'
      BY <1>6 DEF IdpRefuse, TypeOK, RedisType, IdpType, redis, idp
    <2>2. Step(c, "relGet") /\ Answer(c, "AuthError") /\ Forget(c) /\ UNCHANGED retries
      BY <1>6 DEF IdpRefuse
    <2>3. result' \in [Calls -> Results]
      BY <2>2, AnswerType DEF TypeOK
    <2> QED
      BY <2>1, <2>2, <2>3, MoveTypeOK
  <1>7. ASSUME NEW c \in Calls, ReceiveTokenSet(c) PROVE TypeOK'
    <2>1. RedisType' /\ IdpType'
      BY <1>7 DEF ReceiveTokenSet, TypeOK, RedisType, IdpType, redis, idp
    <2> QED
      BY <1>7, <1>0, <2>1, MoveTypeOK DEF ReceiveTokenSet
  <1>8. ASSUME NEW p \in Procs, StoreAccess(p) PROVE TypeOK'
    <2>1. RedisType' /\ IdpType'
      BY <1>8 DEF StoreAccess, TypeOK, RedisType, IdpType, MemType, idp
    <2>2. CASE nt[p] = None
      BY <1>8, <2>1, <2>2, StoreDoneTypeOK DEF StoreAccess
    <2>3. CASE nt[p] # None
      <3>1. Step(p, "setRefresh") /\ UNCHANGED <<retries, result, mem>>
        BY <1>8, <2>3 DEF StoreAccess
      <3> QED
        BY <1>0, <2>1, <3>1, MoveTypeOK
    <2> QED
      BY <2>2, <2>3
  <1>9. ASSUME NEW p \in Procs, StoreRefresh(p) PROVE TypeOK'
    <2>1. RedisType' /\ IdpType'
      BY <1>9 DEF StoreRefresh, TypeOK, RedisType, IdpType, MemType, idp
    <2> QED
      BY <1>9, <2>1, StoreDoneTypeOK DEF StoreRefresh
  <1>10. ASSUME NEW p \in Procs, StoreFails(p) PROVE TypeOK'
    <2>1. RedisType' /\ IdpType'
      BY <1>10 DEF StoreFails, Lose, TypeOK, RedisType, IdpType, MemType, idp
    <2>2. CASE p \in Calls
      <3>1. PICK r \in {"ErreurReseauIDP", "AuthError"} :
              Step(p, "relGet") /\ Answer(p, r) /\ Forget(p) /\ UNCHANGED retries
        BY <1>10, <2>2 DEF StoreFails
      <3>2. result' \in [Calls -> Results]
        BY <2>2, <3>1, AnswerType DEF TypeOK
      <3> QED
        BY <2>1, <3>1, <3>2, MoveTypeOK
    <2>3. CASE p \notin Calls
      BY <1>10, <2>1, <2>3, FinishTypeOK DEF StoreFails
    <2> QED
      BY <2>2, <2>3
  <1>11. ASSUME NEW c \in Calls, ReleaseGet(c) PROVE TypeOK'
    <2>1. RedisType' /\ IdpType'
      BY <1>11 DEF ReleaseGet, TypeOK, RedisType, IdpType, redis, idp
    <2>2. CASE lock.owner = c
      <3>1. Step(c, "relDel") /\ UNCHANGED <<retries, result, mem>>
        BY <1>11, <2>2 DEF ReleaseGet
      <3> QED
        BY <1>0, <2>1, <3>1, MoveTypeOK
    <2>3. CASE lock.owner # c
      BY <1>11, <1>0, <2>1, <2>3, FinishTypeOK DEF ReleaseGet
    <2> QED
      BY <2>2, <2>3
  <1>12. ASSUME NEW c \in Calls, ReleaseDel(c) PROVE TypeOK'
    <2>1. RedisType' /\ IdpType'
      BY <1>12, TimeAssumption DEF ReleaseDel, TypeOK, RedisType, IdpType, NoLock, idp
    <2> QED
      BY <1>12, <1>0, <2>1, FinishTypeOK DEF ReleaseDel
  <1>13. ASSUME NEW c \in Calls, Poll(c) PROVE TypeOK'
    <2>1. RedisType' /\ IdpType'
      BY <1>13 DEF Poll, TypeOK, RedisType, IdpType, redis, idp
    <2>2. CASE Stored(access)
      BY <1>13, <2>1, <2>2, FinishTypeOK DEF Poll
    <2>3. CASE ~Stored(access)
      <3>1. /\ pc[c] = "poll"
            /\ pc' = [pc EXCEPT ![c] = "sleep"]
            /\ timer' = [timer EXCEPT ![c] = WaitInMillis(retries[c])]
            /\ retries' = [retries EXCEPT ![c] = @ - 1]
            /\ UNCHANGED <<result, mem>>
        BY <1>13, <2>3 DEF Poll
      <3>2. WaitInMillis(retries[c]) \in Nat
        BY TimeAssumption DEF WaitInMillis
      <3>3. ProcsType'
        BY <3>1, <3>2 DEF TypeOK, ProcsType
      <3>4. PresentsType'
        BY <3>1, PresentsKept DEF TypeOK, mem
      <3> QED
        BY <2>1, <3>1, <3>3, <3>4 DEF TypeOK, MemType, mem
    <2> QED
      BY <2>2, <2>3
  <1>14. ASSUME NEW c \in Calls, Wake(c) PROVE TypeOK'
    <2>1. RedisType' /\ IdpType'
      BY <1>14 DEF Wake, TypeOK, RedisType, IdpType, redis, idp
    <2>2. CASE retries[c] > 0
      <3>1. Step(c, "poll") /\ UNCHANGED <<retries, result, mem>>
        BY <1>14, <2>2 DEF Wake
      <3> QED
        BY <2>1, <2>2, <3>1, PollTypeOK DEF TypeOK, ProcsType
    <2>3. CASE ~(retries[c] > 0)
      BY <1>14, <2>1, <2>3, FinishTypeOK DEF Wake
    <2> QED
      BY <2>2, <2>3
  <1>15. ASSUME NEW c \in Calls, IdpUnreachable(c) PROVE TypeOK'
    <2>1. RedisType' /\ IdpType'
      BY <1>15 DEF IdpUnreachable, Lose, TypeOK, RedisType, IdpType, redis
    <2>2. PICK r \in {"ErreurReseauIDP", "AuthError"} :
            Step(c, "relGet") /\ Answer(c, r) /\ Forget(c) /\ UNCHANGED retries
      BY <1>15 DEF IdpUnreachable
    <2>3. result' \in [Calls -> Results]
      BY <2>2, AnswerType DEF TypeOK
    <2> QED
      BY <2>1, <2>2, <2>3, MoveTypeOK
  <1>16. ASSUME NEW c \in Calls, ReadFails(c) PROVE TypeOK'
    <2>1. RedisType' /\ IdpType'
      BY <1>16 DEF ReadFails, TypeOK, RedisType, IdpType, redis, idp
    <2> QED
      BY <1>16, <2>1, FinishTypeOK DEF ReadFails
  <1>17. ASSUME NEW c \in Calls, AcquireLockFails(c) PROVE TypeOK'
    <2>1. RedisType' /\ IdpType'
      BY <1>17, TimeAssumption DEF AcquireLockFails, TypeOK, RedisType, IdpType, idp
    <2> QED
      BY <1>17, <2>1, FinishTypeOK DEF AcquireLockFails
  <1>18. ASSUME NEW c \in Calls, ReleaseDelFails(c) PROVE TypeOK'
    <2>1. RedisType' /\ IdpType'
      BY <1>18, TimeAssumption DEF ReleaseDelFails, TypeOK, RedisType, IdpType, NoLock, idp
    <2> QED
      BY <1>18, <2>1, FinishTypeOK DEF ReleaseDelFails
  <1>19. ASSUME NEW l \in Logins, LoginExchange(l) PROVE TypeOK'
    <2>1. RedisType' /\ IdpType'
      BY <1>19 DEF LoginExchange, TypeOK, RedisType, IdpType, redis, idp
    <2>2. Step(l, "work") /\ UNCHANGED <<retries, result, rt>>
      BY <1>19 DEF LoginExchange
    <2>3. ProcsType'
      BY <1>0, <2>2, MoveType DEF TypeOK
    <2>4. PresentsType'
      BY <2>2, PresentsKept DEF TypeOK, Step
    <2>5. MemType'
      <3>1. at' \in [Procs -> [ttl : Int, left : Int]]
        BY <1>19, TimeAssumption DEF LoginExchange, TypeOK, MemType
      <3>2. nt' \in [Procs -> RefreshTokens \cup {None}]
        BY <1>19 DEF LoginExchange, TypeOK, MemType
      <3> QED
        BY <2>2, <3>1, <3>2 DEF TypeOK, MemType
    <2> QED
      BY <2>1, <2>3, <2>4, <2>5 DEF TypeOK
  <1>20. ASSUME NEW l \in Logins, LoginAccepted(l) PROVE TypeOK'
    <2>1. RedisType' /\ IdpType'
      BY <1>20 DEF LoginAccepted, TypeOK, RedisType, IdpType, redis, idp
    <2> QED
      BY <1>20, <1>0, <2>1, MoveTypeOK DEF LoginAccepted
  <1>21. ASSUME NEW l \in Logins, LoginRefused(l) PROVE TypeOK'
    <2>1. RedisType' /\ IdpType'
      BY <1>21 DEF LoginRefused, TypeOK, RedisType, IdpType, redis, idp
    <2>2. l \notin Calls
      BY NoneAssumption
    <2> QED
      BY <1>21, <2>1, <2>2, FinishTypeOK DEF LoginRefused
  <1>22. ASSUME NEW p \in Procs, Crash(p) PROVE TypeOK'
    <2>1. RedisType' /\ IdpType'
      BY <1>22 DEF Crash, Lose, TypeOK, RedisType, IdpType, redis
    <2> QED
      BY <1>22, <2>1, FinishTypeOK DEF Crash
  <1>23. CASE RefreshExpires
    BY <1>23 DEF RefreshExpires, TypeOK, ProcsType, MemType, RedisType, IdpType,
                PresentsType, procs, mem, idp
  <1>24. CASE Tick
    <2>1. ProcsType' /\ IdpType' /\ PresentsType'
      BY <1>24 DEF Tick, TypeOK, ProcsType, IdpType, PresentsType, idp
    <2>2. RedisType'
      BY <1>24, TimeAssumption DEF Tick, TypeOK, RedisType, NoLock, NoAccess
    <2>3. MemType'
      BY <1>24 DEF Tick, TypeOK, MemType
    <2> QED
      BY <2>1, <2>2, <2>3 DEF TypeOK
  <1>26. CASE DeleteLock \/ DeleteAccess
    <2>1. ProcsType' /\ MemType' /\ IdpType' /\ PresentsType'
      BY <1>26 DEF DeleteLock, DeleteAccess, TypeOK, ProcsType, MemType, IdpType,
                  PresentsType, procs, mem, idp
    <2>2. RedisType'
      BY <1>26, TimeAssumption
         DEF DeleteLock, DeleteAccess, Exposed, TypeOK, RedisType, NoLock, NoAccess
    <2> QED
      BY <2>1, <2>2 DEF TypeOK
  <1>25. CASE UNCHANGED vars
    BY <1>25 DEF vars, procs, mem, redis, idp, TypeOK, ProcsType, MemType, RedisType,
                IdpType, PresentsType
  <1> QED
    BY <1>1, <1>2, <1>3, <1>4, <1>5, <1>6, <1>7, <1>8, <1>9, <1>10, <1>11, <1>12, <1>13, <1>14, <1>15, <1>16, <1>17, <1>18, <1>19, <1>20, <1>21, <1>22, <1>23, <1>24, <1>25, <1>26
       DEF Next, CallStep, CallFails, LoginStep

\* Type correctness.
THEOREM TypeCorrect == Spec => []TypeOK
  BY InitType, NextType, PTL DEF Spec

---------------------------------------------------------------------------
(* The lock: each of the two invariants needs the other one *)

LockInv == HolderKeepsLock /\ OneRefresher

\* The time an execution may still spend in the locked section is a number.
LEMMA TimeLeftNat == \A q, t : t \in Nat => TimeLeft(q, t) \in Nat
  BY TimeAssumption DEF TimeLeft

\* A typed lock key is free exactly when no TTL runs on it.
LEMMA LockKey ==
  ASSUME TypeOK
  PROVE  /\ lock \in [owner : Calls \cup {None}, ttl : Nat]
         /\ lock.ttl \in Nat
         /\ lock.owner = None <=> ~Stored(lock)
         /\ ~Stored(lock) => lock = NoLock
  BY NoneAssumption, TimeAssumption DEF TypeOK, RedisType, Stored, NoLock

\* An execution moves on without the lock key being touched.
LEMMA MoveKeepsLock ==
  ASSUME TypeOK, LockInv, NEW p \in Procs, NEW q \in PCs, NEW t,
         pc' = [pc EXCEPT ![p] = q], timer' = [timer EXCEPT ![p] = t],
         UNCHANGED <<lock, exposed>>,
         p \in Calls /\ q \in Holding
           => pc[p] \in Holding /\ TimeLeft(q, t) <= TimeLeft(pc[p], timer[p]) /\ t \in Nat
  PROVE  LockInv'
  <1>1. HolderKeepsLock'
    <2> SUFFICES ASSUME NEW c \in Calls, pc'[c] \in Holding, c \notin exposed
                 PROVE  lock.owner = c /\ lock.ttl > TimeLeft(pc'[c], timer'[c])
      BY DEF HolderKeepsLock, TimeToRelease
    <2>1. c \in Procs /\ timer[c] \in Nat /\ lock.ttl \in Nat
      BY LockKey DEF TypeOK, ProcsType, RedisType, Procs
    <2>2. CASE c = p
      <3>1. pc'[c] = q /\ timer'[c] = t
        BY <2>1, <2>2 DEF TypeOK, ProcsType
      <3>2. lock.owner = c /\ lock.ttl > TimeLeft(pc[c], timer[c])
        BY <2>2, <3>1 DEF LockInv, HolderKeepsLock, TimeToRelease
      <3> QED
        BY <2>1, <2>2, <3>1, <3>2, TimeLeftNat
    <2>3. CASE c # p
      <3>1. pc'[c] = pc[c] /\ timer'[c] = timer[c]
        BY <2>1, <2>3 DEF TypeOK, ProcsType
      <3> QED
        BY <3>1 DEF LockInv, HolderKeepsLock, TimeToRelease
    <2> QED
      BY <2>2, <2>3
  <1>2. OneRefresher'
    <2>1. \A c \in Calls : pc'[c] \in Holding => pc[c] \in Holding
      BY DEF TypeOK, ProcsType, Procs
    <2> QED
      BY <2>1 DEF LockInv, OneRefresher
  <1> QED
    BY <1>1, <1>2 DEF LockInv

\* A call leaves the locked section, or never was in it while the key is
\* free: whatever becomes of the lock key, nobody that depends on it is there.
LEMMA LeaveKeepsLock ==
  ASSUME TypeOK, LockInv, NEW c \in Calls, NEW q \in PCs \ Holding,
         pc' = [pc EXCEPT ![c] = q], UNCHANGED exposed,
         pc[c] \in Holding \/ ~Stored(lock)
  PROVE  LockInv'
  <1>1. \A d \in Calls : pc'[d] \in Holding => d # c /\ pc[d] \in Holding
    BY DEF TypeOK, ProcsType, Procs
  <1>2. OneRefresher'
    BY <1>1 DEF LockInv, OneRefresher
  <1>3. HolderKeepsLock'
    <2> SUFFICES ASSUME NEW d \in Calls, pc'[d] \in Holding, d \notin exposed PROVE FALSE
      BY DEF HolderKeepsLock
    <2>1. pc[c] \notin Holding
      BY <1>1 DEF LockInv, OneRefresher
    <2>2. lock.owner = d /\ lock.ttl > TimeLeft(pc[d], timer[d])
      BY <1>1 DEF LockInv, HolderKeepsLock, TimeToRelease
    <2>3. timer[d] \in Nat /\ lock.ttl \in Nat
      BY LockKey DEF TypeOK, ProcsType, RedisType, Procs
    <2>4. Stored(lock)
      BY <2>2, <2>3, TimeLeftNat DEF Stored
    <2> QED
      BY <2>1, <2>4
  <1> QED
    BY <1>2, <1>3 DEF LockInv

\* While the lock key is free, whoever works has been exposed.
LEMMA FreeLock ==
  ASSUME TypeOK, LockInv, ~Stored(lock)
  PROVE  \A d \in Calls : pc[d] \in Holding => d \in Exposed
  <1> SUFFICES ASSUME NEW d \in Calls, pc[d] \in Holding, d \notin exposed PROVE FALSE
    BY DEF Exposed
  <1>1. lock.owner = d /\ lock.ttl > TimeLeft(pc[d], timer[d])
    BY DEF LockInv, HolderKeepsLock, TimeToRelease
  <1>2. timer[d] \in Nat /\ lock.ttl \in Nat
    BY LockKey DEF TypeOK, ProcsType, RedisType, Procs
  <1> QED
    BY <1>1, <1>2, TimeLeftNat DEF Stored

\* A deletion of the lock leaves nobody who depends on it.
LEMMA DeletedLock ==
  ASSUME TypeOK, LockInv, DeleteLock
  PROVE  /\ UNCHANGED <<pc, timer>> /\ lock' = NoLock
         /\ \A d \in Calls : pc[d] \in Holding => d \in exposed'
  <1>1. UNCHANGED <<pc, timer>> /\ lock' = NoLock
    BY DEF DeleteLock, procs
  <1>2. exposed' = Exposed \cup {c \in Calls : lock.owner = c /\ pc[c] \in Holding}
    BY DEF DeleteLock
  <1>3. \A d \in Calls : pc[d] \in Holding => d \in exposed \/ lock.owner = d
    BY DEF LockInv, HolderKeepsLock
  <1> QED
    BY <1>1, <1>2, <1>3 DEF Exposed

\* Every action preserves the lock of the call that works under it.
LEMMA NextKeepsLock ==
  ASSUME LockTtlSuffices, TypeOK, LockInv, [Next]_vars
  PROVE  LockInv'
  <1> USE PcValues
  <1>1. ASSUME NEW p \in Procs, NEW q \in PCs \ Holding, Step(p, q), UNCHANGED <<lock, exposed>>
        PROVE  LockInv'
    BY <1>1, MoveKeepsLock DEF Step
  <1>2. ASSUME NEW p \in Procs, NEW r, Finish(p, r), UNCHANGED <<lock, exposed>>
        PROVE  LockInv'
    BY <1>1, <1>2 DEF Finish, Holding
  <1>3. ASSUME NEW p \in Procs, NEW q \in PCs, Step(p, q), UNCHANGED <<lock, exposed>>,
               p \in Calls => /\ pc[p] \in Holding
                              /\ TimeLeft(q, AwaitMax(q)) <= TimeLeft(pc[p], timer[p])
        PROVE  LockInv'
    BY <1>3, MoveKeepsLock, AwaitMaxNat DEF Step
  <1>4. \A p \in Procs : timer[p] \in Nat
    BY DEF TypeOK, ProcsType
  <1>5. \A p \in Procs : pc[p] \in Holding \ {"relGet", "relDel"} =>
          /\ TimeLeft("relGet", AwaitMax("relGet")) <= TimeLeft(pc[p], timer[p])
    BY <1>4, TimeAssumption DEF TimeLeft, AwaitMax, Holding
  <1>6. ASSUME NEW p \in Procs, pc[p] \in {"setAccess", "setRefresh"}, StoreDone(p),
               UNCHANGED <<lock, exposed>>
        PROVE  LockInv'
    <2>1. CASE p \in Calls
      BY <1>3, <1>5, <1>6, <2>1 DEF StoreDone, Holding
    <2>2. CASE p \notin Calls
      BY <1>2, <1>6, <2>2 DEF StoreDone
    <2> QED
      BY <2>1, <2>2
  <1>7. ASSUME NEW c \in Calls, Request(c) PROVE LockInv'
    BY <1>7, <1>1 DEF Request, redis, Holding
  <1>8. ASSUME NEW c \in Calls, GetAccess(c) PROVE LockInv'
    <2>1. UNCHANGED <<lock, exposed>>
      BY <1>8 DEF GetAccess, redis
    <2>2. Finish(c, "success") \/ Step(c, "lock")
      BY <1>8 DEF GetAccess
    <2> QED
      BY <1>1, <1>2, <2>1, <2>2 DEF Holding
  <1>9. ASSUME NEW c \in Calls, AcquireLock(c) PROVE LockInv'
    <2>1. CASE Stored(lock)
      <3>1. Step(c, "poll") /\ UNCHANGED <<lock, exposed>>
        BY <1>9, <2>1 DEF AcquireLock
      <3> QED
        BY <1>1, <3>1 DEF Holding
    <2>2. CASE ~Stored(lock)
      <3>1. /\ pc' = [pc EXCEPT ![c] = "getRefresh"]
            /\ timer' = [timer EXCEPT ![c] = AwaitMax("getRefresh")]
            /\ lock' = [owner |-> c, ttl |-> LockTtl]
        BY <1>9, <2>2 DEF AcquireLock, Step
      <3>2. exposed' = Exposed \cup IF Exposed = {} THEN {} ELSE {c}
        BY <1>9, <2>2 DEF AcquireLock, Enter
      <3>3. \A d \in Calls \ {c} : pc'[d] \in Holding => d \in Exposed
        BY <2>2, <3>1, FreeLock DEF TypeOK, ProcsType
      <3>4. LockTtl > TimeLeft(pc'[c], timer'[c])
        BY <3>1, TimeAssumption
           DEF LockTtlSuffices, TimeLeft, AwaitMax, Holding, TypeOK, ProcsType
      <3>5. lock'.owner = c /\ lock'.ttl = LockTtl
        BY <3>1
      <3>6. HolderKeepsLock'
        BY <3>2, <3>3, <3>4, <3>5 DEF HolderKeepsLock, TimeToRelease
      <3>7. OneRefresher'
        BY <3>2, <3>3 DEF OneRefresher
      <3> QED
        BY <3>6, <3>7 DEF LockInv
    <2> QED
      BY <2>1, <2>2
  <1>10. ASSUME NEW c \in Calls, GetRefresh(c) PROVE LockInv'
    <2>1. UNCHANGED <<lock, exposed>> /\ pc[c] = "getRefresh"
      BY <1>10 DEF GetRefresh, redis
    <2>2. CASE Step(c, "relGet")
      BY <1>3, <1>5, <2>1, <2>2 DEF Holding
    <2>3. CASE Step(c, "idp")
      <3>1. TimeLeft("idp", AwaitMax("idp")) <= TimeLeft(pc[c], timer[c])
        BY <1>4, <2>1, TimeAssumption DEF TimeLeft, AwaitMax
      <3> QED
        BY <1>3, <2>1, <2>3, <3>1 DEF Holding
    <2> QED
      BY <1>10, <2>2, <2>3 DEF GetRefresh
  <1>11. ASSUME NEW c \in Calls, IdpExchange(c) PROVE LockInv'
    <2>1. /\ UNCHANGED <<lock, exposed>> /\ pc[c] = "idp" /\ pc' = [pc EXCEPT ![c] = "answer"]
          /\ timer' = [timer EXCEPT ![c] = timer[c]]
      BY <1>11 DEF IdpExchange, redis, TypeOK, ProcsType
    <2>2. TimeLeft("answer", timer[c]) <= TimeLeft(pc[c], timer[c])
      BY <1>4, <2>1, TimeAssumption DEF TimeLeft
    <2> QED
      BY <1>4, <2>1, <2>2, MoveKeepsLock DEF Holding
  <1>12. ASSUME NEW c \in Calls, IdpRefuse(c) PROVE LockInv'
    BY <1>12, <1>3, <1>5 DEF IdpRefuse, redis, Holding
  <1>13. ASSUME NEW c \in Calls, ReceiveTokenSet(c) PROVE LockInv'
    <2>1. UNCHANGED <<lock, exposed>> /\ pc[c] = "answer" /\ Step(c, "setAccess")
      BY <1>13 DEF ReceiveTokenSet, redis
    <2>2. TimeLeft("setAccess", AwaitMax("setAccess")) <= TimeLeft(pc[c], timer[c])
      BY <1>4, <2>1, TimeAssumption DEF TimeLeft, AwaitMax, Holding
    <2> QED
      BY <1>3, <2>1, <2>2 DEF Holding
  <1>14. ASSUME NEW p \in Procs, StoreAccess(p) PROVE LockInv'
    <2>1. UNCHANGED <<lock, exposed>> /\ pc[p] = "setAccess"
      BY <1>14 DEF StoreAccess
    <2>2. CASE StoreDone(p)
      BY <1>6, <2>1, <2>2
    <2>3. CASE Step(p, "setRefresh")
      <3>1. TimeLeft("setRefresh", AwaitMax("setRefresh")) <= TimeLeft(pc[p], timer[p])
        BY <1>4, <2>1, TimeAssumption DEF TimeLeft, AwaitMax, Holding
      <3> QED
        BY <1>3, <2>1, <2>3, <3>1 DEF Holding
    <2> QED
      BY <1>14, <2>2, <2>3 DEF StoreAccess
  <1>15. ASSUME NEW p \in Procs, StoreRefresh(p) PROVE LockInv'
    BY <1>15, <1>6 DEF StoreRefresh
  <1>16. ASSUME NEW p \in Procs, StoreFails(p) PROVE LockInv'
    <2>1. UNCHANGED <<lock, exposed>> /\ pc[p] \in {"setAccess", "setRefresh"}
      BY <1>16 DEF StoreFails
    <2>2. CASE p \in Calls
      BY <1>16, <1>3, <1>5, <2>1, <2>2 DEF StoreFails, Holding
    <2>3. CASE p \notin Calls
      BY <1>16, <1>2, <2>1, <2>3 DEF StoreFails
    <2> QED
      BY <2>2, <2>3
  <1>17. ASSUME NEW c \in Calls, ReleaseGet(c) PROVE LockInv'
    <2>1. UNCHANGED <<lock, exposed>> /\ pc[c] = "relGet"
      BY <1>17 DEF ReleaseGet, redis
    <2>2. CASE Step(c, "relDel")
      <3>1. TimeLeft("relDel", AwaitMax("relDel")) <= TimeLeft(pc[c], timer[c])
        BY <1>4, <2>1, TimeAssumption DEF TimeLeft, AwaitMax, Holding
      <3> QED
        BY <1>3, <2>1, <2>2, <3>1 DEF Holding
    <2>3. CASE Finish(c, result[c])
      BY <1>2, <2>1, <2>3
    <2> QED
      BY <1>17, <2>2, <2>3 DEF ReleaseGet
  <1>18. ASSUME NEW c \in Calls, ReleaseDel(c) PROVE LockInv'
    <2>1. pc[c] \in Holding /\ Finish(c, result[c])
      BY <1>18 DEF ReleaseDel, Holding
    <2> QED
      BY <1>18, <2>1, LeaveKeepsLock DEF ReleaseDel, Finish, Step, Holding
  <1>19. ASSUME NEW c \in Calls, Poll(c) PROVE LockInv'
    <2>1. UNCHANGED <<lock, exposed>>
      BY <1>19 DEF Poll, redis
    <2>2. CASE Finish(c, "success")
      BY <1>2, <2>1, <2>2
    <2>3. CASE /\ pc' = [pc EXCEPT ![c] = "sleep"]
               /\ timer' = [timer EXCEPT ![c] = WaitInMillis(retries[c])]
      BY <2>1, <2>3, MoveKeepsLock DEF Holding
    <2> QED
      BY <1>19, <2>2, <2>3 DEF Poll
  <1>20. ASSUME NEW c \in Calls, Wake(c) PROVE LockInv'
    <2>1. UNCHANGED <<lock, exposed>>
      BY <1>20 DEF Wake, redis
    <2>2. Finish(c, "NonTrouve") \/ Step(c, "poll")
      BY <1>20 DEF Wake
    <2> QED
      BY <1>1, <1>2, <2>1, <2>2 DEF Holding
  <1>21. ASSUME NEW c \in Calls, IdpUnreachable(c) PROVE LockInv'
    BY <1>21, <1>3, <1>5 DEF IdpUnreachable, redis, Holding
  <1>22. ASSUME NEW c \in Calls, ReadFails(c) PROVE LockInv'
    BY <1>22, <1>2 DEF ReadFails, redis
  <1>23. ASSUME NEW c \in Calls, AcquireLockFails(c) PROVE LockInv'
    <2>1. pc' = [pc EXCEPT ![c] = "idle"] /\ UNCHANGED exposed
      BY <1>23 DEF AcquireLockFails, Finish, Step
    <2>2. CASE Stored(lock)
      BY <1>23, <1>2, <2>2 DEF AcquireLockFails
    <2>3. CASE ~Stored(lock)
      BY <2>1, <2>3, LeaveKeepsLock DEF Holding
    <2> QED
      BY <2>2, <2>3
  <1>24. ASSUME NEW c \in Calls, ReleaseDelFails(c) PROVE LockInv'
    <2>1. pc[c] \in Holding /\ Finish(c, "rejected")
      BY <1>24 DEF ReleaseDelFails, Holding
    <2> QED
      BY <1>24, <2>1, LeaveKeepsLock DEF ReleaseDelFails, Finish, Step, Holding
  <1>25. ASSUME NEW l \in Logins, LoginExchange(l) PROVE LockInv'
    BY <1>25, <1>1 DEF LoginExchange, redis, Holding
  <1>26. ASSUME NEW l \in Logins, LoginAccepted(l) PROVE LockInv'
    <2>1. l \notin Calls
      BY NoneAssumption
    <2> QED
      BY <1>26, <1>3, <2>1 DEF LoginAccepted, redis
  <1>27. ASSUME NEW l \in Logins, LoginRefused(l) PROVE LockInv'
    BY <1>27, <1>2 DEF LoginRefused, redis
  <1>28. ASSUME NEW p \in Procs, Crash(p) PROVE LockInv'
    BY <1>28, <1>2 DEF Crash, redis
  <1>29. CASE RefreshExpires
    BY <1>29 DEF RefreshExpires, procs, LockInv, HolderKeepsLock, OneRefresher, TimeToRelease
  <1>30. CASE Tick
    <2>0. OneRefresher'
      BY <1>30 DEF Tick, LockInv, OneRefresher
    <2> SUFFICES ASSUME NEW c \in Calls, pc'[c] \in Holding, c \notin exposed
                 PROVE  lock'.owner = c /\ lock'.ttl > TimeLeft(pc'[c], timer'[c])
      BY <1>30, <2>0 DEF Tick, LockInv, HolderKeepsLock, TimeToRelease
    <2>1. pc[c] \in Holding /\ pc'[c] = pc[c]
      BY <1>30 DEF Tick
    <2>2. lock.owner = c /\ lock.ttl > TimeLeft(pc[c], timer[c]) /\ lock.ttl \in Nat
      BY <2>1, LockKey DEF LockInv, HolderKeepsLock, TimeToRelease
    <2>3. timer[c] > 0 /\ timer'[c] = timer[c] - 1
      BY <1>30, <2>1 DEF Tick, HasDeadline
    <2>4. TimeLeft(pc[c], timer[c]) = TimeLeft(pc[c], timer[c] - 1) + 1
      BY <1>4, TimeAssumption DEF TimeLeft
    <2>5. TimeLeft(pc[c], timer[c] - 1) \in Nat
      BY <1>4, <2>3, TimeLeftNat
    <2>6. lock' = [lock EXCEPT !.ttl = lock.ttl - 1]
      BY <1>30, <2>2, <2>4, <2>5 DEF Tick
    <2>7. lock'.owner = lock.owner /\ lock'.ttl = lock.ttl - 1
      BY <2>6, LockKey
    <2> QED
      BY <2>1, <2>2, <2>3, <2>4, <2>5, <2>7
  <1>31. CASE UNCHANGED vars
    BY <1>31 DEF vars, procs, redis, LockInv, HolderKeepsLock, OneRefresher, TimeToRelease
  <1>32. CASE DeleteLock
    BY <1>32, DeletedLock DEF LockInv, HolderKeepsLock, OneRefresher
  <1>33. CASE DeleteAccess
    BY <1>33 DEF DeleteAccess, procs, LockInv, HolderKeepsLock, OneRefresher, TimeToRelease
  <1> QED
    BY <1>7, <1>8, <1>9, <1>10, <1>11, <1>12, <1>13, <1>14, <1>15, <1>16, <1>17, <1>18, <1>19, <1>20, <1>21, <1>22, <1>23, <1>24, <1>25, <1>26, <1>27, <1>28, <1>29, <1>30, <1>31, <1>32, <1>33
       DEF Next, CallStep, CallFails, LoginStep

\* No call starts under the lock.
LEMMA InitLock == Init => LockInv
  BY DEF Init, LockInv, HolderKeepsLock, OneRefresher, Holding, Procs

\* The two invariants of the lock.
LEMMA LockInvariance == LockTtlSuffices => (Spec => []LockInv)
  <1> SUFFICES ASSUME LockTtlSuffices PROVE Spec => []LockInv
    OBVIOUS
  <1>1. TypeOK /\ LockInv /\ [Next]_vars => LockInv'
    BY NextKeepsLock
  <1> QED
    BY <1>1, InitLock, TypeCorrect, PTL DEF Spec

\* If the TTL of the lock exceeds the longest client.refresh and five Redis
\* commands, the lock outlives every refresh made under it, unless a deletion
\* of the account's keys removes it (acquireLock, releaseLock, deletePattern).
THEOREM LockOutlivesRefresh == LockTtlSuffices => (Spec => []HolderKeepsLock)
  <1>1. LockInv => HolderKeepsLock
    BY DEF LockInv
  <1> QED
    BY <1>1, LockInvariance, PTL

\* Under the same condition at most one call of the account refreshes its
\* tokens at a time, but for the calls that a deletion of the lock has let in
\* beside its holder.
THEOREM MutualExclusion == LockTtlSuffices => (Spec => []OneRefresher)
  <1>1. LockInv => OneRefresher
    BY DEF LockInv
  <1> QED
    BY <1>1, LockInvariance, PTL

---------------------------------------------------------------------------
(* The lock implements the lease *)

Working == {c \in Calls : pc[c] \in Holding /\ c \notin exposed}

\* An execution moves on without entering or leaving the locked section.
LEMMA StutterStep ==
  ASSUME TypeOK, NEW p \in Procs, NEW q \in PCs, pc' = [pc EXCEPT ![p] = q], UNCHANGED <<lock, exposed>>,
         p \in Calls => (q \in Holding <=> pc[p] \in Holding)
  PROVE  UNCHANGED Holder!vars
  <1>1. Working' = Working
    BY DEF Working, TypeOK, ProcsType, Procs
  <1> QED
    BY <1>1 DEF Holder!vars, Working

\* A call leaves the locked section with the lock key in place.
LEMMA AbandonStep ==
  ASSUME TypeOK, LockInv, NEW c \in Calls, pc[c] \in Holding, NEW q \in PCs \ Holding,
         pc' = [pc EXCEPT ![c] = q], UNCHANGED <<lock, exposed>>
  PROVE  Holder!Abandon(c) \/ UNCHANGED Holder!vars
  <1>1. Working' = Working \ {c}
    BY DEF Working, TypeOK, ProcsType, Procs
  <1>2. CASE c \in exposed
    BY <1>1, <1>2 DEF Holder!vars, Working
  <1>3. CASE c \notin exposed
    <2>1. lock.owner = c /\ c \in Working
      BY <1>3 DEF LockInv, HolderKeepsLock, Working
    <2> QED
      BY <1>1, <2>1 DEF Holder!Abandon, Working
  <1> QED
    BY <1>2, <1>3

\* A call leaves the locked section and deletes the key: its own, or, once
\* exposed, that of somebody whom the lock does not protect either.
LEMMA ReleaseStep ==
  ASSUME TypeOK, LockInv, NEW c \in Calls, pc[c] \in Holding, NEW q \in PCs \ Holding,
         pc' = [pc EXCEPT ![c] = q], lock' = NoLock, UNCHANGED exposed
  PROVE  Holder!Release(c) \/ Holder!Lapse \/ UNCHANGED Holder!vars
  <1>1. Working' = Working \ {c}
    BY DEF Working, TypeOK, ProcsType, Procs
  <1>2. lock'.owner = None
    BY DEF NoLock
  <1>3. CASE c \in exposed
    <2>1. Working = {} /\ Working' = {}
      BY <1>1, <1>3 DEF LockInv, OneRefresher, Working
    <2> QED
      BY <1>2, <2>1 DEF Holder!Lapse, Holder!vars, Working
  <1>4. CASE c \notin exposed
    <2>1. lock.owner = c /\ c \in Working
      BY <1>4 DEF LockInv, HolderKeepsLock, Working
    <2> QED
      BY <1>1, <1>2, <2>1 DEF Holder!Release, Working
  <1> QED
    BY <1>3, <1>4

\* Every action is an action of the lease, or leaves it alone.
LEMMA NextIsLease ==
  ASSUME LockTtlSuffices, TypeOK, LockInv, [Next]_vars
  PROVE  [Holder!Next]_(Holder!vars)
  <1> USE PcValues
  <1> DEFINE Goal == [Holder!Next]_(Holder!vars)
  <1> SUFFICES Goal
    OBVIOUS
  <1>1. ASSUME NEW p \in Procs, NEW q \in PCs, Step(p, q), UNCHANGED <<lock, exposed>>,
               p \in Calls => (q \in Holding <=> pc[p] \in Holding)
        PROVE  Goal
    BY <1>1, StutterStep DEF Step
  <1>2. ASSUME NEW p \in Procs, NEW r, Finish(p, r), UNCHANGED <<lock, exposed>>
        PROVE  Goal
    <2>1. pc' = [pc EXCEPT ![p] = "idle"] /\ "idle" \in PCs \ Holding
      BY <1>2 DEF Finish, Step, Holding
    <2>2. CASE p \in Calls /\ pc[p] \in Holding
      BY <1>2, <2>1, <2>2, AbandonStep DEF Holder!Next
    <2>3. CASE ~(p \in Calls /\ pc[p] \in Holding)
      BY <1>2, <2>1, <2>3, StutterStep
    <2> QED
      BY <2>2, <2>3
  <1>3. ASSUME NEW c \in Calls, Request(c) PROVE Goal
    BY <1>3, <1>1 DEF Request, redis, Holding
  <1>4. ASSUME NEW c \in Calls, GetAccess(c) PROVE Goal
    BY <1>4, <1>1, <1>2 DEF GetAccess, redis, Holding
  <1>5. ASSUME NEW c \in Calls, AcquireLock(c) PROVE Goal
    <2>1. CASE Stored(lock)
      BY <1>5, <1>1, <2>1 DEF AcquireLock, Holding
    <2>2. CASE ~Stored(lock)
      <3>1. pc' = [pc EXCEPT ![c] = "getRefresh"] /\ lock' = [owner |-> c, ttl |-> LockTtl]
        BY <1>5, <2>2 DEF AcquireLock, Step
      <3>2. exposed' = Exposed \cup IF Exposed = {} THEN {} ELSE {c}
        BY <1>5, <2>2 DEF AcquireLock, Enter
      <3>3. lock.owner = None /\ lock'.owner = c
        BY <2>2, <3>1, LockKey
      <3>4. \A d \in Calls \ {c} : pc'[d] = pc[d]
        BY <3>1 DEF TypeOK, ProcsType
      <3>5. pc'[c] \in Holding
        BY <3>1 DEF TypeOK, ProcsType, Holding
      <3>6. \A d \in Calls : pc[d] \in Holding => d \in Exposed
        BY <2>2, FreeLock
      <3>7. Working = {}
        BY <3>6 DEF Working, Exposed
      <3>8. CASE Exposed = {}
        <4>1. Working' = {c}
          BY <3>2, <3>4, <3>5, <3>6, <3>8 DEF Working
        <4> QED
          BY <3>3, <3>7, <4>1 DEF Holder!Next, Holder!Acquire, Working
      <3>9. CASE Exposed # {}
        <4>1. Working' = {}
          BY <3>2, <3>4, <3>6, <3>9 DEF Working
        <4> QED
          BY <3>3, <3>7, <4>1 DEF Holder!Next, Holder!AcquireUnknowingly, Working
      <3> QED
        BY <3>8, <3>9
    <2> QED
      BY <2>1, <2>2
  <1>6. ASSUME NEW c \in Calls, GetRefresh(c) PROVE Goal
    BY <1>6, <1>1 DEF GetRefresh, redis, Holding
  <1>7. ASSUME NEW c \in Calls, IdpExchange(c) PROVE Goal
    BY <1>7, StutterStep DEF IdpExchange, redis, Holding
  <1>8. ASSUME NEW c \in Calls, IdpRefuse(c) PROVE Goal
    BY <1>8, <1>1 DEF IdpRefuse, redis, Holding
  <1>9. ASSUME NEW c \in Calls, ReceiveTokenSet(c) PROVE Goal
    BY <1>9, <1>1 DEF ReceiveTokenSet, redis, Holding
  <1>10. ASSUME NEW p \in Procs, StoreAccess(p) PROVE Goal
    <2>1. UNCHANGED <<lock, exposed>> /\ pc[p] \in Holding /\ "relGet" \in PCs \cap Holding
      BY <1>10 DEF StoreAccess, Holding
    <2>2. CASE p \in Calls
      BY <1>10, <1>1, <2>1, <2>2 DEF StoreAccess, StoreDone, Holding
    <2>3. CASE p \notin Calls
      BY <1>10, <1>1, <1>2, <2>1, <2>3 DEF StoreAccess, StoreDone
    <2> QED
      BY <2>2, <2>3
  <1>11. ASSUME NEW p \in Procs, StoreRefresh(p) PROVE Goal
    <2>1. UNCHANGED <<lock, exposed>> /\ pc[p] \in Holding /\ "relGet" \in PCs \cap Holding
      BY <1>11 DEF StoreRefresh, Holding
    <2>2. CASE p \in Calls
      BY <1>11, <1>1, <2>1, <2>2 DEF StoreRefresh, StoreDone, Holding
    <2>3. CASE p \notin Calls
      BY <1>11, <1>1, <1>2, <2>1, <2>3 DEF StoreRefresh, StoreDone
    <2> QED
      BY <2>2, <2>3
  <1>12. ASSUME NEW p \in Procs, StoreFails(p) PROVE Goal
    <2>1. UNCHANGED <<lock, exposed>> /\ pc[p] \in Holding /\ "relGet" \in PCs \cap Holding
      BY <1>12 DEF StoreFails, Holding
    <2>2. CASE p \in Calls
      BY <1>12, <1>1, <2>1, <2>2 DEF StoreFails, StoreDone, Holding
    <2>3. CASE p \notin Calls
      BY <1>12, <1>1, <1>2, <2>1, <2>3 DEF StoreFails, StoreDone
    <2> QED
      BY <2>2, <2>3
  <1>13. ASSUME NEW c \in Calls, ReleaseGet(c) PROVE Goal
    BY <1>13, <1>1, <1>2 DEF ReleaseGet, redis, Holding
  <1>14. ASSUME NEW c \in Calls, ReleaseDel(c) PROVE Goal
    <2>1. pc[c] \in Holding /\ "idle" \in PCs \ Holding /\ pc' = [pc EXCEPT ![c] = "idle"]
      BY <1>14 DEF ReleaseDel, Finish, Step, Holding
    <2> QED
      BY <1>14, <2>1, ReleaseStep DEF ReleaseDel, Holder!Next
  <1>15. ASSUME NEW c \in Calls, Poll(c) PROVE Goal
    <2>1. CASE Stored(access)
      BY <1>15, <1>2, <2>1 DEF Poll, redis
    <2>2. CASE ~Stored(access)
      BY <1>15, <2>2, StutterStep DEF Poll, redis, Holding
    <2> QED
      BY <2>1, <2>2
  <1>16. ASSUME NEW c \in Calls, Wake(c) PROVE Goal
    BY <1>16, <1>1, <1>2 DEF Wake, redis, Holding
  <1>17. ASSUME NEW c \in Calls, IdpUnreachable(c) PROVE Goal
    BY <1>17, <1>1 DEF IdpUnreachable, redis, Holding
  <1>18. ASSUME NEW c \in Calls, ReadFails(c) PROVE Goal
    BY <1>18, <1>2 DEF ReadFails, redis
  <1>19. ASSUME NEW c \in Calls, AcquireLockFails(c) PROVE Goal
    <2>1. CASE UNCHANGED lock
      BY <1>19, <1>2, <2>1 DEF AcquireLockFails
    <2>2. CASE ~Stored(lock) /\ lock' = [owner |-> c, ttl |-> LockTtl]
      <3>1. pc' = [pc EXCEPT ![c] = "idle"] /\ pc[c] = "lock"
        BY <1>19 DEF AcquireLockFails, Finish, Step
      <3>2. Working' = Working
        BY <1>19, <3>1 DEF AcquireLockFails, Working, TypeOK, ProcsType, Holding
      <3>3. lock.owner = None /\ lock'.owner = c
        BY <2>2, LockKey
      <3> QED
        BY <3>2, <3>3 DEF Holder!Next, Holder!AcquireUnknowingly, Working
    <2> QED
      BY <1>19, <2>1, <2>2 DEF AcquireLockFails
  <1>20. ASSUME NEW c \in Calls, ReleaseDelFails(c) PROVE Goal
    <2>1. pc[c] \in Holding /\ "idle" \in PCs \ Holding /\ pc' = [pc EXCEPT ![c] = "idle"]
      BY <1>20 DEF ReleaseDelFails, Finish, Step, Holding
    <2> QED
      BY <1>20, <2>1, ReleaseStep, AbandonStep DEF ReleaseDelFails, Holder!Next
  <1>21. ASSUME NEW l \in Logins, LoginExchange(l) PROVE Goal
    BY <1>21, <1>1, NoneAssumption DEF LoginExchange, redis
  <1>22. ASSUME NEW l \in Logins, LoginAccepted(l) PROVE Goal
    BY <1>22, <1>1, NoneAssumption DEF LoginAccepted, redis
  <1>23. ASSUME NEW l \in Logins, LoginRefused(l) PROVE Goal
    BY <1>23, <1>2 DEF LoginRefused, redis
  <1>24. ASSUME NEW p \in Procs, Crash(p) PROVE Goal
    BY <1>24, <1>2 DEF Crash, redis
  <1>25. CASE RefreshExpires
    BY <1>25 DEF RefreshExpires, procs, Holder!vars
  <1>26. CASE Tick
    <2>1. Working' = Working
      BY <1>26 DEF Tick, Working
    <2>2. CASE lock.ttl > 1
      <3>1. lock'.owner = lock.owner
        BY <1>26, <2>2, LockKey DEF Tick
      <3> QED
        BY <2>1, <3>1 DEF Working, Holder!vars
    <2>3. CASE ~(lock.ttl > 1)
      <3>1. lock' = NoLock /\ lock'.owner = None
        BY <1>26, <2>3 DEF Tick, NoLock
      <3>2. CASE lock.owner = None
        BY <2>1, <3>1, <3>2 DEF Working, Holder!vars
      <3>3. CASE lock.owner # None
        <4>1. lock.owner \notin Working
          <5>1. SUFFICES ASSUME lock.owner \in Working PROVE FALSE
            OBVIOUS
          <5>2. PICK c \in Calls : c = lock.owner /\ pc[c] \in Holding /\ c \notin exposed
            BY <5>1 DEF Working
          <5>3. timer[c] \in Nat /\ timer[c] > 0
            BY <1>26, <5>2 DEF Tick, HasDeadline, TypeOK, ProcsType
          <5>4. TimeLeft(pc[c], timer[c]) >= timer[c]
            BY <5>3, TimeAssumption DEF TimeLeft
          <5>5. TimeLeft(pc[c], timer[c]) \in Nat /\ lock.ttl \in Nat
            BY <5>3, TimeLeftNat, LockKey
          <5> QED
            BY <2>3, <5>2, <5>3, <5>4, <5>5 DEF LockInv, HolderKeepsLock, TimeToRelease
        <4> QED
          BY <2>1, <3>1, <3>3, <4>1 DEF Holder!Next, Holder!Lapse, Working
      <3> QED
        BY <3>2, <3>3
    <2> QED
      BY <2>2, <2>3
  <1>27. CASE UNCHANGED vars
    BY <1>27 DEF vars, procs, redis, Holder!vars
  <1>28. CASE DeleteLock
    <2>1. Working' = {} /\ lock'.owner = None
      BY <1>28, DeletedLock DEF Working, NoLock
    <2>2. lock.owner # None
      BY <1>28, LockKey DEF DeleteLock
    <2> QED
      BY <2>1, <2>2 DEF Holder!Next, Holder!Withdraw, Working
  <1>29. CASE DeleteAccess
    BY <1>29 DEF DeleteAccess, procs, Holder!vars
  <1> QED
    BY <1>3, <1>4, <1>5, <1>6, <1>7, <1>8, <1>9, <1>10, <1>11, <1>12, <1>13, <1>14, <1>15, <1>16, <1>17, <1>18, <1>19, <1>20, <1>21, <1>22, <1>23, <1>24, <1>25, <1>26, <1>27, <1>28, <1>29
       DEF Next, CallStep, CallFails, LoginStep

\* The lock starts as a free lease.
LEMMA InitIsLease == Init => Holder!Init
  BY DEF Init, Holder!Init, NoLock, Holding, Procs

\* Under the same condition the lock is the abstract lease: only its owner
\* releases it, it lapses only after its owner has stopped, and a deletion
\* withdraws it (acquireLock, releaseLock, deletePattern).
THEOREM LockIsALease == LockTtlSuffices => (Spec => LeaseSpec)
  <1> SUFFICES ASSUME LockTtlSuffices PROVE Spec => LeaseSpec
    OBVIOUS
  <1>1. TypeOK /\ LockInv /\ [Next]_vars => [Holder!Next]_(Holder!vars)
    BY NextIsLease
  <1> QED
    BY <1>1, InitIsLease, TypeCorrect, LockInvariance, PTL DEF Spec, LeaseSpec, Holder!Spec

---------------------------------------------------------------------------
(* Calls come to an end *)

Advances(c) ==
  pc[c] # "idle" =>
    \/ StepsLeft(c)' < StepsLeft(c)
    \/ pc'[c] = pc[c] /\ retries'[c] = retries[c]

\* The values of StepsFrom, the retries left being n.
LEMMA StepsFromValues ==
  \A n :
    /\ StepsFrom("getAccess", n) = 9 /\ StepsFrom("lock", n) = 8
    /\ StepsFrom("getRefresh", n) = 7 /\ StepsFrom("idp", n) = 6
    /\ StepsFrom("answer", n) = 5 /\ StepsFrom("setAccess", n) = 4
    /\ StepsFrom("setRefresh", n) = 3 /\ StepsFrom("relGet", n) = 2
    /\ StepsFrom("relDel", n) = 1 /\ StepsFrom("poll", n) = 2 * n
    /\ StepsFrom("sleep", n) = 2 * n + 1
  BY DEF StepsFrom

\* An execution goes to a step nearer to the end; the others stay.
LEMMA NearerAdvances ==
  ASSUME TypeOK, NEW p \in Procs, NEW q, pc' = [pc EXCEPT ![p] = q],
         \A d \in Calls \ {p} : retries'[d] = retries[d],
         p \in Calls => StepsFrom(q, retries'[p]) < StepsFrom(pc[p], retries[p]),
         NEW c \in Calls
  PROVE  Advances(c)
  BY PcValues DEF TypeOK, ProcsType, Advances, StepsLeft

\* Whatever ends an execution.
LEMMA EndAdvances ==
  ASSUME TypeOK, NEW p \in Procs, pc[p] # "idle", NEW r, Finish(p, r), NEW c \in Calls
  PROVE  Advances(c)
  <1>1. pc' = [pc EXCEPT ![p] = "idle"]
    BY DEF Finish, Step
  <1>2. /\ \A d \in Calls \ {p} : retries'[d] = retries[d]
        /\ p \in Calls => retries'[p] = 0
    BY DEF Finish, TypeOK, ProcsType
  <1>3. ASSUME p \in Calls
        PROVE  StepsFrom("idle", 0) < StepsFrom(pc[p], retries[p])
    BY <1>3 DEF StepsFrom, TypeOK, ProcsType, PCs, Holding
  <1> QED
    BY <1>1, <1>2, <1>3, NearerAdvances

\* A step on the way, the counter of the retries being left alone.
LEMMA WayAdvances ==
  ASSUME TypeOK, NEW p \in Procs, NEW q, pc' = [pc EXCEPT ![p] = q], UNCHANGED retries,
         p \in Calls => StepsFrom(q, retries[p]) < StepsFrom(pc[p], retries[p]),
         NEW c \in Calls
  PROVE  Advances(c)
  BY NearerAdvances

\* Each action brings the execution it is about nearer to its end.
LEMMA NextAdvances ==
  ASSUME TypeOK, [Next]_vars, NEW c \in Calls
  PROVE  Advances(c)
  <1>1. \A d \in Calls : d \in Procs /\ retries[d] \in 0..3
    BY DEF TypeOK, ProcsType, Procs
  <1>2. ASSUME UNCHANGED <<pc, retries>> PROVE Advances(c)
    BY <1>2 DEF Advances
  <1>3. ASSUME NEW p \in Procs, pc[p] \in {"setAccess", "setRefresh"}, StoreDone(p)
        PROVE  Advances(c)
    <2>1. CASE p \in Calls
      <3>1. pc' = [pc EXCEPT ![p] = "relGet"] /\ UNCHANGED retries
        BY <1>3, <2>1 DEF StoreDone, Step
      <3>2. StepsFrom("relGet", retries[p]) < StepsFrom(pc[p], retries[p])
        BY <1>3, StepsFromValues
      <3> QED
        BY <3>1, <3>2, WayAdvances
    <2>2. CASE p \notin Calls
      BY <1>3, <2>2, EndAdvances DEF StoreDone
    <2> QED
      BY <2>1, <2>2
  <1>4. ASSUME NEW p \in Procs, StoreAccess(p) PROVE Advances(c)
    <2>1. CASE nt[p] = None
      BY <1>3, <1>4, <2>1 DEF StoreAccess
    <2>2. CASE nt[p] # None
      BY <1>4, <2>2, WayAdvances, StepsFromValues DEF StoreAccess, Step
    <2> QED
      BY <2>1, <2>2
  <1>5. ASSUME NEW p \in Procs, StoreRefresh(p) PROVE Advances(c)
    BY <1>3, <1>5 DEF StoreRefresh
  <1>6. ASSUME NEW p \in Procs, StoreFails(p) PROVE Advances(c)
    <2>1. pc[p] \in {"setAccess", "setRefresh"}
      BY <1>6 DEF StoreFails
    <2>2. CASE p \in Calls
      <3>1. pc' = [pc EXCEPT ![p] = "relGet"] /\ UNCHANGED retries
        BY <1>6, <2>2 DEF StoreFails, Step
      <3>2. StepsFrom("relGet", retries[p]) < StepsFrom(pc[p], retries[p])
        BY <2>1, StepsFromValues
      <3> QED
        BY <3>1, <3>2, WayAdvances
    <2>3. CASE p \notin Calls
      <3>1. Finish(p, None)
        BY <1>6, <2>3 DEF StoreFails
      <3> QED
        BY <2>1, <3>1, EndAdvances
    <2> QED
      BY <2>2, <2>3
  <1>7. ASSUME NEW d \in Calls, Request(d) PROVE Advances(c)
    BY <1>7 DEF Request, Step, Advances, TypeOK, ProcsType
  <1>8. ASSUME NEW d \in Calls, CallStep(d) PROVE Advances(c)
    <2>1. CASE GetAccess(d)
      <3>1. CASE Stored(access)
        BY <1>1, <2>1, <3>1, EndAdvances DEF GetAccess
      <3>2. CASE ~Stored(access)
        BY <1>1, <2>1, <3>2, WayAdvances, StepsFromValues DEF GetAccess, Step
      <3> QED
        BY <3>1, <3>2
    <2>2. CASE AcquireLock(d)
      <3>1. CASE Stored(lock)
        <4>1. pc' = [pc EXCEPT ![d] = "poll"] /\ retries' = [retries EXCEPT ![d] = 3]
          BY <2>2, <3>1 DEF AcquireLock, Step
        <4>2. retries'[d] = 3 /\ \A e \in Calls \ {d} : retries'[e] = retries[e]
          BY <4>1 DEF TypeOK, ProcsType
        <4>3. StepsFrom("poll", 3) < StepsFrom(pc[d], retries[d])
          BY <2>2, StepsFromValues DEF AcquireLock
        <4> QED
          BY <1>1, <4>1, <4>2, <4>3, NearerAdvances
      <3>2. CASE ~Stored(lock)
        BY <1>1, <2>2, <3>2, WayAdvances, StepsFromValues DEF AcquireLock, Step
      <3> QED
        BY <3>1, <3>2
    <2>3. CASE GetRefresh(d)
      <3>1. pc[d] = "getRefresh" /\ UNCHANGED retries
        BY <2>3 DEF GetRefresh
      <3>2. PICK q \in {"relGet", "idp"} : pc' = [pc EXCEPT ![d] = q]
        BY <2>3 DEF GetRefresh, Step
      <3>3. StepsFrom(q, retries[d]) < StepsFrom(pc[d], retries[d])
        BY <3>1, StepsFromValues
      <3> QED
        BY <1>1, <3>1, <3>2, <3>3, WayAdvances
    <2>4. CASE IdpExchange(d)
      <3>1. pc[d] = "idp" /\ pc' = [pc EXCEPT ![d] = "answer"] /\ UNCHANGED retries
        BY <2>4 DEF IdpExchange
      <3>2. StepsFrom("answer", retries[d]) < StepsFrom(pc[d], retries[d])
        BY <3>1, StepsFromValues
      <3> QED
        BY <1>1, <3>1, <3>2, WayAdvances
    <2>5. CASE IdpRefuse(d)
      <3>1. pc[d] = "idp" /\ pc' = [pc EXCEPT ![d] = "relGet"] /\ UNCHANGED retries
        BY <2>5 DEF IdpRefuse, Step
      <3>2. StepsFrom("relGet", retries[d]) < StepsFrom(pc[d], retries[d])
        BY <3>1, StepsFromValues
      <3> QED
        BY <1>1, <3>1, <3>2, WayAdvances
    <2>6. CASE ReceiveTokenSet(d)
      <3>1. pc[d] = "answer" /\ pc' = [pc EXCEPT ![d] = "setAccess"] /\ UNCHANGED retries
        BY <2>6 DEF ReceiveTokenSet, Step
      <3>2. StepsFrom("setAccess", retries[d]) < StepsFrom(pc[d], retries[d])
        BY <3>1, StepsFromValues
      <3> QED
        BY <1>1, <3>1, <3>2, WayAdvances
    <2>7. CASE StoreAccess(d) \/ StoreRefresh(d)
      BY <1>1, <1>4, <1>5, <2>7
    <2>8. CASE ReleaseGet(d)
      <3>1. CASE lock.owner = d
        BY <1>1, <2>8, <3>1, WayAdvances, StepsFromValues DEF ReleaseGet, Step
      <3>2. CASE lock.owner # d
        BY <1>1, <2>8, <3>2, EndAdvances DEF ReleaseGet
      <3> QED
        BY <3>1, <3>2
    <2>9. CASE ReleaseDel(d)
      BY <1>1, <2>9, EndAdvances DEF ReleaseDel
    <2>10. CASE Poll(d)
      <3>1. CASE Stored(access)
        BY <1>1, <2>10, <3>1, EndAdvances DEF Poll
      <3>2. CASE ~Stored(access)
        <4>1. /\ pc' = [pc EXCEPT ![d] = "sleep"]
              /\ retries' = [retries EXCEPT ![d] = retries[d] - 1]
          BY <2>10, <3>2 DEF Poll
        <4>2. retries'[d] = retries[d] - 1 /\ \A e \in Calls \ {d} : retries'[e] = retries[e]
          BY <4>1 DEF TypeOK, ProcsType
        <4>3. StepsFrom("sleep", retries[d] - 1) < StepsFrom(pc[d], retries[d])
          BY <1>1, <2>10, StepsFromValues DEF Poll
        <4> QED
          BY <1>1, <4>1, <4>2, <4>3, NearerAdvances
      <3> QED
        BY <3>1, <3>2
    <2>11. CASE Wake(d)
      <3>1. CASE retries[d] > 0
        BY <1>1, <2>11, <3>1, WayAdvances, StepsFromValues DEF Wake, Step
      <3>2. CASE ~(retries[d] > 0)
        BY <1>1, <2>11, <3>2, EndAdvances DEF Wake
      <3> QED
        BY <3>1, <3>2
    <2> QED
      BY <1>8, <2>1, <2>2, <2>3, <2>4, <2>5, <2>6, <2>7, <2>8, <2>9, <2>10, <2>11 DEF CallStep
  <1>9. ASSUME NEW d \in Calls, CallFails(d) PROVE Advances(c)
    <2>1. CASE IdpUnreachable(d)
      <3>1. /\ pc[d] \in {"idp", "answer"}
            /\ pc' = [pc EXCEPT ![d] = "relGet"] /\ UNCHANGED retries
        BY <2>1 DEF IdpUnreachable, Step
      <3>2. StepsFrom("relGet", retries[d]) < StepsFrom(pc[d], retries[d])
        BY <3>1, StepsFromValues
      <3> QED
        BY <1>1, <3>1, <3>2, WayAdvances
    <2>2. CASE StoreFails(d)
      BY <1>1, <1>6, <2>2
    <2>3. CASE ReadFails(d)
      BY <1>1, <2>3, EndAdvances DEF ReadFails
    <2>4. CASE AcquireLockFails(d)
      BY <1>1, <2>4, EndAdvances DEF AcquireLockFails
    <2>5. CASE ReleaseDelFails(d)
      BY <1>1, <2>5, EndAdvances DEF ReleaseDelFails
    <2> QED
      BY <1>9, <2>1, <2>2, <2>3, <2>4, <2>5 DEF CallFails
  <1>10. ASSUME NEW l \in Logins, LoginExchange(l) \/ LoginStep(l) PROVE Advances(c)
    <2>1. l \in Procs /\ l \notin Calls
      BY NoneAssumption DEF Procs
    <2>2. CASE LoginExchange(l)
      BY <2>1, <2>2, WayAdvances DEF LoginExchange, Step
    <2>3. CASE LoginAccepted(l)
      BY <2>1, <2>3, WayAdvances DEF LoginAccepted, Step
    <2>4. CASE LoginRefused(l)
      BY <2>1, <2>4, EndAdvances DEF LoginRefused
    <2> QED
      BY <1>4, <1>5, <1>6, <1>10, <2>1, <2>2, <2>3, <2>4 DEF LoginStep
  <1>11. ASSUME NEW p \in Procs, Crash(p) PROVE Advances(c)
    BY <1>11, EndAdvances DEF Crash
  <1>12. CASE RefreshExpires \/ DeleteLock \/ DeleteAccess \/ Tick \/ UNCHANGED vars
    BY <1>2, <1>12 DEF RefreshExpires, DeleteLock, DeleteAccess, Tick, vars, procs
  <1> QED
    BY <1>7, <1>8, <1>9, <1>10, <1>11, <1>12 DEF Next

\* Once under way, a call takes at most nine steps of its own, whatever the
\* others do and whatever fails (execute, waitForRefresh): the part of
\* "every call is answered" that needs no fairness.
THEOREM CallsComeToAnEnd == Spec => CallsAdvance
  <1>1. TypeOK /\ [Next]_vars => [\A c \in Calls : Advances(c)]_vars
    BY NextAdvances
  <1>2. [\A c \in Calls : Advances(c)]_vars =>
        [\A c \in Calls :
           pc[c] # "idle" =>
             \/ StepsLeft(c)' < StepsLeft(c)
             \/ pc'[c] = pc[c] /\ retries'[c] = retries[c]]_vars
    BY DEF Advances
  <1> QED
    BY <1>1, <1>2, TypeCorrect, PTL DEF Spec, CallsAdvance
===========================================================================
