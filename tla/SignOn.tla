------------------------------- MODULE SignOn -------------------------------
(***************************************************************************)
(* What a login promises, with no requests, no cookies and no Redis: who   *)
(* authenticates does so for one interaction; the authentication completes *)
(* once, with a Grant of the account and, for a user of an identity        *)
(* provider, with tokens; a completed interaction opens one session, that  *)
(* of its account.                                                         *)
(***************************************************************************)
CONSTANTS
  Logins,        \* authentications: an authorization code, or a guest made
  Interactions,
  Accounts,
  Users,         \* the accounts of an identity provider
  Grants,
  Nobody

VARIABLES
  who,           \* of a login: its interaction and its account
  completed,     \* the logins that are over
  pending,       \* what a completed interaction waits to open
  session,       \* the session of the browser
  owner,         \* the account of a Grant
  withTokens     \* the accounts that have tokens

vars == <<who, completed, pending, session, owner, withTokens>>

Init ==
  /\ who = [l \in Logins |-> Nobody]
  /\ completed = {}
  /\ pending = [i \in Interactions |-> Nobody]
  /\ session = Nobody
  /\ owner = [g \in Grants |-> Nobody]
  /\ withTokens = {}

Authenticate(l, i, a) ==
  /\ who[l] = Nobody
  /\ who' = [who EXCEPT ![l] = [interaction |-> i, account |-> a]]
  /\ UNCHANGED <<completed, pending, session, owner, withTokens>>

SaveGrant(g, a) ==
  /\ owner[g] = Nobody
  /\ owner' = [owner EXCEPT ![g] = a]
  /\ UNCHANGED <<who, completed, pending, session, withTokens>>

StoreTokens(a) ==
  /\ withTokens' = withTokens \cup {a}
  /\ UNCHANGED <<who, completed, pending, session, owner>>

\* An interaction that ended meanwhile stays so.
Complete(l, g) ==
  /\ who[l] # Nobody
  /\ l \notin completed
  /\ owner[g] = who[l].account
  /\ who[l].account \in Users => who[l].account \in withTokens
  /\ completed' = completed \cup {l}
  /\ \E res \in {[account |-> who[l].account, grant |-> g], Nobody} :
       pending' = [pending EXCEPT ![who[l].interaction] = res]
  /\ UNCHANGED <<who, session, owner, withTokens>>

Open(i) ==
  /\ pending[i] # Nobody
  /\ session' = pending[i]
  /\ pending' = [pending EXCEPT ![i] = Nobody]
  /\ UNCHANGED <<who, completed, owner, withTokens>>

Expire(i) ==
  /\ pending[i] # Nobody
  /\ pending' = [pending EXCEPT ![i] = Nobody]
  /\ UNCHANGED <<who, completed, session, owner, withTokens>>

Close ==
  /\ session # Nobody
  /\ session' = Nobody
  /\ UNCHANGED <<who, completed, pending, owner, withTokens>>

Next ==
  \/ \E l \in Logins, i \in Interactions, a \in Accounts : Authenticate(l, i, a)
  \/ \E g \in Grants, a \in Accounts : SaveGrant(g, a)
  \/ \E a \in Accounts : StoreTokens(a)
  \/ \E l \in Logins, g \in Grants : Complete(l, g)
  \/ \E i \in Interactions : Open(i) \/ Expire(i)
  \/ Close

Spec == Init /\ [][Next]_vars

---------------------------------------------------------------------------
(* What a sign-on is good for *)

\* The Grant is the account's, and a user of an identity provider has tokens.
Entitled(res) ==
  /\ owner[res.grant] = res.account
  /\ res.account \in Users => res.account \in withTokens

\* A session is opened for an account that authenticated for an interaction
\* of the browser, with a Grant of that account and with its tokens.
Promise ==
  /\ \A i \in Interactions : pending[i] # Nobody =>
       /\ Entitled(pending[i])
       /\ \E l \in completed : who[l] = [interaction |-> i, account |-> pending[i].account]
  /\ session # Nobody =>
       /\ Entitled(session)
       /\ \E l \in completed, i \in Interactions :
            who[l] = [interaction |-> i, account |-> session.account]
============================================================================
