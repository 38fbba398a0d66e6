--------------------------- MODULE TokenRotation ---------------------------
(***************************************************************************)
(* What the token refresh promises of the refresh token of one account,    *)
(* with no lock, no clock and no awaits: a chain of tokens.  The token     *)
(* that is stored is exchanged by one execution at a time; the token that  *)
(* replaces it is stored once, by the execution that received it; and a    *)
(* token that was replaced is not exchanged again, unless its successor    *)
(* was lost on the way to the store.  Executions whose protection was      *)
(* taken away share what they take, and with nobody but one another.       *)
(***************************************************************************)
CONSTANTS Executions,
          Tokens,   \* refresh tokens, reused once nobody knows them
          NoToken

VARIABLES stored,   \* the token in the store, or NoToken
          open,     \* the exchanges that are not over
          spent,    \* the tokens that were replaced
          lost,     \* the replaced tokens whose successor was never stored
          shared    \* the executions that nothing protects from one another

vars == <<stored, open, spent, lost, shared>>

\* An exchange: its execution, the token presented (NoToken for a login, which
\* has none) and the token received (NoToken as long as there is none).
Exchanges ==
  [by : Executions, old : Tokens \cup {NoToken}, new : Tokens \cup {NoToken}]

\* An execution has one exchange at a time.
Idle(x) == \A e \in open : e.by # x

\* Nobody else exchanges a stored token, but for those that share it.
Alone(x) == \A e \in open : e.old # NoToken => {x, e.by} \subseteq shared

\* A token that can be exchanged, as far as the executions can tell.
Usable(t) == t \in spent => t \in lost

Unknown(t) == t # stored /\ \A e \in open : t # e.old /\ t # e.new

Init ==
  /\ stored \in Tokens \cup {NoToken}
  /\ open = {}
  /\ spent = {}
  /\ lost = {}
  /\ shared = {}

\* The stored token is taken to be exchanged: by nobody else, while it is
\* usable.
Take(x) ==
  /\ stored # NoToken
  /\ Idle(x) /\ Alone(x)
  /\ x \in shared \/ Usable(stored)
  /\ open' = open \cup {[by |-> x, old |-> stored, new |-> NoToken]}
  /\ UNCHANGED <<stored, spent, lost, shared>>

\* The token presented is replaced.
Rotate(e, t) ==
  /\ e.old \notin spent \cup {NoToken}
  /\ e.new = NoToken
  /\ Unknown(t)
  /\ open' = (open \ {e}) \cup {[e EXCEPT !.new = t]}
  /\ spent' = (spent \ {t}) \cup {e.old}
  /\ lost' = lost \ {t}
  /\ UNCHANGED <<stored, shared>>

\* A login receives a token and presents none.
Issue(x, t) ==
  /\ Idle(x)
  /\ Unknown(t)
  /\ open' = open \cup {[by |-> x, old |-> NoToken, new |-> t]}
  /\ spent' = spent \ {t}
  /\ lost' = lost \ {t}
  /\ UNCHANGED <<stored, shared>>

\* The token received is stored.
Store(e) ==
  /\ e.new \notin spent \cup {NoToken}
  /\ stored' = e.new
  /\ open' = open \ {e}
  /\ UNCHANGED <<spent, lost, shared>>

\* An exchange ends with no new token: the old one stays as usable as it was.
Keep(e) ==
  /\ e.new = NoToken
  /\ e.by \in shared \/ Usable(e.old)
  /\ open' = open \ {e}
  /\ UNCHANGED <<stored, spent, lost, shared>>

\* The token received is forgotten before it is stored.
Lose(e) ==
  /\ e.new # NoToken
  /\ open' = open \ {e}
  /\ lost' = lost \cup ({e.old} \cap spent)
  /\ UNCHANGED <<stored, spent, shared>>

Expire ==
  /\ stored # NoToken
  /\ stored' = NoToken
  /\ UNCHANGED <<open, spent, lost, shared>>

\* The protection is lost or back; an exchange that lost it does not regain it.
Share(S) ==
  /\ \A e \in open : e.old # NoToken /\ e.by \in shared => e.by \in S
  /\ shared' = S
  /\ UNCHANGED <<stored, open, spent, lost>>

Next ==
  \/ \E x \in Executions : Take(x) \/ \E t \in Tokens : Issue(x, t)
  \/ \E e \in open : Store(e) \/ Keep(e) \/ Lose(e) \/ \E t \in Tokens : Rotate(e, t)
  \/ Expire
  \/ \E S \in SUBSET Executions : Share(S)

Spec == Init /\ [][Next]_vars

---------------------------------------------------------------------------
(* What a chain is good for *)

\* One exchange of a stored token at a time, but for those that share it.
OneExchange ==
  \A d, e \in open :
    d.old # NoToken /\ e.old # NoToken => d = e \/ {d.by, e.by} \subseteq shared

\* A token is not presented once it was replaced, unless its successor was
\* lost or the token is shared.
PresentedIsUsable ==
  \A e \in open :
    e.old # NoToken /\ e.new = NoToken => e.by \in shared \/ Usable(e.old)

\* The stored token is usable, or about to be replaced by its successor.
StoredIsCurrent ==
  stored \in spent => stored \in lost \/ \E e \in open : e.old = stored /\ e.new # NoToken

Promise == OneExchange /\ PresentedIsUsable /\ StoredIsCurrent
============================================================================
