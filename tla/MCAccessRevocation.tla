-------------------------- MODULE MCAccessRevocation --------------------------
(* The instance of AccessRevocation for TLC. *)
EXTENDS AccessRevocation

\* One account of each of two users.
MCAccounts == {[type |-> "JEUNE", sub |-> "s1"], [type |-> "JEUNE", sub |-> "s2"]}

\* What bears on the revoked user: its IdP tokens, and the list of the login
\* that ended before.
MCExpiring == {<<"idp", a>> : a \in {b \in Accounts : b.sub \in RevokedSubs}}
                \cup ({"list"} \X Before)
=============================================================================
