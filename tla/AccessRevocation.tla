-------------------------- MODULE AccessRevocation --------------------------
(***************************************************************************)
(* The script that revokes the accesses of a list of users                 *)
(* (src/account/revoquer-acces.ts), run against a Redis in service.        *)
(*                                                                         *)
(* Nothing leads from a user to its Grants and Sessions: the script goes   *)
(* through all keys with SCAN, reads the lists of tokens of the Grants it  *)
(* found, deletes these Grants, then everything else, one DEL per key.     *)
(* Meanwhile logins end, browsers come back with their session, codes are  *)
(* exchanged, each request writing what it read before; the list of the    *)
(* tokens of a Grant may lapse before them; and the script may be          *)
(* interrupted and run again.                                              *)
(*                                                                         *)
(* A key is <<kind, id>>; a Grant and a Session have the id of the login   *)
(* that made them.  The single use of a code is in GrantStore; a refresh   *)
(* of IdP tokens writes them back as a login does, and its lock (the       *)
(* third prefix of the script) gives access to nothing.                    *)
(***************************************************************************)
EXTENDS Naturals

CONSTANTS
  Requests,      \* requests that end with a code: logins and visits of /authorize
  Before,        \* logins that ended before, and left all their keys
  Relogins,      \* requests that may be a login over a session, reusing its Grant
  Accounts,      \* records with the type and the sub of an account
  RevokedSubs,   \* the lines of the script's input file
  Expiring,      \* keys whose TTL may end in this instance
  None,
  Faults         \* the faults this instance may meet

ASSUME RequestsAssumption ==
  Before \cup Relogins \subseteq Requests /\ None \notin Requests \cup Accounts
ASSUME FaultsAssumption == Faults \subseteq {"interrupt", "redis", "unreadable"}

VARIABLES
  pc,         \* the await each request is at
  account,    \* whose request it is; whose Grant and Session it made
  grantOf,    \* the Grant it works on
  sessionOf,  \* the Session it works on
  stored,     \* the keys in Redis that have a payload, but for the lists
  list,       \* grant:<id>, the keys of the tokens of each Grant
  husks,      \* deleted codes whose key consume made again, without a payload
  phase,      \* where the script is
  always,     \* keys that were there all along the SCAN
  ever,       \* keys that were there at some time of the SCAN
  found,      \* Grants, Sessions and IdP tokens of the revoked users
  toRead,     \* Grants whose list is still to be read
  names,      \* the keys read in the lists
  pending,    \* the keys still to be deleted
  failed,     \* a DEL of this pipeline was answered by an error
  targets,    \* history: tokens a revoked user could use when the run began
  orphans,    \* history: the targets whose list had gone before the run read it
  refused,    \* history: the targets whose Grants a run deleted, but for those
              \* that a login had read before and saved again
  deleted,    \* history: the targets, orphans apart, of runs without error
  reported,   \* clesIllisibles: the keys that a quiet run could not read
  quiet,      \* history: no request was served since the run began
  cleared     \* history: a quiet run ended and nothing has happened since

requestVars == <<pc, account, grantOf, sessionOf>>
redis       == <<stored, list, husks>>
script      == <<phase, found, toRead, names, pending, failed>>
seen        == <<always, ever>>
history     == <<targets, orphans, refused, deleted, reported, quiet, cleared>>
vars        == <<requestVars, redis, script, seen, history>>

TokenKeys  == {"code", "token"} \X Requests
ObjectKeys == {"Grant", "Session"} \X Requests
IdpKeys    == {"idp"} \X Accounts
Keys       == TokenKeys \cup ObjectKeys \cup IdpKeys \cup ({"uid"} \X Requests)
Lists      == {"list"} \X Requests

RequestPCs == {"idle", "saveGrant", "setTokens", "loadGrant", "code",
               "saveSession", "keepSession", "issued", "grantOfCode", "consume", "token",
               "done"}
Phases     == {"idle", "scan", "lists", "grants", "rest"}

TypeOK ==
  /\ pc \in [Requests -> RequestPCs]
  /\ account \in [Requests -> Accounts \cup {None}]
  /\ grantOf \in [Requests -> Requests \cup {None}]
  /\ sessionOf \in [Requests -> Requests \cup {None}]
  /\ stored \subseteq Keys
  /\ list \in [Requests -> SUBSET TokenKeys]
  /\ husks \subseteq TokenKeys
  /\ phase \in Phases
  /\ always \subseteq ObjectKeys \cup IdpKeys
  /\ ever \subseteq ObjectKeys \cup IdpKeys
  /\ found \subseteq ObjectKeys \cup IdpKeys
  /\ reported \subseteq ObjectKeys \cup IdpKeys
  /\ toRead \subseteq Requests
  /\ names \subseteq TokenKeys
  /\ targets \subseteq TokenKeys
  /\ orphans \subseteq TokenKeys
  /\ refused \subseteq TokenKeys
  /\ deleted \subseteq TokenKeys
  /\ pending \subseteq Keys \cup Lists
  /\ failed \in BOOLEAN
  /\ quiet \in BOOLEAN
  /\ cleared \in BOOLEAN

\* The keys that a login leaves.
KeysOf(l, a) == {<<"Grant", l>>, <<"Session", l>>, <<"uid", l>>, <<"token", l>>, <<"idp", a>>}

Init ==
  /\ pc = [r \in Requests |-> IF r \in Before THEN "done" ELSE "idle"]
  /\ \E who \in [Before -> Accounts] :
       /\ account = [r \in Requests |-> IF r \in Before THEN who[r] ELSE None]
       /\ stored = UNION {KeysOf(l, who[l]) : l \in Before}
  /\ grantOf = [r \in Requests |-> IF r \in Before THEN r ELSE None]
  /\ sessionOf = grantOf
  /\ list = [l \in Requests |-> IF l \in Before THEN {<<"token", l>>} ELSE {}]
  /\ husks = {}
  /\ phase = "idle"
  /\ always = {} /\ ever = {} /\ found = {} /\ toRead = {} /\ names = {} /\ pending = {}
  /\ failed = FALSE
  /\ targets = {} /\ orphans = {} /\ refused = {} /\ deleted = {} /\ reported = {}
  /\ quiet = FALSE /\ cleared = FALSE

---------------------------------------------------------------------------
(* Helpers *)

\* All the accounts of a sub, whatever their type.
IsRevoked(a) == a # None /\ a.sub \in RevokedSubs

OwnerOf(k) == IF k[1] = "idp" THEN k[2] ELSE account[k[2]]

GrantOfToken(k) == grantOf[k[2]]

\* oidc-provider accepts a code or a refresh token whose Grant is stored.
Usable(k) == k \in stored /\ <<"Grant", GrantOfToken(k)>> \in stored

\* The keys in which the script looks for a user.
Scannable == stored \cap (ObjectKeys \cup IdpKeys)

Serving == \E r \in Requests : pc[r] \notin {"idle", "issued", "done"}

Goto(r, from, to) ==
  /\ pc[r] = from
  /\ pc' = [pc EXCEPT ![r] = to]

\* A request reads its await's answer, or writes the key k.
Reads  == UNCHANGED <<account, grantOf, sessionOf, redis>>
Set(K) == /\ stored' = stored \cup K
          /\ UNCHANGED <<account, grantOf, sessionOf, list, husks>>

\* A request arrives: a run is no longer alone, nor the last word.
Arrives ==
  /\ quiet' = FALSE /\ cleared' = FALSE /\ reported' = {}
  /\ UNCHANGED <<targets, orphans, refused, deleted>>

---------------------------------------------------------------------------
(* Requests: generateNewGrantId, the IdP tokens, then the code *)

\* A login that has come back from its IdP; its Grant will be a new one, as
\* is that of a login over a session whose Grant is gone or another account's.
Login(l, a) ==
  /\ Goto(l, "idle", "saveGrant")
  /\ account' = [account EXCEPT ![l] = a]
  /\ grantOf' = [grantOf EXCEPT ![l] = l]
  /\ sessionOf' = [sessionOf EXCEPT ![l] = l]
  /\ UNCHANGED redis
  /\ Arrives

\* Mutated Relogin: the Grant is made again when it is not found.
ReloginAnyway(m, s) ==
  /\ Goto(m, "idle", "saveGrant")
  /\ <<"Session", s>> \in stored
  /\ account' = [account EXCEPT ![m] = account[s]]
  /\ grantOf' = [grantOf EXCEPT ![m] = s]
  /\ sessionOf' = [sessionOf EXCEPT ![m] = s]
  /\ UNCHANGED redis
  /\ Arrives

\* Over the session s: its Grant is found and will be saved again.
Relogin(m, s) ==
  /\ Goto(m, "idle", "saveGrant")
  /\ {<<"Session", s>>, <<"Grant", s>>} \subseteq stored
  /\ account' = [account EXCEPT ![m] = account[s]]
  /\ grantOf' = [grantOf EXCEPT ![m] = s]
  /\ sessionOf' = [sessionOf EXCEPT ![m] = s]
  /\ UNCHANGED redis
  /\ Arrives

\* grant.save(), whatever became of the Grant since it was read.
SaveGrant(r) ==
  /\ Goto(r, "saveGrant", "setTokens")
  /\ Set({<<"Grant", grantOf[r]>>})
  /\ UNCHANGED history

\* setToken of the access token, then of the refresh token: neither leads to
\* the other, and one key <<"idp", account>> stands for both.
SetTokens(r) ==
  /\ Goto(r, "setTokens", "loadGrant")
  /\ Set({<<"idp", account[r]>>})
  /\ UNCHANGED history

\* A browser comes back with its session, which it keeps a copy of.
Visit(v, s) ==
  /\ Goto(v, "idle", "loadGrant")
  /\ <<"Session", s>> \in stored
  /\ account' = [account EXCEPT ![v] = account[s]]
  /\ grantOf' = [grantOf EXCEPT ![v] = s]
  /\ sessionOf' = [sessionOf EXCEPT ![v] = s]
  /\ UNCHANGED redis
  /\ Arrives

\* Without its Grant oidc-provider asks for a login; the session is saved
\* all the same.
LoadGrant(r) ==
  /\ Goto(r, "loadGrant",
          IF <<"Grant", grantOf[r]>> \in stored THEN "code" ELSE "keepSession")
  /\ Reads
  /\ UNCHANGED history

\* forcerLoginSiCompteInexistant: the session is that of an account which the
\* API no longer knows; a login is asked for instead of the code.
ForceLogin(r) ==
  /\ Goto(r, "loadGrant", "keepSession")
  /\ Reads
  /\ UNCHANGED history

\* upsert of a code or of a refresh token, named in the list.
Upsert(r, kind) ==
  /\ stored' = stored \cup {<<kind, r>>}
  /\ list' = [list EXCEPT ![grantOf[r]] = @ \cup {<<kind, r>>}]
  /\ UNCHANGED <<account, grantOf, sessionOf, husks, history>>

UpsertCode(r) == Goto(r, "code", "saveSession") /\ Upsert(r, "code")

\* oidc-provider saves the session of every request, with its index, from
\* the copy that the request has.
SaveSession(r) ==
  /\ Goto(r, "saveSession", "issued") \/ Goto(r, "keepSession", "done")
  /\ Set({"Session", "uid"} \X {sessionOf[r]})
  /\ UNCHANGED history

\* The client presents the code.
Exchange(r) ==
  /\ Goto(r, "issued", IF <<"code", r>> \in stored THEN "grantOfCode" ELSE "done")
  /\ Reads
  /\ Arrives

FindGrant(r) ==
  /\ Goto(r, "grantOfCode", IF <<"Grant", grantOf[r]>> \in stored THEN "consume" ELSE "done")
  /\ Reads
  /\ UNCHANGED history

\* An HSET, which makes the key again when the code was deleted meanwhile.
Consume(r) ==
  /\ Goto(r, "consume", "token")
  /\ husks' = husks \cup ({<<"code", r>>} \ stored)
  /\ UNCHANGED <<account, grantOf, sessionOf, stored, list, history>>

UpsertToken(r) == Goto(r, "token", "done") /\ Upsert(r, "token")

---------------------------------------------------------------------------
(* Failures and expiry *)

\* Any request may fail at any await.
Fail(r) ==
  /\ pc[r] \notin {"idle", "issued", "done"}
  /\ Goto(r, pc[r], "done")
  /\ Reads
  /\ UNCHANGED history

\* IdP tokens reach the end of their TTL.
Expire(k) ==
  /\ k \in stored \cap IdpKeys \cap Expiring
  /\ stored' = stored \ {k}
  /\ UNCHANGED <<requestVars, list, husks, history>>

\* A list reaches the end of its TTL, which may be before that of a token it
\* names: upsert reads the TTL before the transaction that sets it, and takes
\* for the shortest of all that of a list which has none.
ListLapses(g) ==
  /\ <<"list", g>> \in Expiring /\ list[g] # {}
  /\ list' = [list EXCEPT ![g] = {}]
  /\ orphans' = orphans \cup ((targets \cap list[g]) \ names)
  /\ UNCHANGED <<requestVars, stored, husks, targets, refused, deleted, reported, quiet, cleared>>

---------------------------------------------------------------------------
(* revoquerAcces *)

Named(k) == k \in list[GrantOfToken(k)]

\* trouverObjets begins.
StartScan ==
  /\ phase = "idle"
  /\ phase' = "scan"
  /\ always' = Scannable /\ ever' = Scannable
  /\ targets' = {k \in TokenKeys : Usable(k) /\ IsRevoked(OwnerOf(k))}
  /\ orphans' = {k \in targets' : ~ Named(k)}
  /\ quiet' = ~ Serving
  /\ cleared' = FALSE
  /\ reported' = {}
  /\ UNCHANGED <<requestVars, redis, found, toRead, names, pending, failed, refused, deleted>>

\* Mutated Keep: whoever they belong to.
KeepAll(K) == {k \in K : OwnerOf(k) # None}

\* Those of the keys read that belong to a revoked user.
Keep(K) == {k \in K : IsRevoked(OwnerOf(k))}

\* Mutated EndScan: the loop stops before the cursor is back at 0.
EndScanEarly ==
  /\ phase = "scan"
  /\ \E read \in SUBSET ever : found' = Keep(read)
  /\ always' = {} /\ ever' = {}
  /\ toRead' = {g \in Requests : <<"Grant", g>> \in found'}
  /\ phase' = "lists"
  /\ UNCHANGED <<requestVars, redis, names, pending, failed, history>>

\* The end of the SCAN: it has returned every key that was there all along,
\* and some of the others.  A Grant or Session that could not be read is
\* reported and set aside.
EndScan ==
  /\ phase = "scan"
  /\ \E late \in SUBSET (ever \ always) :
       \E unreadable \in IF "unreadable" \in Faults THEN SUBSET ((always \cup late) \cap ObjectKeys)
                                                   ELSE {{}} :
         /\ found' = Keep((always \cup late) \ unreadable)
         /\ reported' = IF quiet THEN unreadable ELSE {}
         /\ targets' = {k \in targets : <<"Grant", GrantOfToken(k)>> \notin unreadable}
         /\ UNCHANGED orphans
  /\ always' = {} /\ ever' = {}
  /\ toRead' = {g \in Requests : <<"Grant", g>> \in found'}
  /\ phase' = "lists"
  /\ UNCHANGED <<requestVars, redis, names, pending, failed, refused, deleted, quiet, cleared>>

\* lireClesTokensDesGrants, one LRANGE per Grant.
ReadList(g) ==
  /\ phase = "lists" /\ g \in toRead
  /\ names' = names \cup list[g]
  /\ toRead' = toRead \ {g}
  /\ UNCHANGED <<requestVars, redis, phase, found, pending, failed, seen, history>>

Grants(K) == {k \in K : k[1] = "Grant"}

\* Mutated Rest: the index of a session is named after its key, not its uid.
RestIndexedByKey ==
  names \cup {k \in found : k[1] # "Grant"}
        \cup {k \in Lists : <<"Grant", k[2]>> \in found}
        \cup {<<"uid", s>> : s \in {k \in found : k[1] = "Session"}}

\* Mutated Rest: the tokens of the Grants are left to their TTL.
RestWithoutTokens ==
  {k \in found : k[1] # "Grant"}
        \cup {k \in Lists : <<"Grant", k[2]>> \in found}
        \cup {<<"uid", k[2]>> : k \in {s \in found : s[1] = "Session"}}

\* clesASupprimer.
Rest ==
  names \cup {k \in found : k[1] # "Grant"}
        \cup {k \in Lists : <<"Grant", k[2]>> \in found}
        \cup {<<"uid", k[2]>> : k \in {s \in found : s[1] = "Session"}}

\* With --execute, the Grants first.
DeleteGrants ==
  /\ phase = "lists" /\ toRead = {}
  /\ phase' = "grants"
  /\ pending' = Grants(found)
  /\ UNCHANGED <<requestVars, redis, found, toRead, names, failed, seen, history>>

\* supprimer sends the DELs in the order of its array: the tokens, the
\* lists, the sessions with their indexes, the IdP tokens.
Rank(k) == CASE k[1] \in {"code", "token"} -> 1
             [] k[1] = "list" -> 2
             [] k[1] \in {"Session", "uid"} -> 3
             [] OTHER -> 4

Del(k) ==
  /\ phase \in {"grants", "rest"}
  /\ k \in pending /\ \A other \in pending : Rank(k) <= Rank(other)
  /\ pending' = pending \ {k}
  /\ \/ /\ stored' = stored \ {k}
        /\ husks' = husks \ {k}
        /\ list' = [g \in Requests |-> IF k = <<"list", g>> THEN {} ELSE list[g]]
        /\ UNCHANGED failed
     \/ /\ "redis" \in Faults
        /\ failed' = TRUE
        /\ UNCHANGED redis
  /\ UNCHANGED <<requestVars, phase, found, toRead, names, seen, history>>

\* A login has read this Grant before its deletion, and saves it again.
SavedAgain(g) ==
  \/ <<"Grant", g>> \in stored
  \/ \E r \in Requests : pc[r] = "saveGrant" /\ grantOf[r] = g

\* The rest, if all the Grants were deleted.
DeleteRest ==
  /\ phase = "grants" /\ pending = {} /\ ~ failed
  /\ phase' = "rest"
  /\ pending' = Rest
  /\ refused' = refused \cup {k \in targets : ~ SavedAgain(GrantOfToken(k))}
  /\ UNCHANGED <<requestVars, redis, found, toRead, names, failed, seen, targets, orphans,
                 deleted, reported, quiet, cleared>>

\* The memory of the process goes with it.
Stops ==
  /\ phase' = "idle"
  /\ found' = {} /\ toRead' = {} /\ names' = {} /\ pending' = {} /\ failed' = FALSE
  /\ always' = {} /\ ever' = {}
  /\ targets' = {} /\ orphans' = {}
  /\ quiet' = FALSE
  /\ UNCHANGED <<requestVars, redis, refused>>

\* The bilan is printed.
End ==
  /\ phase = "rest" /\ pending = {} /\ ~ failed
  /\ deleted' = deleted \cup (targets \ orphans)
  /\ cleared' = quiet
  /\ UNCHANGED reported
  /\ Stops

\* Without --execute the script ends where the deletions would begin; an
\* error throws at the end of its pipeline; the process may be killed.
Interrupt ==
  /\ \/ phase = "lists" /\ toRead = {}
     \/ phase \in {"grants", "rest"} /\ pending = {} /\ failed
     \/ phase # "idle" /\ "interrupt" \in Faults
  /\ reported' = {}
  /\ UNCHANGED <<deleted, cleared>>
  /\ Stops

---------------------------------------------------------------------------
RequestStep ==
  \/ \E r \in Requests, a \in Accounts : Login(r, a)
  \/ \E r \in Relogins, s \in Requests : Relogin(r, s)
  \/ \E r, s \in Requests : Visit(r, s)
  \/ \E r \in Requests :
       \/ SaveGrant(r) \/ SetTokens(r) \/ LoadGrant(r) \/ ForceLogin(r) \/ UpsertCode(r) \/ SaveSession(r)
       \/ Exchange(r) \/ FindGrant(r) \/ Consume(r) \/ UpsertToken(r) \/ Fail(r)

\* What SCAN sees of the others' writes.
Watch ==
  /\ always' = always \cap stored'
  /\ ever' = IF phase = "scan" THEN ever \cup Scannable' ELSE {}

ScriptStep ==
  \/ StartScan \/ EndScan \/ (\E g \in Requests : ReadList(g))
  \/ DeleteGrants \/ DeleteRest \/ (\E k \in Keys \cup Lists : Del(k))
  \/ End \/ Interrupt

Next ==
  \/ RequestStep /\ Watch /\ UNCHANGED script
  \/ ((\E k \in IdpKeys : Expire(k)) \/ (\E g \in Requests : ListLapses(g)))
     /\ Watch /\ UNCHANGED script
  \/ ScriptStep

Spec == Init /\ [][Next]_vars

---------------------------------------------------------------------------
(* Properties *)

\* The codes and refresh tokens that a revoked user could use when a run
\* began, and whose list was still there when the run read it, have lost their
\* payload for good once that run has ended without error, whatever was being
\* served or written back meanwhile, and whatever earlier runs were
\* interrupted ("supprime tous les objets du sub").  A token whose list had
\* lapsed, or was deleted by a run that failed to delete the token, stays in
\* Redis: SurvivorsAreRefused is about these too.
RevokedForGood == \A k \in deleted : k \notin stored

\* Once a run has deleted the Grants, nothing that such a user could use when
\* the run began, its list gone or not, is accepted again, even if the run is
\* interrupted ("sans lui oidc-provider refuse tout refresh, meme si un
\* RefreshToken survit") and whoever comes back afterwards: only a login that
\* had read the Grant before the deletion can bring it back.
SurvivorsAreRefused == \A k \in refused : ~ Usable(k)

\* After a run during which nothing was served, and until something is, a new
\* run finds no Grant, no Session and no IdP token of the revoked users, but
\* for the keys reported as unreadable ("relancer le dry-run doit afficher
\* Grants : 0, sessions : 0, tokens IdP : 0"): also after interrupted runs.
RerunFindsNothing == cleared => Keep(Scannable) \subseteq reported

\* What Redis holds of an account.
HoldingsOf(a) ==
  <<{k \in stored : OwnerOf(k) = a}, {k \in husks : OwnerOf(k) = a},
    {<<g, list[g]>> : g \in {l \in Requests : account[l] = a}}>>

\* The script takes nothing from the users that are not in its list.
OthersAreLeftAlone ==
  [][ScriptStep => \A a \in Accounts : ~ IsRevoked(a) => HoldingsOf(a)' = HoldingsOf(a)]_vars
===========================================================================
