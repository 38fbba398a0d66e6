-------------------------- MODULE AccountRouting --------------------------
(***************************************************************************)
(* Which identity provider serves whom.  Tables written in four places     *)
(* have to agree on every (type, structure) of user:                       *)
(*   - interactions.url (src/oidc-provider/oidc.service.ts): the hint of   *)
(*     /authorize chooses a connector;                                     *)
(*   - the connectors (the services of src/idp): one type, one structure,  *)
(*     hence one IdP each;                                                 *)
(*   - getIdpConfigIdentifier (src/idp/service/helpers.ts): where the      *)
(*     stored tokens of an account are refreshed;                          *)
(*   - profilDeStructure (src/domain/user.ts): how an account is named to  *)
(*     the API.                                                            *)
(* A few users, enrolled by the API or not, log in, each by the connector  *)
(* of a hint and under the structure the API answers or, without           *)
(* conseiller, the one that France Travail's statut gives them; then the   *)
(* JWT of one is verified (src/token/verify-jwt.usecase.ts) and exchanged  *)
(* for the IdP token of its own account or, by delegation, of another one. *)
(***************************************************************************)
EXTENDS Naturals, Sequences, FiniteSets

CONSTANTS
  Parts,          \* what stands between two separators of an account id
  Subs,           \* identifiers of users at their IdP
  codeStatutIndividu, \* what France Travail answers of a user, if it answers
  Keys,           \* the keys that have signed a JWT
  KeyLists,       \* the lists of keys, of which the first one signs, that the
                  \* service has been deployed with
  MaxAccounts     \* bound on the accounts that the API enrols, and that log in

\* A string is the sequence of what stands between its separators "|", so that
\* split is the identity and join the concatenation.  Nothing keeps a sub from
\* containing a separator.
ASSUME SubAssumption == Subs \subseteq Seq(Parts) \ {<<>>}
ASSUME StatutAssumption == codeStatutIndividu \in [Subs -> {"1", "0", "absent"}]
ASSUME KeyAssumption == KeyLists \subseteq Seq(Keys) \ {<<>>}

Types == {"JEUNE", "CONSEILLER"}

\* The structures of France Travail that a conseiller or a jeune may have,
\* those of the jeunes without conseiller, and the others.
Accompagnes    == {"FRANCE_TRAVAIL", "POLE_EMPLOI_CEJ", "POLE_EMPLOI_BRSA", "POLE_EMPLOI_AIJ",
                   "AVENIR_PRO", "FT_ACCOMPAGNEMENT_INTENSIF", "FT_ACCOMPAGNEMENT_GLOBAL",
                   "FT_EQUIP_EMPLOI_RECRUT"}
NonAccompagnes == {"FT_DEMANDEUR_D_EMPLOI", "FT_ESPACE_CANDIDAT"}
Structures     == Accompagnes \cup NonAccompagnes \cup {"MILO", "CONSEIL_DEPT", "INVITE"}

Accounts == [type : Types, structure : Structures, sub : Subs]

estFT(structure) == structure \in Accompagnes \cup NonAccompagnes

estJeuneFTConnect(type, structure) ==
  type = "JEUNE" /\ (estFT(structure) \/ structure = "CONSEIL_DEPT")

estConseillerDept(type, structure) == type = "CONSEILLER" /\ structure = "CONSEIL_DEPT"

---------------------------------------------------------------------------
(* domain/account.ts *)

\* The type, the structure and the sub, joined by "|".
fromAccountToAccountId(a) == <<a.type, a.structure>> \o a.sub

\* Of the parts of an id: the third one, be it the whole sub or the beginning
\* of a sub that contains a separator.
getTypeFromAccountId(id)      == id[1]
getStructureFromAccountId(id) == id[2]
getSubFromAccountId(id)       == <<id[3]>>

HasNoSeparator(sub) == Len(sub) = 1

\* What getSubFromAccountId may answer.
ReadSubs == Subs \cup {<<p>> : p \in Parts}

fromAccountIdToAccount(id) ==
  [type |-> getTypeFromAccountId(id),
   structure |-> getStructureFromAccountId(id),
   sub |-> getSubFromAccountId(id)]

---------------------------------------------------------------------------
(* domain/user.ts *)

Dispositif == [s \in (Accompagnes \cup NonAccompagnes) \ {"FRANCE_TRAVAIL"} |->
  CASE s = "POLE_EMPLOI_CEJ" -> "CEJ"
    [] s = "POLE_EMPLOI_BRSA" -> "BRSA"
    [] s = "POLE_EMPLOI_AIJ" -> "AIJ"
    [] s = "AVENIR_PRO" -> "AVENIR_PRO"
    [] s = "FT_ACCOMPAGNEMENT_INTENSIF" -> "ACCOMPAGNEMENT_INTENSIF"
    [] s = "FT_ACCOMPAGNEMENT_GLOBAL" -> "ACCOMPAGNEMENT_GLOBAL"
    [] s = "FT_EQUIP_EMPLOI_RECRUT" -> "EQUIP_EMPLOI_RECRUT"
    [] s = "FT_DEMANDEUR_D_EMPLOI" -> "DEMANDEUR_D_EMPLOI"
    [] s = "FT_ESPACE_CANDIDAT" -> "ESPACE_CANDIDAT"]

\* Mutated profilDeStructure: the dispositif is forgotten.
profilSansDispositif(s) ==
  CASE s = "CONSEIL_DEPT" -> [structure |-> "CONSEIL_DEPARTEMENTAL", dispositif |-> "null"]
    [] s \in {"MILO", "INVITE"} -> [structure |-> s, dispositif |-> "null"]
    [] OTHER -> [structure |-> "FRANCE_TRAVAIL", dispositif |-> "null"]

profilDeStructure(s) ==
  CASE s = "CONSEIL_DEPT" -> [structure |-> "CONSEIL_DEPARTEMENTAL", dispositif |-> "null"]
    [] s \in {"MILO", "INVITE", "FRANCE_TRAVAIL"} -> [structure |-> s, dispositif |-> "null"]
    [] OTHER -> [structure |-> "FRANCE_TRAVAIL", dispositif |-> Dispositif[s]]

---------------------------------------------------------------------------
(* idp/service/helpers.ts *)

NoConfig == "error"

\* Mutated getIdpConfigIdentifier: the jeunes of a conseil departemental
\* are sent where its conseillers are.
configOfConseilDept(t, s) ==
  CASE s = "MILO" -> IF t = "JEUNE" THEN "MILO_JEUNE" ELSE "MILO_CONSEILLER"
    [] s = "CONSEIL_DEPT" -> "CONSEILLER_DEPT"
    [] t = "JEUNE" /\ s \notin {"MILO", "CONSEIL_DEPT", "INVITE"} -> "FT_JEUNE"
    [] t = "CONSEILLER" /\ s \in Accompagnes -> "FT_CONSEILLER"
    [] OTHER -> NoConfig

\* The IdP of an account, or an error.
getIdpConfigIdentifier(t, s) ==
  CASE s = "MILO" -> IF t = "JEUNE" THEN "MILO_JEUNE" ELSE "MILO_CONSEILLER"
    [] t = "JEUNE" /\ s \notin {"MILO", "INVITE"} -> "FT_JEUNE"
    [] t = "CONSEILLER" /\ s = "CONSEIL_DEPT" -> "CONSEILLER_DEPT"
    [] t = "CONSEILLER" /\ s \in Accompagnes -> "FT_CONSEILLER"
    [] OTHER -> NoConfig

---------------------------------------------------------------------------
(* Connectors: each IdpService has one type, one structure, one IdP *)

MiloJeuneService               == [type |-> "JEUNE", structure |-> "MILO"]
MiloConseillerService          == [type |-> "CONSEILLER", structure |-> "MILO"]
FrancetravailJeuneService      == [type |-> "JEUNE", structure |-> "FRANCE_TRAVAIL"]
FrancetravailConseillerService == [type |-> "CONSEILLER", structure |-> "FRANCE_TRAVAIL"]
ConseilDepartementalConseillerService == [type |-> "CONSEILLER", structure |-> "CONSEIL_DEPT"]

Connectors ==
  [milo_jeune               |-> MiloJeuneService,
   milo_conseiller          |-> MiloConseillerService,
   francetravail_jeune      |-> FrancetravailJeuneService,
   francetravail_conseiller |-> FrancetravailConseillerService,
   conseildepartemental_conseiller |-> ConseilDepartementalConseillerService]

Issuer(c) == getIdpConfigIdentifier(Connectors[c].type, Connectors[c].structure)

Hints == {"none", "unknown", "invite", "similo-jeune", "similo-conseiller", "pe-jeune",
          "pe-brsa-jeune", "pe-aij-jeune", "ft-beneficiaire", "ft-conseiller",
          "conseildepartemental-conseiller"}

\* interactions.url: the page a hint leads to.  No controller of the
\* repository serves /choice: the login stops there.
InteractionUrl(hint) ==
  CASE hint = "invite" -> "invite"
    [] hint = "similo-jeune" -> "milo_jeune"
    [] hint = "similo-conseiller" -> "milo_conseiller"
    [] hint \in {"pe-jeune", "pe-brsa-jeune", "pe-aij-jeune", "ft-beneficiaire"} ->
         "francetravail_jeune"
    [] hint = "ft-conseiller" -> "francetravail_conseiller"
    [] hint = "conseildepartemental-conseiller" -> "conseildepartemental_conseiller"
    [] OTHER -> "choice"

\* The structures the API answers at a connector: the connector's own but for
\* France Travail, where it answers the dispositif of the user.  A jeune of a
\* conseil departemental or without conseiller logs in there too.  The type
\* it answers is the one it was given.
ApiStructures(c) ==
  CASE c = "francetravail_jeune" -> Accompagnes \cup NonAccompagnes \cup {"CONSEIL_DEPT"}
    [] c = "francetravail_conseiller" -> Accompagnes
    [] OTHER -> {Connectors[c].structure}

---------------------------------------------------------------------------
VARIABLES
  modeNonAccompagneActif, \* configuration: ftJeuneModeNonAccompagneActif
  directory,  \* the accounts that the API knows
  page,       \* where the browser is
  login,      \* the callback being served
  accounts,   \* the accounts that logged in
  tokens,     \* the IdP tokens stored: under which account, issued by whom
  checked,    \* the JWT that a token exchange has just verified
  exchange    \* the token exchange: who asks, for whom, whose token it reads

config   == <<modeNonAccompagneActif>>
stored   == <<accounts, tokens>>
answered == <<checked, exchange>>
vars     == <<config, directory, page, login, stored, answered>>

\* A request or a login without a sub.
NoSub == <<>>

NoLogin    == [step |-> "none", sub |-> NoSub, structure |-> "none"]
NoCheck    == [code |-> "none"]
NoExchange == [subject |-> "none"]

Codes == {"valid", "JWTExpired", "ERR_JWT_EXPIRED", "ERR_JWS_SIGNATURE_VERIFICATION_FAILED"}
Ends  == {"future", "past", "none"}

TypeOK ==
  /\ modeNonAccompagneActif \in BOOLEAN
  /\ directory \subseteq Accounts
  /\ page \in {"client", "choice", "invite", "error"} \cup DOMAIN Connectors
  /\ login \in {NoLogin}
       \cup [step : {"putUser", "resolve", "putAgain"}, sub : Subs,
             structure : NonAccompagnes \cup {"none"}]
  /\ accounts \subseteq Accounts
  /\ tokens \subseteq [account : Accounts, idp : {Issuer(c) : c \in DOMAIN Connectors}]
  /\ checked \in {NoCheck}
       \cup [account : accounts, key : Keys, exp : Ends, jwks : KeyLists, code : Codes]
  /\ exchange \in {NoExchange}
       \cup [subject : accounts, requested : Subs \cup {NoSub}, asked : Types \cup {""},
             target : [type : Types, structure : Structures, sub : ReadSubs]]

Init ==
  /\ modeNonAccompagneActif \in BOOLEAN
  /\ directory = {}
  /\ page = "client" /\ login = NoLogin
  /\ accounts = {} /\ tokens = {}
  /\ checked = NoCheck /\ exchange = NoExchange

---------------------------------------------------------------------------
(* The API and the browser *)

\* The account that the API knows a user of a connector by.
KnownAt(c, sub) ==
  {a \in directory : a.type = Connectors[c].type /\ a.sub = sub /\ a.structure \in ApiStructures(c)}

\* The API enrols the user of a callback, at any step of it; an earlier
\* enrolment makes no difference.  It enrols nobody without conseiller: that
\* is up to the callback.
Enrol(s) ==
  /\ login # NoLogin
  /\ Cardinality(directory) < MaxAccounts
  /\ s \in ApiStructures(page) \ NonAccompagnes
  /\ KnownAt(page, login.sub) = {}
  /\ directory' = directory
       \cup {[type |-> Connectors[page].type, structure |-> s, sub |-> login.sub]}
  /\ UNCHANGED <<config, page, login, stored, answered>>

\* The API moves that user to another structure, at any step too: the account
\* that it logged in with before, and its tokens, are of the old one.
Move(s) ==
  /\ login # NoLogin
  /\ s \in ApiStructures(page) \ NonAccompagnes
  /\ \E a \in KnownAt(page, login.sub) :
       directory' = (directory \ {a}) \cup {[a EXCEPT !.structure = s]}
  /\ UNCHANGED <<config, page, login, stored, answered>>

Authorize(hint) ==
  /\ page = "client"
  /\ answered = <<NoCheck, NoExchange>>
  /\ Cardinality(accounts) < MaxAccounts
  /\ page' = InteractionUrl(hint)
  /\ UNCHANGED <<config, directory, login, stored, answered>>

\* The page of a login that went wrong, or that no controller serves, is left.
Leave ==
  /\ page \in {"choice", "error"}
  /\ page' = "client"
  /\ UNCHANGED <<config, directory, login, stored, answered>>

---------------------------------------------------------------------------
(* idp.service.ts: the callback of a connector *)

\* The email of a user: that of userinfo, and for a jeune of France Travail
\* the one that France Travail answers, when it does.
Email(c, userinfo, coordonnees) ==
  userinfo \/ (estJeuneFTConnect(Connectors[c].type, Connectors[c].structure) /\ coordonnees)

\* The callback up to putUser: the IdP's token, userinfo, the coordinates, and
\* for a conseiller departemental the verification that it has an email.
Callback(sub, userinfo, coordonnees) ==
  /\ page \in DOMAIN Connectors
  /\ login = NoLogin
  /\ IF estConseillerDept(Connectors[page].type, Connectors[page].structure)
          /\ ~Email(page, userinfo, coordonnees)
       THEN page' = "error" /\ UNCHANGED login
       ELSE login' = [step |-> "putUser", sub |-> sub, structure |-> "none"] /\ UNCHANGED page
  /\ UNCHANGED <<config, directory, stored, answered>>

\* Any step of a callback may fail: redirectFailure.
FailLogin ==
  /\ page \in DOMAIN Connectors
  /\ page' = "error" /\ login' = NoLogin
  /\ UNCHANGED <<config, directory, stored, answered>>

\* Mutated Finish: the tokens are stored under the structure of the connector.
FinishAsConnector(account) ==
  /\ accounts' = accounts \cup {account}
  /\ tokens' = tokens \cup
       {[account |-> [account EXCEPT !.structure = Connectors[page].structure],
         idp |-> Issuer(page)]}
  /\ page' = "client" /\ login' = NoLogin

\* Mutated Finish: the account takes the structure of its profile.
FinishWithProfile(account) ==
  LET a == [account EXCEPT !.structure = profilDeStructure(account.structure).structure]
  IN  /\ accounts' = accounts \cup {a}
      /\ tokens' = tokens \cup {[account |-> a, idp |-> Issuer(page)]}
      /\ page' = "client" /\ login' = NoLogin

\* The account has the type and the structure that the API answers, which for
\* a user of France Travail is seldom the connector's.  Its tokens come from
\* the connector's IdP.
Finish(account) ==
  /\ accounts' = accounts \cup {account}
  /\ tokens' = tokens \cup {[account |-> account, idp |-> Issuer(page)]}
  /\ page' = "client" /\ login' = NoLogin

\* putUser with the profile of the connector.  Of UTILISATEUR_INEXISTANT a
\* connector makes the answer of the callback, but for the one that resolves
\* a structure, if the mode is active.
PutUser ==
  /\ login.step = "putUser"
  /\ \/ \E a \in KnownAt(page, login.sub) : Finish(a)
     \/ /\ KnownAt(page, login.sub) = {}
        /\ modeNonAccompagneActif /\ page = "francetravail_jeune"
        /\ login' = [login EXCEPT !.step = "resolve"]
        /\ UNCHANGED <<page, stored>>
  /\ UNCHANGED <<config, directory, answered>>

\* The users whose statut is that of a demandeur d'emploi.
Demandeurs == {s \in Subs : codeStatutIndividu[s] = "1"}

\* Mutated getStatut: one that is not answered is no "1".
getStatutOrCandidat(sub) == {(sub \in Demandeurs), FALSE}

\* What France Travail may answer: nothing if it fails; an answer without a
\* code is no failure, and is not "1".
getStatut(sub) == {(sub \in Demandeurs)}

\* A failure of getStatut fails the callback (FRANCE_TRAVAIL_INDISPONIBLE).
resoudreStructureNonAccompagne ==
  /\ login.step = "resolve"
  /\ \E estDemandeurEmploi \in getStatut(login.sub) :
       login' = [login EXCEPT !.step = "putAgain", !.structure =
                   IF estDemandeurEmploi THEN "FT_DEMANDEUR_D_EMPLOI" ELSE "FT_ESPACE_CANDIDAT"]
  /\ UNCHANGED <<config, directory, page, stored, answered>>

\* Mutated PutUserAgain: the account is the one resolved, whatever the API
\* answers.
PutUserAgainAsResolved ==
  /\ login.step = "putAgain"
  /\ LET created == [type |-> Connectors[page].type, structure |-> login.structure,
                     sub |-> login.sub]
     IN  /\ Finish(created)
         /\ directory' = IF KnownAt(page, login.sub) = {} THEN directory \cup {created}
                                                          ELSE directory
  /\ UNCHANGED <<config, answered>>

\* putUser with the profile of that structure: the API creates the user,
\* unless it was enrolled meanwhile.
PutUserAgain ==
  /\ login.step = "putAgain"
  /\ LET created == [type |-> Connectors[page].type, structure |-> login.structure,
                     sub |-> login.sub]
         known   == KnownAt(page, login.sub)
     IN  \E a \in IF known = {} THEN {created} ELSE known :
           Finish(a) /\ directory' = directory \cup {a}
  /\ UNCHANGED <<config, answered>>

---------------------------------------------------------------------------
(* invite.service.ts *)

\* The API creates a user under the fresh sub it is given (uuid.v4), who has
\* no IdP and no token.
ConnectInvite(sub) ==
  /\ page = "invite"
  /\ LET guest == [type |-> "JEUNE", structure |-> "INVITE", sub |-> sub]
     IN  /\ \A a \in directory : a.sub # sub
         /\ directory' = directory \cup {guest}
         /\ accounts' = accounts \cup {guest}
  /\ page' = "client"
  /\ UNCHANGED <<config, login, tokens, answered>>

\* The mode is not active (mode_invite_desactive), or the API refuses.
RefuseInvite ==
  /\ page = "invite"
  /\ page' = "error"
  /\ UNCHANGED <<config, directory, login, stored, answered>>

---------------------------------------------------------------------------
(* verify-jwt.usecase.ts *)

\* What a pass of the loop makes of a JWT.  jwtVerify throws when the key did
\* not sign it or when it has expired, and the loop goes on; isExpired
\* refuses one without end, which jwtVerify lets through.
Verify(key, jwt) ==
  CASE jwt.key # key -> "ERR_JWS_SIGNATURE_VERIFICATION_FAILED"
    [] jwt.key = key /\ jwt.exp = "past" -> "ERR_JWT_EXPIRED"
    [] jwt.key = key /\ jwt.exp = "none" -> "JWTExpired"
    [] OTHER -> "valid"

Returns(key, jwt) == Verify(key, jwt) \in {"valid", "JWTExpired"}

\* Mutated ValidateJWT: the key that signs is the only one tried.
ValidateWithSigningKey(jwt, jwks) == {Verify(Head(jwks), jwt)}

\* The answer, as a set: that of the first pass that returns, or else the code
\* of the last key.
ValidateJWT(jwt, jwks) ==
  LET ends(i) == /\ Returns(jwks[i], jwt) \/ i = Len(jwks)
                 /\ \A j \in 1..i - 1 : ~Returns(jwks[j], jwt)
  IN  {Verify(jwks[i], jwt) : i \in {i \in DOMAIN jwks : ends(i)}}

---------------------------------------------------------------------------
(* token-exchange.grant.ts *)

\* findAccount: the claims userType and userStructure are read back from the
\* account id, which is the sub of the JWT.
Claims(account) ==
  LET id == fromAccountToAccountId(account)
  IN  [sub |-> id, userType |-> getTypeFromAccountId(id),
       userStructure |-> getStructureFromAccountId(id)]

\* The query of getUser, GET /auth/users/:sub.
getUser(account) ==
  [sub |-> account.sub, typeUtilisateur |-> account.type,
   profil |-> profilDeStructure(account.structure)]

\* What findAccount asks the API for, given the id of an account.
FindAccount(account) == getUser(fromAccountIdToAccount(fromAccountToAccountId(account)))

OtherType(type) == IF type = "CONSEILLER" THEN "JEUNE" ELSE "CONSEILLER"

\* Mutated Target: a delegation keeps the type of the caller.
TargetOwnType(claims, requested, requestedType) ==
  [type |-> IF requested = NoSub \/ requestedType = "" THEN claims.userType ELSE requestedType,
   structure |-> claims.userStructure,
   sub |-> IF requested # NoSub THEN requested ELSE getSubFromAccountId(claims.sub)]

\* The account whose token is asked for: the subject's own, or that of the
\* requested sub, in the subject's structure, of the requested type or else
\* of the other type.
Target(claims, requested, requestedType) ==
  [type |-> CASE requested = NoSub -> claims.userType
              [] requested # NoSub /\ requestedType = "" -> OtherType(claims.userType)
              [] OTHER -> requestedType,
   structure |-> claims.userStructure,
   sub |-> IF requested # NoSub THEN requested ELSE getSubFromAccountId(claims.sub)]

\* The JWT of an account comes, signed by any key that was ever deployed, to
\* the service deployed with any list.  If it is not valid: InvalidGrant.
VerifySubjectToken(account, key, exp, jwks) ==
  /\ page = "client"
  /\ answered = <<NoCheck, NoExchange>>
  /\ \E code \in ValidateJWT([key |-> key, exp |-> exp], jwks) :
       checked' = [account |-> account, key |-> key, exp |-> exp, jwks |-> jwks, code |-> code]
  /\ UNCHANGED <<config, directory, page, login, stored, exchange>>

\* The rest of the handler, for the claims of the JWT.
TokenExchange(requested, requestedType) ==
  /\ checked.code = "valid"
  /\ exchange' = [subject |-> checked.account, requested |-> requested, asked |-> requestedType,
                  target |-> Target(Claims(checked.account), requested, requestedType)]
  /\ checked' = NoCheck
  /\ UNCHANGED <<config, directory, page, login, stored>>

---------------------------------------------------------------------------
LoginStep ==
  \/ \E sub \in Subs, userinfo, coordonnees \in BOOLEAN : Callback(sub, userinfo, coordonnees)
  \/ PutUser \/ resoudreStructureNonAccompagne \/ PutUserAgain \/ FailLogin
  \/ \E sub \in Subs : ConnectInvite(sub)
  \/ RefuseInvite

ExchangeStep ==
  \/ \E account \in accounts, key \in Keys, exp \in Ends, jwks \in KeyLists :
       VerifySubjectToken(account, key, exp, jwks)
  \/ \E requested \in Subs \cup {NoSub}, type \in Types \cup {""} : TokenExchange(requested, type)

Next ==
  \/ \E s \in Structures : Enrol(s) \/ Move(s)
  \/ \E hint \in Hints : Authorize(hint)
  \/ Leave
  \/ LoginStep
  \/ ExchangeStep

Spec == Init /\ [][Next]_vars

---------------------------------------------------------------------------
(* Properties *)

\* A stored token is refreshed at the IdP that issued it: the IdP chosen at
\* login by the connector (its type and structure) is the one chosen at
\* refresh by the account (its type and the structure the API answered).
RefreshedWhereIssued ==
  \A t \in tokens :
    t.idp # NoConfig /\ t.idp = getIdpConfigIdentifier(t.account.type, t.account.structure)

\* An account that logged in by an IdP and exchanges its JWT for itself asks
\* for tokens that its login stored: the account id written by the login is
\* the one rebuilt from the claims, provided that its own sub contains no
\* separator, whatever the subs of the others.  (One that does is truncated:
\* its exchange asks for the tokens of another sub.)
OwnTokensFound ==
  /\ exchange # NoExchange /\ exchange.requested = NoSub
  /\ exchange.subject.structure # "INVITE" /\ HasNoSeparator(exchange.subject.sub)
  => \E t \in tokens : t.account = exchange.target

\* A delegation without requested_sub_type reaches the tokens of the user of
\* the other type: whoever of the caller's structure logged in with the
\* requested sub, by whichever connector, is the target.
DelegationFindsTokens ==
  exchange # NoExchange /\ exchange.requested # NoSub /\ exchange.asked = "" =>
    \A t \in tokens :
      /\ t.account.sub = exchange.requested
      /\ t.account.structure = exchange.subject.structure
      /\ t.account.type # exchange.subject.type
      => t.account = exchange.target

\* findAccount reads the account back from its id, and getUser asks the API
\* by its type, sub and profile: no two accounts that logged in, with subs
\* that contain no separator, are asked for in the same words, so findAccount
\* never answers one of them with the user of the other.
ProfilesIdentifyAccounts ==
  \A a, b \in {c \in accounts : HasNoSeparator(c.sub)} : FindAccount(a) = FindAccount(b) => a = b

\* A login is that of a user whom the API has: the account that the callback makes of the connector, the sub and
\* the API's answers is one that the API has, also when it enrols the user in
\* the middle of the callback, or moves it.
LoginsAreKnown == [][accounts' \ accounts \subseteq directory']_vars

\* A user is taken without conseiller only if the mode is active, as a jeune
\* of France Travail, and under the structure of its statut, an answer without
\* code being taken for that of an espace candidat: a statut that cannot be
\* read enrols nobody (RAISON_FRANCE_TRAVAIL_INDISPONIBLE).
NonAccompagneByStatut ==
  \A a \in directory : a.structure \in NonAccompagnes =>
    /\ modeNonAccompagneActif /\ a.type = "JEUNE"
    /\ a.structure = "FT_DEMANDEUR_D_EMPLOI" <=> a.sub \in Demandeurs

\* A JWT is accepted exactly when a key of the configuration signed it, be it
\* one that does not sign any more, and its end is to come: neither the order
\* of the keys nor the error of one of them changes the answer.
ValidationIsExact ==
  checked # NoCheck =>
    (checked.code = "valid"
      <=> /\ checked.exp = "future"
          /\ \E i \in DOMAIN checked.jwks : checked.jwks[i] = checked.key)
===========================================================================
