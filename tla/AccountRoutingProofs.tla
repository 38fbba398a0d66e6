------------------------ MODULE AccountRoutingProofs ------------------------
(***************************************************************************)
(* AccountRouting for any set of users and any number of accounts.  The    *)
(* tables are finite, so what relates two of them is a lemma by cases; the *)
(* invariants then follow the account from its login to its exchange.      *)
(***************************************************************************)
EXTENDS AccountRouting, TLAPS

\* What a connector can log in: a type, a structure and an IdP that agree
\* with the table of refreshes, and no guest.
LEMMA ConnectorsAgree ==
  ASSUME NEW c \in DOMAIN Connectors, NEW s \in ApiStructures(c)
  PROVE  /\ Connectors[c].type \in Types
         /\ s \in Structures \ {"INVITE"}
         /\ Issuer(c) # NoConfig
         /\ getIdpConfigIdentifier(Connectors[c].type, s) = Issuer(c)
<1>1. c \in {"milo_jeune", "milo_conseiller", "francetravail_jeune",
             "francetravail_conseiller", "conseildepartemental_conseiller"}
  BY DEF Connectors
<1>2. CASE c = "milo_jeune"
  BY <1>2 DEF Connectors, MiloJeuneService, ApiStructures, Issuer,
    getIdpConfigIdentifier, NoConfig, Types, Structures, Accompagnes, NonAccompagnes
<1>3. CASE c = "milo_conseiller"
  BY <1>3 DEF Connectors, MiloConseillerService, ApiStructures, Issuer,
    getIdpConfigIdentifier, NoConfig, Types, Structures, Accompagnes, NonAccompagnes
<1>4. CASE c = "francetravail_jeune"
  BY <1>4 DEF Connectors, FrancetravailJeuneService, ApiStructures, Issuer,
    getIdpConfigIdentifier, NoConfig, Types, Structures, Accompagnes, NonAccompagnes
<1>5. CASE c = "francetravail_conseiller"
  BY <1>5 DEF Connectors, FrancetravailConseillerService, ApiStructures, Issuer,
    getIdpConfigIdentifier, NoConfig, Types, Structures, Accompagnes, NonAccompagnes
<1>6. CASE c = "conseildepartemental_conseiller"
  BY <1>6 DEF Connectors, ConseilDepartementalConseillerService, ApiStructures, Issuer,
    getIdpConfigIdentifier, NoConfig, Types, Structures, Accompagnes, NonAccompagnes
<1> QED BY <1>1, <1>2, <1>3, <1>4, <1>5, <1>6

\* A sub has a first part, which is the whole of it if it has no separator.
LEMMA FirstPart ==
  ASSUME NEW sub \in Subs
  PROVE  /\ sub \in Seq(Parts) /\ sub[1] \in Parts /\ Len(sub) \in Nat \ {0}
         /\ HasNoSeparator(sub) => <<sub[1]>> = sub
<1>1. sub \in Seq(Parts) /\ sub # <<>>
  BY SubAssumption
<1>2. Len(sub) \in Nat \ {0} /\ sub[1] \in Parts
  BY <1>1
<1>3. ASSUME Len(sub) = 1 PROVE <<sub[1]>> = sub
  BY <1>1, <1>3
<1> QED BY <1>1, <1>2, <1>3 DEF HasNoSeparator

\* What is read back from an account id: the type, the structure, and the
\* first part of the sub (domain/account.ts).
LEMMA ReadBack ==
  ASSUME NEW a \in Accounts
  PROVE  LET id == fromAccountToAccountId(a)
         IN  /\ getTypeFromAccountId(id) = a.type
             /\ getStructureFromAccountId(id) = a.structure
             /\ getSubFromAccountId(id) = <<a.sub[1]>>
             /\ getSubFromAccountId(id) \in ReadSubs
             /\ HasNoSeparator(a.sub) => getSubFromAccountId(id) = a.sub
<1> DEFINE id == fromAccountToAccountId(a)
           Any == Types \cup Structures \cup Parts
<1>1. a.type \in Any /\ a.structure \in Any /\ a.sub \in Subs
  BY DEF Accounts
<1>2. a.sub \in Seq(Parts) /\ a.sub[1] \in Parts /\ Len(a.sub) \in Nat \ {0}
  BY <1>1, FirstPart
<1>3. a.sub \in Seq(Any)
  BY <1>2
<1>4. <<a.type, a.structure>> \in Seq(Any)
  BY <1>1
<1> HIDE DEF Any
<1>5. id[1] = a.type /\ id[2] = a.structure /\ id[3] = a.sub[1]
  BY <1>2, <1>3, <1>4 DEF fromAccountToAccountId
<1> QED BY <1>1, <1>2, <1>5, FirstPart DEF getTypeFromAccountId, getStructureFromAccountId,
  getSubFromAccountId, ReadSubs

\* An account id gives its parts back if the sub contains no separator.
LEMMA AccountIdRoundTrip ==
  ASSUME NEW a \in Accounts
  PROVE  /\ Claims(a).userType = a.type
         /\ Claims(a).userStructure = a.structure
         /\ getSubFromAccountId(Claims(a).sub) \in ReadSubs
         /\ HasNoSeparator(a.sub) => getSubFromAccountId(Claims(a).sub) = a.sub
BY ReadBack DEF Claims

\* The target of an exchange: an account, but for a sub that was cut.
LEMMA TargetType ==
  ASSUME NEW a \in Accounts, NEW requested \in Subs \cup {NoSub}, NEW asked \in Types \cup {""}
  PROVE  Target(Claims(a), requested, asked)
           \in [type : Types, structure : Structures, sub : ReadSubs]
<1>1. a.type \in Types /\ a.structure \in Structures
  BY DEF Accounts
<1>2. OtherType(a.type) \in Types
  BY <1>1 DEF OtherType, Types
<1>3. requested # NoSub => requested \in ReadSubs
  BY DEF ReadSubs
<1> QED BY <1>1, <1>2, <1>3, AccountIdRoundTrip DEF Target

\* Without a requested sub the target is the subject itself, if its sub
\* contains no separator.
LEMMA OwnTarget ==
  ASSUME NEW a \in Accounts, HasNoSeparator(a.sub), NEW asked
  PROVE  Target(Claims(a), NoSub, asked) = a
BY AccountIdRoundTrip DEF Target, Accounts

\* With a requested sub and no requested type, it is the account of that sub,
\* of the other type, in the same structure.
LEMMA DelegationTarget ==
  ASSUME NEW a \in Accounts, NEW b \in Accounts,
         b.sub # NoSub, b.structure = a.structure, b.type # a.type
  PROVE  Target(Claims(a), b.sub, "") = b
<1>1. OtherType(a.type) = b.type
  BY DEF OtherType, Accounts, Types
<1> QED BY <1>1, AccountIdRoundTrip DEF Target, Accounts

\* Two structures never have the same profile.
LEMMA ProfilesAreDistinct ==
  ASSUME NEW s \in Structures, NEW t \in Structures,
         profilDeStructure(s) = profilDeStructure(t)
  PROVE  s = t
<1> DEFINE Own == {"CONSEIL_DEPT", "MILO", "INVITE", "FRANCE_TRAVAIL"}
<1>1. \A u \in Own :
        profilDeStructure(u) =
          [structure |-> IF u = "CONSEIL_DEPT" THEN "CONSEIL_DEPARTEMENTAL" ELSE u,
           dispositif |-> "null"]
  BY DEF profilDeStructure
<1>2. \A u \in Structures \ Own :
        /\ profilDeStructure(u) = [structure |-> "FRANCE_TRAVAIL", dispositif |-> Dispositif[u]]
        /\ u \in (Accompagnes \cup NonAccompagnes) \ {"FRANCE_TRAVAIL"}
        /\ Dispositif[u] # "null"
  BY DEF profilDeStructure, Structures, Accompagnes, NonAccompagnes, Dispositif
<1>3. \A u, v \in (Accompagnes \cup NonAccompagnes) \ {"FRANCE_TRAVAIL"} :
        Dispositif[u] = Dispositif[v] => u = v
  BY DEF Accompagnes, NonAccompagnes, Dispositif
<1>4. CASE s \in Own /\ t \in Own
  BY <1>1, <1>4
<1>5. CASE s \in Own /\ t \notin Own
  BY <1>1, <1>2, <1>5
<1>6. CASE s \notin Own /\ t \in Own
  BY <1>1, <1>2, <1>6
<1>7. CASE s \notin Own /\ t \notin Own
  BY <1>2, <1>3, <1>7
<1> QED BY <1>4, <1>5, <1>6, <1>7

\* What ValidateJWT answers for any list of keys.
LEMMA ValidateJWTIsExact ==
  ASSUME NEW key \in Keys, NEW exp \in Ends, NEW jwks \in KeyLists,
         NEW code \in ValidateJWT([key |-> key, exp |-> exp], jwks)
  PROVE  /\ code \in Codes
         /\ code = "valid" <=> exp = "future" /\ \E i \in DOMAIN jwks : jwks[i] = key
<1> DEFINE jwt == [key |-> key, exp |-> exp]
<1>1. jwks \in Seq(Keys) /\ jwks # <<>>
  BY KeyAssumption
<1>2. DOMAIN jwks = 1..Len(jwks) /\ Len(jwks) \in Nat \ {0}
  BY <1>1
<1>3. jwt.key = key /\ jwt.exp = exp
  OBVIOUS
<1> HIDE DEF jwt
<1>4. \A i \in DOMAIN jwks :
        /\ Verify(jwks[i], jwt) \in Codes
        /\ Verify(jwks[i], jwt) = "valid" <=> jwks[i] = key /\ exp = "future"
  BY <1>3 DEF Verify, Codes, Ends
<1>5. PICK i \in DOMAIN jwks :
        /\ code = Verify(jwks[i], jwt)
        /\ Returns(jwks[i], jwt) \/ i = Len(jwks)
        /\ \A j \in 1..i - 1 : ~Returns(jwks[j], jwt)
  BY DEF ValidateJWT, jwt
<1>6. ASSUME exp = "future", NEW j \in DOMAIN jwks, jwks[j] = key
      PROVE  Verify(jwks[i], jwt) = "valid"
  <2>1. \A k \in DOMAIN jwks : Returns(jwks[k], jwt) <=> jwks[k] = key
    BY <1>3, <1>6 DEF Verify, Returns
  <2>2. ~(j < i)
    BY <1>2, <1>5, <1>6, <2>1
  <2>3. jwks[i] = key
    BY <1>2, <1>5, <1>6, <2>1, <2>2
  <2> QED BY <1>4, <1>6, <2>3
<1> QED BY <1>4, <1>5, <1>6

---------------------------------------------------------------------------
(* The inductive invariant *)

\* Whoever logged in by an IdP has tokens under its account.
LoginsHaveTokens ==
  \A a \in accounts : a.structure # "INVITE" => \E t \in tokens : t.account = a

\* A callback is that of a connector; the structure of a user without
\* conseiller is being resolved at that of the jeunes of France Travail, if
\* the mode is active.
LoginUnderway ==
  /\ login # NoLogin => page \in DOMAIN Connectors
  /\ login.step \in {"resolve", "putAgain"} =>
       modeNonAccompagneActif /\ page = "francetravail_jeune"
  /\ login.step = "putAgain" =>
       /\ login.structure \in NonAccompagnes
       /\ (login.structure = "FT_DEMANDEUR_D_EMPLOI" <=> login.sub \in Demandeurs)

\* An exchange is for the target that the claims of its subject lead to.
ExchangeOfSubject ==
  exchange # NoExchange =>
    exchange.target = Target(Claims(exchange.subject), exchange.requested, exchange.asked)

IInv ==
  /\ TypeOK
  /\ RefreshedWhereIssued
  /\ LoginsHaveTokens
  /\ LoginUnderway
  /\ NonAccompagneByStatut
  /\ ValidationIsExact
  /\ ExchangeOfSubject

Logins == [step : {"putUser", "resolve", "putAgain"}, sub : Subs,
           structure : NonAccompagnes \cup {"none"}]

\* Nobody has logged in at first.
LEMMA InitIInv == Init => IInv
<1> SUFFICES ASSUME Init PROVE IInv
  OBVIOUS
<1>1. TypeOK
  BY DEF Init, TypeOK
<1>2. LoginUnderway
  BY DEF Init, LoginUnderway, NoLogin
<1> QED BY <1>1, <1>2 DEF Init, IInv, RefreshedWhereIssued, LoginsHaveTokens,
  NonAccompagneByStatut, ValidationIsExact, ExchangeOfSubject

\* A step that changes neither the accounts, nor the tokens, nor the exchange
\* has only the types, the login and the directory to preserve.
LEMMA QuietStep ==
  ASSUME IInv, TypeOK', LoginUnderway', NonAccompagneByStatut', UNCHANGED <<stored, answered>>
  PROVE  IInv'
BY DEF IInv, stored, answered, RefreshedWhereIssued, LoginsHaveTokens, ValidationIsExact,
  ExchangeOfSubject

\* A callback under way, when nothing but its step is known.
LEMMA LoginIsTyped ==
  ASSUME IInv, login.step # "none"
  PROVE  login # NoLogin /\ login \in Logins /\ page \in DOMAIN Connectors
<1>1. login # NoLogin
  <2>1. NoLogin.step = "none"
    BY DEF NoLogin
  <2> QED BY <2>1
<1>2. login \in {NoLogin} \cup Logins
  BY DEF IInv, TypeOK, Logins
<1>3. page \in DOMAIN Connectors
  BY <1>1 DEF IInv, LoginUnderway
<1> QED BY <1>1, <1>2, <1>3

\* What a step of a callback may change has its type.
LEMMA LoginStepType ==
  ASSUME IInv, UNCHANGED <<config, directory, stored, answered>>,
         page' \in {"error"} \cup DOMAIN Connectors,
         login' \in {NoLogin} \cup Logins
  PROVE  TypeOK'
BY DEF IInv, TypeOK, Logins, config, stored, answered

\* The accounts that the API knows at a connector.
LEMMA KnownAccounts ==
  ASSUME IInv, NEW c \in DOMAIN Connectors, NEW sub, NEW a \in KnownAt(c, sub)
  PROVE  /\ a \in Accounts /\ a \in directory
         /\ a.type = Connectors[c].type /\ a.structure \in ApiStructures(c)
BY DEF IInv, TypeOK, KnownAt

\* The structures that the API enrols into.
LEMMA EnrolIInv ==
  ASSUME IInv, NEW s \in Structures, Enrol(s) \/ Move(s)
  PROVE  IInv'
<1>1. page \in DOMAIN Connectors /\ login # NoLogin /\ login.sub \in Subs
  BY DEF IInv, LoginUnderway, Enrol, Move, TypeOK, NoLogin
<1>2. s \in ApiStructures(page) \ NonAccompagnes
  BY DEF Enrol, Move
<1>3. \E b \in Accounts : b.structure = s /\ directory' \subseteq directory \cup {b}
  <2>1. CASE Enrol(s)
    <3> DEFINE b == [type |-> Connectors[page].type, structure |-> s, sub |-> login.sub]
    <3>1. b \in Accounts /\ b.structure = s
      BY <1>1, <1>2, ConnectorsAgree DEF Accounts
    <3> QED BY <2>1, <3>1 DEF Enrol
  <2>2. CASE Move(s)
    <3>1. PICK a \in KnownAt(page, login.sub) :
            directory' = (directory \ {a}) \cup {[a EXCEPT !.structure = s]}
      BY <2>2 DEF Move
    <3>2. a \in Accounts
      BY <1>1, <3>1, KnownAccounts
    <3>3. [a EXCEPT !.structure = s] \in Accounts /\ [a EXCEPT !.structure = s].structure = s
      BY <3>2 DEF Accounts
    <3> QED BY <3>1, <3>3
  <2> QED BY <2>1, <2>2
<1>4. UNCHANGED <<config, page, login, stored, answered>>
  BY DEF Enrol, Move
<1>5. TypeOK'
  BY <1>3, <1>4 DEF IInv, TypeOK, config, stored, answered
<1>6. LoginUnderway'
  BY <1>4 DEF IInv, LoginUnderway, config
<1>7. NonAccompagneByStatut'
  BY <1>2, <1>3, <1>4 DEF IInv, NonAccompagneByStatut, config
<1> QED BY <1>4, <1>5, <1>6, <1>7, QuietStep

\* A hint leads to a page.
LEMMA AuthorizeIInv ==
  ASSUME IInv, NEW hint \in Hints, Authorize(hint)
  PROVE  IInv'
<1>1. InteractionUrl(hint) \in {"choice", "invite"} \cup DOMAIN Connectors
  BY DEF InteractionUrl, Hints, Connectors
<1>2. page = "client" /\ UNCHANGED <<config, directory, login, stored, answered>>
  BY DEF Authorize
<1>3. TypeOK'
  BY <1>1, <1>2 DEF IInv, TypeOK, Authorize, config, stored, answered
<1>4. login = NoLogin
  BY <1>2 DEF IInv, LoginUnderway, Connectors
<1>5. LoginUnderway' /\ NonAccompagneByStatut'
  BY <1>2, <1>4 DEF IInv, LoginUnderway, NoLogin, NonAccompagneByStatut, config
<1> QED BY <1>2, <1>3, <1>5, QuietStep

\* A login that goes wrong, or whose page is left, leaves nothing behind.
LEMMA AbandonIInv ==
  ASSUME IInv, Leave \/ FailLogin \/ RefuseInvite
  PROVE  IInv'
<1>1. UNCHANGED <<config, directory, stored, answered>> /\ page' \in {"client", "error"}
  BY DEF Leave, FailLogin, RefuseInvite
<1>2. login' = NoLogin
  BY DEF Leave, FailLogin, RefuseInvite, IInv, LoginUnderway, Connectors
<1>3. TypeOK' /\ LoginUnderway' /\ NonAccompagneByStatut'
  BY <1>1, <1>2 DEF IInv, TypeOK, LoginUnderway, NoLogin, NonAccompagneByStatut, config,
    stored, answered
<1> QED BY <1>1, <1>3, QuietStep

\* A callback begins at a connector.
LEMMA CallbackIInv ==
  ASSUME IInv, NEW sub \in Subs, NEW userinfo, NEW coordonnees,
         Callback(sub, userinfo, coordonnees)
  PROVE  IInv'
<1>1. /\ page \in DOMAIN Connectors /\ login = NoLogin
      /\ UNCHANGED <<config, directory, stored, answered>>
      /\ \/ page' = "error" /\ login' = NoLogin
         \/ page' = page /\ login' = [step |-> "putUser", sub |-> sub, structure |-> "none"]
  BY DEF Callback
<1>2. page' \in {"error"} \cup DOMAIN Connectors /\ login' \in {NoLogin} \cup Logins
  <2>1. CASE page' = "error" /\ login' = NoLogin
    BY <2>1
  <2>2. CASE page' = page /\ login' = [step |-> "putUser", sub |-> sub, structure |-> "none"]
    BY <1>1, <2>2 DEF Logins
  <2> QED BY <1>1, <2>1, <2>2
<1>3. TypeOK'
  BY <1>1, <1>2, LoginStepType
<1>4. LoginUnderway'
  <2>1. CASE page' = "error" /\ login' = NoLogin
    BY <2>1 DEF LoginUnderway, NoLogin
  <2>2. CASE page' = page /\ login' = [step |-> "putUser", sub |-> sub, structure |-> "none"]
    <3>1. login'.step = "putUser"
      BY <2>2
    <3> QED BY <1>1, <2>2, <3>1 DEF LoginUnderway
  <2> QED BY <1>1, <2>1, <2>2
<1>5. NonAccompagneByStatut'
  BY <1>1 DEF IInv, NonAccompagneByStatut, config
<1> QED BY <1>1, <1>3, <1>4, <1>5, QuietStep

\* A login stores the tokens of the account it adds, from the IdP that will
\* refresh them.
LEMMA FinishIInv ==
  ASSUME IInv, NEW a \in Accounts, page \in DOMAIN Connectors,
         a.type = Connectors[page].type, a.structure \in ApiStructures(page),
         Finish(a), directory' \subseteq Accounts, NonAccompagneByStatut',
         UNCHANGED <<config, answered>>
  PROVE  IInv'
<1> DEFINE t == [account |-> a, idp |-> Issuer(page)]
<1>1. /\ accounts' = accounts \cup {a} /\ tokens' = tokens \cup {t}
      /\ page' = "client" /\ login' = NoLogin
  BY DEF Finish
<1>2. /\ Issuer(page) # NoConfig
      /\ getIdpConfigIdentifier(a.type, a.structure) = Issuer(page)
  BY ConnectorsAgree
<1>3. /\ t \in [account : Accounts, idp : {Issuer(c) : c \in DOMAIN Connectors}]
      /\ t.account = a /\ t.idp = Issuer(page)
  OBVIOUS
<1> HIDE DEF t
<1>4. TypeOK'
  BY <1>1, <1>3 DEF IInv, TypeOK, config, answered
<1>5. RefreshedWhereIssued' /\ LoginsHaveTokens'
  BY <1>1, <1>2, <1>3 DEF IInv, RefreshedWhereIssued, LoginsHaveTokens
<1>6. LoginUnderway'
  BY <1>1 DEF LoginUnderway, NoLogin
<1>7. ValidationIsExact' /\ ExchangeOfSubject'
  BY DEF IInv, ValidationIsExact, ExchangeOfSubject, answered
<1> QED BY <1>4, <1>5, <1>6, <1>7 DEF IInv

\* putUser logs in a user that the API knows, or has its structure resolved.
LEMMA PutUserIInv ==
  ASSUME IInv, PutUser
  PROVE  IInv'
<1>1. login.step = "putUser" /\ UNCHANGED <<config, directory, answered>>
  BY DEF PutUser
<1>2. page \in DOMAIN Connectors /\ login \in Logins
  BY <1>1, LoginIsTyped
<1>3. NonAccompagneByStatut'
  BY <1>1 DEF IInv, NonAccompagneByStatut, config
<1>4. ASSUME NEW a \in KnownAt(page, login.sub), Finish(a) PROVE IInv'
  <2>1. directory' \subseteq Accounts
    BY <1>1 DEF IInv, TypeOK
  <2> QED BY <1>1, <1>2, <1>3, <1>4, <2>1, KnownAccounts, FinishIInv
<1>5. CASE /\ modeNonAccompagneActif /\ page = "francetravail_jeune"
           /\ login' = [login EXCEPT !.step = "resolve"] /\ UNCHANGED <<page, stored>>
  <2>1. /\ login' \in Logins
        /\ login'.step = "resolve"
    BY <1>2, <1>5 DEF Logins
  <2>2. TypeOK' /\ LoginUnderway'
    BY <1>1, <1>2, <1>5, <2>1 DEF IInv, TypeOK, LoginUnderway, Logins, config, stored, answered
  <2> QED BY <1>1, <1>3, <1>5, <2>2, QuietStep
<1> QED BY <1>4, <1>5 DEF PutUser

\* The structure that is resolved is that of the statut.
LEMMA ResolveIInv ==
  ASSUME IInv, resoudreStructureNonAccompagne
  PROVE  IInv'
<1> DEFINE s == IF login.sub \in Demandeurs THEN "FT_DEMANDEUR_D_EMPLOI" ELSE "FT_ESPACE_CANDIDAT"
<1>1. /\ login.step = "resolve" /\ UNCHANGED <<config, directory, page, stored, answered>>
      /\ login' = [login EXCEPT !.step = "putAgain", !.structure = s]
  BY DEF resoudreStructureNonAccompagne, getStatut
<1>2. s \in NonAccompagnes /\ (s = "FT_DEMANDEUR_D_EMPLOI" <=> login.sub \in Demandeurs)
  BY DEF NonAccompagnes
<1> HIDE DEF s
<1>3. /\ page = "francetravail_jeune" /\ modeNonAccompagneActif
      /\ page \in DOMAIN Connectors
      /\ login \in Logins
  BY <1>1, LoginIsTyped DEF IInv, LoginUnderway
<1>4. /\ login' \in Logins
      /\ login'.step = "putAgain" /\ login'.sub = login.sub /\ login'.structure = s
  BY <1>1, <1>2, <1>3 DEF Logins
<1>5. TypeOK' /\ NonAccompagneByStatut'
  BY <1>1, <1>4 DEF IInv, TypeOK, Logins, NonAccompagneByStatut, config, stored, answered
<1>6. LoginUnderway'
  BY <1>1, <1>2, <1>3, <1>4 DEF LoginUnderway, config
<1> QED BY <1>1, <1>5, <1>6, QuietStep

\* The second putUser creates a user in the structure of its statut, or logs
\* in the one that was enrolled meanwhile.
LEMMA PutUserAgainIInv ==
  ASSUME IInv, PutUserAgain
  PROVE  IInv'
<1> DEFINE created == [type |-> Connectors[page].type, structure |-> login.structure,
                       sub |-> login.sub]
<1> DEFINE known == KnownAt(page, login.sub)
<1>1. login.step = "putAgain" /\ UNCHANGED <<config, answered>>
  BY DEF PutUserAgain
<1>2. PICK a \in IF known = {} THEN {created} ELSE known :
        Finish(a) /\ directory' = directory \cup {a}
  BY DEF PutUserAgain
<1>3. /\ page = "francetravail_jeune" /\ page \in DOMAIN Connectors
      /\ modeNonAccompagneActif
      /\ login.sub \in Subs /\ login.structure \in NonAccompagnes
      /\ login.structure = "FT_DEMANDEUR_D_EMPLOI" <=> login.sub \in Demandeurs
  BY <1>1, LoginIsTyped DEF IInv, LoginUnderway, Logins
<1>4. Connectors[page].type = "JEUNE" /\ login.structure \in ApiStructures(page)
  BY <1>3 DEF Connectors, FrancetravailJeuneService, ApiStructures
<1>5. created \in Accounts
  BY <1>3, <1>4, ConnectorsAgree DEF Accounts
<1>6. /\ created.type = Connectors[page].type /\ created.type = "JEUNE"
      /\ created.structure = login.structure /\ created.sub = login.sub
  BY <1>4
<1> HIDE DEF created, known
<1>7. /\ a \in Accounts /\ a.type = Connectors[page].type
      /\ a.structure \in ApiStructures(page)
      /\ a \in directory \/ a = created
  <2>1. CASE known = {}
    BY <1>2, <1>4, <1>5, <1>6, <2>1
  <2>2. CASE known # {}
    <3>1. a \in KnownAt(page, login.sub)
      BY <1>2, <2>2 DEF known
    <3> QED BY <1>3, <3>1, KnownAccounts
  <2> QED BY <2>1, <2>2
<1>8. directory' \subseteq Accounts
  BY <1>2, <1>7 DEF IInv, TypeOK
<1>9. NonAccompagneByStatut'
  BY <1>1, <1>2, <1>3, <1>6, <1>7 DEF IInv, NonAccompagneByStatut, config
<1> QED BY <1>1, <1>2, <1>3, <1>7, <1>8, <1>9, FinishIInv

\* A guest has no token.
LEMMA ConnectInviteIInv ==
  ASSUME IInv, NEW sub \in Subs, ConnectInvite(sub)
  PROVE  IInv'
<1> DEFINE a == [type |-> "JEUNE", structure |-> "INVITE", sub |-> sub]
<1>1. a \in Accounts /\ a.structure = "INVITE"
  BY DEF Accounts, Types, Structures
<1>2. /\ accounts' = accounts \cup {a} /\ directory' = directory \cup {a}
      /\ page = "invite" /\ page' = "client" /\ UNCHANGED <<config, login, tokens, answered>>
  BY DEF ConnectInvite
<1> HIDE DEF a
<1>3. TypeOK'
  BY <1>1, <1>2 DEF IInv, TypeOK, config, answered
<1>4. RefreshedWhereIssued' /\ LoginsHaveTokens'
  BY <1>1, <1>2 DEF IInv, RefreshedWhereIssued, LoginsHaveTokens
<1>5. login = NoLogin
  BY <1>2 DEF IInv, LoginUnderway, Connectors
<1>6. LoginUnderway' /\ NonAccompagneByStatut'
  BY <1>1, <1>2, <1>5 DEF IInv, LoginUnderway, NoLogin, NonAccompagneByStatut, NonAccompagnes,
    config
<1>7. ValidationIsExact' /\ ExchangeOfSubject'
  BY <1>2 DEF IInv, ValidationIsExact, ExchangeOfSubject, answered
<1> QED BY <1>3, <1>4, <1>6, <1>7 DEF IInv

\* The verification of a JWT reads.
LEMMA VerifyIInv ==
  ASSUME IInv, NEW account \in accounts, NEW key \in Keys, NEW exp \in Ends,
         NEW jwks \in KeyLists, VerifySubjectToken(account, key, exp, jwks)
  PROVE  IInv'
<1>0. PICK code \in ValidateJWT([key |-> key, exp |-> exp], jwks) :
        checked' = [account |-> account, key |-> key, exp |-> exp, jwks |-> jwks, code |-> code]
  BY DEF VerifySubjectToken
<1> DEFINE c == [account |-> account, key |-> key, exp |-> exp, jwks |-> jwks, code |-> code]
<1>1. checked' = c /\ UNCHANGED <<config, directory, page, login, stored, exchange>>
  BY <1>0 DEF VerifySubjectToken
<1>2. /\ code \in Codes
      /\ code = "valid" <=> exp = "future" /\ \E i \in DOMAIN jwks : jwks[i] = key
  BY ValidateJWTIsExact
<1>3. /\ c \in [account : accounts, key : Keys, exp : Ends, jwks : KeyLists, code : Codes]
      /\ c.key = key /\ c.exp = exp /\ c.jwks = jwks /\ c.code = code
  BY <1>2
<1> HIDE DEF c
<1>4. TypeOK'
  BY <1>1, <1>3 DEF IInv, TypeOK, config, stored
<1>5. ValidationIsExact'
  BY <1>1, <1>2, <1>3 DEF ValidationIsExact
<1> QED BY <1>1, <1>4, <1>5 DEF IInv, RefreshedWhereIssued, LoginsHaveTokens, LoginUnderway,
  NonAccompagneByStatut, ExchangeOfSubject, config, stored

\* An exchange reads.
LEMMA TokenExchangeIInv ==
  ASSUME IInv, NEW requested \in Subs \cup {NoSub}, NEW asked \in Types \cup {""},
         TokenExchange(requested, asked)
  PROVE  IInv'
<1> DEFINE subject == checked.account
<1>0. checked \in [account : accounts, key : Keys, exp : Ends, jwks : KeyLists, code : Codes]
  <2>1. checked.code = "valid"
    BY DEF TokenExchange
  <2>2. NoCheck.code = "none"
    BY DEF NoCheck
  <2> QED BY <2>1, <2>2 DEF IInv, TypeOK
<1>1. subject \in accounts /\ subject \in Accounts
  BY <1>0 DEF IInv, TypeOK
<1>2. Target(Claims(subject), requested, asked)
        \in [type : Types, structure : Structures, sub : ReadSubs]
  BY <1>1, TargetType
<1> DEFINE e == [subject |-> subject, requested |-> requested, asked |-> asked,
                 target |-> Target(Claims(subject), requested, asked)]
<1>3. /\ exchange' = e /\ checked' = NoCheck
      /\ UNCHANGED <<config, directory, page, login, stored>>
  BY DEF TokenExchange
<1>4. /\ e \in [subject : accounts, requested : Subs \cup {NoSub}, asked : Types \cup {""},
                target : [type : Types, structure : Structures, sub : ReadSubs]]
      /\ e.subject = subject /\ e.requested = requested /\ e.asked = asked
      /\ e.target = Target(Claims(subject), requested, asked)
  BY <1>1, <1>2
<1> HIDE DEF e, subject
<1>5. TypeOK'
  BY <1>3, <1>4 DEF IInv, TypeOK, config, stored
<1>6. ExchangeOfSubject' /\ ValidationIsExact'
  BY <1>3, <1>4 DEF ExchangeOfSubject, ValidationIsExact
<1> QED BY <1>3, <1>5, <1>6 DEF IInv, RefreshedWhereIssued, LoginsHaveTokens, LoginUnderway,
  NonAccompagneByStatut, config, stored

\* The invariant holds in every reachable state.
THEOREM Invariance == Spec => []IInv
<1>1. IInv /\ [Next]_vars => IInv'
  <2> SUFFICES ASSUME IInv, [Next]_vars PROVE IInv'
    OBVIOUS
  <2>1. ASSUME NEW s \in Structures, Enrol(s) \/ Move(s) PROVE IInv'
    BY <2>1, EnrolIInv
  <2>2. ASSUME NEW hint \in Hints, Authorize(hint) PROVE IInv'
    BY <2>2, AuthorizeIInv
  <2>3. CASE Leave \/ FailLogin \/ RefuseInvite
    BY <2>3, AbandonIInv
  <2>4. ASSUME NEW sub \in Subs, NEW userinfo \in BOOLEAN, NEW coordonnees \in BOOLEAN,
               Callback(sub, userinfo, coordonnees)
        PROVE  IInv'
    BY <2>4, CallbackIInv
  <2>5. CASE PutUser
    BY <2>5, PutUserIInv
  <2>6. CASE resoudreStructureNonAccompagne
    BY <2>6, ResolveIInv
  <2>7. CASE PutUserAgain
    BY <2>7, PutUserAgainIInv
  <2>8. ASSUME NEW sub \in Subs, ConnectInvite(sub) PROVE IInv'
    BY <2>8, ConnectInviteIInv
  <2>9. CASE ExchangeStep
    BY <2>9, VerifyIInv, TokenExchangeIInv DEF ExchangeStep
  <2>10. CASE UNCHANGED vars
    <3>1. UNCHANGED <<config, directory, page, login, stored, answered>>
      BY <2>10 DEF vars
    <3>2. TypeOK' /\ LoginUnderway' /\ NonAccompagneByStatut'
      BY <3>1 DEF IInv, TypeOK, LoginUnderway, NonAccompagneByStatut, config, stored, answered
    <3> QED BY <3>1, <3>2, QuietStep
  <2> QED BY <2>1, <2>2, <2>3, <2>4, <2>5, <2>6, <2>7, <2>8, <2>9, <2>10 DEF Next, LoginStep
<1> QED BY <1>1, InitIInv, PTL DEF Spec

---------------------------------------------------------------------------

\* Every variable keeps its type.
THEOREM TypeCorrect == Spec => []TypeOK
<1>1. IInv => TypeOK
  BY DEF IInv
<1> QED BY <1>1, Invariance, PTL

\* The tokens of every account are refreshed at the IdP that issued them
\* (getIdpConfigIdentifier against the constructors of the IdP services).
THEOREM TokensRefreshedWhereIssued == Spec => []RefreshedWhereIssued
<1>1. IInv => RefreshedWhereIssued
  BY DEF IInv
<1> QED BY <1>1, Invariance, PTL

\* An exchange for oneself finds what the login stored, for any user whose sub
\* contains no separator (fromAccountToAccountId against getSubFromAccountId,
\* findAccount and TokenExchangeGrant.handler).
THEOREM OwnTokensAreFound == Spec => []OwnTokensFound
<1>1. IInv => OwnTokensFound
  <2> SUFFICES ASSUME IInv, exchange # NoExchange, exchange.requested = NoSub,
                      exchange.subject.structure # "INVITE",
                      HasNoSeparator(exchange.subject.sub)
               PROVE  \E t \in tokens : t.account = exchange.target
    BY DEF OwnTokensFound
  <2>1. exchange.subject \in accounts /\ exchange.subject \in Accounts
    BY DEF IInv, TypeOK, NoExchange
  <2>2. exchange.target = exchange.subject
    BY <2>1, OwnTarget DEF IInv, ExchangeOfSubject
  <2> QED BY <2>1, <2>2 DEF IInv, LoginsHaveTokens
<1> QED BY <1>1, Invariance, PTL

\* A delegation finds the tokens of the user of the other type, whoever
\* logged in with the requested sub in the structure of the caller.
THEOREM DelegationIsFound == Spec => []DelegationFindsTokens
<1>1. IInv => DelegationFindsTokens
  <2> SUFFICES ASSUME IInv, exchange # NoExchange, exchange.requested # NoSub,
                      exchange.asked = "", NEW t \in tokens,
                      t.account.sub = exchange.requested,
                      t.account.structure = exchange.subject.structure,
                      t.account.type # exchange.subject.type
               PROVE  t.account = exchange.target
    BY DEF DelegationFindsTokens
  <2>1. exchange.subject \in Accounts /\ t.account \in Accounts
    BY DEF IInv, TypeOK, NoExchange
  <2>2. exchange.target = Target(Claims(exchange.subject), t.account.sub, "")
    BY DEF IInv, ExchangeOfSubject
  <2> QED BY <2>1, <2>2, DelegationTarget
<1> QED BY <1>1, Invariance, PTL

\* The API is never asked for two accounts whose subs contain no separator in
\* the same words (findAccount, getUser).
THEOREM ProfilesNameAccounts == Spec => []ProfilesIdentifyAccounts
<1>1. IInv => ProfilesIdentifyAccounts
  <2> SUFFICES ASSUME IInv, NEW a \in accounts, NEW b \in accounts,
                      HasNoSeparator(a.sub), HasNoSeparator(b.sub),
                      FindAccount(a) = FindAccount(b)
               PROVE  a = b
    BY DEF ProfilesIdentifyAccounts
  <2>1. a \in Accounts /\ b \in Accounts
    BY DEF IInv, TypeOK
  <2>2. FindAccount(a) = getUser(a) /\ FindAccount(b) = getUser(b)
    <3>1. \A c \in Accounts : HasNoSeparator(c.sub) =>
            fromAccountIdToAccount(fromAccountToAccountId(c)) = c
      BY ReadBack DEF fromAccountIdToAccount, Accounts
    <3> QED BY <2>1, <3>1 DEF FindAccount
  <2>3. a.type = b.type /\ a.sub = b.sub
        /\ profilDeStructure(a.structure) = profilDeStructure(b.structure)
    <3>1. getUser(a) = getUser(b)
      BY <2>2
    <3>2. \A c : /\ getUser(c).sub = c.sub /\ getUser(c).typeUtilisateur = c.type
                 /\ getUser(c).profil = profilDeStructure(c.structure)
      BY DEF getUser
    <3> QED BY <3>1, <3>2
  <2>4. a.structure = b.structure
    BY <2>1, <2>3, ProfilesAreDistinct DEF Accounts
  <2> QED BY <2>1, <2>3, <2>4 DEF Accounts
<1> QED BY <1>1, Invariance, PTL

\* Nobody is taken without conseiller but under the structure of its statut,
\* with the mode active (IdpService.callback, resoudreStructureNonAccompagne).
THEOREM StructureIsOfTheStatut == Spec => []NonAccompagneByStatut
<1>1. IInv => NonAccompagneByStatut
  BY DEF IInv
<1> QED BY <1>1, Invariance, PTL

\* For any lists of keys, a JWT is accepted exactly when one of them signed it
\* and it has not expired (ValidateJWTUsecase.execute).
THEOREM ValidationCorrect == Spec => []ValidationIsExact
<1>1. IInv => ValidationIsExact
  BY DEF IInv
<1> QED BY <1>1, Invariance, PTL

\* Whatever the API enrols or moves during a callback, the account that logs
\* in is one that it knows (IdpService.callback, InviteService.connect).
THEOREM LoginsKnownToApi == Spec => LoginsAreKnown
<1>1. IInv /\ [Next]_vars => [accounts' \ accounts \subseteq directory']_vars
  <2> SUFFICES ASSUME IInv, Next PROVE accounts' \ accounts \subseteq directory'
    BY DEF vars, stored
  <2>1. CASE PutUser
    <3>1. ASSUME NEW a \in KnownAt(page, login.sub), Finish(a)
          PROVE  accounts' = accounts \cup {a} /\ a \in directory
      BY <3>1 DEF Finish, KnownAt
    <3> QED BY <2>1, <3>1 DEF PutUser, stored
  <2>2. CASE PutUserAgain
    <3>1. PICK a : Finish(a) /\ directory' = directory \cup {a}
      BY <2>2 DEF PutUserAgain
    <3> QED BY <3>1 DEF Finish
  <2>3. ASSUME NEW sub \in Subs, ConnectInvite(sub)
        PROVE  accounts' \ accounts \subseteq directory'
    BY <2>3 DEF ConnectInvite
  <2>4. CASE accounts' = accounts
    BY <2>4
  <2>5. CASE ExchangeStep
    BY <2>5 DEF ExchangeStep, VerifySubjectToken, TokenExchange, stored
  <2>6. CASE resoudreStructureNonAccompagne \/ FailLogin \/ RefuseInvite \/ Leave
    BY <2>6 DEF resoudreStructureNonAccompagne, FailLogin, RefuseInvite, Leave, stored
  <2>7. ASSUME NEW sub, NEW userinfo, NEW coordonnees, Callback(sub, userinfo, coordonnees)
        PROVE  accounts' = accounts
    BY <2>7 DEF Callback, stored
  <2>8. ASSUME NEW s, Enrol(s) \/ Move(s) PROVE accounts' = accounts
    BY <2>8 DEF Enrol, Move, stored
  <2>9. ASSUME NEW hint, Authorize(hint) PROVE accounts' = accounts
    BY <2>9 DEF Authorize, stored
  <2> QED BY <2>1, <2>2, <2>3, <2>4, <2>5, <2>6, <2>7, <2>8, <2>9 DEF Next, LoginStep
<1> QED BY <1>1, Invariance, PTL DEF Spec, LoginsAreKnown
=============================================================================
