CONSTANTS
  k1 = k1
  k2 = k2
  Subs <- MCSubs
  Parts <- MCParts
  codeStatutIndividu <- MCcodeStatutIndividu
  Keys <- MCKeys
  KeyLists <- MCKeyLists
  MaxAccounts = 2
SPECIFICATION Spec
INVARIANTS
  TypeOK
  RefreshedWhereIssued
  OwnTokensFound
  DelegationFindsTokens
  ProfilesIdentifyAccounts
  NonAccompagneByStatut
  ValidationIsExact
PROPERTIES
  LoginsAreKnown
\* A journey ends with its token exchange.
CHECK_DEADLOCK FALSE
