SPECIFICATION Spec
CONSTANTS
  Configs <- MCConfigs
  ConditionType <- MCConditionType
  TooLong = {"VeryLong"}
  Schemas = {"As"}
  TrimSpace <- MCTrim
  Length <- MCLength
  Printable <- MCPrintable
  SafeValue <- MCSafe
  IsTrue <- MCTrue
  Compiles <- MCCompiles
  Matches <- MCMatches
  SecureURL <- MCSecure
  HeaderName <- MCHeader
  KeysInFile <- MCKeysInFile
  KeysAtURL <- MCKeysAtURL
  Rfc3339 = {"2026-01-01T00:00:00Z", "2026-01-02T00:00:00Z", "2026-01-03T00:00:00Z"}
  Instant <- MCInstant
  Numeric <- MCNumeric
  Decimal <- MCDecimal
  Before <- MCBefore
  Like <- MCLike
  Translate <- TSLToSQL
  Satisfied <- Evaluate
  Unresolved <- UnknownColumn
  Deployments <- MCDeployments
  Entities <- MCEntities
  Server <- MCServer
  Table <- MCTable
  Traffic <- MCTraffic
  Busy <- MCBusy
  OrgDimension <- MCOrgDimension
  Fresh <- MCFresh
  Contents <- MCContents
  MaxSearch = 100
  IdText = 1
  MaxGen = 2
  MaxTime = 4
INVARIANTS
  TypeOK
  StartsIffSound
  CredentialsFirst
  TenantsSeeTheirOwn
  WritesAttributed
  
  RejectionComposes
  PagesMissNothing
CHECK_DEADLOCK FALSE
