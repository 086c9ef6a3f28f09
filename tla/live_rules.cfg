CONSTANTS
  Matches <- MCMatches
  Compiles <- MCCompiles
  Durations <- MCDurations
  Substring <- MCSubstring
  Buckets <- MCBuckets
  Hash <- MCHash
  Definitions <- MCDefinitions
  Payloads <- MCPayloads
  MaxVersions = 2
  Contexts <- MCContexts
  Inherited <- MCInherited
  Words <- MCWords
  Upper <- MCUpper
  Digits <- MCDigits
  JsonKey <- MCJsonKey
  Reread <- MCReread
  MaxInt64 = 1
SPECIFICATION Spec
INVARIANTS EvaluatesToAccepted SharesFollowWeights SdksAgree 
PROPERTIES RampUpMovesForward
