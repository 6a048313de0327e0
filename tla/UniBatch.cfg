CONSTANTS
  Provider <- MCProvider
  maxBatchRows = 4
  oracleMaxBatchRows = 2
  maxBatchBindParams <- MCBindParams
  Requests <- MCRequests
  MaxRows = 9
  MaxColumns = 4
SPECIFICATION Spec
INVARIANTS
  TypeOK
  Prefix
  NeverTooLarge
  WithinBudget
CHECK_DEADLOCK FALSE
