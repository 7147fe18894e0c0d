SPECIFICATION Spec
CONSTANTS
  W = 8
  PageSize = 64
  Pages <- MCPages
  Values <- MCValues
  Amounts <- MCAmounts
  Flags <- MCFlags
CHECK_DEADLOCK FALSE
INVARIANTS
  RegistersAgree
  AccessesAgree
  FlagsAgree
  StackBalanced
