SPECIFICATION Spec
CONSTANTS
  NUM = 2
  MAX_SUBINSTRUCTIONS = 2
  Sizes = {1, 2}
  Base = {0, 4}
CHECK_DEADLOCK FALSE
INVARIANTS
  Armed
  TableAgrees
  BytesAgree
  IInv
PROPERTY StopsAtBreakpoint
