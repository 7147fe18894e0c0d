SPECIFICATION Spec
CONSTANTS
  PAGES = 262144
  Page <- Pages
  Region <- Regions
  null_region = "(NULL)"
  pages <- Sizes
  priority <- Priorities
  Control <- Controls
  Tcm <- TcmMappings
  Beyond = {4}
CHECK_DEADLOCK FALSE
INVARIANTS
  TablesCurrent
  BanksPlaced
  Settled
  IInv
  ClashOfH
PROPERTY OthersKept
