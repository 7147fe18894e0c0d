SPECIFICATION Spec
CONSTANTS
  Core = {ARM7, ARM9}
  Host = host
  ISA = {arm, thumb}
  Word = {w0}
  Data = {d0, d1}
  Zero = d0
  NoBlock = NoBlock
  Unread = Unread
  Elsewhere = Elsewhere
  Flushing = FALSE
CHECK_DEADLOCK FALSE
INVARIANTS
  IInv
  StaleFlagged
  LiveCode
PROPERTY EntersCurrent
SYMMETRY Symmetry
