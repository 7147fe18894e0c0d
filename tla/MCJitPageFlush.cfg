SPECIFICATION Spec
CONSTANTS
  Core = {ARM7, ARM9}
  Host = host
  ISA = {arm}
  Word = {w0}
  Data = {d0, d1}
  Zero = d0
  NoBlock = NoBlock
  Unread = Unread
  Elsewhere = Elsewhere
  Flushing = TRUE
CHECK_DEADLOCK FALSE
INVARIANT StaleFlagged
