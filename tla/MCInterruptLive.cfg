SPECIFICATION FairSpec
CONSTANTS
  Core = "ARM7"
  MAX_INTERRUPTS = 2
  Reg = {}
  Data = {d0}
  Zero = d0
  Return = d0
  Field = {23, 31}
  Flag = {f0}
  NoFlag = f0
PROPERTY Served
