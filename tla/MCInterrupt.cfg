SPECIFICATION Spec
CONSTANTS
  Core = "ARM9"
  MAX_INTERRUPTS = 2
  Reg = {14}
  Data = {d0, d1}
  Zero = d0
  Return = d1
  Field = {19, 31}
  Flag = {f0}
  NoFlag = f0
INVARIANTS
  ContextRestored
  IInv
PROPERTIES
  DispatchJustified
  KeptIfEnabled
