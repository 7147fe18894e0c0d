SPECIFICATION Spec
CONSTANTS
  Reg = {0, 8, 13}
  Data = {d0, d1}
  Zero = d0
  Field = {16, 17, 19, 23}
  Flag = {f0}
  NoFlag = f0
CHECK_DEADLOCK FALSE
INVARIANTS
  InSync
PROPERTY ArmSpec
