SPECIFICATION Spec
CONSTANTS
  Size = 2
  Laps = 2
  Data = {d0, d1}
  Zero = d0
INVARIANTS
  ChecksHold
  NoSlotRace
  OwnStateTrusted
  NoLostWakeup
  FlagHealed
  IInv
PROPERTY ChannelSpec
