CONSTANTS
  Highs <- MCHighs
  Lows <- MCLows
  Thumbs <- MCThumbs
SPECIFICATION Spec
INVARIANTS ArmAgrees ThumbAgrees NothingStale
CHECK_DEADLOCK FALSE
