SPECIFICATION FairSpec
CONSTANTS
  NONE = NONE
  Names = {"s", "d", "x"}
  Looks <- MCLooks
  MaxId = 3
  Listed <- MCListed
  Sizes <- TwoSizes
  Chrome = 19
  ViewerChrome = 19
  MaxLines = 2
  MaxText = 1
  MaxChanges = 1
  MaxEvents = 3
INVARIANT TypeOK
PROPERTIES ActsOnTheMarked   ScreenCatchesUp
CHECK_DEADLOCK FALSE
