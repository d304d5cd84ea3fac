SPECIFICATION SliderSpec
CONSTANTS
  MaxSliders = 2
  Raws = {0, 12, 24, 1023}
  Inverts = {FALSE, TRUE}
  Levels = {"default", "high"}
  Nothing = Nothing
INVARIANTS
  SliderInv
  EndsAreReached
  HeardIsClose
  ReloadReemits
