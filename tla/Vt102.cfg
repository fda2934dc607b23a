SPECIFICATION MCSpec
CONSTANTS
  Displays = {d1, d2}
  Bits = {"AppKeyPad"}
  Sizes <- MCSizes
  Wide = 3
  Narrow = 2
  Values = {v1, v2}
  NoValue = NoValue
  Delay = 2
INVARIANTS ModesInv InStep TitlesInv
PROPERTIES ReturnsToCursor TitlesSettle
