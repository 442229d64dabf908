SPECIFICATION Spec
CONSTANTS
  HeaderInputs <- MCHeaderInputs
  KeyInputs <- MCKeyInputs
  GoldenInputs <- MCGoldenInputs
  RateNum = 30
  RateDen = 1
INVARIANT LosslessAsDecoded
CHECK_DEADLOCK FALSE
