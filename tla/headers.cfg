SPECIFICATION Spec
CONSTANTS
  HeaderInputs <- MCHeaderInputs
  KeyInputs <- MCKeyInputs
  GoldenInputs <- MCGoldenInputs
  RateNum = 30
  RateDen = 1
INVARIANTS HeaderReEmitted RewriteReadsBack ParsersAgree FramesReadBack
CHECK_DEADLOCK FALSE
