SPECIFICATION Spec
CONSTANTS
  h1 = h1  h2 = h2  s1 = s1  s2 = s2
  NoHeader = NoHeader
  Headers = {h1, h2}
  Slots = {s1, s2}
  Units <- AllUnits
  MaxUnits = 5
INVARIANTS PassedStreamsPlay TrackingTrue
CHECK_DEADLOCK FALSE
