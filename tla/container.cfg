SPECIFICATION ReadSpec
CONSTANTS
  h1 = h1  h2 = h2
  Headers = {h1, h2}
  Packets <- AllPackets
  MaxPackets = 4
INVARIANTS OneDelimiter ObusKept CodedStampsKept IvfMatchesObu SizeUnderItsHeader
CHECK_DEADLOCK FALSE
