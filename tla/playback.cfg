SPECIFICATION PFairSpec
CONSTANTS
  hPlain = hPlain  hTimed = hTimed  hModel = hModel  hVariable = hVariable
  Headers = {hPlain, hTimed, hModel, hVariable}
  Attr <- Attributes
  NumSlots = 3
  Playlists <- AllPlaylists
  Gops = {1, 2, 3, 4}
  MaxTotal = 8
  MaxU64 = 15
INVARIANTS TypeOK RightPicture KeySamplesExact OneTuPerFrame SeekErrorWithinGop FlagMatchesHeader InspectorAgrees
PROPERTIES ShowsPlaylist CallReturns
CHECK_DEADLOCK FALSE
