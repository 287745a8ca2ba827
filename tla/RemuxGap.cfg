SPECIFICATION Spec
CONSTANTS
  MaxBlockTimecode = 3
  MaxClusterDuration = 2
  MaxFrames = 4
  TrackLists <- MCTrackLists
  FrameKinds <- MCFrameKinds
INVARIANT FarFrameTaken
CHECK_DEADLOCK FALSE
