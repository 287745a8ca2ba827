SPECIFICATION WebmSpec
CONSTANTS
  MaxBlockTimecode = 3
  MaxClusterDuration = 2
  MaxFrames = 4
  TrackLists <- MCTrackLists
  FrameKinds <- MCFrameKinds
  CodecBits = 4
  CodecLimit = 4000
INVARIANTS FramesKept FramesRecovered IndexTrue RefusedOnlyAcrossGap HeadersReadBack
PROPERTIES CopyDescribesFrames
CHECK_DEADLOCK FALSE
