CONSTANTS
  Second = 2
  KeyFrameInterval = 1
  NoWebM = none
  Rates = {1, 2}
  Outcomes = {"packet", "none", "error"}
  Opening = {"opened", "not_opened", "deleted"}
  MaxTime = 4
  MaxFrames = 3
SPECIFICATION Spec
INVARIANTS TypeOK PlaybackInSync TimestampsIncrease ShownInTime FinalFrameKept
PROPERTIES LastingFramesKept RecordingKept PendingEncoded
