SPECIFICATION GraphFairSpec
CONSTANTS
  NumBuffers = 1
  EncCache = 1
  MaxStarts = 2
  MaxFrames <- LastIsSilent
  NoFrame = NoFrame
CHECK_DEADLOCK FALSE
INVARIANTS
  TargetAlive
  PipelineGone
  BusyOnlyForDump
PROPERTIES
  Returns
  DeviceCloses
  CaptureGoesOn
