\* One of the three recorders, on streams that go back.
SPECIFICATION CapSpec
CONSTANTS
  MaxNumber = 4
  Frames <- Numbered
  PipelineArgs <- PipelineLines
  DumpArgs <- DumpLines
  CaptureArgs <- CaptureLines
  CntMod = 5
  BufCap = 2
  MaxFrames = 5
  None = None
INVARIANTS CapTypeOK FullDumpSinceZero SegmentsHoldAll WindowFollows DroppedOnlyGoingBack CaptureAligned
