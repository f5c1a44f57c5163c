SPECIFICATION Spec
CONSTANTS
  Frames <- MCFrames
  ToolCalls <- MCToolCalls
  NoTool = NoTool
  t0 = t0
  t1 = t1
  MaxFrames = 4
INVARIANTS
  TruncationShown
CHECK_DEADLOCK FALSE
