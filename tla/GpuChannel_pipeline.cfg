SPECIFICATION FairSpec
CONSTANTS
  Buffers <- MCBuffers
  MaxWords = 9
  MaxSubmits = 2
  None = None
PROPERTIES
  PipelineFitsDraw
CHECK_DEADLOCK FALSE
