SPECIFICATION SpliceSpec
CONSTANTS
  MaxBytes <- MCMaxBytes
  Cap = 1
CHECK_DEADLOCK FALSE
INVARIANT SpliceTypeOK
PROPERTIES
  PipeSpec
  EndArrives
  SplicesEnd
