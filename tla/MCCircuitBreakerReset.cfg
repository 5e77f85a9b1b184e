CONSTANTS
  Requests = {r1}
  Threshold = 2
  ErrThreshold = 60
  Timeout = 2
  HalfOpenMax = 2
  MaxCount = 3
  InHeaders = {"none"}
SPECIFICATION Spec
PROPERTY ProbeSuccessCloses
