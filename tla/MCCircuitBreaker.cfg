CONSTANTS
  Requests = {r1, r2}
  Threshold = 2
  ErrThreshold = 60
  Timeout = 2
  HalfOpenMax = 2
  MaxCount = 2
  InHeaders = {"none", "half_open_probe"}
SPECIFICATION LiveSpec
INVARIANT CBInv
PROPERTIES OpenHolds OpenIsRetried LullRestoresProbes
CONSTRAINT OneTrouble
