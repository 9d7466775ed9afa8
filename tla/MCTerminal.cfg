\* A user who waits for the prompt, every kind of key, two-byte keys taken whole.
CONSTANTS
  BUFFER_SIZE = 6
  UINT8 = 6
  TTY_NUMBER = 2
  Keys <- AllKeys
  MaxKeys = 5
  Whole = TRUE
  Patient = TRUE
  Preempt = FALSE
SPECIFICATION FairSpec
PROPERTY KeysArrive
CHECK_DEADLOCK FALSE
