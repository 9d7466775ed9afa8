\* Interrupts and clock ticks anywhere, typing ahead, two-byte keys split, more bytes
\* than the buffer and the counters hold.
CONSTANTS
  BUFFER_SIZE = 3
  UINT8 = 3
  TTY_NUMBER = 2
  Keys <- SomeKeys
  MaxKeys = 4
  Whole = FALSE
  Patient = FALSE
  Preempt = TRUE
SPECIFICATION Spec
INVARIANTS TypeOK CountExact TakesWhatWasTyped ShowsWhatWasPut
CHECK_DEADLOCK FALSE
