\* Two senders, a receiver of ANY, one that names its sender, and the timer.
CONSTANTS
  NULL = NULL
  NProc = 5
  MaxMsg = 1
  Struct <- McStruct
  Content <- McContent
  Links <- MixLinks
  Accept <- MixAccept
SPECIFICATION FairSpec
INVARIANTS TypeOK AcyclicQueues CurrentNotBlocked QueueExact NoMissedRendezvous ExactlyOnce
PROPERTIES ImplementsRendezvous SendersReleased
CHECK_DEADLOCK FALSE
