SPECIFICATION FairSpec
CONSTANTS
  Wakers = {w1, w2}
  MaxSends = 3
  MaxPolls = 2
INVARIANTS
  NoLostWake
  HookOncePerPoll
  NoticesAreNews
PROPERTY
  MessagesArePolled
CHECK_DEADLOCK FALSE
