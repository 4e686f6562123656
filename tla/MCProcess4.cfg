\* Five threads through a gate of three: there are threads to hold back for the
\* waiter (two), to let go before it (two), and to wait at the entrance.  The
\* waiter is created last, as late as it can be.
CONSTANTS
  N = 5
  Waiter = 5
  MAX_THREAD_COUNT = 3
SPECIFICATION FairSpec
INVARIANTS
  AtMostMaxRunning
  WaiterEndsInFullHouse
  NeverAllAsleep
  NoLostWakeup
  Process4Inv
  HouseCanFill
PROPERTIES
  ImplementsBarrier
  Termination
