\* Failures allowed, few descriptors: leaks of failed lines run into MaxFd.
SPECIFICATION FairSpec
CONSTANTS
  Lines <- MixLines
  MaxProcs = 5
  MaxFd = 6
  Cap = 1
  ClosedAtStart <- OutOrErrClosed
  ForkMayFail = TRUE
INVARIANTS TypeOK NoStrayEnds NoLeak EndsArePrivate AllReaped
PROPERTIES ImplementsContract Returns
