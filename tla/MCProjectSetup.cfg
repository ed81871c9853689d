\* Two events of a repository, one group path, a group deleted and
\* made anew, and one failing request.
SPECIFICATION FairSpec
CONSTANTS
  Events = {e1, e2}
  Paths = {p1}
  Manual = manual
  MaxGen = 2
  MaxFaults = 1
INVARIANTS TypeOK ManualGroupKept RetryRecovers SetupConverges
PROPERTY SetupEnds
CHECK_DEADLOCK FALSE
