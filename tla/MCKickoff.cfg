SPECIFICATION FairSpec
CONSTANTS
  k1 = k1
  k2 = k2
  k3 = k3
  q1 = q1
  Kickoffs = {k1, k2, k3}
  Pushes = {q1}
  Project <- MCProject
  Tagged = {"b"}
  Workers = 2
  MaxScans = 1
  Faults = {"token", "route", "publish", "auth", "service", "fail", "decline"}
INVARIANTS TypeOK ConcurrencyBound NoRepeat AnswerIsTrue
PROPERTY KickoffAnswered
CHECK_DEADLOCK FALSE
