SPECIFICATION Spec
CONSTANTS
  Procs = {p1, p2, p3}
  Tickets = {t1, t2, t3}
  Stale = {TRUE, FALSE}
  NULL = NULL
CHECK_DEADLOCK FALSE
INVARIANTS
  TypeOK
  MutualExclusion
  FirstComeFirstServed
PROPERTY
  EveryoneIsServed
