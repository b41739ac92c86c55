CONSTANTS
  u1 = u1
  t3 = t3
  Parts = {"groups", "slots", "gate"}
  Seed = seed
  Groups = {seed, x, y}
  Users = {u1, u2}
  Admins = {a1}
  Limits = {1, 2}
  NoGroup = none
  Absent = absent
  Subjects = {u1, u2}
  Tokens = {t1, t2, t3, t4}
  SubjectOf <- MCSubjectOf
  Caps = {1, 2}
  TTL = 1
  Pollers = {t4}
  MaxOutages = 1
  MaxUnread = 1
SPECIFICATION Spec
INVARIANTS EveryUserLimited LiveFitsCap NeverOverLimit
PROPERTIES PollerAdmitted
CHECK_DEADLOCK FALSE
