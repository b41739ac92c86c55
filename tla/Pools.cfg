SPECIFICATION PoolsSpec
CONSTANTS
  Parts = {"busy", "outage", "kinds", "mixed", "passes", "held", "sunk", "alone", "rotated", "once", "granted", "serial", "swept", "dead", "grok"}
  r1 = r1
  r2 = r2
  m1 = m1
  m2 = m2
  p1 = p1
  c1 = c1
  c2 = c2
  c3 = c3
  s1 = s1
  a1 = a1
  Case <- MCCases
INVARIANTS FailsOverRightly BalancesAreRight GoodStay
PROPERTY ForAReason
CHECK_DEADLOCK FALSE
