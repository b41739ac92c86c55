SPECIFICATION FairPoolsSpec
CONSTANTS
  Parts = {"queue", "passes", "daily", "bought", "recheck", "saved", "granted", "landed", "found", "grok", "oreate"}
  r1 = r1
  r2 = r2
  m1 = m1
  m2 = m2
  p1 = p1
  c1 = c1
  c2 = c2
  c3 = c3
  s1 = s1
  a1 = a1
  Case <- MCCases
PROPERTIES EveryRequestEnds AccountsComeBack EveryoneIsChecked
CHECK_DEADLOCK FALSE
