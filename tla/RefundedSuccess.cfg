CONSTANTS
  u1 = u1
  u2 = u2
  g1 = g1
  g2 = g2
  g3 = g3
  p1 = p1
  p2 = p2
  none = none
  Users = {u1, u2}
  Gens = {g1}
  Procs = {p1}
  NoUser = none
  NoGen = none
  Workloads <- Media
  Price <- MCPrice
  Inviter <- MCInviter
  InitCredits = 1
  Limit = 2
  Reward = 1
  Prompt = TRUE
  MaxFaults = 0
  MaxClears = 0
SPECIFICATION Spec
SYMMETRY Symm
INVARIANTS SuccessIsPaid
CHECK_DEADLOCK FALSE
