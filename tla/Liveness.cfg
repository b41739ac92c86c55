CONSTANTS
  u1 = u1
  u2 = u2
  g1 = g1
  g2 = g2
  g3 = g3
  p1 = p1
  p2 = p2
  none = none
  Users = {u1, u2}
  Gens = {g1}
  Procs = {p1, p2}
  NoUser = none
  NoGen = none
  Workloads <- TwoProcesses
  Price <- MCPrice
  Inviter <- MCInviter
  InitCredits = 1
  Limit = 1
  Reward = 1
  Prompt = FALSE
  MaxFaults = 1
  MaxClears = 1
SPECIFICATION FairSpec
INVARIANT BillingInv
PROPERTY EverythingSettles
CHECK_DEADLOCK FALSE
