CONSTANTS
  m1 = m1
  m2 = m2
  n1 = n1
  Parts = {"orders", "codes"}
  Users = {u1}
  Nobody = nobody
  Orders = {o1, o2}
  Handlers = {h1, h2}
  Ratios = {1, 3}
  NoOrder = none
  Late = TRUE
  MaxFaults = 1
  Redeemers = {u1, u2}
  NoRedeemer = nobody
  Codes = {m1, m2, n1}
  Batch <- Batches
  Marketing = {m1, m2}
  Amounts = {2}
  Requests = {r1, r2}
  NoRequest = none
  NoCode = none
  MaxDeletes = 1
  MaxCdkFaults = 1
SPECIFICATION FairSpec
INVARIANTS CreditsArePaidFor OnePerBatch
PROPERTIES ImplementsCreditOnce CdkImplementsCreditOnce LostByFaultsOnly
CHECK_DEADLOCK FALSE
