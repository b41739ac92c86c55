CONSTANTS
  Procs = {"p1", "p2", "p3"}
  Users = {"a", "b", "c"}
  Inviter <- MCInviter
  Nobody = Nobody
  Amounts <- MCAmounts
  Reward = 1
  MaxOps = 3
  MaxDay = 2
  Late = FALSE
  FewProcs = {"p1", "p2"}
  FewUsers = {"a", "b"}
  Issuers = {"i1", "i2"}
  Verifiers = {"v", "w"}
  maxCodeAttempts = 1
  MaxCodes = 2
  MaxGuesses = 5
  MaxBlips = 1
  Logins = {"l", "m"}
  MaxTries = 5
  FewTries = 3
  MaxTime = 8
  FreeTries <- MCFreeTries
  baseLock = 1
  maxLock = 4
  decay = 6
  MaxCrashes = 1
  Callers = {"c1", "c2", "c3"}
  limit = 2
  window = 3
  MaxFaults = 2
  Pages = {"r1", "r2"}
  ttl = 4
  slideAfter = 3
  MaxHours = 10
  MaxSlideFaults = 1
  Registers = {"r"}
  Creates = {"c"}
  Updates = {"u"}
  Minters = {"m1", "m2"}
  Emails = {"e1", "e2"}
  Names = {"n1", "n2"}
  NoName = "none"
  MaxUsers = 2
  MaxKeys = 2
  Deletes = TRUE
  FewNames = {"n1", "none"}
  FewIssuers = {"i1"}
  FewVerifiers = {"v"}
  FewCalls = 4
  FewLogins = {"l"}
SPECIFICATION UsersSpec
INVARIANTS NoLostUpdate RewardedOnce OneAwardPerDay  SessionsAgree AccountsAgree
PROPERTIES StepsKeepTheirWord
CHECK_DEADLOCK FALSE
