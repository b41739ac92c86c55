CONSTANTS
  Calls = {c1, c2}
  Procs = {p1, p2}
  Submissions <- AnyMode
  NoCall = none
  MaxFaults = 1
  Single = p1
  Files = {f1}
  Copies = {i1}
  Logos = {l1, l2}
  Assets = {s1}
  Admins = {m1, m2}
  Pruners = {"sweep", "saved"}
  PickOld = TRUE
  Faults = {"put", "delete"}
  MaxStoreFaults = 2
  FewFaults = 1
  Ids = {1, 2, 3}
  Names = {0, 1, 2, 3}
  Builtin = {1}
  Upstreams = {"u", "v"}
  Lists = {{}, {2, 3}}
  AdminsOverlap = FALSE
  MaxSeeds = 1
  NoAlias = 9
  Gens = {1, 2, 3}
  History = {1}
  StartsOverlap = FALSE
  MaxClears = 1
  MaxStarts = 3
  MaxDeaths = 1
  SeedFaults = FALSE
SPECIFICATION FairMediaSpec
INVARIANTS PollsAreRight NamesResolve
PROPERTIES HomeIsSpared CountedOnce NothingLasts
CHECK_DEADLOCK FALSE
