SPECIFICATION FairClientsSpec
CONSTANTS
  r1 = r1
  r2 = r2
  a1 = a1
  a2 = a2
  a3 = a3
  Case <- MCCases
INVARIANTS BlamedRightly RenderedOnce
PROPERTY EveryoneIsServed
