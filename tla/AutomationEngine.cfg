SPECIFICATION FairSpec
CONSTANTS
  Zb = zb
  Http = http
  Nobody = nobody
  Manual = manual
  manual = manual
  a = a
  b = b
  v = v
  w = w
  r1 = r1
  r2 = r2
  r3 = r3
  r4 = r4
  b1 = b1
  NoRule = NoRule
  NoBehaviour = NoBehaviour
  NoFile = NoFile
  Torn = Torn
  Gone = Gone
  Nothing = Nothing
  Values = 2
  Attr <- TwoAttrs
  Var <- TwoVars
  Wide = {}
  Rank <- Depth
  MaxRank = 2
  Rule <- FourRules
  Defs <- FourDefs
  Behaviour <- OneBehaviour
  Body <- Bodies
  Bound <- Bindings
  MaxRules = 4
  FlashRules <- FourListed
  FlashFiles <- FourFiles
  Allow <- EngineOps
INVARIANTS TypeOK NestingBounded ByPriority
PROPERTIES GivenByTaker Settles Answered
