SPECIFICATION Spec
CONSTANTS
  Zb = zb
  Http = http
  Nobody = nobody
  Manual = manual
  manual = manual
  a = a
  b = b
  v = v
  w = w
  r1 = r1
  r2 = r2
  r3 = r3
  r4 = r4
  b1 = b1
  NoRule = NoRule
  NoBehaviour = NoBehaviour
  NoFile = NoFile
  Torn = Torn
  Gone = Gone
  Nothing = Nothing
  Values = 1
  Attr <- OneAttr
  Var <- OneVar
  Wide <- OneVar
  Rank <- Flat
  MaxRank = 1
  Rule <- ThreeRules
  Defs <- EditDefs
  Behaviour <- NoBehaviours
  Body <- NoBodies
  Bound <- NoBinding
  MaxRules = 2
  FlashRules <- NoneListed
  FlashFiles <- NoFiles
  Allow <- StoreOps
INVARIANTS OnePerId AnsweredKept DeletedStaysGone
