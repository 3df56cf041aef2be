SPECIFICATION FairSpec
CONSTANTS
  a1 = a1
  a2 = a2
  k1 = k1
  k2 = k2
  kIntrinsic = kIntrinsic
  kRejected = kRejected
  NoApp = NoApp
  Apps <- MCApps
  Keys <- MCKeys
  Unresolvable = {kIntrinsic}
  Rejected = {kRejected}
  Blank = {k2}
  Sleep = 2
  Timeout = 5
  MaxRounds = 2
INVARIANTS
  OnlyActiveTemplates
PROPERTIES
  AnswersKept
  ImplementsGate
  Terminates
CHECK_DEADLOCK FALSE
