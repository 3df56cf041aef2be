SPECIFICATION ResourcesSpec
CONSTANTS
  a1 = a1
  a2 = a2
  a3 = a3
  c1 = c1
  c2 = c2
  hp = hp
  ws = ws
  m1 = m1
  m2 = m2
  m3 = m3
  m4 = m4
  m5 = m5
  n1 = n1
  n2 = n2
  n3 = n3
  z1 = z1
  z2 = z2
  NoCondition = NoCondition
  Combined = Combined
  Shared = Shared
  NoDomain = NoDomain
  NoRoute = NoRoute
  NoZone = NoZone
  NoPath = NoPath
  Nothing = Nothing
  NoAuth = NoAuth
  Apis <- MCApis
  Conditions <- MCConditions
  OtherApis <- MCOtherApis
  Templates <- MCBare
  Customs <- MCShared
INVARIANT
  RecordsReachDomains
CHECK_DEADLOCK FALSE
