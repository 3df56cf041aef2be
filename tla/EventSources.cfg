CONSTANTS
  F = F
  G = G
  M = M
  c1 = c1
  s1 = s1
  s2 = s2
  NoCondition = NoCondition
  NoSource = NoSource
  Functions <- MCFunctions
  Machines <- MCMachines
  Conditions <- MCConditions
  Sources <- MCSources
  Secrets <- MCSecrets
  Templates <- MCTemplates
SPECIFICATION Spec
INVARIANTS NothingDangles SourcesMayInvoke BucketsWait DeadLettersArrive RolesServeMappings
CHECK_DEADLOCK FALSE
