SPECIFICATION Spec
CONSTANTS
  c1 = c1
  c2 = c2
  c3 = c3
  ImplicitApi = ImplicitApi
  ManagedApi = ManagedApi
  UnmanagedApi = UnmanagedApi
  MergedApi = MergedApi
  MissingApi = MissingApi
  ApiCondition = ApiCondition
  NoCondition = NoCondition
  NoPath = NoPath
  Conditions <- MCConditions
  Paths <- MCPaths
  Templates <- MCTemplates
INVARIANTS
  RoutesReachable
  ApisFollowFunctions
  RefusedForCause
CHECK_DEADLOCK FALSE
