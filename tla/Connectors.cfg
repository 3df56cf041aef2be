CONSTANTS
  A = A
  B = B
  F = F
  H = H
  S = S
  D = D
  Q = Q
  T = T
  M = M
  R = R
  E = E
  X = X
  Y = Y
  NoRole = NoRole
  Plain <- MCPlain
  Outside <- MCOutside
  Connectors <- MCConnectorIds
  TypeOf <- MCTypeOf
  RoleOf <- MCRoleOf
  Known <- MCKnown
  RefsOf <- MCRefsOf
  Templates <- MCTemplates
SPECIFICATION Spec
INVARIANTS OrderKept WaitForPolicies NoNewCircle
CHECK_DEADLOCK FALSE
