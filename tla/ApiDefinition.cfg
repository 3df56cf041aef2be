SPECIFICATION Spec
CONSTANTS
  Unset = Unset
  NoDocument = NoDocument
  Templates <- MCTemplates
INVARIANTS
  RoutesGuarded
  NamesDefined
  PolicyCovers
  NothingLost
