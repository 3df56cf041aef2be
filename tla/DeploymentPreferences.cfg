SPECIFICATION PreferencesSpec
CONSTANTS
  f1 = f1
  f2 = f2
  f3 = f3
  c1 = c1
  c2 = c2
  c3 = c3
  NoCondition = NoCondition
  Aggregate = Aggregate
  Functions <- MCFunctions
  Conditions <- MCConditions
  Templates <- MCTemplates
INVARIANTS
  GroupsFindWhatTheyName
  AliasesFindGroups
  NothingIdle
CHECK_DEADLOCK FALSE
