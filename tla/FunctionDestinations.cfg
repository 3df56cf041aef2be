SPECIFICATION Spec
CONSTANTS
  f1 = f1
  f2 = f2
  c1 = c1
  c2 = c2
  Globals = Globals
  NoCondition = NoCondition
  NoQueue = NoQueue
  NoMeaning = NoMeaning
  Functions <- MCFunctions
  Conditions <- MCConditions
  Templates <- MCTemplates
INVARIANTS
  ReferencesFound
  QueuesAsWritten
  RolesNeedFunctions
CHECK_DEADLOCK FALSE
