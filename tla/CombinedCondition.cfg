SPECIFICATION CombineSpec
CONSTANTS
  c1 = c1
  c2 = c2
  MaxLength = 8
  MaxConditions = 3
  TemplateConditions <- MCConditions
  Lists <- MCLists
INVARIANT AcceptedDisjunction
CHECK_DEADLOCK FALSE
