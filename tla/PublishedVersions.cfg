SPECIFICATION Spec
CONSTANTS
  Unset = Unset
  MaxUpdates = 3
  Stacks <- MCStacks
INVARIANTS
  ServedAsWritten
  NothingInUseDeleted
  OldVersionsKept
PROPERTIES
  NothingPublishedTwice
