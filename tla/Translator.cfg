SPECIFICATION Spec
CONSTANTS
  NoId = NoId
  ImplicitApis <- MCImplicitApis
  Ids <- MCIds
  CodeDeployIds <- MCCodeDeployIds
  PluginNames <- MCPluginNames
  PluginLists <- MCPluginLists
  Templates <- MCTemplates
INVARIANTS
  NoSamResourceLeft
  ApisComplete
  RefsFollowIds
  NothingOverwritten
PROPERTIES
  ConnectorsSeeOutput
CHECK_DEADLOCK FALSE
