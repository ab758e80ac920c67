SPECIFICATION Spec
CONSTANTS
  Builds <- AllBuilds
  Calls <- AllCalls
  NoCall = none
INVARIANTS
  HandlerReports
PROPERTIES
  Implements
