SPECIFICATION Spec
CONSTANTS
  MaxWrites = 4
  Faults = {"write", "rename", "copy", "remove"}
  Crashes = {"process", "power"}
INVARIANTS
  GoodBytesSurvive
  Durable
PROPERTIES
  ImplementsFile
CHECK_DEADLOCK FALSE
