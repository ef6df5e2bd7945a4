SPECIFICATION SpecConsole
CONSTANTS
  Tasks = {"t1", "t2"}
  MaxQueue = 1
  MaxNodes = 1
PROPERTIES
  ConsoleReturns
  ComesBack
