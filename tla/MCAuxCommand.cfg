\* The console and two workers; two of the six log levels.
CONSTANTS
  w1 = w1
  w2 = w2
  Workers = {w1, w2}
  Levels = {"INFO", "DEBUG"}
  StartLevel = "INFO"
  MaxCommands = 3
SPECIFICATION Spec
\* All the commands have been taken.
CHECK_DEADLOCK FALSE
PROPERTIES
  IgnoredLeavesLevel
