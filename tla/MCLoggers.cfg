\* Three names, one of them empty, with a logger for each and the default one; three of the
\* five levels, which the code treats alike.
CONSTANTS
  Names <- MCNames
  Levels <- MCLevels
  Default = "major"
  MaxLoggers = 4
SPECIFICATION Spec
INVARIANTS TypeOK LevelReaches
CHECK_DEADLOCK FALSE
