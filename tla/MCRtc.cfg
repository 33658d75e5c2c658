SPECIFICATION Spec
CONSTANTS
  First <- FirstValues
  Last <- LastValues
  CurrentYear = 2025
PROPERTIES
  ReadsAMoment
  ReadEnds
CHECK_DEADLOCK FALSE
