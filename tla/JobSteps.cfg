CONSTANTS
  Options <- OptionsSmall
  MaxPolls = 2
  MaxDenied = 2

SPECIFICATION Spec

INVARIANTS
  TypeOK
  StopMeansStopped
  NeverForgotten
  ReportHonest

PROPERTIES
  StopEnds

CHECK_DEADLOCK FALSE
