CONSTANTS
  Events <- EventsSmall
  OtherLines <- OtherLinesSmall
  Commands <- CommandsSmall
  OnActions = TRUE
  Number = {"7"}
  Address = {"ip1", "ip2", "ip9"}
  Cleaned <- CleanedSmall
  Rank <- RankSmall
  ProcCap = 2
  MaxAnnotations = 2
  MaxLines = 4
  NoEvent = NoEvent

SPECIFICATION Spec

INVARIANTS
  CorruptLineOnlyCounted

CHECK_DEADLOCK FALSE
