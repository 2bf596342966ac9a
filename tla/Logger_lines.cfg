SPECIFICATION Spec
CONSTANTS
  Threads = {t1, t2}
  NoZone = NoZone
  NoLine = NoLine
  Zones <- MCZones
  Years <- MCYears
  Ends <- MCEnds
  Secs <- MCSecs
  LogTimes <- MCLogTimes
  Room = 100
  NullText = NullText
  Messages <- MCMessages
  MaxLines = 2
INVARIANTS
  CalendarAgrees
  LinesAreTrue
CHECK_DEADLOCK FALSE
