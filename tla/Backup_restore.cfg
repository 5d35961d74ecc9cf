\* Two operations of one process and a third of another, three rows written.
CONSTANTS
  o1 = o1  o2 = o2  o3 = o3  p1 = p1  p2 = p2
  Processes = {p1, p2}
  Operations = {o1, o2, o3}
  ProcessOf <- OneElsewhere
  Writes = {w1, w2}
SPECIFICATION FairBackupSpec
CHECK_DEADLOCK FALSE
INVARIANTS NothingIsLost JournalIsTrue
PROPERTIES BusyEnds
