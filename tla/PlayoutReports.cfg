SPECIFICATION RSpec
CONSTANTS
  BuffSize = 3
  Ids = {0, 1, 2, 3, 4, 5, 6}
  StartDiff = 1
  PrintDiff = 2
  MaxTime = 6
INVARIANTS TypeOK NeverExits RingInWindow ReportsAddUp
PROPERTIES PlaysInOrder ImplementsPlayout ReportsCoverTheirEvents
CHECK_DEADLOCK FALSE
