SPECIFICATION Spec
CONSTANTS
  MaxActivities = 2
  MaxReports = 2
  Day = 3
  Window = 2
  MaxTime = 6
  MaxLoads = 1
INVARIANTS TypeOK OneReader OpeningIsLogged LoggedOnce ListIsTable
CHECK_DEADLOCK FALSE
