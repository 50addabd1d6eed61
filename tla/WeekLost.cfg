SPECIFICATION FairReflSpec
CONSTANTS
  DaysPerWeek = 2
  MaxDate = 4
  MaxManual = 0
  MaxFailures = 1
  MaxOutages = 0
PROPERTIES
  WeekIsReviewed
CHECK_DEADLOCK FALSE
