CONSTANTS
  a1 = a1
  a2 = a2
  Admins <- MCAdmins
  Lengths <- MCLengths
  TrialDays = 1
  GraceDays = 1
  MaxTime = 3
  MaxRows = 2
  MaxChanges = 2
SPECIFICATION PeriodsSpec
INVARIANTS GrantedTimeIsServed OneTrial
PROPERTY EndedSettles
CHECK_DEADLOCK FALSE
