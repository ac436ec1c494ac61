SPECIFICATION Spec
CONSTANTS
  k1 = k1
  k2 = k2
  a1 = a1
  a2 = a2
  daily = daily
  hourly = hourly
  wide = wide
  Nothing = Nothing
  Keep = Keep
  Off = Off
  Keys <- MCKeys
  Actors <- MCActors
  Times <- MCTimes
  Parameters <- MCParameters
  Catalogue <- MCCatalogue
  Crons <- MCCrons
  Updates <- MCUpdates
  MaxJobs = 3
  MaxMishaps = 1
INVARIANTS
  UnmarkedIsInPrefect
PROPERTIES
  OnlyNamedFieldsChange
  JobsEnd
CHECK_DEADLOCK FALSE
