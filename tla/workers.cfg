SPECIFICATION Spec
CONSTANTS
  UserIds = {1, 2}
  LocationIds = {1, 2}
  VisitIds = {1, 2, 3}
  Genders = {"Male", "Female"}
  Countries = {"Russia"}
  Distances = {5, 9}
  BirthDates = {1980}
  Timestamps = {3}
  Marks = {4, 5}
  NoId = 99
  NoText = ""
  MinTimestamp = 0
  MaxTimestamp = 3000
  MaxMark = 9
  Now = 2017
  AgeModulus = 128
  None = None
  Workers = {w1, w2, w3}
  MaxCalls = 3
  Calls <- MCCalls
  VisitQueries <- MCVisitQueries
  AverageQueries <- MCAverageQueries
  LoadedUsers <- MCLoadedUsers
  LoadedLocations <- MCLoadedLocations
  LoadedVisits <- MCLoadedVisits
SYMMETRY Symmetry
INVARIANTS
  TypeOK SettledVisitsAtTheirLocation SettledVisitsUnderTheirUser
  SteadyVisitsAveraged NeverCountedTwice SteadyVisitsListed
PROPERTIES VisitsStay ImplementsVisitChanges
CHECK_DEADLOCK FALSE
