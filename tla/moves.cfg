SPECIFICATION Spec
CONSTANTS
  UserIds = {1, 2}
  LocationIds = {1, 2}
  VisitIds = {1}
  Genders = {"Male"}
  Countries = {"Russia"}
  Distances = {5}
  BirthDates = {3}
  Timestamps = {2, 3}
  Marks = {4, 5}
  NoId = 15
  NoText = ""
  MinTimestamp <- MCMinTimestamp
  MaxTimestamp = 3000
  MaxMark = 7
  Now = 2017
  AgeModulus = 128
  None = None
  VisitFilters <- MCVisitFilters
  AverageFilters <- MCAverageFilters
  UserBodies <- MCPlainUserBodies
  LocationBodies <- MCPlainLocationBodies
  VisitBodies <- MCMovingVisitBodies
  Absent = Absent
  Wrong = Wrong
  NotJson = NotJson
  IdModulus = 16
  MarkModulus = 16
  MaxDistance = 15
  HandOvers = TRUE
  MaxCopies = 2
  NoRequest = NoRequest
PROPERTIES RetriedChangesNothing AcceptedTakesEffect
