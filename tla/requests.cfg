SPECIFICATION Spec
CONSTANTS
  UserIds = {1, 2}
  LocationIds = {1}
  VisitIds = {1}
  Genders = {"Male", "Female"}
  Countries = {"Russia"}
  Distances = {5}
  BirthDates = {3, 19}
  Timestamps = {3}
  Marks = {4}
  NoId = 15
  NoText = ""
  MinTimestamp <- MCMinTimestamp
  MaxTimestamp = 3000
  MaxMark = 7
  Now = 2017
  AgeModulus = 128
  None = None
  VisitFilters <- MCVisitFilters
  AverageFilters <- MCAverageFilters
  UserBodies <- MCUserBodies
  LocationBodies <- MCLocationBodies
  VisitBodies <- MCVisitBodies
  Absent = Absent
  Wrong = Wrong
  NotJson = NotJson
  IdModulus = 16
  MarkModulus = 16
  MaxDistance = 15
  HandOvers = TRUE
  MaxCopies = 1
  NoRequest = NoRequest
PROPERTIES RefusedChangesNothing
