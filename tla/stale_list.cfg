SPECIFICATION Spec
CONSTANTS
  UserIds = {1, 2}
  LocationIds = {1}
  VisitIds = {1, 2}
  Genders = {"Male"}
  Countries = {"Russia"}
  Distances = {5}
  BirthDates = {1980}
  Timestamps = {3}
  Marks = {4}
  NoId = 9
  NoText = ""
  MinTimestamp = 0
  MaxTimestamp = 3000
  MaxMark = 9
  Now = 2017
  AgeModulus = 128
  None = None
  VisitQueries = {}
  AverageQueries = {}
  HandOvers = TRUE
  MaxCopies = 2
INVARIANTS ListedVisitsAreTheUsers
