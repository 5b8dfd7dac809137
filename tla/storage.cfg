SPECIFICATION Spec
CONSTANTS
  UserIds = {1, 2}
  LocationIds = {1, 2}
  VisitIds = {1}
  Genders = {"Male", "Female"}
  Countries = {"Russia", "China"}
  Distances = {5}
  BirthDates = {1980}
  Timestamps = {3, 4}
  Marks = {4}
  NoId = 9
  NoText = ""
  MinTimestamp = 0
  MaxTimestamp = 3000
  MaxMark = 9
  Now = 2017
  AgeModulus = 128
  None = None
  VisitQueries <- MCVisitQueries
  AverageQueries <- MCAverageQueries
  HandOvers = FALSE
  MaxCopies = 1
INVARIANTS TypeOK LocationIndexExact UserIndexExact
PROPERTIES ImplementsIDataStorage
