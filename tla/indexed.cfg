SPECIFICATION Spec
CONSTANTS
  UserIds = {1, 2}
  LocationIds = {1, 2}
  VisitIds = {1, 2}
  Genders = {"Male"}
  Countries = {"Russia", "Peru"}
  Distances = {5}
  BirthDates = {1980}
  Timestamps = {3, 4}
  Marks = {4}
  NoId = 99
  NoText = ""
  MinTimestamp = 0
  MaxTimestamp = 3000
  MaxMark = 9
  Now = 2017
  AgeModulus = 128
  None = None
  MaxDistance = 1000
  MaxCopies = 2
  Changes <- MCChanges
  VisitQueries <- MCVisitQueries
  AverageQueries <- MCAverageQueries
VIEW MCView
INVARIANTS
  TypeOK LocationIndexExact EntriesKnown PairsCounted UserIndexExact MapsAgree AnswersExact
PROPERTIES RefusedLeavesLists
CHECK_DEADLOCK FALSE
