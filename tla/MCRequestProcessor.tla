------------------------- MODULE MCRequestProcessor -------------------------
(***************************************************************************)
(* RequestProcessor on small instances, with ids and marks of few bits.    *)
(***************************************************************************)
EXTENDS RequestProcessor

\* A 64-bit minimum is out of reach of every narrowed number.
MCMinTimestamp == -100

\* Wide ids, dates and marks come back to small ones: 17 to 1, 19 to 3, 20 to 4.
MCUserBodies ==
  {[id |-> 17, gender |-> "m", birth_date |-> 19],
   [id |-> 2, gender |-> "x", birth_date |-> 3],
   [id |-> 1, gender |-> "f", birth_date |-> Wrong],
   [id |-> Absent, gender |-> Absent, birth_date |-> 3],
   NotJson}

MCLocationBodies ==
  {[id |-> 1, country |-> "Russia", distance |-> 5],
   [id |-> Absent, country |-> Absent, distance |-> 16],
   [id |-> 1, country |-> "Russia", distance |-> -5]}

MCVisitBodies ==
  {[id |-> 1, location |-> 1, user |-> 2, visited_at |-> 3, mark |-> 4],
   [id |-> Absent, location |-> 17, user |-> 1, visited_at |-> Absent, mark |-> 20]}

\* For the run that moves visits: one kind of user and of location.
MCPlainUserBodies == {[id |-> 1, gender |-> "m", birth_date |-> 3]}

MCPlainLocationBodies == {[id |-> 18, country |-> "Russia", distance |-> 5]}

MCMovingVisitBodies ==
  {[id |-> 1, location |-> 1, user |-> 2, visited_at |-> 3, mark |-> 4],
   [id |-> 17, location |-> 1, user |-> 1, visited_at |-> 3, mark |-> 4],
   [id |-> Absent, location |-> 18, user |-> Absent, visited_at |-> Absent, mark |-> 20],
   [id |-> Absent, location |-> Absent, user |-> 1, visited_at |-> 2, mark |-> Absent],
   [id |-> Absent, location |-> 1, user |-> 2, visited_at |-> 3, mark |-> -4],
   [id |-> Absent, location |-> Absent, user |-> 2, visited_at |-> Absent, mark |-> 5]}

MCVisitFilters ==
  {[fromDate |-> 2, toDate |-> Absent, country |-> Absent, toDistance |-> Absent]}

MCAverageFilters ==
  {[fromDate |-> Absent, toDate |-> Absent, fromAge |-> Absent, toAge |-> Absent,
    gender |-> "Male"]}
=============================================================================
