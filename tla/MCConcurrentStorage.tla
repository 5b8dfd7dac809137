------------------------- MODULE MCConcurrentStorage -------------------------
(***************************************************************************)
(* ConcurrentStorage on a small instance: two loaded visits and a free id, *)
(* two locations and two users of the same ids, three workers.             *)
(***************************************************************************)
EXTENDS ConcurrentStorage, TLC

MCLoadedUsers == (1 :> [gender |-> "Male", birth_date |-> 1980]) @@ (2 :> None)
MCLoadedLocations ==
  (1 :> [country |-> "Russia", distance |-> 5])
  @@ (2 :> None)
MCVisit(location_id, user_id) ==
  [location_id |-> location_id, user_id |-> user_id, visited_at |-> 3, mark |-> 4]
MCLoadedVisits == (1 :> MCVisit(1, 1)) @@ (2 :> MCVisit(1, 1)) @@ (3 :> None)

MCMove(v, location_id, user_id, mark) ==
  [op |-> "UpdateVisit", id |-> v,
   arg |-> [location_id |-> location_id, user_id |-> user_id,
            visited_at |-> MaxTimestamp, mark |-> mark]]

MCVisitQuery == [from_date |-> MinTimestamp, to_date |-> MaxTimestamp,
                 country |-> NoText, to_distance |-> 9]
MCAverageQuery == [from_date |-> MinTimestamp, to_date |-> MaxTimestamp,
                   from_age |-> MinTimestamp, to_age |-> MaxTimestamp, gender |-> "Male"]
MCVisitQueries == {MCVisitQuery}
MCAverageQueries == {MCAverageQuery}

MCCalls ==
  {MCMove(1, 2, NoId, MaxMark), MCMove(1, 1, NoId, MaxMark),
   MCMove(1, 2, 2, 5), MCMove(1, NoId, NoId, 5), MCMove(2, NoId, 2, MaxMark),
   [op |-> "AddVisit", id |-> 3, arg |-> MCVisit(1, 1)],
   [op |-> "AddVisit", id |-> 3, arg |-> MCVisit(2, 2)],
   [op |-> "AddUser", id |-> 2, arg |-> [gender |-> "Male", birth_date |-> 1980]],
   [op |-> "AddLocation", id |-> 2, arg |-> [country |-> "Russia", distance |-> 5]],
   [op |-> "UpdateUser", id |-> 1, arg |-> [gender |-> "Female", birth_date |-> MinTimestamp]],
   [op |-> "UpdateLocation", id |-> 1, arg |-> [country |-> NoText, distance |-> 9]],
   [op |-> "GetUserById", id |-> 1, arg |-> None],
   [op |-> "GetLocationById", id |-> 1, arg |-> None],
   [op |-> "GetVisitById", id |-> 1, arg |-> None],
   [op |-> "GetVisistsByUserId", id |-> 1, arg |-> MCVisitQuery],
   [op |-> "GetVisistsByUserId", id |-> 2, arg |-> MCVisitQuery],
   [op |-> "GetAverageLocationMark", id |-> 1, arg |-> MCAverageQuery],
   [op |-> "GetAverageLocationMark", id |-> 2, arg |-> MCAverageQuery]}

Symmetry == Permutations(Workers)
=============================================================================
