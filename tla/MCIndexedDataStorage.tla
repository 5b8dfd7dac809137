------------------------ MODULE MCIndexedDataStorage ------------------------
(***************************************************************************)
(* IndexedDataStorage on a small instance.                                 *)
(***************************************************************************)
EXTENDS IndexedDataStorage

\* No filter; filters that the one distance, birth date and gender pass, where
\* the country tells visits apart; and filters that they do not pass.
MCVisitQueries ==
  {[from_date |-> MinTimestamp, to_date |-> MaxTimestamp,
    country |-> NoText, to_distance |-> MaxDistance],
   [from_date |-> 3, to_date |-> MaxTimestamp,
    country |-> "Russia", to_distance |-> 9],
   [from_date |-> MinTimestamp, to_date |-> 4,
    country |-> NoText, to_distance |-> 5]}

MCAverageQueries ==
  {[from_date |-> MinTimestamp, to_date |-> MaxTimestamp,
    from_age |-> MinTimestamp, to_age |-> MaxTimestamp, gender |-> "Any"],
   [from_date |-> 3, to_date |-> MaxTimestamp,
    from_age |-> 37, to_age |-> 37, gender |-> "Male"],
   [from_date |-> MinTimestamp, to_date |-> 4,
    from_age |-> 38, to_age |-> MaxTimestamp, gender |-> "Any"],
   [from_date |-> MinTimestamp, to_date |-> MaxTimestamp,
    from_age |-> MinTimestamp, to_age |-> MaxTimestamp, gender |-> "Female"]}

\* A move to either location, a hand-over, with or without a new time, and a
\* new time.
MCChanges ==
  {[location_id |-> l, user_id |-> NoId, visited_at |-> MaxTimestamp, mark |-> MaxMark] :
     l \in LocationIds}
  \cup {[location_id |-> NoId, user_id |-> u, visited_at |-> t, mark |-> MaxMark] :
           u \in UserIds, t \in {4, MaxTimestamp}}
  \cup {[location_id |-> NoId, user_id |-> NoId, visited_at |-> 4, mark |-> MaxMark]}

\* No call reads the answer of another, and a storage that has stopped is as it
\* was when it stopped.
MCView ==
  IF phase \in {"Loading", "Serving"} THEN <<phase, containers, indexes, history>>
  ELSE <<phase>>
=============================================================================
