------------------------------ MODULE Entities ------------------------------
(***************************************************************************)
(* The data of the service (DataStorage/Entities, DataStorage/IDataStorage.h): *)
(* users, locations and visits, the partial records an update carries and  *)
(* the filters of the two queries.  The attributes no filter reads (email,  *)
(* first_name, last_name, place, city) are left out: they are stored and   *)
(* returned, and an update replaces them by the rule `country` follows.    *)
(***************************************************************************)
EXTENDS Integers

CONSTANTS
  UserIds, LocationIds, VisitIds,    \* the ids clients and data files use
  Genders, Countries, Distances,     \* the attribute values they use
  BirthDates, Timestamps, Marks,
  NoId, NoText,                      \* numeric_limits<Id>::max(), ""
  MinTimestamp, MaxTimestamp,        \* numeric_limits<Timestamp>::min(), max()
  MaxMark,                           \* numeric_limits<Mark>::max()
  Now,                               \* the year of the first average request
  AgeModulus,                        \* 2^16: an Age is a uint16_t
  None                               \* absence: end() of a container, nullptr

\* Every container is keyed by Id, so the ids of users, locations and visits
\* are integers that may coincide.
ASSUME IdAssumption ==
  /\ UserIds \subseteq Nat
  /\ LocationIds \subseteq Nat
  /\ VisitIds \subseteq Nat
  /\ NoId \notin UserIds \cup LocationIds

\* The third Gender, Any, stands for a gender that is not given.
ASSUME GenderAssumption == Genders \subseteq {"Male", "Female"}

\* User.h, Location.h, Visit.h
User == [gender : Genders, birth_date : BirthDates]
Location == [country : Countries, distance : Distances]
Visit == [location_id : LocationIds, user_id : UserIds,
          visited_at : Timestamps, mark : Marks]

\* None is not an entity.
ASSUME NoneAssumption == None \notin User \cup Location \cup Visit

(***************************************************************************)
(* What an update carries: an entity whose missing attributes hold the     *)
(* values its default constructor gives them.                              *)
(***************************************************************************)
UserUpdates == [gender : Genders \cup {"Any"},
                birth_date : BirthDates \cup {MinTimestamp}]
LocationUpdates == [country : Countries \cup {NoText},
                    distance : Distances \cup {0}]
VisitUpdates == [location_id : LocationIds \cup {NoId},
                 user_id : UserIds \cup {NoId},
                 visited_at : Timestamps \cup {MaxTimestamp},
                 mark : Marks \cup {MaxMark}]

\* An attribute is replaced unless the update holds its "not given" value.
Given(new, not_given, old) == IF new = not_given THEN old ELSE new

UpdatedUser(user, update) ==
  [gender |-> Given(update.gender, "Any", user.gender),
   birth_date |-> Given(update.birth_date, MinTimestamp, user.birth_date)]

UpdatedLocation(location, update) ==
  [country |-> Given(update.country, NoText, location.country),
   distance |-> Given(update.distance, 0, location.distance)]

UpdatedVisit(visit, update) ==
  [location_id |-> Given(update.location_id, NoId, visit.location_id),
   user_id |-> Given(update.user_id, NoId, visit.user_id),
   visited_at |-> Given(update.visited_at, MaxTimestamp, visit.visited_at),
   mark |-> Given(update.mark, MaxMark, visit.mark)]

(***************************************************************************)
(* The filters.  A query is a record of the bounds it sets; a bound that   *)
(* is not set holds the default of GetVisistsByUserIdQuery or              *)
(* GetAverageLocationMarkQuery.  to_distance has no such exemption: the    *)
(* code compares it with the maximum of another type, so the filter runs   *)
(* for every query.                                                        *)
(***************************************************************************)
InDates(query, visited_at) ==
  /\ query.from_date # MinTimestamp => query.from_date < visited_at
  /\ query.to_date # MaxTimestamp => query.to_date > visited_at

VisitSelected(query, visit, location) ==
  /\ InDates(query, visit.visited_at)
  /\ query.country # NoText => query.country = location.country
  /\ query.to_distance > location.distance

\* The calendar is counted in years; the age of a query, a Timestamp, is
\* narrowed to an Age on the way in.
GetBoundaryBirthDate(age) == Now - (age % AgeModulus)

MarkSelected(query, visit, user) ==
  /\ InDates(query, visit.visited_at)
  /\ query.gender # "Any" => user.gender = query.gender
  /\ query.from_age # MinTimestamp
       => user.birth_date < GetBoundaryBirthDate(query.from_age)
  /\ query.to_age # MaxTimestamp
       => user.birth_date > GetBoundaryBirthDate(query.to_age)
=============================================================================
