-------------------------- MODULE RequestProcessor --------------------------
(***************************************************************************)
(* RequestProcessor::ProcessRequest (HttpServer/RequestProcessor.cpp) on   *)
(* top of DataStorageNew: what each parsed request makes of the storage,   *)
(* and the status it is answered with.  Requests are processed one at a    *)
(* time here.                                                              *)
(*                                                                         *)
(* A request is what HttpParser made of it: a type, an id, filters and a   *)
(* body.  A body is NotJson or a record with a value, Absent or Wrong (a   *)
(* value of another JSON type) for each attribute; numbers are as long as  *)
(* JSON allows and are narrowed where the code narrows them.  In the       *)
(* Release build rapidjson's GetInt takes the low 32 bits.                 *)
(***************************************************************************)
EXTENDS Entities

CONSTANTS
  VisitFilters,              \* the query parameters of /users/<id>/visits
  AverageFilters,            \* and of /locations/<id>/avg
  UserBodies, LocationBodies, VisitBodies,
  Absent, Wrong, NotJson,
  IdModulus,                 \* 2^32: Id and Distance are uint32_t, int has 32 bits
  MarkModulus,               \* 2^16: a Mark is a short
  MaxDistance,               \* numeric_limits<Distance>::max()
  HandOvers, MaxCopies,      \* see DataStorage
  NoRequest

VARIABLES
  phase, users_, locations_, visits_,
  users_to_visits_, locations_to_visits_, answer,
  request,                   \* the last request
  reply                      \* the RequestProcessingStatus of its answer

(***************************************************************************)
(* Narrowing conversions.                                                  *)
(***************************************************************************)
Signed(n, modulus) ==
  LET half == modulus \div 2 IN ((n + half) % modulus) - half

ToId(n) == n % IdModulus
ToInt(n) == Signed(n, IdModulus)
ToMark(n) == Signed(n, MarkModulus)

\* rapidjson's IsUint64, IsUint, IsInt64 and IsString.
IsUint64(value) == value \notin {Absent, Wrong} /\ value >= 0
IsUint(value) == IsUint64(value) /\ value < IdModulus
IsInt64(value) == value \notin {Absent, Wrong}
IsString(value) == value \notin {Absent, Wrong}

ToGender(text) == IF text = "m" THEN "Male" ELSE "Female"

(***************************************************************************)
(* Validate and Deserialize of a new entity.                               *)
(***************************************************************************)
ValidateUser(body) ==
  /\ body # NotJson
  /\ IsUint64(body.id) /\ IsString(body.gender) /\ IsInt64(body.birth_date)

ValidateLocation(body) ==
  /\ body # NotJson
  /\ IsUint64(body.id) /\ IsString(body.country) /\ IsUint64(body.distance)

ValidateVisit(body) ==
  /\ body # NotJson
  /\ IsUint(body.id) /\ IsUint(body.location) /\ IsUint(body.user)
  /\ IsInt64(body.visited_at) /\ IsUint64(body.mark)

NewUser(body) ==
  [gender |-> ToGender(body.gender), birth_date |-> ToInt(body.birth_date)]

NewLocation(body) ==
  [country |-> body.country, distance |-> ToId(body.distance)]

NewVisit(body) ==
  [location_id |-> body.location, user_id |-> body.user,
   visited_at |-> ToInt(body.visited_at), mark |-> ToMark(body.mark)]

(***************************************************************************)
(* EntitiesValidator, and the partial entities of an update.               *)
(***************************************************************************)
UserDataForUpdate(body) ==
  /\ body # NotJson
  /\ body.gender # Absent => IsString(body.gender)
  /\ body.birth_date # Absent => IsInt64(body.birth_date)

LocationDataForUpdate(body) ==
  /\ body # NotJson
  /\ body.country # Absent => IsString(body.country)
  /\ body.distance # Absent => IsUint64(body.distance)

VisitDataForUpdate(body) ==
  /\ body # NotJson
  /\ body.location # Absent => IsUint64(body.location)
  /\ body.user # Absent => IsUint64(body.user)
  /\ body.visited_at # Absent => IsInt64(body.visited_at)
  /\ body.mark # Absent => IsUint64(body.mark)

FillUserToUpdate(body) ==
  [gender |-> IF body.gender = Absent THEN "Any" ELSE ToGender(body.gender),
   birth_date |-> IF body.birth_date = Absent THEN MinTimestamp ELSE body.birth_date]

FillLocationToUpdate(body) ==
  [country |-> IF body.country = Absent THEN NoText ELSE body.country,
   distance |-> IF body.distance = Absent THEN 0 ELSE ToId(body.distance)]

\* Mutant: the bit of the mark is tested for the date.
FillVisitToUpdate_Mutant(body) ==
  [location_id |-> IF body.location = Absent THEN NoId ELSE ToId(body.location),
   user_id |-> IF body.user = Absent THEN NoId ELSE ToId(body.user),
   visited_at |-> IF body.mark = Absent \/ body.visited_at = Absent
                  THEN MaxTimestamp ELSE body.visited_at,
   mark |-> IF body.mark = Absent THEN MaxMark ELSE ToMark(body.mark)]

FillVisitToUpdate(body) ==
  [location_id |-> IF body.location = Absent THEN NoId ELSE ToId(body.location),
   user_id |-> IF body.user = Absent THEN NoId ELSE ToId(body.user),
   visited_at |-> IF body.visited_at = Absent THEN MaxTimestamp ELSE body.visited_at,
   mark |-> IF body.mark = Absent THEN MaxMark ELSE ToMark(body.mark)]

(***************************************************************************)
(* The queries.  A filter that is Absent leaves the default in the query.  *)
(***************************************************************************)
OrDefault(value, default) == IF value = Absent THEN default ELSE value

FillVisistsByUserIdQuery(filters) ==
  [from_date |-> OrDefault(filters.fromDate, MinTimestamp),
   to_date |-> OrDefault(filters.toDate, MaxTimestamp),
   country |-> OrDefault(filters.country, NoText),
   to_distance |-> OrDefault(filters.toDistance, MaxDistance)]

FillAverageLocationMarkQuery(filters) ==
  [from_date |-> OrDefault(filters.fromDate, MinTimestamp),
   to_date |-> OrDefault(filters.toDate, MaxTimestamp),
   from_age |-> OrDefault(filters.fromAge, MinTimestamp),
   to_age |-> OrDefault(filters.toAge, MaxTimestamp),
   gender |-> OrDefault(filters.gender, "Any")]

Storage == INSTANCE DataStorage WITH
             VisitQueries <- {FillVisistsByUserIdQuery(filters) : filters \in VisitFilters},
             AverageQueries <- {FillAverageLocationMarkQuery(filters) :
                                  filters \in AverageFilters}

\* As in DataStorage.
ASSUME HandOversAssumption == HandOvers \in BOOLEAN
ASSUME MaxCopiesAssumption == MaxCopies \in Nat \ {0}

stored == <<users_, locations_, visits_, users_to_visits_, locations_to_visits_>>
vars == <<phase, stored, answer, request, reply>>

\* What clients send keeps to the ids and values the storage is declared with.
ASSUME BodiesAssumption ==
  /\ \A body \in UserBodies : ValidateUser(body) =>
       ToId(body.id) \in UserIds /\ NewUser(body) \in User
  /\ \A body \in LocationBodies : ValidateLocation(body) =>
       ToId(body.id) \in LocationIds /\ NewLocation(body) \in Location
  /\ \A body \in VisitBodies : ValidateVisit(body) =>
       body.id \in VisitIds /\ NewVisit(body) \in Visit
ASSUME UpdatesAssumption ==
  /\ \A body \in UserBodies :
       UserDataForUpdate(body) => FillUserToUpdate(body) \in UserUpdates
  /\ \A body \in LocationBodies :
       LocationDataForUpdate(body) => FillLocationToUpdate(body) \in LocationUpdates
  /\ \A body \in VisitBodies :
       VisitDataForUpdate(body) => FillVisitToUpdate(body) \in VisitUpdates

\* The ids and values of entities survive the narrowing, and none of them means
\* "not given".
ASSUME ValuesAssumption ==
  /\ \A id \in LocationIds \cup UserIds : ToId(id) = id
  /\ \A mark \in Marks : ToMark(mark) = mark
  /\ MaxTimestamp \notin Timestamps
  /\ MaxMark \notin Marks
  /\ Absent \notin LocationIds \cup UserIds \cup Timestamps \cup Marks

(***************************************************************************)
(* ProcessRequest.  Each request is one call of the storage, or none.      *)
(***************************************************************************)
\* The request is refused before the storage is asked.
Refuse(status) ==
  /\ phase = "Serving"
  /\ reply' = status
  /\ UNCHANGED <<phase, stored, answer>>

CommonGetEntity == reply' = IF answer'[2] = None THEN "NotFound" ELSE "Ok"

ProcessGetEntityById(type, id) ==
  /\ \/ type = "GetUserById" /\ id \in UserIds /\ Storage!GetUserById(id)
     \/ type = "GetLocationById" /\ id \in LocationIds /\ Storage!GetLocationById(id)
     \/ type = "GetVisitById" /\ id \in VisitIds /\ Storage!GetVisitById(id)
  /\ CommonGetEntity

ProcessGetVisitsByUserId(id, filters) ==
  /\ Storage!GetVisistsByUserId(id, FillVisistsByUserIdQuery(filters))
  /\ CommonGetEntity

ProcessAverageLocationMark(id, filters) ==
  /\ Storage!GetAverageLocationMark(id, FillAverageLocationMarkQuery(filters))
  /\ CommonGetEntity

UpdateReply ==
  reply' = IF answer' = Storage!EntitySuccessfullyUpdated THEN "Ok" ELSE "NotFound"

\* Mutant: the attributes that are valid are applied before the rest is seen.
ProcessUpdateUser_Mutant(id, body) ==
  IF body = NotJson THEN Refuse("BadRequest")
  ELSE /\ Storage!UpdateUser(id, FillUserToUpdate(
              [body EXCEPT !.birth_date = IF @ = Wrong THEN Absent ELSE @]))
       /\ IF UserDataForUpdate(body) THEN UpdateReply ELSE reply' = "BadRequest"

ProcessUpdateUser(id, body) ==
  IF UserDataForUpdate(body)
  THEN Storage!UpdateUser(id, FillUserToUpdate(body)) /\ UpdateReply
  ELSE Refuse("BadRequest")

ProcessUpdateLocation(id, body) ==
  IF LocationDataForUpdate(body)
  THEN Storage!UpdateLocation(id, FillLocationToUpdate(body)) /\ UpdateReply
  ELSE Refuse("BadRequest")

ProcessUpdateVisit(id, body) ==
  IF VisitDataForUpdate(body)
  THEN Storage!UpdateVisit(id, FillVisitToUpdate(body)) /\ UpdateReply
  ELSE Refuse("BadRequest")

AddReply ==
  reply' = IF answer' = Storage!EntitySuccessfullyAdded THEN "Ok" ELSE "BadRequest"

ProcessAddUser(body) ==
  IF ValidateUser(body)
  THEN Storage!AddUser(ToId(body.id), NewUser(body)) /\ AddReply
  ELSE Refuse("BadRequest")

ProcessAddLocation(body) ==
  IF ValidateLocation(body)
  THEN Storage!AddLocation(ToId(body.id), NewLocation(body)) /\ AddReply
  ELSE Refuse("BadRequest")

ProcessAddVisit(body) ==
  IF ValidateVisit(body)
  THEN Storage!AddVisit(body.id, NewVisit(body)) /\ AddReply
  ELSE Refuse("BadRequest")

\* What ParseHttpRequest returns instead of a request: its two errors, and
\* nothing for a URL that cannot be parsed.
Refusals == [type : {"ErrorTypeNotFound", "ErrorTypeBadRequest", "None"}]

Status(refusal) ==
  CASE refusal.type = "ErrorTypeNotFound" -> "NotFound"
    [] refusal.type = "ErrorTypeBadRequest" -> "BadRequest"
    [] refusal.type = "None" -> "HttpParserUnknownRequestType"

Gets == [type : {"GetUserById", "GetLocationById", "GetVisitById"},
         id : UserIds \cup LocationIds \cup VisitIds]
VisitsGets == [type : {"GetVisitsByUserId"}, id : UserIds, filters : VisitFilters]
AverageGets == [type : {"GetAverageLocationMark"}, id : LocationIds,
                filters : AverageFilters]
UserUpdateRequests == [type : {"UpdateUserById"}, id : UserIds, body : UserBodies]
LocationUpdateRequests ==
  [type : {"UpdateLocationById"}, id : LocationIds, body : LocationBodies]
VisitUpdateRequests == [type : {"UpdateVisitById"}, id : VisitIds, body : VisitBodies]
UserAdds == [type : {"AddUser"}, body : UserBodies]
LocationAdds == [type : {"AddLocation"}, body : LocationBodies]
VisitAdds == [type : {"AddVisit"}, body : VisitBodies]

\* NoRequest is not a request to change anything.
ASSUME NoRequestAssumption ==
  NoRequest \notin UserUpdateRequests \cup LocationUpdateRequests
                  \cup VisitUpdateRequests
                  \cup UserAdds \cup LocationAdds \cup VisitAdds

ProcessRequest ==
  \/ \E r \in Refusals : Refuse(Status(r)) /\ request' = r
  \/ \E r \in Gets : ProcessGetEntityById(r.type, r.id) /\ request' = r
  \/ \E r \in VisitsGets : ProcessGetVisitsByUserId(r.id, r.filters) /\ request' = r
  \/ \E r \in AverageGets : ProcessAverageLocationMark(r.id, r.filters) /\ request' = r
  \/ \E r \in UserUpdateRequests : ProcessUpdateUser(r.id, r.body) /\ request' = r
  \/ \E r \in LocationUpdateRequests :
       ProcessUpdateLocation(r.id, r.body) /\ request' = r
  \/ \E r \in VisitUpdateRequests : ProcessUpdateVisit(r.id, r.body) /\ request' = r
  \/ \E r \in UserAdds : ProcessAddUser(r.body) /\ request' = r
  \/ \E r \in LocationAdds : ProcessAddLocation(r.body) /\ request' = r
  \/ \E r \in VisitAdds : ProcessAddVisit(r.body) /\ request' = r

\* The server's constructor loads the storage before it serves.
LoadZippedData ==
  /\ \/ \E u \in UserIds, user \in User : Storage!LoadUser(u, user)
     \/ \E l \in LocationIds, location \in Location : Storage!LoadLocation(l, location)
     \/ \E v \in VisitIds, visit \in Visit : Storage!LoadVisit(v, visit)
     \/ Storage!MapEntities
  /\ UNCHANGED <<request, reply>>

Init ==
  /\ Storage!Init
  /\ request = NoRequest
  /\ reply = "None"

Next == LoadZippedData \/ ProcessRequest

Spec == Init /\ [][Next]_vars

-----------------------------------------------------------------------------
(***************************************************************************)
(* Properties.                                                             *)
(***************************************************************************)
\* A request that is not answered 200 leaves no trace in the storage, not even
\* the valid half of an update.
RefusedChangesNothing ==
  [][phase = "Serving" /\ reply' # "Ok" => UNCHANGED stored]_vars

\* A client that lost a reply may send its request again: the second time it
\* changes nothing, be it an add, an update or a query.
RetriedChangesNothing ==
  [][phase = "Serving" /\ request' = request => UNCHANGED stored]_vars

\* An attribute of an update that the storage can tell from "not given" is
\* what the entity has afterwards; one that is not given is as it was.
Takes(after, before, given, values) ==
  /\ given = Absent => after = before
  /\ given \in values => after = given

\* After a 200 to the update of a visit, the visit is what the body says, and
\* a query finds it at its location and under its user if it could before or
\* was moved there.
AcceptedTakesEffect ==
  [][\A r \in VisitUpdateRequests : request' = r /\ reply' = "Ok" =>
       LET before == visits_[r.id]
           after == visits_'[r.id]
       IN /\ Takes(after.location_id, before.location_id, r.body.location, LocationIds)
          /\ Takes(after.user_id, before.user_id, r.body.user, UserIds)
          /\ Takes(after.visited_at, before.visited_at, r.body.visited_at, Timestamps)
          /\ Takes(after.mark, before.mark, r.body.mark, Marks)
          /\ after.user_id # before.user_id
               => users_to_visits_'[after.user_id][r.id] > 0
          /\ after.location_id # before.location_id
               => locations_to_visits_'[after.location_id][r.id] = 1]_vars
=============================================================================
