----------------------- MODULE RequestProcessor_proofs -----------------------
(***************************************************************************)
(* Theorems about RequestProcessor, for every set of ids, bodies and       *)
(* queries.                                                                *)
(***************************************************************************)
EXTENDS RequestProcessor, TLAPS

\* A refused request leaves the storage and its last answer alone.
LEMMA RefuseLemma ==
  ASSUME NEW status, Refuse(status)
  PROVE  UNCHANGED Storage!vars
  BY DEF Refuse, stored, Storage!vars

\* Every query a client can send is one of those the storage is declared with.
LEMMA QueriesLemma ==
  /\ \A filters \in VisitFilters :
       FillVisistsByUserIdQuery(filters) \in
         {FillVisistsByUserIdQuery(f) : f \in VisitFilters}
  /\ \A filters \in AverageFilters :
       FillAverageLocationMarkQuery(filters) \in
         {FillAverageLocationMarkQuery(f) : f \in AverageFilters}
  OBVIOUS

\* Both modules speak of the same entities and updates.
LEMMA SameData ==
  /\ User = Storage!User /\ Location = Storage!Location /\ Visit = Storage!Visit
  /\ UserUpdates = Storage!UserUpdates
  /\ LocationUpdates = Storage!LocationUpdates
  /\ VisitUpdates = Storage!VisitUpdates
  BY DEF User, Location, Visit, UserUpdates, LocationUpdates, VisitUpdates,
         Storage!User, Storage!Location, Storage!Visit, Storage!UserUpdates,
         Storage!LocationUpdates, Storage!VisitUpdates

\* Loading is what the storage does before it serves.
LEMMA LoadStep == LoadZippedData => Storage!Next
  BY SameData DEF LoadZippedData, Storage!Next

\* A query is one lookup of the storage.
LEMMA GetStep ==
  /\ \A type, id : ProcessGetEntityById(type, id) => Storage!Next
  /\ \A id \in UserIds, filters \in VisitFilters :
       ProcessGetVisitsByUserId(id, filters) => Storage!Next
  /\ \A id \in LocationIds, filters \in AverageFilters :
       ProcessAverageLocationMark(id, filters) => Storage!Next
  <1>1. ASSUME NEW type, NEW id, ProcessGetEntityById(type, id)
        PROVE  Storage!Next
    BY <1>1 DEF ProcessGetEntityById, Storage!Next
  <1>2. ASSUME NEW id \in UserIds, NEW filters \in VisitFilters,
               ProcessGetVisitsByUserId(id, filters)
        PROVE  Storage!Next
    BY <1>2, QueriesLemma DEF ProcessGetVisitsByUserId, Storage!Next
  <1>3. ASSUME NEW id \in LocationIds, NEW filters \in AverageFilters,
               ProcessAverageLocationMark(id, filters)
        PROVE  Storage!Next
    BY <1>3, QueriesLemma DEF ProcessAverageLocationMark, Storage!Next
  <1>4. QED
    BY <1>1, <1>2, <1>3

\* An update is refused, or one update of the storage with attributes narrowed
\* to the storage's types.
LEMMA UpdateStep ==
  /\ \A id \in UserIds, body \in UserBodies :
       ProcessUpdateUser(id, body) => Storage!Next \/ UNCHANGED Storage!vars
  /\ \A id \in LocationIds, body \in LocationBodies :
       ProcessUpdateLocation(id, body) => Storage!Next \/ UNCHANGED Storage!vars
  /\ \A id \in VisitIds, body \in VisitBodies :
       ProcessUpdateVisit(id, body) => Storage!Next \/ UNCHANGED Storage!vars
  <1>1. ASSUME NEW id \in UserIds, NEW body \in UserBodies, ProcessUpdateUser(id, body)
        PROVE  Storage!Next \/ UNCHANGED Storage!vars
    <2>1. CASE UserDataForUpdate(body)
      <3>1. FillUserToUpdate(body) \in Storage!UserUpdates
        BY <2>1, SameData, UpdatesAssumption DEF UpdatesAssumption
      <3>2. QED
        BY <1>1, <2>1, <3>1 DEF ProcessUpdateUser, Storage!Next
    <2>2. CASE ~UserDataForUpdate(body)
      BY <1>1, <2>2, RefuseLemma DEF ProcessUpdateUser
    <2>3. QED
      BY <2>1, <2>2
  <1>2. ASSUME NEW id \in LocationIds, NEW body \in LocationBodies,
               ProcessUpdateLocation(id, body)
        PROVE  Storage!Next \/ UNCHANGED Storage!vars
    <2>1. CASE LocationDataForUpdate(body)
      <3>1. FillLocationToUpdate(body) \in Storage!LocationUpdates
        BY <2>1, SameData, UpdatesAssumption DEF UpdatesAssumption
      <3>2. QED
        BY <1>2, <2>1, <3>1 DEF ProcessUpdateLocation, Storage!Next
    <2>2. CASE ~LocationDataForUpdate(body)
      BY <1>2, <2>2, RefuseLemma DEF ProcessUpdateLocation
    <2>3. QED
      BY <2>1, <2>2
  <1>3. ASSUME NEW id \in VisitIds, NEW body \in VisitBodies, ProcessUpdateVisit(id, body)
        PROVE  Storage!Next \/ UNCHANGED Storage!vars
    <2>1. CASE VisitDataForUpdate(body)
      <3>1. FillVisitToUpdate(body) \in Storage!VisitUpdates
        BY <2>1, SameData, UpdatesAssumption DEF UpdatesAssumption
      <3>2. QED
        BY <1>3, <2>1, <3>1 DEF ProcessUpdateVisit, Storage!Next
    <2>2. CASE ~VisitDataForUpdate(body)
      BY <1>3, <2>2, RefuseLemma DEF ProcessUpdateVisit
    <2>3. QED
      BY <2>1, <2>2
  <1>4. QED
    BY <1>1, <1>2, <1>3

\* An add is refused, or one add of the storage under an id of 32 bits.
LEMMA AddStep ==
  /\ \A body \in UserBodies :
       ProcessAddUser(body) => Storage!Next \/ UNCHANGED Storage!vars
  /\ \A body \in LocationBodies :
       ProcessAddLocation(body) => Storage!Next \/ UNCHANGED Storage!vars
  /\ \A body \in VisitBodies :
       ProcessAddVisit(body) => Storage!Next \/ UNCHANGED Storage!vars
  <1>1. ASSUME NEW body \in UserBodies, ProcessAddUser(body)
        PROVE  Storage!Next \/ UNCHANGED Storage!vars
    <2>1. CASE ValidateUser(body)
      <3>1. ToId(body.id) \in UserIds /\ NewUser(body) \in Storage!User
        BY <2>1, SameData, BodiesAssumption DEF BodiesAssumption
      <3>2. QED
        BY <1>1, <2>1, <3>1 DEF ProcessAddUser, Storage!Next
    <2>2. CASE ~ValidateUser(body)
      BY <1>1, <2>2, RefuseLemma DEF ProcessAddUser
    <2>3. QED
      BY <2>1, <2>2
  <1>2. ASSUME NEW body \in LocationBodies, ProcessAddLocation(body)
        PROVE  Storage!Next \/ UNCHANGED Storage!vars
    <2>1. CASE ValidateLocation(body)
      <3>1. ToId(body.id) \in LocationIds /\ NewLocation(body) \in Storage!Location
        BY <2>1, SameData, BodiesAssumption DEF BodiesAssumption
      <3>2. QED
        BY <1>2, <2>1, <3>1 DEF ProcessAddLocation, Storage!Next
    <2>2. CASE ~ValidateLocation(body)
      BY <1>2, <2>2, RefuseLemma DEF ProcessAddLocation
    <2>3. QED
      BY <2>1, <2>2
  <1>3. ASSUME NEW body \in VisitBodies, ProcessAddVisit(body)
        PROVE  Storage!Next \/ UNCHANGED Storage!vars
    <2>1. CASE ValidateVisit(body)
      <3>1. body.id \in VisitIds /\ NewVisit(body) \in Storage!Visit
        BY <2>1, SameData, BodiesAssumption DEF BodiesAssumption
      <3>2. QED
        BY <1>3, <2>1, <3>1 DEF ProcessAddVisit, Storage!Next
    <2>2. CASE ~ValidateVisit(body)
      BY <1>3, <2>2, RefuseLemma DEF ProcessAddVisit
    <2>3. QED
      BY <2>1, <2>2
  <1>4. QED
    BY <1>1, <1>2, <1>3

\* Every step of the processor is a step of the storage or leaves it alone.
LEMMA StorageStep == [Next]_vars => [Storage!Next]_(Storage!vars)
  <1> SUFFICES ASSUME [Next]_vars
               PROVE  Storage!Next \/ UNCHANGED Storage!vars
    OBVIOUS
  <1>1. CASE LoadZippedData
    BY <1>1, LoadStep
  <1>2. CASE ProcessRequest
    <2>1. \A r \in UserUpdateRequests : r.id \in UserIds /\ r.body \in UserBodies
      BY DEF UserUpdateRequests
    <2>2. \A r \in LocationUpdateRequests :
            r.id \in LocationIds /\ r.body \in LocationBodies
      BY DEF LocationUpdateRequests
    <2>3. \A r \in VisitUpdateRequests : r.id \in VisitIds /\ r.body \in VisitBodies
      BY DEF VisitUpdateRequests
    <2>4. /\ \A r \in UserAdds : r.body \in UserBodies
          /\ \A r \in LocationAdds : r.body \in LocationBodies
          /\ \A r \in VisitAdds : r.body \in VisitBodies
      BY DEF UserAdds, LocationAdds, VisitAdds
    <2>5. /\ \A r \in VisitsGets : r.id \in UserIds /\ r.filters \in VisitFilters
          /\ \A r \in AverageGets : r.id \in LocationIds /\ r.filters \in AverageFilters
      BY DEF VisitsGets, AverageGets
    <2>6. QED
      BY <1>2, <2>1, <2>2, <2>3, <2>4, <2>5, RefuseLemma, GetStep, UpdateStep, AddStep
         DEF ProcessRequest
  <1>3. CASE UNCHANGED vars
    BY <1>3 DEF vars, stored, Storage!vars
  <1>4. QED
    BY <1>1, <1>2, <1>3 DEF Next

\* Every request is one step of the storage's specification or none, so what is
\* proved of the storage holds behind the processor.
LEMMA ProcessorUsesStorage == Spec => Storage!Spec
  <1>1. Init => Storage!Init
    BY DEF Init
  <1>2. QED
    BY <1>1, StorageStep, PTL DEF Spec, Storage!Spec

-----------------------------------------------------------------------------
(***************************************************************************)
(* Refused requests.                                                       *)
(***************************************************************************)
\* A lookup leaves the storage alone.
LEMMA ReplyLemma ==
  ASSUME NEW result, Storage!Reply(result)
  PROVE  UNCHANGED stored
  BY DEF Storage!Reply, Storage!containers, Storage!indexes, stored

\* A query leaves the storage as it was.
LEMMA GetKeeps ==
  /\ \A type, id : ProcessGetEntityById(type, id) => UNCHANGED stored
  /\ \A id, filters : ProcessGetVisitsByUserId(id, filters) => UNCHANGED stored
  /\ \A id, filters : ProcessAverageLocationMark(id, filters) => UNCHANGED stored
  BY ReplyLemma DEF ProcessGetEntityById, ProcessGetVisitsByUserId,
       ProcessAverageLocationMark, Storage!GetUserById, Storage!GetLocationById,
       Storage!GetVisitById, Storage!GetVisistsByUserId, Storage!GetAverageLocationMark

\* An update leaves the storage as it was, or is answered 200.
LEMMA UpdateKeeps ==
  /\ \A id, body : ProcessUpdateUser(id, body) => reply' = "Ok" \/ UNCHANGED stored
  /\ \A id, body : ProcessUpdateLocation(id, body) => reply' = "Ok" \/ UNCHANGED stored
  /\ \A id, body : ProcessUpdateVisit(id, body) => reply' = "Ok" \/ UNCHANGED stored
  <1>1. ASSUME NEW id, NEW body, ProcessUpdateUser(id, body)
        PROVE  reply' = "Ok" \/ UNCHANGED stored
    BY <1>1 DEF ProcessUpdateUser, Refuse, UpdateReply, stored, Storage!UpdateUser,
         Storage!EntitySuccessfullyUpdated, Storage!indexes
  <1>2. ASSUME NEW id, NEW body, ProcessUpdateLocation(id, body)
        PROVE  reply' = "Ok" \/ UNCHANGED stored
    BY <1>2 DEF ProcessUpdateLocation, Refuse, UpdateReply, stored,
         Storage!UpdateLocation, Storage!EntitySuccessfullyUpdated, Storage!indexes
  <1>3. ASSUME NEW id, NEW body, ProcessUpdateVisit(id, body)
        PROVE  reply' = "Ok" \/ UNCHANGED stored
    BY <1>3 DEF ProcessUpdateVisit, Refuse, UpdateReply, stored, Storage!UpdateVisit,
         Storage!EntitySuccessfullyUpdated, Storage!indexes
  <1>4. QED
    BY <1>1, <1>2, <1>3

\* An add leaves the storage as it was, or is answered 200.
LEMMA AddKeeps ==
  /\ \A body : ProcessAddUser(body) => reply' = "Ok" \/ UNCHANGED stored
  /\ \A body : ProcessAddLocation(body) => reply' = "Ok" \/ UNCHANGED stored
  /\ \A body : ProcessAddVisit(body) => reply' = "Ok" \/ UNCHANGED stored
  <1>1. ASSUME NEW body, ProcessAddUser(body)
        PROVE  reply' = "Ok" \/ UNCHANGED stored
    BY <1>1 DEF ProcessAddUser, Refuse, AddReply, stored, Storage!AddUser,
         Storage!EntitySuccessfullyAdded, Storage!indexes
  <1>2. ASSUME NEW body, ProcessAddLocation(body)
        PROVE  reply' = "Ok" \/ UNCHANGED stored
    BY <1>2 DEF ProcessAddLocation, Refuse, AddReply, stored, Storage!AddLocation,
         Storage!EntitySuccessfullyAdded, Storage!indexes
  <1>3. ASSUME NEW body, ProcessAddVisit(body)
        PROVE  reply' = "Ok" \/ UNCHANGED stored
    BY <1>3 DEF ProcessAddVisit, Refuse, AddReply, stored, Storage!AddVisit,
         Storage!EntitySuccessfullyAdded, Storage!indexes
  <1>4. QED
    BY <1>1, <1>2, <1>3

\* A request that is not answered 200 leaves no trace in the storage.
THEOREM RefusedLeavesNoTrace == Spec => RefusedChangesNothing
  <1>1. ASSUME [Next]_vars, phase = "Serving", reply' # "Ok"
        PROVE  UNCHANGED stored
    <2>1. CASE LoadZippedData
      BY <1>1, <2>1 DEF LoadZippedData, Storage!LoadUser, Storage!LoadLocation,
           Storage!LoadVisit, Storage!MapEntities
    <2>2. CASE ProcessRequest
      <3>1. \A status : Refuse(status) => UNCHANGED stored
        BY DEF Refuse
      <3>2. QED
        BY <1>1, <2>2, <3>1, GetKeeps, UpdateKeeps, AddKeeps DEF ProcessRequest
    <2>3. CASE UNCHANGED vars
      BY <2>3 DEF vars
    <2>4. QED
      BY <1>1, <2>1, <2>2, <2>3 DEF Next
  <1>2. [Next]_vars => [phase = "Serving" /\ reply' # "Ok" => UNCHANGED stored]_vars
    BY <1>1
  <1>3. QED
    BY <1>2, PTL DEF Spec, RefusedChangesNothing

-----------------------------------------------------------------------------
(***************************************************************************)
(* Repeated requests.                                                      *)
(***************************************************************************)
\* The containers are maps from the ids.
Keyed ==
  /\ users_ = [u \in UserIds |-> users_[u]]
  /\ locations_ = [l \in LocationIds |-> locations_[l]]
  /\ visits_ = [v \in VisitIds |-> visits_[v]]

\* The last request has nothing left to change: what it updates holds its
\* attributes, what it adds is there.
Spent ==
  /\ request \in UserUpdateRequests /\ UserDataForUpdate(request.body) =>
       \/ users_[request.id] = None
       \/ Storage!UpdatedUser(users_[request.id], FillUserToUpdate(request.body))
            = users_[request.id]
  /\ request \in LocationUpdateRequests /\ LocationDataForUpdate(request.body) =>
       \/ locations_[request.id] = None
       \/ Storage!UpdatedLocation(locations_[request.id],
                                  FillLocationToUpdate(request.body))
            = locations_[request.id]
  /\ request \in VisitUpdateRequests /\ VisitDataForUpdate(request.body) =>
       \/ visits_[request.id] = None
       \/ Storage!UpdatedVisit(visits_[request.id], FillVisitToUpdate(request.body))
            = visits_[request.id]
  /\ request \in UserAdds /\ ValidateUser(request.body) =>
       users_[ToId(request.body.id)] # None
  /\ request \in LocationAdds /\ ValidateLocation(request.body) =>
       locations_[ToId(request.body.id)] # None
  /\ request \in VisitAdds /\ ValidateVisit(request.body) =>
       visits_[request.body.id] # None

RetryInvariant ==
  /\ Keyed
  /\ phase = "Loading" => request = NoRequest
  /\ Spent

\* No call adds a key to a map that is not an id.
LEMMA KeyedStep ==
  Keyed /\ [Storage!Next]_(Storage!vars) => Keyed'
  <1> SUFFICES ASSUME Keyed, [Storage!Next]_(Storage!vars)
               PROVE  Keyed'
    OBVIOUS
  <1> DEFINE Put(old, new, Ids) ==
               new = old \/ \E id \in Ids : \E e : new = [old EXCEPT ![id] = e]
             AllPut == /\ Put(users_, users_', UserIds)
                       /\ Put(locations_, locations_', LocationIds)
                       /\ Put(visits_, visits_', VisitIds)
  <1>1. ASSUME NEW Ids, NEW old, NEW new, old = [id \in Ids |-> old[id]],
               Put(old, new, Ids)
        PROVE  new = [id \in Ids |-> new[id]]
    BY <1>1
  <1>2. AllPut
    <2>1. CASE UNCHANGED Storage!vars
      BY <2>1 DEF Storage!vars, Storage!containers
    <2>2. ASSUME NEW u \in UserIds, NEW user, Storage!LoadUser(u, user)
          PROVE  AllPut
      BY <2>2 DEF Storage!LoadUser, Storage!EmplaceEntity
    <2>3. ASSUME NEW u \in UserIds, NEW user,
                 Storage!AddUser(u, user) \/ Storage!UpdateUser(u, user)
          PROVE  AllPut
      BY <2>3 DEF Storage!AddUser, Storage!UpdateUser
    <2>4. ASSUME NEW l \in LocationIds, NEW location, Storage!LoadLocation(l, location)
          PROVE  AllPut
      BY <2>4 DEF Storage!LoadLocation, Storage!EmplaceEntity
    <2>5. ASSUME NEW l \in LocationIds, NEW location,
                 Storage!AddLocation(l, location) \/ Storage!UpdateLocation(l, location)
          PROVE  AllPut
      BY <2>5 DEF Storage!AddLocation, Storage!UpdateLocation
    <2>6. ASSUME NEW v \in VisitIds, NEW visit, Storage!LoadVisit(v, visit)
          PROVE  AllPut
      BY <2>6 DEF Storage!LoadVisit, Storage!EmplaceEntity
    <2>7. ASSUME NEW v \in VisitIds, NEW visit,
                 Storage!AddVisit(v, visit) \/ Storage!UpdateVisit(v, visit)
          PROVE  AllPut
      BY <2>7 DEF Storage!AddVisit, Storage!UpdateVisit
    <2>8. ASSUME NEW result, Storage!Reply(result)
          PROVE  AllPut
      BY <2>8 DEF Storage!Reply, Storage!containers
    <2>9. CASE Storage!MapEntities
      BY <2>9 DEF Storage!MapEntities, Storage!containers
    <2>10. QED
      BY <2>1, <2>2, <2>3, <2>4, <2>5, <2>6, <2>7, <2>8, <2>9
         DEF Storage!Next, Storage!GetUserById, Storage!GetLocationById,
             Storage!GetVisitById, Storage!GetVisistsByUserId,
             Storage!GetAverageLocationMark
  <1>3. AllPut => Keyed'
    <2> HIDE DEF Put
    <2> QED
      BY <1>1 DEF Keyed
  <1>4. QED
    BY <1>2, <1>3

\* Attributes that were replaced once are replaced by the same again.
LEMMA UpdatesIdempotent ==
  /\ \A user, update :
       LET once == Storage!UpdatedUser(user, update)
       IN Storage!UpdatedUser(once, update) = once
  /\ \A location, update :
       LET once == Storage!UpdatedLocation(location, update)
       IN Storage!UpdatedLocation(once, update) = once
  /\ \A visit, update :
       LET once == Storage!UpdatedVisit(visit, update)
       IN Storage!UpdatedVisit(once, update) = once
  BY DEF Storage!UpdatedUser, Storage!UpdatedLocation, Storage!UpdatedVisit,
         Storage!Given

\* An update leaves what it names with the attributes it gave, if it is there.
LEMMA UpdateSpends ==
  /\ \A id \in UserIds : \A body :
       Keyed /\ ProcessUpdateUser(id, body) /\ UserDataForUpdate(body) =>
         \/ users_'[id] = None
         \/ Storage!UpdatedUser(users_'[id], FillUserToUpdate(body)) = users_'[id]
  /\ \A id \in LocationIds : \A body :
       Keyed /\ ProcessUpdateLocation(id, body) /\ LocationDataForUpdate(body) =>
         \/ locations_'[id] = None
         \/ Storage!UpdatedLocation(locations_'[id], FillLocationToUpdate(body))
              = locations_'[id]
  /\ \A id \in VisitIds : \A body :
       Keyed /\ ProcessUpdateVisit(id, body) /\ VisitDataForUpdate(body) =>
         \/ visits_'[id] = None
         \/ Storage!UpdatedVisit(visits_'[id], FillVisitToUpdate(body)) = visits_'[id]
  <1>1. ASSUME NEW id \in UserIds, NEW body, Keyed,
               ProcessUpdateUser(id, body), UserDataForUpdate(body)
        PROVE  \/ users_'[id] = None
               \/ Storage!UpdatedUser(users_'[id], FillUserToUpdate(body)) = users_'[id]
    <2>1. \/ users_[id] = None /\ users_' = users_
          \/ users_' = [users_ EXCEPT ![id] =
                          Storage!UpdatedUser(@, FillUserToUpdate(body))]
      BY <1>1 DEF ProcessUpdateUser, Storage!UpdateUser
    <2>2. \/ users_'[id] = None
          \/ users_'[id] = Storage!UpdatedUser(users_[id], FillUserToUpdate(body))
      BY <1>1, <2>1 DEF Keyed
    <2>3. QED
      BY <2>2, UpdatesIdempotent
  <1>2. ASSUME NEW id \in LocationIds, NEW body, Keyed,
               ProcessUpdateLocation(id, body), LocationDataForUpdate(body)
        PROVE  \/ locations_'[id] = None
               \/ Storage!UpdatedLocation(locations_'[id], FillLocationToUpdate(body))
                    = locations_'[id]
    <2>1. \/ locations_[id] = None /\ locations_' = locations_
          \/ locations_' = [locations_ EXCEPT ![id] =
                              Storage!UpdatedLocation(@, FillLocationToUpdate(body))]
      BY <1>2 DEF ProcessUpdateLocation, Storage!UpdateLocation
    <2>2. \/ locations_'[id] = None
          \/ locations_'[id] =
               Storage!UpdatedLocation(locations_[id], FillLocationToUpdate(body))
      BY <1>2, <2>1 DEF Keyed
    <2>3. QED
      BY <2>2, UpdatesIdempotent
  <1>3. ASSUME NEW id \in VisitIds, NEW body, Keyed,
               ProcessUpdateVisit(id, body), VisitDataForUpdate(body)
        PROVE  \/ visits_'[id] = None
               \/ Storage!UpdatedVisit(visits_'[id], FillVisitToUpdate(body))
                    = visits_'[id]
    <2>1. \/ visits_[id] = None /\ visits_' = visits_
          \/ visits_' = [visits_ EXCEPT ![id] =
                           Storage!UpdatedVisit(visits_[id], FillVisitToUpdate(body))]
      BY <1>3 DEF ProcessUpdateVisit, Storage!UpdateVisit
    <2>2. \/ visits_'[id] = None
          \/ visits_'[id] = Storage!UpdatedVisit(visits_[id], FillVisitToUpdate(body))
      BY <1>3, <2>1 DEF Keyed
    <2>3. QED
      BY <2>2, UpdatesIdempotent
  <1>4. QED
    BY <1>1, <1>2, <1>3

\* After an add the id is taken, by the new entity or by an older one.
LEMMA AddSpends ==
  /\ \A body \in UserBodies :
       Keyed /\ ProcessAddUser(body) /\ ValidateUser(body) =>
         users_'[ToId(body.id)] # None
  /\ \A body \in LocationBodies :
       Keyed /\ ProcessAddLocation(body) /\ ValidateLocation(body) =>
         locations_'[ToId(body.id)] # None
  /\ \A body \in VisitBodies :
       Keyed /\ ProcessAddVisit(body) /\ ValidateVisit(body) =>
         visits_'[body.id] # None
  <1>1. ASSUME NEW body \in UserBodies, Keyed, ProcessAddUser(body), ValidateUser(body)
        PROVE  users_'[ToId(body.id)] # None
    <2>1. ToId(body.id) \in UserIds /\ NewUser(body) # None
      BY <1>1, BodiesAssumption, NoneAssumption DEF BodiesAssumption, NoneAssumption
    <2>2. \/ users_[ToId(body.id)] # None /\ users_' = users_
          \/ users_' = [users_ EXCEPT ![ToId(body.id)] = NewUser(body)]
      BY <1>1 DEF ProcessAddUser, Storage!AddUser
    <2>3. QED
      BY <1>1, <2>1, <2>2 DEF Keyed
  <1>2. ASSUME NEW body \in LocationBodies, Keyed, ProcessAddLocation(body),
               ValidateLocation(body)
        PROVE  locations_'[ToId(body.id)] # None
    <2>1. ToId(body.id) \in LocationIds /\ NewLocation(body) # None
      BY <1>2, BodiesAssumption, NoneAssumption DEF BodiesAssumption, NoneAssumption
    <2>2. \/ locations_[ToId(body.id)] # None /\ locations_' = locations_
          \/ locations_' = [locations_ EXCEPT ![ToId(body.id)] = NewLocation(body)]
      BY <1>2 DEF ProcessAddLocation, Storage!AddLocation
    <2>3. QED
      BY <1>2, <2>1, <2>2 DEF Keyed
  <1>3. ASSUME NEW body \in VisitBodies, Keyed, ProcessAddVisit(body), ValidateVisit(body)
        PROVE  visits_'[body.id] # None
    <2>1. body.id \in VisitIds /\ NewVisit(body) # None
      BY <1>3, BodiesAssumption, NoneAssumption DEF BodiesAssumption, NoneAssumption
    <2>2. \/ visits_[body.id] # None /\ visits_' = visits_
          \/ visits_' = [visits_ EXCEPT ![body.id] = NewVisit(body)]
      BY <1>3 DEF ProcessAddVisit, Storage!AddVisit, Storage!indexes
    <2>3. QED
      BY <1>3, <2>1, <2>2 DEF Keyed
  <1>4. QED
    BY <1>1, <1>2, <1>3

\* No two kinds of request to change something share a request.
LEMMA KindsDisjoint ==
  /\ \A r : r \in Refusals \cup Gets \cup VisitsGets \cup AverageGets =>
       r \notin UserUpdateRequests \cup LocationUpdateRequests \cup VisitUpdateRequests
                \cup UserAdds \cup LocationAdds \cup VisitAdds
  /\ \A r \in UserUpdateRequests :
       r \notin LocationUpdateRequests \cup VisitUpdateRequests
                \cup UserAdds \cup LocationAdds \cup VisitAdds
  /\ \A r \in LocationUpdateRequests :
       r \notin UserUpdateRequests \cup VisitUpdateRequests
                \cup UserAdds \cup LocationAdds \cup VisitAdds
  /\ \A r \in VisitUpdateRequests :
       r \notin UserUpdateRequests \cup LocationUpdateRequests
                \cup UserAdds \cup LocationAdds \cup VisitAdds
  /\ \A r \in UserAdds :
       r \notin UserUpdateRequests \cup LocationUpdateRequests \cup VisitUpdateRequests
                \cup LocationAdds \cup VisitAdds
  /\ \A r \in LocationAdds :
       r \notin UserUpdateRequests \cup LocationUpdateRequests \cup VisitUpdateRequests
                \cup UserAdds \cup VisitAdds
  /\ \A r \in VisitAdds :
       r \notin UserUpdateRequests \cup LocationUpdateRequests \cup VisitUpdateRequests
                \cup UserAdds \cup LocationAdds
  <1>1. /\ \A r \in Refusals : r.type \in {"ErrorTypeNotFound", "ErrorTypeBadRequest", "None"}
        /\ \A r \in Gets : r.type \in {"GetUserById", "GetLocationById", "GetVisitById"}
        /\ \A r \in VisitsGets : r.type = "GetVisitsByUserId"
        /\ \A r \in AverageGets : r.type = "GetAverageLocationMark"
    BY DEF Refusals, Gets, VisitsGets, AverageGets
  <1>2. /\ \A r \in UserUpdateRequests : r.type = "UpdateUserById"
        /\ \A r \in LocationUpdateRequests : r.type = "UpdateLocationById"
        /\ \A r \in VisitUpdateRequests : r.type = "UpdateVisitById"
        /\ \A r \in UserAdds : r.type = "AddUser"
        /\ \A r \in LocationAdds : r.type = "AddLocation"
        /\ \A r \in VisitAdds : r.type = "AddVisit"
    BY DEF UserUpdateRequests, LocationUpdateRequests, VisitUpdateRequests,
           UserAdds, LocationAdds, VisitAdds
  <1>3. QED
    BY <1>1, <1>2

\* Before the first request there is nothing to repeat.
LEMMA RetryInit == Init => RetryInvariant
  BY NoRequestAssumption DEF NoRequestAssumption, Init, Storage!Init, RetryInvariant,
       Keyed, Spent

\* Whatever the processor does, its last request has nothing left to change.
LEMMA SpentStep == RetryInvariant /\ [Next]_vars => RetryInvariant'
  <1> SUFFICES ASSUME RetryInvariant, [Next]_vars
               PROVE  RetryInvariant'
    OBVIOUS
  <1>1. Keyed /\ Keyed'
    BY StorageStep, KeyedStep DEF RetryInvariant
  <1>2. CASE UNCHANGED vars
    BY <1>2, <1>1 DEF vars, stored, RetryInvariant, Spent
  <1>3. CASE LoadZippedData
    <2>1. request = NoRequest /\ request' = NoRequest
      BY <1>3 DEF LoadZippedData, Storage!LoadUser, Storage!LoadLocation,
           Storage!LoadVisit, Storage!MapEntities, RetryInvariant
    <2>2. Spent'
      BY <2>1, NoRequestAssumption DEF NoRequestAssumption, Spent
    <2>3. QED
      BY <1>1, <2>1, <2>2 DEF RetryInvariant
  <1>4. CASE ProcessRequest
    <2>1. phase' = "Serving"
      BY <1>4 DEF ProcessRequest, Refuse, ProcessGetEntityById,
           ProcessGetVisitsByUserId, ProcessAverageLocationMark, Storage!GetUserById,
           Storage!GetLocationById, Storage!GetVisitById, Storage!GetVisistsByUserId,
           Storage!GetAverageLocationMark, Storage!Reply, ProcessUpdateUser,
           ProcessUpdateLocation, ProcessUpdateVisit, Storage!UpdateUser,
           Storage!UpdateLocation, Storage!UpdateVisit, ProcessAddUser,
           ProcessAddLocation, ProcessAddVisit, Storage!AddUser, Storage!AddLocation,
           Storage!AddVisit
    <2>2. Spent'
      <3>1. ASSUME request' \in Refusals \cup Gets \cup VisitsGets \cup AverageGets
            PROVE  Spent'
        BY <3>1, KindsDisjoint DEF Spent
      <3>2. ASSUME NEW r \in UserUpdateRequests, ProcessUpdateUser(r.id, r.body),
                   request' = r
            PROVE  Spent'
        <4>1. r.id \in UserIds
          BY DEF UserUpdateRequests
        <4>2. QED
          BY <1>1, <3>2, <4>1, UpdateSpends, KindsDisjoint DEF Spent
      <3>3. ASSUME NEW r \in LocationUpdateRequests, ProcessUpdateLocation(r.id, r.body),
                   request' = r
            PROVE  Spent'
        <4>1. r.id \in LocationIds
          BY DEF LocationUpdateRequests
        <4>2. QED
          BY <1>1, <3>3, <4>1, UpdateSpends, KindsDisjoint DEF Spent
      <3>4. ASSUME NEW r \in VisitUpdateRequests, ProcessUpdateVisit(r.id, r.body),
                   request' = r
            PROVE  Spent'
        <4>1. r.id \in VisitIds
          BY DEF VisitUpdateRequests
        <4>2. QED
          BY <1>1, <3>4, <4>1, UpdateSpends, KindsDisjoint DEF Spent
      <3>5. ASSUME NEW r \in UserAdds, ProcessAddUser(r.body), request' = r
            PROVE  Spent'
        <4>1. r.body \in UserBodies
          BY DEF UserAdds
        <4>2. QED
          BY <1>1, <3>5, <4>1, AddSpends, KindsDisjoint DEF Spent
      <3>6. ASSUME NEW r \in LocationAdds, ProcessAddLocation(r.body), request' = r
            PROVE  Spent'
        <4>1. r.body \in LocationBodies
          BY DEF LocationAdds
        <4>2. QED
          BY <1>1, <3>6, <4>1, AddSpends, KindsDisjoint DEF Spent
      <3>7. ASSUME NEW r \in VisitAdds, ProcessAddVisit(r.body), request' = r
            PROVE  Spent'
        <4>1. r.body \in VisitBodies
          BY DEF VisitAdds
        <4>2. QED
          BY <1>1, <3>7, <4>1, AddSpends, KindsDisjoint DEF Spent
      <3>8. QED
        BY <1>4, <3>1, <3>2, <3>3, <3>4, <3>5, <3>6, <3>7 DEF ProcessRequest
    <2>3. QED
      BY <1>1, <2>1, <2>2 DEF RetryInvariant
  <1>5. QED
    BY <1>2, <1>3, <1>4 DEF Next

\* A request that has nothing left to change changes nothing.
LEMMA RetriedStep ==
  RetryInvariant /\ [Next]_vars /\ phase = "Serving" /\ request' = request
    => UNCHANGED stored
  <1> SUFFICES ASSUME RetryInvariant, [Next]_vars, phase = "Serving", request' = request
               PROVE  UNCHANGED stored
    OBVIOUS
  <1>1. Keyed /\ Spent
    BY DEF RetryInvariant
  <1>2. \A status : Refuse(status) => UNCHANGED stored
    BY DEF Refuse
  <1>3. ASSUME NEW r \in UserUpdateRequests, ProcessUpdateUser(r.id, r.body), request' = r
        PROVE  UNCHANGED stored
    <2>1. CASE UserDataForUpdate(r.body)
      <3>1. \/ users_[r.id] = None
            \/ Storage!UpdatedUser(users_[r.id], FillUserToUpdate(r.body)) = users_[r.id]
        BY <1>1, <1>3, <2>1 DEF Spent
      <3>2. r.id \in UserIds
        BY DEF UserUpdateRequests
      <3>3. users_' = users_
        BY <1>1, <1>3, <2>1, <3>1, <3>2 DEF ProcessUpdateUser, Storage!UpdateUser, Keyed
      <3>4. QED
        BY <1>3, <2>1, <3>3
           DEF ProcessUpdateUser, Storage!UpdateUser, Storage!indexes, stored
    <2>2. CASE ~UserDataForUpdate(r.body)
      BY <1>2, <1>3, <2>2 DEF ProcessUpdateUser
    <2>3. QED
      BY <2>1, <2>2
  <1>4. ASSUME NEW r \in LocationUpdateRequests, ProcessUpdateLocation(r.id, r.body),
               request' = r
        PROVE  UNCHANGED stored
    <2>1. CASE LocationDataForUpdate(r.body)
      <3>1. \/ locations_[r.id] = None
            \/ Storage!UpdatedLocation(locations_[r.id], FillLocationToUpdate(r.body))
                 = locations_[r.id]
        BY <1>1, <1>4, <2>1 DEF Spent
      <3>2. r.id \in LocationIds
        BY DEF LocationUpdateRequests
      <3>3. locations_' = locations_
        BY <1>1, <1>4, <2>1, <3>1, <3>2
           DEF ProcessUpdateLocation, Storage!UpdateLocation, Keyed
      <3>4. QED
        BY <1>4, <2>1, <3>3
           DEF ProcessUpdateLocation, Storage!UpdateLocation, Storage!indexes, stored
    <2>2. CASE ~LocationDataForUpdate(r.body)
      BY <1>2, <1>4, <2>2 DEF ProcessUpdateLocation
    <2>3. QED
      BY <2>1, <2>2
  <1>5. ASSUME NEW r \in VisitUpdateRequests, ProcessUpdateVisit(r.id, r.body), request' = r
        PROVE  UNCHANGED stored
    <2>1. CASE VisitDataForUpdate(r.body)
      <3>1. \/ visits_[r.id] = None
            \/ Storage!UpdatedVisit(visits_[r.id], FillVisitToUpdate(r.body))
                 = visits_[r.id]
        BY <1>1, <1>5, <2>1 DEF Spent
      <3>2. r.id \in VisitIds
        BY DEF VisitUpdateRequests
      <3>3. UNCHANGED <<visits_, users_to_visits_, locations_to_visits_>>
        BY <1>1, <1>5, <2>1, <3>1, <3>2
           DEF ProcessUpdateVisit, Storage!UpdateVisit, Storage!indexes, Keyed
      <3>4. QED
        BY <1>5, <2>1, <3>3 DEF ProcessUpdateVisit, Storage!UpdateVisit, stored
    <2>2. CASE ~VisitDataForUpdate(r.body)
      BY <1>2, <1>5, <2>2 DEF ProcessUpdateVisit
    <2>3. QED
      BY <2>1, <2>2
  <1>6. ASSUME NEW r \in UserAdds, ProcessAddUser(r.body), request' = r
        PROVE  UNCHANGED stored
    BY <1>1, <1>2, <1>6 DEF Spent, ProcessAddUser, Storage!AddUser, Storage!indexes, stored
  <1>7. ASSUME NEW r \in LocationAdds, ProcessAddLocation(r.body), request' = r
        PROVE  UNCHANGED stored
    BY <1>1, <1>2, <1>7
       DEF Spent, ProcessAddLocation, Storage!AddLocation, Storage!indexes, stored
  <1>8. ASSUME NEW r \in VisitAdds, ProcessAddVisit(r.body), request' = r
        PROVE  UNCHANGED stored
    BY <1>1, <1>2, <1>8
       DEF Spent, ProcessAddVisit, Storage!AddVisit, Storage!indexes, stored
  <1>9. CASE LoadZippedData
    BY <1>9 DEF LoadZippedData, Storage!LoadUser, Storage!LoadLocation,
         Storage!LoadVisit, Storage!MapEntities
  <1>10. CASE UNCHANGED vars
    BY <1>10 DEF vars
  <1>11. CASE ProcessRequest
    BY <1>2, <1>3, <1>4, <1>5, <1>6, <1>7, <1>8, <1>11, GetKeeps DEF ProcessRequest
  <1>12. QED
    BY <1>9, <1>10, <1>11 DEF Next

\* A client that lost a reply may send its request again: the second time it
\* changes nothing, be it an add, an update or a query.
THEOREM RetriesAreHarmless == Spec => RetriedChangesNothing
  <1>1. Init => RetryInvariant
    BY RetryInit
  <1>2. RetryInvariant /\ [Next]_vars
          => [phase = "Serving" /\ request' = request => UNCHANGED stored]_vars
    BY RetriedStep
  <1>3. QED
    BY <1>1, <1>2, SpentStep, PTL DEF Spec, RetriedChangesNothing

-----------------------------------------------------------------------------
(***************************************************************************)
(* Accepted updates.                                                       *)
(***************************************************************************)
\* What is proved about the storage.
Facts == INSTANCE DataStorage_proofs WITH
           VisitQueries <- {FillVisistsByUserIdQuery(filters) : filters \in VisitFilters},
           AverageQueries <- {FillAverageLocationMarkQuery(filters) :
                                filters \in AverageFilters}

\* DataStorage_proofs speaks of the storage this module uses: loading, calls
\* and queries are the same.
LEMMA SameStorage ==
  /\ Storage!Init => Facts!Init
  /\ [Storage!Next]_(Storage!vars) => [Facts!Next]_(Facts!vars)
  <1>1. Storage!Init => Facts!Init
    BY DEF Storage!Init, Facts!Init, Storage!EmptyMultiset, Facts!EmptyMultiset
  <1>2. /\ \A u, user : Storage!LoadUser(u, user) => Facts!LoadUser(u, user)
        /\ \A l, location : Storage!LoadLocation(l, location) => Facts!LoadLocation(l, location)
        /\ \A v, visit : Storage!LoadVisit(v, visit) => Facts!LoadVisit(v, visit)
        /\ Storage!MapEntities => Facts!MapEntities
    BY DEF Storage!LoadUser, Facts!LoadUser, Storage!LoadLocation, Facts!LoadLocation,
           Storage!LoadVisit, Facts!LoadVisit, Storage!MapEntities, Facts!MapEntities,
           Storage!EmplaceEntity, Facts!EmplaceEntity, Storage!Mapped, Facts!Mapped,
           Storage!containers, Facts!containers, Storage!indexes, Facts!indexes
  <1>3. /\ \A u, user : Storage!AddUser(u, user) => Facts!AddUser(u, user)
        /\ \A l, location : Storage!AddLocation(l, location) => Facts!AddLocation(l, location)
        /\ \A v, visit : Storage!AddVisit(v, visit) => Facts!AddVisit(v, visit)
    BY DEF Storage!AddUser, Facts!AddUser, Storage!AddLocation, Facts!AddLocation,
           Storage!AddVisit, Facts!AddVisit, Storage!Emplace, Facts!Emplace,
           Storage!EntityAlreadyExist, Facts!EntityAlreadyExist,
           Storage!EntitySuccessfullyAdded, Facts!EntitySuccessfullyAdded,
           Storage!indexes, Facts!indexes
  <1>4. /\ \A u, update : Storage!UpdateUser(u, update) => Facts!UpdateUser(u, update)
        /\ \A l, update :
             Storage!UpdateLocation(l, update) => Facts!UpdateLocation(l, update)
        /\ \A v, update : Storage!UpdateVisit(v, update) => Facts!UpdateVisit(v, update)
    BY DEF Storage!UpdateUser, Facts!UpdateUser, Storage!UpdateLocation,
           Facts!UpdateLocation, Storage!UpdateVisit, Facts!UpdateVisit,
           Storage!UpdatedUser, Facts!UpdatedUser, Storage!UpdatedLocation,
           Facts!UpdatedLocation, Storage!UpdatedVisit, Facts!UpdatedVisit,
           Storage!Given, Facts!Given, Storage!LocationIndexAfterMove,
           Facts!LocationIndexAfterMove, Storage!UserIndexAfterHandOver,
           Facts!UserIndexAfterHandOver, Storage!Moved, Facts!Moved,
           Storage!Emplace, Facts!Emplace, Storage!Erase, Facts!Erase,
           Storage!EntityNotFound, Facts!EntityNotFound,
           Storage!EntitySuccessfullyUpdated, Facts!EntitySuccessfullyUpdated,
           Storage!indexes, Facts!indexes
  <1>5. /\ \A id : /\ Storage!GetUserById(id) => Facts!GetUserById(id)
                   /\ Storage!GetLocationById(id) => Facts!GetLocationById(id)
                   /\ Storage!GetVisitById(id) => Facts!GetVisitById(id)
        /\ \A id, query :
             /\ Storage!GetVisistsByUserId(id, query) => Facts!GetVisistsByUserId(id, query)
             /\ Storage!GetAverageLocationMark(id, query)
                  => Facts!GetAverageLocationMark(id, query)
    BY DEF Storage!GetUserById, Facts!GetUserById, Storage!GetLocationById,
           Facts!GetLocationById, Storage!GetVisitById, Facts!GetVisitById,
           Storage!GetVisistsByUserId, Facts!GetVisistsByUserId,
           Storage!GetAverageLocationMark, Facts!GetAverageLocationMark,
           Storage!Listed, Facts!Listed, Storage!Summed, Facts!Summed,
           Storage!VisitSelected, Facts!VisitSelected, Storage!MarkSelected,
           Facts!MarkSelected, Storage!InDates, Facts!InDates,
           Storage!GetBoundaryBirthDate, Facts!GetBoundaryBirthDate,
           Storage!Reply, Facts!Reply, Storage!containers, Facts!containers,
           Storage!indexes, Facts!indexes
  <1>6. Storage!vars = Facts!vars /\ Storage!vars' = Facts!vars'
    BY DEF Storage!vars, Facts!vars
  <1>7. ASSUME Storage!Next
        PROVE  Facts!Next
    <2>1. /\ Storage!User = Facts!User /\ Storage!UserUpdates = Facts!UserUpdates
          /\ Storage!Location = Facts!Location
          /\ Storage!LocationUpdates = Facts!LocationUpdates
          /\ Storage!Visit = Facts!Visit /\ Storage!VisitUpdates = Facts!VisitUpdates
      BY DEF Storage!User, Facts!User, Storage!UserUpdates, Facts!UserUpdates,
             Storage!Location, Facts!Location, Storage!LocationUpdates,
             Facts!LocationUpdates, Storage!Visit, Facts!Visit,
             Storage!VisitUpdates, Facts!VisitUpdates
    <2>2. QED
      BY <1>2, <1>3, <1>4, <1>5, <1>7, <2>1 DEF Storage!Next, Facts!Next
  <1>8. QED
    BY <1>1, <1>6, <1>7

\* The processor's behaviours are behaviours of the storage the facts are about.
LEMMA ProcessorUsesFacts == Spec => Facts!Spec
  BY ProcessorUsesStorage, SameStorage, PTL DEF Storage!Spec, Facts!Spec

\* What is proved of the storage's types and of its index of locations holds
\* behind the processor.
LEMMA StorageInvariants ==
  Spec => [](Facts!TypeOK /\ Facts!LocationIndexExact)
  <1>1. /\ Facts!Spec => []Facts!TypeOK
        /\ Facts!Spec => []Facts!LocationIndexExact
    BY Facts!TypeCorrect, Facts!LocationIndexCorrect, IdAssumption, GenderAssumption,
       NoneAssumption, HandOversAssumption, MaxCopiesAssumption, PTL
       DEF IdAssumption, GenderAssumption, NoneAssumption, User, Location, Visit,
           Facts!User, Facts!Location, Facts!Visit, HandOversAssumption,
           MaxCopiesAssumption
  <1>2. QED
    BY <1>1, ProcessorUsesFacts, PTL

\* What the body of an update gives and the storage can tell from "not given"
\* is what the visit is replaced by.
LEMMA FilledLemma ==
  ASSUME NEW body \in VisitBodies, NEW before
  PROVE  LET after == Storage!UpdatedVisit(before, FillVisitToUpdate(body))
         IN /\ Takes(after.location_id, before.location_id, body.location, LocationIds)
            /\ Takes(after.user_id, before.user_id, body.user, UserIds)
            /\ Takes(after.visited_at, before.visited_at, body.visited_at, Timestamps)
            /\ Takes(after.mark, before.mark, body.mark, Marks)
  BY IdAssumption, ValuesAssumption
     DEF IdAssumption, ValuesAssumption, Takes, FillVisitToUpdate,
         Storage!UpdatedVisit, Storage!Given

\* An update that is answered 200 has replaced the visit, and moved it in the
\* indexes where it changed its location or its user.
LEMMA AcceptedLemma ==
  ASSUME Facts!TypeOK, Facts!TypeOK', Facts!LocationIndexExact,
         NEW id \in VisitIds, NEW body \in VisitBodies,
         ProcessUpdateVisit(id, body), reply' = "Ok"
  PROVE  LET before == visits_[id]
             after == visits_'[id]
         IN /\ after = Storage!UpdatedVisit(before, FillVisitToUpdate(body))
            /\ after.user_id # before.user_id => users_to_visits_'[after.user_id][id] > 0
            /\ after.location_id # before.location_id
                 => locations_to_visits_'[after.location_id][id] = 1
  <1> DEFINE before == visits_[id]
             after == Storage!UpdatedVisit(before, FillVisitToUpdate(body))
  <1>1. /\ visits_ \in [VisitIds -> Facts!Visit \cup {None}]
        /\ visits_' \in [VisitIds -> Facts!Visit \cup {None}]
        /\ users_to_visits_ \in [UserIds -> [VisitIds -> Nat]]
        /\ locations_to_visits_ \in [LocationIds -> [VisitIds -> Nat]]
    BY DEF Facts!TypeOK, Facts!Multiset
  <1>2. VisitDataForUpdate(body) /\ Storage!UpdateVisit(id, FillVisitToUpdate(body))
    BY DEF ProcessUpdateVisit, Refuse
  <1>3. answer' = Storage!EntitySuccessfullyUpdated
    BY <1>2 DEF ProcessUpdateVisit, UpdateReply
  <1>4. before # None
    BY <1>2, <1>3 DEF Storage!UpdateVisit, Storage!EntitySuccessfullyUpdated,
         Storage!EntityNotFound
  <1>5. visits_' = [visits_ EXCEPT ![id] = after]
    BY <1>2, <1>4 DEF Storage!UpdateVisit
  <1>6. visits_'[id] = after
    BY <1>1, <1>5
  <1>7. after.user_id \in UserIds /\ after.location_id \in LocationIds
    <2>1. before \in Facts!Visit
      BY <1>1, <1>4
    <2>2. FillVisitToUpdate(body) \in VisitUpdates
      BY <1>2, UpdatesAssumption DEF UpdatesAssumption
    <2>3. QED
      BY <2>1, <2>2 DEF Facts!Visit, VisitUpdates, Storage!UpdatedVisit, Storage!Given
  <1>8. ASSUME after.user_id # before.user_id
        PROVE  users_to_visits_'[after.user_id][id] > 0
    <2>1. users_to_visits_' =
            Storage!UserIndexAfterHandOver(id, before.user_id, after.user_id)
      BY <1>2, <1>4, <1>8 DEF Storage!UpdateVisit
    <2>2. users_to_visits_'[after.user_id] =
            Storage!Emplace(users_to_visits_[after.user_id], id)
      BY <1>1, <1>7, <1>8, <2>1 DEF Storage!UserIndexAfterHandOver, Storage!Moved
    <2>3. users_to_visits_'[after.user_id][id] = users_to_visits_[after.user_id][id] + 1
      BY <1>1, <1>7, <2>2 DEF Storage!Emplace
    <2>4. users_to_visits_[after.user_id][id] \in Nat
      BY <1>1, <1>7
    <2> HIDE DEF after
    <2>5. QED
      BY <2>3, <2>4
  <1>9. ASSUME after.location_id # before.location_id
        PROVE  locations_to_visits_'[after.location_id][id] = 1
    <2>1. locations_to_visits_' =
            Storage!LocationIndexAfterMove(id, before.location_id, after.location_id)
      BY <1>2, <1>4, <1>9 DEF Storage!UpdateVisit
    <2>2. locations_to_visits_'[after.location_id] =
            Storage!Emplace(locations_to_visits_[after.location_id], id)
      BY <1>1, <1>7, <1>9, <2>1 DEF Storage!LocationIndexAfterMove, Storage!Moved
    <2>3. locations_to_visits_'[after.location_id][id] =
            locations_to_visits_[after.location_id][id] + 1
      BY <1>1, <1>7, <2>2 DEF Storage!Emplace
    <2>4. /\ locations_to_visits_[after.location_id][id] \in Nat
          /\ locations_to_visits_[after.location_id][id] <= 1
          /\ locations_to_visits_[after.location_id][id] # 1
      BY <1>1, <1>7, <1>9 DEF Facts!LocationIndexExact
    <2> HIDE DEF after
    <2>5. QED
      BY <2>3, <2>4
  <1>10. QED
    BY <1>6, <1>8, <1>9

\* After a 200 to the update of a visit, the visit is what the body says, and
\* a query finds it where it was moved to.
THEOREM AcceptedUpdatesTakeEffect == Spec => AcceptedTakesEffect
  <1> DEFINE TakesEffect ==
               \A r \in VisitUpdateRequests : request' = r /\ reply' = "Ok" =>
                 LET before == visits_[r.id]
                     after == visits_'[r.id]
                 IN /\ Takes(after.location_id, before.location_id,
                             r.body.location, LocationIds)
                    /\ Takes(after.user_id, before.user_id, r.body.user, UserIds)
                    /\ Takes(after.visited_at, before.visited_at,
                             r.body.visited_at, Timestamps)
                    /\ Takes(after.mark, before.mark, r.body.mark, Marks)
                    /\ after.user_id # before.user_id
                         => users_to_visits_'[after.user_id][r.id] > 0
                    /\ after.location_id # before.location_id
                         => locations_to_visits_'[after.location_id][r.id] = 1
             Stored == Facts!TypeOK /\ Facts!LocationIndexExact
  <1>1. ASSUME Stored, Stored', RetryInvariant, Next,
               NEW r \in VisitUpdateRequests, request' = r, reply' = "Ok"
        PROVE  r.id \in VisitIds /\ r.body \in VisitBodies
               /\ ProcessUpdateVisit(r.id, r.body)
    <2>1. r.id \in VisitIds /\ r.body \in VisitBodies
      BY DEF VisitUpdateRequests
    <2>2. ~LoadZippedData
      BY <1>1, NoRequestAssumption DEF NoRequestAssumption, LoadZippedData,
           Storage!LoadUser, Storage!LoadLocation, Storage!LoadVisit,
           Storage!MapEntities, RetryInvariant
    <2>3. ProcessUpdateVisit(r.id, r.body)
      BY <1>1, <2>2, KindsDisjoint DEF Next, ProcessRequest
    <2>4. QED
      BY <2>1, <2>3
  <1>2. Stored /\ Stored' /\ RetryInvariant /\ Next => TakesEffect
    BY <1>1, FilledLemma, AcceptedLemma
  <1>3. Stored /\ Stored' /\ RetryInvariant /\ [Next]_vars => [TakesEffect]_vars
    BY <1>2
  <1>4. Spec => []RetryInvariant
    <2>1. Init => RetryInvariant
      BY RetryInit
    <2>2. QED
      BY <2>1, SpentStep, PTL DEF Spec
  <1>5. Spec => []Stored
    BY StorageInvariants
  <1>6. QED
    BY <1>3, <1>4, <1>5, PTL DEF Spec, AcceptedTakesEffect

-----------------------------------------------------------------------------
(***************************************************************************)
(* What is proved of the storage holds of the requests.                    *)
(***************************************************************************)
\* No sequence of requests, valid or not, makes a list miss a visit of its user,
\* but for the visit of the user's id.
THEOREM RequestsKeepLists == Spec => []Facts!UserIndexCovers
  <1>1. Facts!Spec => []Facts!UserIndexCovers
    BY Facts!UserIndexCovered, IdAssumption, GenderAssumption,
       NoneAssumption, HandOversAssumption, MaxCopiesAssumption, PTL
       DEF IdAssumption, GenderAssumption, NoneAssumption, User, Location, Visit,
           Facts!User, Facts!Location, Facts!Visit, HandOversAssumption,
           MaxCopiesAssumption
  <1>2. QED
    BY <1>1, ProcessorUsesFacts, PTL

\* No request takes a visit out of the averages, and only the hand-over of
\* another visit of the user of its id takes one out of the lists.
THEOREM RequestsForgetNothingElse == Spec => Facts!OnlyNamesakeForgotten
  <1>1. Facts!Spec => Facts!OnlyNamesakeForgotten
    BY Facts!NothingElseForgotten, IdAssumption, GenderAssumption,
       NoneAssumption, HandOversAssumption, MaxCopiesAssumption, PTL
       DEF IdAssumption, GenderAssumption, NoneAssumption, User, Location, Visit,
           Facts!User, Facts!Location, Facts!Visit, HandOversAssumption,
           MaxCopiesAssumption
  <1>2. QED
    BY <1>1, ProcessorUsesFacts, PTL

\* A request changes the index entries of no visit but the one it names, or the
\* one of the id of the user it takes that visit from.
THEOREM RequestsDisturbNoneElse == Spec => Facts!OnlyNamesakeDisturbed
  <1>1. Facts!Spec => Facts!OnlyNamesakeDisturbed
    BY Facts!NoneElseDisturbed, IdAssumption, GenderAssumption,
       NoneAssumption, HandOversAssumption, MaxCopiesAssumption, PTL
       DEF IdAssumption, GenderAssumption, NoneAssumption, User, Location, Visit,
           Facts!User, Facts!Location, Facts!Visit, HandOversAssumption,
           MaxCopiesAssumption
  <1>2. QED
    BY <1>1, ProcessorUsesFacts, PTL

\* As long as no client hands a visit over, every request is answered as by a
\* storage that has no indexes.
THEOREM RequestsImplementIDataStorage ==
  ASSUME HandOvers = FALSE
  PROVE  Spec => Facts!ImplementsIDataStorage
  <1>1. Facts!Spec => Facts!ImplementsIDataStorage
    BY Facts!StorageImplementsIDataStorage, IdAssumption, GenderAssumption,
       NoneAssumption, HandOversAssumption, MaxCopiesAssumption, PTL
       DEF IdAssumption, GenderAssumption, NoneAssumption, User, Location, Visit,
           Facts!User, Facts!Location, Facts!Visit, HandOversAssumption,
           MaxCopiesAssumption
  <1>2. QED
    BY <1>1, ProcessorUsesFacts, PTL
===============================================================================
