---------------------------- MODULE IDataStorage ----------------------------
(***************************************************************************)
(* What the storage interface (DataStorage/IDataStorage.h) promises its    *)
(* caller, said without any index: three containers, the answer of the     *)
(* last call, and which visits the two queries can see at all.  A visit is *)
(* `located` when the average of its location counts it and `owned` when   *)
(* the list of its user shows it.  Every visit added through the interface *)
(* is both; a loaded visit is both when its location and its user were     *)
(* loaded too and neither otherwise; and no call ever takes a visit away   *)
(* from either.                                                            *)
(***************************************************************************)
EXTENDS Entities

CONSTANTS
  VisitQueries,      \* the GetVisistsByUserIdQuery values clients send
  AverageQueries     \* the GetAverageLocationMarkQuery values clients send

VARIABLES
  phase,                        \* "Loading", then "Serving"
  users_, locations_, visits_,  \* id -> entity, None when there is no such id
  located, owned,               \* the visits the two queries can see
  answer                        \* what the last call returned

vars == <<phase, users_, locations_, visits_, located, owned, answer>>

\* UpdateEntityStatus and AddEntityStatus
EntityNotFound == <<"EntityNotFound">>
EntitySuccessfullyUpdated == <<"EntitySuccessfullyUpdated">>
EntityAlreadyExist == <<"EntityAlreadyExist">>
EntitySuccessfullyAdded == <<"EntitySuccessfullyAdded">>

Init ==
  /\ phase = "Loading"
  /\ users_ = [u \in UserIds |-> None]
  /\ locations_ = [l \in LocationIds |-> None]
  /\ visits_ = [v \in VisitIds |-> None]
  /\ located = {}
  /\ owned = {}
  /\ answer = <<"Loaded">>

(***************************************************************************)
(* Loading.                                                                *)
(***************************************************************************)
LoadUser(u, user) ==
  /\ phase = "Loading"
  /\ users_[u] = None
  /\ users_' = [users_ EXCEPT ![u] = user]
  /\ UNCHANGED <<phase, locations_, visits_, located, owned, answer>>

LoadLocation(l, location) ==
  /\ phase = "Loading"
  /\ locations_[l] = None
  /\ locations_' = [locations_ EXCEPT ![l] = location]
  /\ UNCHANGED <<phase, users_, visits_, located, owned, answer>>

LoadVisit(v, visit) ==
  /\ phase = "Loading"
  /\ visits_[v] = None
  /\ visits_' = [visits_ EXCEPT ![v] = visit]
  /\ UNCHANGED <<phase, users_, locations_, located, owned, answer>>

\* The visits whose location and user are both known.
Complete == {v \in VisitIds :
               /\ visits_[v] # None
               /\ locations_[visits_[v].location_id] # None
               /\ users_[visits_[v].user_id] # None}

MapEntities ==
  /\ phase = "Loading"
  /\ phase' = "Serving"
  /\ located' = Complete
  /\ owned' = Complete
  /\ UNCHANGED <<users_, locations_, visits_, answer>>

(***************************************************************************)
(* AddUser, AddLocation, AddVisit.                                         *)
(***************************************************************************)
AddUser(u, user) ==
  /\ phase = "Serving"
  /\ users_[u] = None
  /\ users_' = [users_ EXCEPT ![u] = user]
  /\ answer' = EntitySuccessfullyAdded
  /\ UNCHANGED <<phase, locations_, visits_, located, owned>>

AddLocation(l, location) ==
  /\ phase = "Serving"
  /\ locations_[l] = None
  /\ locations_' = [locations_ EXCEPT ![l] = location]
  /\ answer' = EntitySuccessfullyAdded
  /\ UNCHANGED <<phase, users_, visits_, located, owned>>

AddVisit(v, visit) ==
  /\ phase = "Serving"
  /\ visits_[v] = None
  /\ visits_' = [visits_ EXCEPT ![v] = visit]
  /\ located' = located \cup {v}
  /\ owned' = owned \cup {v}
  /\ answer' = EntitySuccessfullyAdded
  /\ UNCHANGED <<phase, users_, locations_>>

(***************************************************************************)
(* UpdateUser, UpdateLocation, UpdateVisit.  Moving a visit shows it at    *)
(* its new location, or under its new user, even when it was not seen      *)
(* before.                                                                 *)
(***************************************************************************)
UpdateUser(u, update) ==
  /\ phase = "Serving"
  /\ users_[u] # None
  /\ users_' = [users_ EXCEPT ![u] = UpdatedUser(@, update)]
  /\ answer' = EntitySuccessfullyUpdated
  /\ UNCHANGED <<phase, locations_, visits_, located, owned>>

UpdateLocation(l, update) ==
  /\ phase = "Serving"
  /\ locations_[l] # None
  /\ locations_' = [locations_ EXCEPT ![l] = UpdatedLocation(@, update)]
  /\ answer' = EntitySuccessfullyUpdated
  /\ UNCHANGED <<phase, users_, visits_, located, owned>>

UpdateVisit(v, update) ==
  /\ phase = "Serving"
  /\ visits_[v] # None
  /\ LET visit == visits_[v]
         updated == UpdatedVisit(visit, update)
     IN /\ visits_' = [visits_ EXCEPT ![v] = updated]
        /\ located' = IF updated.location_id = visit.location_id
                      THEN located ELSE located \cup {v}
        /\ owned' = IF updated.user_id = visit.user_id
                    THEN owned ELSE owned \cup {v}
  /\ answer' = EntitySuccessfullyUpdated
  /\ UNCHANGED <<phase, users_, locations_>>

\* A refused call changes nothing but the answer.
RefuseAdd(container, id) ==
  /\ phase = "Serving"
  /\ container[id] # None
  /\ answer' = EntityAlreadyExist
  /\ UNCHANGED <<phase, users_, locations_, visits_, located, owned>>

RefuseUpdate(container, id) ==
  /\ phase = "Serving"
  /\ container[id] = None
  /\ answer' = EntityNotFound
  /\ UNCHANGED <<phase, users_, locations_, visits_, located, owned>>

(***************************************************************************)
(* GetUserById, GetLocationById, GetVisitById.                             *)
(***************************************************************************)
GetById(entity) ==
  /\ phase = "Serving"
  /\ answer' = <<"Entity", entity>>
  /\ UNCHANGED <<phase, users_, locations_, visits_, located, owned>>

(***************************************************************************)
(* GetVisistsByUserId and GetAverageLocationMark.  The answer of the first *)
(* is how often each visit is listed, that of the second how often each    *)
(* visit's mark is summed: the text of the answer is a function of these   *)
(* counts and of the entities.                                             *)
(***************************************************************************)
Listed(u, query) ==
  [v \in VisitIds |->
     IF /\ v \in owned
        /\ visits_[v].user_id = u
        /\ locations_[visits_[v].location_id] # None
        /\ VisitSelected(query, visits_[v], locations_[visits_[v].location_id])
     THEN 1 ELSE 0]

GetVisistsByUserId(u, query) ==
  /\ phase = "Serving"
  /\ answer' = <<"Visits", IF users_[u] = None THEN None ELSE Listed(u, query)>>
  /\ UNCHANGED <<phase, users_, locations_, visits_, located, owned>>

Summed(l, query) ==
  [v \in VisitIds |->
     IF /\ v \in located
        /\ visits_[v].location_id = l
        /\ users_[visits_[v].user_id] # None
        /\ MarkSelected(query, visits_[v], users_[visits_[v].user_id])
     THEN 1 ELSE 0]

GetAverageLocationMark(l, query) ==
  /\ phase = "Serving"
  /\ answer' = <<"Marks", IF locations_[l] = None THEN None ELSE Summed(l, query)>>
  /\ UNCHANGED <<phase, users_, locations_, visits_, located, owned>>

Next ==
  \/ \E u \in UserIds :
       \/ \E user \in User : LoadUser(u, user) \/ AddUser(u, user)
       \/ \E update \in UserUpdates : UpdateUser(u, update)
       \/ RefuseAdd(users_, u) \/ RefuseUpdate(users_, u)
       \/ GetById(users_[u])
       \/ \E query \in VisitQueries : GetVisistsByUserId(u, query)
  \/ \E l \in LocationIds :
       \/ \E location \in Location :
            LoadLocation(l, location) \/ AddLocation(l, location)
       \/ \E update \in LocationUpdates : UpdateLocation(l, update)
       \/ RefuseAdd(locations_, l) \/ RefuseUpdate(locations_, l)
       \/ GetById(locations_[l])
       \/ \E query \in AverageQueries : GetAverageLocationMark(l, query)
  \/ \E v \in VisitIds :
       \/ \E visit \in Visit : LoadVisit(v, visit) \/ AddVisit(v, visit)
       \/ \E update \in VisitUpdates : UpdateVisit(v, update)
       \/ RefuseAdd(visits_, v) \/ RefuseUpdate(visits_, v)
       \/ GetById(visits_[v])
  \/ MapEntities

Spec == Init /\ [][Next]_vars
=============================================================================
