----------------------------- MODULE DataStorage -----------------------------
(***************************************************************************)
(* DataStorageNew (DataStorage/DataStorage.cpp), the storage the server    *)
(* runs on: the three containers and the two indexes that answer the       *)
(* queries.  The indexes are maps from an id to a multiset of visit ids; a *)
(* multiset is modelled by the number of copies of each visit id, and a    *)
(* key without an entry by the empty multiset, which every reader treats   *)
(* alike.                                                                  *)
(***************************************************************************)
EXTENDS Entities

CONSTANTS
  VisitQueries,      \* the GetVisistsByUserIdQuery values clients send
  AverageQueries,    \* the GetAverageLocationMarkQuery values clients send
  HandOvers,         \* whether clients move a visit to another user
  MaxCopies          \* bound on the copies of a visit in one user's multiset

ASSUME HandOversAssumption == HandOvers \in BOOLEAN
ASSUME MaxCopiesAssumption == MaxCopies \in Nat \ {0}

VARIABLES
  phase,                  \* "Loading" in the server's constructor, "Serving" after
  users_, locations_, visits_,
  users_to_visits_, locations_to_visits_,
  answer                  \* what the last call returned

containers == <<users_, locations_, visits_>>
indexes == <<users_to_visits_, locations_to_visits_>>
vars == <<phase, users_, locations_, visits_,
          users_to_visits_, locations_to_visits_, answer>>

EntityNotFound == <<"EntityNotFound">>
EntitySuccessfullyUpdated == <<"EntitySuccessfullyUpdated">>
EntityAlreadyExist == <<"EntityAlreadyExist">>
EntitySuccessfullyAdded == <<"EntitySuccessfullyAdded">>

\* Multisets of visit ids.
Multiset == [VisitIds -> Nat]
EmptyMultiset == [v \in VisitIds |-> 0]

\* emplace adds one copy; erase of a value removes every copy of it, and the
\* value may be any Id.
Emplace(multiset, v) == [multiset EXCEPT ![v] = @ + 1]
\* Mutant: the whole entry is erased.
Erase_Mutant(multiset, id) == EmptyMultiset
Erase(multiset, id) == [v \in VisitIds |-> IF v = id THEN 0 ELSE multiset[v]]

Init ==
  /\ phase = "Loading"
  /\ users_ = [u \in UserIds |-> None]
  /\ locations_ = [l \in LocationIds |-> None]
  /\ visits_ = [v \in VisitIds |-> None]
  /\ users_to_visits_ = [u \in UserIds |-> EmptyMultiset]
  /\ locations_to_visits_ = [l \in LocationIds |-> EmptyMultiset]
  /\ answer = <<"Loaded">>

(***************************************************************************)
(* LoadData and LoadZippedData: the files come in any order, and an        *)
(* element whose id is taken is dropped.  MapEntities then indexes the     *)
(* visits whose location and user are there.                               *)
(***************************************************************************)
EmplaceEntity(container, id, entity) ==
  IF container[id] = None THEN [container EXCEPT ![id] = entity] ELSE container

LoadUser(u, user) ==
  /\ phase = "Loading"
  /\ users_' = EmplaceEntity(users_, u, user)
  /\ UNCHANGED <<phase, locations_, visits_, indexes, answer>>

LoadLocation(l, location) ==
  /\ phase = "Loading"
  /\ locations_' = EmplaceEntity(locations_, l, location)
  /\ UNCHANGED <<phase, users_, visits_, indexes, answer>>

\* Mutant: a loaded visit is indexed at once, its user and location unseen.
LoadVisit_Mutant(v, visit) ==
  /\ phase = "Loading"
  /\ visits_' = EmplaceEntity(visits_, v, visit)
  /\ users_to_visits_' =
       [users_to_visits_ EXCEPT ![visit.user_id] = Emplace(@, v)]
  /\ users_to_visits_'[visit.user_id][v] <= MaxCopies
  /\ UNCHANGED <<phase, users_, locations_, locations_to_visits_, answer>>

LoadVisit(v, visit) ==
  /\ phase = "Loading"
  /\ visits_' = EmplaceEntity(visits_, v, visit)
  /\ UNCHANGED <<phase, users_, locations_, indexes, answer>>

\* Mutant: only the location is looked up.
Mapped_Mutant(v) ==
  /\ visits_[v] # None
  /\ locations_[visits_[v].location_id] # None

Mapped(v) ==
  /\ visits_[v] # None
  /\ locations_[visits_[v].location_id] # None
  /\ users_[visits_[v].user_id] # None

MapEntities ==
  /\ phase = "Loading"
  /\ phase' = "Serving"
  /\ users_to_visits_' =
       [u \in UserIds |-> [v \in VisitIds |->
          IF Mapped(v) /\ visits_[v].user_id = u
          THEN users_to_visits_[u][v] + 1 ELSE users_to_visits_[u][v]]]
  /\ locations_to_visits_' =
       [l \in LocationIds |-> [v \in VisitIds |->
          IF Mapped(v) /\ visits_[v].location_id = l
          THEN locations_to_visits_[l][v] + 1 ELSE locations_to_visits_[l][v]]]
  /\ UNCHANGED <<containers, answer>>

(***************************************************************************)
(* AddUser, AddLocation, AddVisit.  AddVisit does not look whether the     *)
(* visit's location and user exist.                                        *)
(***************************************************************************)
AddUser(u, user) ==
  /\ phase = "Serving"
  /\ IF users_[u] # None
     THEN answer' = EntityAlreadyExist /\ UNCHANGED users_
     ELSE /\ users_' = [users_ EXCEPT ![u] = user]
          /\ answer' = EntitySuccessfullyAdded
  /\ UNCHANGED <<phase, locations_, visits_, indexes>>

AddLocation(l, location) ==
  /\ phase = "Serving"
  /\ IF locations_[l] # None
     THEN answer' = EntityAlreadyExist /\ UNCHANGED locations_
     ELSE /\ locations_' = [locations_ EXCEPT ![l] = location]
          /\ answer' = EntitySuccessfullyAdded
  /\ UNCHANGED <<phase, users_, visits_, indexes>>

\* Mutant: a taken id is not refused.
AddVisit_Mutant(v, visit) ==
  /\ phase = "Serving"
  /\ visits_' = EmplaceEntity(visits_, v, visit)
  /\ users_to_visits_' =
       [users_to_visits_ EXCEPT ![visit.user_id] = Emplace(@, v)]
  /\ locations_to_visits_' =
       [locations_to_visits_ EXCEPT ![visit.location_id] = Emplace(@, v)]
  /\ answer' = EntitySuccessfullyAdded
  /\ UNCHANGED <<phase, users_, locations_>>

AddVisit(v, visit) ==
  /\ phase = "Serving"
  /\ IF visits_[v] # None
     THEN answer' = EntityAlreadyExist /\ UNCHANGED <<visits_, indexes>>
     ELSE /\ visits_' = [visits_ EXCEPT ![v] = visit]
          /\ users_to_visits_' =
               [users_to_visits_ EXCEPT ![visit.user_id] = Emplace(@, v)]
          /\ locations_to_visits_' =
               [locations_to_visits_ EXCEPT ![visit.location_id] = Emplace(@, v)]
          /\ answer' = EntitySuccessfullyAdded
  /\ UNCHANGED <<phase, users_, locations_>>

(***************************************************************************)
(* UpdateUser, UpdateLocation.                                             *)
(***************************************************************************)
UpdateUser(u, update) ==
  /\ phase = "Serving"
  /\ IF users_[u] = None
     THEN answer' = EntityNotFound /\ UNCHANGED users_
     ELSE /\ users_' = [users_ EXCEPT ![u] = UpdatedUser(@, update)]
          /\ answer' = EntitySuccessfullyUpdated
  /\ UNCHANGED <<phase, locations_, visits_, indexes>>

UpdateLocation(l, update) ==
  /\ phase = "Serving"
  /\ IF locations_[l] = None
     THEN answer' = EntityNotFound /\ UNCHANGED locations_
     ELSE /\ locations_' = [locations_ EXCEPT ![l] = UpdatedLocation(@, update)]
          /\ answer' = EntitySuccessfullyUpdated
  /\ UNCHANGED <<phase, users_, visits_, indexes>>

(***************************************************************************)
(* UpdateVisit.  A visit that changes its location leaves the multiset of  *)
(* the old location for that of the new one.  A visit that changes its     *)
(* user enters the new user's multiset, but what is erased from the old    *)
(* user's is the old user's own id, not the visit's.                       *)
(***************************************************************************)
Moved(index, erased, from, v, to) ==
  [key \in DOMAIN index |->
     IF key = from THEN Erase(index[key], erased)
     ELSE IF key = to THEN Emplace(index[key], v)
     ELSE index[key]]

\* Mutant: the slip of the user's branch, in the location's.
LocationIndexAfterMove_Mutant(v, from, to) ==
  Moved(locations_to_visits_, from, from, v, to)

LocationIndexAfterMove(v, from, to) ==
  Moved(locations_to_visits_, v, from, v, to)

\* Mutants: the index is left as it was; the visit is erased and not added.
UserIndexAfterHandOver_Kept(v, from, to) == users_to_visits_
UserIndexAfterHandOver_Erased(v, from, to) ==
  [users_to_visits_ EXCEPT ![from] = Erase(@, v)]

UserIndexAfterHandOver(v, from, to) ==
  Moved(users_to_visits_, from, from, v, to)

UpdateVisit(v, update) ==
  /\ phase = "Serving"
  /\ IF visits_[v] = None
     THEN answer' = EntityNotFound /\ UNCHANGED <<visits_, indexes>>
     ELSE LET from == visits_[v]
              to == UpdatedVisit(from, update)
          IN /\ HandOvers \/ to.user_id = from.user_id
             /\ locations_to_visits_' =
                  IF to.location_id = from.location_id THEN locations_to_visits_
                  ELSE LocationIndexAfterMove(v, from.location_id, to.location_id)
             /\ users_to_visits_' =
                  IF to.user_id = from.user_id THEN users_to_visits_
                  ELSE UserIndexAfterHandOver(v, from.user_id, to.user_id)
             /\ users_to_visits_'[to.user_id][v] <= MaxCopies
             /\ visits_' = [visits_ EXCEPT ![v] = to]
             /\ answer' = EntitySuccessfullyUpdated
  /\ UNCHANGED <<phase, users_, locations_>>

(***************************************************************************)
(* The const methods: they leave the storage alone and answer from it.     *)
(***************************************************************************)
Reply(result) ==
  /\ phase = "Serving"
  /\ answer' = result
  /\ UNCHANGED <<phase, containers, indexes>>

GetUserById(u) == Reply(<<"Entity", users_[u]>>)
GetLocationById(l) == Reply(<<"Entity", locations_[l]>>)
GetVisitById(v) == Reply(<<"Entity", visits_[v]>>)

\* How often each visit is listed: once for each copy in the user's multiset.
Listed(u, query) ==
  [v \in VisitIds |->
     IF /\ visits_[v] # None
        /\ locations_[visits_[v].location_id] # None
        /\ VisitSelected(query, visits_[v], locations_[visits_[v].location_id])
     THEN users_to_visits_[u][v] ELSE 0]

GetVisistsByUserId(u, query) ==
  Reply(<<"Visits", IF users_[u] = None THEN None ELSE Listed(u, query)>>)

\* How often each visit's mark enters the sum.
Summed(l, query) ==
  [v \in VisitIds |->
     IF /\ visits_[v] # None
        /\ users_[visits_[v].user_id] # None
        /\ MarkSelected(query, visits_[v], users_[visits_[v].user_id])
     THEN locations_to_visits_[l][v] ELSE 0]

GetAverageLocationMark(l, query) ==
  Reply(<<"Marks", IF locations_[l] = None THEN None ELSE Summed(l, query)>>)

Next ==
  \/ \E u \in UserIds :
       \/ \E user \in User : LoadUser(u, user) \/ AddUser(u, user)
       \/ \E update \in UserUpdates : UpdateUser(u, update)
       \/ GetUserById(u)
       \/ \E query \in VisitQueries : GetVisistsByUserId(u, query)
  \/ \E l \in LocationIds :
       \/ \E location \in Location :
            LoadLocation(l, location) \/ AddLocation(l, location)
       \/ \E update \in LocationUpdates : UpdateLocation(l, update)
       \/ GetLocationById(l)
       \/ \E query \in AverageQueries : GetAverageLocationMark(l, query)
  \/ \E v \in VisitIds :
       \/ \E visit \in Visit : LoadVisit(v, visit) \/ AddVisit(v, visit)
       \/ \E update \in VisitUpdates : UpdateVisit(v, update)
       \/ GetVisitById(v)
  \/ MapEntities

Spec == Init /\ [][Next]_vars

-----------------------------------------------------------------------------
(***************************************************************************)
(* Properties.                                                             *)
(***************************************************************************)
Answers ==
  {<<"Loaded">>, EntityNotFound, EntitySuccessfullyUpdated,
   EntityAlreadyExist, EntitySuccessfullyAdded}
  \cup ({"Entity"} \X ({None} \cup User \cup Location \cup Visit))
  \cup ({"Visits", "Marks"} \X ({None} \cup Multiset))

\* Every container holds entities of its own kind, every index multisets of
\* visit ids, and nothing is indexed before MapEntities.
TypeOK ==
  /\ phase \in {"Loading", "Serving"}
  /\ users_ \in [UserIds -> User \cup {None}]
  /\ locations_ \in [LocationIds -> Location \cup {None}]
  /\ visits_ \in [VisitIds -> Visit \cup {None}]
  /\ users_to_visits_ \in [UserIds -> Multiset]
  /\ locations_to_visits_ \in [LocationIds -> Multiset]
  /\ phase = "Loading" =>
       /\ users_to_visits_ = [u \in UserIds |-> EmptyMultiset]
       /\ locations_to_visits_ = [l \in LocationIds |-> EmptyMultiset]
  /\ answer \in Answers

\* The visits some location's, or some user's, multiset holds.
Located == {v \in VisitIds : \E l \in LocationIds : locations_to_visits_[l][v] > 0}
Owned == {v \in VisitIds : \E u \in UserIds : users_to_visits_[u][v] > 0}

\* GetAverageLocationMark trusts the multiset of the location: it never looks
\* at location_id.  So no visit may be in a multiset twice (its mark would be
\* summed twice) or in the multiset of a location it is not at.
LocationIndexExact ==
  \A l \in LocationIds, v \in VisitIds :
    /\ locations_to_visits_[l][v] <= 1
    /\ locations_to_visits_[l][v] = 1
         => visits_[v] # None /\ visits_[v].location_id = l

\* The same of GetVisistsByUserId, which never looks at user_id.
UserIndexExact ==
  \A u \in UserIds, v \in VisitIds :
    /\ users_to_visits_[u][v] <= 1
    /\ users_to_visits_[u][v] = 1
         => visits_[v] # None /\ visits_[v].user_id = u

\* Whatever is left behind under its former users, an indexed visit is at
\* least in the multiset of the user it belongs to now, so the list of a user
\* misses none of the user's visits, but for one: the visit whose id is the
\* user's own, which UpdateVisit erases in place of the visit it moves.
UserIndexCovers ==
  \A v \in Owned :
    /\ visits_[v] # None
    /\ visits_[v].user_id # v => users_to_visits_[visits_[v].user_id][v] > 0

\* The step takes visit v from user u.
HandedOver(v, u) ==
  visits_[v] # None /\ visits_[v].user_id = u /\ visits_'[v].user_id # u

\* Once a query of averages could find a visit, some query always can.  The
\* lists lose a visit in one way only: it belongs to the user of the same id,
\* and another visit of that user is handed over.
OnlyNamesakeForgotten ==
  [][/\ Located \subseteq Located'
     /\ \A v \in Owned \ Owned' :
          /\ visits_[v].user_id = v
          /\ \E w \in VisitIds \ {v} : HandedOver(w, v)]_vars

\* A call that changes one visit leaves the index entries of every other visit
\* alone, but for the entry of a visit under the user of the same id, which is
\* erased when that user gives a visit away.
OnlyNamesakeDisturbed ==
  [][phase = "Serving" =>
       \A v \in VisitIds : visits_'[v] = visits_[v] =>
         /\ \A l \in LocationIds :
              locations_to_visits_'[l][v] = locations_to_visits_[l][v]
         /\ \A u \in UserIds :
              \/ users_to_visits_'[u][v] = users_to_visits_[u][v]
              \/ /\ u = v /\ users_to_visits_'[u][v] = 0
                 /\ \E w \in VisitIds \ {v} : HandedOver(w, u)]_vars

\* What the assertions after UpdateVisit in ComplexTests.h ask of every update:
\* a user's list shows only visits of that user.
ListedVisitsAreTheUsers ==
  \A u \in UserIds, v \in VisitIds :
    users_to_visits_[u][v] > 0 => visits_[v].user_id = u

\* The storage with its indexes answers every call as the interface without
\* indexes does.
Interface == INSTANCE IDataStorage WITH located <- Located, owned <- Owned
ImplementsIDataStorage == Interface!Spec
=============================================================================
