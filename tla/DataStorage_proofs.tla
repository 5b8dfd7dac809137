------------------------- MODULE DataStorage_proofs -------------------------
(***************************************************************************)
(* Theorems about DataStorage, for every set of ids, entities and queries. *)
(***************************************************************************)
EXTENDS DataStorage, TLAPS

(***************************************************************************)
(* Multisets and partial updates.                                          *)
(***************************************************************************)
\* What emplace and erase do to a multiset of ids.
LEMMA MultisetLemma ==
  ASSUME NEW m \in Multiset, NEW v \in VisitIds, NEW id
  PROVE  /\ EmptyMultiset \in Multiset
         /\ Emplace(m, v) \in Multiset
         /\ Emplace(m, v)[v] = m[v] + 1
         /\ \A w \in VisitIds \ {v} : Emplace(m, v)[w] = m[w]
         /\ Erase(m, id) \in Multiset
         /\ \A w \in VisitIds : Erase(m, id)[w] = IF w = id THEN 0 ELSE m[w]
  BY DEF Multiset, EmptyMultiset, Emplace, Erase

\* Moving a visit between entries gives an index again.
LEMMA MovedLemma ==
  ASSUME NEW Keys, NEW index \in [Keys -> Multiset], NEW erased, NEW from, NEW to,
         NEW v \in VisitIds
  PROVE  Moved(index, erased, from, v, to) \in [Keys -> Multiset]
  BY MultisetLemma DEF Moved

\* How often a visit is in an entry after UpdateVisit moved one: the entry it
\* leaves loses the erased id, the one it enters gains a copy.
LEMMA MovedEntryLemma ==
  ASSUME NEW Keys, NEW index \in [Keys -> Multiset], NEW erased, NEW from, NEW to,
         NEW v \in VisitIds, NEW key \in Keys, NEW w \in VisitIds
  PROVE  Moved(index, erased, from, v, to)[key][w] =
           IF key = from /\ w = erased THEN 0
           ELSE IF key # from /\ key = to /\ w = v THEN index[key][w] + 1
           ELSE index[key][w]
  <1>1. CASE key = from
    BY <1>1, MultisetLemma DEF Moved
  <1>2. CASE key # from /\ key = to
    BY <1>2, MultisetLemma DEF Moved
  <1>3. CASE key # from /\ key # to
    BY <1>3 DEF Moved
  <1>4. QED
    BY <1>1, <1>2, <1>3

\* An update that leaves attributes out gives an entity with all of them.
LEMMA UpdatedLemma ==
  /\ \A user \in User, update \in UserUpdates : UpdatedUser(user, update) \in User
  /\ \A location \in Location, update \in LocationUpdates :
       UpdatedLocation(location, update) \in Location
  /\ \A visit \in Visit, update \in VisitUpdates :
       UpdatedVisit(visit, update) \in Visit
  <1>1. ASSUME NEW user \in User, NEW update \in UserUpdates
        PROVE  UpdatedUser(user, update) \in User
    BY DEF User, UserUpdates, UpdatedUser, Given
  <1>2. ASSUME NEW location \in Location, NEW update \in LocationUpdates
        PROVE  UpdatedLocation(location, update) \in Location
    BY DEF Location, LocationUpdates, UpdatedLocation, Given
  <1>3. ASSUME NEW visit \in Visit, NEW update \in VisitUpdates
        PROVE  UpdatedVisit(visit, update) \in Visit
    BY DEF Visit, VisitUpdates, UpdatedVisit, Given
  <1>4. QED
    BY <1>1, <1>2, <1>3

-----------------------------------------------------------------------------
(***************************************************************************)
(* Type correctness.                                                       *)
(***************************************************************************)
\* Whatever a call returns is an answer.
LEMMA AnswersLemma ==
  /\ EntityNotFound \in Answers
  /\ EntitySuccessfullyUpdated \in Answers
  /\ EntityAlreadyExist \in Answers
  /\ EntitySuccessfullyAdded \in Answers
  /\ <<"Loaded">> \in Answers
  /\ \A e \in {None} \cup User \cup Location \cup Visit : <<"Entity", e>> \in Answers
  /\ \A m \in {None} \cup Multiset :
       <<"Visits", m>> \in Answers /\ <<"Marks", m>> \in Answers
  BY DEF Answers

\* The empty storage has values of the right kinds.
LEMMA TypeInit == Init => TypeOK
  BY MultisetLemma, AnswersLemma DEF Init, TypeOK, EmptyMultiset, Multiset

\* So has the storage after every call.
LEMMA TypeStep == TypeOK /\ [Next]_vars => TypeOK'
  <1> SUFFICES ASSUME TypeOK, [Next]_vars
               PROVE  TypeOK'
    OBVIOUS
  <1> USE DEF TypeOK
  <1>1. ASSUME NEW u \in UserIds, NEW user \in User, LoadUser(u, user)
        PROVE  TypeOK'
    BY <1>1 DEF LoadUser, EmplaceEntity, indexes
  <1>2. ASSUME NEW l \in LocationIds, NEW location \in Location,
               LoadLocation(l, location)
        PROVE  TypeOK'
    BY <1>2 DEF LoadLocation, EmplaceEntity, indexes
  <1>3. ASSUME NEW v \in VisitIds, NEW visit \in Visit, LoadVisit(v, visit)
        PROVE  TypeOK'
    BY <1>3 DEF LoadVisit, EmplaceEntity, indexes
  <1>4. CASE MapEntities
    BY <1>4 DEF MapEntities, containers, Multiset
  <1>5. ASSUME NEW u \in UserIds, NEW user \in User, AddUser(u, user)
        PROVE  TypeOK'
    BY <1>5, AnswersLemma DEF AddUser, indexes
  <1>6. ASSUME NEW l \in LocationIds, NEW location \in Location,
               AddLocation(l, location)
        PROVE  TypeOK'
    BY <1>6, AnswersLemma DEF AddLocation, indexes
  <1>7. ASSUME NEW v \in VisitIds, NEW visit \in Visit, AddVisit(v, visit)
        PROVE  TypeOK'
    <2>1. visit.user_id \in UserIds /\ visit.location_id \in LocationIds
      BY DEF Visit
    <2>2. CASE visits_[v] # None
      BY <1>7, <2>2, AnswersLemma DEF AddVisit, indexes
    <2>3. CASE visits_[v] = None
      <3>1. /\ Emplace(users_to_visits_[visit.user_id], v) \in Multiset
            /\ Emplace(locations_to_visits_[visit.location_id], v) \in Multiset
        BY <2>1, MultisetLemma
      <3>2. visits_' \in [VisitIds -> Visit \cup {None}]
        BY <1>7, <2>3 DEF AddVisit
      <3>3. /\ users_to_visits_' \in [UserIds -> Multiset]
            /\ locations_to_visits_' \in [LocationIds -> Multiset]
        BY <1>7, <2>3, <3>1 DEF AddVisit
      <3>4. QED
        BY <1>7, <2>3, <3>2, <3>3, AnswersLemma DEF AddVisit
    <2>4. QED
      BY <2>2, <2>3
  <1>8. ASSUME NEW u \in UserIds, NEW update \in UserUpdates, UpdateUser(u, update)
        PROVE  TypeOK'
    BY <1>8, AnswersLemma, UpdatedLemma DEF UpdateUser, indexes
  <1>9. ASSUME NEW l \in LocationIds, NEW update \in LocationUpdates,
               UpdateLocation(l, update)
        PROVE  TypeOK'
    BY <1>9, AnswersLemma, UpdatedLemma DEF UpdateLocation, indexes
  <1>10. ASSUME NEW v \in VisitIds, NEW update \in VisitUpdates,
                UpdateVisit(v, update)
         PROVE  TypeOK'
    <2>1. CASE visits_[v] = None
      BY <1>10, <2>1, AnswersLemma DEF UpdateVisit, indexes
    <2>2. CASE visits_[v] # None
      <3> DEFINE from == visits_[v]
                 to == UpdatedVisit(from, update)
      <3>1. from \in Visit /\ to \in Visit
        BY <2>2, UpdatedLemma
      <3>2. /\ LocationIndexAfterMove(v, from.location_id, to.location_id)
                 \in [LocationIds -> Multiset]
            /\ UserIndexAfterHandOver(v, from.user_id, to.user_id)
                 \in [UserIds -> Multiset]
        BY MovedLemma DEF LocationIndexAfterMove, UserIndexAfterHandOver
      <3>3. visits_' \in [VisitIds -> Visit \cup {None}]
        BY <1>10, <2>2, <3>1 DEF UpdateVisit
      <3>4. /\ locations_to_visits_' \in [LocationIds -> Multiset]
            /\ users_to_visits_' \in [UserIds -> Multiset]
        BY <1>10, <2>2, <3>2 DEF UpdateVisit
      <3>5. /\ UNCHANGED <<users_, locations_>>
            /\ phase' = "Serving" /\ answer' \in Answers
        BY <1>10, <2>2, AnswersLemma DEF UpdateVisit
      <3>6. QED
        BY <3>3, <3>4, <3>5
    <2>3. QED
      BY <2>1, <2>2
  <1>11. ASSUME NEW u \in UserIds, GetUserById(u)
         PROVE  TypeOK'
    BY <1>11, AnswersLemma DEF GetUserById, Reply, containers, indexes
  <1>12. ASSUME NEW l \in LocationIds, GetLocationById(l)
         PROVE  TypeOK'
    BY <1>12, AnswersLemma DEF GetLocationById, Reply, containers, indexes
  <1>13. ASSUME NEW v \in VisitIds, GetVisitById(v)
         PROVE  TypeOK'
    BY <1>13, AnswersLemma DEF GetVisitById, Reply, containers, indexes
  <1>14. ASSUME NEW u \in UserIds, NEW query \in VisitQueries,
                GetVisistsByUserId(u, query)
         PROVE  TypeOK'
    <2>1. Listed(u, query) \in Multiset
      BY DEF Listed, Multiset
    <2>2. answer' \in Answers
      BY <1>14, <2>1, AnswersLemma DEF GetVisistsByUserId, Reply
    <2>3. phase = "Serving" /\ UNCHANGED <<phase, containers, indexes>>
      BY <1>14 DEF GetVisistsByUserId, Reply
    <2>4. QED
      BY <2>2, <2>3 DEF containers, indexes
  <1>15. ASSUME NEW l \in LocationIds, NEW query \in AverageQueries,
                GetAverageLocationMark(l, query)
         PROVE  TypeOK'
    <2>1. Summed(l, query) \in Multiset
      BY DEF Summed, Multiset
    <2>2. answer' \in Answers
      BY <1>15, <2>1, AnswersLemma DEF GetAverageLocationMark, Reply
    <2>3. phase = "Serving" /\ UNCHANGED <<phase, containers, indexes>>
      BY <1>15 DEF GetAverageLocationMark, Reply
    <2>4. QED
      BY <2>2, <2>3 DEF containers, indexes
  <1>16. CASE UNCHANGED vars
    BY <1>16 DEF vars
  <1>17. QED
    BY <1>1, <1>2, <1>3, <1>4, <1>5, <1>6, <1>7, <1>8, <1>9, <1>10, <1>11,
       <1>12, <1>13, <1>14, <1>15, <1>16 DEF Next

\* Whatever ids the visits refer to, the containers and both indexes keep
\* their shape: no call files an entity or a multiset entry under an id of
\* another kind.
THEOREM TypeCorrect == Spec => []TypeOK
  BY TypeInit, TypeStep, PTL DEF Spec

-----------------------------------------------------------------------------
(***************************************************************************)
(* What MapEntities, AddVisit and UpdateVisit do to one entry of an index. *)
(***************************************************************************)
\* MapEntities enters a visit once if its location and user are there.
LEMMA MapEntitiesEntry ==
  ASSUME TypeOK, MapEntities, NEW v \in VisitIds
  PROVE  /\ \A l \in LocationIds : locations_to_visits_'[l][v] =
              IF Mapped(v) /\ visits_[v].location_id = l THEN 1 ELSE 0
         /\ \A u \in UserIds : users_to_visits_'[u][v] =
              IF Mapped(v) /\ visits_[v].user_id = u THEN 1 ELSE 0
  BY DEF TypeOK, MapEntities, EmptyMultiset

\* AddVisit adds one copy, under the visit's location and user.
LEMMA AddVisitEntry ==
  ASSUME TypeOK, NEW v \in VisitIds, NEW visit \in Visit, AddVisit(v, visit),
         visits_[v] = None, NEW w \in VisitIds
  PROVE  /\ \A l \in LocationIds : locations_to_visits_'[l][w] =
              IF w = v /\ l = visit.location_id
              THEN locations_to_visits_[l][w] + 1 ELSE locations_to_visits_[l][w]
         /\ \A u \in UserIds : users_to_visits_'[u][w] =
              IF w = v /\ u = visit.user_id
              THEN users_to_visits_[u][w] + 1 ELSE users_to_visits_[u][w]
  <1>1. visit.user_id \in UserIds /\ visit.location_id \in LocationIds
    BY DEF Visit
  <1>2. /\ users_to_visits_ \in [UserIds -> Multiset]
        /\ locations_to_visits_ \in [LocationIds -> Multiset]
    BY DEF TypeOK
  <1>3. /\ users_to_visits_' =
             [users_to_visits_ EXCEPT
                ![visit.user_id] = Emplace(users_to_visits_[visit.user_id], v)]
        /\ locations_to_visits_' =
             [locations_to_visits_ EXCEPT
                ![visit.location_id] =
                   Emplace(locations_to_visits_[visit.location_id], v)]
    BY DEF AddVisit
  <1>4. ASSUME NEW l \in LocationIds
        PROVE  locations_to_visits_'[l][w] =
                 IF w = v /\ l = visit.location_id
                 THEN locations_to_visits_[l][w] + 1 ELSE locations_to_visits_[l][w]
    BY <1>1, <1>2, <1>3, MultisetLemma
  <1>5. ASSUME NEW u \in UserIds
        PROVE  users_to_visits_'[u][w] =
                 IF w = v /\ u = visit.user_id
                 THEN users_to_visits_[u][w] + 1 ELSE users_to_visits_[u][w]
    BY <1>1, <1>2, <1>3, MultisetLemma
  <1>6. QED
    BY <1>4, <1>5

\* UpdateVisit leaves the entries of an unmoved visit alone, moves the visit
\* between locations, and between users erases what has the old user's id.
LEMMA UpdateVisitEntry ==
  ASSUME TypeOK, NEW v \in VisitIds, NEW update \in VisitUpdates,
         UpdateVisit(v, update), visits_[v] # None, NEW w \in VisitIds
  PROVE  LET from == visits_[v]
             to == UpdatedVisit(from, update)
         IN  /\ from \in Visit /\ to \in Visit
             /\ visits_' = [visits_ EXCEPT ![v] = to]
             /\ HandOvers \/ to.user_id = from.user_id
             /\ \A l \in LocationIds : locations_to_visits_'[l][w] =
                  IF w = v /\ from.location_id # to.location_id
                  THEN IF l = from.location_id THEN 0
                       ELSE IF l = to.location_id
                            THEN locations_to_visits_[l][w] + 1
                            ELSE locations_to_visits_[l][w]
                  ELSE locations_to_visits_[l][w]
             /\ \A u \in UserIds : users_to_visits_'[u][w] =
                  IF from.user_id = to.user_id THEN users_to_visits_[u][w]
                  ELSE IF u = from.user_id
                       THEN IF w = u THEN 0 ELSE users_to_visits_[u][w]
                       ELSE IF u = to.user_id /\ w = v
                            THEN users_to_visits_[u][w] + 1
                            ELSE users_to_visits_[u][w]
  <1> DEFINE from == visits_[v]
             to == UpdatedVisit(from, update)
  <1>1. from \in Visit /\ to \in Visit
    BY UpdatedLemma DEF TypeOK
  <1>2. /\ users_to_visits_ \in [UserIds -> Multiset]
        /\ locations_to_visits_ \in [LocationIds -> Multiset]
    BY DEF TypeOK
  <1>3. /\ visits_' = [visits_ EXCEPT ![v] = to]
        /\ HandOvers \/ to.user_id = from.user_id
        /\ locations_to_visits_' =
             IF to.location_id = from.location_id THEN locations_to_visits_
             ELSE Moved(locations_to_visits_, v, from.location_id, v, to.location_id)
        /\ users_to_visits_' =
             IF to.user_id = from.user_id THEN users_to_visits_
             ELSE Moved(users_to_visits_, from.user_id, from.user_id, v, to.user_id)
    BY DEF UpdateVisit, LocationIndexAfterMove, UserIndexAfterHandOver
  <1> HIDE DEF from, to
  <1>4. ASSUME NEW l \in LocationIds
        PROVE  locations_to_visits_'[l][w] =
                 IF w = v /\ from.location_id # to.location_id
                 THEN IF l = from.location_id THEN 0
                      ELSE IF l = to.location_id
                           THEN locations_to_visits_[l][w] + 1
                           ELSE locations_to_visits_[l][w]
                 ELSE locations_to_visits_[l][w]
    BY <1>2, <1>3, MovedEntryLemma
  <1>5. ASSUME NEW u \in UserIds
        PROVE  users_to_visits_'[u][w] =
                 IF from.user_id = to.user_id THEN users_to_visits_[u][w]
                 ELSE IF u = from.user_id
                      THEN IF w = u THEN 0 ELSE users_to_visits_[u][w]
                      ELSE IF u = to.user_id /\ w = v
                           THEN users_to_visits_[u][w] + 1
                           ELSE users_to_visits_[u][w]
    BY <1>2, <1>3, MovedEntryLemma
  <1>6. QED
    BY <1>1, <1>3, <1>4, <1>5 DEF from, to

\* No other step touches an index entry, and of the other steps only
\* LoadVisit touches visits_.
LEMMA OtherSteps ==
  ASSUME TypeOK, [Next]_vars, ~MapEntities,
         ~\E v \in VisitIds, visit \in Visit :
            AddVisit(v, visit) /\ visits_[v] = None,
         ~\E v \in VisitIds, update \in VisitUpdates :
            UpdateVisit(v, update) /\ visits_[v] # None
  PROVE  /\ UNCHANGED indexes
         /\ visits_' # visits_ => phase = "Loading"
         /\ \A v \in VisitIds : visits_[v] # None => visits_'[v] = visits_[v]
  <1>1. ASSUME NEW u \in UserIds, NEW user \in User,
               LoadUser(u, user) \/ AddUser(u, user)
        PROVE  UNCHANGED <<visits_, indexes>>
    BY <1>1 DEF LoadUser, AddUser
  <1>2. ASSUME NEW l \in LocationIds, NEW location \in Location,
               LoadLocation(l, location) \/ AddLocation(l, location)
        PROVE  UNCHANGED <<visits_, indexes>>
    BY <1>2 DEF LoadLocation, AddLocation
  <1>3. ASSUME NEW v \in VisitIds, NEW visit \in Visit, LoadVisit(v, visit)
        PROVE  /\ UNCHANGED indexes /\ phase = "Loading"
               /\ \A w \in VisitIds : visits_[w] # None => visits_'[w] = visits_[w]
    BY <1>3 DEF LoadVisit, EmplaceEntity, TypeOK
  <1>4. ASSUME NEW v \in VisitIds, NEW visit \in Visit, AddVisit(v, visit)
        PROVE  UNCHANGED <<visits_, indexes>>
    BY <1>4 DEF AddVisit
  <1>5. ASSUME NEW v \in VisitIds, NEW update \in VisitUpdates,
               UpdateVisit(v, update)
        PROVE  UNCHANGED <<visits_, indexes>>
    BY <1>5 DEF UpdateVisit
  <1>6. ASSUME NEW u \in UserIds, NEW update \in UserUpdates, UpdateUser(u, update)
        PROVE  UNCHANGED <<visits_, indexes>>
    BY <1>6 DEF UpdateUser
  <1>7. ASSUME NEW l \in LocationIds, NEW update \in LocationUpdates,
               UpdateLocation(l, update)
        PROVE  UNCHANGED <<visits_, indexes>>
    BY <1>7 DEF UpdateLocation
  <1>8. ASSUME \/ \E u \in UserIds : GetUserById(u)
               \/ \E l \in LocationIds : GetLocationById(l)
               \/ \E v \in VisitIds : GetVisitById(v)
               \/ \E u \in UserIds, query \in VisitQueries :
                    GetVisistsByUserId(u, query)
               \/ \E l \in LocationIds, query \in AverageQueries :
                    GetAverageLocationMark(l, query)
        PROVE  UNCHANGED <<visits_, indexes>>
    BY <1>8 DEF GetUserById, GetLocationById, GetVisitById, GetVisistsByUserId,
                GetAverageLocationMark, Reply, containers
  <1>9. CASE UNCHANGED vars
    BY <1>9 DEF vars, indexes
  <1>10. QED
    BY <1>1, <1>2, <1>3, <1>4, <1>5, <1>6, <1>7, <1>8, <1>9 DEF Next

-----------------------------------------------------------------------------
(***************************************************************************)
(* The index of locations.                                                 *)
(***************************************************************************)
\* Every call keeps the index of locations exact.
LEMMA LocationIndexStep ==
  TypeOK /\ LocationIndexExact /\ [Next]_vars => LocationIndexExact'
  <1> SUFFICES ASSUME TypeOK, LocationIndexExact, [Next]_vars,
                      NEW l \in LocationIds, NEW w \in VisitIds
               PROVE  /\ locations_to_visits_'[l][w] <= 1
                      /\ locations_to_visits_'[l][w] = 1
                           => visits_'[w] # None /\ visits_'[w].location_id = l
    BY DEF LocationIndexExact
  <1>1. /\ locations_to_visits_[l][w] \in Nat
        /\ locations_to_visits_[l][w] <= 1
        /\ locations_to_visits_[l][w] = 1
             => visits_[w] # None /\ visits_[w].location_id = l
    BY DEF TypeOK, Multiset, LocationIndexExact
  <1>2. CASE MapEntities
    BY <1>2, MapEntitiesEntry DEF MapEntities, Mapped, containers
  <1>3. ASSUME NEW v \in VisitIds, NEW visit \in Visit,
               AddVisit(v, visit), visits_[v] = None
        PROVE  /\ locations_to_visits_'[l][w] <= 1
               /\ locations_to_visits_'[l][w] = 1
                    => visits_'[w] # None /\ visits_'[w].location_id = l
    <2>1. visits_' = [visits_ EXCEPT ![v] = visit] /\ visit # None
      BY <1>3, NoneAssumption DEF AddVisit
    <2>2. locations_to_visits_'[l][w] =
            IF w = v /\ l = visit.location_id
            THEN locations_to_visits_[l][w] + 1 ELSE locations_to_visits_[l][w]
      BY <1>3, AddVisitEntry
    <2>3. QED
      BY <1>1, <1>3, <2>1, <2>2 DEF TypeOK
  <1>4. ASSUME NEW v \in VisitIds, NEW update \in VisitUpdates,
               UpdateVisit(v, update), visits_[v] # None
        PROVE  /\ locations_to_visits_'[l][w] <= 1
               /\ locations_to_visits_'[l][w] = 1
                    => visits_'[w] # None /\ visits_'[w].location_id = l
    <2> DEFINE from == visits_[v]
               to == UpdatedVisit(from, update)
    <2>1. /\ to \in Visit /\ visits_' = [visits_ EXCEPT ![v] = to]
          /\ locations_to_visits_'[l][w] =
               IF w = v /\ from.location_id # to.location_id
               THEN IF l = from.location_id THEN 0
                    ELSE IF l = to.location_id
                         THEN locations_to_visits_[l][w] + 1
                         ELSE locations_to_visits_[l][w]
               ELSE locations_to_visits_[l][w]
      BY <1>4, UpdateVisitEntry
    <2>2. to # None
      BY <2>1, NoneAssumption
    <2> HIDE DEF to
    <2>3. QED
      BY <1>1, <1>4, <2>1, <2>2 DEF TypeOK
  <1>5. CASE /\ ~MapEntities
             /\ ~\E v \in VisitIds, visit \in Visit :
                   AddVisit(v, visit) /\ visits_[v] = None
             /\ ~\E v \in VisitIds, update \in VisitUpdates :
                   UpdateVisit(v, update) /\ visits_[v] # None
    BY <1>1, <1>5, OtherSteps DEF indexes
  <1>6. QED
    BY <1>2, <1>3, <1>4, <1>5

\* A visit is in the multiset of its own location, once, or in none.
THEOREM LocationIndexCorrect == Spec => []LocationIndexExact
  <1>1. Init => LocationIndexExact
    BY DEF Init, LocationIndexExact, EmptyMultiset
  <1>2. QED
    BY <1>1, LocationIndexStep, TypeCorrect, PTL DEF Spec

-----------------------------------------------------------------------------
(***************************************************************************)
(* The index of users, when clients hand visits over.  What UpdateVisit    *)
(* erases is the entry of the visit with the old user's id, so the entries *)
(* of a visit under every other user are safe.                             *)
(***************************************************************************)
\* A visit has an entry under its user, unless the user has its id.
Covered(w) ==
  /\ visits_[w] # None
  /\ visits_[w].user_id # w => users_to_visits_[visits_[w].user_id][w] > 0

\* No call hides a visit from its user's list, but the one of the user's id.
LEMMA CoversStep == TypeOK /\ UserIndexCovers /\ [Next]_vars => UserIndexCovers'
  <1> SUFFICES ASSUME TypeOK, UserIndexCovers, [Next]_vars,
                      NEW w \in VisitIds, NEW u \in UserIds,
                      users_to_visits_'[u][w] > 0
               PROVE  Covered(w)'
    BY DEF UserIndexCovers, Owned, Covered
  <1>1. \A k \in UserIds : users_to_visits_[k][w] \in Nat
    BY DEF TypeOK, Multiset
  <1>2. \A k \in UserIds : users_to_visits_[k][w] > 0 => Covered(w)
    BY DEF UserIndexCovers, Owned, Covered
  <1>3. visits_[w] # None => visits_[w].user_id \in UserIds
    BY DEF TypeOK, Visit
  <1>4. CASE MapEntities
    BY <1>3, <1>4, MapEntitiesEntry DEF MapEntities, Mapped, containers, Covered
  <1>5. ASSUME NEW v \in VisitIds, NEW visit \in Visit,
               AddVisit(v, visit), visits_[v] = None
        PROVE  Covered(w)'
    <2>1. /\ visits_' = [visits_ EXCEPT ![v] = visit]
          /\ visit # None /\ visit.user_id \in UserIds
      BY <1>5, NoneAssumption DEF AddVisit, Visit
    <2>2. \A k \in UserIds : users_to_visits_'[k][w] =
            IF w = v /\ k = visit.user_id
            THEN users_to_visits_[k][w] + 1 ELSE users_to_visits_[k][w]
      BY <1>5, AddVisitEntry
    <2>3. CASE w = v
      BY <1>1, <2>1, <2>2, <2>3 DEF TypeOK, Covered
    <2>4. CASE w # v
      BY <1>2, <1>3, <2>1, <2>2, <2>4 DEF TypeOK, Covered
    <2>5. QED
      BY <2>3, <2>4
  <1>6. ASSUME NEW v \in VisitIds, NEW update \in VisitUpdates,
               UpdateVisit(v, update), visits_[v] # None
        PROVE  Covered(w)'
    <2> DEFINE from == visits_[v]
               to == UpdatedVisit(from, update)
    <2>1. /\ to \in Visit /\ visits_' = [visits_ EXCEPT ![v] = to]
          /\ \A k \in UserIds : users_to_visits_'[k][w] =
               IF from.user_id = to.user_id THEN users_to_visits_[k][w]
               ELSE IF k = from.user_id
                    THEN IF w = k THEN 0 ELSE users_to_visits_[k][w]
                    ELSE IF k = to.user_id /\ w = v
                         THEN users_to_visits_[k][w] + 1
                         ELSE users_to_visits_[k][w]
      BY <1>6, UpdateVisitEntry
    <2>2. to # None /\ to.user_id \in UserIds
      BY <2>1, NoneAssumption DEF Visit
    <2> HIDE DEF to
    <2>3. \A k \in UserIds \ {w} : users_to_visits_[k][w] <= users_to_visits_'[k][w]
      BY <1>1, <2>1
    <2>4. CASE w # v
      <3>1. visits_'[w] = visits_[w]
        BY <2>1, <2>4 DEF TypeOK
      <3>2. users_to_visits_[u][w] > 0
        BY <1>1, <2>1, <2>4
      <3>3. Covered(w)
        BY <1>2, <3>2
      <3>4. QED
        BY <1>1, <1>3, <2>1, <2>3, <3>1, <3>3 DEF Covered
    <2>5. CASE w = v
      <3>1. visits_'[w] = to
        BY <2>1, <2>5 DEF TypeOK
      <3>2. CASE from.user_id = to.user_id
        BY <1>1, <1>2, <2>1, <2>2, <2>5, <3>1, <3>2 DEF Covered
      <3>3. CASE from.user_id # to.user_id
        BY <1>1, <2>1, <2>2, <2>5, <3>1, <3>3 DEF Covered
      <3>4. QED
        BY <3>2, <3>3
    <2>6. QED
      BY <2>4, <2>5
  <1>7. CASE /\ ~MapEntities
             /\ ~\E v \in VisitIds, visit \in Visit :
                   AddVisit(v, visit) /\ visits_[v] = None
             /\ ~\E v \in VisitIds, update \in VisitUpdates :
                   UpdateVisit(v, update) /\ visits_[v] # None
    BY <1>2, <1>7, OtherSteps DEF indexes, Covered
  <1>8. QED
    BY <1>4, <1>5, <1>6, <1>7

\* The list of a user misses none of the visits that are the user's now,
\* however often clients hand them over, but for the visit of the user's id.
THEOREM UserIndexCovered == Spec => []UserIndexCovers
  <1>1. Init => UserIndexCovers
    BY DEF Init, UserIndexCovers, Owned, EmptyMultiset
  <1>2. QED
    BY <1>1, CoversStep, TypeCorrect, PTL DEF Spec

\* Visit w is in the lists of the users, and no list has it after the step,
\* because another visit was taken from the user of its id.
Robbed(w) ==
  /\ visits_[w].user_id = w
  /\ \E v \in VisitIds \ {w} : HandedOver(v, w)

\* No call takes a visit out of an index, but the one of a user's id.
LEMMA ForgottenStep ==
  TypeOK /\ UserIndexCovers /\ [Next]_vars
    => /\ Located \subseteq Located'
       /\ \A w \in Owned \ Owned' : Robbed(w)
  <1> SUFFICES ASSUME TypeOK, UserIndexCovers, [Next]_vars, NEW w \in VisitIds
               PROVE  /\ w \in Located => w \in Located'
                      /\ w \in Owned => w \in Owned' \/ Robbed(w)
    BY DEF Located, Owned
  <1>1. /\ \A l \in LocationIds : locations_to_visits_[l][w] \in Nat
        /\ \A u \in UserIds : users_to_visits_[u][w] \in Nat
    BY DEF TypeOK, Multiset
  <1>2. CASE MapEntities
    BY <1>2 DEF MapEntities, TypeOK, Located, Owned, EmptyMultiset
  <1>3. ASSUME NEW v \in VisitIds, NEW visit \in Visit,
               AddVisit(v, visit), visits_[v] = None
        PROVE  /\ w \in Located => w \in Located'
               /\ w \in Owned => w \in Owned'
    <2>1. /\ \A l \in LocationIds :
               locations_to_visits_'[l][w] >= locations_to_visits_[l][w]
          /\ \A u \in UserIds : users_to_visits_'[u][w] >= users_to_visits_[u][w]
      BY <1>1, <1>3, AddVisitEntry
    <2>2. /\ \A l \in LocationIds : locations_to_visits_'[l][w] \in Nat
          /\ \A u \in UserIds : users_to_visits_'[u][w] \in Nat
      BY <1>1, <1>3, AddVisitEntry
    <2>3. QED
      BY <1>1, <2>1, <2>2 DEF Located, Owned
  <1>4. ASSUME NEW v \in VisitIds, NEW update \in VisitUpdates,
               UpdateVisit(v, update), visits_[v] # None
        PROVE  /\ w \in Located => w \in Located'
               /\ w \in Owned => w \in Owned' \/ Robbed(w)
    <2> DEFINE from == visits_[v]
               to == UpdatedVisit(from, update)
    <2>1. /\ to \in Visit /\ visits_' = [visits_ EXCEPT ![v] = to]
          /\ \A l \in LocationIds : locations_to_visits_'[l][w] =
               IF w = v /\ from.location_id # to.location_id
               THEN IF l = from.location_id THEN 0
                    ELSE IF l = to.location_id
                         THEN locations_to_visits_[l][w] + 1
                         ELSE locations_to_visits_[l][w]
               ELSE locations_to_visits_[l][w]
          /\ \A k \in UserIds : users_to_visits_'[k][w] =
               IF from.user_id = to.user_id THEN users_to_visits_[k][w]
               ELSE IF k = from.user_id
                    THEN IF w = k THEN 0 ELSE users_to_visits_[k][w]
                    ELSE IF k = to.user_id /\ w = v
                         THEN users_to_visits_[k][w] + 1
                         ELSE users_to_visits_[k][w]
      BY <1>4, UpdateVisitEntry
    <2>2. to.location_id \in LocationIds /\ to.user_id \in UserIds
      BY <2>1 DEF Visit
    <2>3. visits_'[v] = to /\ from # None
      BY <1>4, <2>1 DEF TypeOK
    <2>4. w \in Owned => Covered(w)
      BY DEF UserIndexCovers, Covered
    <2>5. visits_[w] # None => visits_[w].user_id \in UserIds
      BY DEF TypeOK, Visit
    <2>6. w = v => from = visits_[w]
      OBVIOUS
    <2>7. from.user_id = w /\ to.user_id # w => HandedOver(v, w)
      BY <2>3 DEF HandedOver
    <2> HIDE DEF from, to
    <2>8. w \in Located => w \in Located'
      <3>1. CASE w = v /\ from.location_id # to.location_id
        BY <1>1, <2>1, <2>2, <3>1 DEF Located
      <3>2. CASE ~(w = v /\ from.location_id # to.location_id)
        BY <2>1, <3>2 DEF Located
      <3>3. QED
        BY <3>1, <3>2
    <2>9. w \in Owned => w \in Owned' \/ Robbed(w)
      <3>1. CASE from.user_id = to.user_id
        BY <2>1, <3>1 DEF Owned
      <3>2. CASE w = v /\ from.user_id # to.user_id
        <4>1. users_to_visits_'[to.user_id][w] > 0
          BY <1>1, <2>1, <2>2, <3>2
        <4>. QED
          BY <2>2, <4>1 DEF Owned
      <3>3. CASE w # v /\ from.user_id # to.user_id /\ w \in Owned
        <4>1. CASE visits_[w].user_id = w
          <5>1. CASE from.user_id = w
            BY <2>7, <3>3, <4>1, <5>1 DEF Robbed
          <5>2. CASE from.user_id # w
            <6>1. \A k \in UserIds : users_to_visits_'[k][w] = users_to_visits_[k][w]
              BY <2>1, <3>3, <5>2
            <6>. QED
              BY <3>3, <6>1 DEF Owned
          <5>. QED
            BY <5>1, <5>2
        <4>2. CASE visits_[w].user_id # w
          <5>1. users_to_visits_[visits_[w].user_id][w] > 0 /\ visits_[w].user_id \in UserIds
            BY <2>4, <2>5, <3>3, <4>2 DEF Covered
          <5>2. users_to_visits_'[visits_[w].user_id][w]
                  = users_to_visits_[visits_[w].user_id][w]
            BY <2>1, <3>3, <4>2, <5>1
          <5>. QED
            BY <5>1, <5>2 DEF Owned
        <4>. QED
          BY <4>1, <4>2
      <3>4. QED
        BY <3>1, <3>2, <3>3
    <2>10. QED
      BY <2>8, <2>9
  <1>5. CASE /\ ~MapEntities
             /\ ~\E v \in VisitIds, visit \in Visit :
                   AddVisit(v, visit) /\ visits_[v] = None
             /\ ~\E v \in VisitIds, update \in VisitUpdates :
                   UpdateVisit(v, update) /\ visits_[v] # None
    BY <1>5, OtherSteps DEF indexes, Located, Owned
  <1>6. QED
    BY <1>2, <1>3, <1>4, <1>5

\* A visit drops out of the lists only when it has its user's id and that user
\* gives another visit away, and never out of the averages.
THEOREM NothingElseForgotten == Spec => OnlyNamesakeForgotten
  <1> DEFINE Kept == /\ Located \subseteq Located'
                     /\ \A v \in Owned \ Owned' :
                          /\ visits_[v].user_id = v
                          /\ \E w \in VisitIds \ {v} : HandedOver(w, v)
  <1>1. TypeOK /\ UserIndexCovers /\ [Next]_vars => [Kept]_vars
    BY ForgottenStep DEF Robbed
  <1>2. QED
    BY <1>1, TypeCorrect, UserIndexCovered, PTL DEF Spec, OnlyNamesakeForgotten

\* A visit that stays as it was keeps its number of copies everywhere but under
\* the user of its id: a move's emplaces and the location's erase name the
\* visit moved, and the user's erase names the visit of the user's id.
LEMMA UndisturbedStep ==
  ASSUME TypeOK, [Next]_vars, phase = "Serving",
         NEW v \in VisitIds, visits_'[v] = visits_[v]
  PROVE  /\ \A l \in LocationIds :
              locations_to_visits_'[l][v] = locations_to_visits_[l][v]
         /\ \A u \in UserIds :
              \/ users_to_visits_'[u][v] = users_to_visits_[u][v]
              \/ /\ u = v /\ users_to_visits_'[u][v] = 0
                 /\ \E w \in VisitIds \ {v} : HandedOver(w, u)
  <1> DEFINE Same == /\ \A l \in LocationIds :
                          locations_to_visits_'[l][v] = locations_to_visits_[l][v]
                     /\ \A u \in UserIds :
                          users_to_visits_'[u][v] = users_to_visits_[u][v]
  <1>1. CASE MapEntities
    BY <1>1 DEF MapEntities
  <1>2. ASSUME NEW w \in VisitIds, NEW visit \in Visit,
               AddVisit(w, visit), visits_[w] = None
        PROVE  Same
    <2>1. visits_'[w] = visit /\ visit # None
      BY <1>2, NoneAssumption DEF AddVisit, TypeOK
    <2>2. v # w
      BY <1>2, <2>1
    <2>3. QED
      BY <1>2, <2>2, AddVisitEntry
  <1>3. ASSUME NEW w \in VisitIds, NEW update \in VisitUpdates,
               UpdateVisit(w, update), visits_[w] # None
        PROVE  /\ \A l \in LocationIds :
                    locations_to_visits_'[l][v] = locations_to_visits_[l][v]
               /\ \A u \in UserIds :
                    \/ users_to_visits_'[u][v] = users_to_visits_[u][v]
                    \/ /\ u = v /\ users_to_visits_'[u][v] = 0
                       /\ \E x \in VisitIds \ {v} : HandedOver(x, u)
    <2> DEFINE from == visits_[w]
               to == UpdatedVisit(from, update)
    <2>1. /\ \A l \in LocationIds : locations_to_visits_'[l][v] =
               IF v = w /\ from.location_id # to.location_id
               THEN IF l = from.location_id THEN 0
                    ELSE IF l = to.location_id
                         THEN locations_to_visits_[l][v] + 1
                         ELSE locations_to_visits_[l][v]
               ELSE locations_to_visits_[l][v]
          /\ \A u \in UserIds : users_to_visits_'[u][v] =
               IF from.user_id = to.user_id THEN users_to_visits_[u][v]
               ELSE IF u = from.user_id
                    THEN IF v = u THEN 0 ELSE users_to_visits_[u][v]
                    ELSE IF u = to.user_id /\ v = w
                         THEN users_to_visits_[u][v] + 1
                         ELSE users_to_visits_[u][v]
      BY <1>3, UpdateVisitEntry
    <2>2. visits_'[w] = to
      BY <1>3 DEF UpdateVisit, TypeOK
    <2>3. v = w => to = from
      BY <2>2
    <2>4. \A u \in UserIds : from.user_id = u /\ to.user_id # u => HandedOver(w, u)
      BY <1>3, <2>2 DEF HandedOver
    <2> HIDE DEF from, to
    <2>5. \A l \in LocationIds :
            locations_to_visits_'[l][v] = locations_to_visits_[l][v]
      BY <2>1, <2>3
    <2>6. ASSUME NEW u \in UserIds
          PROVE  \/ users_to_visits_'[u][v] = users_to_visits_[u][v]
                 \/ /\ u = v /\ users_to_visits_'[u][v] = 0
                    /\ \E x \in VisitIds \ {v} : HandedOver(x, u)
      <3>1. CASE from.user_id = to.user_id \/ u # from.user_id \/ v # u
        BY <2>1, <2>3, <3>1
      <3>2. CASE from.user_id # to.user_id /\ u = from.user_id /\ v = u
        BY <2>1, <2>3, <2>4, <3>2
      <3>. QED
        BY <3>1, <3>2
    <2>7. QED
      BY <2>5, <2>6
  <1>4. CASE /\ ~MapEntities
             /\ ~\E w \in VisitIds, visit \in Visit :
                   AddVisit(w, visit) /\ visits_[w] = None
             /\ ~\E w \in VisitIds, update \in VisitUpdates :
                   UpdateVisit(w, update) /\ visits_[w] # None
    BY <1>4, OtherSteps DEF indexes
  <1>5. QED
    BY <1>1, <1>2, <1>3, <1>4

\* A call that changes one visit leaves every other where the indexes have it,
\* but the visit of the user's id that a hand-over erases.
THEOREM NoneElseDisturbed == Spec => OnlyNamesakeDisturbed
  <1> DEFINE Undisturbed ==
               phase = "Serving" =>
                 \A v \in VisitIds : visits_'[v] = visits_[v] =>
                   /\ \A l \in LocationIds :
                        locations_to_visits_'[l][v] = locations_to_visits_[l][v]
                   /\ \A u \in UserIds :
                        \/ users_to_visits_'[u][v] = users_to_visits_[u][v]
                        \/ /\ u = v /\ users_to_visits_'[u][v] = 0
                           /\ \E w \in VisitIds \ {v} : HandedOver(w, u)
  <1>1. TypeOK /\ [Next]_vars => [Undisturbed]_vars
    BY UndisturbedStep
  <1>2. QED
    BY <1>1, TypeCorrect, PTL DEF Spec, OnlyNamesakeDisturbed

-----------------------------------------------------------------------------
(***************************************************************************)
(* The index of users, when clients do not hand visits over.               *)
(***************************************************************************)
\* Every call keeps the index of users exact.
LEMMA UserIndexStep ==
  ASSUME HandOvers = FALSE
  PROVE  TypeOK /\ UserIndexExact /\ [Next]_vars => UserIndexExact'
  <1> SUFFICES ASSUME TypeOK, UserIndexExact, [Next]_vars,
                      NEW u \in UserIds, NEW w \in VisitIds
               PROVE  /\ users_to_visits_'[u][w] <= 1
                      /\ users_to_visits_'[u][w] = 1
                           => visits_'[w] # None /\ visits_'[w].user_id = u
    BY DEF UserIndexExact
  <1>1. /\ users_to_visits_[u][w] \in Nat
        /\ users_to_visits_[u][w] <= 1
        /\ users_to_visits_[u][w] = 1 => visits_[w] # None /\ visits_[w].user_id = u
    BY DEF TypeOK, Multiset, UserIndexExact
  <1>2. CASE MapEntities
    BY <1>2, MapEntitiesEntry DEF MapEntities, Mapped, containers
  <1>3. ASSUME NEW v \in VisitIds, NEW visit \in Visit,
               AddVisit(v, visit), visits_[v] = None
        PROVE  /\ users_to_visits_'[u][w] <= 1
               /\ users_to_visits_'[u][w] = 1
                    => visits_'[w] # None /\ visits_'[w].user_id = u
    <2>1. visits_' = [visits_ EXCEPT ![v] = visit] /\ visit # None
      BY <1>3, NoneAssumption DEF AddVisit
    <2>2. users_to_visits_'[u][w] =
            IF w = v /\ u = visit.user_id
            THEN users_to_visits_[u][w] + 1 ELSE users_to_visits_[u][w]
      BY <1>3, AddVisitEntry
    <2>3. QED
      BY <1>1, <1>3, <2>1, <2>2 DEF TypeOK
  <1>4. ASSUME NEW v \in VisitIds, NEW update \in VisitUpdates,
               UpdateVisit(v, update), visits_[v] # None
        PROVE  /\ users_to_visits_'[u][w] <= 1
               /\ users_to_visits_'[u][w] = 1
                    => visits_'[w] # None /\ visits_'[w].user_id = u
    <2> DEFINE from == visits_[v]
               to == UpdatedVisit(from, update)
    <2>1. /\ to \in Visit /\ visits_' = [visits_ EXCEPT ![v] = to]
          /\ to.user_id = from.user_id
          /\ users_to_visits_'[u][w] = users_to_visits_[u][w]
      BY <1>4, UpdateVisitEntry
    <2>2. to # None
      BY <2>1, NoneAssumption
    <2> HIDE DEF to
    <2>3. QED
      BY <1>1, <1>4, <2>1, <2>2 DEF TypeOK
  <1>5. CASE /\ ~MapEntities
             /\ ~\E v \in VisitIds, visit \in Visit :
                   AddVisit(v, visit) /\ visits_[v] = None
             /\ ~\E v \in VisitIds, update \in VisitUpdates :
                   UpdateVisit(v, update) /\ visits_[v] # None
    BY <1>1, <1>5, OtherSteps DEF indexes
  <1>6. QED
    BY <1>2, <1>3, <1>4, <1>5

\* As long as no client hands a visit over, the index of users is as exact as
\* that of locations.
THEOREM UserIndexCorrect ==
  ASSUME HandOvers = FALSE
  PROVE  Spec => []UserIndexExact
  <1>1. Init => UserIndexExact
    BY DEF Init, UserIndexExact, EmptyMultiset
  <1>2. QED
    BY <1>1, UserIndexStep, TypeCorrect, PTL DEF Spec

-----------------------------------------------------------------------------
(***************************************************************************)
(* The storage implements its interface.                                   *)
(***************************************************************************)
\* After MapEntities the queries see the complete visits.
LEMMA MapEntitiesSees ==
  ASSUME TypeOK, MapEntities
  PROVE  Located' = Interface!Complete /\ Owned' = Interface!Complete
  <1>1. ASSUME NEW v \in VisitIds
        PROVE  /\ v \in Located' <=> Mapped(v)
               /\ v \in Owned' <=> Mapped(v)
    <2>1. visits_[v] # None =>
            visits_[v].location_id \in LocationIds /\ visits_[v].user_id \in UserIds
      BY DEF TypeOK, Visit
    <2>2. QED
      BY <2>1, MapEntitiesEntry DEF Located, Owned, Mapped
  <1>2. QED
    BY <1>1 DEF Located, Owned, Mapped, Interface!Complete

\* After AddVisit they see the new visit too.
LEMMA AddVisitSees ==
  ASSUME TypeOK, NEW v \in VisitIds, NEW visit \in Visit, AddVisit(v, visit),
         visits_[v] = None
  PROVE  Located' = Located \cup {v} /\ Owned' = Owned \cup {v}
  <1>1. visit.location_id \in LocationIds /\ visit.user_id \in UserIds
    BY DEF Visit
  <1>2. ASSUME NEW w \in VisitIds
        PROVE  /\ w \in Located' <=> w \in Located \/ w = v
               /\ w \in Owned' <=> w \in Owned \/ w = v
    <2>1. /\ \A l \in LocationIds : locations_to_visits_[l][w] \in Nat
          /\ \A u \in UserIds : users_to_visits_[u][w] \in Nat
      BY DEF TypeOK, Multiset
    <2>2. QED
      BY <1>1, <2>1, AddVisitEntry DEF Located, Owned
  <1>3. QED
    BY <1>2 DEF Located, Owned

\* After UpdateVisit they see a visit that was moved.
LEMMA UpdateVisitSees ==
  ASSUME HandOvers = FALSE, TypeOK, LocationIndexExact,
         NEW v \in VisitIds, NEW update \in VisitUpdates,
         UpdateVisit(v, update), visits_[v] # None
  PROVE  /\ Located' = IF UpdatedVisit(visits_[v], update).location_id
                            = visits_[v].location_id
                       THEN Located ELSE Located \cup {v}
         /\ Owned' = Owned
         /\ UpdatedVisit(visits_[v], update).user_id = visits_[v].user_id
  <1> DEFINE from == visits_[v]
             to == UpdatedVisit(from, update)
  <1>1. to \in Visit /\ to.user_id = from.user_id
    BY UpdateVisitEntry
  <1>2. to.location_id \in LocationIds
    BY <1>1 DEF Visit
  <1>3. ASSUME NEW w \in VisitIds
        PROVE  /\ w \in Located' <=>
                     w \in Located \/ (w = v /\ to.location_id # from.location_id)
               /\ w \in Owned' <=> w \in Owned
    <2>1. /\ \A l \in LocationIds : locations_to_visits_[l][w] \in Nat
          /\ \A u \in UserIds : users_to_visits_[u][w] \in Nat
      BY DEF TypeOK, Multiset
    <2>2. /\ \A l \in LocationIds : locations_to_visits_'[l][w] =
               IF w = v /\ from.location_id # to.location_id
               THEN IF l = from.location_id THEN 0
                    ELSE IF l = to.location_id
                         THEN locations_to_visits_[l][w] + 1
                         ELSE locations_to_visits_[l][w]
               ELSE locations_to_visits_[l][w]
          /\ \A u \in UserIds : users_to_visits_'[u][w] = users_to_visits_[u][w]
      BY <1>1, UpdateVisitEntry
    <2> HIDE DEF from, to
    <2>3. QED
      BY <1>2, <2>1, <2>2 DEF Located, Owned
  <1>4. QED
    BY <1>1, <1>3 DEF Located, Owned

\* What the queries count is what the interface says they count.
LEMMA QueriesAgree ==
  ASSUME TypeOK, LocationIndexExact, UserIndexExact
  PROVE  /\ \A u \in UserIds, query \in VisitQueries :
              Listed(u, query) = Interface!Listed(u, query)
         /\ \A l \in LocationIds, query \in AverageQueries :
              Summed(l, query) = Interface!Summed(l, query)
  <1>1. ASSUME NEW u \in UserIds, NEW v \in VisitIds
        PROVE  users_to_visits_[u][v] =
                 IF v \in Owned /\ visits_[v].user_id = u THEN 1 ELSE 0
    <2>1. ASSUME NEW k \in UserIds
          PROVE  users_to_visits_[k][v] = 0 \/ users_to_visits_[k][v] = 1
      <3>1. users_to_visits_[k][v] \in Nat
        BY DEF TypeOK, Multiset
      <3>2. users_to_visits_[k][v] <= 1
        BY DEF UserIndexExact
      <3>3. QED
        BY <3>1, <3>2
    <2>2. \A k \in UserIds : users_to_visits_[k][v] = 1 => visits_[v].user_id = k
      BY DEF UserIndexExact
    <2>3. v \in Owned <=> \E k \in UserIds : users_to_visits_[k][v] = 1
      BY <2>1 DEF Owned
    <2>4. QED
      BY <2>1, <2>2, <2>3
  <1>2. ASSUME NEW l \in LocationIds, NEW v \in VisitIds
        PROVE  locations_to_visits_[l][v] =
                 IF v \in Located /\ visits_[v].location_id = l THEN 1 ELSE 0
    <2>1. ASSUME NEW k \in LocationIds
          PROVE  locations_to_visits_[k][v] = 0 \/ locations_to_visits_[k][v] = 1
      <3>1. locations_to_visits_[k][v] \in Nat
        BY DEF TypeOK, Multiset
      <3>2. locations_to_visits_[k][v] <= 1
        BY DEF LocationIndexExact
      <3>3. QED
        BY <3>1, <3>2
    <2>2. \A k \in LocationIds : locations_to_visits_[k][v] = 1 => visits_[v].location_id = k
      BY DEF LocationIndexExact
    <2>3. v \in Located <=> \E k \in LocationIds : locations_to_visits_[k][v] = 1
      BY <2>1 DEF Located
    <2>4. QED
      BY <2>1, <2>2, <2>3
  <1>3. \A v \in Owned \cup Located : visits_[v] # None
    BY DEF TypeOK, Multiset, LocationIndexExact, UserIndexExact, Located, Owned
  <1>4. ASSUME NEW u \in UserIds, NEW query \in VisitQueries
        PROVE  Listed(u, query) = Interface!Listed(u, query)
    <2>1. \A visit, location :
            VisitSelected(query, visit, location) <=>
              Interface!VisitSelected(query, visit, location)
      BY DEF VisitSelected, InDates, Interface!VisitSelected, Interface!InDates
    <2>2. ASSUME NEW v \in VisitIds
          PROVE  Listed(u, query)[v] = Interface!Listed(u, query)[v]
      BY <1>1, <1>3, <2>1 DEF Listed, Interface!Listed
    <2>3. QED
      BY <2>2 DEF Listed, Interface!Listed
  <1>5. ASSUME NEW l \in LocationIds, NEW query \in AverageQueries
        PROVE  Summed(l, query) = Interface!Summed(l, query)
    <2>1. \A visit, user :
            MarkSelected(query, visit, user) <=>
              Interface!MarkSelected(query, visit, user)
      BY DEF MarkSelected, InDates, Interface!MarkSelected, Interface!InDates,
             GetBoundaryBirthDate, Interface!GetBoundaryBirthDate
    <2>2. ASSUME NEW v \in VisitIds
          PROVE  Summed(l, query)[v] = Interface!Summed(l, query)[v]
      BY <1>2, <1>3, <2>1 DEF Summed, Interface!Summed
    <2>3. QED
      BY <2>2 DEF Summed, Interface!Summed
  <1>6. QED
    BY <1>4, <1>5

\* The empty storage is the empty storage of the interface.
LEMMA RefinementInit == Init => Interface!Init
  <1> SUFFICES ASSUME Init
               PROVE  Interface!Init
    OBVIOUS
  <1>1. Located = {} /\ Owned = {}
    BY DEF Init, Located, Owned, EmptyMultiset
  <1>2. QED
    BY <1>1 DEF Init, Interface!Init

\* With both indexes as they were, so are the visits the queries can see.
LEMMA SeesTheSame ==
  UNCHANGED indexes => UNCHANGED <<Located, Owned>>
  BY DEF indexes, Located, Owned

\* Both modules speak of the same entities, updates and statuses.
LEMMA SameData ==
  /\ User = Interface!User
  /\ Location = Interface!Location
  /\ Visit = Interface!Visit
  /\ UserUpdates = Interface!UserUpdates
  /\ LocationUpdates = Interface!LocationUpdates
  /\ VisitUpdates = Interface!VisitUpdates
  /\ \A old, update : UpdatedUser(old, update) = Interface!UpdatedUser(old, update)
  /\ \A old, update :
       UpdatedLocation(old, update) = Interface!UpdatedLocation(old, update)
  /\ \A old, update : UpdatedVisit(old, update) = Interface!UpdatedVisit(old, update)
  /\ EntityNotFound = Interface!EntityNotFound
  /\ EntitySuccessfullyUpdated = Interface!EntitySuccessfullyUpdated
  /\ EntityAlreadyExist = Interface!EntityAlreadyExist
  /\ EntitySuccessfullyAdded = Interface!EntitySuccessfullyAdded
  BY DEF User, Interface!User, Location, Interface!Location, Visit, Interface!Visit,
         UserUpdates, Interface!UserUpdates, LocationUpdates,
         Interface!LocationUpdates, VisitUpdates, Interface!VisitUpdates,
         UpdatedUser, Interface!UpdatedUser, UpdatedLocation,
         Interface!UpdatedLocation, UpdatedVisit, Interface!UpdatedVisit,
         Given, Interface!Given,
         EntityNotFound, Interface!EntityNotFound, EntitySuccessfullyUpdated,
         Interface!EntitySuccessfullyUpdated, EntityAlreadyExist,
         Interface!EntityAlreadyExist, EntitySuccessfullyAdded,
         Interface!EntitySuccessfullyAdded

\* Every call is a call of the interface, or one that leaves it alone.
LEMMA RefinementStep ==
  ASSUME HandOvers = FALSE
  PROVE  TypeOK /\ LocationIndexExact /\ UserIndexExact /\ [Next]_vars
           => [Interface!Next]_(Interface!vars)
  <1> SUFFICES ASSUME TypeOK, LocationIndexExact, UserIndexExact, [Next]_vars
               PROVE  Interface!Next \/ UNCHANGED Interface!vars
    OBVIOUS
  <1>1. ASSUME NEW u \in UserIds, NEW user \in User, LoadUser(u, user)
        PROVE  Interface!LoadUser(u, user) \/ UNCHANGED Interface!vars
    <2>1. CASE users_[u] = None
      BY <1>1, <2>1, SeesTheSame DEF LoadUser, EmplaceEntity, Interface!LoadUser
    <2>2. CASE users_[u] # None
      BY <1>1, <2>2, SeesTheSame DEF LoadUser, EmplaceEntity, Interface!vars
    <2>3. QED
      BY <2>1, <2>2
  <1>2. ASSUME NEW l \in LocationIds, NEW location \in Location,
               LoadLocation(l, location)
        PROVE  Interface!LoadLocation(l, location) \/ UNCHANGED Interface!vars
    <2>1. CASE locations_[l] = None
      BY <1>2, <2>1, SeesTheSame
         DEF LoadLocation, EmplaceEntity, Interface!LoadLocation
    <2>2. CASE locations_[l] # None
      BY <1>2, <2>2, SeesTheSame DEF LoadLocation, EmplaceEntity, Interface!vars
    <2>3. QED
      BY <2>1, <2>2
  <1>3. ASSUME NEW v \in VisitIds, NEW visit \in Visit, LoadVisit(v, visit)
        PROVE  Interface!LoadVisit(v, visit) \/ UNCHANGED Interface!vars
    <2>1. CASE visits_[v] = None
      BY <1>3, <2>1, SeesTheSame DEF LoadVisit, EmplaceEntity, Interface!LoadVisit
    <2>2. CASE visits_[v] # None
      BY <1>3, <2>2, SeesTheSame DEF LoadVisit, EmplaceEntity, Interface!vars
    <2>3. QED
      BY <2>1, <2>2
  <1>4. CASE MapEntities
    <2>1. Interface!MapEntities
      BY <1>4, MapEntitiesSees DEF MapEntities, Interface!MapEntities, containers
    <2>2. QED
      BY <2>1 DEF Interface!Next
  <1>5. ASSUME NEW u \in UserIds, NEW user \in User, AddUser(u, user)
        PROVE  Interface!AddUser(u, user) \/ Interface!RefuseAdd(users_, u)
    <2>1. CASE users_[u] = None
      BY <1>5, <2>1, SeesTheSame, SameData DEF AddUser, Interface!AddUser
    <2>2. CASE users_[u] # None
      BY <1>5, <2>2, SeesTheSame, SameData DEF AddUser, Interface!RefuseAdd
    <2>3. QED
      BY <2>1, <2>2
  <1>6. ASSUME NEW l \in LocationIds, NEW location \in Location,
               AddLocation(l, location)
        PROVE  Interface!AddLocation(l, location) \/ Interface!RefuseAdd(locations_, l)
    <2>1. CASE locations_[l] = None
      BY <1>6, <2>1, SeesTheSame, SameData DEF AddLocation, Interface!AddLocation
    <2>2. CASE locations_[l] # None
      BY <1>6, <2>2, SeesTheSame, SameData DEF AddLocation, Interface!RefuseAdd
    <2>3. QED
      BY <2>1, <2>2
  <1>7. ASSUME NEW v \in VisitIds, NEW visit \in Visit, AddVisit(v, visit)
        PROVE  Interface!AddVisit(v, visit) \/ Interface!RefuseAdd(visits_, v)
    <2>1. CASE visits_[v] = None
      BY <1>7, <2>1, AddVisitSees, SameData DEF AddVisit, Interface!AddVisit
    <2>2. CASE visits_[v] # None
      BY <1>7, <2>2, SeesTheSame, SameData DEF AddVisit, Interface!RefuseAdd
    <2>3. QED
      BY <2>1, <2>2
  <1>8. ASSUME NEW u \in UserIds, NEW update \in UserUpdates, UpdateUser(u, update)
        PROVE  Interface!UpdateUser(u, update) \/ Interface!RefuseUpdate(users_, u)
    <2>1. CASE users_[u] # None
      BY <1>8, <2>1, SeesTheSame, SameData DEF UpdateUser, Interface!UpdateUser
    <2>2. CASE users_[u] = None
      BY <1>8, <2>2, SeesTheSame, SameData DEF UpdateUser, Interface!RefuseUpdate
    <2>3. QED
      BY <2>1, <2>2
  <1>9. ASSUME NEW l \in LocationIds, NEW update \in LocationUpdates,
               UpdateLocation(l, update)
        PROVE  \/ Interface!UpdateLocation(l, update)
               \/ Interface!RefuseUpdate(locations_, l)
    <2>1. CASE locations_[l] # None
      BY <1>9, <2>1, SeesTheSame, SameData
         DEF UpdateLocation, Interface!UpdateLocation
    <2>2. CASE locations_[l] = None
      BY <1>9, <2>2, SeesTheSame, SameData DEF UpdateLocation, Interface!RefuseUpdate
    <2>3. QED
      BY <2>1, <2>2
  <1>10. ASSUME NEW v \in VisitIds, NEW update \in VisitUpdates,
                UpdateVisit(v, update)
         PROVE  Interface!UpdateVisit(v, update) \/ Interface!RefuseUpdate(visits_, v)
    <2>1. CASE visits_[v] # None
      <3>1. /\ phase = "Serving" /\ answer' = EntitySuccessfullyUpdated
            /\ visits_' = [visits_ EXCEPT ![v] = UpdatedVisit(visits_[v], update)]
            /\ UNCHANGED <<phase, users_, locations_>>
        BY <1>10, <2>1 DEF UpdateVisit
      <3>2. QED
        BY <1>10, <2>1, <3>1, UpdateVisitSees, SameData DEF Interface!UpdateVisit
    <2>2. CASE visits_[v] = None
      BY <1>10, <2>2, SeesTheSame, SameData DEF UpdateVisit, Interface!RefuseUpdate
    <2>3. QED
      BY <2>1, <2>2
  <1>11. ASSUME NEW u \in UserIds, GetUserById(u)
         PROVE  Interface!GetById(users_[u])
    BY <1>11, SeesTheSame DEF GetUserById, Reply, Interface!GetById, containers
  <1>12. ASSUME NEW l \in LocationIds, GetLocationById(l)
         PROVE  Interface!GetById(locations_[l])
    BY <1>12, SeesTheSame DEF GetLocationById, Reply, Interface!GetById, containers
  <1>13. ASSUME NEW v \in VisitIds, GetVisitById(v)
         PROVE  Interface!GetById(visits_[v])
    BY <1>13, SeesTheSame DEF GetVisitById, Reply, Interface!GetById, containers
  <1>14. ASSUME NEW u \in UserIds, NEW query \in VisitQueries,
                GetVisistsByUserId(u, query)
         PROVE  Interface!GetVisistsByUserId(u, query)
    BY <1>14, SeesTheSame, QueriesAgree
       DEF GetVisistsByUserId, Reply, Interface!GetVisistsByUserId, containers
  <1>15. ASSUME NEW l \in LocationIds, NEW query \in AverageQueries,
                GetAverageLocationMark(l, query)
         PROVE  Interface!GetAverageLocationMark(l, query)
    BY <1>15, SeesTheSame, QueriesAgree
       DEF GetAverageLocationMark, Reply, Interface!GetAverageLocationMark, containers
  <1>16. CASE UNCHANGED vars
    BY <1>16, SeesTheSame DEF vars, indexes, Interface!vars
  <1>17. QED
    BY <1>1, <1>2, <1>3, <1>4, <1>5, <1>6, <1>7, <1>8, <1>9, <1>10, <1>11,
       <1>12, <1>13, <1>14, <1>15, <1>16, SameData DEF Next, Interface!Next

\* As long as no client hands a visit over, a caller cannot tell the storage
\* and its indexes from the interface, which has none.
THEOREM StorageImplementsIDataStorage ==
  ASSUME HandOvers = FALSE
  PROVE  Spec => ImplementsIDataStorage
  BY RefinementInit, RefinementStep, TypeCorrect, LocationIndexCorrect,
     UserIndexCorrect, PTL DEF Spec, ImplementsIDataStorage, Interface!Spec
=============================================================================
