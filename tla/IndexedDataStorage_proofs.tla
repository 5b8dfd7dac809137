---------------------- MODULE IndexedDataStorage_proofs ----------------------
(***************************************************************************)
(* The indexes of IndexedDataStorage for any ids, entities, updates and    *)
(* queries: what holds whatever is called, and what holds as long as times *)
(* tell a user's visits apart.                                             *)
(***************************************************************************)
EXTENDS IndexedDataStorage, TLAPS

(***************************************************************************)
(* The multimaps.                                                          *)
(***************************************************************************)
\* What an index is: multimaps of some of the keys K.
Index(K) == [K -> Multimap \cup {None}]

\* A new number of copies of a pair.
SetAt(index, key, e, n) == [index EXCEPT ![key][e] = n]

\* A multimap holds no pair a negative number of times.
LEMMA CopiesLemma ==
  ASSUME NEW K, NEW index \in Index(K), NEW k \in K, NEW e \in Entries
  PROVE  Copies(index, k, e) \in Nat
  BY DEF Copies, Multimap, Index

\* What emplace makes of them.
LEMMA EmplaceLemma ==
  ASSUME NEW K, NEW index \in Index(K), NEW key \in K, NEW e \in Entries,
         NEW after, after = EmplaceAt(index, key, e)
  PROVE  /\ after \in Index(K)
         /\ \A k \in K, x \in Entries :
              Copies(after, k, x) =
                IF k = key /\ x = e THEN Copies(index, k, x) + 1 ELSE Copies(index, k, x)
  <1> DEFINE entry == [x \in Entries |-> Copies(index, key, x) + (IF x = e THEN 1 ELSE 0)]
  <1>1. entry \in Multimap /\ entry # None
    BY CopiesLemma, AbsentAssumption DEF Multimap
  <1>2. \A x \in Entries : entry[x] = Copies(index, key, x) + (IF x = e THEN 1 ELSE 0)
    OBVIOUS
  <1>3. after = [index EXCEPT ![key] = entry]
    BY DEF EmplaceAt
  <1> HIDE DEF entry
  <1>4. after \in Index(K)
    BY <1>1, <1>3 DEF Index
  <1>5. ASSUME NEW k \in K, NEW x \in Entries
        PROVE  Copies(after, k, x) =
                 IF k = key /\ x = e THEN Copies(index, k, x) + 1 ELSE Copies(index, k, x)
    <2>1. CASE k = key
      <3>1. Copies(after, k, x) = entry[x]
        BY <1>1, <1>3, <2>1 DEF Copies, Index
      <3>2. QED
        BY <1>2, <2>1, <3>1, CopiesLemma
    <2>2. CASE k # key
      BY <1>3, <2>2 DEF Copies, Index
    <2>3. QED
      BY <2>1, <2>2
  <1>6. QED
    BY <1>4, <1>5

\* What a new number of copies of one pair makes of them.
LEMMA SetLemma ==
  ASSUME NEW K, NEW index \in Index(K), NEW key \in K,
         index[key] # None, NEW e \in Entries, NEW n \in Nat,
         NEW after, after = SetAt(index, key, e, n)
  PROVE  /\ after \in Index(K)
         /\ \A k \in K, x \in Entries :
              Copies(after, k, x) =
                IF k = key /\ x = e THEN n ELSE Copies(index, k, x)
  <1> DEFINE entry == [index[key] EXCEPT ![e] = n]
  <1>1. index[key] \in Multimap
    BY DEF Index
  <1>2. entry \in Multimap /\ entry # None
    BY <1>1, AbsentAssumption DEF Multimap, AbsentAssumption
  <1>3. \A x \in Entries : entry[x] = IF x = e THEN n ELSE index[key][x]
    BY <1>1 DEF Multimap
  <1>4. after = [index EXCEPT ![key] = entry]
    BY DEF SetAt
  <1> HIDE DEF entry
  <1>5. after \in Index(K)
    BY <1>2, <1>4 DEF Index
  <1>6. ASSUME NEW k \in K, NEW x \in Entries
        PROVE  Copies(after, k, x) =
                 IF k = key /\ x = e THEN n ELSE Copies(index, k, x)
    BY <1>2, <1>3, <1>4 DEF Copies, Index
  <1>7. QED
    BY <1>5, <1>6

(***************************************************************************)
(* Updates and answers.                                                    *)
(***************************************************************************)
\* An update gives an entity again.
LEMMA UpdatedLemma ==
  /\ \A user \in User, update \in UserUpdates : UpdatedUser(user, update) \in User
  /\ \A location \in Location, update \in LocationUpdates :
       UpdatedLocation(location, update) \in Location
  /\ \A visit \in Visit, update \in VisitUpdates : UpdatedVisit(visit, update) \in Visit
  BY DEF User, UserUpdates, UpdatedUser, Location, LocationUpdates, UpdatedLocation,
     Visit, VisitUpdates, UpdatedVisit, Given

\* What a visit refers to, and the pair it is indexed by.
LEMMA VisitLemma ==
  ASSUME NEW visit \in Visit, NEW v \in VisitIds
  PROVE  /\ visit.location_id \in LocationIds /\ visit.user_id \in UserIds
         /\ visit.visited_at \in Timestamps /\ <<visit.visited_at, v>> \in Entries
  BY DEF Visit, Entries

\* Thinning a multimap leaves one.
LEMMA ThinnedLemma ==
  ASSUME NEW multimap \in Multimap, NEW query
  PROVE  /\ Dated(multimap, query) \in Multimap
         /\ InCountry(multimap, query) \in Multimap
         /\ Near(multimap, query) \in Multimap
         /\ Written(multimap) \in Multimap
  <1>1. Dated(multimap, query) \in Multimap
    BY DEF Dated, Keep, Multimap
  <1>2. InCountry(multimap, query) \in Multimap
    BY DEF InCountry, Keep, Multimap
  <1>3. Near(multimap, query) \in Multimap
    BY DEF Near, Keep, Multimap
  <1>4. Written(multimap) \in Multimap
    BY DEF Written, Keep, Multimap
  <1>5. QED
    BY <1>1, <1>2, <1>3, <1>4

\* Whatever is replied is an answer.
LEMMA AnswersLemma ==
  /\ {<<"Loaded">>, EntityNotFound, EntitySuccessfullyUpdated, EntityAlreadyExist,
      EntitySuccessfullyAdded, <<"Malformed">>, <<"NotANumber">>} \subseteq Answers
  /\ \A e \in {None} \cup User \cup Location \cup Visit : <<"Entity", e>> \in Answers
  /\ \A m \in {None} \cup Multimap : <<"Visits", m>> \in Answers /\ <<"Marks", m>> \in Answers
  <1>1. {<<"Loaded">>, EntityNotFound, EntitySuccessfullyUpdated, EntityAlreadyExist,
      EntitySuccessfullyAdded, <<"Malformed">>, <<"NotANumber">>} \subseteq Answers
    BY DEF Answers
  <1>2. \A e \in {None} \cup User \cup Location \cup Visit : <<"Entity", e>> \in Answers
    BY DEF Answers
  <1>3. \A m \in {None} \cup Multimap : <<"Visits", m>> \in Answers /\ <<"Marks", m>> \in Answers
    BY DEF Answers
  <1>4. QED
    BY <1>1, <1>2, <1>3

\* The text of a list and that of an average.
LEMMA TextLemma ==
  ASSUME TypeOK, NEW query
  PROVE  /\ \A u \in UserIds : users_to_visits_[u] # None => ListText(u, query) \in Answers
         /\ \A l \in LocationIds :
              locations_to_visits_[l] # None => AverageText(l, query) \in Answers
  <1>1. ASSUME NEW u \in UserIds, users_to_visits_[u] # None
        PROVE  ListText(u, query) \in Answers
    <2>1. Written(Thinned(u, query)) \in Multimap
      BY <1>1, ThinnedLemma DEF Thinned, TypeOK
    <2>2. QED
      BY <2>1, AnswersLemma DEF ListText
  <1>2. ASSUME NEW l \in LocationIds, locations_to_visits_[l] # None
        PROVE  AverageText(l, query) \in Answers
    <2>1. Dated(locations_to_visits_[l], query) \in Multimap
      BY <1>2, ThinnedLemma DEF TypeOK
    <2>2. Marked(l, query) \in Multimap
      BY <2>1 DEF Marked, Keep, Multimap
    <2>3. QED
      BY <2>2, AnswersLemma DEF AverageText
  <1>3. QED
    BY <1>1, <1>2

(***************************************************************************)
(* The steps.                                                              *)
(***************************************************************************)
\* What the five places that index visits, and `timely`, hold.
tracked == <<visits_, visits_to_locations_, visits_to_user_,
             users_to_visits_, locations_to_visits_, history>>

\* The steps that change none of them.
Loads ==
  \/ \E u \in UserIds : \E user \in User : LoadUser(u, user)
  \/ \E l \in LocationIds : \E location \in Location : LoadLocation(l, location)
  \/ Loaded
Stops ==
  \/ \E v \in VisitIds : \E update \in Changes : UpdateVisitOfUnknownUser(v, update)
  \/ \E u \in UserIds : \E query \in VisitQueries : ListHangs(u, query)
  \/ \E l \in LocationIds : \E query \in AverageQueries : AverageUndefined(l, query)
Edits ==
  \/ \E u \in UserIds : \E user \in User : AddUser(u, user)
  \/ \E l \in LocationIds : \E location \in Location : AddLocation(l, location)
  \/ \E u \in UserIds : \E update \in UserUpdates : UpdateUser(u, update)
  \/ \E l \in LocationIds : \E update \in LocationUpdates : UpdateLocation(l, update)
  \/ \E v \in VisitIds : AddKnownVisit(v) \/ UpdateUnknownVisit(v)
Gets ==
  \/ \E u \in UserIds : GetEntityById(u, users_)
  \/ \E l \in LocationIds : GetEntityById(l, locations_)
  \/ \E v \in VisitIds : GetEntityById(v, visits_)
  \/ \E u \in UserIds : \E query \in VisitQueries : GetVisistsByUserId(u, query)
  \/ \E l \in LocationIds : \E query \in AverageQueries : GetAverageLocationMark(l, query)

\* The others: a visit is loaded, added, or updated, to the end or half-way.
LEMMA NextLemma ==
  ASSUME [Next]_vars
  PROVE  \/ Loads \/ Stops \/ Edits \/ Gets
         \/ \E v \in VisitIds : \E visit \in Visit : LoadVisit(v, visit)
         \/ \E v \in VisitIds : \E visit \in Visit : AddVisit(v, visit)
         \/ \E v \in VisitIds : \E update \in Changes : UpdateVisit(v, update)
         \/ \E v \in VisitIds : \E update \in Changes : UpdateVisitHalfway(v, update)
         \/ UNCHANGED vars
  BY Zenon DEF Next, Loads, Stops, Edits, Gets

\* The first four track nothing.
LEMMA QuietLemma ==
  ASSUME Loads \/ Stops \/ Edits \/ Gets \/ UNCHANGED vars
  PROVE  UNCHANGED tracked
  <1>1. CASE Loads
    BY <1>1 DEF Loads, LoadUser, LoadLocation, Loaded, indexes, containers, history, tracked
  <1>2. CASE Stops
    BY <1>2 DEF Stops, UpdateVisitOfUnknownUser, ListHangs, AverageUndefined, Stop,
       indexes, containers, history, tracked
  <1>3. CASE Edits
    BY <1>3 DEF Edits, AddUser, AddLocation, UpdateUser, UpdateLocation, AddKnownVisit,
       UpdateUnknownVisit, indexes, containers, history, tracked
  <1>4. CASE Gets
    BY <1>4 DEF Gets, GetEntityById, GetVisistsByUserId, GetAverageLocationMark, Get,
       indexes, containers, history, tracked
  <1>5. CASE UNCHANGED vars
    BY <1>5 DEF vars, indexes, containers, history, tracked
  <1>6. QED
    BY <1>1, <1>2, <1>3, <1>4, <1>5

\* A visit and what an update makes of it.
LEMMA UpdatedVisitLemma ==
  ASSUME TypeOK, NEW v \in VisitIds, NEW update \in Changes, visits_[v] # None
  PROVE  /\ visits_[v] \in Visit
         /\ UpdatedVisit(visits_[v], update) \in Visit
  BY UpdatedLemma, ChangesAssumption DEF TypeOK, ChangesAssumption

\* What may become of the users' multimaps: nothing, or some pair of the visit's
\* time leaves the old user's and the new pair enters the new user's.
LEMMA UserIndexesLemma ==
  ASSUME TypeOK, NEW v \in VisitIds, NEW visit \in Visit, NEW updated \in Visit,
         NEW after \in UserIndexesAfter(v, visit, updated)
  PROVE  /\ after \in Index(UserIds)
         /\ IF updated.user_id = visit.user_id THEN after = users_to_visits_
            ELSE \E e \in Entries :
                   /\ e[1] = visit.visited_at
                   /\ Copies(users_to_visits_, visit.user_id, e) > 0
                   /\ \A u \in UserIds, x \in Entries :
                        Copies(after, u, x) =
                          (IF u = visit.user_id /\ x = e
                           THEN Copies(users_to_visits_, u, x) - 1
                           ELSE Copies(users_to_visits_, u, x))
                          + (IF u = updated.user_id /\ x = <<updated.visited_at, v>>
                             THEN 1 ELSE 0)
  <1>1. CASE updated.user_id = visit.user_id
    BY <1>1 DEF UserIndexesAfter, TypeOK, Index
  <1>2. CASE updated.user_id # visit.user_id
    <2> DEFINE from == visit.user_id
               to == updated.user_id
               pair == <<updated.visited_at, v>>
    <2>1. PICK e \in Entries :
            /\ e[1] = visit.visited_at
            /\ Copies(users_to_visits_, from, e) > 0
            /\ after = EmplaceAt([users_to_visits_ EXCEPT ![from][e] = @ - 1], to, pair)
      BY <1>2 DEF UserIndexesAfter
    <2>2. /\ from \in UserIds /\ to \in UserIds /\ pair \in Entries
          /\ users_to_visits_ \in Index(UserIds)
      BY VisitLemma DEF TypeOK, Index
    <2>3. users_to_visits_[from] # None /\ users_to_visits_[from][e] \in Nat \ {0}
      BY <2>1, <2>2 DEF Copies, Index, Multimap
    <2> DEFINE n == users_to_visits_[from][e] - 1
               left == [users_to_visits_ EXCEPT ![from][e] = n]
    <2>4. n \in Nat /\ n = Copies(users_to_visits_, from, e) - 1
      BY <2>3 DEF Copies
    <2>5. after = EmplaceAt(left, to, pair)
      BY <2>1
    <2>6. left = SetAt(users_to_visits_, from, e, n)
      BY DEF SetAt
    <2> HIDE DEF n, left
    <2>7. /\ left \in Index(UserIds)
          /\ \A u \in UserIds, x \in Entries :
               Copies(left, u, x) =
                 IF u = from /\ x = e THEN n ELSE Copies(users_to_visits_, u, x)
      BY <2>2, <2>3, <2>4, <2>6, SetLemma
    <2>8. /\ after \in Index(UserIds)
          /\ \A u \in UserIds, x \in Entries :
               Copies(after, u, x) =
                 IF u = to /\ x = pair THEN Copies(left, u, x) + 1 ELSE Copies(left, u, x)
      BY <2>2, <2>5, <2>7, EmplaceLemma
    <2>9. ASSUME NEW u \in UserIds, NEW x \in Entries
          PROVE  Copies(after, u, x) =
                   (IF u = from /\ x = e THEN Copies(users_to_visits_, u, x) - 1
                    ELSE Copies(users_to_visits_, u, x))
                   + (IF u = to /\ x = pair THEN 1 ELSE 0)
      <3>1. Copies(users_to_visits_, u, x) \in Nat
        BY <2>2, CopiesLemma
      <3>2. QED
        BY <2>4, <2>7, <2>8, <3>1
    <2>10. QED
      BY <1>2, <2>1, <2>8, <2>9
  <1>3. QED
    BY <1>1, <1>2

\* What becomes of the locations' multimaps.
LEMMA LocationIndexLemma ==
  ASSUME TypeOK, NEW v \in VisitIds, NEW visit \in Visit, NEW updated \in Visit,
         locations_to_visits_[visit.location_id] # None
  PROVE  /\ LocationIndexAfter(v, visit, updated) \in Index(LocationIds)
         /\ \A l \in LocationIds, x \in Entries :
              Copies(LocationIndexAfter(v, visit, updated), l, x) =
                (IF l = visit.location_id /\ x = <<visit.visited_at, v>> THEN 0
                 ELSE Copies(locations_to_visits_, l, x))
                + (IF l = updated.location_id /\ x = <<updated.visited_at, v>> THEN 1 ELSE 0)
  <1> DEFINE old == <<visit.visited_at, v>>
             new == <<updated.visited_at, v>>
             left == [locations_to_visits_ EXCEPT ![visit.location_id][old] = 0]
  <1>1. /\ visit.location_id \in LocationIds /\ updated.location_id \in LocationIds
        /\ old \in Entries /\ new \in Entries
        /\ locations_to_visits_ \in Index(LocationIds)
    BY VisitLemma DEF TypeOK, Index
  <1>2. left = SetAt(locations_to_visits_, visit.location_id, old, 0)
    BY DEF SetAt
  <1> HIDE DEF left, old, new
  <1>3. /\ left \in Index(LocationIds)
        /\ \A l \in LocationIds, x \in Entries :
             Copies(left, l, x) =
               IF l = visit.location_id /\ x = old THEN 0 ELSE Copies(locations_to_visits_, l, x)
    BY <1>1, <1>2, SetLemma
  <1>4. LocationIndexAfter(v, visit, updated) = EmplaceAt(left, updated.location_id, new)
    BY DEF LocationIndexAfter, left, old, new
  <1>5. /\ LocationIndexAfter(v, visit, updated) \in Index(LocationIds)
        /\ \A l \in LocationIds, x \in Entries :
             Copies(LocationIndexAfter(v, visit, updated), l, x) =
               IF l = updated.location_id /\ x = new
               THEN Copies(left, l, x) + 1 ELSE Copies(left, l, x)
    BY <1>1, <1>3, <1>4, EmplaceLemma
  <1>6. ASSUME NEW l \in LocationIds, NEW x \in Entries
        PROVE  Copies(LocationIndexAfter(v, visit, updated), l, x) =
                 (IF l = visit.location_id /\ x = old THEN 0
                  ELSE Copies(locations_to_visits_, l, x))
                 + (IF l = updated.location_id /\ x = new THEN 1 ELSE 0)
    <2>1. Copies(locations_to_visits_, l, x) \in Nat
      BY <1>1, CopiesLemma
    <2>2. QED
      BY <1>3, <1>5, <2>1
  <1>7. QED
    BY <1>5, <1>6 DEF old, new

(***************************************************************************)
(* Type correctness.                                                       *)
(***************************************************************************)
\* At the start.
LEMMA TypeInit == Init => TypeOK
  BY AnswersLemma DEF Init, TypeOK

\* A reply is an answer of the serving storage.
LEMMA ReplyLemma ==
  ASSUME NEW result \in Answers, Reply(result)
  PROVE  phase = "Serving" /\ phase' = phase /\ answer' \in Answers
  BY DEF Reply

\* The steps that track nothing.
LEMMA TypeQuiet ==
  ASSUME TypeOK, Loads \/ Stops \/ Edits \/ Gets \/ UNCHANGED vars
  PROVE  TypeOK'
  <1>1. UNCHANGED tracked
    BY QuietLemma
  <1>2. ASSUME /\ users_' \in [UserIds -> User \cup {None}]
               /\ locations_' \in [LocationIds -> Location \cup {None}]
               /\ locations_to_users_' \subseteq LocationIds
               /\ answer' \in Answers
               /\ phase' \in {phase, "Serving", "hung", "undefined"}
        PROVE  TypeOK'
    BY <1>1, <1>2 DEF TypeOK, tracked, history
  <1>3. CASE Loads
    <2>1. /\ users_' \in [UserIds -> User \cup {None}]
          /\ locations_' \in [LocationIds -> Location \cup {None}]
      BY <1>3 DEF Loads, LoadUser, LoadLocation, Loaded, EmplaceEntity, containers, TypeOK
    <2>2. /\ UNCHANGED <<locations_to_users_, answer>> /\ phase' \in {phase, "Serving"}
      BY <1>3 DEF Loads, LoadUser, LoadLocation, Loaded, indexes
    <2>3. QED
      BY <1>2, <2>1, <2>2 DEF TypeOK
  <1>4. CASE Stops
    <2>1. /\ UNCHANGED <<containers, indexes, answer>> /\ phase' \in {"hung", "undefined"}
      BY <1>4 DEF Stops, UpdateVisitOfUnknownUser, ListHangs, AverageUndefined, Stop
    <2>2. QED
      BY <1>2, <2>1 DEF containers, indexes, TypeOK
  <1>5. CASE Edits
    <2>1. \/ Reply(EntityAlreadyExist) \/ Reply(EntitySuccessfullyAdded)
          \/ Reply(EntityNotFound) \/ Reply(EntitySuccessfullyUpdated)
      BY <1>5 DEF Edits, AddUser, AddLocation, UpdateUser, UpdateLocation, AddKnownVisit,
         UpdateUnknownVisit
    <2>2. phase' = phase /\ answer' \in Answers
      BY <2>1, AnswersLemma, ReplyLemma
    <2>3. users_' \in [UserIds -> User \cup {None}]
      BY <1>5, UpdatedLemma DEF Edits, AddUser, AddLocation, UpdateUser, UpdateLocation,
         AddKnownVisit, UpdateUnknownVisit, containers, TypeOK
    <2>4. locations_' \in [LocationIds -> Location \cup {None}]
      BY <1>5, UpdatedLemma DEF Edits, AddUser, AddLocation, UpdateUser, UpdateLocation,
         AddKnownVisit, UpdateUnknownVisit, containers, TypeOK
    <2>5. locations_to_users_' \subseteq LocationIds
      BY <1>5 DEF Edits, AddUser, AddLocation, UpdateUser, UpdateLocation,
         AddKnownVisit, UpdateUnknownVisit, indexes, TypeOK
    <2>6. QED
      BY <1>2, <2>2, <2>3, <2>4, <2>5
  <1>6. CASE Gets
    <2>1. \E result \in Answers : Get(result)
      <3>1. CASE \E u \in UserIds : GetEntityById(u, users_)
        BY <3>1, AnswersLemma DEF GetEntityById, TypeOK
      <3>2. CASE \E l \in LocationIds : GetEntityById(l, locations_)
        BY <3>2, AnswersLemma DEF GetEntityById, TypeOK
      <3>3. CASE \E v \in VisitIds : GetEntityById(v, visits_)
        BY <3>3, AnswersLemma DEF GetEntityById, TypeOK
      <3>4. NoEntries \in Multimap
        BY DEF NoEntries, Multimap
      <3>5. CASE \E u \in UserIds : \E query \in VisitQueries : GetVisistsByUserId(u, query)
        <4>1. PICK u \in UserIds, query \in VisitQueries : GetVisistsByUserId(u, query)
          BY <3>5
        <4>2. (IF users_[u] = None THEN <<"Visits", None>>
               ELSE IF users_to_visits_[u] = None THEN <<"Visits", NoEntries>>
               ELSE ListText(u, query)) \in Answers
          BY <3>4, AnswersLemma, TextLemma
        <4>3. QED
          BY <4>1, <4>2 DEF GetVisistsByUserId, ListAnswer
      <3>6. CASE \E l \in LocationIds : \E query \in AverageQueries :
                   GetAverageLocationMark(l, query)
        <4>1. PICK l \in LocationIds, query \in AverageQueries : GetAverageLocationMark(l, query)
          BY <3>6
        <4>2. (IF locations_[l] = None THEN <<"Marks", None>>
               ELSE IF locations_to_visits_[l] = None THEN <<"Marks", NoEntries>>
               ELSE AverageText(l, query)) \in Answers
          BY <3>4, AnswersLemma, TextLemma
        <4>3. QED
          BY <4>1, <4>2 DEF GetAverageLocationMark, AverageAnswer
      <3>7. QED
        BY <1>6, <3>1, <3>2, <3>3, <3>5, <3>6 DEF Gets
    <2>2. UNCHANGED <<containers, indexes, phase>> /\ answer' \in Answers
      BY <2>1, ReplyLemma DEF Get
    <2>3. QED
      BY <1>2, <2>2 DEF containers, indexes, TypeOK
  <1>7. CASE UNCHANGED vars
    BY <1>2, <1>7 DEF vars, containers, indexes, TypeOK
  <1>8. QED
    BY <1>3, <1>4, <1>5, <1>6, <1>7

\* And those that do.
LEMMA TypeTracked ==
  ASSUME TypeOK, NEW v \in VisitIds
  PROVE  /\ \A visit \in Visit : LoadVisit(v, visit) \/ AddVisit(v, visit) => TypeOK'
         /\ \A update \in Changes :
              UpdateVisit(v, update) \/ UpdateVisitHalfway(v, update) => TypeOK'
  <1>1. ASSUME NEW visit \in Visit, LoadVisit(v, visit)
        PROVE  TypeOK'
    BY <1>1 DEF LoadVisit, EmplaceEntity, indexes, history, TypeOK
  <1>2. ASSUME NEW visit \in Visit, AddVisit(v, visit)
        PROVE  TypeOK'
    <2> DEFINE pair == <<visit.visited_at, v>>
               of_user == EmplaceAt(users_to_visits_, visit.user_id, pair)
               of_location == EmplaceAt(locations_to_visits_, visit.location_id, pair)
    <2>1. /\ visit.location_id \in LocationIds /\ visit.user_id \in UserIds
          /\ pair \in Entries
      BY VisitLemma
    <2>2. /\ users_to_visits_' = of_user /\ locations_to_visits_' = of_location
      BY <1>2 DEF AddVisit
    <2> HIDE DEF pair
    <2>3. /\ users_to_visits_ \in Index(UserIds) /\ locations_to_visits_ \in Index(LocationIds)
      BY DEF TypeOK, Index
    <2>4. /\ users_to_visits_' \in Index(UserIds)
          /\ locations_to_visits_' \in Index(LocationIds)
      BY <2>1, <2>2, <2>3, EmplaceLemma
    <2>5. phase = "Serving" /\ phase' = phase /\ answer' \in Answers
      BY <1>2, AnswersLemma, ReplyLemma DEF AddVisit
    <2>6. timely' \in BOOLEAN
      BY <1>2 DEF AddVisit, Timely, TypeOK
    <2>7. QED
      BY <1>2, <2>1, <2>4, <2>5, <2>6 DEF AddVisit, TypeOK, Index
  <1>3. ASSUME NEW update \in Changes, Indexed(v)
        PROVE  /\ visits_[v] \in Visit /\ UpdatedVisit(visits_[v], update) \in Visit
               /\ UpdatedVisit(visits_[v], update).location_id \in LocationIds
               /\ UpdatedVisit(visits_[v], update).user_id \in UserIds
               /\ visits_[v].location_id \in LocationIds
    BY <1>3, UpdatedVisitLemma, VisitLemma DEF Indexed
  <1>4. ASSUME NEW update \in Changes, UpdateVisit(v, update)
        PROVE  TypeOK'
    <2> DEFINE visit == visits_[v]
               updated == UpdatedVisit(visit, update)
    <2>1. /\ visit \in Visit /\ updated \in Visit
          /\ updated.location_id \in LocationIds /\ updated.user_id \in UserIds
          /\ visit.location_id \in LocationIds
      BY <1>3, <1>4 DEF UpdateVisit
    <2> HIDE DEF updated
    <2>2. phase = "Serving" /\ phase' = phase /\ answer' \in Answers
      BY <1>4, AnswersLemma, ReplyLemma DEF UpdateVisit
    <2>3. /\ users_to_visits_' \in UserIndexesAfter(v, visit, updated)
          /\ locations_to_visits_' = LocationIndexAfter(v, visit, updated)
          /\ locations_to_visits_[visit.location_id] # None
          /\ visits_to_locations_' = [visits_to_locations_ EXCEPT ![v] = updated.location_id]
          /\ visits_to_user_' = [visits_to_user_ EXCEPT ![v] = updated.user_id]
          /\ locations_to_users_' = locations_to_users_ \cup {visit.location_id} \cup
               (IF users_[updated.user_id] # None THEN {updated.location_id} ELSE {})
          /\ visits_' = [visits_ EXCEPT ![v] = updated]
          /\ timely' = Timely(v, updated)
          /\ UNCHANGED <<users_, locations_, added>>
      BY <1>4 DEF UpdateVisit, Missing, updated
    <2>4. users_to_visits_' \in Index(UserIds)
      BY <2>1, <2>3, UserIndexesLemma
    <2>5. locations_to_visits_' \in Index(LocationIds)
      BY <2>1, <2>3, LocationIndexLemma
    <2>6. timely' \in BOOLEAN
      BY <2>3 DEF Timely, TypeOK
    <2>7. QED
      BY <2>1, <2>2, <2>3, <2>4, <2>5, <2>6 DEF TypeOK, Index
  <1>5. ASSUME NEW update \in Changes, UpdateVisitHalfway(v, update)
        PROVE  TypeOK'
    <2> DEFINE visit == visits_[v]
               updated == UpdatedVisit(visit, update)
    <2>1. /\ visit \in Visit /\ updated \in Visit
          /\ updated.location_id \in LocationIds /\ updated.user_id \in UserIds
      BY <1>3, <1>5 DEF UpdateVisitHalfway
    <2> HIDE DEF updated
    <2>2. phase = "Serving" /\ phase' = phase /\ answer' \in Answers
      BY <1>5, AnswersLemma, ReplyLemma DEF UpdateVisitHalfway
    <2>3. /\ visits_to_locations_' = [visits_to_locations_ EXCEPT ![v] = updated.location_id]
          /\ visits_to_user_' =
               [visits_to_user_ EXCEPT ![v] = IF @ = None THEN None ELSE updated.user_id]
          /\ users_to_visits_' = users_to_visits_
               \/ users_to_visits_' \in UserIndexesAfter(v, visit, updated)
          /\ UNCHANGED <<containers, locations_to_visits_, locations_to_users_, history>>
      BY <1>5 DEF UpdateVisitHalfway, updated
    <2>4. users_to_visits_' \in Index(UserIds)
      BY <2>1, <2>3, UserIndexesLemma DEF TypeOK, Index
    <2>5. QED
      BY <2>1, <2>2, <2>3, <2>4 DEF TypeOK, containers, history, Index
  <1>6. QED
    BY <1>1, <1>2, <1>4, <1>5

\* Every step keeps the kinds of values.
LEMMA TypeStep == TypeOK /\ [Next]_vars => TypeOK'
  BY NextLemma, TypeQuiet, TypeTracked

\* The containers and the indexes hold what their C++ types say, whatever is
\* loaded and called.
THEOREM TypeCorrect == Spec => []TypeOK
  <1>1. QED
    BY TypeInit, TypeStep, PTL DEF Spec

\* Only visits are added.
LEMMA AddedAreVisits ==
  ASSUME TypeOK, TypeOK'
  PROVE  added \subseteq VisitIds /\ added' \subseteq VisitIds
  BY DEF TypeOK

(***************************************************************************)
(* What the steps that change visits do to what is known.                  *)
(***************************************************************************)
\* The two maps know the visits that were added, each of which is stored.
Paired ==
  \A v \in VisitIds :
    /\ v \in added <=> visits_to_user_[v] # None
    /\ visits_to_locations_[v] # None <=> visits_to_user_[v] # None
    /\ visits_to_user_[v] # None => visits_[v] # None

\* Nothing is known yet of a visit that is loaded.
LEMMA LoadedKnown ==
  ASSUME TypeOK, Paired, NEW v \in VisitIds, NEW visit \in Visit, LoadVisit(v, visit)
  PROVE  /\ \A x \in VisitIds : x \notin added /\ x \notin added'
         /\ UNCHANGED <<visits_to_locations_, visits_to_user_,
                        users_to_visits_, locations_to_visits_, timely, answer>>
  BY DEF LoadVisit, TypeOK, Paired, indexes, history

\* A visit that is added was not known and is afterwards; no other is touched.
LEMMA AddedKnown ==
  ASSUME TypeOK, Paired, NEW v \in VisitIds, NEW visit \in Visit, AddVisit(v, visit)
  PROVE  /\ v \notin added /\ v \in added' /\ visits_'[v] = visit
         /\ visits_to_user_'[v] = visit.user_id
         /\ visits_to_locations_'[v] = visit.location_id
         /\ \A x \in VisitIds \ {v} :
              /\ (x \in added' <=> x \in added) /\ visits_'[x] = visits_[x]
              /\ visits_to_user_'[x] = visits_to_user_[x]
              /\ visits_to_locations_'[x] = visits_to_locations_[x]
  <1>1. visit # None /\ visit.user_id \in UserIds /\ visit.user_id # None
    BY VisitLemma, NoneAssumption, AbsentAssumption DEF NoneAssumption, AbsentAssumption
  <1>2. QED
    BY <1>1 DEF AddVisit, TypeOK, Paired

\* One that is updated to the end is known before and after.
LEMMA UpdatedKnown ==
  ASSUME TypeOK, Paired, NEW v \in VisitIds, NEW update \in Changes, UpdateVisit(v, update)
  PROVE  /\ v \in added /\ v \in added' /\ visits_'[v] = UpdatedVisit(visits_[v], update)
         /\ visits_to_user_'[v] = UpdatedVisit(visits_[v], update).user_id
         /\ visits_to_locations_'[v] = UpdatedVisit(visits_[v], update).location_id
         /\ \A x \in VisitIds \ {v} :
              /\ (x \in added' <=> x \in added) /\ visits_'[x] = visits_[x]
              /\ visits_to_user_'[x] = visits_to_user_[x]
              /\ visits_to_locations_'[x] = visits_to_locations_[x]
  <1> DEFINE updated == UpdatedVisit(visits_[v], update)
  <1>1. updated \in Visit
    BY UpdatedVisitLemma DEF UpdateVisit, Indexed
  <1>2. /\ visits_[v] # None /\ visits_to_user_[v] # None
        /\ visits_' = [visits_ EXCEPT ![v] = updated]
        /\ visits_to_user_' = [visits_to_user_ EXCEPT ![v] = updated.user_id]
        /\ visits_to_locations_' = [visits_to_locations_ EXCEPT ![v] = updated.location_id]
        /\ added' = added
    BY DEF UpdateVisit, Indexed, Missing
  <1> HIDE DEF updated
  <1>3. updated # None /\ updated.user_id # None
    BY <1>1, VisitLemma, NoneAssumption, AbsentAssumption DEF NoneAssumption, AbsentAssumption
  <1>4. QED
    BY <1>2, <1>3 DEF TypeOK, Paired, updated

\* An update refused half-way changes no visit and makes none known.
LEMMA HalfwayKnown ==
  ASSUME TypeOK, Paired, NEW v \in VisitIds, NEW update \in Changes, UpdateVisitHalfway(v, update)
  PROVE  /\ \A x \in VisitIds : x \in added' <=> x \in added
         /\ UNCHANGED <<visits_, locations_to_visits_, timely>>
         /\ visits_to_locations_'[v] # None
         /\ visits_to_user_'[v] # None <=> visits_to_user_[v] # None
         /\ \A x \in VisitIds \ {v} :
              /\ visits_to_user_'[x] = visits_to_user_[x]
              /\ visits_to_locations_'[x] = visits_to_locations_[x]
  <1> DEFINE updated == UpdatedVisit(visits_[v], update)
  <1>1. updated \in Visit
    BY UpdatedVisitLemma DEF UpdateVisitHalfway, Indexed
  <1>2. /\ visits_to_user_' =
             [visits_to_user_ EXCEPT ![v] = IF @ = None THEN None ELSE updated.user_id]
        /\ visits_to_locations_' = [visits_to_locations_ EXCEPT ![v] = updated.location_id]
        /\ UNCHANGED <<visits_, locations_to_visits_, added, timely>>
    BY DEF UpdateVisitHalfway, containers, history
  <1> HIDE DEF updated
  <1>3. updated.location_id # None /\ updated.user_id # None
    BY <1>1, VisitLemma, AbsentAssumption DEF AbsentAssumption
  <1>4. QED
    BY <1>2, <1>3 DEF TypeOK, Paired

\* Every step keeps the maps in pairs.
LEMMA PairedStep ==
  ASSUME TypeOK, Paired, [Next]_vars
  PROVE  Paired'
  <1>1. ASSUME UNCHANGED tracked
        PROVE  Paired'
    BY <1>1 DEF tracked, history, Paired
  <1>2. ASSUME NEW v \in VisitIds, NEW visit \in Visit, LoadVisit(v, visit)
        PROVE  Paired'
    <2>1. \A x \in VisitIds : visits_to_user_[x] = None
      BY <1>2 DEF LoadVisit, TypeOK
    <2>2. QED
      BY <1>2, <2>1, LoadedKnown DEF Paired
  <1>3. ASSUME NEW v \in VisitIds, NEW visit \in Visit, AddVisit(v, visit)
        PROVE  Paired'
    <2>1. visit.location_id # None /\ visit.user_id # None /\ visit # None
      BY VisitLemma, NoneAssumption, AbsentAssumption DEF NoneAssumption, AbsentAssumption
    <2>2. QED
      BY <1>3, <2>1, AddedKnown DEF Paired
  <1>4. ASSUME NEW v \in VisitIds, NEW update \in Changes, UpdateVisit(v, update)
        PROVE  Paired'
    <2>1. UpdatedVisit(visits_[v], update) \in Visit
      BY <1>4, UpdatedVisitLemma DEF UpdateVisit, Indexed
    <2>2. /\ UpdatedVisit(visits_[v], update).location_id # None
          /\ UpdatedVisit(visits_[v], update).user_id # None
          /\ UpdatedVisit(visits_[v], update) # None
      BY <2>1, VisitLemma, NoneAssumption, AbsentAssumption
      DEF NoneAssumption, AbsentAssumption
    <2>3. QED
      BY <1>4, <2>2, UpdatedKnown DEF Paired
  <1>5. ASSUME NEW v \in VisitIds, NEW update \in Changes, UpdateVisitHalfway(v, update)
        PROVE  Paired'
    <2>1. v \in added
      BY <1>5 DEF UpdateVisitHalfway, Indexed, Paired
    <2>2. QED
      BY <1>5, <2>1, HalfwayKnown DEF Paired
  <1>6. QED
    BY <1>1, <1>2, <1>3, <1>4, <1>5, NextLemma, QuietLemma

\* The maps are paired after any calls.
LEMMA PairedCorrect == Spec => []Paired
  <1>1. Init => Paired
    BY DEF Init, Paired
  <1>2. QED
    BY <1>1, PairedStep, TypeCorrect, PTL DEF Spec

(***************************************************************************)
(* The locations' side.                                                    *)
(***************************************************************************)
\* Every step keeps each visit indexed once under its location and time.
LEMMA LocationStep ==
  ASSUME TypeOK, Paired, LocationIndexExact, [Next]_vars
  PROVE  LocationIndexExact'
  <1>0. ASSUME /\ UNCHANGED locations_to_visits_
               /\ \A x \in VisitIds : /\ x \in added' <=> x \in added
                                      /\ x \in added => visits_'[x] = visits_[x]
        PROVE  LocationIndexExact'
    <2>1. ASSUME NEW l \in LocationIds, NEW t \in Timestamps, NEW x \in VisitIds
          PROVE  Copies(locations_to_visits_, l, <<t, x>>)' =
                   IF (x \in added /\ visits_[x].location_id = l /\ visits_[x].visited_at = t)'
                   THEN 1 ELSE 0
      <3>1. Copies(locations_to_visits_, l, <<t, x>>)' = Copies(locations_to_visits_, l, <<t, x>>)
        BY <1>0 DEF Copies
      <3>2. Copies(locations_to_visits_, l, <<t, x>>) =
              IF x \in added /\ visits_[x].location_id = l /\ visits_[x].visited_at = t
              THEN 1 ELSE 0
        BY DEF LocationIndexExact
      <3>3. QED
        BY <1>0, <3>1, <3>2
    <2>2. QED
      BY <2>1 DEF LocationIndexExact
  <1>1. ASSUME UNCHANGED tracked
        PROVE  LocationIndexExact'
    BY <1>0, <1>1 DEF tracked, history
  <1>2. ASSUME NEW v \in VisitIds, NEW visit \in Visit, LoadVisit(v, visit)
        PROVE  LocationIndexExact'
    BY <1>0, <1>2, LoadedKnown
  <1>3. ASSUME NEW v \in VisitIds, NEW visit \in Visit, AddVisit(v, visit)
        PROVE  LocationIndexExact'
    <2> DEFINE pair == <<visit.visited_at, v>>
    <2>1. /\ locations_to_visits_ \in Index(LocationIds)
          /\ visit.location_id \in LocationIds /\ pair \in Entries
      BY VisitLemma DEF TypeOK, Index
    <2>2. locations_to_visits_' = EmplaceAt(locations_to_visits_, visit.location_id, pair)
      BY <1>3 DEF AddVisit
    <2>3. ASSUME NEW l \in LocationIds, NEW t \in Timestamps, NEW x \in VisitIds
          PROVE  Copies(locations_to_visits_, l, <<t, x>>)' =
                   IF (x \in added /\ visits_[x].location_id = l /\ visits_[x].visited_at = t)'
                   THEN 1 ELSE 0
      <3> DEFINE e == <<t, x>>
      <3>1. e \in Entries /\ (e = pair <=> t = visit.visited_at /\ x = v)
        BY DEF Entries
      <3>2. Copies(locations_to_visits_, l, e) =
              IF x \in added /\ visits_[x].location_id = l /\ visits_[x].visited_at = t
              THEN 1 ELSE 0
        BY DEF LocationIndexExact
      <3> HIDE DEF e, pair
      <3>3. Copies(locations_to_visits_', l, e) =
              IF l = visit.location_id /\ e = pair THEN Copies(locations_to_visits_, l, e) + 1
              ELSE Copies(locations_to_visits_, l, e)
        BY <2>1, <2>2, <3>1, EmplaceLemma
      <3>4. Copies(locations_to_visits_', l, e) =
              IF (x \in added /\ visits_[x].location_id = l /\ visits_[x].visited_at = t)'
              THEN 1 ELSE 0
        BY <1>3, <3>1, <3>2, <3>3, AddedKnown
      <3>5. QED
        BY <3>4 DEF Copies, e
    <2>4. QED
      BY <2>3 DEF LocationIndexExact
  <1>4. ASSUME NEW v \in VisitIds, NEW update \in Changes, UpdateVisit(v, update)
        PROVE  LocationIndexExact'
    <2> DEFINE visit == visits_[v]
               updated == UpdatedVisit(visit, update)
               old == <<visit.visited_at, v>>
               new == <<updated.visited_at, v>>
    <2>1. visit \in Visit /\ updated \in Visit
      BY <1>4, UpdatedVisitLemma DEF UpdateVisit, Indexed
    <2>2. /\ locations_to_visits_' = LocationIndexAfter(v, visit, updated)
          /\ locations_to_visits_[visit.location_id] # None
      BY <1>4 DEF UpdateVisit, Missing
    <2>3. /\ v \in added /\ v \in added' /\ visits_'[v] = updated
          /\ \A x \in VisitIds \ {v} : (x \in added' <=> x \in added) /\ visits_'[x] = visits_[x]
      BY <1>4, UpdatedKnown
    <2> HIDE DEF updated
    <2>4. ASSUME NEW l \in LocationIds, NEW t \in Timestamps, NEW x \in VisitIds
          PROVE  Copies(locations_to_visits_, l, <<t, x>>)' =
                   IF (x \in added /\ visits_[x].location_id = l /\ visits_[x].visited_at = t)'
                   THEN 1 ELSE 0
      <3> DEFINE e == <<t, x>>
      <3>1. /\ e \in Entries /\ (e = old <=> t = visit.visited_at /\ x = v)
            /\ (e = new <=> t = updated.visited_at /\ x = v)
        BY DEF Entries
      <3>2. Copies(locations_to_visits_, l, e) =
              IF x \in added /\ visits_[x].location_id = l /\ visits_[x].visited_at = t
              THEN 1 ELSE 0
        BY DEF LocationIndexExact
      <3> HIDE DEF e
      <3>3. Copies(locations_to_visits_', l, e) =
              (IF l = visit.location_id /\ e = old THEN 0
               ELSE Copies(locations_to_visits_, l, e))
              + (IF l = updated.location_id /\ e = new THEN 1 ELSE 0)
        BY <2>1, <2>2, <3>1, LocationIndexLemma
      <3> HIDE DEF old, new
      <3>4. Copies(locations_to_visits_', l, e) =
              IF (x \in added /\ visits_[x].location_id = l /\ visits_[x].visited_at = t)'
              THEN 1 ELSE 0
        <4>1. CASE x = v
          BY <2>3, <3>1, <3>2, <3>3, <4>1
        <4>2. CASE x # v
          BY <2>3, <3>1, <3>2, <3>3, <4>2
        <4>3. QED
          BY <4>1, <4>2
      <3>5. QED
        BY <3>4 DEF Copies, e
    <2>5. QED
      BY <2>4 DEF LocationIndexExact
  <1>5. ASSUME NEW v \in VisitIds, NEW update \in Changes, UpdateVisitHalfway(v, update)
        PROVE  LocationIndexExact'
    BY <1>0, <1>5, HalfwayKnown
  <1>6. QED
    BY <1>1, <1>2, <1>3, <1>4, <1>5, NextLemma, QuietLemma

\* No sequence of calls, refused half-way or not, puts the locations' side out
\* of step with the visits.
THEOREM LocationIndexCorrect == Spec => []LocationIndexExact
  <1>1. Init => LocationIndexExact
    BY DEF Init, LocationIndexExact, Copies
  <1>2. QED
    BY <1>1, LocationStep, PairedCorrect, TypeCorrect, PTL DEF Spec

(***************************************************************************)
(* The users' side: what it never holds.                                   *)
(***************************************************************************)
\* What is listed was added.
ListedAdded ==
  \A u \in UserIds, e \in Entries : Copies(users_to_visits_, u, e) > 0 => e[2] \in added

\* Every pair that enters a user's multimap is of a visit that is known by then,
\* and nothing that is known is forgotten.
LEMMA EntriesStep ==
  ASSUME TypeOK, Paired, ListedAdded, [Next]_vars
  PROVE  ListedAdded'
  <1>0. ASSUME \A x \in VisitIds : x \in added => x \in added',
               \A u \in UserIds, e \in Entries :
                 Copies(users_to_visits_, u, e)' > 0
                   => Copies(users_to_visits_, u, e) > 0 \/ e[2] \in added'
        PROVE  ListedAdded'
    <2>1. ASSUME NEW u \in UserIds, NEW e \in Entries, Copies(users_to_visits_, u, e)' > 0
          PROVE  e[2] \in added'
      <3>1. e[2] \in VisitIds
        BY DEF Entries
      <3>2. QED
        BY <1>0, <2>1, <3>1 DEF ListedAdded
    <2>2. QED
      BY <2>1 DEF ListedAdded
  <1>1. ASSUME UNCHANGED tracked
        PROVE  ListedAdded'
    BY <1>0, <1>1 DEF tracked, history, Copies
  <1>2. ASSUME NEW v \in VisitIds, NEW visit \in Visit, LoadVisit(v, visit)
        PROVE  ListedAdded'
    BY <1>0, <1>2, LoadedKnown DEF Copies
  <1>3. ASSUME NEW v \in VisitIds, NEW visit \in Visit, AddVisit(v, visit)
        PROVE  ListedAdded'
    <2> DEFINE pair == <<visit.visited_at, v>>
    <2>1. /\ users_to_visits_ \in Index(UserIds)
          /\ visit.user_id \in UserIds /\ pair \in Entries /\ pair[2] = v
      BY VisitLemma DEF TypeOK, Index
    <2>2. users_to_visits_' = EmplaceAt(users_to_visits_, visit.user_id, pair)
      BY <1>3 DEF AddVisit
    <2> HIDE DEF pair
    <2>3. \A u \in UserIds, e \in Entries :
            Copies(users_to_visits_', u, e) =
              IF u = visit.user_id /\ e = pair THEN Copies(users_to_visits_, u, e) + 1
              ELSE Copies(users_to_visits_, u, e)
      BY <2>1, <2>2, EmplaceLemma
    <2>4. ASSUME NEW u \in UserIds, NEW e \in Entries, Copies(users_to_visits_, u, e)' > 0
          PROVE  Copies(users_to_visits_, u, e) > 0 \/ e[2] \in added'
      <3>1. Copies(users_to_visits_', u, e) > 0
        BY <2>4 DEF Copies
      <3>2. e # pair => Copies(users_to_visits_, u, e) > 0
        BY <2>3, <3>1
      <3>3. QED
        BY <1>3, <2>1, <3>2, AddedKnown
    <2>5. QED
      BY <1>0, <1>3, <2>4, AddedKnown
  <1>4. ASSUME NEW v \in VisitIds, NEW update \in Changes, v \in added, visits_[v] # None,
               \A x \in VisitIds : x \in added => x \in added',
               \/ users_to_visits_' = users_to_visits_
               \/ users_to_visits_' \in
                    UserIndexesAfter(v, visits_[v], UpdatedVisit(visits_[v], update))
        PROVE  ListedAdded'
    <2> DEFINE visit == visits_[v]
               updated == UpdatedVisit(visit, update)
               pair == <<updated.visited_at, v>>
    <2>1. visit \in Visit /\ updated \in Visit
      BY <1>4, UpdatedVisitLemma
    <2> HIDE DEF updated
    <2>2. pair \in Entries /\ pair[2] = v
      BY <2>1, VisitLemma
    <2>3. CASE users_to_visits_' = users_to_visits_
      BY <1>0, <1>4, <2>3 DEF Copies
    <2>4. CASE users_to_visits_' \in UserIndexesAfter(v, visit, updated)
      <3>1. IF updated.user_id = visit.user_id THEN users_to_visits_' = users_to_visits_
            ELSE \E e \in Entries :
                   /\ e[1] = visit.visited_at
                   /\ Copies(users_to_visits_, visit.user_id, e) > 0
                   /\ \A u \in UserIds, x \in Entries :
                        Copies(users_to_visits_', u, x) =
                          (IF u = visit.user_id /\ x = e
                           THEN Copies(users_to_visits_, u, x) - 1
                           ELSE Copies(users_to_visits_, u, x))
                          + (IF u = updated.user_id /\ x = pair THEN 1 ELSE 0)
        BY <2>1, <2>4, UserIndexesLemma
      <3> HIDE DEF pair
      <3>2. ASSUME NEW u \in UserIds, NEW x \in Entries, Copies(users_to_visits_, u, x)' > 0
            PROVE  Copies(users_to_visits_, u, x) > 0 \/ x[2] \in added'
        <4>1. Copies(users_to_visits_', u, x) > 0
          BY <3>2 DEF Copies
        <4>2. Copies(users_to_visits_, u, x) \in Nat
          BY CopiesLemma DEF TypeOK, Index
        <4>3. x # pair => Copies(users_to_visits_, u, x) > 0
          BY <3>1, <4>1, <4>2
        <4>4. QED
          BY <1>4, <2>2, <4>3
      <3>3. QED
        BY <1>0, <1>4, <3>2
    <2>5. QED
      BY <1>4, <2>3, <2>4 DEF updated
  <1>5. ASSUME NEW v \in VisitIds, NEW update \in Changes, UpdateVisit(v, update)
        PROVE  ListedAdded'
    <2>1. v \in added /\ visits_[v] # None /\ \A x \in VisitIds : x \in added => x \in added'
      BY <1>5, UpdatedKnown DEF Paired
    <2>2. users_to_visits_' \in UserIndexesAfter(v, visits_[v], UpdatedVisit(visits_[v], update))
      BY <1>5 DEF UpdateVisit
    <2>3. QED
      BY <1>4, <2>1, <2>2
  <1>6. ASSUME NEW v \in VisitIds, NEW update \in Changes, UpdateVisitHalfway(v, update)
        PROVE  ListedAdded'
    <2>1. v \in added /\ visits_[v] # None /\ \A x \in VisitIds : x \in added => x \in added'
      BY <1>6, HalfwayKnown DEF UpdateVisitHalfway, Indexed, Paired
    <2>2. \/ users_to_visits_' = users_to_visits_
          \/ users_to_visits_' \in
               UserIndexesAfter(v, visits_[v], UpdatedVisit(visits_[v], update))
      BY <1>6 DEF UpdateVisitHalfway
    <2>3. QED
      BY <1>4, <2>1, <2>2
  <1>7. QED
    BY <1>1, <1>2, <1>3, <1>5, <1>6, NextLemma, QuietLemma

\* Nothing is listed that was not added.
LEMMA ListedCorrect == Spec => []ListedAdded
  <1>1. Init => ListedAdded
    BY DEF Init, ListedAdded, Copies
  <1>2. QED
    BY <1>1, EntriesStep, PairedCorrect, TypeCorrect, PTL DEF Spec

\* No query looks up a visit, or an entry of a visit, that is not there.
THEOREM EntriesCorrect == Spec => []EntriesKnown
  <1>1. ASSUME TypeOK, Paired, LocationIndexExact, ListedAdded
        PROVE  EntriesKnown
    <2>1. ASSUME NEW e \in Entries,
                 \/ \E u \in UserIds : Copies(users_to_visits_, u, e) > 0
                 \/ \E l \in LocationIds : Copies(locations_to_visits_, l, e) > 0
          PROVE  e[2] \in added
      <3>1. CASE \E u \in UserIds : Copies(users_to_visits_, u, e) > 0
        BY <1>1, <3>1 DEF ListedAdded
      <3>2. CASE \E l \in LocationIds : Copies(locations_to_visits_, l, e) > 0
        <4>1. PICK t \in Timestamps, v \in VisitIds : e = <<t, v>>
          BY DEF Entries
        <4>2. PICK l \in LocationIds : Copies(locations_to_visits_, l, <<t, v>>) > 0
          BY <3>2, <4>1
        <4>3. v \in added
          BY <1>1, <4>2 DEF LocationIndexExact
        <4>4. QED
          BY <4>1, <4>3
      <3>3. QED
        BY <2>1, <3>1, <3>2
    <2>2. \A e \in Entries : e[2] \in VisitIds
      BY DEF Entries
    <2>3. QED
      BY <1>1, <2>1, <2>2 DEF EntriesKnown, Paired
  <1>2. QED
    BY <1>1, ListedCorrect, LocationIndexCorrect, PairedCorrect, TypeCorrect, PTL

(***************************************************************************)
(* The users' side, as long as times tell a user's visits apart.           *)
(***************************************************************************)
\* The history is true to its name: no two visits of a user share a time.
Apart == timely => \A v \in VisitIds : v \in added => ~SharesTime(v, visits_[v])

\* What holds together as long as the history is good.
InTime == UserIndexExact /\ Apart /\ MapsAgree

\* A visit that is not known shares no time with others, whatever the step adds.
LEMMA ApartStep ==
  ASSUME NEW v \in VisitIds, NEW visit, Apart, added \subseteq VisitIds,
         added' \subseteq VisitIds, timely' => Timely(v, visit),
         v \in added' => visits_'[v] = visit,
         \A x \in VisitIds \ {v} : (x \in added' <=> x \in added) /\ visits_'[x] = visits_[x]
  PROVE  Apart'
  <1>1. ASSUME timely', NEW x \in VisitIds, x \in added',
               NEW y \in VisitIds \ {x}, y \in added',
               visits_'[y].user_id = visits_'[x].user_id,
               visits_'[y].visited_at = visits_'[x].visited_at
        PROVE  FALSE
    <2>1. timely /\ ~SharesTime(v, visit)
      BY <1>1 DEF Timely
    <2>2. CASE x = v
      BY <1>1, <2>1, <2>2 DEF SharesTime
    <2>3. CASE y = v
      BY <1>1, <2>1, <2>3 DEF SharesTime
    <2>4. CASE x # v /\ y # v
      BY <1>1, <2>1, <2>4 DEF SharesTime, Apart
    <2>5. QED
      BY <2>2, <2>3, <2>4
  <1>2. QED
    BY <1>1 DEF Apart, SharesTime

\* A step that leaves the users' side and the visits that are known alone.
LEMMA SameInTime ==
  ASSUME InTime, timely' => timely, UNCHANGED users_to_visits_,
         added \subseteq VisitIds, added' \subseteq VisitIds,
         \A x \in VisitIds :
           /\ x \in added' <=> x \in added
           /\ x \in added => /\ visits_'[x] = visits_[x]
                          /\ visits_to_user_'[x] = visits_to_user_[x]
                          /\ visits_to_locations_'[x] = visits_to_locations_[x]
  PROVE  InTime'
  <1>1. ASSUME timely', NEW u \in UserIds, NEW t \in Timestamps, NEW x \in VisitIds
        PROVE  Copies(users_to_visits_, u, <<t, x>>)' =
                 IF (x \in added /\ visits_[x].user_id = u /\ visits_[x].visited_at = t)'
                 THEN 1 ELSE 0
    <2>1. Copies(users_to_visits_, u, <<t, x>>)' = Copies(users_to_visits_, u, <<t, x>>)
      BY DEF Copies
    <2>2. Copies(users_to_visits_, u, <<t, x>>) =
            IF x \in added /\ visits_[x].user_id = u /\ visits_[x].visited_at = t THEN 1 ELSE 0
      BY <1>1 DEF InTime, UserIndexExact
    <2>3. QED
      BY <2>1, <2>2
  <1>2. UserIndexExact'
    BY <1>1 DEF UserIndexExact
  <1>3. Apart'
    BY DEF InTime, Apart, SharesTime
  <1>4. MapsAgree'
    BY DEF InTime, MapsAgree
  <1>5. QED
    BY <1>2, <1>3, <1>4 DEF InTime

\* An update that is refused half-way has found no visit of the time among its
\* user's, and changes no more than the two maps' entries of the visit.
LEMMA HalfwayLemma ==
  ASSUME TypeOK, Paired, LocationIndexExact, InTime,
         NEW v \in VisitIds, NEW update \in Changes, UpdateVisitHalfway(v, update)
  PROVE  /\ ~timely /\ Unlisted(v)
         /\ UNCHANGED <<containers, users_to_visits_, locations_to_visits_,
                        locations_to_users_>>
  <1> DEFINE visit == visits_[v]
             updated == UpdatedVisit(visit, update)
             pair == <<visit.visited_at, v>>
  <1>1. v \in added /\ visits_to_user_[v] # None
    BY DEF UpdateVisitHalfway, Indexed, Paired
  <1>2. visit.location_id \in LocationIds /\ visit.user_id \in UserIds /\ pair \in Entries
        /\ visit.visited_at \in Timestamps
    BY <1>1, UpdatedVisitLemma, VisitLemma DEF Paired
  <1>3. Copies(locations_to_visits_, visit.location_id, pair) = 1
    BY <1>1, <1>2 DEF LocationIndexExact
  <1>4. locations_to_visits_[visit.location_id] # None
    BY <1>3 DEF Copies
  <1>5. Missing(v, visit, updated)
    BY DEF UpdateVisitHalfway
  <1> HIDE DEF updated
  <1>6. UserIndexesAfter(v, visit, updated) = {}
    BY <1>1, <1>4, <1>5 DEF Missing
  <1>7. Unlisted(v)
    <2>1. ASSUME NEW e \in Entries, e[1] = visit.visited_at,
                 Copies(users_to_visits_, visit.user_id, e) # 0
          PROVE  FALSE
      <3>1. Copies(users_to_visits_, visit.user_id, e) \in Nat
        BY <1>2, CopiesLemma DEF TypeOK, Index
      <3>2. Copies(users_to_visits_, visit.user_id, e) > 0
        BY <2>1, <3>1
      <3>3. updated.user_id # visit.user_id
        BY <1>6 DEF UserIndexesAfter
      <3>4. EmplaceAt([users_to_visits_ EXCEPT ![visit.user_id][e] = @ - 1],
                      updated.user_id, <<updated.visited_at, v>>)
              \in UserIndexesAfter(v, visit, updated)
        BY <2>1, <3>2, <3>3 DEF UserIndexesAfter
      <3>5. QED
        BY <1>6, <3>4
    <2>2. QED
      BY <2>1 DEF Unlisted
  <1>8. ~timely
    <2>1. timely => Copies(users_to_visits_, visit.user_id, pair) = 1
      BY <1>1, <1>2 DEF InTime, UserIndexExact
    <2>2. Copies(users_to_visits_, visit.user_id, pair) = 0
      BY <1>2, <1>7 DEF Unlisted
    <2>3. QED
      BY <2>1, <2>2
  <1>9. UNCHANGED <<containers, users_to_visits_, locations_to_visits_, locations_to_users_>>
    BY <1>6 DEF UpdateVisitHalfway, updated
  <1>10. QED
    BY <1>7, <1>8, <1>9

\* An added visit comes in under its user and time.
LEMMA AddInTime ==
  ASSUME TypeOK, TypeOK', Paired, InTime, NEW v \in VisitIds, NEW visit \in Visit, AddVisit(v, visit)
  PROVE  InTime'
  <1> DEFINE pair == <<visit.visited_at, v>>
  <1>1. /\ users_to_visits_ \in Index(UserIds)
        /\ visit.user_id \in UserIds /\ pair \in Entries
    BY VisitLemma DEF TypeOK, Index
  <1>2. /\ users_to_visits_' = EmplaceAt(users_to_visits_, visit.user_id, pair)
        /\ timely' = Timely(v, visit)
    BY DEF AddVisit
  <1>3. timely' => timely
    BY <1>2 DEF Timely
  <1>4. ASSUME timely', NEW u \in UserIds, NEW t \in Timestamps, NEW x \in VisitIds
        PROVE  Copies(users_to_visits_, u, <<t, x>>)' =
                 IF (x \in added /\ visits_[x].user_id = u /\ visits_[x].visited_at = t)'
                 THEN 1 ELSE 0
    <2> DEFINE e == <<t, x>>
    <2>1. e \in Entries /\ (e = pair <=> t = visit.visited_at /\ x = v)
      BY DEF Entries
    <2>2. Copies(users_to_visits_, u, e) =
            IF x \in added /\ visits_[x].user_id = u /\ visits_[x].visited_at = t THEN 1 ELSE 0
      BY <1>3, <1>4 DEF InTime, UserIndexExact
    <2> HIDE DEF e, pair
    <2>3. Copies(users_to_visits_', u, e) =
            IF u = visit.user_id /\ e = pair THEN Copies(users_to_visits_, u, e) + 1
            ELSE Copies(users_to_visits_, u, e)
      BY <1>1, <1>2, <2>1, EmplaceLemma
    <2>4. Copies(users_to_visits_', u, e) =
            IF (x \in added /\ visits_[x].user_id = u /\ visits_[x].visited_at = t)' THEN 1 ELSE 0
      BY <2>1, <2>2, <2>3, AddedKnown
    <2>5. QED
      BY <2>4 DEF Copies, e
  <1>5. UserIndexExact'
    BY <1>4 DEF UserIndexExact
  <1>6. Apart'
    <2>1. timely' => Timely(v, visit)
      BY <1>2
    <2>2. QED
      BY <2>1, ApartStep, AddedKnown, AddedAreVisits DEF InTime
  <1>7. MapsAgree'
    BY <1>3, AddedKnown, AddedAreVisits DEF InTime, MapsAgree
  <1>8. QED
    BY <1>5, <1>6, <1>7 DEF InTime

\* An update takes the visit's own pair out, for no other of the user's has its
\* time.
LEMMA UpdateInTime ==
  ASSUME TypeOK, TypeOK', Paired, InTime, NEW v \in VisitIds, NEW update \in Changes,
         UpdateVisit(v, update)
  PROVE  InTime'
  <1> DEFINE visit == visits_[v]
             updated == UpdatedVisit(visit, update)
             old == <<visit.visited_at, v>>
             new == <<updated.visited_at, v>>
  <1>1. /\ v \in added /\ v \in added' /\ visits_'[v] = updated
        /\ visits_to_user_'[v] = updated.user_id
        /\ visits_to_locations_'[v] = updated.location_id
        /\ \A x \in VisitIds \ {v} :
             /\ (x \in added' <=> x \in added) /\ visits_'[x] = visits_[x]
             /\ visits_to_user_'[x] = visits_to_user_[x]
             /\ visits_to_locations_'[x] = visits_to_locations_[x]
    BY UpdatedKnown
  <1>2. /\ visit \in Visit /\ updated \in Visit
    BY <1>1, UpdatedVisitLemma DEF Paired
  <1>3. /\ users_to_visits_' \in UserIndexesAfter(v, visit, updated)
        /\ timely' = Timely(v, updated)
    BY DEF UpdateVisit
  <1> HIDE DEF updated
  <1>4. timely' => timely
    BY <1>3 DEF Timely
  <1>5. IF updated.user_id = visit.user_id THEN users_to_visits_' = users_to_visits_
        ELSE \E e \in Entries :
               /\ e[1] = visit.visited_at
               /\ Copies(users_to_visits_, visit.user_id, e) > 0
               /\ \A u \in UserIds, x \in Entries :
                    Copies(users_to_visits_', u, x) =
                      (IF u = visit.user_id /\ x = e
                       THEN Copies(users_to_visits_, u, x) - 1
                       ELSE Copies(users_to_visits_, u, x))
                      + (IF u = updated.user_id /\ x = new THEN 1 ELSE 0)
    BY <1>2, <1>3, UserIndexesLemma
  <1>6. ASSUME timely, NEW e \in Entries, e[1] = visit.visited_at,
               Copies(users_to_visits_, visit.user_id, e) > 0
        PROVE  e = old
    <2>1. PICK t \in Timestamps, x \in VisitIds : e = <<t, x>>
      BY DEF Entries
    <2>2. visit.user_id \in UserIds
      BY <1>2, VisitLemma
    <2>3. Copies(users_to_visits_, visit.user_id, <<t, x>>) =
            IF x \in added /\ visits_[x].user_id = visit.user_id /\ visits_[x].visited_at = t
            THEN 1 ELSE 0
      BY <1>6, <2>2 DEF InTime, UserIndexExact
    <2>4. x \in added /\ visits_[x].user_id = visit.user_id /\ visits_[x].visited_at = t
      BY <1>6, <2>1, <2>3
    <2>5. t = visit.visited_at
      BY <1>6, <2>1
    <2>6. x = v
      BY <1>1, <1>6, <2>4, <2>5 DEF InTime, Apart, SharesTime
    <2>7. QED
      BY <2>1, <2>5, <2>6
  <1>7. ASSUME timely', NEW u \in UserIds, NEW t \in Timestamps, NEW x \in VisitIds
        PROVE  Copies(users_to_visits_, u, <<t, x>>)' =
                 IF (x \in added /\ visits_[x].user_id = u /\ visits_[x].visited_at = t)'
                 THEN 1 ELSE 0
    <2> DEFINE e == <<t, x>>
    <2>1. /\ e \in Entries /\ (e = old <=> t = visit.visited_at /\ x = v)
          /\ (e = new <=> t = updated.visited_at /\ x = v)
      BY DEF Entries
    <2>2. Copies(users_to_visits_, u, e) =
            IF x \in added /\ visits_[x].user_id = u /\ visits_[x].visited_at = t THEN 1 ELSE 0
      BY <1>4, <1>7 DEF InTime, UserIndexExact
    <2> HIDE DEF e, old, new
    <2>3. CASE updated.user_id = visit.user_id
      <3>1. updated.visited_at = visit.visited_at
        BY <1>1, <1>3, <1>7, <2>3 DEF Timely
      <3>2. Copies(users_to_visits_', u, e) = Copies(users_to_visits_, u, e)
        BY <1>5, <2>3
      <3>3. Copies(users_to_visits_', u, e) =
              IF (x \in added /\ visits_[x].user_id = u /\ visits_[x].visited_at = t)'
              THEN 1 ELSE 0
        BY <1>1, <2>2, <2>3, <3>1, <3>2
      <3>4. QED
        BY <3>3 DEF Copies, e
    <2>4. CASE updated.user_id # visit.user_id
      <3>1. Copies(users_to_visits_', u, e) =
              (IF u = visit.user_id /\ e = old THEN Copies(users_to_visits_, u, e) - 1
               ELSE Copies(users_to_visits_, u, e))
              + (IF u = updated.user_id /\ e = new THEN 1 ELSE 0)
        BY <1>4, <1>5, <1>6, <1>7, <2>1, <2>4
      <3>2. Copies(users_to_visits_', u, e) =
              IF (x \in added /\ visits_[x].user_id = u /\ visits_[x].visited_at = t)'
              THEN 1 ELSE 0
        <4>1. CASE x = v
          BY <1>1, <2>1, <2>2, <2>4, <3>1, <4>1
        <4>2. CASE x # v
          BY <1>1, <2>1, <2>2, <3>1, <4>2
        <4>3. QED
          BY <4>1, <4>2
      <3>3. QED
        BY <3>2 DEF Copies, e
    <2>5. QED
      BY <2>3, <2>4
  <1>8. UserIndexExact'
    BY <1>7 DEF UserIndexExact
  <1>9. Apart'
    <2>1. timely' => Timely(v, updated)
      BY <1>3
    <2>2. QED
      BY <1>1, <2>1, ApartStep, AddedAreVisits DEF InTime
  <1>10. MapsAgree'
    BY <1>1, <1>4, AddedAreVisits DEF InTime, MapsAgree
  <1>11. QED
    BY <1>8, <1>9, <1>10 DEF InTime

\* Every step keeps the users' side exact as long as the history stays good.
LEMMA InTimeStep ==
  ASSUME TypeOK, TypeOK', Paired, LocationIndexExact, InTime, [Next]_vars
  PROVE  InTime'
  <1>1. CASE UNCHANGED tracked
    <2>1. /\ timely' => timely
          /\ UNCHANGED users_to_visits_
          /\ \A x \in VisitIds :
               /\ x \in added' <=> x \in added
               /\ x \in added => /\ visits_'[x] = visits_[x]
                              /\ visits_to_user_'[x] = visits_to_user_[x]
                              /\ visits_to_locations_'[x] = visits_to_locations_[x]
      BY <1>1 DEF tracked, history
    <2>2. QED
      BY <2>1, SameInTime, AddedAreVisits
  <1>2. ASSUME NEW v \in VisitIds, NEW visit \in Visit, LoadVisit(v, visit)
        PROVE  InTime'
    BY <1>2, LoadedKnown, SameInTime, AddedAreVisits
  <1>3. ASSUME NEW v \in VisitIds, NEW update \in Changes, UpdateVisitHalfway(v, update)
        PROVE  InTime'
    <2>1. ~timely /\ timely' = timely
      BY <1>3, HalfwayLemma, HalfwayKnown DEF TypeOK
    <2>2. QED
      BY <2>1 DEF InTime, UserIndexExact, Apart, MapsAgree
  <1>4. QED
    BY <1>1, <1>2, <1>3, AddInTime, UpdateInTime, NextLemma, QuietLemma

\* The users' side is exact after any calls that keep the history good.
LEMMA InTimeCorrect == Spec => []InTime
  <1>1. Init => InTime
    BY DEF Init, InTime, UserIndexExact, Apart, MapsAgree, Copies
  <1>2. QED
    BY <1>1, InTimeStep, PairedCorrect, LocationIndexCorrect, TypeCorrect, PTL DEF Spec

\* As long as a user's visits have times of their own and no update changes the
\* time alone, each visit is listed once, under its user and its time.
THEOREM UserIndexCorrect == Spec => []UserIndexExact
  <1>1. InTime => UserIndexExact
    BY DEF InTime
  <1>2. QED
    BY <1>1, InTimeCorrect, PTL

\* Under the same condition the maps say of a visit's location and user what
\* the visit says.
THEOREM MapsCorrect == Spec => []MapsAgree
  <1>1. InTime => MapsAgree
    BY DEF InTime
  <1>2. QED
    BY <1>1, InTimeCorrect, PTL

(***************************************************************************)
(* Refusals.                                                               *)
(***************************************************************************)
\* Nothing is refused while the data files are read.
NothingRefusedYet == phase = "Loading" => answer = <<"Loaded">>

\* Every step keeps it.
LEMMA NothingRefusedStep ==
  ASSUME TypeOK, NothingRefusedYet, [Next]_vars
  PROVE  NothingRefusedYet'
  <1>1. CASE Loads
    BY <1>1 DEF Loads, LoadUser, LoadLocation, Loaded, NothingRefusedYet
  <1>2. CASE Stops
    BY <1>2 DEF Stops, UpdateVisitOfUnknownUser, ListHangs, AverageUndefined, Stop,
       NothingRefusedYet
  <1>3. CASE Edits
    BY <1>3 DEF Edits, AddUser, AddLocation, UpdateUser, UpdateLocation, AddKnownVisit,
       UpdateUnknownVisit, Reply, NothingRefusedYet
  <1>4. CASE Gets
    BY <1>4 DEF Gets, GetEntityById, GetVisistsByUserId, GetAverageLocationMark, Get, Reply,
       NothingRefusedYet
  <1>5. ASSUME NEW v \in VisitIds, NEW visit \in Visit, LoadVisit(v, visit)
        PROVE  NothingRefusedYet'
    BY <1>5 DEF LoadVisit, NothingRefusedYet
  <1>6. ASSUME NEW v \in VisitIds, NEW visit \in Visit, AddVisit(v, visit)
        PROVE  NothingRefusedYet'
    BY <1>6 DEF AddVisit, Reply, NothingRefusedYet
  <1>7. ASSUME NEW v \in VisitIds, NEW update \in Changes,
               UpdateVisit(v, update) \/ UpdateVisitHalfway(v, update)
        PROVE  NothingRefusedYet'
    <2>1. phase = "Serving" /\ phase' = phase
      BY <1>7 DEF UpdateVisit, UpdateVisitHalfway, Reply
    <2>2. QED
      BY <2>1 DEF NothingRefusedYet
  <1>8. CASE UNCHANGED vars
    BY <1>8 DEF vars, NothingRefusedYet
  <1>9. QED
    BY <1>1, <1>2, <1>3, <1>4, <1>5, <1>6, <1>7, <1>8, NextLemma

\* A step that answers EntityNotFound leaves the entities and the multimaps, and
\* the maps too unless it is an update refused half-way.
LEMMA RefusalLemma ==
  ASSUME TypeOK, Paired, LocationIndexExact, InTime, NothingRefusedYet, [Next]_vars,
         answer' = EntityNotFound
  PROVE  /\ UNCHANGED <<containers, users_to_visits_, locations_to_visits_,
                        locations_to_users_>>
         /\ \A x \in VisitIds :
              \/ visits_to_locations_'[x] # visits_to_locations_[x]
              \/ visits_to_user_'[x] # visits_to_user_[x]
              => ~timely /\ Unlisted(x)
  <1>0. ASSUME UNCHANGED <<containers, indexes>>
        PROVE  /\ UNCHANGED <<containers, users_to_visits_, locations_to_visits_,
                              locations_to_users_, visits_to_locations_, visits_to_user_>>
    BY <1>0 DEF indexes
  <1>1. CASE Loads
    <2>1. answer' = <<"Loaded">>
      BY <1>1 DEF Loads, LoadUser, LoadLocation, Loaded, NothingRefusedYet
    <2>2. QED
      BY <2>1 DEF EntityNotFound
  <1>2. CASE Stops
    BY <1>0, <1>2 DEF Stops, UpdateVisitOfUnknownUser, ListHangs, AverageUndefined, Stop
  <1>3. CASE Edits
    <2>1. UNCHANGED <<users_, locations_, locations_to_users_>>
      BY <1>3 DEF Edits, AddUser, AddLocation, UpdateUser, UpdateLocation, AddKnownVisit,
         UpdateUnknownVisit, Reply, EntityNotFound, EntityAlreadyExist,
         EntitySuccessfullyAdded, EntitySuccessfullyUpdated, containers, indexes
    <2>2. UNCHANGED tracked
      BY <1>3, QuietLemma
    <2>3. QED
      BY <2>1, <2>2 DEF tracked, containers
  <1>4. CASE Gets
    BY <1>0, <1>4 DEF Gets, GetEntityById, GetVisistsByUserId, GetAverageLocationMark, Get
  <1>5. ASSUME NEW v \in VisitIds, NEW visit \in Visit, LoadVisit(v, visit)
        PROVE  FALSE
    <2>1. answer' = <<"Loaded">>
      BY <1>5 DEF LoadVisit, NothingRefusedYet
    <2>2. QED
      BY <2>1 DEF EntityNotFound
  <1>6. ASSUME NEW v \in VisitIds, NEW visit \in Visit, AddVisit(v, visit)
        PROVE  FALSE
    <2>1. answer' = EntitySuccessfullyAdded
      BY <1>6 DEF AddVisit, Reply
    <2>2. QED
      BY <2>1 DEF EntityNotFound, EntitySuccessfullyAdded
  <1>7. ASSUME NEW v \in VisitIds, NEW update \in Changes, UpdateVisit(v, update)
        PROVE  FALSE
    <2>1. answer' = EntitySuccessfullyUpdated
      BY <1>7 DEF UpdateVisit, Reply
    <2>2. QED
      BY <2>1 DEF EntityNotFound, EntitySuccessfullyUpdated
  <1>8. CASE \E v \in VisitIds : \E update \in Changes : UpdateVisitHalfway(v, update)
    <2>1. PICK v \in VisitIds, update \in Changes : UpdateVisitHalfway(v, update)
      BY <1>8
    <2>2. /\ ~timely /\ Unlisted(v)
          /\ UNCHANGED <<containers, users_to_visits_, locations_to_visits_,
                         locations_to_users_>>
      BY <2>1, HalfwayLemma
    <2>3. \A x \in VisitIds \ {v} :
            /\ visits_to_user_'[x] = visits_to_user_[x]
            /\ visits_to_locations_'[x] = visits_to_locations_[x]
      BY <2>1, HalfwayKnown
    <2>4. QED
      BY <2>2, <2>3
  <1>9. CASE UNCHANGED vars
    BY <1>0, <1>9 DEF vars
  <1>10. QED
    BY <1>1, <1>2, <1>3, <1>4, <1>5, <1>6, <1>7, <1>8, <1>9, NextLemma

\* A refused call leaves the entities and all the multimaps alone.  It may leave
\* new entries in the two maps, of a visit only that is not found in its user's
\* multimap, and none as long as times tell a user's visits apart.
THEOREM RefusalsCorrect == Spec => RefusedLeavesLists
  <1>1. Init => NothingRefusedYet
    BY DEF Init, NothingRefusedYet
  <1>2. TypeOK /\ Paired /\ LocationIndexExact /\ InTime /\ NothingRefusedYet /\ [Next]_vars
          => [answer' = EntityNotFound =>
                /\ UNCHANGED <<containers, users_to_visits_, locations_to_visits_,
                               locations_to_users_>>
                /\ \A v \in VisitIds :
                     \/ visits_to_locations_'[v] # visits_to_locations_[v]
                     \/ visits_to_user_'[v] # visits_to_user_[v]
                     => ~timely /\ Unlisted(v)]_vars
    BY RefusalLemma
  <1>3. QED
    BY <1>1, <1>2, NothingRefusedStep, InTimeCorrect, PairedCorrect, LocationIndexCorrect,
       TypeCorrect, PTL DEF Spec, RefusedLeavesLists

(***************************************************************************)
(* Answers.                                                                *)
(***************************************************************************)
\* What the filters of a list leave of a pair.
LEMMA ListFiltersLemma ==
  ASSUME NEW multimap, NEW query, NEW e \in Entries
  PROVE  /\ Dated(multimap, query)[e] = IF InDates(query, e[1]) THEN multimap[e] ELSE 0
         /\ InCountry(multimap, query)[e] =
              IF \/ query.country = NoText
                 \/ LocationOf(e[2]) # None /\ LocationOf(e[2]).country = query.country
              THEN multimap[e] ELSE 0
         /\ Near(multimap, query)[e] =
              IF \/ query.to_distance = MaxDistance
                 \/ LocationOf(e[2]) # None /\ LocationOf(e[2]).distance < query.to_distance
              THEN multimap[e] ELSE 0
         /\ Written(multimap)[e] =
              IF visits_[e[2]] # None /\ locations_[visits_[e[2]].location_id] # None
              THEN multimap[e] ELSE 0
  <1>1. Dated(multimap, query)[e] = IF InDates(query, e[1]) THEN multimap[e] ELSE 0
    BY DEF Dated, Keep
  <1>2. InCountry(multimap, query)[e] =
          IF \/ query.country = NoText
             \/ LocationOf(e[2]) # None /\ LocationOf(e[2]).country = query.country
          THEN multimap[e] ELSE 0
    BY DEF InCountry, Keep
  <1>3. Near(multimap, query)[e] =
          IF \/ query.to_distance = MaxDistance
             \/ LocationOf(e[2]) # None /\ LocationOf(e[2]).distance < query.to_distance
          THEN multimap[e] ELSE 0
    BY DEF Near, Keep
  <1>4. Written(multimap)[e] =
          IF visits_[e[2]] # None /\ locations_[visits_[e[2]].location_id] # None
          THEN multimap[e] ELSE 0
    BY DEF Written, Keep
  <1>5. QED
    BY <1>1, <1>2, <1>3, <1>4

\* A list entry that is there, its copies, and where its visit went.
LEMMA ListedLemma ==
  ASSUME TypeOK, Paired, InTime, timely,
         NEW u \in UserIds, NEW t \in Timestamps, NEW v \in VisitIds
  PROVE  LET here == v \in added /\ visits_[v].user_id = u /\ visits_[v].visited_at = t
         IN /\ Copies(users_to_visits_, u, <<t, v>>) = IF here THEN 1 ELSE 0
            /\ here => /\ visits_[v] # None
                       /\ visits_to_locations_[v] # None
                       /\ LocationOf(v) = locations_[visits_[v].location_id]
  <1> DEFINE here == v \in added /\ visits_[v].user_id = u /\ visits_[v].visited_at = t
  <1>1. Copies(users_to_visits_, u, <<t, v>>) = IF here THEN 1 ELSE 0
    BY DEF InTime, UserIndexExact
  <1>2. here => /\ visits_[v] # None
                /\ visits_to_locations_[v] # None
                /\ visits_to_locations_[v] = visits_[v].location_id
    BY DEF Paired, InTime, MapsAgree
  <1>3. QED
    BY <1>1, <1>2 DEF LocationOf

\* What is written is what the client would have counted of the added visits.
LEMMA ListExact ==
  ASSUME TypeOK, Paired, InTime, timely,
         NEW u \in UserIds, NEW query, users_to_visits_[u] # None
  PROVE  Written(Thinned(u, query)) = OfAdded(TrueList(u, query))
  <1>1. ASSUME NEW e \in Entries
        PROVE  Written(Thinned(u, query))[e] = OfAdded(TrueList(u, query))[e]
    <2>1. PICK t \in Timestamps, v \in VisitIds : e = <<t, v>>
      BY DEF Entries
    <2> DEFINE copies == users_to_visits_[u][e]
               location == locations_[visits_[v].location_id]
               here == v \in added /\ visits_[v].user_id = u /\ visits_[v].visited_at = t
    <2>2. /\ copies = IF here THEN 1 ELSE 0
          /\ here => visits_[v] # None /\ LocationOf(v) = location
      BY <2>1, ListedLemma DEF Copies
    <2>3. Written(Thinned(u, query))[e] =
            IF /\ visits_[v] # None /\ location # None
               /\ \/ query.to_distance = MaxDistance
                  \/ LocationOf(v) # None /\ LocationOf(v).distance < query.to_distance
               /\ \/ query.country = NoText
                  \/ LocationOf(v) # None /\ LocationOf(v).country = query.country
               /\ InDates(query, t)
            THEN copies ELSE 0
      <3> DEFINE dated == Dated(users_to_visits_[u], query)
                 domestic == InCountry(dated, query)
                 near == Near(domestic, query)
      <3>1. e[1] = t /\ e[2] = v
        BY <2>1
      <3>2. dated[e] = IF InDates(query, t) THEN copies ELSE 0
        BY <3>1, ListFiltersLemma
      <3>3. domestic[e] = IF \/ query.country = NoText
                             \/ LocationOf(v) # None /\ LocationOf(v).country = query.country
                          THEN dated[e] ELSE 0
        BY <3>1, ListFiltersLemma
      <3>4. near[e] = IF \/ query.to_distance = MaxDistance
                         \/ LocationOf(v) # None /\ LocationOf(v).distance < query.to_distance
                      THEN domestic[e] ELSE 0
        BY <3>1, ListFiltersLemma
      <3>5. Written(near)[e] = IF visits_[v] # None /\ location # None THEN near[e] ELSE 0
        BY <3>1, ListFiltersLemma
      <3>6. Written(Thinned(u, query)) = Written(near)
        BY DEF Thinned
      <3> HIDE DEF dated, domestic, near, copies, location, here
      <3>7. QED
        BY <3>2, <3>3, <3>4, <3>5, <3>6
    <2>4. OfAdded(TrueList(u, query))[e] =
            IF /\ here /\ visits_[v] # None /\ location # None /\ InDates(query, t)
               /\ query.country # NoText => query.country = location.country
               /\ query.to_distance # MaxDistance => query.to_distance > location.distance
            THEN 1 ELSE 0
      BY <2>1 DEF TrueList, OfAdded, Keep
    <2>5. query.to_distance > location.distance <=> location.distance < query.to_distance
      OBVIOUS
    <2> HIDE DEF copies, location, here
    <2>6. QED
      BY <2>2, <2>3, <2>4, <2>5
  <1>2. /\ Written(Thinned(u, query)) = [e \in Entries |-> Written(Thinned(u, query))[e]]
        /\ OfAdded(TrueList(u, query)) = [e \in Entries |-> OfAdded(TrueList(u, query))[e]]
    BY DEF Written, OfAdded, Keep
  <1>3. QED
    BY <1>1, <1>2

\* A filter for places meets a visit of an unknown location when there is one.
LEMMA HangsExact ==
  ASSUME TypeOK, Paired, InTime, timely,
         NEW u \in UserIds, NEW query, users_[u] # None, users_to_visits_[u] # None
  PROVE  Hangs(u, query) <=> Stray(u, query) /\ AsksAboutPlaces(query)
  <1> DEFINE dated == Dated(users_to_visits_[u], query)
             domestic == InCountry(dated, query)
  <1>1. Endless(dated) <=> Stray(u, query)
    <2>1. ASSUME NEW t \in Timestamps, NEW v \in VisitIds
          PROVE  /\ dated[<<t, v>>] > 0
                 /\ visits_to_locations_[v] # None
                 /\ LocationOf(v) = None
                 <=> /\ v \in added
                     /\ visits_[v].user_id = u
                     /\ visits_[v].visited_at = t
                     /\ InDates(query, t)
                     /\ locations_[visits_[v].location_id] = None
      <3> DEFINE e == <<t, v>>
                 here == v \in added /\ visits_[v].user_id = u /\ visits_[v].visited_at = t
      <3>1. e \in Entries /\ e[1] = t
        BY DEF Entries
      <3>2. dated[e] = IF InDates(query, t) THEN users_to_visits_[u][e] ELSE 0
        BY <3>1, ListFiltersLemma
      <3>3. /\ users_to_visits_[u][e] = IF here THEN 1 ELSE 0
            /\ here => /\ visits_to_locations_[v] # None
                       /\ LocationOf(v) = locations_[visits_[v].location_id]
        BY ListedLemma DEF Copies
      <3> HIDE DEF dated, e
      <3>4. dated[e] > 0 <=> InDates(query, t) /\ here
        BY <3>2, <3>3
      <3>5. QED
        BY <3>3, <3>4 DEF e
    <2> HIDE DEF dated
    <2>2. Endless(dated) => Stray(u, query)
      <3>1. ASSUME NEW t \in Timestamps, NEW v \in VisitIds,
                   dated[<<t, v>>] > 0, visits_to_locations_[v] # None, LocationOf(v) = None
            PROVE  Stray(u, query)
        BY <2>1, <3>1 DEF Stray
      <3>2. QED
        BY <3>1 DEF Endless, Entries
    <2>3. ASSUME NEW v \in added, visits_[v].user_id = u,
                 InDates(query, visits_[v].visited_at),
                 locations_[visits_[v].location_id] = None
          PROVE  Endless(dated)
      <3>1. v \in VisitIds /\ visits_[v] \in Visit
        BY DEF TypeOK, Paired
      <3>2. <<visits_[v].visited_at, v>> \in Entries /\ visits_[v].visited_at \in Timestamps
        BY <3>1, VisitLemma
      <3>3. /\ dated[<<visits_[v].visited_at, v>>] > 0
            /\ visits_to_locations_[v] # None /\ LocationOf(v) = None
        BY <2>1, <2>3, <3>1, <3>2
      <3>4. QED
        BY <3>2, <3>3 DEF Endless
    <2>4. QED
      BY <2>2, <2>3 DEF Stray
  <1>2. query.country = NoText => domestic = dated
    BY DEF InCountry
  <1>3. query.country # NoText => ~Endless(domestic)
    <2>1. ASSUME query.country # NoText, NEW e \in Entries, domestic[e] > 0
          PROVE  LocationOf(e[2]) # None
      BY <2>1, ListFiltersLemma
    <2>2. QED
      BY <2>1 DEF Endless
  <1>4. Hangs(u, query) <=> \/ query.country # NoText /\ Endless(dated)
                            \/ query.to_distance # MaxDistance /\ Endless(domestic)
    BY DEF Hangs
  <1> HIDE DEF dated, domestic
  <1>5. QED
    BY <1>1, <1>2, <1>3, <1>4 DEF AsksAboutPlaces

\* The text of a list that ends.
LEMMA TextExact ==
  ASSUME TypeOK, Paired, InTime, timely,
         NEW u \in UserIds, NEW query, users_[u] # None, users_to_visits_[u] # None,
         ~Hangs(u, query)
  PROVE  ListText(u, query) =
           IF Stray(u, query) /\ ~Filled(OfAdded(TrueList(u, query)))
           THEN <<"Malformed">> ELSE <<"Visits", OfAdded(TrueList(u, query))>>
  <1> DEFINE thinned == Thinned(u, query)
             dated == Dated(users_to_visits_[u], query)
  <1>1. Written(thinned) = OfAdded(TrueList(u, query))
    BY ListExact
  <1>2. CASE Stray(u, query)
    <2>1. ~AsksAboutPlaces(query)
      BY <1>2, HangsExact
    <2>2. thinned = dated
      BY <2>1 DEF AsksAboutPlaces, Thinned, InCountry, Near
    <2>3. PICK v \in added : /\ visits_[v].user_id = u
                             /\ InDates(query, visits_[v].visited_at)
      BY <1>2 DEF Stray
    <2> DEFINE e == <<visits_[v].visited_at, v>>
    <2>4. v \in VisitIds /\ visits_[v] \in Visit
      BY DEF TypeOK, Paired
    <2>5. e \in Entries /\ visits_[v].visited_at \in Timestamps /\ e[1] = visits_[v].visited_at
      BY <2>4, VisitLemma
    <2>6. users_to_visits_[u][e] = 1
      BY <2>3, <2>4, <2>5, ListedLemma DEF Copies
    <2>7. dated[e] = users_to_visits_[u][e]
      BY <2>3, <2>5, ListFiltersLemma
    <2> HIDE DEF e, dated, thinned
    <2>8. Filled(thinned)
      BY <2>2, <2>5, <2>6, <2>7 DEF Filled
    <2>9. QED
      BY <1>1, <1>2, <2>8 DEF ListText, thinned
  <1>3. CASE ~Stray(u, query)
    <2>1. ASSUME NEW e \in Entries, thinned[e] > 0
          PROVE  Written(thinned)[e] > 0
      <3>1. PICK t \in Timestamps, v \in VisitIds : e = <<t, v>>
        BY DEF Entries
      <3> DEFINE domestic == InCountry(dated, query)
      <3>2. thinned = Near(domestic, query)
        BY DEF Thinned
      <3>3. domestic[e] > 0
        BY <2>1, <3>2, ListFiltersLemma
      <3>4. dated[e] > 0
        BY <3>3, ListFiltersLemma
      <3>5. InDates(query, t) /\ users_to_visits_[u][e] > 0
        BY <3>1, <3>4, ListFiltersLemma
      <3>6. v \in added /\ visits_[v].user_id = u /\ visits_[v].visited_at = t
            /\ visits_[v] # None
        BY <3>1, <3>5, ListedLemma DEF Copies
      <3>7. locations_[visits_[v].location_id] # None
        BY <1>3, <3>5, <3>6 DEF Stray
      <3>8. Written(thinned)[e] = thinned[e]
        BY <3>1, <3>6, <3>7, ListFiltersLemma
      <3>9. QED
        BY <2>1, <3>8
    <2> HIDE DEF thinned
    <2>2. Filled(thinned) => Filled(Written(thinned))
      BY <2>1 DEF Filled
    <2>3. QED
      BY <1>1, <1>3, <2>2 DEF ListText, thinned
  <1>4. QED
    BY <1>2, <1>3

\* A user without a multimap has nothing to list.
LEMMA NothingListed ==
  ASSUME TypeOK, Paired, InTime, timely,
         NEW u \in UserIds, NEW query, users_to_visits_[u] = None
  PROVE  ~Stray(u, query) /\ OfAdded(TrueList(u, query)) = NoEntries
  <1>1. ASSUME NEW v \in added
        PROVE  visits_[v].user_id # u
    <2>1. v \in VisitIds /\ visits_[v] \in Visit
      BY DEF TypeOK, Paired
    <2>2. visits_[v].visited_at \in Timestamps
      BY <2>1, VisitLemma
    <2>3. Copies(users_to_visits_, u, <<visits_[v].visited_at, v>>) =
            IF visits_[v].user_id = u THEN 1 ELSE 0
      BY <2>1, <2>2 DEF InTime, UserIndexExact
    <2>4. QED
      BY <2>3 DEF Copies
  <1>2. ASSUME NEW e \in Entries
        PROVE  OfAdded(TrueList(u, query))[e] = 0
    BY <1>1 DEF OfAdded, TrueList, Keep
  <1>3. OfAdded(TrueList(u, query)) = [e \in Entries |-> OfAdded(TrueList(u, query))[e]]
    BY DEF OfAdded, Keep
  <1>4. OfAdded(TrueList(u, query)) = NoEntries
    BY <1>2, <1>3 DEF NoEntries
  <1>5. QED
    BY <1>1, <1>4 DEF Stray

\* The marks that are averaged are those of the added visits the query asks for.
LEMMA MarksExact ==
  ASSUME TypeOK, Paired, LocationIndexExact, InTime, timely, NEW l \in LocationIds, NEW query
  PROVE  IF locations_to_visits_[l] = None
         THEN OfAdded(TrueMarks(l, query)) = NoEntries
         ELSE Marked(l, query) = OfAdded(TrueMarks(l, query))
  <1> DEFINE marked == OfAdded(TrueMarks(l, query))
  <1>1. ASSUME NEW e \in Entries
        PROVE  /\ locations_to_visits_[l] = None => marked[e] = 0
               /\ locations_to_visits_[l] # None => Marked(l, query)[e] = marked[e]
    <2>1. PICK t \in Timestamps, v \in VisitIds : e = <<t, v>>
      BY DEF Entries
    <2> DEFINE user == users_[visits_[v].user_id]
               here == v \in added /\ visits_[v].location_id = l /\ visits_[v].visited_at = t
    <2>2. Copies(locations_to_visits_, l, e) = IF here THEN 1 ELSE 0
      BY <2>1 DEF LocationIndexExact
    <2>3. here => visits_[v] # None /\ UserOf(v) = user
      BY DEF InTime, MapsAgree, UserOf, Paired
    <2>4. marked[e] =
            IF /\ here /\ visits_[v] # None /\ InDates(query, t)
               /\ AsksAboutUsers(query) => user # None /\ OfAgeAndGender(query, user)
            THEN 1 ELSE 0
      BY <2>1 DEF TrueMarks, OfAdded, Keep
    <2>5. CASE locations_to_visits_[l] = None
      <3>1. ~here
        BY <2>2, <2>5 DEF Copies
      <3> HIDE DEF here
      <3>2. QED
        BY <2>4, <2>5, <3>1
    <2>6. CASE locations_to_visits_[l] # None
      <3> DEFINE copies == locations_to_visits_[l][e]
      <3>1. copies = IF here THEN 1 ELSE 0
        BY <2>2, <2>6 DEF Copies
      <3>2. Marked(l, query)[e] =
              IF AsksAboutUsers(query) => UserOf(v) # None /\ OfAgeAndGender(query, UserOf(v))
              THEN IF InDates(query, t) THEN copies ELSE 0 ELSE 0
        <4>1. Dated(locations_to_visits_[l], query)[e] = IF InDates(query, t) THEN copies ELSE 0
          BY <2>1, ListFiltersLemma
        <4>2. QED
          BY <2>1, <4>1 DEF Marked, Keep
      <3> HIDE DEF copies, user, here, marked
      <3>3. QED
        BY <2>3, <2>4, <2>6, <3>1, <3>2
    <2>7. QED
      BY <2>5, <2>6
  <1>2. /\ marked = [e \in Entries |-> marked[e]]
        /\ Marked(l, query) = [e \in Entries |-> Marked(l, query)[e]]
    BY DEF Marked, OfAdded, Keep
  <1> HIDE DEF marked
  <1>3. locations_to_visits_[l] = None => marked = NoEntries
    BY <1>1, <1>2 DEF NoEntries
  <1>4. locations_to_visits_[l] # None => Marked(l, query) = marked
    BY <1>1, <1>2
  <1>5. QED
    BY <1>3, <1>4 DEF marked

\* As long as times tell a user's visits apart, a query answers with the added
\* visits it asks for, and with no visit that came from the data files; when it
\* is malformed, never ends or is 0/0, it is for a stray visit, or for want of
\* any visit to average.
THEOREM AnswersCorrect == Spec => []AnswersExact
  <1>1. ASSUME TypeOK, Paired, InTime, timely,
               NEW u \in UserIds, NEW query \in VisitQueries, users_[u] # None
        PROVE  LET listed == OfAdded(TrueList(u, query))
               IN /\ Hangs(u, query) <=> Stray(u, query) /\ AsksAboutPlaces(query)
                  /\ \/ Hangs(u, query)
                     \/ ListAnswer(u, query) =
                          IF Stray(u, query) /\ ~Filled(listed)
                          THEN <<"Malformed">> ELSE <<"Visits", listed>>
    <2>1. CASE users_to_visits_[u] = None
      <3>1. ~Hangs(u, query)
        BY <2>1 DEF Hangs
      <3>2. ListAnswer(u, query) = <<"Visits", NoEntries>>
        BY <1>1, <2>1 DEF ListAnswer
      <3>3. ~Stray(u, query) /\ OfAdded(TrueList(u, query)) = NoEntries
        BY <1>1, <2>1, NothingListed
      <3>4. QED
        BY <3>1, <3>2, <3>3
    <2>2. CASE users_to_visits_[u] # None
      <3>1. Hangs(u, query) <=> Stray(u, query) /\ AsksAboutPlaces(query)
        BY <1>1, <2>2, HangsExact
      <3>2. ~Hangs(u, query) =>
              ListText(u, query) =
                IF Stray(u, query) /\ ~Filled(OfAdded(TrueList(u, query)))
                THEN <<"Malformed">> ELSE <<"Visits", OfAdded(TrueList(u, query))>>
        BY <1>1, <2>2, TextExact
      <3>3. ListAnswer(u, query) = ListText(u, query)
        BY <1>1, <2>2 DEF ListAnswer
      <3>4. QED
        BY <3>1, <3>2, <3>3
    <2>3. QED
      BY <2>1, <2>2
  <1>2. ASSUME TypeOK, Paired, LocationIndexExact, InTime, timely,
               NEW l \in LocationIds, NEW query \in AverageQueries, locations_[l] # None
        PROVE  LET marked == OfAdded(TrueMarks(l, query))
               IN AverageAnswer(l, query) =
                    IF /\ locations_to_visits_[l] # None /\ ~Filled(marked)
                       /\ ~AsksAboutUsers(query) /\ ~AsksAboutDates(query)
                    THEN <<"NotANumber">> ELSE <<"Marks", marked>>
    BY <1>2, MarksExact DEF AverageAnswer, AverageText
  <1>3. TypeOK /\ Paired /\ LocationIndexExact /\ InTime => AnswersExact
    BY <1>1, <1>2 DEF AnswersExact
  <1>4. QED
    BY <1>3, InTimeCorrect, PairedCorrect, LocationIndexCorrect, TypeCorrect, PTL
=============================================================================
