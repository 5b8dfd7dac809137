------------------------- MODULE IndexedDataStorage -------------------------
(***************************************************************************)
(* IndexedDataStorage (DataStorage/IndexedDataStorage.cpp), the storage    *)
(* DataStorageNew replaced: it is built and implements IDataStorage, and   *)
(* no program creates it.  Beside the containers it keeps the location and *)
(* the user of every visit a second time and indexes visits by their time, *)
(* so an update has five places to keep in step.  A multimap from a time   *)
(* to a visit id is modelled by the number of copies of each pair.         *)
(* locations_to_users_ is modelled by the locations that have an entry:    *)
(* nothing reads what an entry holds.                                      *)
(***************************************************************************)
EXTENDS Entities, FiniteSets

LOCAL INSTANCE FiniteSetsExt   \* MapThenSumSet

CONSTANTS
  MaxDistance,       \* numeric_limits<Distance>::max()
  VisitQueries,      \* the GetVisistsByUserIdQuery values clients send
  AverageQueries,    \* the GetAverageLocationMarkQuery values clients send
  Changes,           \* the updates of visits clients send
  MaxCopies          \* bound on the copies of a pair in one multimap

ASSUME ChangesAssumption == Changes \subseteq VisitUpdates
ASSUME MaxCopiesAssumption == MaxCopies \in Nat \ {0}

VARIABLES
  phase,                 \* "Loading", "Serving", and then perhaps "hung" or "undefined"
  users_, locations_, visits_,
  visits_to_locations_, visits_to_user_,    \* visit -> id, None when absent
  users_to_visits_, locations_to_visits_,   \* id -> multimap, None when absent
  locations_to_users_,                      \* the locations with an entry
  answer,                                   \* what the last call returned
  added,                                    \* history: the visits AddVisit accepted
  timely                                    \* history, see Timely

containers == <<users_, locations_, visits_>>
indexes == <<visits_to_locations_, visits_to_user_,
             users_to_visits_, locations_to_visits_, locations_to_users_>>
history == <<added, timely>>
vars == <<phase, containers, indexes, answer, history>>

EntityNotFound == <<"EntityNotFound">>
EntitySuccessfullyUpdated == <<"EntitySuccessfullyUpdated">>
EntityAlreadyExist == <<"EntityAlreadyExist">>
EntitySuccessfullyAdded == <<"EntitySuccessfullyAdded">>

\* Multimaps from a time to a visit id.
Entries == Timestamps \X VisitIds
Multimap == [Entries -> Nat]
\* None is neither a multimap nor an id.
ASSUME AbsentAssumption == None \notin Multimap \cup UserIds \cup LocationIds
NoEntries == [e \in Entries |-> 0]
Copies(index, key, e) == IF index[key] = None THEN 0 ELSE index[key][e]
Filled(multimap) == \E e \in Entries : multimap[e] > 0
Keep(multimap, Kept(_)) == [e \in Entries |-> IF Kept(e) THEN multimap[e] ELSE 0]

\* emplace, with operator[] or by an emplace of the whole entry when there is none.
EmplaceAt(index, key, e) ==
  [index EXCEPT ![key] =
     [x \in Entries |-> Copies(index, key, x) + (IF x = e THEN 1 ELSE 0)]]

Init ==
  /\ phase = "Loading"
  /\ users_ = [u \in UserIds |-> None]
  /\ locations_ = [l \in LocationIds |-> None]
  /\ visits_ = [v \in VisitIds |-> None]
  /\ visits_to_locations_ = [v \in VisitIds |-> None]
  /\ visits_to_user_ = [v \in VisitIds |-> None]
  /\ users_to_visits_ = [u \in UserIds |-> None]
  /\ locations_to_visits_ = [l \in LocationIds |-> None]
  /\ locations_to_users_ = {}
  /\ answer = <<"Loaded">>
  /\ added = {}
  /\ timely = TRUE

(***************************************************************************)
(* LoadData, LoadZippedData: the containers are filled and nothing is      *)
(* indexed, for the call of MapEntities is commented out in both.          *)
(***************************************************************************)
EmplaceEntity(container, id, entity) ==
  IF container[id] = None THEN [container EXCEPT ![id] = entity] ELSE container

LoadUser(u, user) ==
  /\ phase = "Loading"
  /\ users_' = EmplaceEntity(users_, u, user)
  /\ UNCHANGED <<phase, locations_, visits_, indexes, answer, history>>

LoadLocation(l, location) ==
  /\ phase = "Loading"
  /\ locations_' = EmplaceEntity(locations_, l, location)
  /\ UNCHANGED <<phase, users_, visits_, indexes, answer, history>>

LoadVisit(v, visit) ==
  /\ phase = "Loading"
  /\ visits_' = EmplaceEntity(visits_, v, visit)
  /\ UNCHANGED <<phase, users_, locations_, indexes, answer, history>>

Loaded ==
  /\ phase = "Loading"
  /\ phase' = "Serving"
  /\ UNCHANGED <<containers, indexes, answer, history>>

(***************************************************************************)
(* Calls answer; the few that cannot go on stop the storage instead.       *)
(***************************************************************************)
Reply(result) == phase = "Serving" /\ answer' = result /\ UNCHANGED phase

Stop(how) ==
  /\ phase = "Serving"
  /\ phase' = how
  /\ UNCHANGED <<containers, indexes, answer, history>>

(***************************************************************************)
(* History.  An added visit is found again in its user's multimap by its   *)
(* time alone.  The comment in AddVisit gives the reason: a user can not   *)
(* be in two locations at one time.  `timely` says that so far no user has *)
(* been given two visits of one time, and no visit a new time while it     *)
(* stayed with its user, which leaves the old time in the multimap.        *)
(***************************************************************************)
SharesTime(v, visit) ==
  \E x \in added \ {v} :
    /\ visits_[x].user_id = visit.user_id
    /\ visits_[x].visited_at = visit.visited_at

Timely(v, visit) ==
  /\ timely
  /\ ~SharesTime(v, visit)
  /\ v \in added /\ visits_[v].user_id = visit.user_id
       => visits_[v].visited_at = visit.visited_at

(***************************************************************************)
(* AddUser, AddLocation, AddVisit.                                         *)
(***************************************************************************)
AddUser(u, user) ==
  /\ IF users_[u] # None
     THEN Reply(EntityAlreadyExist) /\ UNCHANGED users_
     ELSE /\ users_' = [users_ EXCEPT ![u] = user]
          /\ Reply(EntitySuccessfullyAdded)
  /\ UNCHANGED <<locations_, visits_, indexes, history>>

AddLocation(l, location) ==
  /\ IF locations_[l] # None
     THEN Reply(EntityAlreadyExist) /\ UNCHANGED <<locations_, locations_to_users_>>
     ELSE /\ locations_' = [locations_ EXCEPT ![l] = location]
          /\ locations_to_users_' = locations_to_users_ \cup {l}
          /\ Reply(EntitySuccessfullyAdded)
  /\ UNCHANGED <<users_, visits_, visits_to_locations_, visits_to_user_,
                 users_to_visits_, locations_to_visits_, history>>

AddKnownVisit(v) ==
  /\ visits_[v] # None
  /\ Reply(EntityAlreadyExist)
  /\ UNCHANGED <<containers, indexes, history>>

\* Mutant: the location of the visit is recorded in the visit alone.
AddVisit_Mutant(v, visit) ==
  /\ visits_[v] = None
  /\ visits_' = [visits_ EXCEPT ![v] = visit]
  /\ visits_to_user_' = [visits_to_user_ EXCEPT ![v] = visit.user_id]
  /\ locations_to_visits_' =
       EmplaceAt(locations_to_visits_, visit.location_id, <<visit.visited_at, v>>)
  /\ users_to_visits_' =
       EmplaceAt(users_to_visits_, visit.user_id, <<visit.visited_at, v>>)
  /\ added' = added \cup {v}
  /\ timely' = Timely(v, visit)
  /\ Reply(EntitySuccessfullyAdded)
  /\ UNCHANGED <<users_, locations_, locations_to_users_, visits_to_locations_>>

AddVisit(v, visit) ==
  /\ visits_[v] = None
  /\ visits_' = [visits_ EXCEPT ![v] = visit]
  /\ visits_to_user_' = [visits_to_user_ EXCEPT ![v] = visit.user_id]
  /\ visits_to_locations_' = [visits_to_locations_ EXCEPT ![v] = visit.location_id]
  /\ locations_to_visits_' =
       EmplaceAt(locations_to_visits_, visit.location_id, <<visit.visited_at, v>>)
  /\ users_to_visits_' =
       EmplaceAt(users_to_visits_, visit.user_id, <<visit.visited_at, v>>)
  /\ added' = added \cup {v}
  /\ timely' = Timely(v, visit)
  /\ Reply(EntitySuccessfullyAdded)
  /\ UNCHANGED <<users_, locations_, locations_to_users_>>

(***************************************************************************)
(* UpdateUser, UpdateLocation.                                             *)
(***************************************************************************)
UpdateUser(u, update) ==
  /\ IF users_[u] = None
     THEN Reply(EntityNotFound) /\ UNCHANGED users_
     ELSE /\ users_' = [users_ EXCEPT ![u] = UpdatedUser(@, update)]
          /\ Reply(EntitySuccessfullyUpdated)
  /\ UNCHANGED <<locations_, visits_, indexes, history>>

UpdateLocation(l, update) ==
  /\ IF locations_[l] = None
     THEN Reply(EntityNotFound) /\ UNCHANGED locations_
     ELSE /\ locations_' = [locations_ EXCEPT ![l] = UpdatedLocation(@, update)]
          /\ Reply(EntitySuccessfullyUpdated)
  /\ UNCHANGED <<users_, visits_, indexes, history>>

(***************************************************************************)
(* UpdateVisit.  It writes visits_to_locations_ and visits_to_user_ first  *)
(* and only then looks for the visit in the multimaps, so a visit it does  *)
(* not find there is refused half-way.                                     *)
(***************************************************************************)

\* The visit was indexed when it was added, as far as its maps can tell.
Indexed(v) == visits_[v] # None /\ visits_to_locations_[v] # None

\* A visit that was never added, or was loaded and never indexed.
UpdateUnknownVisit(v) ==
  /\ ~Indexed(v)
  /\ Reply(EntityNotFound)
  /\ UNCHANGED <<containers, indexes, history>>

\* Mutant: the old user keeps the pair.
UserIndexesAfter_Kept(v, visit, updated) ==
  IF updated.user_id = visit.user_id THEN {users_to_visits_}
  ELSE {EmplaceAt(users_to_visits_, updated.user_id, <<updated.visited_at, v>>)}

\* Mutant: a pair of the visit's new time is looked for.
UserIndexesAfter_NewTime(v, visit, updated) ==
  IF updated.user_id = visit.user_id THEN {users_to_visits_}
  ELSE {EmplaceAt([users_to_visits_ EXCEPT ![visit.user_id][e] = @ - 1],
                  updated.user_id, <<updated.visited_at, v>>) :
          e \in {e \in Entries : /\ e[1] = updated.visited_at
                                 /\ Copies(users_to_visits_, visit.user_id, e) > 0}}

\* Mutant: what the search returns is erased without a look.
UserIndexesAfter_Unchecked(v, visit, updated) ==
  IF updated.user_id = visit.user_id THEN {users_to_visits_}
  ELSE {EmplaceAt([users_to_visits_ EXCEPT ![visit.user_id][e] = @ - 1],
                  updated.user_id, <<updated.visited_at, v>>) :
          e \in {e \in Entries : e[1] = visit.visited_at}}

\* A visit that keeps its user stays where it is in the user's multimap.  One
\* that changes it takes some pair of its time out of the old user's multimap,
\* whichever visit's it is; without such a pair there is no way on.
UserIndexesAfter(v, visit, updated) ==
  IF updated.user_id = visit.user_id THEN {users_to_visits_}
  ELSE {EmplaceAt([users_to_visits_ EXCEPT ![visit.user_id][e] = @ - 1],
                  updated.user_id, <<updated.visited_at, v>>) :
          e \in {e \in Entries : /\ e[1] = visit.visited_at
                                 /\ Copies(users_to_visits_, visit.user_id, e) > 0}}

\* Mutant: the old location keeps the pair.
LocationIndexAfter_Mutant(v, visit, updated) ==
  EmplaceAt(locations_to_visits_, updated.location_id, <<updated.visited_at, v>>)

\* Every pair of the visit and its time goes, and its new pair comes in.
LocationIndexAfter(v, visit, updated) ==
  EmplaceAt([locations_to_visits_ EXCEPT ![visit.location_id][<<visit.visited_at, v>>] = 0],
            updated.location_id, <<updated.visited_at, v>>)

\* Mutant: the multimap of the new location is asked for instead of the old.
Missing_Mutant(v, visit, updated) ==
  \/ visits_to_user_[v] = None
  \/ UserIndexesAfter(v, visit, updated) = {}
  \/ locations_to_visits_[updated.location_id] = None

\* Which of the multimaps misses it?
Missing(v, visit, updated) ==
  \/ visits_to_user_[v] = None
  \/ UserIndexesAfter(v, visit, updated) = {}
  \/ locations_to_visits_[visit.location_id] = None

UpdateVisitHalfway(v, update) ==
  LET visit == visits_[v]
      updated == UpdatedVisit(visit, update)
  IN /\ Indexed(v)
     /\ Missing(v, visit, updated)
     /\ visits_to_locations_' = [visits_to_locations_ EXCEPT ![v] = updated.location_id]
     /\ visits_to_user_' =
          [visits_to_user_ EXCEPT ![v] = IF @ = None THEN None ELSE updated.user_id]
     /\ IF visits_to_user_[v] = None \/ UserIndexesAfter(v, visit, updated) = {}
        THEN UNCHANGED users_to_visits_
        ELSE users_to_visits_' \in UserIndexesAfter(v, visit, updated)
     /\ Reply(EntityNotFound)
     /\ UNCHANGED <<containers, locations_to_visits_, locations_to_users_, history>>

\* The visit's old user is looked up for a birth date, and used unseen.
UpdateVisitOfUnknownUser(v, update) ==
  /\ Indexed(v)
  /\ ~Missing(v, visits_[v], UpdatedVisit(visits_[v], update))
  /\ users_[visits_[v].user_id] = None
  /\ Stop("undefined")

UpdateVisit(v, update) ==
  LET visit == visits_[v]
      updated == UpdatedVisit(visit, update)
  IN /\ Indexed(v)
     /\ ~Missing(v, visit, updated)
     /\ users_[visit.user_id] # None
     /\ visits_to_locations_' = [visits_to_locations_ EXCEPT ![v] = updated.location_id]
     /\ visits_to_user_' = [visits_to_user_ EXCEPT ![v] = updated.user_id]
     /\ users_to_visits_' \in UserIndexesAfter(v, visit, updated)
     /\ \A u \in UserIds, e \in Entries : Copies(users_to_visits_', u, e) <= MaxCopies
     /\ locations_to_visits_' = LocationIndexAfter(v, visit, updated)
     /\ locations_to_users_' = locations_to_users_ \cup {visit.location_id} \cup
          (IF users_[updated.user_id] # None THEN {updated.location_id} ELSE {})
     /\ visits_' = [visits_ EXCEPT ![v] = updated]
     /\ timely' = Timely(v, updated)
     /\ Reply(EntitySuccessfullyUpdated)
     /\ UNCHANGED <<users_, locations_, added>>

(***************************************************************************)
(* GetUserById, GetLocationById, GetVisitById.                             *)
(***************************************************************************)
Get(result) == Reply(result) /\ UNCHANGED <<containers, indexes, history>>

GetEntityById(id, container) == Get(<<"Entity", container[id]>>)

(***************************************************************************)
(* GetVisistsByUserId: the user's multimap, thinned by one filter after    *)
(* the other.                                                              *)
(***************************************************************************)
\* Mutant: lower_bound and upper_bound swapped at the earlier date.
Dated_Mutant(multimap, query) ==
  Keep(multimap, LAMBDA e : InDates(query, e[1]) \/ e[1] = query.from_date)

Dated(multimap, query) == Keep(multimap, LAMBDA e : InDates(query, e[1]))

LocationOf(v) ==
  IF visits_to_locations_[v] = None THEN None ELSE locations_[visits_to_locations_[v]]

InCountry(multimap, query) ==
  IF query.country = NoText THEN multimap
  ELSE Keep(multimap, LAMBDA e : /\ LocationOf(e[2]) # None
                                 /\ LocationOf(e[2]).country = query.country)

Near(multimap, query) ==
  IF query.to_distance = MaxDistance THEN multimap
  ELSE Keep(multimap, LAMBDA e : /\ LocationOf(e[2]) # None
                                 /\ LocationOf(e[2]).distance < query.to_distance)

Thinned(u, query) == Near(InCountry(Dated(users_to_visits_[u], query), query), query)

\* Only a visit whose location is there is put into the text.
Written(multimap) ==
  Keep(multimap, LAMBDA e : /\ visits_[e[2]] # None
                            /\ locations_[visits_[e[2]].location_id] # None)

\* A filter that comes to a visit of an unknown location never gets past it.
Endless(multimap) ==
  \E e \in Entries : /\ multimap[e] > 0
                     /\ visits_to_locations_[e[2]] # None
                     /\ LocationOf(e[2]) = None

Hangs(u, query) ==
  /\ users_[u] # None /\ users_to_visits_[u] # None
  /\ LET dated == Dated(users_to_visits_[u], query)
     IN \/ query.country # NoText /\ Endless(dated)
        \/ query.to_distance # MaxDistance /\ Endless(InCountry(dated, query))

AsksAboutPlaces(query) == query.country # NoText \/ query.to_distance # MaxDistance

\* The last character of the text is taken for a comma, though it may be the
\* bracket when no visit was written.
ListText(u, query) ==
  IF Filled(Thinned(u, query)) /\ ~Filled(Written(Thinned(u, query)))
  THEN <<"Malformed">> ELSE <<"Visits", Written(Thinned(u, query))>>

ListAnswer(u, query) ==
  IF users_[u] = None THEN <<"Visits", None>>
  ELSE IF users_to_visits_[u] = None THEN <<"Visits", NoEntries>>
  ELSE ListText(u, query)

GetVisistsByUserId(u, query) == ~Hangs(u, query) /\ Get(ListAnswer(u, query))

ListHangs(u, query) == Hangs(u, query) /\ Stop("hung")

(***************************************************************************)
(* GetAverageLocationMark.                                                 *)
(***************************************************************************)
UserOf(v) == IF visits_to_user_[v] = None THEN None ELSE users_[visits_to_user_[v]]

AsksAboutUsers(query) ==
  \/ query.from_age # MinTimestamp
  \/ query.to_age # MaxTimestamp
  \/ query.gender # "Any"

AsksAboutDates(query) ==
  query.from_date # MinTimestamp \/ query.to_date # MaxTimestamp

OfAgeAndGender(query, user) ==
  /\ query.from_age # MinTimestamp
       => user.birth_date <= GetBoundaryBirthDate(query.from_age)
  /\ query.to_age # MaxTimestamp
       => user.birth_date >= GetBoundaryBirthDate(query.to_age)
  /\ query.gender # "Any" => user.gender = query.gender

Marked(l, query) ==
  Keep(Dated(locations_to_visits_[l], query),
       LAMBDA e : AsksAboutUsers(query) =>
                    UserOf(e[2]) # None /\ OfAgeAndGender(query, UserOf(e[2])))

\* Nothing left to average: 0 after a filter, 0/0 without one.
AverageText(l, query) ==
  IF ~Filled(Marked(l, query)) /\ ~AsksAboutUsers(query) /\ ~AsksAboutDates(query)
  THEN <<"NotANumber">> ELSE <<"Marks", Marked(l, query)>>

AverageAnswer(l, query) ==
  IF locations_[l] = None THEN <<"Marks", None>>
  ELSE IF locations_to_visits_[l] = None THEN <<"Marks", NoEntries>>
  ELSE AverageText(l, query)

\* The entry of the location in locations_to_users_ is copied, if there is one.
CopiesUsers(l, query) ==
  /\ locations_[l] # None /\ locations_to_visits_[l] # None
  /\ AsksAboutDates(query) => Filled(Dated(locations_to_visits_[l], query))

FindsUsers(l, query) == CopiesUsers(l, query) => l \in locations_to_users_

GetAverageLocationMark(l, query) ==
  FindsUsers(l, query) /\ Get(AverageAnswer(l, query))

AverageUndefined(l, query) == ~FindsUsers(l, query) /\ Stop("undefined")

Next ==
  \/ \E u \in UserIds :
       \/ \E user \in User : LoadUser(u, user) \/ AddUser(u, user)
       \/ \E update \in UserUpdates : UpdateUser(u, update)
       \/ GetEntityById(u, users_)
       \/ \E query \in VisitQueries : GetVisistsByUserId(u, query) \/ ListHangs(u, query)
  \/ \E l \in LocationIds :
       \/ \E location \in Location :
            LoadLocation(l, location) \/ AddLocation(l, location)
       \/ \E update \in LocationUpdates : UpdateLocation(l, update)
       \/ GetEntityById(l, locations_)
       \/ \E query \in AverageQueries :
            GetAverageLocationMark(l, query) \/ AverageUndefined(l, query)
  \/ \E v \in VisitIds :
       \/ \E visit \in Visit : LoadVisit(v, visit) \/ AddVisit(v, visit)
       \/ AddKnownVisit(v)
       \/ UpdateUnknownVisit(v)
       \/ \E update \in Changes :
            \/ UpdateVisit(v, update)
            \/ UpdateVisitHalfway(v, update)
            \/ UpdateVisitOfUnknownUser(v, update)
       \/ GetEntityById(v, visits_)
  \/ Loaded

Spec == Init /\ [][Next]_vars

-----------------------------------------------------------------------------
(***************************************************************************)
(* Properties.                                                             *)
(***************************************************************************)
Answers ==
  {<<"Loaded">>, EntityNotFound, EntitySuccessfullyUpdated,
   EntityAlreadyExist, EntitySuccessfullyAdded, <<"Malformed">>, <<"NotANumber">>}
  \cup ({"Entity"} \X ({None} \cup User \cup Location \cup Visit))
  \cup ({"Visits", "Marks"} \X ({None} \cup Multimap))

\* Containers and indexes hold what their C++ types say, and nothing is
\* indexed while the data files are read.
TypeOK ==
  /\ phase \in {"Loading", "Serving", "hung", "undefined"}
  /\ users_ \in [UserIds -> User \cup {None}]
  /\ locations_ \in [LocationIds -> Location \cup {None}]
  /\ visits_ \in [VisitIds -> Visit \cup {None}]
  /\ visits_to_locations_ \in [VisitIds -> LocationIds \cup {None}]
  /\ visits_to_user_ \in [VisitIds -> UserIds \cup {None}]
  /\ users_to_visits_ \in [UserIds -> Multimap \cup {None}]
  /\ locations_to_visits_ \in [LocationIds -> Multimap \cup {None}]
  /\ locations_to_users_ \subseteq LocationIds
  /\ answer \in Answers
  /\ added \subseteq VisitIds
  /\ timely \in BOOLEAN
  /\ phase = "Loading" => visits_to_user_ = [v \in VisitIds |-> None]

\* No sequence of calls, refused half-way or not, puts the locations' side out
\* of step: each added visit is there once, under its location and its time.
LocationIndexExact ==
  \A l \in LocationIds, t \in Timestamps, v \in VisitIds :
    Copies(locations_to_visits_, l, <<t, v>>) =
      IF v \in added /\ visits_[v].location_id = l /\ visits_[v].visited_at = t
      THEN 1 ELSE 0

\* The texts follow every entry to its visit without asking whether it is
\* there, and it is; so are the visit's entries in the two maps, and a filter
\* that would drop an entry for want of one never does.
EntriesKnown ==
  \A e \in Entries :
    \/ \E u \in UserIds : Copies(users_to_visits_, u, e) > 0
    \/ \E l \in LocationIds : Copies(locations_to_visits_, l, e) > 0
    => /\ visits_[e[2]] # None
       /\ visits_to_locations_[e[2]] # None
       /\ visits_to_user_[e[2]] # None

\* Whatever times are shared or changed, and whichever pair a hand-over takes
\* for the visit's own, the users' multimaps hold as many pairs as visits were
\* added: no list can grow or shrink by calls on what is there.
PairsCounted ==
  MapThenSumSet(LAMBDA key : Copies(users_to_visits_, key[1], key[2]),
                UserIds \X Entries) = Cardinality(added)

\* The users' side keeps in step as long as a user's visits have times of
\* their own and an update does not change the time alone.
UserIndexExact ==
  timely =>
    \A u \in UserIds, t \in Timestamps, v \in VisitIds :
      Copies(users_to_visits_, u, <<t, v>>) =
        IF v \in added /\ visits_[v].user_id = u /\ visits_[v].visited_at = t
        THEN 1 ELSE 0

\* Under the same condition the second record of an added visit's location and
\* user, in the two maps, says what the visit says.
MapsAgree ==
  timely =>
    \A v \in added :
      /\ visits_to_locations_[v] = visits_[v].location_id
      /\ visits_to_user_[v] = visits_[v].user_id

(***************************************************************************)
(* What a client would count in the containers, without any index.         *)
(***************************************************************************)
TrueList(u, query) ==
  [e \in Entries |->
     LET visit == visits_[e[2]] location == locations_[visit.location_id]
     IN IF /\ visit # None /\ visit.user_id = u /\ visit.visited_at = e[1]
           /\ location # None
           /\ InDates(query, e[1])
           /\ query.country # NoText => query.country = location.country
           /\ query.to_distance # MaxDistance => query.to_distance > location.distance
        THEN 1 ELSE 0]

TrueMarks(l, query) ==
  [e \in Entries |->
     LET visit == visits_[e[2]] user == users_[visit.user_id]
     IN IF /\ visit # None /\ visit.location_id = l /\ visit.visited_at = e[1]
           /\ InDates(query, e[1])
           /\ AsksAboutUsers(query) => user # None /\ OfAgeAndGender(query, user)
        THEN 1 ELSE 0]

OfAdded(multimap) == Keep(multimap, LAMBDA e : e[2] \in added)

\* An added visit of the user, in the dates asked for, to an unknown location.
Stray(u, query) ==
  \E v \in added : /\ visits_[v].user_id = u
                   /\ InDates(query, visits_[v].visited_at)
                   /\ locations_[visits_[v].location_id] = None

\* The filters, each of which goes its own way through the indexes, leave of
\* what the client would count exactly the visits that were added: one that
\* came from the data files is in no answer, for nothing ever indexes it.  A
\* list is refused by an endless loop, or closed without having been opened,
\* exactly when a stray visit is met by a filter for places, or is all there
\* is to list.  An average is 0/0 when no filter is set and every visit of the
\* location has moved away.
AnswersExact ==
  timely =>
    /\ \A u \in UserIds, query \in VisitQueries :
         users_[u] # None =>
           LET listed == OfAdded(TrueList(u, query))
           IN /\ Hangs(u, query) <=> Stray(u, query) /\ AsksAboutPlaces(query)
              /\ \/ Hangs(u, query)
                 \/ ListAnswer(u, query) =
                      IF Stray(u, query) /\ ~Filled(listed)
                      THEN <<"Malformed">> ELSE <<"Visits", listed>>
    /\ \A l \in LocationIds, query \in AverageQueries :
         locations_[l] # None =>
           LET marked == OfAdded(TrueMarks(l, query))
           IN AverageAnswer(l, query) =
                IF /\ locations_to_visits_[l] # None /\ ~Filled(marked)
                   /\ ~AsksAboutUsers(query) /\ ~AsksAboutDates(query)
                THEN <<"NotANumber">> ELSE <<"Marks", marked>>

\* No visit of the time the visit has is listed for its user.
Unlisted(v) ==
  \A e \in Entries :
    e[1] = visits_[v].visited_at => Copies(users_to_visits_, visits_[v].user_id, e) = 0

\* A refused call leaves the entities and all the multimaps alone.  What it
\* may leave behind is a new entry in the two maps for a visit that is not
\* found in its user's multimap, as after an update of its time alone; as long
\* as times tell a user's visits apart it leaves nothing.
RefusedLeavesLists ==
  [][answer' = EntityNotFound =>
       /\ UNCHANGED <<containers, users_to_visits_, locations_to_visits_,
                      locations_to_users_>>
       /\ \A v \in VisitIds :
            \/ visits_to_locations_'[v] # visits_to_locations_[v]
            \/ visits_to_user_'[v] # visits_to_user_[v]
            => ~timely /\ Unlisted(v)]_vars
=============================================================================
