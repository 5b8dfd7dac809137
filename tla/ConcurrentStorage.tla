-------------------------- MODULE ConcurrentStorage --------------------------
(***************************************************************************)
(* DataStorageNew as the server's worker threads use it: no lock anywhere, *)
(* and any number of calls under way at once (DataStorage/DataStorage.cpp). *)
(* A call is a sequence of statements, each of which looks at or changes   *)
(* one container, one multiset or one attribute; between any two of them   *)
(* the other workers take theirs.  When two statements meet in one         *)
(* container, multiset or attribute, and one of them writes it, the C++    *)
(* program has no defined behaviour: either they take effect one after the *)
(* other or anything may happen from there on (`undefined`).               *)
(***************************************************************************)
EXTENDS Entities

CONSTANTS
  Workers,            \* the threads of HttpServer that run jobs
  Calls,              \* the calls the clients' requests turn into
  MaxCalls,           \* bound on the calls begun
  VisitQueries,       \* the GetVisistsByUserIdQuery values clients send
  AverageQueries,     \* the GetAverageLocationMarkQuery values clients send
  LoadedUsers, LoadedLocations, LoadedVisits   \* what the data files held

AddCall ==
  [op : {"AddUser"}, id : UserIds, arg : User]
  \cup [op : {"AddLocation"}, id : LocationIds, arg : Location]
  \cup [op : {"AddVisit"}, id : VisitIds, arg : Visit]

UpdateCall ==
  [op : {"UpdateUser"}, id : UserIds, arg : UserUpdates]
  \cup [op : {"UpdateLocation"}, id : LocationIds, arg : LocationUpdates]
  \cup [op : {"UpdateVisit"}, id : VisitIds, arg : VisitUpdates]

GetCall ==
  [op : {"GetUserById"}, id : UserIds, arg : {None}]
  \cup [op : {"GetLocationById"}, id : LocationIds, arg : {None}]
  \cup [op : {"GetVisitById"}, id : VisitIds, arg : {None}]
  \cup [op : {"GetVisistsByUserId"}, id : UserIds, arg : VisitQueries]
  \cup [op : {"GetAverageLocationMark"}, id : LocationIds, arg : AverageQueries]

Call == AddCall \cup UpdateCall \cup GetCall

\* A std::multiset of visit ids; a key no visit was ever put under is absent.
Multiset == [VisitIds -> Nat]

ASSUME CallsAssumption ==
  /\ Calls \subseteq Call
  /\ None \notin Call
  /\ None \notin LocationIds \cup UserIds \cup Multiset
  /\ MaxCalls \in Nat

\* The data files are complete: MapEntities indexes every loaded visit.
ASSUME LoadedAssumption ==
  /\ LoadedUsers \in [UserIds -> User \cup {None}]
  /\ LoadedLocations \in [LocationIds -> Location \cup {None}]
  /\ LoadedVisits \in [VisitIds -> Visit \cup {None}]
  /\ \A v \in VisitIds : LoadedVisits[v] # None =>
       /\ LoadedLocations[LoadedVisits[v].location_id] # None
       /\ LoadedUsers[LoadedVisits[v].user_id] # None

VARIABLES
  users_, locations_, visits_,              \* id -> entity, None when absent
  users_to_visits_, locations_to_visits_,   \* id -> multiset, None when absent
  call, pc,              \* the call a worker is in and its next statement
  from,                  \* the multiset UpdateVisit found its visit's old id under
  cursor, counted,       \* a query's iterator and what it has counted so far
  answer,                \* what the worker's last call returned
  begun,                 \* the calls begun so far
  undefined,             \* two statements met in a data race
  overlapped, steady     \* history, see below

containers == <<users_, locations_, visits_>>
indexes == <<users_to_visits_, locations_to_visits_>>
locals == <<from, cursor, counted>>
history == <<overlapped, steady>>
vars == <<containers, indexes, call, pc, locals, answer, begun, undefined, history>>

EntityNotFound == <<"EntityNotFound">>
EntitySuccessfullyUpdated == <<"EntitySuccessfullyUpdated">>
EntityAlreadyExist == <<"EntityAlreadyExist">>
EntitySuccessfullyAdded == <<"EntitySuccessfullyAdded">>

EmptyMultiset == [v \in VisitIds |-> 0]
Copies(index, key, v) == IF index[key] = None THEN 0 ELSE index[key][v]

\* index[key].emplace(v): operator[] creates the entry when it is absent.
EmplaceAt(index, key, v) ==
  [index EXCEPT ![key] =
     [x \in VisitIds |-> Copies(index, key, x) + (IF x = v THEN 1 ELSE 0)]]

\* Mutant: one copy is taken out, whether or not there is one.
EraseAt_Mutant(index, key, id) ==
  [index EXCEPT ![key] =
     [x \in VisitIds |-> Copies(index, key, x) - (IF x = id THEN 1 ELSE 0)]]

\* Every copy of the value goes; the value may be any Id.
EraseAt(index, key, id) ==
  [index EXCEPT ![key] =
     [x \in VisitIds |-> IF x = id THEN 0 ELSE Copies(index, key, x)]]

\* What MapEntities builds of the loaded visits: entries only where one is.
Mapped(ids, Key(_)) ==
  [key \in ids |->
     LET keyed == {v \in VisitIds : LoadedVisits[v] # None /\ Key(LoadedVisits[v]) = key}
     IN IF keyed = {} THEN None ELSE [v \in VisitIds |-> IF v \in keyed THEN 1 ELSE 0]]

Init ==
  /\ users_ = LoadedUsers
  /\ locations_ = LoadedLocations
  /\ visits_ = LoadedVisits
  /\ users_to_visits_ = Mapped(UserIds, LAMBDA visit : visit.user_id)
  /\ locations_to_visits_ = Mapped(LocationIds, LAMBDA visit : visit.location_id)
  /\ call = [w \in Workers |-> None]
  /\ pc = [w \in Workers |-> "idle"]
  /\ from = [w \in Workers |-> None]
  /\ cursor = [w \in Workers |-> -1]
  /\ counted = [w \in Workers |-> EmptyMultiset]
  /\ answer = [w \in Workers |-> None]
  /\ begun = 0
  /\ undefined = FALSE
  /\ overlapped = {}
  /\ steady = [w \in Workers |-> {}]

(***************************************************************************)
(* Statements: a worker goes on to the next one or returns.                *)
(***************************************************************************)
At(w, op, statement) == pc[w] = statement /\ call[w].op = op

Goto(w, statement) ==
  /\ pc' = [pc EXCEPT ![w] = statement]
  /\ UNCHANGED <<call, answer, begun, undefined, history>>

Proceed(w, statement) == Goto(w, statement) /\ UNCHANGED locals

Return(w, result) ==
  /\ pc' = [pc EXCEPT ![w] = "idle"]
  /\ call' = [call EXCEPT ![w] = None]
  /\ answer' = [answer EXCEPT ![w] = result]
  /\ from' = [from EXCEPT ![w] = None]
  /\ cursor' = [cursor EXCEPT ![w] = -1]
  /\ counted' = [counted EXCEPT ![w] = EmptyMultiset]
  /\ steady' = [steady EXCEPT ![w] = {}]
  /\ UNCHANGED <<begun, undefined, overlapped>>

(***************************************************************************)
(* History.  `overlapped` holds the visits of which two changes were ever  *)
(* under way together.  `steady[w]` holds the visits that nothing has      *)
(* touched since w's query began: no call in that time changes the visit,  *)
(* its user or its location.                                               *)
(***************************************************************************)
Busy == {w \in Workers : pc[w] # "idle"}
Queries == {"GetVisistsByUserId", "GetAverageLocationMark"}

ChangesVisit(c, v) == c.op \in {"AddVisit", "UpdateVisit"} /\ c.id = v

Touched(c) ==
  {v \in VisitIds :
     \/ ChangesVisit(c, v)
     \/ /\ c.op \in {"AddUser", "UpdateUser"}
        /\ visits_[v] # None /\ visits_[v].user_id = c.id
     \/ /\ c.op \in {"AddLocation", "UpdateLocation"}
        /\ visits_[v] # None /\ visits_[v].location_id = c.id}

\* A job of the worker calls the storage.
Begin(w, c) ==
  /\ pc[w] = "idle"
  /\ begun < MaxCalls
  /\ call' = [call EXCEPT ![w] = c]
  /\ pc' = [pc EXCEPT ![w] = "find"]
  /\ answer' = [answer EXCEPT ![w] = None]
  /\ begun' = begun + 1
  /\ overlapped' = overlapped \cup
       {v \in VisitIds : ChangesVisit(c, v) /\ \E x \in Busy : ChangesVisit(call[x], v)}
  /\ steady' = [x \in Workers |->
       IF x # w THEN steady[x] \ Touched(c)
       ELSE IF c.op \in Queries
            THEN VisitIds \ UNION {Touched(call[y]) : y \in Busy} ELSE {}]
  /\ UNCHANGED <<containers, indexes, locals, undefined>>

(***************************************************************************)
(* Every call first looks its entity up.                                   *)
(***************************************************************************)
Entity(c) ==
  IF c.op \in {"AddUser", "UpdateUser", "GetUserById", "GetVisistsByUserId"}
  THEN users_[c.id]
  ELSE IF c.op \in {"AddLocation", "UpdateLocation", "GetLocationById",
                    "GetAverageLocationMark"}
  THEN locations_[c.id]
  ELSE visits_[c.id]

Adds == {"AddUser", "AddLocation", "AddVisit"}
Updates == {"UpdateUser", "UpdateLocation", "UpdateVisit"}
Gets == {"GetUserById", "GetLocationById", "GetVisitById"}

FindNothing(w) ==
  /\ pc[w] = "find"
  /\ Entity(call[w]) = None
  /\ \/ call[w].op \in Adds /\ Proceed(w, "emplace")
     \/ call[w].op \in Updates /\ Return(w, EntityNotFound)
     \/ call[w].op \in Gets \cup Queries /\ Return(w, None)
  /\ UNCHANGED <<containers, indexes>>

FindEntity(w) ==
  /\ pc[w] = "find"
  /\ Entity(call[w]) # None
  /\ \/ call[w].op \in Adds /\ Return(w, EntityAlreadyExist)
     \/ call[w].op = "UpdateUser" /\ Proceed(w, "gender")
     \/ call[w].op = "UpdateLocation" /\ Proceed(w, "distance")
     \/ call[w].op = "UpdateVisit" /\ Proceed(w, "location")
     \/ call[w].op \in Gets /\ Proceed(w, "serialize")
     \/ call[w].op \in Queries /\ Proceed(w, "index")
  /\ UNCHANGED <<containers, indexes>>

(***************************************************************************)
(* AddUser, AddLocation, AddVisit.  The emplace of an id that has appeared *)
(* since the find leaves the entity there, and AddVisit goes on to index   *)
(* its own visit.                                                          *)
(***************************************************************************)
\* Mutant: the entity of the later call replaces the one that is there.
EmplaceEntity_Mutant(container, c) == [container EXCEPT ![c.id] = c.arg]

EmplaceEntity(container, c) ==
  IF container[c.id] = None THEN [container EXCEPT ![c.id] = c.arg] ELSE container

EmplaceUser(w) ==
  /\ At(w, "AddUser", "emplace")
  /\ users_' = EmplaceEntity(users_, call[w])
  /\ Return(w, EntitySuccessfullyAdded)
  /\ UNCHANGED <<locations_, visits_, indexes>>

EmplaceLocation(w) ==
  /\ At(w, "AddLocation", "emplace")
  /\ locations_' = EmplaceEntity(locations_, call[w])
  /\ Return(w, EntitySuccessfullyAdded)
  /\ UNCHANGED <<users_, visits_, indexes>>

EmplaceVisit(w) ==
  /\ At(w, "AddVisit", "emplace")
  /\ visits_' = EmplaceEntity(visits_, call[w])
  /\ Proceed(w, "user_index")
  /\ UNCHANGED <<users_, locations_, indexes>>

IndexUser(w) ==
  /\ At(w, "AddVisit", "user_index")
  /\ users_to_visits_' =
       EmplaceAt(users_to_visits_, call[w].arg.user_id, call[w].id)
  /\ Proceed(w, "location_index")
  /\ UNCHANGED <<containers, locations_to_visits_>>

IndexLocation(w) ==
  /\ At(w, "AddVisit", "location_index")
  /\ locations_to_visits_' =
       EmplaceAt(locations_to_visits_, call[w].arg.location_id, call[w].id)
  /\ Return(w, EntitySuccessfullyAdded)
  /\ UNCHANGED <<containers, users_to_visits_>>

(***************************************************************************)
(* UpdateUser, UpdateLocation: the attributes given are assigned one after *)
(* the other.                                                              *)
(***************************************************************************)
AssignGender(w) ==
  /\ At(w, "UpdateUser", "gender")
  /\ users_' = [users_ EXCEPT ![call[w].id].gender =
                  Given(call[w].arg.gender, "Any", @)]
  /\ Proceed(w, "birth_date")
  /\ UNCHANGED <<locations_, visits_, indexes>>

AssignBirthDate(w) ==
  /\ At(w, "UpdateUser", "birth_date")
  /\ users_' = [users_ EXCEPT ![call[w].id].birth_date =
                  Given(call[w].arg.birth_date, MinTimestamp, @)]
  /\ Return(w, EntitySuccessfullyUpdated)
  /\ UNCHANGED <<locations_, visits_, indexes>>

AssignDistance(w) ==
  /\ At(w, "UpdateLocation", "distance")
  /\ locations_' = [locations_ EXCEPT ![call[w].id].distance =
                      Given(call[w].arg.distance, 0, @)]
  /\ Proceed(w, "country")
  /\ UNCHANGED <<users_, visits_, indexes>>

AssignCountry(w) ==
  /\ At(w, "UpdateLocation", "country")
  /\ locations_' = [locations_ EXCEPT ![call[w].id].country =
                      Given(call[w].arg.country, NoText, @)]
  /\ Return(w, EntitySuccessfullyUpdated)
  /\ UNCHANGED <<users_, visits_, indexes>>

(***************************************************************************)
(* UpdateVisit.  Each attribute of the visit is read when its statement is *)
(* reached: to compare it, to find the old multiset, to choose what is     *)
(* erased from it.                                                         *)
(***************************************************************************)
CompareLocation(w) ==
  /\ At(w, "UpdateVisit", "location")
  /\ LET to == call[w].arg.location_id
     IN Proceed(w, IF to # NoId /\ visits_[call[w].id].location_id # to
                   THEN "old_location" ELSE "user")
  /\ UNCHANGED <<containers, indexes>>

FindOldLocation(w) ==
  /\ At(w, "UpdateVisit", "old_location")
  /\ LET key == visits_[call[w].id].location_id
     IN IF locations_to_visits_[key] = None
        THEN Proceed(w, "enter_location")
        ELSE from' = [from EXCEPT ![w] = key] /\ Goto(w, "leave_location")
             /\ UNCHANGED <<cursor, counted>>
  /\ UNCHANGED <<containers, indexes>>

\* Mutant: the old location keeps the visit.
LeaveLocation_Mutant(w) ==
  /\ At(w, "UpdateVisit", "leave_location")
  /\ Proceed(w, "enter_location")
  /\ UNCHANGED <<containers, indexes>>

\* Mutant: the whole entry of the old location goes.
LeaveLocation_Cleared(w) ==
  /\ At(w, "UpdateVisit", "leave_location")
  /\ locations_to_visits_' =
       [locations_to_visits_ EXCEPT ![from[w]] = EmptyMultiset]
  /\ Proceed(w, "enter_location")
  /\ UNCHANGED <<containers, users_to_visits_>>

LeaveLocation(w) ==
  /\ At(w, "UpdateVisit", "leave_location")
  /\ locations_to_visits_' = EraseAt(locations_to_visits_, from[w], call[w].id)
  /\ Proceed(w, "enter_location")
  /\ UNCHANGED <<containers, users_to_visits_>>

EnterLocation(w) ==
  /\ At(w, "UpdateVisit", "enter_location")
  /\ locations_to_visits_' =
       EmplaceAt(locations_to_visits_, call[w].arg.location_id, call[w].id)
  /\ Proceed(w, "write_location")
  /\ UNCHANGED <<containers, users_to_visits_>>

WriteLocation(w) ==
  /\ At(w, "UpdateVisit", "write_location")
  /\ visits_' = [visits_ EXCEPT ![call[w].id].location_id = call[w].arg.location_id]
  /\ Proceed(w, "user")
  /\ UNCHANGED <<users_, locations_, indexes>>

CompareUser(w) ==
  /\ At(w, "UpdateVisit", "user")
  /\ LET to == call[w].arg.user_id
     IN Proceed(w, IF to # NoId /\ visits_[call[w].id].user_id # to
                   THEN "old_user" ELSE "visited_at")
  /\ UNCHANGED <<containers, indexes>>

FindOldUser(w) ==
  /\ At(w, "UpdateVisit", "old_user")
  /\ LET key == visits_[call[w].id].user_id
     IN IF users_to_visits_[key] = None
        THEN Proceed(w, "enter_user")
        ELSE from' = [from EXCEPT ![w] = key] /\ Goto(w, "leave_user")
             /\ UNCHANGED <<cursor, counted>>
  /\ UNCHANGED <<containers, indexes>>

\* Mutant: the whole entry of the old user goes.
LeaveUser_Cleared(w) ==
  /\ At(w, "UpdateVisit", "leave_user")
  /\ users_to_visits_' = [users_to_visits_ EXCEPT ![from[w]] = EmptyMultiset]
  /\ Proceed(w, "enter_user")
  /\ UNCHANGED <<containers, locations_to_visits_>>

\* What is erased is the id the visit's user has at this moment.
LeaveUser(w) ==
  /\ At(w, "UpdateVisit", "leave_user")
  /\ users_to_visits_' =
       EraseAt(users_to_visits_, from[w], visits_[call[w].id].user_id)
  /\ Proceed(w, "enter_user")
  /\ UNCHANGED <<containers, locations_to_visits_>>

\* Mutant: the visit is never put under its new user.
EnterUser_Mutant(w) ==
  /\ At(w, "UpdateVisit", "enter_user")
  /\ Proceed(w, "write_user")
  /\ UNCHANGED <<containers, indexes>>

EnterUser(w) ==
  /\ At(w, "UpdateVisit", "enter_user")
  /\ users_to_visits_' = EmplaceAt(users_to_visits_, call[w].arg.user_id, call[w].id)
  /\ Proceed(w, "write_user")
  /\ UNCHANGED <<containers, locations_to_visits_>>

\* Mutant: the location is written a second time instead of the user.
WriteUser_Mutant(w) ==
  /\ At(w, "UpdateVisit", "write_user")
  /\ visits_' = [visits_ EXCEPT ![call[w].id].location_id =
                   Given(call[w].arg.location_id, NoId, @)]
  /\ Proceed(w, "visited_at")
  /\ UNCHANGED <<users_, locations_, indexes>>

WriteUser(w) ==
  /\ At(w, "UpdateVisit", "write_user")
  /\ visits_' = [visits_ EXCEPT ![call[w].id].user_id = call[w].arg.user_id]
  /\ Proceed(w, "visited_at")
  /\ UNCHANGED <<users_, locations_, indexes>>

AssignVisitedAt(w) ==
  /\ At(w, "UpdateVisit", "visited_at")
  /\ visits_' = [visits_ EXCEPT ![call[w].id].visited_at =
                   Given(call[w].arg.visited_at, MaxTimestamp, @)]
  /\ Proceed(w, "mark")
  /\ UNCHANGED <<users_, locations_, indexes>>

AssignMark(w) ==
  /\ At(w, "UpdateVisit", "mark")
  /\ visits_' = [visits_ EXCEPT ![call[w].id].mark =
                   Given(call[w].arg.mark, MaxMark, @)]
  /\ Return(w, EntitySuccessfullyUpdated)
  /\ UNCHANGED <<users_, locations_, indexes>>

(***************************************************************************)
(* GetUserById, GetLocationById, GetVisitById.                             *)
(***************************************************************************)
Serialize(w) ==
  /\ pc[w] = "serialize"
  /\ Return(w, <<"Entity", Entity(call[w])>>)
  /\ UNCHANGED <<containers, indexes>>

(***************************************************************************)
(* GetVisistsByUserId and GetAverageLocationMark walk a multiset in the    *)
(* order of the ids, looking each visit up.  The fields of a visit and of  *)
(* its user or location are read in one step; copies of an id, which are   *)
(* neighbours, are passed in one step; the second walk of the list, over   *)
(* what the first collected, is one step.                                  *)
(***************************************************************************)
Indexed(c) ==
  IF c.op = "GetVisistsByUserId" THEN users_to_visits_[c.id] ELSE locations_to_visits_[c.id]

\* Does the visit pass the filters of the query?
Selected(c, v) ==
  /\ visits_[v] # None
  /\ \/ /\ c.op = "GetVisistsByUserId"
        /\ locations_[visits_[v].location_id] # None
        /\ VisitSelected(c.arg, visits_[v], locations_[visits_[v].location_id])
     \/ /\ c.op = "GetAverageLocationMark"
        /\ users_[visits_[v].user_id] # None
        /\ MarkSelected(c.arg, visits_[v], users_[visits_[v].user_id])

FindIndex(w) ==
  /\ pc[w] = "index"
  /\ \/ Indexed(call[w]) # None /\ Proceed(w, "next")
     \/ Indexed(call[w]) = None /\ Return(w, <<"Counts", EmptyMultiset>>)
  /\ UNCHANGED <<containers, indexes>>

\* The elements the iterator has not reached.
Ahead(w) == {v \in VisitIds : v > cursor[w] /\ Indexed(call[w])[v] > 0}

NextVisit(w) ==
  /\ pc[w] = "next"
  /\ \E v \in Ahead(w) :
       /\ \A x \in Ahead(w) : v <= x
       /\ cursor' = [cursor EXCEPT ![w] = v]
  /\ Goto(w, "count")
  /\ UNCHANGED <<containers, indexes, from, counted>>

\* An id erased after it was reached is counted nevertheless.
CountVisit(w) ==
  /\ pc[w] = "count"
  /\ LET v == cursor[w]
         copies == IF Indexed(call[w])[v] = 0 THEN 1 ELSE Indexed(call[w])[v]
     IN counted' = IF Selected(call[w], v)
                   THEN [counted EXCEPT ![w][v] = @ + copies] ELSE counted
  /\ Goto(w, "next")
  /\ UNCHANGED <<containers, indexes, from, cursor>>

EndOfVisits(w) ==
  /\ pc[w] = "next"
  /\ Ahead(w) = {}
  /\ \/ call[w].op = "GetVisistsByUserId" /\ Proceed(w, "print")
     \/ call[w].op = "GetAverageLocationMark" /\ Return(w, <<"Counts", counted[w]>>)
  /\ UNCHANGED <<containers, indexes>>

PrintVisits(w) ==
  /\ pc[w] = "print"
  /\ Return(w, <<"Counts", counted[w]>>)
  /\ UNCHANGED <<containers, indexes>>

(***************************************************************************)
(* Data races.  The tables (hash maps), the multisets and the attributes   *)
(* of entities are written while other threads use them.  A query uses its *)
(* multiset for as long as it holds an iterator into it; an entity stays   *)
(* where it is when its table grows.  The attributes that are left out of  *)
(* the entities are their "text", which any update may carry.  A query is  *)
(* taken to read what each of its filters could ask for.                   *)
(***************************************************************************)
Table(c) ==
  IF c.op \in {"AddUser", "UpdateUser", "GetUserById", "GetVisistsByUserId"}
  THEN <<"users_">>
  ELSE IF c.op \in {"AddLocation", "UpdateLocation", "GetLocationById",
                    "GetAverageLocationMark"}
  THEN <<"locations_">>
  ELSE <<"visits_">>

UserEntry(u) == <<"users_to_visits_", u>>
LocationEntry(l) == <<"locations_to_visits_", l>>

Attributes(kind, id, names) == {<<kind, id, name>> : name \in names}

Kind(c) ==
  IF c.op \in {"UpdateUser", "GetUserById"} THEN "user"
  ELSE IF c.op \in {"UpdateLocation", "GetLocationById"} THEN "location" ELSE "visit"

When(condition, objects) == IF condition THEN objects ELSE {}

\* What a query reads of a visit and of its location or user.
Consulted(c, v) ==
  IF c.op = "GetVisistsByUserId"
  THEN Attributes("visit", v, {"location_id", "visited_at"})
       \cup Attributes("location", visits_[v].location_id, {"country", "distance"})
  ELSE Attributes("visit", v, {"user_id", "visited_at", "mark"})
       \cup Attributes("user", visits_[v].user_id, {"gender", "birth_date"})

\* And what a list prints of it.
Printed(v) ==
  Attributes("visit", v, {"location_id", "visited_at", "mark"})
  \cup Attributes("location", visits_[v].location_id, {"text"})

Present(visits) == {v \in visits : visits_[v] # None}

\* UpdateVisit replaces the time or the mark, whichever it is at.
Replaces(w) ==
  \/ /\ pc[w] = "visited_at"
     /\ call[w].arg.visited_at \notin {MaxTimestamp, visits_[call[w].id].visited_at}
  \/ /\ pc[w] = "mark"
     /\ call[w].arg.mark \notin {MaxMark, visits_[call[w].id].mark}

\* What w's next statement reads.
Reads(w) ==
  LET c == call[w]
      listing == c.op = "GetVisistsByUserId"
      looking == pc[w] \in {"count", "print"}
  IN UNION {
       When(pc[w] \in {"find", "gender", "distance"}, {Table(c)}),
       When(pc[w] \in {"write_location", "write_user"} \/ Replaces(w) \/ looking,
            {<<"visits_">>}),
       When(pc[w] \in {"user_index", "old_user", "enter_user"} \/ (pc[w] = "index" /\ listing),
            {<<"users_to_visits_">>}),
       When(pc[w] \in {"location_index", "old_location", "enter_location"}
              \/ (pc[w] = "index" /\ ~listing),
            {<<"locations_to_visits_">>}),
       When(pc[w] \in {"next", "count"},
            {IF listing THEN UserEntry(c.id) ELSE LocationEntry(c.id)}),
       When(looking, IF listing THEN {<<"locations_">>} ELSE {<<"users_">>}),
       When(pc[w] \in {"location", "old_location"}, Attributes("visit", c.id, {"location_id"})),
       When(pc[w] \in {"user", "old_user", "leave_user"}, Attributes("visit", c.id, {"user_id"})),
       When(pc[w] \in {"visited_at", "mark"}, Attributes("visit", c.id, {pc[w]})),
       When(pc[w] = "count", UNION {Consulted(c, v) : v \in Present({cursor[w]})}),
       When(pc[w] = "print",
            UNION {Printed(v) : v \in Present({x \in VisitIds : counted[w][x] > 0})}),
       When(pc[w] = "serialize",
            Attributes(Kind(c), c.id, {"text"} \cup DOMAIN Entity(c)))}

\* emplace through operator[] writes the multiset, and the table when the key is new.
GrowsAt(table, index, key) ==
  {<<table, key>>} \cup When(index[key] = None, {<<table>>})

\* What w's next statement writes.
Writes(w) ==
  LET c == call[w]
  IN UNION {
       When(pc[w] = "emplace", {Table(c)}),
       When(pc[w] \in {"user_index", "enter_user"},
            GrowsAt("users_to_visits_", users_to_visits_, c.arg.user_id)),
       When(pc[w] \in {"location_index", "enter_location"},
            GrowsAt("locations_to_visits_", locations_to_visits_, c.arg.location_id)),
       When(pc[w] = "leave_user", {UserEntry(from[w])}),
       When(pc[w] = "leave_location", {LocationEntry(from[w])}),
       When(pc[w] = "gender",
            Attributes("user", c.id, {"text"} \cup When(c.arg.gender # "Any", {"gender"}))),
       When(pc[w] = "birth_date" /\ c.arg.birth_date # MinTimestamp,
            Attributes("user", c.id, {"birth_date"})),
       When(pc[w] = "distance" /\ c.arg.distance # 0,
            Attributes("location", c.id, {"distance"})),
       When(pc[w] = "country",
            Attributes("location", c.id,
                       {"text"} \cup When(c.arg.country # NoText, {"country"}))),
       When(pc[w] = "write_location", Attributes("visit", c.id, {"location_id"})),
       When(pc[w] = "write_user", Attributes("visit", c.id, {"user_id"})),
       When(Replaces(w), Attributes("visit", c.id, {pc[w]}))}

Conflict(w, x) == Writes(w) \cap (Reads(x) \cup Writes(x)) # {}

Race ==
  /\ \E w, x \in Busy : w # x /\ Conflict(w, x)
  /\ undefined' = TRUE
  /\ UNCHANGED <<containers, indexes, call, pc, locals, answer, begun, history>>

Statement(w) ==
  \/ FindNothing(w) \/ FindEntity(w)
  \/ EmplaceUser(w) \/ EmplaceLocation(w)
  \/ EmplaceVisit(w) \/ IndexUser(w) \/ IndexLocation(w)
  \/ AssignGender(w) \/ AssignBirthDate(w) \/ AssignDistance(w) \/ AssignCountry(w)
  \/ CompareLocation(w) \/ FindOldLocation(w) \/ LeaveLocation(w)
  \/ EnterLocation(w) \/ WriteLocation(w)
  \/ CompareUser(w) \/ FindOldUser(w) \/ LeaveUser(w)
  \/ EnterUser(w) \/ WriteUser(w)
  \/ AssignVisitedAt(w) \/ AssignMark(w)
  \/ Serialize(w)
  \/ FindIndex(w) \/ NextVisit(w) \/ CountVisit(w) \/ EndOfVisits(w) \/ PrintVisits(w)

Next ==
  /\ ~undefined
  /\ \/ \E w \in Workers : Statement(w) \/ \E c \in Calls : Begin(w, c)
     \/ Race

Spec == Init /\ [][Next]_vars

-----------------------------------------------------------------------------
(***************************************************************************)
(* Properties.                                                             *)
(***************************************************************************)
\* The statements of each operation.
StatementsOf(op) ==
  UNION {
    {"find"},
    When(op \in Adds, {"emplace"}),
    When(op = "AddVisit", {"user_index", "location_index"}),
    When(op = "UpdateUser", {"gender", "birth_date"}),
    When(op = "UpdateLocation", {"distance", "country"}),
    When(op = "UpdateVisit",
         {"location", "old_location", "leave_location", "enter_location",
          "write_location", "user", "old_user", "leave_user", "enter_user",
          "write_user", "visited_at", "mark"}),
    When(op \in Gets, {"serialize"}),
    When(op \in Queries, {"index", "next", "count"}),
    When(op = "GetVisistsByUserId", {"print"})}

Answers ==
  {None, EntityNotFound, EntitySuccessfullyUpdated,
   EntityAlreadyExist, EntitySuccessfullyAdded}
  \cup ({"Entity"} \X (User \cup Location \cup Visit))
  \cup ({"Counts"} \X Multiset)

\* The containers hold what the single-threaded storage holds, and a worker
\* between two calls keeps nothing of the last one but its answer.
TypeOK ==
  /\ users_ \in [UserIds -> User \cup {None}]
  /\ locations_ \in [LocationIds -> Location \cup {None}]
  /\ visits_ \in [VisitIds -> Visit \cup {None}]
  /\ users_to_visits_ \in [UserIds -> Multiset \cup {None}]
  /\ locations_to_visits_ \in [LocationIds -> Multiset \cup {None}]
  /\ call \in [Workers -> Calls \cup {None}]
  /\ pc = [w \in Workers |-> pc[w]]
  /\ from \in [Workers -> UserIds \cup LocationIds \cup {None}]
  /\ cursor \in [Workers -> VisitIds \cup {-1}]
  /\ counted \in [Workers -> Multiset]
  /\ answer \in [Workers -> Answers]
  /\ begun \in 0..MaxCalls
  /\ undefined \in BOOLEAN
  /\ overlapped \subseteq VisitIds
  /\ steady \in [Workers -> SUBSET VisitIds]
  /\ \A w \in Workers :
       IF call[w] = None THEN pc[w] = "idle" ELSE pc[w] \in StatementsOf(call[w].op)

\* The visits nobody is changing and of which no two changes ever overlapped.
Settled == {v \in VisitIds \ overlapped : \A w \in Busy : ~ChangesVisit(call[w], v)}

\* Whatever the workers do to other visits in between, a visit whose changes
\* never overlapped is, when they are done, in the multiset of its location,
\* once, and in that of no other location.
SettledVisitsAtTheirLocation ==
  \A v \in Settled, l \in LocationIds :
    Copies(locations_to_visits_, l, v) =
      IF visits_[v] # None /\ visits_[v].location_id = l THEN 1 ELSE 0

\* UpdateVisit takes the wrong id out of the old user's multiset: that of the
\* visit's user, which is the old user itself unless another change of the visit
\* has come in between.  So the entry of v under the user u is out of its reach
\* if v does not have u's id, nor, once two changes have overlapped, any user's.
Spared(v, u) == v # u /\ (overlapped = {} \/ v \notin UserIds)

\* And its user's list does not miss it, unless it is the one visit UpdateVisit
\* takes out of the lists of others: the visit with the id of its user.
SettledVisitsUnderTheirUser ==
  \A v \in Settled :
    visits_[v] # None /\ Spared(v, visits_[v].user_id) =>
      Copies(users_to_visits_, visits_[v].user_id, v) >= 1

\* The query has walked to the end of its multiset.
Walked(w, op) == At(w, op, "next") /\ Ahead(w) = {}

\* Moves, additions and other queries going on around it do not falsify what
\* an average counts of the visits nobody touches: each one that is at the
\* location and passes the filters is counted once, and no other.
SteadyVisitsAveraged ==
  \A w \in Busy : Walked(w, "GetAverageLocationMark") =>
    \A v \in steady[w] \ overlapped :
      counted[w][v] = IF /\ visits_[v] # None
                         /\ visits_[v].location_id = call[w].id
                         /\ Selected(call[w], v)
                      THEN 1 ELSE 0

\* A visit that leaves the location and comes back while an average walks its
\* multiset is still not counted twice: the walk goes by id and never back.
NeverCountedTwice ==
  \A w \in Busy : call[w].op = "GetAverageLocationMark" =>
    \A v \in VisitIds \ overlapped : counted[w][v] <= 1

\* A user's list misses none of the user's visits that nobody touches, unless it
\* is the visit with the user's id, which the hand-over of any other visit of the
\* user takes out.
SteadyVisitsListed ==
  \A w \in Busy : Walked(w, "GetVisistsByUserId") =>
    \A v \in steady[w] \ overlapped :
      /\ visits_[v] # None
      /\ visits_[v].user_id = call[w].id
      /\ Spared(v, call[w].id)
      /\ Selected(call[w], v)
      => counted[w][v] >= 1

\* Two AddVisit calls may both find the id free and both answer that they
\* added it; the visit of the one that emplaced first stays, and from then on
\* only an UpdateVisit of that id changes it.
VisitsStay ==
  [][\A v \in VisitIds :
       visits_[v] # None /\ visits_'[v] # visits_[v] =>
         \E w \in Busy : call[w].op = "UpdateVisit" /\ call[w].id = v]_vars

(***************************************************************************)
(* The refinement.  A change takes effect when its look-up has found what  *)
(* it needs: from then on the visit is promised as the statements that are *)
(* left will make it.                                                      *)
(***************************************************************************)
Taken ==
  {w \in Busy : pc[w] # "find" /\ call[w].op \in {"AddVisit", "UpdateVisit"}}

Promised(v) ==
  IF v \in overlapped THEN None
  ELSE IF \E w \in Taken : call[w].id = v
  THEN LET c == call[CHOOSE w \in Taken : call[w].id = v]
       IN IF c.op = "AddVisit" THEN c.arg ELSE UpdatedVisit(visits_[v], c.arg)
  ELSE visits_[v]

PromisedVisits == [v \in VisitIds |-> Promised(v)]

Promise == INSTANCE VisitChanges WITH
  visits <- PromisedVisits, taken <- Taken, contested <- overlapped

\* Although an update is a dozen statements with others in between, a change of
\* a visit that no other change overlaps is never half done or lost: it happens
\* as if at once, to the visit as the last change left it, and is answered by
\* what it found.
ImplementsVisitChanges == Promise!Spec
=============================================================================
