---------------------- MODULE ConcurrentStorage_proofs ----------------------
(***************************************************************************)
(* What the worker threads cannot spoil, for any number of workers, calls, *)
(* entities and queries.                                                   *)
(***************************************************************************)
EXTENDS ConcurrentStorage, TLAPS

(***************************************************************************)
(* Calls and their statements.                                             *)
(***************************************************************************)
\* A call carries an id and an argument of the kind its operation takes.
LEMMA CallLemma ==
  ASSUME NEW c \in Call
  PROVE  /\ c.op \in Adds \cup Updates \cup Gets \cup Queries
         /\ c.op \in {"AddUser", "UpdateUser", "GetUserById", "GetVisistsByUserId"}
              => c.id \in UserIds
         /\ c.op \in {"AddLocation", "UpdateLocation", "GetLocationById",
                      "GetAverageLocationMark"} => c.id \in LocationIds
         /\ c.op \in {"AddVisit", "UpdateVisit", "GetVisitById"} => c.id \in VisitIds
         /\ c.op = "AddUser" => c.arg \in User
         /\ c.op = "AddLocation" => c.arg \in Location
         /\ c.op = "AddVisit" => c.arg \in Visit
         /\ c.op = "UpdateUser" => c.arg \in UserUpdates
         /\ c.op = "UpdateLocation" => c.arg \in LocationUpdates
         /\ c.op = "UpdateVisit" => c.arg \in VisitUpdates
  <1>1. CASE c \in AddCall
    BY <1>1 DEF AddCall, Adds, Updates, Gets, Queries
  <1>2. CASE c \in UpdateCall
    BY <1>2 DEF UpdateCall, Adds, Updates, Gets, Queries
  <1>3. CASE c \in GetCall
    BY <1>3 DEF GetCall, Adds, Updates, Gets, Queries
  <1>4. QED
    BY <1>1, <1>2, <1>3 DEF Call

\* The statements of an operation, one by one.
LEMMA StatementLemma ==
  ASSUME NEW op, NEW s
  PROVE  s \in StatementsOf(op) <=>
           \/ s = "find"
           \/ op \in Adds /\ s = "emplace"
           \/ op = "AddVisit" /\ s \in {"user_index", "location_index"}
           \/ op = "UpdateUser" /\ s \in {"gender", "birth_date"}
           \/ op = "UpdateLocation" /\ s \in {"distance", "country"}
           \/ /\ op = "UpdateVisit"
              /\ s \in {"location", "old_location", "leave_location", "enter_location",
                        "write_location", "user", "old_user", "leave_user", "enter_user",
                        "write_user", "visited_at", "mark"}
           \/ op \in Gets /\ s = "serialize"
           \/ op \in Queries /\ s \in {"index", "next", "count"}
           \/ op = "GetVisistsByUserId" /\ s = "print"
  BY DEF StatementsOf, When

\* No operation is idle.
LEMMA IdleLemma == \A op : "idle" \notin StatementsOf(op)
  BY StatementLemma

\* The two halves of the type invariant: what the workers share and what each
\* keeps of its own.
Contents ==
  /\ users_ \in [UserIds -> User \cup {None}]
  /\ locations_ \in [LocationIds -> Location \cup {None}]
  /\ visits_ \in [VisitIds -> Visit \cup {None}]
  /\ users_to_visits_ \in [UserIds -> Multiset \cup {None}]
  /\ locations_to_visits_ \in [LocationIds -> Multiset \cup {None}]

Control ==
  /\ call \in [Workers -> Calls \cup {None}]
  /\ pc = [w \in Workers |-> pc[w]]
  /\ from \in [Workers -> UserIds \cup LocationIds \cup {None}]
  /\ cursor \in [Workers -> VisitIds \cup {-1}]
  /\ counted \in [Workers -> Multiset]
  /\ answer \in [Workers -> Answers]
  /\ begun \in 0..MaxCalls
  /\ undefined \in BOOLEAN
  /\ overlapped \subseteq VisitIds
  /\ steady \in [Workers -> SUBSET VisitIds]
  /\ \A w \in Workers :
       IF call[w] = None THEN pc[w] = "idle" ELSE pc[w] \in StatementsOf(call[w].op)

\* Together they are the type invariant.
LEMMA TypeSplit == TypeOK <=> Contents /\ Control
  BY DEF TypeOK, Contents, Control

\* After a step as well.
LEMMA TypeSplitNext == Contents' /\ Control' => TypeOK'
  BY DEF TypeOK, Contents, Control

\* A worker with a next statement is in a call, and the statement is of that
\* call's operation.
LEMMA BusyLemma ==
  ASSUME Control, NEW w \in Workers, pc[w] # "idle"
  PROVE  /\ call[w] \in Calls /\ call[w] \in Call /\ call[w] # None
         /\ pc[w] \in StatementsOf(call[w].op)
         /\ w \in Busy
  BY CallsAssumption DEF Control, CallsAssumption, Busy

\* And a worker without one is in none.
LEMMA RestLemma ==
  ASSUME Control, NEW w \in Workers, call[w] # None
  PROVE  pc[w] # "idle"
  BY IdleLemma DEF Control

(***************************************************************************)
(* Type correctness.                                                       *)
(***************************************************************************)
\* What emplace makes of an index.
LEMMA EmplaceLemma ==
  ASSUME NEW K, NEW index \in [K -> Multiset \cup {None}],
         NEW key \in K, NEW v \in VisitIds
  PROVE  /\ EmplaceAt(index, key, v) \in [K -> Multiset \cup {None}]
         /\ \A k \in K : index[k] # None => EmplaceAt(index, key, v)[k] # None
         /\ \A k \in K, x \in VisitIds :
              /\ Copies(index, k, x) \in Nat
              /\ Copies(EmplaceAt(index, key, v), k, x) =
                   IF k = key /\ x = v THEN Copies(index, k, x) + 1 ELSE Copies(index, k, x)
  <1> None \notin Multiset
    BY CallsAssumption DEF CallsAssumption
  <1>1. \A k \in K, x \in VisitIds : Copies(index, k, x) \in Nat
    BY DEF Copies, Multiset
  <1>2. [x \in VisitIds |-> Copies(index, key, x) + (IF x = v THEN 1 ELSE 0)] \in Multiset
    BY <1>1 DEF Multiset
  <1>3. EmplaceAt(index, key, v) \in [K -> Multiset \cup {None}]
    BY <1>2 DEF EmplaceAt
  <1>4. \A k \in K : index[k] # None => EmplaceAt(index, key, v)[k] # None
    BY <1>2 DEF EmplaceAt
  <1>5. ASSUME NEW k \in K, NEW x \in VisitIds
        PROVE  Copies(EmplaceAt(index, key, v), k, x) =
                 IF k = key /\ x = v THEN Copies(index, k, x) + 1 ELSE Copies(index, k, x)
    <2>1. CASE k = key
      <3>1. EmplaceAt(index, key, v)[k] =
              [y \in VisitIds |-> Copies(index, key, y) + (IF y = v THEN 1 ELSE 0)]
        BY <2>1 DEF EmplaceAt
      <3>2. Copies(EmplaceAt(index, key, v), k, x) =
              Copies(index, key, x) + (IF x = v THEN 1 ELSE 0)
        BY <3>1, <1>2 DEF Copies
      <3>3. QED
        BY <3>2, <2>1, <1>1
    <2>2. CASE k # key
      BY <2>2 DEF EmplaceAt, Copies
    <2>3. QED
      BY <2>1, <2>2
  <1>6. QED
    BY <1>1, <1>3, <1>4, <1>5

\* What erase makes of it.
LEMMA EraseLemma ==
  ASSUME NEW K, NEW index \in [K -> Multiset \cup {None}], NEW key \in K, NEW id
  PROVE  /\ EraseAt(index, key, id) \in [K -> Multiset \cup {None}]
         /\ \A k \in K : index[k] # None => EraseAt(index, key, id)[k] # None
         /\ \A k \in K, x \in VisitIds :
              /\ Copies(index, k, x) \in Nat
              /\ Copies(EraseAt(index, key, id), k, x) =
                   IF k = key /\ x = id THEN 0 ELSE Copies(index, k, x)
  <1> None \notin Multiset
    BY CallsAssumption DEF CallsAssumption
  <1>1. \A k \in K, x \in VisitIds : Copies(index, k, x) \in Nat
    BY DEF Copies, Multiset
  <1>2. [x \in VisitIds |-> IF x = id THEN 0 ELSE Copies(index, key, x)] \in Multiset
    BY <1>1 DEF Multiset
  <1>3. EraseAt(index, key, id) \in [K -> Multiset \cup {None}]
    BY <1>2 DEF EraseAt
  <1>4. \A k \in K : index[k] # None => EraseAt(index, key, id)[k] # None
    BY <1>2 DEF EraseAt
  <1>5. ASSUME NEW k \in K, NEW x \in VisitIds
        PROVE  Copies(EraseAt(index, key, id), k, x) =
                 IF k = key /\ x = id THEN 0 ELSE Copies(index, k, x)
    <2>1. CASE k = key
      <3>1. EraseAt(index, key, id)[k] =
              [y \in VisitIds |-> IF y = id THEN 0 ELSE Copies(index, key, y)]
        BY <2>1 DEF EraseAt
      <3>2. QED
        BY <3>1, <1>2, <2>1 DEF Copies
    <2>2. CASE k # key
      BY <2>2 DEF EraseAt, Copies
    <2>3. QED
      BY <2>1, <2>2
  <1>6. QED
    BY <1>1, <1>3, <1>4, <1>5

\* Whatever a call returns is an answer.
LEMMA AnswersLemma ==
  /\ EntityNotFound \in Answers /\ EntitySuccessfullyUpdated \in Answers
  /\ EntityAlreadyExist \in Answers /\ EntitySuccessfullyAdded \in Answers
  /\ None \in Answers
  /\ \A e \in User \cup Location \cup Visit : <<"Entity", e>> \in Answers
  /\ \A m \in Multiset : <<"Counts", m>> \in Answers
  BY DEF Answers

\* The empty multiset is one.
LEMMA EmptyLemma == EmptyMultiset \in Multiset
  BY DEF EmptyMultiset, Multiset

\* A statement of w leaves what the other workers hold alone, and w in its call
\* unless it returns.
Keeps(w) ==
  /\ call'[w] = call[w] \/ pc'[w] = "idle"
  /\ \A x \in Workers \ {w} :
       /\ call'[x] = call[x] /\ pc'[x] = pc[x]
       /\ from'[x] = from[x] /\ cursor'[x] = cursor[x] /\ counted'[x] = counted[x]
       /\ answer'[x] = answer[x] /\ steady'[x] = steady[x]
  /\ UNCHANGED <<begun, undefined, overlapped>>

\* A worker that goes on to a statement of its call keeps what it holds typed.
LEMMA GotoLemma ==
  ASSUME Control, NEW w \in Workers, NEW s \in StatementsOf(call[w].op),
         pc[w] # "idle", Goto(w, s),
         from' \in [Workers -> UserIds \cup LocationIds \cup {None}],
         cursor' \in [Workers -> VisitIds \cup {-1}],
         counted' \in [Workers -> Multiset],
         \A x \in Workers \ {w} :
           from'[x] = from[x] /\ cursor'[x] = cursor[x] /\ counted'[x] = counted[x]
  PROVE  /\ Control' /\ Keeps(w)
         /\ pc'[w] = s /\ call'[w] = call[w] /\ steady'[w] = steady[w]
  <1>1. call[w] # None
    BY BusyLemma
  <1>2. /\ pc' = [pc EXCEPT ![w] = s]
        /\ UNCHANGED <<call, answer, begun, undefined, overlapped, steady>>
    BY DEF Goto, history
  <1>3. pc' = [x \in Workers |-> pc'[x]] /\ pc'[w] = s
    BY <1>2 DEF Control
  <1>4. ASSUME NEW x \in Workers
        PROVE  IF call'[x] = None THEN pc'[x] = "idle" ELSE pc'[x] \in StatementsOf(call'[x].op)
    BY <1>1, <1>2 DEF Control
  <1>5. Control'
    BY <1>2, <1>3, <1>4 DEF Control
  <1>6. Keeps(w)
    BY <1>2 DEF Keeps, Control
  <1>7. QED
    BY <1>2, <1>3, <1>5, <1>6

\* So does one whose iterators stay.
LEMMA ProceedLemma ==
  ASSUME Control, NEW w \in Workers, NEW s \in StatementsOf(call[w].op),
         pc[w] # "idle", Proceed(w, s)
  PROVE  /\ Control' /\ Keeps(w)
         /\ pc'[w] = s /\ call'[w] = call[w] /\ steady'[w] = steady[w]
         /\ from'[w] = from[w] /\ cursor'[w] = cursor[w] /\ counted'[w] = counted[w]
  <1>1. Goto(w, s) /\ UNCHANGED <<from, cursor, counted>>
    BY DEF Proceed, locals
  <1>2. /\ from' \in [Workers -> UserIds \cup LocationIds \cup {None}]
        /\ cursor' \in [Workers -> VisitIds \cup {-1}]
        /\ counted' \in [Workers -> Multiset]
    BY <1>1 DEF Control
  <1>3. QED
    BY <1>1, <1>2, GotoLemma

\* And one that returns an answer.
LEMMA ReturnLemma ==
  ASSUME Control, NEW w \in Workers, NEW result \in Answers, Return(w, result)
  PROVE  /\ Control' /\ Keeps(w)
         /\ pc'[w] = "idle" /\ call'[w] = None
  <1>1. Control'
    BY EmptyLemma DEF Return, Control
  <1>2. Keeps(w)
    BY DEF Return, Control, Keeps
  <1>3. QED
    BY <1>1, <1>2 DEF Return, Control

(***************************************************************************)
(* What every statement may rely on: the entity it works on is there, a    *)
(* move has somewhere to go to, and a query has something to walk.         *)
(***************************************************************************)
Early == {"idle", "find", "emplace", "user_index", "location_index"}

Sound(w) ==
  /\ pc[w] \notin Early => Entity(call[w]) # None
  /\ pc[w] \in {"old_location", "leave_location", "enter_location", "write_location"}
       => call[w].arg.location_id \in LocationIds
  /\ pc[w] \in {"old_user", "leave_user", "enter_user", "write_user"}
       => call[w].arg.user_id \in UserIds
  /\ pc[w] = "leave_location" => from[w] \in LocationIds
  /\ pc[w] = "leave_user" => from[w] \in UserIds
  /\ pc[w] \in {"next", "count"} => Indexed(call[w]) # None
  /\ pc[w] = "count" => cursor[w] \in VisitIds

\* Entities and entries stay.
Grows ==
  /\ \A u \in UserIds : users_[u] # None => users_'[u] # None
  /\ \A l \in LocationIds : locations_[l] # None => locations_'[l] # None
  /\ \A v \in VisitIds : visits_[v] # None => visits_'[v] # None
  /\ \A u \in UserIds : users_to_visits_[u] # None => users_to_visits_'[u] # None
  /\ \A l \in LocationIds : locations_to_visits_[l] # None => locations_to_visits_'[l] # None

\* Then what a worker relies on stays too.
LEMMA SoundStays ==
  ASSUME Control, NEW x \in Workers, Sound(x), Grows,
         call'[x] = call[x], pc'[x] = pc[x], from'[x] = from[x], cursor'[x] = cursor[x]
  PROVE  Sound(x)'
  <1>1. CASE pc[x] = "idle"
    BY <1>1 DEF Sound, Early
  <1>2. CASE pc[x] # "idle"
    <2>1. call[x] \in Call /\ pc[x] \in StatementsOf(call[x].op)
      BY <1>2, BusyLemma
    <2>2. Entity(call[x]) # None => Entity(call[x])' # None
      BY <2>1, CallLemma DEF Entity, Grows, Adds, Updates, Gets, Queries
    <2>3. pc[x] \in {"next", "count"} => call[x].op \in Queries
      BY <2>1, StatementLemma
    <2>4. /\ pc[x] \in {"next", "count"} /\ Indexed(call[x]) # None
          => Indexed(call[x])' # None
      BY <2>1, <2>3, CallLemma DEF Indexed, Grows, Queries
    <2>5. QED
      BY <2>2, <2>4 DEF Sound
  <1>3. QED
    BY <1>1, <1>2

\* What a statement of w does.
Safe(w) == Contents' /\ Control' /\ Keeps(w) /\ Grows /\ Sound(w)'

\* A statement that returns and changes nothing is safe.
LEMMA SafeReturn ==
  ASSUME Contents, Control, NEW w \in Workers, NEW result \in Answers, Return(w, result),
         UNCHANGED <<containers, indexes>>
  PROVE  Safe(w)
  <1>1. Contents' /\ Grows
    BY DEF containers, indexes, Contents, Grows
  <1>2. QED
    BY <1>1, ReturnLemma DEF Safe, Sound, Early

\* So is one that goes on and changes nothing, if the next may rely on what it
\* relies on.
LEMMA SafeProceed ==
  ASSUME Contents, Control, NEW w \in Workers, NEW s \in StatementsOf(call[w].op),
         pc[w] # "idle", Proceed(w, s), UNCHANGED <<containers, indexes>>,
         s \notin Early => Entity(call[w]) # None,
         s \in {"old_location", "enter_location"} => call[w].arg.location_id \in LocationIds,
         s \in {"old_user", "enter_user"} => call[w].arg.user_id \in UserIds,
         s \notin {"leave_location", "write_location", "leave_user", "write_user", "count"},
         s = "next" => Indexed(call[w]) # None
  PROVE  Safe(w)
  <1>1. Contents' /\ Grows
    BY DEF containers, indexes, Contents, Grows
  <1>2. Control' /\ Keeps(w) /\ pc'[w] = s /\ call'[w] = call[w]
    BY ProceedLemma
  <1>3. Entity(call[w])' = Entity(call[w]) /\ Indexed(call[w])' = Indexed(call[w])
    BY <1>2 DEF Entity, Indexed, containers, indexes
  <1>4. Sound(w)'
    BY <1>2, <1>3 DEF Sound
  <1>5. QED
    BY <1>1, <1>2, <1>4 DEF Safe

\* The loaded data are of the right kinds.
LEMMA TypeInit == Init => TypeOK
  <1> SUFFICES ASSUME Init
               PROVE  TypeOK
    OBVIOUS
  <1>1. ASSUME NEW K, NEW Key(_)
        PROVE  Mapped(K, Key) \in [K -> Multiset \cup {None}]
    BY DEF Mapped, Multiset
  <1>2. /\ users_to_visits_ \in [UserIds -> Multiset \cup {None}]
        /\ locations_to_visits_ \in [LocationIds -> Multiset \cup {None}]
    BY <1>1 DEF Init
  <1>3. MaxCalls \in Nat
    BY CallsAssumption DEF CallsAssumption
  <1>4. Contents
    BY <1>2, LoadedAssumption DEF Init, LoadedAssumption, Contents
  <1>5. Control
    <2>1. begun \in 0..MaxCalls
      BY <1>3 DEF Init
    <2>2. /\ counted \in [Workers -> Multiset]
          /\ answer \in [Workers -> Answers]
      BY EmptyLemma, AnswersLemma DEF Init
    <2>3. QED
      BY <2>1, <2>2 DEF Init, Control
  <1>6. QED
    BY <1>4, <1>5, TypeSplit

\* Where each statement of an operation may lead.
LEMMA NextStatement ==
  /\ \A op \in Adds : "emplace" \in StatementsOf(op)
  /\ {"user_index", "location_index"} \subseteq StatementsOf("AddVisit")
  /\ {"gender", "birth_date"} \subseteq StatementsOf("UpdateUser")
  /\ {"distance", "country"} \subseteq StatementsOf("UpdateLocation")
  /\ {"location", "old_location", "leave_location", "enter_location", "write_location",
      "user", "old_user", "leave_user", "enter_user", "write_user", "visited_at", "mark"}
       \subseteq StatementsOf("UpdateVisit")
  /\ \A op \in Gets : "serialize" \in StatementsOf(op)
  /\ \A op \in Queries : {"index", "next", "count"} \subseteq StatementsOf(op)
  /\ "print" \in StatementsOf("GetVisistsByUserId")
  BY StatementLemma DEF Updates

\* A visit's location and user are among the keys.
LEMMA VisitLemma ==
  /\ \A visit \in Visit : visit.location_id \in LocationIds /\ visit.user_id \in UserIds
  /\ \A update \in VisitUpdates :
       /\ update.location_id \in LocationIds \cup {NoId}
       /\ update.user_id \in UserIds \cup {NoId}
       /\ update.visited_at \in Timestamps \cup {MaxTimestamp}
       /\ update.mark \in Marks \cup {MaxMark}
  BY DEF Visit, VisitUpdates

\* Looking the entity up.
LEMMA SafeFind ==
  ASSUME Contents, Control, NEW w \in Workers, FindNothing(w) \/ FindEntity(w)
  PROVE  Safe(w)
  <1> DEFINE c == call[w]
  <1>1. /\ pc[w] = "find" /\ pc[w] # "idle" /\ UNCHANGED <<containers, indexes>>
    BY DEF FindNothing, FindEntity
  <1>2. c \in Call /\ pc[w] \in StatementsOf(c.op)
    BY <1>1, BusyLemma
  <1>3. CASE FindNothing(w)
    <2>1. CASE c.op \in Adds /\ Proceed(w, "emplace")
      BY <2>1, <1>1, NextStatement, SafeProceed DEF Early
    <2>2. CASE Return(w, EntityNotFound)
      BY <2>2, <1>1, AnswersLemma, SafeReturn
    <2>3. CASE Return(w, None)
      BY <2>3, <1>1, AnswersLemma, SafeReturn
    <2>4. QED
      BY <2>1, <2>2, <2>3, <1>3, Zenon DEF FindNothing
  <1>4. CASE FindEntity(w)
    <2>1. Entity(c) # None
      BY <1>4 DEF FindEntity
    <2>2. CASE Return(w, EntityAlreadyExist)
      BY <2>2, <1>1, AnswersLemma, SafeReturn
    <2>3. CASE \/ c.op = "UpdateUser" /\ Proceed(w, "gender")
               \/ c.op = "UpdateLocation" /\ Proceed(w, "distance")
      BY <2>1, <2>3, <1>1, NextStatement, SafeProceed
    <2>4. CASE c.op = "UpdateVisit" /\ Proceed(w, "location")
      BY <2>1, <2>4, <1>1, NextStatement, SafeProceed
    <2>5. CASE c.op \in Gets /\ Proceed(w, "serialize")
      BY <2>1, <2>5, <1>1, NextStatement, SafeProceed
    <2>6. CASE c.op \in Queries /\ Proceed(w, "index")
      BY <2>1, <2>6, <1>1, NextStatement, SafeProceed
    <2>7. QED
      BY <2>2, <2>3, <2>4, <2>5, <2>6, <1>4, Zenon DEF FindEntity
  <1>5. QED
    BY <1>3, <1>4

\* Adding an entity.
LEMMA SafeEmplace ==
  ASSUME Contents, Control, NEW w \in Workers,
         EmplaceUser(w) \/ EmplaceLocation(w) \/ EmplaceVisit(w)
  PROVE  Safe(w)
  <1> DEFINE c == call[w]
  <1>1. c \in Call
    BY BusyLemma DEF EmplaceUser, EmplaceLocation, EmplaceVisit, At
  <1>2. CASE EmplaceUser(w)
    <2>1. c.id \in UserIds /\ c.arg \in User
      BY <1>1, <1>2, CallLemma DEF EmplaceUser, At
    <2>2. Contents' /\ Grows
      BY <1>2, <2>1, NoneAssumption DEF EmplaceUser, EmplaceEntity, indexes, Contents, Grows,
         NoneAssumption
    <2>3. Control' /\ Keeps(w) /\ Sound(w)'
      BY <1>2, AnswersLemma, ReturnLemma DEF EmplaceUser, Sound, Early
    <2>4. QED
      BY <2>2, <2>3 DEF Safe
  <1>3. CASE EmplaceLocation(w)
    <2>1. c.id \in LocationIds /\ c.arg \in Location
      BY <1>1, <1>3, CallLemma DEF EmplaceLocation, At
    <2>2. Contents' /\ Grows
      BY <1>3, <2>1, NoneAssumption DEF EmplaceLocation, EmplaceEntity, indexes, Contents,
         Grows, NoneAssumption
    <2>3. Control' /\ Keeps(w) /\ Sound(w)'
      BY <1>3, AnswersLemma, ReturnLemma DEF EmplaceLocation, Sound, Early
    <2>4. QED
      BY <2>2, <2>3 DEF Safe
  <1>4. CASE EmplaceVisit(w)
    <2>1. c.op = "AddVisit" /\ c.id \in VisitIds /\ c.arg \in Visit /\ pc[w] # "idle"
      BY <1>1, <1>4, CallLemma DEF EmplaceVisit, At
    <2>2. Contents' /\ Grows
      BY <1>4, <2>1, NoneAssumption DEF EmplaceVisit, EmplaceEntity, indexes, Contents, Grows,
         NoneAssumption
    <2>3. Control' /\ Keeps(w) /\ pc'[w] = "user_index"
      BY <1>4, <2>1, NextStatement, ProceedLemma DEF EmplaceVisit
    <2>4. Sound(w)'
      BY <2>3 DEF Sound, Early
    <2>5. QED
      BY <2>2, <2>3, <2>4 DEF Safe
  <1>5. QED
    BY <1>2, <1>3, <1>4

\* Putting an added visit into the indexes.
LEMMA SafeIndex ==
  ASSUME Contents, Control, NEW w \in Workers, IndexUser(w) \/ IndexLocation(w)
  PROVE  Safe(w)
  <1> DEFINE c == call[w]
  <1>1. c.op = "AddVisit" /\ pc[w] # "idle"
    BY DEF IndexUser, IndexLocation, At
  <1>2. c.id \in VisitIds /\ c.arg.user_id \in UserIds /\ c.arg.location_id \in LocationIds
    BY <1>1, BusyLemma, CallLemma, VisitLemma
  <1> None \notin Multiset
    BY CallsAssumption DEF CallsAssumption
  <1>3. CASE IndexUser(w)
    <2>1. EmplaceAt(users_to_visits_, c.arg.user_id, c.id) \in [UserIds -> Multiset \cup {None}]
      BY <1>2, EmplaceLemma DEF Contents
    <2>2. Contents'
      BY <1>3, <2>1 DEF IndexUser, containers, Contents
    <2>3. Grows
      <3>1. \A u \in UserIds : users_to_visits_[u] # None =>
              EmplaceAt(users_to_visits_, c.arg.user_id, c.id)[u] # None
        BY <1>2, EmplaceLemma DEF Contents
      <3>2. QED
        BY <1>3, <3>1 DEF IndexUser, containers, Grows
    <2>4. Control' /\ Keeps(w) /\ pc'[w] = "location_index"
      BY <1>3, <1>1, NextStatement, ProceedLemma DEF IndexUser
    <2>5. Sound(w)'
      BY <2>4 DEF Sound, Early
    <2>6. QED
      BY <2>2, <2>3, <2>4, <2>5 DEF Safe
  <1>4. CASE IndexLocation(w)
    <2>1. EmplaceAt(locations_to_visits_, c.arg.location_id, c.id)
            \in [LocationIds -> Multiset \cup {None}]
      BY <1>2, EmplaceLemma DEF Contents
    <2>2. Contents'
      BY <1>4, <2>1 DEF IndexLocation, containers, Contents
    <2>3. Grows
      BY <1>4, <1>2, EmplaceLemma DEF IndexLocation, containers, Contents, Grows
    <2>4. Control' /\ Keeps(w) /\ Sound(w)'
      BY <1>4, AnswersLemma, ReturnLemma DEF IndexLocation, Sound, Early
    <2>5. QED
      BY <2>2, <2>3, <2>4 DEF Safe
  <1>5. QED
    BY <1>3, <1>4

\* Assigning an attribute of a user.
LEMMA SafeAssignUser ==
  ASSUME Contents, Control, NEW w \in Workers, Sound(w), AssignGender(w) \/ AssignBirthDate(w)
  PROVE  Safe(w)
  <1> DEFINE c == call[w]
  <1>1. c \in Call /\ Entity(c) # None /\ c.op = "UpdateUser" /\ pc[w] # "idle"
    BY BusyLemma DEF AssignGender, AssignBirthDate, At, Sound, Early
  <1>2. c.id \in UserIds /\ c.arg \in UserUpdates
    BY <1>1, CallLemma
  <1>3. users_[c.id] \in User
    BY <1>1, <1>2 DEF Entity, Contents
  <1>4. CASE AssignGender(w)
    <2>1. users_' = [users_ EXCEPT ![c.id].gender = Given(c.arg.gender, "Any", @)]
      BY <1>4 DEF AssignGender
    <2>2. [users_[c.id] EXCEPT !.gender = Given(c.arg.gender, "Any", @)] \in User
      BY <1>2, <1>3 DEF User, UserUpdates, Given
    <2>3. Contents' /\ Grows
      BY <1>2, <1>4, <2>1, <2>2, NoneAssumption
      DEF AssignGender, indexes, Contents, Grows, NoneAssumption
    <2>4. Control' /\ Keeps(w) /\ pc'[w] = "birth_date" /\ call'[w] = c
      BY <1>1, <1>4, NextStatement, ProceedLemma DEF AssignGender
    <2>5. Sound(w)'
      BY <1>1, <1>2, <2>3, <2>4 DEF Sound, Entity, Grows
    <2>6. QED
      BY <2>3, <2>4, <2>5 DEF Safe
  <1>5. CASE AssignBirthDate(w)
    <2>1. users_' = [users_ EXCEPT ![c.id].birth_date = Given(c.arg.birth_date, MinTimestamp, @)]
      BY <1>5 DEF AssignBirthDate
    <2>2. [users_[c.id] EXCEPT !.birth_date = Given(c.arg.birth_date, MinTimestamp, @)] \in User
      BY <1>2, <1>3 DEF User, UserUpdates, Given
    <2>3. Contents' /\ Grows
      BY <1>2, <1>5, <2>1, <2>2, NoneAssumption
      DEF AssignBirthDate, indexes, Contents, Grows, NoneAssumption
    <2>4. Control' /\ Keeps(w) /\ Sound(w)'
      BY <1>5, AnswersLemma, ReturnLemma DEF AssignBirthDate, Sound, Early
    <2>5. QED
      BY <2>3, <2>4 DEF Safe
  <1>6. QED
    BY <1>4, <1>5

\* And of a location.
LEMMA SafeAssignLocation ==
  ASSUME Contents, Control, NEW w \in Workers, Sound(w), AssignDistance(w) \/ AssignCountry(w)
  PROVE  Safe(w)
  <1> DEFINE c == call[w]
  <1>1. c \in Call /\ Entity(c) # None /\ c.op = "UpdateLocation" /\ pc[w] # "idle"
    BY BusyLemma DEF AssignDistance, AssignCountry, At, Sound, Early
  <1>2. c.id \in LocationIds /\ c.arg \in LocationUpdates
    BY <1>1, CallLemma
  <1>3. locations_[c.id] \in Location
    BY <1>1, <1>2 DEF Entity, Contents
  <1>4. CASE AssignDistance(w)
    <2>1. locations_' = [locations_ EXCEPT ![c.id].distance = Given(c.arg.distance, 0, @)]
      BY <1>4 DEF AssignDistance
    <2>2. [locations_[c.id] EXCEPT !.distance = Given(c.arg.distance, 0, @)] \in Location
      BY <1>2, <1>3 DEF Location, LocationUpdates, Given
    <2>3. Contents' /\ Grows
      BY <1>2, <1>4, <2>1, <2>2, NoneAssumption
      DEF AssignDistance, indexes, Contents, Grows, NoneAssumption
    <2>4. Control' /\ Keeps(w) /\ pc'[w] = "country" /\ call'[w] = c
      BY <1>1, <1>4, NextStatement, ProceedLemma DEF AssignDistance
    <2>5. Sound(w)'
      BY <1>1, <1>2, <2>3, <2>4 DEF Sound, Entity, Grows
    <2>6. QED
      BY <2>3, <2>4, <2>5 DEF Safe
  <1>5. CASE AssignCountry(w)
    <2>1. locations_' = [locations_ EXCEPT ![c.id].country = Given(c.arg.country, NoText, @)]
      BY <1>5 DEF AssignCountry
    <2>2. [locations_[c.id] EXCEPT !.country = Given(c.arg.country, NoText, @)] \in Location
      BY <1>2, <1>3 DEF Location, LocationUpdates, Given
    <2>3. Contents' /\ Grows
      BY <1>2, <1>5, <2>1, <2>2, NoneAssumption
      DEF AssignCountry, indexes, Contents, Grows, NoneAssumption
    <2>4. Control' /\ Keeps(w) /\ Sound(w)'
      BY <1>5, AnswersLemma, ReturnLemma DEF AssignCountry, Sound, Early
    <2>5. QED
      BY <2>3, <2>4 DEF Safe
  <1>6. QED
    BY <1>4, <1>5

\* The visit a change of its attributes is about.
LEMMA UpdateVisitLemma ==
  ASSUME Contents, Control, NEW w \in Workers, Sound(w), call[w].op = "UpdateVisit",
         pc[w] \notin Early
  PROVE  /\ call[w] \in Call /\ pc[w] # "idle"
         /\ call[w].id \in VisitIds /\ call[w].arg \in VisitUpdates
         /\ Entity(call[w]) # None /\ visits_[call[w].id] \in Visit
         /\ visits_[call[w].id].location_id \in LocationIds
         /\ visits_[call[w].id].user_id \in UserIds
  <1>1. call[w] \in Call /\ pc[w] # "idle" /\ Entity(call[w]) # None
    BY BusyLemma DEF Sound, Early
  <1>2. call[w].id \in VisitIds /\ call[w].arg \in VisitUpdates
    BY <1>1, CallLemma
  <1>3. visits_[call[w].id] \in Visit
    BY <1>1, <1>2 DEF Entity, Contents
  <1>4. QED
    BY <1>1, <1>2, <1>3, VisitLemma

\* UpdateVisit looks at the attributes and at the indexes.
LEMMA SafeCompare ==
  ASSUME Contents, Control, NEW w \in Workers, Sound(w), CompareLocation(w) \/ CompareUser(w)
  PROVE  Safe(w)
  <1> DEFINE c == call[w]
  <1>1. c.op = "UpdateVisit" /\ pc[w] \notin Early /\ UNCHANGED <<containers, indexes>>
    BY DEF CompareLocation, CompareUser, At, Early
  <1>2. pc[w] # "idle" /\ c.arg \in VisitUpdates /\ Entity(c) # None
    BY <1>1, UpdateVisitLemma
  <1>3. CASE CompareLocation(w)
    <2>1. CASE c.arg.location_id # NoId /\ Proceed(w, "old_location")
      <3>1. c.arg.location_id \in LocationIds
        BY <2>1, <1>2, VisitLemma
      <3>2. QED
        BY <2>1, <3>1, <1>1, <1>2, NextStatement, SafeProceed
    <2>2. CASE Proceed(w, "user")
      BY <2>2, <1>1, <1>2, NextStatement, SafeProceed
    <2>3. QED
      BY <1>3, <2>1, <2>2 DEF CompareLocation
  <1>4. CASE CompareUser(w)
    <2>1. CASE c.arg.user_id # NoId /\ Proceed(w, "old_user")
      <3>1. c.arg.user_id \in UserIds
        BY <2>1, <1>2, VisitLemma
      <3>2. QED
        BY <2>1, <3>1, <1>1, <1>2, NextStatement, SafeProceed
    <2>2. CASE Proceed(w, "visited_at")
      BY <2>2, <1>1, <1>2, NextStatement, SafeProceed
    <2>3. QED
      BY <1>4, <2>1, <2>2 DEF CompareUser
  <1>5. QED
    BY <1>3, <1>4

\* It finds the multiset the visit is to leave.
LEMMA SafeFindOld ==
  ASSUME Contents, Control, NEW w \in Workers, Sound(w), FindOldLocation(w) \/ FindOldUser(w)
  PROVE  Safe(w)
  <1> DEFINE c == call[w]
             location == visits_[c.id].location_id
             user == visits_[c.id].user_id
  <1>1. c.op = "UpdateVisit" /\ pc[w] \notin Early /\ UNCHANGED <<containers, indexes>>
    BY DEF FindOldLocation, FindOldUser, At, Early
  <1>2. /\ pc[w] # "idle" /\ c.arg \in VisitUpdates /\ Entity(c) # None
        /\ location \in LocationIds /\ user \in UserIds
    BY <1>1, UpdateVisitLemma
  <1>3. Contents' /\ Grows
    BY <1>1 DEF containers, indexes, Contents, Grows
  <1>4. ASSUME NEW key \in UserIds \cup LocationIds, NEW s \in StatementsOf(c.op),
               from' = [from EXCEPT ![w] = key], Goto(w, s), UNCHANGED <<cursor, counted>>
        PROVE  /\ Control' /\ Keeps(w)
               /\ pc'[w] = s /\ call'[w] = c /\ from'[w] = key
    <2>1. /\ from' \in [Workers -> UserIds \cup LocationIds \cup {None}]
          /\ cursor' \in [Workers -> VisitIds \cup {-1}]
          /\ counted' \in [Workers -> Multiset]
          /\ \A x \in Workers \ {w} :
               from'[x] = from[x] /\ cursor'[x] = cursor[x] /\ counted'[x] = counted[x]
          /\ from'[w] = key
      BY <1>4 DEF Control
    <2>2. QED
      BY <2>1, <1>2, <1>4, GotoLemma
  <1>5. CASE FindOldLocation(w)
    <2>1. c.arg.location_id \in LocationIds
      BY <1>5 DEF FindOldLocation, At, Sound
    <2>2. CASE Proceed(w, "enter_location")
      BY <2>1, <2>2, <1>1, <1>2, NextStatement, SafeProceed
    <2>3. CASE /\ from' = [from EXCEPT ![w] = location] /\ Goto(w, "leave_location")
               /\ UNCHANGED <<cursor, counted>>
      <3>1. /\ Control' /\ Keeps(w)
            /\ pc'[w] = "leave_location" /\ call'[w] = c /\ from'[w] = location
        BY <2>3, <1>1, <1>2, <1>4, NextStatement
      <3>2. Sound(w)'
        BY <2>1, <3>1, <1>1, <1>2 DEF Sound, Entity, containers
      <3>3. QED
        BY <1>3, <3>1, <3>2 DEF Safe
    <2>4. QED
      BY <1>5, <2>2, <2>3 DEF FindOldLocation
  <1>6. CASE FindOldUser(w)
    <2>1. c.arg.user_id \in UserIds
      BY <1>6 DEF FindOldUser, At, Sound
    <2>2. CASE Proceed(w, "enter_user")
      BY <2>1, <2>2, <1>1, <1>2, NextStatement, SafeProceed
    <2>3. CASE /\ from' = [from EXCEPT ![w] = user] /\ Goto(w, "leave_user")
               /\ UNCHANGED <<cursor, counted>>
      <3>1. /\ Control' /\ Keeps(w)
            /\ pc'[w] = "leave_user" /\ call'[w] = c /\ from'[w] = user
        BY <2>3, <1>1, <1>2, <1>4, NextStatement
      <3>2. Sound(w)'
        BY <2>1, <3>1, <1>1, <1>2 DEF Sound, Entity, containers
      <3>3. QED
        BY <1>3, <3>1, <3>2 DEF Safe
    <2>4. QED
      BY <1>6, <2>2, <2>3 DEF FindOldUser
  <1>7. QED
    BY <1>5, <1>6

\* What a statement of UpdateVisit that changes one index or the visits has to
\* show: the rest follows from its going on to the next statement.
LEMMA SafeChange ==
  ASSUME Contents, Control, NEW w \in Workers, Sound(w), call[w].op = "UpdateVisit",
         pc[w] \notin Early, NEW s \in StatementsOf("UpdateVisit"), Proceed(w, s),
         s \notin {"old_location", "leave_location", "old_user", "leave_user"},
         s \in {"enter_location", "write_location"} => call[w].arg.location_id \in LocationIds,
         s \in {"enter_user", "write_user"} => call[w].arg.user_id \in UserIds,
         s \notin {"next", "count"},
         Contents', Grows
  PROVE  Safe(w)
  <1>1. pc[w] # "idle" /\ Entity(call[w]) # None /\ call[w].id \in VisitIds
    BY UpdateVisitLemma
  <1>2. Control' /\ Keeps(w) /\ pc'[w] = s /\ call'[w] = call[w]
    BY <1>1, ProceedLemma
  <1>3. Entity(call[w])' # None
    BY <1>1, <1>2 DEF Entity, Grows
  <1>4. Sound(w)'
    BY <1>2, <1>3 DEF Sound
  <1>5. QED
    BY <1>2, <1>4 DEF Safe

\* A visit leaves a multiset.
LEMMA SafeLeave ==
  ASSUME Contents, Control, NEW w \in Workers, Sound(w), LeaveLocation(w) \/ LeaveUser(w)
  PROVE  Safe(w)
  <1> DEFINE c == call[w]
             user == visits_[c.id].user_id
  <1>1. c.op = "UpdateVisit" /\ pc[w] \notin Early
    BY DEF LeaveLocation, LeaveUser, At, Early
  <1>2. CASE LeaveLocation(w)
    <2>1. from[w] \in LocationIds /\ c.arg.location_id \in LocationIds
      BY <1>2 DEF LeaveLocation, At, Sound
    <2>2. /\ EraseAt(locations_to_visits_, from[w], c.id) \in [LocationIds -> Multiset \cup {None}]
          /\ \A l \in LocationIds : locations_to_visits_[l] # None =>
               EraseAt(locations_to_visits_, from[w], c.id)[l] # None
      BY <2>1, EraseLemma DEF Contents
    <2>3. Contents' /\ Grows
      BY <1>2, <2>2 DEF LeaveLocation, containers, Contents, Grows
    <2>4. QED
      BY <1>1, <1>2, <2>1, <2>3, NextStatement, SafeChange DEF LeaveLocation
  <1>3. CASE LeaveUser(w)
    <2>1. from[w] \in UserIds /\ c.arg.user_id \in UserIds
      BY <1>3 DEF LeaveUser, At, Sound
    <2>2. /\ EraseAt(users_to_visits_, from[w], user) \in [UserIds -> Multiset \cup {None}]
          /\ \A u \in UserIds : users_to_visits_[u] # None =>
               EraseAt(users_to_visits_, from[w], user)[u] # None
      BY <2>1, EraseLemma DEF Contents
    <2>3. Contents' /\ Grows
      BY <1>3, <2>2 DEF LeaveUser, containers, Contents, Grows
    <2>4. QED
      BY <1>1, <1>3, <2>1, <2>3, NextStatement, SafeChange DEF LeaveUser
  <1>4. QED
    BY <1>2, <1>3

\* A visit enters a multiset.
LEMMA SafeEnter ==
  ASSUME Contents, Control, NEW w \in Workers, Sound(w), EnterLocation(w) \/ EnterUser(w)
  PROVE  Safe(w)
  <1> DEFINE c == call[w]
  <1>1. c.op = "UpdateVisit" /\ pc[w] \notin Early
    BY DEF EnterLocation, EnterUser, At, Early
  <1>2. c.id \in VisitIds
    BY <1>1, UpdateVisitLemma
  <1>3. CASE EnterLocation(w)
    <2>1. c.arg.location_id \in LocationIds
      BY <1>3 DEF EnterLocation, At, Sound
    <2>2. /\ EmplaceAt(locations_to_visits_, c.arg.location_id, c.id)
               \in [LocationIds -> Multiset \cup {None}]
          /\ \A l \in LocationIds : locations_to_visits_[l] # None =>
               EmplaceAt(locations_to_visits_, c.arg.location_id, c.id)[l] # None
      BY <2>1, <1>2, EmplaceLemma DEF Contents
    <2>3. Contents' /\ Grows
      BY <1>3, <2>2 DEF EnterLocation, containers, Contents, Grows
    <2>4. QED
      BY <1>1, <1>3, <2>1, <2>3, NextStatement, SafeChange DEF EnterLocation
  <1>4. CASE EnterUser(w)
    <2>1. c.arg.user_id \in UserIds
      BY <1>4 DEF EnterUser, At, Sound
    <2>2. /\ EmplaceAt(users_to_visits_, c.arg.user_id, c.id)
               \in [UserIds -> Multiset \cup {None}]
          /\ \A u \in UserIds : users_to_visits_[u] # None =>
               EmplaceAt(users_to_visits_, c.arg.user_id, c.id)[u] # None
      BY <2>1, <1>2, EmplaceLemma DEF Contents
    <2>3. Contents' /\ Grows
      BY <1>4, <2>2 DEF EnterUser, containers, Contents, Grows
    <2>4. QED
      BY <1>1, <1>4, <2>1, <2>3, NextStatement, SafeChange DEF EnterUser
  <1>5. QED
    BY <1>3, <1>4

\* An attribute of a visit is written.
LEMMA SafeWrite ==
  ASSUME Contents, Control, NEW w \in Workers, Sound(w),
         WriteLocation(w) \/ WriteUser(w) \/ AssignVisitedAt(w) \/ AssignMark(w)
  PROVE  Safe(w)
  <1> DEFINE c == call[w]
             visit == visits_[c.id]
  <1>1. c.op = "UpdateVisit" /\ pc[w] \notin Early
    BY DEF WriteLocation, WriteUser, AssignVisitedAt, AssignMark, At, Early
  <1>2. c.id \in VisitIds /\ visit \in Visit /\ c.arg \in VisitUpdates
    BY <1>1, UpdateVisitLemma
  <1>3. ASSUME NEW written \in Visit, visits_' = [visits_ EXCEPT ![c.id] = written],
               UNCHANGED <<users_, locations_, indexes>>
        PROVE  Contents' /\ Grows
    BY <1>2, <1>3, NoneAssumption DEF indexes, Contents, Grows, NoneAssumption
  <1>4. CASE WriteLocation(w)
    <2>1. c.arg.location_id \in LocationIds
      BY <1>4 DEF WriteLocation, At, Sound
    <2>2. [visit EXCEPT !.location_id = c.arg.location_id] \in Visit
      BY <1>2, <2>1 DEF Visit
    <2>3. Contents' /\ Grows
      BY <1>3, <1>4, <2>2 DEF WriteLocation
    <2>4. QED
      BY <1>1, <1>4, <2>3, NextStatement, SafeChange DEF WriteLocation
  <1>5. CASE WriteUser(w)
    <2>1. c.arg.user_id \in UserIds
      BY <1>5 DEF WriteUser, At, Sound
    <2>2. [visit EXCEPT !.user_id = c.arg.user_id] \in Visit
      BY <1>2, <2>1 DEF Visit
    <2>3. Contents' /\ Grows
      BY <1>3, <1>5, <2>2 DEF WriteUser
    <2>4. QED
      BY <1>1, <1>5, <2>3, NextStatement, SafeChange DEF WriteUser
  <1>6. CASE AssignVisitedAt(w)
    <2>1. [visit EXCEPT !.visited_at = Given(c.arg.visited_at, MaxTimestamp, @)] \in Visit
      BY <1>2, VisitLemma DEF Visit, Given
    <2>2. Contents' /\ Grows
      BY <1>3, <1>6, <2>1 DEF AssignVisitedAt
    <2>3. QED
      BY <1>1, <1>6, <2>2, NextStatement, SafeChange DEF AssignVisitedAt
  <1>7. CASE AssignMark(w)
    <2>1. [visit EXCEPT !.mark = Given(c.arg.mark, MaxMark, @)] \in Visit
      BY <1>2, VisitLemma DEF Visit, Given
    <2>2. Contents' /\ Grows
      BY <1>3, <1>7, <2>1 DEF AssignMark
    <2>3. Control' /\ Keeps(w) /\ Sound(w)'
      BY <1>7, AnswersLemma, ReturnLemma DEF AssignMark, Sound, Early
    <2>4. QED
      BY <2>2, <2>3 DEF Safe
  <1>8. QED
    BY <1>4, <1>5, <1>6, <1>7

\* A get prints the entity it found.
LEMMA SafeSerialize ==
  ASSUME Contents, Control, NEW w \in Workers, Sound(w), Serialize(w)
  PROVE  Safe(w)
  <1> DEFINE c == call[w]
  <1>1. c \in Call /\ Entity(c) # None
    BY BusyLemma DEF Serialize, Sound, Early
  <1>2. Entity(c) \in User \cup Location \cup Visit
    BY <1>1, CallLemma DEF Entity, Contents, Adds, Updates, Gets, Queries
  <1>3. <<"Entity", Entity(c)>> \in Answers
    BY <1>2, AnswersLemma
  <1>4. QED
    BY <1>3, SafeReturn DEF Serialize

\* The multiset a query walks counts visits.
LEMMA IndexedLemma ==
  ASSUME Contents, NEW c \in Call, c.op \in Queries, Indexed(c) # None
  PROVE  Indexed(c) \in Multiset
  BY CallLemma DEF Indexed, Contents, Queries

\* A query finds its multiset, walks it and prints.
LEMMA SafeWalk ==
  ASSUME Contents, Control, NEW w \in Workers, Sound(w),
         FindIndex(w) \/ NextVisit(w) \/ CountVisit(w) \/ EndOfVisits(w) \/ PrintVisits(w)
  PROVE  Safe(w)
  <1> DEFINE c == call[w]
  <1>1. /\ pc[w] \in {"index", "next", "count", "print"}
        /\ UNCHANGED <<containers, indexes>>
    BY DEF FindIndex, NextVisit, CountVisit, EndOfVisits, PrintVisits
  <1>2. /\ c \in Call /\ pc[w] # "idle" /\ Entity(c) # None
        /\ pc[w] \in StatementsOf(c.op)
    BY <1>1, BusyLemma DEF Sound, Early
  <1>3. c.op \in Queries
    BY <1>1, <1>2, StatementLemma DEF Queries
  <1>4. Contents' /\ Grows
    BY <1>1 DEF containers, indexes, Contents, Grows
  <1>5. counted[w] \in Multiset /\ <<"Counts", counted[w]>> \in Answers
    BY AnswersLemma DEF Control
  <1>6. CASE FindIndex(w)
    <2>1. CASE Indexed(c) # None /\ Proceed(w, "next")
      BY <2>1, <1>1, <1>2, <1>3, NextStatement, SafeProceed
    <2>2. CASE Return(w, <<"Counts", EmptyMultiset>>)
      BY <2>2, <1>1, EmptyLemma, AnswersLemma, SafeReturn
    <2>3. QED
      BY <1>6, <2>1, <2>2 DEF FindIndex
  <1>7. CASE NextVisit(w)
    <2>1. Indexed(c) # None
      BY <1>7 DEF NextVisit, Sound
    <2>2. PICK v \in Ahead(w) : cursor' = [cursor EXCEPT ![w] = v]
      BY <1>7 DEF NextVisit
    <2>3. v \in VisitIds
      BY DEF Ahead
    <2>4. /\ from' \in [Workers -> UserIds \cup LocationIds \cup {None}]
          /\ cursor' \in [Workers -> VisitIds \cup {-1}]
          /\ counted' \in [Workers -> Multiset]
          /\ \A x \in Workers \ {w} :
               from'[x] = from[x] /\ cursor'[x] = cursor[x] /\ counted'[x] = counted[x]
          /\ cursor'[w] = v
      BY <1>7, <2>2, <2>3 DEF NextVisit, Control
    <2>5. /\ Control' /\ Keeps(w) /\ pc'[w] = "count" /\ call'[w] = c
      BY <1>7, <2>4, <1>2, <1>3, NextStatement, GotoLemma DEF NextVisit
    <2>6. Sound(w)'
      BY <2>1, <2>3, <2>4, <2>5, <1>1, <1>2 DEF Sound, Entity, Indexed, containers, indexes
    <2>7. QED
      BY <1>4, <2>5, <2>6 DEF Safe
  <1>8. CASE CountVisit(w)
    <2> DEFINE v == cursor[w]
               copies == IF Indexed(c)[v] = 0 THEN 1 ELSE Indexed(c)[v]
    <2>1. Indexed(c) # None /\ v \in VisitIds
      BY <1>8 DEF CountVisit, Sound
    <2>2. copies \in Nat
      BY <2>1, <1>2, <1>3, IndexedLemma DEF Multiset
    <2>3. [counted[w] EXCEPT ![v] = @ + copies] \in Multiset
      BY <1>5, <2>1, <2>2 DEF Multiset
    <2>4. counted' = [counted EXCEPT ![w] =
            IF Selected(c, v) THEN [counted[w] EXCEPT ![v] = @ + copies] ELSE counted[w]]
      BY <1>8 DEF CountVisit, Control
    <2>5. /\ from' \in [Workers -> UserIds \cup LocationIds \cup {None}]
          /\ cursor' \in [Workers -> VisitIds \cup {-1}]
          /\ counted' \in [Workers -> Multiset]
          /\ \A x \in Workers \ {w} :
               from'[x] = from[x] /\ cursor'[x] = cursor[x] /\ counted'[x] = counted[x]
      BY <1>8, <1>5, <2>3, <2>4 DEF CountVisit, Control
    <2>6. /\ Control' /\ Keeps(w) /\ pc'[w] = "next" /\ call'[w] = c
      BY <1>8, <2>5, <1>2, <1>3, NextStatement, GotoLemma DEF CountVisit
    <2>7. Sound(w)'
      BY <2>1, <2>6, <1>1, <1>2 DEF Sound, Entity, Indexed, containers, indexes
    <2>8. QED
      BY <1>4, <2>6, <2>7 DEF Safe
  <1>9. CASE EndOfVisits(w)
    <2>1. CASE c.op = "GetVisistsByUserId" /\ Proceed(w, "print")
      BY <2>1, <1>1, <1>2, NextStatement, SafeProceed
    <2>2. CASE Return(w, <<"Counts", counted[w]>>)
      BY <2>2, <1>1, <1>5, SafeReturn
    <2>3. QED
      BY <1>9, <2>1, <2>2 DEF EndOfVisits
  <1>10. CASE PrintVisits(w)
    BY <1>10, <1>1, <1>5, SafeReturn DEF PrintVisits
  <1>11. QED
    BY <1>6, <1>7, <1>8, <1>9, <1>10

\* Every statement is safe.
LEMMA SafeStatement ==
  ASSUME Contents, Control, NEW w \in Workers, Sound(w), Statement(w)
  PROVE  Safe(w)
  <1>1. CASE FindNothing(w) \/ FindEntity(w)
    BY <1>1, SafeFind
  <1>2. CASE EmplaceUser(w) \/ EmplaceLocation(w) \/ EmplaceVisit(w)
    BY <1>2, SafeEmplace
  <1>3. CASE IndexUser(w) \/ IndexLocation(w)
    BY <1>3, SafeIndex
  <1>4. CASE \/ AssignGender(w) \/ AssignBirthDate(w)
             \/ AssignDistance(w) \/ AssignCountry(w)
    BY <1>4, SafeAssignUser, SafeAssignLocation
  <1>5. CASE CompareLocation(w) \/ CompareUser(w)
    BY <1>5, SafeCompare
  <1>6. CASE FindOldLocation(w) \/ FindOldUser(w)
    BY <1>6, SafeFindOld
  <1>7. CASE LeaveLocation(w) \/ LeaveUser(w)
    BY <1>7, SafeLeave
  <1>8. CASE EnterLocation(w) \/ EnterUser(w)
    BY <1>8, SafeEnter
  <1>9. CASE WriteLocation(w) \/ WriteUser(w) \/ AssignVisitedAt(w) \/ AssignMark(w)
    BY <1>9, SafeWrite
  <1>10. CASE Serialize(w)
    BY <1>10, SafeSerialize
  <1>11. CASE FindIndex(w) \/ NextVisit(w) \/ CountVisit(w) \/ EndOfVisits(w) \/ PrintVisits(w)
    BY <1>11, SafeWalk
  <1>12. QED
    BY <1>1, <1>2, <1>3, <1>4, <1>5, <1>6, <1>7, <1>8, <1>9, <1>10, <1>11, Zenon DEF Statement

\* The inductive invariant behind the type invariant.
Typed == Contents /\ Control /\ \A w \in Workers : Sound(w)

\* What the beginning of a call leaves alone and what it sets.
LEMMA BeginLemma ==
  ASSUME Typed, NEW w \in Workers, NEW c \in Calls, Begin(w, c)
  PROVE  /\ Typed' /\ Grows
         /\ pc[w] = "idle" /\ pc'[w] = "find" /\ call'[w] = c
         /\ \A x \in Workers \ {w} :
              /\ call'[x] = call[x] /\ pc'[x] = pc[x]
              /\ from'[x] = from[x] /\ cursor'[x] = cursor[x] /\ counted'[x] = counted[x]
         /\ UNCHANGED <<containers, indexes, from, cursor, counted>>
  <1> Contents /\ Control
    BY DEF Typed
  <1>1. /\ UNCHANGED <<containers, indexes, from, cursor, counted, undefined>>
        /\ call' = [call EXCEPT ![w] = c] /\ pc' = [pc EXCEPT ![w] = "find"]
        /\ answer' = [answer EXCEPT ![w] = None]
        /\ pc[w] = "idle" /\ begun < MaxCalls /\ begun' = begun + 1
    BY DEF Begin, locals
  <1>2. c # None /\ "find" \in StatementsOf(c.op) /\ MaxCalls \in Nat
    BY CallsAssumption, StatementLemma DEF CallsAssumption
  <1>3. Contents' /\ Grows
    BY <1>1 DEF containers, indexes, Contents, Grows
  <1>4. /\ pc'[w] = "find" /\ call'[w] = c
        /\ \A x \in Workers \ {w} :
              /\ call'[x] = call[x] /\ pc'[x] = pc[x]
              /\ from'[x] = from[x] /\ cursor'[x] = cursor[x] /\ counted'[x] = counted[x]
    BY <1>1 DEF Control
  <1>5. begun' \in 0..MaxCalls
    BY <1>1, <1>2 DEF Control
  <1>6. overlapped' \subseteq VisitIds
    BY DEF Begin, Control
  <1>7. steady' \in [Workers -> SUBSET VisitIds]
    <2> DEFINE after(x) == IF x # w THEN steady[x] \ Touched(c)
                 ELSE IF c.op \in Queries
                      THEN VisitIds \ UNION {Touched(call[y]) : y \in Busy} ELSE {}
    <2>1. \A x \in Workers : after(x) \in SUBSET VisitIds
      BY DEF Control
    <2>2. steady' = [x \in Workers |-> after(x)]
      BY DEF Begin
    <2> HIDE DEF after
    <2>3. QED
      BY <2>1, <2>2
  <1>8. \A x \in Workers :
          IF call'[x] = None THEN pc'[x] = "idle" ELSE pc'[x] \in StatementsOf(call'[x].op)
    BY <1>2, <1>4 DEF Control
  <1>9. /\ call' \in [Workers -> Calls \cup {None}]
        /\ pc' = [x \in Workers |-> pc'[x]]
        /\ answer' \in [Workers -> Answers]
    BY <1>1, AnswersLemma DEF Control
  <1>10. Control'
    BY <1>1, <1>5, <1>6, <1>7, <1>8, <1>9 DEF Control
  <1>11. ASSUME NEW x \in Workers
         PROVE  Sound(x)'
    <2>1. CASE x = w
      BY <2>1, <1>4 DEF Sound, Early
    <2>2. CASE x # w
      BY <2>2, <1>3, <1>4, SoundStays DEF Typed
    <2>3. QED
      BY <2>1, <2>2
  <1>12. QED
    BY <1>1, <1>3, <1>4, <1>10, <1>11 DEF Typed

\* What a statement of a worker leaves alone.
LEMMA StepLemma ==
  ASSUME Typed, NEW w \in Workers, Statement(w)
  PROVE  Typed' /\ Keeps(w) /\ Grows
  <1>1. Safe(w) /\ Contents /\ Control
    BY SafeStatement DEF Typed
  <1>2. ASSUME NEW x \in Workers
        PROVE  Sound(x)'
    <2>1. CASE x = w
      BY <2>1, <1>1 DEF Safe
    <2>2. CASE x # w
      BY <2>2, <1>1, SoundStays DEF Safe, Keeps, Typed
    <2>3. QED
      BY <2>1, <2>2
  <1>3. QED
    BY <1>1, <1>2 DEF Safe, Typed

\* A race, or no step at all, changes nothing but `undefined`.
LEMMA StillLemma ==
  ASSUME Typed, Race \/ UNCHANGED vars
  PROVE  Typed' /\ UNCHANGED <<containers, indexes, call, pc, locals, overlapped, steady>>
  <1>1. /\ UNCHANGED <<containers, indexes, call, pc, locals, answer, begun, overlapped, steady>>
        /\ undefined' \in BOOLEAN
    BY DEF Race, vars, history, Typed, Control
  <1>2. Contents' /\ Control'
    BY <1>1 DEF containers, indexes, locals, Typed, Contents, Control
  <1>3. ASSUME NEW x \in Workers
        PROVE  Sound(x)'
    BY <1>1 DEF Typed, Sound, Entity, Indexed, containers, indexes, locals
  <1>4. QED
    BY <1>1, <1>2, <1>3 DEF Typed

\* A step is one of these three.
LEMMA NextLemma ==
  ASSUME [Next]_vars
  PROVE  \/ \E w \in Workers : Statement(w)
         \/ \E w \in Workers : \E c \in Calls : Begin(w, c)
         \/ Race \/ UNCHANGED vars
  BY Zenon DEF Next

\* The invariant holds at the start and is kept.
LEMMA TypedInvariant == Spec => []Typed
  <1>1. Init => Typed
    <2>1. ASSUME Init, NEW w \in Workers
          PROVE  Sound(w)
      BY <2>1 DEF Init, Sound, Early
    <2>2. QED
      BY <2>1, TypeInit, TypeSplit DEF Typed
  <1>2. Typed /\ [Next]_vars => Typed'
    BY NextLemma, StepLemma, BeginLemma, StillLemma
  <1>3. QED
    BY <1>1, <1>2, PTL DEF Spec

\* Whatever the workers interleave, the containers and the workers' own
\* variables hold what their C++ types and the statements reached say.
THEOREM TypeCorrect == Spec => []TypeOK
  <1>1. Typed => TypeOK
    BY TypeSplit DEF Typed
  <1>2. QED
    BY <1>1, TypedInvariant, PTL

(***************************************************************************)
(* VisitsStay.                                                             *)
(***************************************************************************)
\* A statement that changes a visit that is there is one of an UpdateVisit of
\* its id.
LEMMA ChangeLemma ==
  ASSUME Typed, NEW w \in Workers, Statement(w), NEW v \in VisitIds,
         visits_'[v] # visits_[v]
  PROVE  /\ pc[w] # "idle" /\ call[w].id = v
         /\ \/ call[w].op = "UpdateVisit"
            \/ EmplaceVisit(w) /\ visits_[v] = None
  <1>1. CASE EmplaceVisit(w)
    BY <1>1 DEF EmplaceVisit, EmplaceEntity, At, Typed, Contents
  <1>2. CASE WriteLocation(w) \/ WriteUser(w) \/ AssignVisitedAt(w) \/ AssignMark(w)
    BY <1>2 DEF WriteLocation, WriteUser, AssignVisitedAt, AssignMark, At, Typed, Contents
  <1>3. ASSUME ~EmplaceVisit(w), ~WriteLocation(w), ~WriteUser(w),
               ~AssignVisitedAt(w), ~AssignMark(w)
        PROVE  FALSE
    <2>1. UNCHANGED visits_
      BY <1>3, Zenon DEF Statement, FindNothing, FindEntity, EmplaceUser, EmplaceLocation,
         IndexUser, IndexLocation, AssignGender, AssignBirthDate, AssignDistance,
         AssignCountry, CompareLocation,
         FindOldLocation, LeaveLocation, EnterLocation, CompareUser, FindOldUser,
         LeaveUser, EnterUser, Serialize, FindIndex, NextVisit, CountVisit, EndOfVisits,
         PrintVisits, containers
    <2>2. QED
      BY <2>1
  <1>4. QED
    BY <1>1, <1>2, <1>3

\* A visit that was added or loaded is never replaced: of two workers that both
\* found the id free the first stays, for any number of workers.
THEOREM VisitsStayCorrect == Spec => VisitsStay
  <1> DEFINE Stays ==
        \A v \in VisitIds :
          visits_[v] # None /\ visits_'[v] # visits_[v] =>
            \E w \in Busy : call[w].op = "UpdateVisit" /\ call[w].id = v
  <1>1. ASSUME Typed, [Next]_vars
        PROVE  [Stays]_vars
    <2>1. CASE \E w \in Workers : Statement(w)
      BY <1>1, <2>1, ChangeLemma DEF Busy
    <2>2. CASE \E w \in Workers : \E c \in Calls : Begin(w, c)
      BY <1>1, <2>2, BeginLemma DEF containers
    <2>3. CASE Race \/ UNCHANGED vars
      BY <1>1, <2>3, StillLemma DEF containers
    <2>4. QED
      BY <1>1, <2>1, <2>2, <2>3, NextLemma
  <1>2. QED
    BY <1>1, TypedInvariant, PTL DEF Spec, VisitsStay

(***************************************************************************)
(* Visits and locations.  `AddVisit` and `UpdateVisit` take a visit        *)
(* through states in which the multisets are not those of a settled visit; *)
(* the invariant says which they are, at every statement.                  *)
(***************************************************************************)
Changing(w, v) == pc[w] # "idle" /\ ChangesVisit(call[w], v)

\* v is in the multiset of location l, once, and in no other; or in none.
InMultisetOf(v, l) ==
  \A key \in LocationIds :
    Copies(locations_to_visits_, key, v) = IF key = l THEN 1 ELSE 0
InNoMultiset(v) == \A key \in LocationIds : Copies(locations_to_visits_, key, v) = 0

AtItsLocation(v) ==
  IF visits_[v] = None THEN InNoMultiset(v) ELSE InMultisetOf(v, visits_[v].location_id)

\* The statements between which a visit is not in the multiset of its location.
Away == {"user_index", "location_index", "enter_location"}

\* How far the worker w has come with its change of v.
Underway(w, v) ==
  /\ pc[w] = "emplace" => visits_[v] = None
  /\ pc[w] \in {"user_index", "location_index"} => visits_[v] = call[w].arg
  /\ pc[w] = "leave_location" => from[w] = visits_[v].location_id
  /\ pc[w] \in Away => InNoMultiset(v)
  /\ pc[w] = "write_location" => InMultisetOf(v, call[w].arg.location_id)
  /\ pc[w] \notin Away \cup {"write_location"} => AtItsLocation(v)

Sole(v) == \A w, x \in Workers : Changing(w, v) /\ Changing(x, v) => w = x

LocationFollows(v) ==
  /\ Sole(v)
  /\ \A w \in Workers : Changing(w, v) => Underway(w, v)
  /\ (\A w \in Workers : ~Changing(w, v)) => AtItsLocation(v)

LocationInvariant == \A v \in VisitIds \ overlapped : LocationFollows(v)

\* The loaded visits are at their locations.
LEMMA LocationInit == Init => LocationInvariant
  <1> SUFFICES ASSUME Init, NEW v \in VisitIds
               PROVE  LocationFollows(v)
    BY DEF LocationInvariant
  <1>1. \A w \in Workers : ~Changing(w, v)
    BY DEF Init, Changing
  <1>2. AtItsLocation(v)
    <2> DEFINE keyed(key) ==
          {x \in VisitIds : LoadedVisits[x] # None /\ LoadedVisits[x].location_id = key}
    <2>1. ASSUME NEW key \in LocationIds
          PROVE  locations_to_visits_[key] =
                   IF keyed(key) = {} THEN None
                   ELSE [x \in VisitIds |-> IF x \in keyed(key) THEN 1 ELSE 0]
      BY <2>1 DEF Init, Mapped
    <2>2. ASSUME NEW key \in LocationIds
          PROVE  Copies(locations_to_visits_, key, v) = IF v \in keyed(key) THEN 1 ELSE 0
      <3>1. CASE keyed(key) = {}
        BY <2>1, <3>1 DEF Copies
      <3>2. CASE keyed(key) # {}
        <4>1. [x \in VisitIds |-> IF x \in keyed(key) THEN 1 ELSE 0] \in Multiset
          BY DEF Multiset
        <4>2. locations_to_visits_[key] # None
          BY <2>1, <3>2, <4>1, CallsAssumption DEF CallsAssumption
        <4>3. locations_to_visits_[key] = [x \in VisitIds |-> IF x \in keyed(key) THEN 1 ELSE 0]
          BY <2>1, <3>2
        <4>4. locations_to_visits_[key][v] = IF v \in keyed(key) THEN 1 ELSE 0
          <5> HIDE DEF keyed
          <5>1. QED
            BY <4>3
        <4>5. Copies(locations_to_visits_, key, v) = locations_to_visits_[key][v]
          BY <4>2 DEF Copies
        <4>6. QED
          BY <4>4, <4>5
      <3>3. QED
        BY <3>1, <3>2
    <2>3. visits_ = LoadedVisits
      BY DEF Init
    <2>4. QED
      BY <2>2, <2>3 DEF AtItsLocation, InMultisetOf, InNoMultiset
  <1>3. QED
    BY <1>1, <1>2 DEF LocationFollows, Sole

\* Only the worker that changes a visit touches its copies in the multisets of
\* the locations.
LEMMA CopiesLemma ==
  ASSUME Typed, NEW w \in Workers, Statement(w), NEW v \in VisitIds, ~Changing(w, v)
  PROVE  /\ visits_'[v] = visits_[v]
         /\ \A key \in LocationIds :
              Copies(locations_to_visits_', key, v) = Copies(locations_to_visits_, key, v)
  <1> Contents /\ Control
    BY DEF Typed
  <1>1. visits_'[v] = visits_[v]
    BY ChangeLemma DEF Changing, ChangesVisit, EmplaceVisit, At
  <1>2. CASE IndexLocation(w)
    <2>1. /\ call[w].op = "AddVisit" /\ call[w].id # v /\ pc[w] # "idle"
      BY <1>2 DEF IndexLocation, At, Changing, ChangesVisit
    <2>2. call[w].arg.location_id \in LocationIds /\ call[w].id \in VisitIds
      BY <2>1, BusyLemma, CallLemma, VisitLemma
    <2>3. locations_to_visits_' =
            EmplaceAt(locations_to_visits_, call[w].arg.location_id, call[w].id)
      BY <1>2 DEF IndexLocation
    <2>4. QED
      BY <2>1, <2>2, <2>3, EmplaceLemma, <1>1 DEF Contents
  <1>3. CASE LeaveLocation(w)
    <2>1. call[w].id # v /\ from[w] \in LocationIds
      BY <1>3 DEF LeaveLocation, At, Changing, ChangesVisit, Typed, Sound
    <2>2. locations_to_visits_' = EraseAt(locations_to_visits_, from[w], call[w].id)
      BY <1>3 DEF LeaveLocation
    <2>3. QED
      BY <2>1, <2>2, EraseLemma, <1>1 DEF Contents
  <1>4. CASE EnterLocation(w)
    <2>1. /\ call[w].op = "UpdateVisit" /\ pc[w] \notin Early
          /\ call[w].id # v /\ call[w].arg.location_id \in LocationIds
      BY <1>4 DEF EnterLocation, At, Changing, ChangesVisit, Typed, Sound, Early
    <2>2. call[w].id \in VisitIds
      BY <2>1, UpdateVisitLemma DEF Typed
    <2>3. locations_to_visits_' =
            EmplaceAt(locations_to_visits_, call[w].arg.location_id, call[w].id)
      BY <1>4 DEF EnterLocation
    <2>4. QED
      BY <2>1, <2>2, <2>3, EmplaceLemma, <1>1 DEF Contents
  <1>5. ASSUME ~IndexLocation(w), ~LeaveLocation(w), ~EnterLocation(w)
        PROVE  UNCHANGED locations_to_visits_
    BY <1>5, Zenon DEF Statement, FindNothing, FindEntity, EmplaceUser, EmplaceLocation,
       EmplaceVisit, IndexUser, AssignGender, AssignBirthDate, AssignDistance, AssignCountry,
       CompareLocation,
       FindOldLocation, WriteLocation, CompareUser, FindOldUser, LeaveUser, EnterUser,
       WriteUser, AssignVisitedAt, AssignMark, Serialize, FindIndex, NextVisit, CountVisit,
       EndOfVisits, PrintVisits, indexes
  <1>6. QED
    BY <1>1, <1>2, <1>3, <1>4, <1>5

\* A worker that takes a statement is in a call.
LEMMA ActiveLemma ==
  ASSUME NEW w \in Workers, Statement(w)
  PROVE  pc[w] # "idle"
  BY DEF Statement, At, FindNothing, FindEntity, EmplaceUser, EmplaceLocation,
     EmplaceVisit, IndexUser, IndexLocation, AssignGender, AssignBirthDate, AssignDistance,
     AssignCountry, CompareLocation,
     FindOldLocation, LeaveLocation, EnterLocation, WriteLocation, CompareUser, FindOldUser,
     LeaveUser, EnterUser, WriteUser, AssignVisitedAt, AssignMark, Serialize, FindIndex,
     NextVisit, CountVisit, EndOfVisits, PrintVisits

\* Going on and returning, as the changes of a visit use them.
LEMMA WentOn ==
  ASSUME Control, NEW w \in Workers, NEW s, Proceed(w, s)
  PROVE  pc'[w] = s /\ call' = call /\ from' = from
  BY DEF Proceed, Goto, locals, Control

\* A return leaves the worker idle.
LEMMA CameBack ==
  ASSUME Control, NEW w \in Workers, NEW result, Return(w, result)
  PROVE  pc'[w] = "idle"
  BY DEF Return, Control

\* A visit whose location and whose copies stay is where it was.
LEMMA StaysPut ==
  ASSUME NEW v \in VisitIds,
         visits_'[v] = None <=> visits_[v] = None,
         visits_[v] # None => visits_'[v].location_id = visits_[v].location_id,
         \A key \in LocationIds :
           Copies(locations_to_visits_', key, v) = Copies(locations_to_visits_, key, v)
  PROVE  /\ AtItsLocation(v)' <=> AtItsLocation(v)
         /\ InNoMultiset(v)' <=> InNoMultiset(v)
         /\ \A l : InMultisetOf(v, l)' <=> InMultisetOf(v, l)
  <1>1. InNoMultiset(v)' <=> InNoMultiset(v)
    BY DEF InNoMultiset
  <1>2. \A l : InMultisetOf(v, l)' <=> InMultisetOf(v, l)
    BY DEF InMultisetOf
  <1>3. InMultisetOf(v, visits_[v].location_id)' <=>
          \A key \in LocationIds : Copies(locations_to_visits_', key, v) =
            IF key = visits_'[v].location_id THEN 1 ELSE 0
    BY DEF InMultisetOf
  <1>4. visits_[v] # None => (InMultisetOf(v, visits_[v].location_id)' <=>
                              InMultisetOf(v, visits_[v].location_id))
    BY <1>3 DEF InMultisetOf
  <1>5. QED
    BY <1>1, <1>2, <1>4 DEF AtItsLocation

\* Adding a visit: nowhere until the last statement puts it at its location.
LEMMA AddingFollows ==
  ASSUME Typed, NEW w \in Workers, NEW v \in VisitIds, Changing(w, v), Underway(w, v),
         FindNothing(w) \/ FindEntity(w) \/ EmplaceVisit(w) \/ IndexUser(w) \/ IndexLocation(w)
  PROVE  IF pc'[w] = "idle" THEN AtItsLocation(v)' ELSE Underway(w, v)'
  <1> Contents /\ Control
    BY DEF Typed
  <1> DEFINE c == call[w]
  <1>1. c \in Call /\ c.id = v /\ c.op \in {"AddVisit", "UpdateVisit"}
    BY BusyLemma DEF Changing, ChangesVisit
  <1>2. Entity(c) = visits_[v]
    BY <1>1 DEF Entity
  <1>3. CASE FindNothing(w) \/ FindEntity(w)
    <2>1. /\ AtItsLocation(v) /\ UNCHANGED <<visits_, locations_to_visits_>>
      BY <1>3 DEF FindNothing, FindEntity, Underway, Away, containers, indexes
    <2>2. AtItsLocation(v)'
      BY <2>1, StaysPut
    <2>3. \/ pc'[w] = "idle"
          \/ pc'[w] = "emplace" /\ visits_[v] = None
          \/ pc'[w] = "location"
      <3>1. CASE FindNothing(w)
        BY <3>1, <1>1, <1>2, WentOn, CameBack DEF FindNothing, Adds, Updates, Gets, Queries
      <3>2. CASE FindEntity(w)
        BY <3>2, <1>1, <1>2, WentOn, CameBack DEF FindEntity, Adds, Updates, Gets, Queries
      <3>3. QED
        BY <1>3, <3>1, <3>2
    <2>4. QED
      BY <2>1, <2>2, <2>3 DEF Underway, Away
  <1>4. CASE EmplaceVisit(w)
    <2>1. /\ visits_[v] = None /\ AtItsLocation(v) /\ pc'[w] = "user_index" /\ call' = call
      BY <1>4, WentOn DEF EmplaceVisit, At, Underway, Away
    <2>2. visits_'[v] = c.arg /\ UNCHANGED locations_to_visits_
      BY <1>1, <1>4, <2>1 DEF EmplaceVisit, EmplaceEntity, Contents, indexes
    <2>3. InNoMultiset(v)'
      BY <2>1, <2>2 DEF AtItsLocation, InNoMultiset
    <2>4. QED
      BY <2>1, <2>2, <2>3 DEF Underway, Away
  <1>5. CASE IndexUser(w)
    <2>1. /\ visits_[v] = c.arg /\ InNoMultiset(v) /\ pc'[w] = "location_index" /\ call' = call
      BY <1>5, WentOn DEF IndexUser, At, Underway, Away
    <2>2. visits_' = visits_ /\ locations_to_visits_' = locations_to_visits_
      BY <1>5 DEF IndexUser, containers
    <2>3. InNoMultiset(v)'
      BY <2>1, <2>2 DEF InNoMultiset
    <2>4. QED
      BY <2>1, <2>2, <2>3 DEF Underway, Away
  <1>6. CASE IndexLocation(w)
    <2>1. /\ visits_[v] = c.arg /\ InNoMultiset(v) /\ pc'[w] = "idle" /\ c.op = "AddVisit"
      BY <1>6, CameBack DEF IndexLocation, At, Underway, Away
    <2>2. c.arg \in Visit /\ c.arg.location_id \in LocationIds
      BY <1>1, <2>1, CallLemma, VisitLemma
    <2>3. /\ visits_' = visits_
          /\ locations_to_visits_' = EmplaceAt(locations_to_visits_, c.arg.location_id, v)
      BY <1>1, <1>6 DEF IndexLocation, containers
    <2>4. \A key \in LocationIds : Copies(locations_to_visits_', key, v) =
            IF key = c.arg.location_id THEN 1 ELSE 0
      BY <2>1, <2>2, <2>3, EmplaceLemma DEF InNoMultiset, Contents
    <2>5. visits_'[v] # None /\ visits_'[v] = c.arg
      BY <2>1, <2>2, <2>3, NoneAssumption DEF NoneAssumption
    <2>6. QED
      BY <2>1, <2>4, <2>5 DEF AtItsLocation, InMultisetOf
  <1>7. QED
    BY <1>3, <1>4, <1>5, <1>6

\* Moving a visit: out of the multiset of the old location, which has it, then
\* into that of the new, then the visit says so itself.
LEMMA MovingFollows ==
  ASSUME Typed, NEW w \in Workers, NEW v \in VisitIds, Changing(w, v), Underway(w, v),
         CompareLocation(w) \/ FindOldLocation(w) \/ LeaveLocation(w) \/ EnterLocation(w)
           \/ WriteLocation(w)
  PROVE  IF pc'[w] = "idle" THEN AtItsLocation(v)' ELSE Underway(w, v)'
  <1> Contents /\ Control
    BY DEF Typed
  <1> DEFINE c == call[w]
             to == c.arg.location_id
  <1>1. c.op = "UpdateVisit" /\ pc[w] \notin Early /\ c.id = v
    BY DEF CompareLocation, FindOldLocation, LeaveLocation, EnterLocation, WriteLocation,
       At, Early, Changing, ChangesVisit
  <1>2. visits_[v] \in Visit /\ visits_[v].location_id \in LocationIds /\ visits_[v] # None
    BY <1>1, UpdateVisitLemma, NoneAssumption DEF Typed, NoneAssumption
  <1>3. CASE CompareLocation(w)
    <2>1. /\ AtItsLocation(v) /\ UNCHANGED <<visits_, locations_to_visits_>>
      BY <1>3 DEF CompareLocation, At, Underway, Away, containers, indexes
    <2>2. AtItsLocation(v)'
      BY <2>1, StaysPut
    <2>3. pc'[w] \in {"old_location", "user"}
      BY <1>3, WentOn DEF CompareLocation
    <2>4. QED
      BY <2>2, <2>3 DEF Underway, Away
  <1>4. CASE FindOldLocation(w)
    <2> DEFINE key == visits_[v].location_id
    <2>1. /\ InMultisetOf(v, key) /\ UNCHANGED <<visits_, locations_to_visits_>>
      BY <1>2, <1>4 DEF FindOldLocation, At, Underway, Away, containers, indexes, AtItsLocation
    <2>2. locations_to_visits_[key] # None
      BY <1>2, <2>1 DEF InMultisetOf, Copies
    <2>3. from' = [from EXCEPT ![w] = key] /\ pc' = [pc EXCEPT ![w] = "leave_location"]
      BY <1>1, <1>4, <2>2 DEF FindOldLocation, Goto
    <2>4. from'[w] = key /\ pc'[w] = "leave_location"
      BY <2>3 DEF Control
    <2>5. AtItsLocation(v) /\ AtItsLocation(v)'
      BY <1>2, <2>1, StaysPut DEF AtItsLocation
    <2>6. QED
      BY <2>1, <2>4, <2>5 DEF Underway, Away
  <1>5. CASE LeaveLocation(w)
    <2>1. /\ InMultisetOf(v, from[w]) /\ from[w] \in LocationIds
      BY <1>2, <1>5 DEF LeaveLocation, At, Underway, Away, AtItsLocation
    <2>2. /\ visits_' = visits_ /\ pc'[w] = "enter_location"
          /\ locations_to_visits_' = EraseAt(locations_to_visits_, from[w], v)
      BY <1>1, <1>5, WentOn DEF LeaveLocation, containers
    <2>3. \A key \in LocationIds : Copies(locations_to_visits_', key, v) = 0
      BY <2>1, <2>2, EraseLemma DEF InMultisetOf, Contents
    <2>4. QED
      BY <2>2, <2>3 DEF Underway, Away, InNoMultiset
  <1>6. CASE EnterLocation(w)
    <2>1. /\ InNoMultiset(v) /\ to \in LocationIds
      BY <1>6 DEF EnterLocation, At, Underway, Away, Typed, Sound
    <2>2. /\ visits_' = visits_ /\ pc'[w] = "write_location" /\ call' = call
          /\ locations_to_visits_' = EmplaceAt(locations_to_visits_, to, v)
      BY <1>1, <1>6, WentOn DEF EnterLocation, containers
    <2>3. \A key \in LocationIds : Copies(locations_to_visits_', key, v) =
            IF key = to THEN 1 ELSE 0
      BY <2>1, <2>2, EmplaceLemma DEF InNoMultiset, Contents
    <2>4. QED
      BY <2>2, <2>3 DEF Underway, Away, InMultisetOf
  <1>7. CASE WriteLocation(w)
    <2>1. InMultisetOf(v, to)
      BY <1>7 DEF WriteLocation, At, Underway
    <2>2. /\ visits_' = [visits_ EXCEPT ![v].location_id = to] /\ pc'[w] = "user"
          /\ locations_to_visits_' = locations_to_visits_
      BY <1>1, <1>7, WentOn DEF WriteLocation, indexes
    <2>3. visits_'[v].location_id = to /\ visits_'[v] # None
      <3>1. Typed' /\ Grows
        BY <1>7, StepLemma DEF Statement
      <3>2. QED
        BY <1>2, <2>2, <3>1 DEF Visit, Contents, Grows
    <2>4. AtItsLocation(v)'
      BY <2>1, <2>2, <2>3 DEF AtItsLocation, InMultisetOf
    <2>5. QED
      BY <2>2, <2>4 DEF Underway, Away
  <1>8. QED
    BY <1>3, <1>4, <1>5, <1>6, <1>7

\* The rest of UpdateVisit leaves its location and their multisets alone.
LEMMA RestFollows ==
  ASSUME Typed, NEW w \in Workers, NEW v \in VisitIds, Changing(w, v), Underway(w, v),
         CompareUser(w) \/ FindOldUser(w) \/ LeaveUser(w) \/ EnterUser(w) \/ WriteUser(w)
           \/ AssignVisitedAt(w) \/ AssignMark(w)
  PROVE  IF pc'[w] = "idle" THEN AtItsLocation(v)' ELSE Underway(w, v)'
  <1> Contents /\ Control
    BY DEF Typed
  <1>1. call[w].op = "UpdateVisit" /\ pc[w] \notin Early /\ call[w].id = v
    BY DEF CompareUser, FindOldUser, LeaveUser, EnterUser, WriteUser, AssignVisitedAt,
       AssignMark, At, Early, Changing, ChangesVisit
  <1>2. visits_[v] \in Visit /\ visits_[v] # None
    BY <1>1, UpdateVisitLemma, NoneAssumption DEF Typed, NoneAssumption
  <1>3. AtItsLocation(v) /\ UNCHANGED locations_to_visits_
    BY DEF CompareUser, FindOldUser, LeaveUser, EnterUser, WriteUser, AssignVisitedAt,
       AssignMark, At, Underway, Away, indexes
  <1>4. visits_'[v].location_id = visits_[v].location_id
    <2>1. CASE CompareUser(w) \/ FindOldUser(w) \/ LeaveUser(w) \/ EnterUser(w)
      BY <2>1 DEF CompareUser, FindOldUser, LeaveUser, EnterUser, containers
    <2>2. CASE WriteUser(w)
      BY <1>1, <1>2, <2>2 DEF WriteUser, Visit, Contents
    <2>3. CASE AssignVisitedAt(w)
      BY <1>1, <1>2, <2>3 DEF AssignVisitedAt, Visit, Contents
    <2>4. CASE AssignMark(w)
      BY <1>1, <1>2, <2>4 DEF AssignMark, Visit, Contents
    <2>5. QED
      BY <2>1, <2>2, <2>3, <2>4
  <1>5. visits_'[v] # None
    <2>1. Grows
      BY StepLemma DEF Statement
    <2>2. QED
      BY <1>2, <2>1 DEF Grows
  <1>6. AtItsLocation(v)'
    BY <1>2, <1>3, <1>4, <1>5, StaysPut
  <1>7. pc'[w] \in {"old_user", "leave_user", "enter_user", "write_user", "visited_at",
                    "mark", "idle"}
    <2>1. CASE CompareUser(w)
      BY <2>1, WentOn DEF CompareUser
    <2>2. CASE FindOldUser(w)
      BY <2>2, WentOn DEF FindOldUser, Goto, Control
    <2>3. CASE LeaveUser(w) \/ EnterUser(w) \/ WriteUser(w) \/ AssignVisitedAt(w)
      BY <2>3, WentOn DEF LeaveUser, EnterUser, WriteUser, AssignVisitedAt
    <2>4. CASE AssignMark(w)
      BY <2>4, CameBack DEF AssignMark
    <2>5. QED
      BY <2>1, <2>2, <2>3, <2>4
  <1>8. QED
    BY <1>6, <1>7 DEF Underway, Away

\* Statements that change no visit belong to other calls.
LEMMA ChangingLemma ==
  ASSUME Typed, NEW w \in Workers, NEW v \in VisitIds, Changing(w, v), Statement(w)
  PROVE  \/ FindNothing(w) \/ FindEntity(w) \/ EmplaceVisit(w) \/ IndexUser(w)
         \/ IndexLocation(w)
         \/ CompareLocation(w) \/ FindOldLocation(w) \/ LeaveLocation(w) \/ EnterLocation(w)
         \/ WriteLocation(w)
         \/ CompareUser(w) \/ FindOldUser(w) \/ LeaveUser(w) \/ EnterUser(w) \/ WriteUser(w)
         \/ AssignVisitedAt(w) \/ AssignMark(w)
  <1>1. /\ call[w].op \in {"AddVisit", "UpdateVisit"} /\ pc[w] \in StatementsOf(call[w].op)
    BY BusyLemma DEF Changing, ChangesVisit, Typed
  <1>2. pc[w] \notin {"serialize", "index", "next", "count", "print"}
    BY <1>1, StatementLemma DEF Gets, Queries
  <1>3. /\ ~EmplaceUser(w) /\ ~EmplaceLocation(w) /\ ~AssignGender(w) /\ ~AssignBirthDate(w)
        /\ ~AssignDistance(w) /\ ~AssignCountry(w)
        /\ ~Serialize(w)
        /\ ~FindIndex(w) /\ ~NextVisit(w) /\ ~CountVisit(w) /\ ~EndOfVisits(w) /\ ~PrintVisits(w)
    BY <1>1, <1>2 DEF EmplaceUser, EmplaceLocation, AssignGender, AssignBirthDate,
       AssignDistance, AssignCountry, At, Serialize,
       FindIndex, NextVisit, CountVisit, EndOfVisits, PrintVisits
  <1>4. QED
    BY <1>3, Zenon DEF Statement

\* A statement leaves the changers of a visit as they are, but for its own
\* worker returning.
LEMMA ChangersLemma ==
  ASSUME Typed, NEW w \in Workers, Statement(w), NEW v \in VisitIds
  PROVE  /\ \A x \in Workers : Changing(x, v)' => Changing(x, v)
         /\ \A x \in Workers \ {w} : Changing(x, v) => Changing(x, v)'
         /\ Changing(w, v) /\ pc'[w] # "idle" => Changing(w, v)'
  <1>1. pc[w] # "idle" /\ Keeps(w)
    BY ActiveLemma, StepLemma
  <1>2. QED
    BY <1>1 DEF Keeps, Changing

\* A statement of any worker keeps the invariant of every visit whose changes
\* do not overlap.
LEMMA LocationStep ==
  ASSUME Typed, NEW w \in Workers, Statement(w), NEW v \in VisitIds, LocationFollows(v)
  PROVE  LocationFollows(v)'
  <1>1. Keeps(w) /\ pc[w] # "idle"
    BY ActiveLemma, StepLemma
  <1>2. Sole(v)'
    BY ChangersLemma DEF LocationFollows, Sole
  <1>3. CASE ~Changing(w, v)
    <2>1. /\ visits_'[v] = visits_[v]
          /\ \A key \in LocationIds :
               Copies(locations_to_visits_', key, v) = Copies(locations_to_visits_, key, v)
          /\ AtItsLocation(v)' <=> AtItsLocation(v)
          /\ InNoMultiset(v)' <=> InNoMultiset(v)
      BY <1>3, CopiesLemma, StaysPut
    <2>2. ASSUME NEW x \in Workers, Changing(x, v)'
          PROVE  Underway(x, v)'
      <3>1. x # w /\ Changing(x, v) /\ Underway(x, v)
        BY <1>3, <2>2, ChangersLemma DEF LocationFollows
      <3>2. pc'[x] = pc[x] /\ call'[x] = call[x] /\ from'[x] = from[x]
        BY <1>1, <3>1 DEF Keeps
      <3>3. pc[x] = "write_location" => InMultisetOf(v, call[x].arg.location_id)'
        BY <2>1, <3>1, <3>2 DEF Underway, InMultisetOf
      <3>4. QED
        BY <2>1, <3>1, <3>2, <3>3 DEF Underway
    <2>3. (\A x \in Workers : ~Changing(x, v)') => AtItsLocation(v)'
      BY <1>3, <2>1, ChangersLemma DEF LocationFollows
    <2>4. QED
      BY <1>2, <2>2, <2>3 DEF LocationFollows
  <1>4. CASE Changing(w, v)
    <2>1. IF pc'[w] = "idle" THEN AtItsLocation(v)' ELSE Underway(w, v)'
      BY <1>4, ChangingLemma, AddingFollows, MovingFollows, RestFollows DEF LocationFollows
    <2>2. \A x \in Workers : Changing(x, v)' => x = w
      BY <1>4, ChangersLemma DEF LocationFollows, Sole
    <2>3. pc'[w] = "idle" => ~Changing(w, v)'
      BY DEF Changing
    <2>4. pc'[w] # "idle" => Changing(w, v)'
      BY <1>4, ChangersLemma
    <2>5. \A x \in Workers : Changing(x, v)' => Underway(x, v)'
      BY <2>1, <2>2, <2>3
    <2>6. (\A x \in Workers : ~Changing(x, v)') => AtItsLocation(v)'
      BY <2>1, <2>4
    <2>7. QED
      BY <1>2, <2>5, <2>6 DEF LocationFollows
  <1>5. QED
    BY <1>3, <1>4

\* The beginning of a call keeps it, unless the call overlaps another change of
\* the visit: then the visit is no longer one the invariant speaks of.
LEMMA LocationBegin ==
  ASSUME Typed, NEW w \in Workers, NEW c \in Calls, Begin(w, c), NEW v \in VisitIds \ overlapped',
         LocationFollows(v)
  PROVE  LocationFollows(v)'
  <1>1. /\ pc[w] = "idle" /\ pc'[w] = "find" /\ call'[w] = c
        /\ \A x \in Workers \ {w} :
             call'[x] = call[x] /\ pc'[x] = pc[x] /\ from'[x] = from[x]
        /\ visits_' = visits_ /\ locations_to_visits_' = locations_to_visits_
    BY BeginLemma DEF containers, indexes
  <1>2. /\ \A x \in Workers \ {w} : Changing(x, v)' <=> Changing(x, v)
        /\ Changing(w, v)' <=> ChangesVisit(c, v)
        /\ ~Changing(w, v)
    BY <1>1 DEF Changing
  <1>3. /\ AtItsLocation(v)' <=> AtItsLocation(v)
        /\ InNoMultiset(v)' <=> InNoMultiset(v)
        /\ \A l : InMultisetOf(v, l)' <=> InMultisetOf(v, l)
    BY <1>1, StaysPut
  <1>4. CASE ~ChangesVisit(c, v)
    <2>1. Sole(v)' /\ ((\A x \in Workers : ~Changing(x, v)') => AtItsLocation(v)')
      BY <1>2, <1>3, <1>4 DEF LocationFollows, Sole
    <2>2. ASSUME NEW x \in Workers, Changing(x, v)'
          PROVE  Underway(x, v)'
      <3>1. x # w /\ Changing(x, v) /\ Underway(x, v)
        BY <1>2, <1>4, <2>2 DEF LocationFollows
      <3>2. pc[x] = "write_location" => InMultisetOf(v, call[x].arg.location_id)'
        BY <1>1, <1>3, <3>1 DEF Underway, InMultisetOf
      <3>3. QED
        BY <1>1, <1>3, <3>1, <3>2 DEF Underway
    <2>3. QED
      BY <2>1, <2>2 DEF LocationFollows
  <1>5. CASE ChangesVisit(c, v)
    <2>1. \A x \in Workers : ~Changing(x, v)
      <3>1. ~ \E x \in Busy : ChangesVisit(call[x], v)
        BY <1>5 DEF Begin
      <3>2. QED
        BY <3>1 DEF Changing, Busy
    <2>2. AtItsLocation(v)' /\ Sole(v)'
      BY <1>2, <1>3, <2>1 DEF LocationFollows, Sole
    <2>3. Underway(w, v)'
      BY <1>1, <2>2 DEF Underway, Away
    <2>4. QED
      BY <1>2, <2>1, <2>2, <2>3 DEF LocationFollows
  <1>6. QED
    BY <1>4, <1>5

\* The invariant of the locations holds throughout.
LEMMA LocationHolds == Spec => []LocationInvariant
  <1>1. ASSUME Typed, [Next]_vars, LocationInvariant
        PROVE  LocationInvariant'
    <2> SUFFICES ASSUME NEW v \in VisitIds \ overlapped'
                 PROVE  LocationFollows(v)'
      BY DEF LocationInvariant
    <2>1. CASE \E w \in Workers : Statement(w)
      <3>1. PICK w \in Workers : Statement(w)
        BY <2>1
      <3>2. overlapped' = overlapped
        BY <1>1, <3>1, StepLemma DEF Keeps
      <3>3. QED
        BY <1>1, <3>1, <3>2, LocationStep DEF LocationInvariant
    <2>2. CASE \E w \in Workers : \E c \in Calls : Begin(w, c)
      <3>1. PICK w \in Workers, c \in Calls : Begin(w, c)
        BY <2>2
      <3>2. overlapped \subseteq overlapped'
        BY <3>1 DEF Begin
      <3>3. QED
        BY <1>1, <3>1, <3>2, LocationBegin DEF LocationInvariant
    <2>3. CASE Race \/ UNCHANGED vars
      <3>1. UNCHANGED <<containers, indexes, call, pc, locals, overlapped>>
        BY <1>1, <2>3, StillLemma
      <3>2. LocationFollows(v)
        BY <1>1, <3>1 DEF LocationInvariant
      <3>3. UNCHANGED <<visits_, locations_to_visits_, call, pc, from>>
        BY <3>1 DEF containers, indexes, locals
      <3>4. QED
        BY <3>2, <3>3 DEF LocationFollows, Sole, Changing, ChangesVisit, Underway, Away,
           AtItsLocation, InMultisetOf, InNoMultiset, Copies
    <2>4. QED
      BY <1>1, <2>1, <2>2, <2>3, NextLemma
  <1>2. QED
    BY <1>1, LocationInit, TypedInvariant, PTL DEF Spec

\* However many workers there are and whatever they do to other visits, a visit
\* whose changes never overlapped ends up in the multiset of its location, once,
\* and in no other.
THEOREM LocationsCorrect == Spec => []SettledVisitsAtTheirLocation
  <1>1. Typed /\ LocationInvariant => SettledVisitsAtTheirLocation
    <2> SUFFICES ASSUME Typed, LocationInvariant, NEW v \in Settled, NEW l \in LocationIds
                 PROVE  Copies(locations_to_visits_, l, v) =
                          IF visits_[v] # None /\ visits_[v].location_id = l THEN 1 ELSE 0
      BY DEF SettledVisitsAtTheirLocation
    <2>1. v \in VisitIds \ overlapped /\ \A w \in Workers : ~Changing(w, v)
      BY DEF Settled, Changing, Busy
    <2>2. AtItsLocation(v)
      BY <2>1 DEF LocationInvariant, LocationFollows
    <2>3. QED
      BY <2>2 DEF AtItsLocation, InMultisetOf, InNoMultiset
  <1>2. QED
    BY <1>1, TypedInvariant, LocationHolds, PTL

(***************************************************************************)
(* Visits and users.  Nothing is ever taken out of a user's multiset but   *)
(* the user's own id, or, once changes of a visit have overlapped, that of *)
(* another user; so a list loses no visit that is spared.                  *)
(***************************************************************************)
UnderItsUser(v) ==
  visits_[v] # None /\ Spared(v, visits_[v].user_id) =>
    Copies(users_to_visits_, visits_[v].user_id, v) >= 1

\* How far the worker w has come with its change of v.
UnderwayByUser(w, v) ==
  /\ pc[w] = "write_user" /\ Spared(v, call[w].arg.user_id)
       => Copies(users_to_visits_, call[w].arg.user_id, v) >= 1
  /\ pc[w] = "leave_user" => from[w] = visits_[v].user_id
  /\ pc[w] # "user_index" => UnderItsUser(v)

UserFollows(v) ==
  /\ \A w \in Workers : Changing(w, v) => UnderwayByUser(w, v)
  /\ (\A w \in Workers : ~Changing(w, v)) => UnderItsUser(v)

UserInvariant == \A v \in VisitIds \ overlapped : UserFollows(v)

\* The loaded visits are in their users' multisets.
LEMMA UserInit == Init => UserInvariant
  <1> SUFFICES ASSUME Init, NEW v \in VisitIds
               PROVE  UserFollows(v)
    BY DEF UserInvariant
  <1>1. \A w \in Workers : ~Changing(w, v)
    BY DEF Init, Changing
  <1>2. UnderItsUser(v)
    <2> SUFFICES ASSUME visits_[v] # None
                 PROVE  Copies(users_to_visits_, visits_[v].user_id, v) >= 1
      BY DEF UnderItsUser
    <2> DEFINE key == visits_[v].user_id
               keyed == {x \in VisitIds : LoadedVisits[x] # None /\ LoadedVisits[x].user_id = key}
    <2>1. visits_ = LoadedVisits /\ visits_[v] \in Visit /\ v \in keyed
      BY LoadedAssumption DEF Init, LoadedAssumption
    <2>2. key \in UserIds
      BY <2>1, VisitLemma
    <2>3. users_to_visits_[key] =
            IF keyed = {} THEN None ELSE [x \in VisitIds |-> IF x \in keyed THEN 1 ELSE 0]
      BY <2>2 DEF Init, Mapped
    <2> HIDE DEF keyed
    <2>4. users_to_visits_[key] = [x \in VisitIds |-> IF x \in keyed THEN 1 ELSE 0]
      BY <2>1, <2>3
    <2>5. [x \in VisitIds |-> IF x \in keyed THEN 1 ELSE 0] \in Multiset
      BY DEF Multiset
    <2>6. users_to_visits_[key] # None
      BY <2>4, <2>5, CallsAssumption DEF CallsAssumption
    <2>7. users_to_visits_[key][v] = 1
      BY <2>1, <2>4
    <2>8. QED
      BY <2>6, <2>7 DEF Copies
  <1>3. QED
    BY <1>1, <1>2 DEF UserFollows

\* What a worker is about to take out of a user's multiset is the user's own id
\* while no changes have overlapped.
LEMMA ErasedLemma ==
  ASSUME Typed, UserInvariant, NEW w \in Workers, LeaveUser(w)
  PROVE  /\ call[w].id \in VisitIds /\ from[w] \in UserIds
         /\ visits_[call[w].id].user_id \in UserIds
         /\ overlapped = {} => from[w] = visits_[call[w].id].user_id
  <1>1. call[w].op = "UpdateVisit" /\ pc[w] \notin Early /\ from[w] \in UserIds
    BY DEF LeaveUser, At, Early, Typed, Sound
  <1>2. call[w].id \in VisitIds /\ visits_[call[w].id].user_id \in UserIds
    BY <1>1, UpdateVisitLemma DEF Typed
  <1>3. Changing(w, call[w].id) /\ pc[w] = "leave_user"
    BY <1>1 DEF LeaveUser, At, Changing, ChangesVisit, Early
  <1>4. overlapped = {} => UserFollows(call[w].id)
    BY <1>2 DEF UserInvariant
  <1>5. QED
    BY <1>1, <1>2, <1>3, <1>4 DEF UserFollows, UnderwayByUser

\* No statement takes a spared visit out of a user's multiset.
LEMMA UsersLoseNothing ==
  ASSUME Typed, UserInvariant, NEW w \in Workers, Statement(w),
         NEW u \in UserIds, NEW v \in VisitIds, Spared(v, u)
  PROVE  /\ Copies(users_to_visits_, u, v) \in Nat
         /\ Copies(users_to_visits_', u, v) \in Nat
         /\ Copies(users_to_visits_', u, v) >= Copies(users_to_visits_, u, v)
  <1> Contents /\ Control
    BY DEF Typed
  <1>1. Copies(users_to_visits_, u, v) \in Nat
    BY DEF Contents, Copies, Multiset
  <1>2. CASE IndexUser(w)
    <2>1. call[w].op = "AddVisit" /\ pc[w] # "idle"
      BY <1>2 DEF IndexUser, At
    <2>2. call[w].arg.user_id \in UserIds /\ call[w].id \in VisitIds
      BY <2>1, BusyLemma, CallLemma, VisitLemma
    <2>3. users_to_visits_' = EmplaceAt(users_to_visits_, call[w].arg.user_id, call[w].id)
      BY <1>2 DEF IndexUser
    <2>4. Copies(users_to_visits_', u, v) =
            IF u = call[w].arg.user_id /\ v = call[w].id
            THEN Copies(users_to_visits_, u, v) + 1 ELSE Copies(users_to_visits_, u, v)
      BY <2>2, <2>3, EmplaceLemma DEF Contents
    <2>5. QED
      BY <1>1, <2>4
  <1>3. CASE LeaveUser(w)
    <2> DEFINE erased == visits_[call[w].id].user_id
    <2>1. /\ from[w] \in UserIds /\ erased \in UserIds
          /\ overlapped = {} => from[w] = erased
      BY <1>3, ErasedLemma
    <2>2. users_to_visits_' = EraseAt(users_to_visits_, from[w], erased)
      BY <1>3 DEF LeaveUser
    <2>3. ~ (u = from[w] /\ v = erased)
      BY <2>1 DEF Spared
    <2> HIDE DEF erased
    <2>4. Copies(users_to_visits_', u, v) = Copies(users_to_visits_, u, v)
      BY <2>1, <2>2, <2>3, EraseLemma DEF Contents
    <2>5. QED
      BY <1>1, <2>4
  <1>4. CASE EnterUser(w)
    <2>1. /\ call[w].op = "UpdateVisit" /\ pc[w] \notin Early
          /\ call[w].arg.user_id \in UserIds
      BY <1>4 DEF EnterUser, At, Early, Typed, Sound
    <2>2. call[w].id \in VisitIds
      BY <2>1, UpdateVisitLemma DEF Typed
    <2>3. users_to_visits_' = EmplaceAt(users_to_visits_, call[w].arg.user_id, call[w].id)
      BY <1>4 DEF EnterUser
    <2>4. Copies(users_to_visits_', u, v) =
            IF u = call[w].arg.user_id /\ v = call[w].id
            THEN Copies(users_to_visits_, u, v) + 1 ELSE Copies(users_to_visits_, u, v)
      BY <2>1, <2>2, <2>3, EmplaceLemma DEF Contents
    <2>5. QED
      BY <1>1, <2>4
  <1>5. ASSUME ~IndexUser(w), ~LeaveUser(w), ~EnterUser(w)
        PROVE  UNCHANGED users_to_visits_
    BY <1>5, Zenon DEF Statement, FindNothing, FindEntity, EmplaceUser, EmplaceLocation,
       EmplaceVisit, IndexLocation, AssignGender, AssignBirthDate, AssignDistance,
       AssignCountry, CompareLocation,
       FindOldLocation, LeaveLocation, EnterLocation, WriteLocation, CompareUser,
       FindOldUser, WriteUser, AssignVisitedAt, AssignMark, Serialize, FindIndex,
       NextVisit, CountVisit, EndOfVisits, PrintVisits, indexes
  <1>6. QED
    BY <1>1, <1>2, <1>3, <1>4, <1>5

\* Which visits are spared does not change but when a call begins.
LEMMA SparedStays ==
  ASSUME Typed, NEW w \in Workers, Statement(w)
  PROVE  \A v, u : Spared(v, u)' <=> Spared(v, u)
  BY StepLemma DEF Keeps, Spared

\* So a visit that keeps its user stays in its user's multiset.
LEMMA StaysUnder ==
  ASSUME Typed, UserInvariant, NEW w \in Workers, Statement(w),
         NEW v \in VisitIds, UnderItsUser(v),
         visits_'[v] # None => visits_[v] # None /\ visits_'[v].user_id = visits_[v].user_id
  PROVE  UnderItsUser(v)'
  <1> SUFFICES ASSUME visits_'[v] # None, Spared(v, visits_[v].user_id)
               PROVE  Copies(users_to_visits_', visits_[v].user_id, v) >= 1
    BY SparedStays DEF UnderItsUser
  <1>1. visits_[v].user_id \in UserIds
    BY VisitLemma DEF Typed, Contents
  <1>2. Copies(users_to_visits_, visits_[v].user_id, v) >= 1
    BY DEF UnderItsUser
  <1>3. QED
    BY <1>1, <1>2, UsersLoseNothing

\* The statements of the changer that put the visit into a multiset or change
\* its user.
LEMMA UserChangeFollows ==
  ASSUME Typed, UserInvariant, NEW w \in Workers, NEW v \in VisitIds,
         Changing(w, v), Underway(w, v), UnderwayByUser(w, v),
         EmplaceVisit(w) \/ IndexUser(w) \/ EnterUser(w) \/ WriteUser(w)
  PROVE  pc'[w] # "idle" /\ UnderwayByUser(w, v)'
  <1> Contents /\ Control
    BY DEF Typed
  <1> DEFINE c == call[w]
             to == c.arg.user_id
  <1>1. c \in Call /\ c.id = v /\ pc[w] # "idle"
    BY BusyLemma DEF Changing, ChangesVisit
  <1>2. CASE EmplaceVisit(w)
    <2>1. pc'[w] = "user_index"
      BY <1>2, WentOn DEF EmplaceVisit
    <2>2. QED
      BY <2>1 DEF UnderwayByUser
  <1>3. CASE IndexUser(w)
    <2>1. c.op = "AddVisit" /\ visits_[v] = c.arg
      BY <1>3 DEF IndexUser, At, Underway
    <2>2. to \in UserIds
      BY <1>1, <2>1, CallLemma, VisitLemma
    <2>3. /\ pc'[w] = "location_index" /\ visits_' = visits_
          /\ users_to_visits_' = EmplaceAt(users_to_visits_, to, v)
      BY <1>1, <1>3, WentOn DEF IndexUser, containers
    <2>4. Copies(users_to_visits_', to, v) >= 1
      BY <2>2, <2>3, EmplaceLemma DEF Contents
    <2>5. QED
      BY <2>1, <2>3, <2>4 DEF UnderwayByUser, UnderItsUser
  <1>4. CASE EnterUser(w)
    <2>1. to \in UserIds /\ UnderItsUser(v)
      BY <1>4 DEF EnterUser, At, Typed, Sound, UnderwayByUser
    <2>2. /\ pc'[w] = "write_user" /\ visits_' = visits_ /\ call' = call
          /\ users_to_visits_' = EmplaceAt(users_to_visits_, to, v)
      BY <1>1, <1>4, WentOn DEF EnterUser, containers
    <2>3. Copies(users_to_visits_', to, v) >= 1
      BY <2>1, <2>2, EmplaceLemma DEF Contents
    <2>4. UnderItsUser(v)'
      BY <1>4, <2>1, <2>2, StaysUnder DEF Statement
    <2>5. QED
      BY <2>2, <2>3, <2>4 DEF UnderwayByUser
  <1>5. CASE WriteUser(w)
    <2>1. /\ c.op = "UpdateVisit" /\ pc[w] \notin Early
          /\ Spared(v, to) => Copies(users_to_visits_, to, v) >= 1
      BY <1>5 DEF WriteUser, At, Early, UnderwayByUser
    <2>2. visits_[v] \in Visit
      BY <1>1, <2>1, UpdateVisitLemma DEF Typed
    <2>3. /\ pc'[w] = "visited_at" /\ users_to_visits_' = users_to_visits_
          /\ visits_' = [visits_ EXCEPT ![v].user_id = to]
      BY <1>1, <1>5, WentOn DEF WriteUser, indexes
    <2>4. visits_'[v].user_id = to
      BY <2>2, <2>3 DEF Contents, Visit
    <2>5. QED
      BY <1>5, <2>1, <2>3, <2>4, SparedStays DEF UnderwayByUser, UnderItsUser, Statement
  <1>6. QED
    BY <1>2, <1>3, <1>4, <1>5

\* Its other statements leave the visit's user alone and lead to no WriteUser.
LEMMA UserRestFollows ==
  ASSUME Typed, UserInvariant, NEW w \in Workers, NEW v \in VisitIds,
         Statement(w), Changing(w, v), UnderwayByUser(w, v),
         ~EmplaceVisit(w), ~IndexUser(w), ~EnterUser(w), ~WriteUser(w)
  PROVE  UnderItsUser(v)' /\ UnderwayByUser(w, v)'
  <1> Contents /\ Control
    BY DEF Typed
  <1>1. call[w].id = v
    BY DEF Changing, ChangesVisit
  <1>2. CASE WriteLocation(w) \/ AssignVisitedAt(w) \/ AssignMark(w)
    <2>1. /\ call[w].op = "UpdateVisit" /\ pc[w] \notin Early /\ UnderItsUser(v)
      BY <1>2 DEF WriteLocation, AssignVisitedAt, AssignMark, At, Early, UnderwayByUser
    <2>2. visits_[v] \in Visit /\ visits_[v] # None
      BY <1>1, <2>1, UpdateVisitLemma, NoneAssumption DEF Typed, NoneAssumption
    <2>3. visits_'[v].user_id = visits_[v].user_id
      <3>1. CASE WriteLocation(w)
        BY <1>1, <2>2, <3>1 DEF WriteLocation, Visit, Contents
      <3>2. CASE AssignVisitedAt(w)
        BY <1>1, <2>2, <3>2 DEF AssignVisitedAt, Visit, Contents
      <3>3. CASE AssignMark(w)
        BY <1>1, <2>2, <3>3 DEF AssignMark, Visit, Contents
      <3>4. QED
        BY <1>2, <3>1, <3>2, <3>3
    <2>4. UnderItsUser(v)'
      BY <2>1, <2>2, <2>3, StaysUnder
    <2>5. pc'[w] \in {"user", "mark", "idle"}
      BY <1>2, WentOn, CameBack DEF WriteLocation, AssignVisitedAt, AssignMark
    <2>6. QED
      BY <2>4, <2>5 DEF UnderwayByUser
  <1>3. CASE FindNothing(w) \/ FindEntity(w) \/ IndexLocation(w) \/ CompareLocation(w)
               \/ FindOldLocation(w) \/ LeaveLocation(w) \/ EnterLocation(w)
               \/ CompareUser(w) \/ FindOldUser(w) \/ LeaveUser(w)
    <2>1. UnderItsUser(v) /\ visits_' = visits_
      BY <1>3 DEF FindNothing, FindEntity, IndexLocation, CompareLocation, FindOldLocation,
         LeaveLocation, EnterLocation, CompareUser, FindOldUser, LeaveUser, At,
         UnderwayByUser, containers
    <2>2. UnderItsUser(v)'
      BY <2>1, StaysUnder
    <2>3. pc'[w] # "write_user" /\ (pc'[w] = "leave_user" => from'[w] = visits_[v].user_id)
      <3>1. CASE FindNothing(w)
        BY <3>1, WentOn, CameBack DEF FindNothing
      <3>2. CASE FindEntity(w)
        BY <3>2, WentOn, CameBack DEF FindEntity
      <3>3. CASE FindOldLocation(w)
        BY <3>3, WentOn DEF FindOldLocation, Goto, Control
      <3>4. CASE FindOldUser(w)
        BY <1>1, <3>4, WentOn DEF FindOldUser, Goto, Control
      <3>5. CASE IndexLocation(w)
        BY <3>5, CameBack DEF IndexLocation
      <3>6. CASE CompareLocation(w) \/ LeaveLocation(w) \/ EnterLocation(w)
        BY <3>6, WentOn DEF CompareLocation, LeaveLocation, EnterLocation
      <3>7. CASE CompareUser(w) \/ LeaveUser(w)
        BY <3>7, WentOn DEF CompareUser, LeaveUser
      <3>8. QED
        BY <1>3, <3>1, <3>2, <3>3, <3>4, <3>5, <3>6, <3>7
    <2>4. QED
      BY <2>1, <2>2, <2>3 DEF UnderwayByUser
  <1>4. QED
    BY <1>2, <1>3, ChangingLemma

\* A statement of any worker keeps the invariant.
LEMMA UserStep ==
  ASSUME Typed, UserInvariant, NEW w \in Workers, Statement(w),
         NEW v \in VisitIds \ overlapped, LocationFollows(v)
  PROVE  UserFollows(v)'
  <1> UserFollows(v)
    BY DEF UserInvariant
  <1>1. Keeps(w) /\ pc[w] # "idle" /\ Contents
    BY ActiveLemma, StepLemma DEF Typed
  <1>2. CASE ~Changing(w, v)
    <2>1. visits_'[v] = visits_[v]
      BY <1>2, CopiesLemma
    <2>2. UnderItsUser(v) => UnderItsUser(v)'
      BY <2>1, StaysUnder
    <2>3. ASSUME NEW x \in Workers, Changing(x, v)'
          PROVE  UnderwayByUser(x, v)'
      <3>1. x # w /\ Changing(x, v) /\ UnderwayByUser(x, v)
        BY <1>2, <2>3, ChangersLemma DEF UserFollows
      <3>2. pc'[x] = pc[x] /\ call'[x] = call[x] /\ from'[x] = from[x]
        BY <1>1, <3>1 DEF Keeps
      <3>3. ASSUME pc[x] = "write_user", Spared(v, call[x].arg.user_id)
            PROVE  Copies(users_to_visits_', call[x].arg.user_id, v) >= 1
        <4>1. call[x].arg.user_id \in UserIds
          BY <3>3 DEF Typed, Sound
        <4>2. Copies(users_to_visits_, call[x].arg.user_id, v) >= 1
          BY <3>1, <3>3 DEF UnderwayByUser
        <4>3. QED
          BY <3>3, <4>1, <4>2, UsersLoseNothing
      <3>4. QED
        BY <2>1, <2>2, <3>1, <3>2, <3>3, SparedStays DEF UnderwayByUser
    <2>4. (\A x \in Workers : ~Changing(x, v)') => UnderItsUser(v)'
      BY <1>2, <2>2, ChangersLemma DEF UserFollows
    <2>5. QED
      BY <2>3, <2>4 DEF UserFollows
  <1>3. CASE Changing(w, v)
    <2>1. Underway(w, v) /\ UnderwayByUser(w, v)
      BY <1>3 DEF LocationFollows, UserFollows
    <2>2. UnderwayByUser(w, v)' /\ (pc'[w] = "idle" => UnderItsUser(v)')
      BY <1>3, <2>1, UserChangeFollows, UserRestFollows
    <2>3. /\ \A x \in Workers : Changing(x, v)' => x = w
          /\ pc'[w] # "idle" => Changing(w, v)'
      BY <1>3, ChangersLemma DEF LocationFollows, Sole
    <2>4. \A x \in Workers : Changing(x, v)' => UnderwayByUser(x, v)'
      BY <2>2, <2>3
    <2>5. (\A x \in Workers : ~Changing(x, v)') => UnderItsUser(v)'
      BY <2>2, <2>3
    <2>6. QED
      BY <2>4, <2>5 DEF UserFollows
  <1>4. QED
    BY <1>2, <1>3

\* So does the beginning of a call.
LEMMA UserBegin ==
  ASSUME Typed, NEW w \in Workers, NEW c \in Calls, Begin(w, c), NEW v \in VisitIds \ overlapped',
         UserFollows(v)
  PROVE  UserFollows(v)'
  <1>1. /\ pc[w] = "idle" /\ pc'[w] = "find" /\ call'[w] = c
        /\ \A x \in Workers \ {w} :
             call'[x] = call[x] /\ pc'[x] = pc[x] /\ from'[x] = from[x]
        /\ visits_' = visits_ /\ users_to_visits_' = users_to_visits_
        /\ \A u : Spared(v, u)' => Spared(v, u)
    BY BeginLemma DEF containers, indexes, Begin, Spared
  <1>2. /\ \A x \in Workers \ {w} : Changing(x, v)' <=> Changing(x, v)
        /\ Changing(w, v)' <=> ChangesVisit(c, v)
        /\ ~Changing(w, v)
    BY <1>1 DEF Changing
  <1>3. UnderItsUser(v) => UnderItsUser(v)'
    BY <1>1 DEF UnderItsUser
  <1>4. ASSUME NEW x \in Workers \ {w}, Changing(x, v)'
        PROVE  UnderwayByUser(x, v)'
    <2>1. UnderwayByUser(x, v)
      BY <1>2, <1>4 DEF UserFollows
    <2>2. QED
      BY <1>1, <1>3, <2>1 DEF UnderwayByUser
  <1>5. CASE ~ChangesVisit(c, v)
    BY <1>2, <1>3, <1>4, <1>5 DEF UserFollows
  <1>6. CASE ChangesVisit(c, v)
    <2>1. \A x \in Workers : ~Changing(x, v)
      <3>1. ~ \E x \in Busy : ChangesVisit(call[x], v)
        BY <1>6 DEF Begin
      <3>2. QED
        BY <3>1 DEF Changing, Busy
    <2>2. UnderwayByUser(w, v)'
      BY <1>1, <1>3, <2>1 DEF UserFollows, UnderwayByUser
    <2>3. QED
      BY <1>2, <1>4, <1>6, <2>2 DEF UserFollows
  <1>7. QED
    BY <1>5, <1>6

\* The invariant of the users holds throughout.
LEMMA UserHolds == Spec => []UserInvariant
  <1>1. ASSUME Typed, LocationInvariant, [Next]_vars, UserInvariant
        PROVE  UserInvariant'
    <2> SUFFICES ASSUME NEW v \in VisitIds \ overlapped'
                 PROVE  UserFollows(v)'
      BY DEF UserInvariant
    <2>1. CASE \E w \in Workers : Statement(w)
      <3>1. PICK w \in Workers : Statement(w)
        BY <2>1
      <3>2. overlapped' = overlapped
        BY <1>1, <3>1, StepLemma DEF Keeps
      <3>3. QED
        BY <1>1, <3>1, <3>2, UserStep DEF LocationInvariant
    <2>2. CASE \E w \in Workers : \E c \in Calls : Begin(w, c)
      <3>1. PICK w \in Workers, c \in Calls : Begin(w, c)
        BY <2>2
      <3>2. overlapped \subseteq overlapped'
        BY <3>1 DEF Begin
      <3>3. QED
        BY <1>1, <3>1, <3>2, UserBegin DEF UserInvariant
    <2>3. CASE Race \/ UNCHANGED vars
      <3>1. UNCHANGED <<containers, indexes, call, pc, locals, overlapped>>
        BY <1>1, <2>3, StillLemma
      <3>2. UserFollows(v)
        BY <1>1, <3>1 DEF UserInvariant
      <3>3. UNCHANGED <<visits_, users_to_visits_, call, pc, from, overlapped>>
        BY <3>1 DEF containers, indexes, locals
      <3>4. QED
        BY <3>2, <3>3 DEF UserFollows, Changing, ChangesVisit, UnderwayByUser,
           UnderItsUser, Copies, Spared
    <2>4. QED
      BY <1>1, <2>1, <2>2, <2>3, NextLemma
  <1>2. QED
    BY <1>1, UserInit, TypedInvariant, LocationHolds, PTL DEF Spec

\* And the list of its user has it, whatever the workers do to other visits and
\* to the lists, unless the visit has the id of its user or, once changes of any
\* visit have overlapped, of any user.
THEOREM UsersCorrect == Spec => []SettledVisitsUnderTheirUser
  <1>1. UserInvariant => SettledVisitsUnderTheirUser
    <2> SUFFICES ASSUME UserInvariant, NEW v \in Settled
                 PROVE  UnderItsUser(v)
      BY DEF SettledVisitsUnderTheirUser, UnderItsUser
    <2>1. v \in VisitIds \ overlapped /\ \A w \in Workers : ~Changing(w, v)
      BY DEF Settled, Changing, Busy
    <2>2. QED
      BY <2>1 DEF UserInvariant, UserFollows
  <1>2. QED
    BY <1>1, UserHolds, PTL

(***************************************************************************)
(* Walks.  An average goes through its multiset by id and never back, and  *)
(* a visit whose changes do not overlap is there at most once.             *)
(***************************************************************************)
Walking == {"next", "count", "print"}

\* A statement other than the two of the walk itself either returns and clears
\* what the worker counted, or leaves it, and begins or ends the walk.
LEMMA StandsStill ==
  ASSUME Typed, NEW w \in Workers, Statement(w), ~NextVisit(w), ~CountVisit(w)
  PROVE  \/ pc'[w] = "idle" /\ counted'[w] = EmptyMultiset /\ cursor'[w] = -1
         \/ /\ counted'[w] = counted[w] /\ cursor'[w] = cursor[w]
            /\ call'[w] = call[w] /\ steady'[w] = steady[w]
            /\ \/ pc[w] \notin Walking /\ pc'[w] \notin Walking
               \/ pc[w] = "index" /\ pc'[w] = "next"
               \/ /\ pc[w] = "next" /\ pc'[w] = "print"
                  /\ call[w].op = "GetVisistsByUserId" /\ Ahead(w) = {}
  <1> Contents /\ Control
    BY DEF Typed
  <1> DEFINE Cleared == pc'[w] = "idle" /\ counted'[w] = EmptyMultiset /\ cursor'[w] = -1
             Kept == /\ counted'[w] = counted[w] /\ cursor'[w] = cursor[w]
                     /\ call'[w] = call[w] /\ steady'[w] = steady[w]
             Outside == pc[w] \notin Walking /\ pc'[w] \notin Walking
  <1>1. ASSUME NEW result, Return(w, result)
        PROVE  Cleared
    BY <1>1 DEF Return, Control
  <1>2. ASSUME NEW s, Proceed(w, s)
        PROVE  Kept /\ pc'[w] = s
    BY <1>2 DEF Proceed, Goto, locals, history, Control
  <1>3. CASE FindNothing(w) \/ FindEntity(w)
    <2>1. CASE FindNothing(w)
      <3>1. Cleared \/ (Kept /\ pc'[w] = "emplace")
        BY <2>1, <1>1, <1>2, Zenon DEF FindNothing
      <3>2. QED
        BY <2>1, <3>1 DEF FindNothing, Walking
    <2>2. CASE FindEntity(w)
      <3>1. Cleared \/ (Kept /\ pc'[w] \in {"gender", "distance", "location", "serialize", "index"})
        BY <2>2, <1>1, <1>2 DEF FindEntity
      <3>2. QED
        BY <2>2, <3>1 DEF FindEntity, Walking
    <2>3. QED
      BY <1>3, <2>1, <2>2
  <1>4. CASE EmplaceUser(w) \/ EmplaceLocation(w) \/ IndexLocation(w) \/ AssignBirthDate(w)
               \/ AssignCountry(w) \/ AssignMark(w) \/ Serialize(w) \/ PrintVisits(w)
    <2>1. Cleared
      BY <1>4, <1>1 DEF EmplaceUser, EmplaceLocation, IndexLocation, AssignBirthDate,
         AssignCountry, AssignMark, Serialize, PrintVisits
    <2>2. QED
      BY <2>1
  <1>5. CASE EmplaceVisit(w) \/ IndexUser(w) \/ LeaveLocation(w) \/ EnterLocation(w)
               \/ WriteLocation(w) \/ LeaveUser(w) \/ EnterUser(w) \/ WriteUser(w)
               \/ AssignVisitedAt(w) \/ AssignGender(w) \/ AssignDistance(w)
    <2>1. Kept
      BY <1>5, <1>2 DEF EmplaceVisit, IndexUser, LeaveLocation, EnterLocation,
         WriteLocation, LeaveUser, EnterUser, WriteUser, AssignVisitedAt, AssignGender,
         AssignDistance
    <2>2. Outside
      BY <1>5, <1>2 DEF EmplaceVisit, IndexUser, LeaveLocation, EnterLocation,
         WriteLocation, LeaveUser, EnterUser, WriteUser, AssignVisitedAt, AssignGender,
         AssignDistance, At, Walking
    <2>3. QED
      BY <2>1, <2>2
  <1>6. CASE CompareLocation(w) \/ CompareUser(w)
    <2>1. Kept /\ Outside
      <3>1. CASE CompareLocation(w)
        BY <3>1, <1>2 DEF CompareLocation, At, Walking
      <3>2. CASE CompareUser(w)
        BY <3>2, <1>2 DEF CompareUser, At, Walking
      <3>3. QED
        BY <1>6, <3>1, <3>2
    <2>2. QED
      BY <2>1
  <1>7. CASE FindOldLocation(w) \/ FindOldUser(w)
    <2>1. Kept /\ Outside
      <3>1. CASE FindOldLocation(w)
        <4>1. Kept /\ pc'[w] \in {"enter_location", "leave_location"}
          BY <3>1, <1>2 DEF FindOldLocation, Goto, history, Control
        <4>2. QED
          BY <3>1, <4>1 DEF FindOldLocation, At, Walking
      <3>2. CASE FindOldUser(w)
        <4>1. Kept /\ pc'[w] \in {"enter_user", "leave_user"}
          BY <3>2, <1>2 DEF FindOldUser, Goto, history, Control
        <4>2. QED
          BY <3>2, <4>1 DEF FindOldUser, At, Walking
      <3>3. QED
        BY <1>7, <3>1, <3>2
    <2>2. QED
      BY <2>1
  <1>8. CASE FindIndex(w)
    BY <1>8, <1>1, <1>2 DEF FindIndex
  <1>9. CASE EndOfVisits(w)
    BY <1>9, <1>1, <1>2 DEF EndOfVisits
  <1>10. QED
    BY <1>3, <1>4, <1>5, <1>6, <1>7, <1>8, <1>9, Zenon DEF Statement

\* The first step of the walk: to the least id ahead.
LEMMA NextVisitLemma ==
  ASSUME Typed, NEW w \in Workers, NextVisit(w)
  PROVE  /\ pc[w] = "next" /\ pc'[w] = "count" /\ call'[w] = call[w]
         /\ counted'[w] = counted[w] /\ steady'[w] = steady[w]
         /\ cursor'[w] \in Ahead(w) /\ \A x \in Ahead(w) : cursor'[w] <= x
         /\ UNCHANGED <<containers, indexes>>
  <1> Control
    BY DEF Typed
  <1>1. PICK v \in Ahead(w) :
          /\ \A x \in Ahead(w) : v <= x
          /\ cursor' = [cursor EXCEPT ![w] = v]
    BY DEF NextVisit
  <1>2. cursor'[w] = v
    BY <1>1 DEF Control
  <1>3. QED
    BY <1>1, <1>2 DEF NextVisit, Goto, history, Control

\* The second: the visit is counted if it passes the filters.
LEMMA CountVisitLemma ==
  ASSUME Typed, NEW w \in Workers, CountVisit(w)
  PROVE  /\ pc[w] = "count" /\ pc'[w] = "next" /\ call'[w] = call[w]
         /\ cursor'[w] = cursor[w] /\ cursor[w] \in VisitIds /\ steady'[w] = steady[w]
         /\ call[w].op \in Queries /\ Indexed(call[w]) \in Multiset
         /\ counted[w] \in Multiset
         /\ \A v \in VisitIds :
              counted'[w][v] =
                IF v = cursor[w] /\ Selected(call[w], v)
                THEN counted[w][v] + (IF Indexed(call[w])[v] = 0 THEN 1 ELSE Indexed(call[w])[v])
                ELSE counted[w][v]
         /\ UNCHANGED <<containers, indexes>>
  <1> Contents /\ Control
    BY DEF Typed
  <1> DEFINE c == call[w]
             reached == cursor[w]
             copies == IF Indexed(c)[reached] = 0 THEN 1 ELSE Indexed(c)[reached]
  <1>1. pc[w] = "count" /\ reached \in VisitIds /\ Indexed(c) # None
    BY DEF CountVisit, Typed, Sound
  <1>2. c \in Call /\ c.op \in Queries
    BY <1>1, BusyLemma, StatementLemma DEF Queries
  <1>3. Indexed(c) \in Multiset /\ counted[w] \in Multiset
    BY <1>1, <1>2, IndexedLemma DEF Control
  <1>4. counted' = IF Selected(c, reached)
                   THEN [counted EXCEPT ![w][reached] = @ + copies] ELSE counted
    BY DEF CountVisit
  <1>5. ASSUME NEW v \in VisitIds
        PROVE  counted'[w][v] =
                 IF v = reached /\ Selected(c, v)
                 THEN counted[w][v] + (IF Indexed(c)[v] = 0 THEN 1 ELSE Indexed(c)[v])
                 ELSE counted[w][v]
    BY <1>1, <1>3, <1>4 DEF Control, Multiset
  <1>6. /\ pc'[w] = "next" /\ call'[w] = c /\ cursor'[w] = reached /\ steady'[w] = steady[w]
        /\ UNCHANGED <<containers, indexes>>
    BY DEF CountVisit, Goto, history, Control
  <1>7. QED
    BY <1>1, <1>2, <1>3, <1>5, <1>6

\* A visit whose changes do not overlap is in a multiset at most once.
LEMMA AtMostOnce ==
  ASSUME Typed, LocationInvariant, NEW v \in VisitIds \ overlapped, NEW l \in LocationIds
  PROVE  Copies(locations_to_visits_, l, v) \in {0, 1}
  <1>1. LocationFollows(v)
    BY DEF LocationInvariant
  <1>2. AtItsLocation(v) => Copies(locations_to_visits_, l, v) \in {0, 1}
    BY DEF AtItsLocation, InMultisetOf, InNoMultiset
  <1>3. ASSUME NEW w \in Workers, Underway(w, v)
        PROVE  Copies(locations_to_visits_, l, v) \in {0, 1}
    BY <1>2, <1>3 DEF Underway, InMultisetOf, InNoMultiset
  <1>4. QED
    BY <1>1, <1>2, <1>3 DEF LocationFollows

\* How far an average has come: what is ahead is not counted yet.
WalkedOnce(w) ==
  /\ pc[w] \notin Walking => counted[w] = EmptyMultiset /\ cursor[w] = -1
  /\ pc[w] \in Walking /\ call[w].op = "GetAverageLocationMark" =>
       \A v \in VisitIds \ overlapped :
         /\ counted[w][v] <= 1
         /\ v > cursor[w] \/ (pc[w] = "count" /\ v = cursor[w]) => counted[w][v] = 0

WalkInvariant == \A w \in Workers : WalkedOnce(w)

\* The statements of the query itself keep it.
LEMMA WalkStep ==
  ASSUME Typed, LocationInvariant, NEW w \in Workers, Statement(w), WalkedOnce(w)
  PROVE  WalkedOnce(w)'
  <1>1. overlapped' = overlapped /\ \A v \in VisitIds : v \in Int
    BY StepLemma, IdAssumption DEF Keeps, IdAssumption
  <1>2. CASE NextVisit(w)
    <2>1. /\ pc[w] = "next" /\ pc'[w] = "count" /\ call'[w] = call[w]
          /\ counted'[w] = counted[w] /\ cursor'[w] \in VisitIds /\ cursor'[w] > cursor[w]
          /\ cursor[w] \in Int
      BY <1>1, <1>2, NextVisitLemma DEF Ahead, Typed, Control
    <2>2. ASSUME NEW v \in VisitIds \ overlapped, v > cursor'[w] \/ v = cursor'[w]
          PROVE  v > cursor[w]
      <3>1. v \in Int /\ cursor'[w] \in Int
        BY <1>1, <2>1
      <3>2. QED
        BY <2>1, <2>2, <3>1
    <2>3. QED
      BY <1>1, <2>1, <2>2 DEF WalkedOnce, Walking
  <1>3. CASE CountVisit(w)
    <2>1. pc'[w] = "next" /\ pc[w] = "count" /\ call'[w] = call[w] /\ cursor'[w] = cursor[w]
          /\ cursor[w] \in VisitIds /\ counted[w] \in Multiset
      BY <1>3, CountVisitLemma
    <2>2. ASSUME call[w].op = "GetAverageLocationMark", NEW v \in VisitIds \ overlapped
          PROVE  /\ counted'[w][v] <= 1
                 /\ v > cursor[w] => counted'[w][v] = 0
      <3>1. call[w].id \in LocationIds
        BY <2>1, <2>2, BusyLemma, CallLemma DEF Typed
      <3>2. Indexed(call[w])[v] \in {0, 1}
        <4>1. Indexed(call[w]) = locations_to_visits_[call[w].id]
          BY <2>2 DEF Indexed
        <4>2. Indexed(call[w]) # None
          BY <2>1 DEF Typed, Sound
        <4>3. QED
          BY <3>1, <4>1, <4>2, AtMostOnce DEF Copies
      <3>3. v \in Int /\ cursor[w] \in Int
        BY <1>1, <2>1
      <3>4. /\ counted[w][v] <= 1
            /\ v > cursor[w] \/ v = cursor[w] => counted[w][v] = 0
        BY <2>1, <2>2 DEF WalkedOnce, Walking
      <3>5. counted[w][v] \in Nat
        BY <2>1 DEF Multiset
      <3>6. counted'[w][v] =
                IF v = cursor[w] /\ Selected(call[w], v)
                THEN counted[w][v] + (IF Indexed(call[w])[v] = 0 THEN 1 ELSE Indexed(call[w])[v])
                ELSE counted[w][v]
        BY <1>3, CountVisitLemma
      <3>7. QED
        BY <3>2, <3>3, <3>4, <3>5, <3>6
    <2>3. QED
      BY <1>1, <2>1, <2>2 DEF WalkedOnce, Walking
  <1>4. CASE ~NextVisit(w) /\ ~CountVisit(w)
    <2>1. CASE pc'[w] = "idle" /\ counted'[w] = EmptyMultiset /\ cursor'[w] = -1
      BY <2>1 DEF WalkedOnce, Walking
    <2>2. CASE /\ counted'[w] = counted[w] /\ cursor'[w] = cursor[w]
               /\ call'[w] = call[w]
               /\ pc[w] \notin Walking /\ pc'[w] \notin Walking
      BY <2>2 DEF WalkedOnce
    <2>3. CASE /\ counted'[w] = counted[w] /\ cursor'[w] = cursor[w]
               /\ call'[w] = call[w] /\ pc[w] = "index" /\ pc'[w] = "next"
      <3>1. counted'[w] = EmptyMultiset
        BY <2>3 DEF WalkedOnce, Walking
      <3>2. QED
        BY <1>1, <2>3, <3>1 DEF WalkedOnce, Walking, EmptyMultiset
    <2>4. CASE call'[w] = call[w] /\ pc'[w] = "print" /\ call[w].op = "GetVisistsByUserId"
      BY <2>4 DEF WalkedOnce, Walking
    <2>5. QED
      BY <1>4, <2>1, <2>2, <2>3, <2>4, StandsStill
  <1>5. QED
    BY <1>2, <1>3, <1>4

\* The invariant of the walks holds throughout.
LEMMA WalkHolds == Spec => []WalkInvariant
  <1>1. Init => WalkInvariant
    BY DEF Init, WalkInvariant, WalkedOnce, Walking
  <1>2. ASSUME Typed, LocationInvariant, [Next]_vars, WalkInvariant
        PROVE  WalkInvariant'
    <2> SUFFICES ASSUME NEW x \in Workers
                 PROVE  WalkedOnce(x)'
      BY DEF WalkInvariant
    <2>1. WalkedOnce(x)
      BY <1>2 DEF WalkInvariant
    <2>2. ASSUME /\ pc'[x] = pc[x] /\ call'[x] = call[x]
                 /\ counted'[x] = counted[x] /\ cursor'[x] = cursor[x],
                 overlapped \subseteq overlapped'
          PROVE  WalkedOnce(x)'
      BY <2>1, <2>2 DEF WalkedOnce
    <2>3. ASSUME NEW w \in Workers, Statement(w)
          PROVE  WalkedOnce(x)'
      <3>1. CASE x = w
        BY <1>2, <2>1, <2>3, <3>1, WalkStep
      <3>2. CASE x # w
        BY <1>2, <2>2, <2>3, <3>2, StepLemma DEF Keeps
      <3>3. QED
        BY <3>1, <3>2
    <2>4. ASSUME NEW w \in Workers, NEW c \in Calls, Begin(w, c)
          PROVE  WalkedOnce(x)'
      <3>1. overlapped \subseteq overlapped'
        BY <2>4 DEF Begin
      <3>2. CASE x = w
        BY <1>2, <2>1, <2>4, <3>2, BeginLemma DEF WalkedOnce, Walking
      <3>3. CASE x # w
        BY <1>2, <2>2, <2>4, <3>1, <3>3, BeginLemma
      <3>4. QED
        BY <3>2, <3>3
    <2>5. CASE Race \/ UNCHANGED vars
      BY <1>2, <2>2, <2>5, StillLemma DEF locals
    <2>6. QED
      BY <1>2, <2>3, <2>4, <2>5, NextLemma
  <1>3. QED
    BY <1>1, <1>2, TypedInvariant, LocationHolds, PTL DEF Spec

\* An average counts no visit twice whose changes do not overlap, for any number
\* of workers moving it while the average walks.
THEOREM CountedOnceCorrect == Spec => []NeverCountedTwice
  <1>1. Typed /\ WalkInvariant => NeverCountedTwice
    <2> SUFFICES ASSUME Typed, WalkInvariant, NEW w \in Busy,
                        call[w].op = "GetAverageLocationMark", NEW v \in VisitIds \ overlapped
                 PROVE  counted[w][v] <= 1
      BY DEF NeverCountedTwice
    <2>1. w \in Workers /\ WalkedOnce(w)
      BY DEF Busy, WalkInvariant
    <2>2. QED
      BY <2>1 DEF WalkedOnce, EmptyMultiset
  <1>2. QED
    BY <1>1, TypedInvariant, WalkHolds, PTL

(***************************************************************************)
(* Visits nobody touches while a query walks.                              *)
(***************************************************************************)
\* As long as a visit is steady for a query no call under way touches it.
Untouched(w) ==
  call[w].op \in Queries /\ pc[w] # "idle" =>
    \A v \in steady[w] : \A y \in Workers : pc[y] # "idle" => v \notin Touched(call[y])

\* A statement leaves what its call does not touch: the visit, its user and its
\* location.
LEMMA UntouchedLemma ==
  ASSUME Typed, NEW y \in Workers, Statement(y), NEW v \in VisitIds, v \notin Touched(call[y])
  PROVE  /\ visits_'[v] = visits_[v]
         /\ visits_[v] # None => /\ users_'[visits_[v].user_id] = users_[visits_[v].user_id]
                                 /\ locations_'[visits_[v].location_id] =
                                      locations_[visits_[v].location_id]
  <1> Contents
    BY DEF Typed
  <1>1. ~ChangesVisit(call[y], v)
    BY DEF Touched
  <1>2. visits_'[v] = visits_[v]
    BY <1>1, CopiesLemma DEF Changing
  <1>3. ASSUME visits_[v] # None
        PROVE  users_'[visits_[v].user_id] = users_[visits_[v].user_id]
    <2>1. call[y].op \in {"AddUser", "UpdateUser"} => visits_[v].user_id # call[y].id
      BY <1>3 DEF Touched
    <2>2. CASE EmplaceUser(y) \/ AssignGender(y) \/ AssignBirthDate(y)
      <3>1. /\ call[y].op \in {"AddUser", "UpdateUser"} /\ pc[y] # "idle"
        BY <2>2 DEF EmplaceUser, AssignGender, AssignBirthDate, At
      <3>2. visits_[v].user_id # call[y].id /\ visits_[v].user_id \in UserIds
        BY <1>3, <2>1, <3>1, VisitLemma DEF Contents
      <3>3. QED
        BY <2>2, <3>2 DEF EmplaceUser, EmplaceEntity, AssignGender, AssignBirthDate, Contents
    <2>3. ASSUME ~EmplaceUser(y), ~AssignGender(y), ~AssignBirthDate(y)
          PROVE  UNCHANGED users_
      BY <2>3, Zenon DEF Statement, FindNothing, FindEntity, EmplaceLocation, EmplaceVisit,
         IndexUser, IndexLocation, AssignDistance, AssignCountry, CompareLocation, FindOldLocation,
         LeaveLocation, EnterLocation, WriteLocation, CompareUser, FindOldUser, LeaveUser,
         EnterUser, WriteUser, AssignVisitedAt, AssignMark, Serialize, FindIndex, NextVisit,
         CountVisit, EndOfVisits, PrintVisits, containers
    <2>4. QED
      BY <2>2, <2>3
  <1>4. ASSUME visits_[v] # None
        PROVE  locations_'[visits_[v].location_id] = locations_[visits_[v].location_id]
    <2>1. call[y].op \in {"AddLocation", "UpdateLocation"} => visits_[v].location_id # call[y].id
      BY <1>4 DEF Touched
    <2>2. CASE EmplaceLocation(y) \/ AssignDistance(y) \/ AssignCountry(y)
      <3>1. /\ call[y].op \in {"AddLocation", "UpdateLocation"} /\ pc[y] # "idle"
        BY <2>2 DEF EmplaceLocation, AssignDistance, AssignCountry, At
      <3>2. visits_[v].location_id # call[y].id /\ visits_[v].location_id \in LocationIds
        BY <1>4, <2>1, <3>1, VisitLemma DEF Contents
      <3>3. QED
        BY <2>2, <3>2 DEF EmplaceLocation, EmplaceEntity, AssignDistance, AssignCountry, Contents
    <2>3. ASSUME ~EmplaceLocation(y), ~AssignDistance(y), ~AssignCountry(y)
          PROVE  UNCHANGED locations_
      BY <2>3, Zenon DEF Statement, FindNothing, FindEntity, EmplaceUser, EmplaceVisit,
         IndexUser, IndexLocation, AssignGender, AssignBirthDate, CompareLocation, FindOldLocation,
         LeaveLocation, EnterLocation, WriteLocation, CompareUser, FindOldUser, LeaveUser,
         EnterUser, WriteUser, AssignVisitedAt, AssignMark, Serialize, FindIndex, NextVisit,
         CountVisit, EndOfVisits, PrintVisits, containers
    <2>4. QED
      BY <2>2, <2>3
  <1>5. QED
    BY <1>2, <1>3, <1>4

\* Such a visit passes the same filters after the statement as before.
LEMMA SelectedStays ==
  ASSUME NEW v \in VisitIds, NEW w \in Workers, call'[w] = call[w],
         visits_'[v] = visits_[v],
         visits_[v] # None => /\ users_'[visits_[v].user_id] = users_[visits_[v].user_id]
                              /\ locations_'[visits_[v].location_id] =
                                   locations_[visits_[v].location_id]
  PROVE  Selected(call[w], v)' <=> Selected(call[w], v)
  BY DEF Selected

\* Whether a call touches a visit depends on the visit alone.
LEMMA TouchedStays ==
  ASSUME NEW v \in VisitIds, NEW y \in Workers, call'[y] = call[y], visits_'[v] = visits_[v]
  PROVE  v \in Touched(call[y])' <=> v \in Touched(call[y])
  BY DEF Touched, ChangesVisit

SteadyInvariant == \A w \in Workers : Untouched(w)

\* Calls that are under way touch no steady visit.
LEMMA SteadyHolds == Spec => []SteadyInvariant
  <1>1. Init => SteadyInvariant
    BY DEF Init, SteadyInvariant, Untouched
  <1>2. ASSUME Typed, [Next]_vars, SteadyInvariant
        PROVE  SteadyInvariant'
    <2> Contents /\ Control
      BY <1>2 DEF Typed
    <2>1. ASSUME NEW z \in Workers, Statement(z)
          PROVE  SteadyInvariant'
      <3> SUFFICES ASSUME NEW w \in Workers, call'[w].op \in Queries, pc'[w] # "idle",
                          NEW v \in steady'[w], NEW y \in Workers, pc'[y] # "idle"
                   PROVE  v \notin Touched(call[y])'
        BY DEF SteadyInvariant, Untouched
      <3>1. Keeps(z) /\ pc[z] # "idle"
        BY <1>2, <2>1, ActiveLemma, StepLemma
      <3>2. /\ call'[w] = call[w] /\ pc[w] # "idle"
            /\ call'[y] = call[y] /\ pc[y] # "idle"
        BY <3>1 DEF Keeps
      <3>3. steady'[w] = steady[w]
        <4>1. CASE w # z
          BY <3>1, <4>1 DEF Keeps
        <4>2. CASE w = z
          <5>1. CASE NextVisit(z) \/ CountVisit(z)
            BY <1>2, <4>2, <5>1, NextVisitLemma, CountVisitLemma
          <5>2. CASE ~NextVisit(z) /\ ~CountVisit(z)
            BY <1>2, <2>1, <4>2, <5>2, StandsStill
          <5>3. QED
            BY <5>1, <5>2
        <4>3. QED
          BY <4>1, <4>2
      <3>4. v \in steady[w] /\ v \in VisitIds
        BY <3>3 DEF Control
      <3>5. v \notin Touched(call[y]) /\ v \notin Touched(call[z])
        BY <1>2, <3>1, <3>2, <3>4 DEF SteadyInvariant, Untouched
      <3>6. visits_'[v] = visits_[v]
        BY <1>2, <2>1, <3>4, <3>5, UntouchedLemma
      <3>7. QED
        BY <3>2, <3>4, <3>5, <3>6, TouchedStays
    <2>2. ASSUME NEW z \in Workers, NEW c \in Calls, Begin(z, c)
          PROVE  SteadyInvariant'
      <3> SUFFICES ASSUME NEW w \in Workers, call'[w].op \in Queries, pc'[w] # "idle",
                          NEW v \in steady'[w], NEW y \in Workers, pc'[y] # "idle"
                   PROVE  v \notin Touched(call[y])'
        BY DEF SteadyInvariant, Untouched
      <3>1. /\ pc[z] = "idle" /\ pc'[z] = "find" /\ call'[z] = c
            /\ \A x \in Workers \ {z} : call'[x] = call[x] /\ pc'[x] = pc[x]
            /\ visits_' = visits_
        BY <1>2, <2>2, BeginLemma DEF containers
      <3>2. \A d : Touched(d)' = Touched(d)
        BY <3>1 DEF Touched, ChangesVisit
      <3> DEFINE After(x) == IF x # z THEN steady[x] \ Touched(c)
                             ELSE IF c.op \in Queries
                                  THEN VisitIds \ UNION {Touched(call[x1]) : x1 \in Busy} ELSE {}
      <3>3. steady' = [x \in Workers |-> After(x)]
        BY <2>2 DEF Begin
      <3>4. v \in After(w)
        <4> HIDE DEF After
        <4>1. QED
          BY <3>3
      <3>5. CASE w = z
        <4>1. c.op \in Queries
          BY <3>1, <3>5
        <4>2. v \in VisitIds /\ \A x \in Busy : v \notin Touched(call[x])
          BY <3>4, <3>5, <4>1
        <4>3. v \notin Touched(c)
          BY <4>1 DEF Touched, ChangesVisit, Queries
        <4>4. CASE y = z
          BY <3>1, <4>2, <4>3, <4>4 DEF Touched, ChangesVisit
        <4>5. CASE y # z
          <5>1. v \notin Touched(call[y])
            BY <3>1, <4>2, <4>5 DEF Busy
          <5>2. QED
            BY <3>1, <4>2, <4>5, <5>1, TouchedStays
        <4>6. QED
          BY <4>4, <4>5
      <3>6. CASE w # z
        <4>1. v \in steady[w] /\ v \notin Touched(c) /\ v \in VisitIds
          BY <3>4, <3>6 DEF Control
        <4>2. CASE y = z
          BY <3>1, <4>1, <4>2 DEF Touched, ChangesVisit
        <4>3. CASE y # z
          <5>1. v \notin Touched(call[y])
            BY <1>2, <3>1, <3>6, <4>1, <4>3 DEF SteadyInvariant, Untouched
          <5>2. QED
            BY <3>1, <4>1, <4>3, <5>1, TouchedStays
        <4>4. QED
          BY <4>2, <4>3
      <3>7. QED
        BY <3>5, <3>6
    <2>3. CASE Race \/ UNCHANGED vars
      <3>1. UNCHANGED <<visits_, call, pc, steady>>
        BY <1>2, <2>3, StillLemma DEF containers
      <3>2. QED
        BY <1>2, <3>1 DEF SteadyInvariant, Untouched, Touched, ChangesVisit
    <2>4. QED
      BY <1>2, <2>1, <2>2, <2>3, NextLemma
  <1>3. QED
    BY <1>1, <1>2, TypedInvariant, PTL DEF Spec

\* A visit that no call touches is not being changed.
LEMMA SteadySettled ==
  ASSUME SteadyInvariant, Control, NEW w \in Workers, pc[w] # "idle", call[w].op \in Queries,
         NEW v \in steady[w]
  PROVE  v \in VisitIds /\ \A y \in Workers : ~Changing(y, v)
  <1>1. v \in VisitIds
    BY DEF Control
  <1>2. \A y \in Workers : pc[y] # "idle" => v \notin Touched(call[y])
    BY DEF SteadyInvariant, Untouched
  <1>3. QED
    BY <1>1, <1>2 DEF Touched, Changing

\* The visits of a location that pass the filters of a query, and those of a user.
DueAt(w, v) ==
  visits_[v] # None /\ visits_[v].location_id = call[w].id /\ Selected(call[w], v)
DueTo(w, v) ==
  /\ visits_[v] # None
  /\ visits_[v].user_id = call[w].id
  /\ Spared(v, call[w].id)
  /\ Selected(call[w], v)

\* The visits the walk has behind it.
Behind(w, v) ==
  \/ pc[w] = "next" /\ v <= cursor[w]
  \/ pc[w] = "count" /\ v < cursor[w]
  \/ pc[w] = "print"

\* What an average has made of the steady visits behind it, and of the one it
\* is at.
AveragedSoFar(w) ==
  pc[w] \in Walking /\ call[w].op = "GetAverageLocationMark" =>
    \A v \in steady[w] \ overlapped :
      /\ Behind(w, v) => counted[w][v] = IF DueAt(w, v) THEN 1 ELSE 0
      /\ pc[w] = "count" /\ v = cursor[w] => visits_[v] # None /\ visits_[v].location_id = call[w].id

\* And a list.
ListedSoFar(w) ==
  pc[w] \in Walking /\ call[w].op = "GetVisistsByUserId" =>
    \A v \in steady[w] \ overlapped : Behind(w, v) /\ DueTo(w, v) => counted[w][v] >= 1

\* Other workers' statements leave both alone.
LEMMA SoFarStays ==
  ASSUME Typed, SteadyInvariant, NEW w \in Workers, NEW y \in Workers \ {w}, Statement(y)
  PROVE  /\ AveragedSoFar(w) => AveragedSoFar(w)'
         /\ ListedSoFar(w) => ListedSoFar(w)'
  <1>1. Keeps(y) /\ pc[y] # "idle" /\ Control
    BY ActiveLemma, StepLemma DEF Typed
  <1>2. /\ call'[w] = call[w] /\ pc'[w] = pc[w] /\ cursor'[w] = cursor[w]
        /\ counted'[w] = counted[w] /\ steady'[w] = steady[w] /\ overlapped' = overlapped
    BY <1>1 DEF Keeps
  <1>3. ASSUME NEW v \in steady[w], pc[w] \in Walking
        PROVE  /\ visits_'[v] = visits_[v]
               /\ DueAt(w, v)' <=> DueAt(w, v)
               /\ DueTo(w, v)' <=> DueTo(w, v)
               /\ Behind(w, v)' <=> Behind(w, v)
    <2>1. v \in VisitIds /\ pc[w] # "idle"
      BY <1>1, <1>3 DEF Control, Walking
    <2>2. call[w].op \in Queries
      BY <1>1, <1>3, <2>1, BusyLemma, StatementLemma DEF Walking, Queries
    <2>3. v \notin Touched(call[y])
      BY <1>1, <2>1, <2>2 DEF SteadyInvariant, Untouched
    <2>4. visits_'[v] = visits_[v] /\ (Selected(call[w], v)' <=> Selected(call[w], v))
      BY <1>2, <2>1, <2>3, UntouchedLemma, SelectedStays
    <2>5. QED
      BY <1>2, <2>4 DEF DueAt, DueTo, Behind, Spared
  <1>4. QED
    BY <1>2, <1>3 DEF AveragedSoFar, ListedSoFar

\* A steady visit is in the multiset of its location only.
LEMMA SteadyAtLocation ==
  ASSUME Typed, LocationInvariant, SteadyInvariant, NEW w \in Workers, pc[w] # "idle",
         call[w].op = "GetAverageLocationMark", Indexed(call[w]) # None,
         NEW v \in steady[w] \ overlapped
  PROVE  /\ v \in VisitIds /\ v \in Int
         /\ Indexed(call[w])[v] =
              IF visits_[v] # None /\ visits_[v].location_id = call[w].id THEN 1 ELSE 0
  <1>1. v \in VisitIds /\ \A y \in Workers : ~Changing(y, v)
    BY SteadySettled DEF Typed, Queries
  <1>2. v \in Int
    BY <1>1, IdAssumption DEF IdAssumption
  <1>3. call[w].id \in LocationIds
    BY BusyLemma, CallLemma DEF Typed
  <1>4. AtItsLocation(v)
    BY <1>1 DEF LocationInvariant, LocationFollows
  <1>5. Copies(locations_to_visits_, call[w].id, v) =
          IF visits_[v] # None /\ visits_[v].location_id = call[w].id THEN 1 ELSE 0
    BY <1>3, <1>4 DEF AtItsLocation, InMultisetOf, InNoMultiset
  <1>6. QED
    BY <1>1, <1>2, <1>5 DEF Copies, Indexed

\* Of what the walk has passed over, nothing was due.
LEMMA PassedOver ==
  ASSUME Typed, LocationInvariant, SteadyInvariant, NEW w \in Workers, pc[w] = "next",
         call[w].op = "GetAverageLocationMark", WalkedOnce(w), AveragedSoFar(w),
         NEW v \in steady[w] \ overlapped, v \notin Ahead(w)
  PROVE  counted[w][v] = IF DueAt(w, v) THEN 1 ELSE 0
  <1>1. Indexed(call[w]) # None
    BY DEF Typed, Sound
  <1>2. /\ v \in VisitIds /\ v \in Int
        /\ Indexed(call[w])[v] =
             IF visits_[v] # None /\ visits_[v].location_id = call[w].id THEN 1 ELSE 0
    BY <1>1, SteadyAtLocation
  <1>3. cursor[w] \in Int
    BY IdAssumption DEF Typed, Control, IdAssumption
  <1>4. CASE v <= cursor[w]
    BY <1>4 DEF AveragedSoFar, Walking, Behind
  <1>5. CASE v > cursor[w]
    <2>1. counted[w][v] = 0
      BY <1>2, <1>5 DEF WalkedOnce, Walking
    <2>2. ~DueAt(w, v)
      BY <1>2, <1>5 DEF Ahead, DueAt
    <2>3. QED
      BY <2>1, <2>2
  <1>6. QED
    BY <1>2, <1>3, <1>4, <1>5

\* The statements of the average itself.
LEMMA AverageStep ==
  ASSUME Typed, LocationInvariant, SteadyInvariant, NEW w \in Workers, Statement(w),
         WalkedOnce(w), AveragedSoFar(w)
  PROVE  AveragedSoFar(w)'
  <1>1. overlapped' = overlapped /\ Control /\ Control' /\ pc[w] # "idle"
    BY StepLemma, ActiveLemma DEF Keeps, Typed
  <1>2. CASE NextVisit(w) /\ call[w].op = "GetAverageLocationMark"
    <2> DEFINE reached == cursor'[w]
    <2>1. /\ pc[w] = "next" /\ pc'[w] = "count" /\ call'[w] = call[w]
          /\ counted'[w] = counted[w] /\ steady'[w] = steady[w]
          /\ reached \in Ahead(w) /\ \A x \in Ahead(w) : reached <= x
          /\ UNCHANGED <<visits_, users_, locations_>>
      BY <1>2, NextVisitLemma DEF containers
    <2>2. Indexed(call[w]) # None
      BY <2>1 DEF Typed, Sound
    <2>3. reached \in VisitIds /\ reached \in Int
      BY <2>1, IdAssumption DEF Ahead, IdAssumption
    <2>4. ASSUME NEW v \in steady[w] \ overlapped
          PROVE  /\ v < reached => counted'[w][v] = IF DueAt(w, v)' THEN 1 ELSE 0
                 /\ v = reached => visits_[v] # None /\ visits_[v].location_id = call[w].id
      <3>1. /\ v \in Int
            /\ Indexed(call[w])[v] =
                 IF visits_[v] # None /\ visits_[v].location_id = call[w].id THEN 1 ELSE 0
        BY <1>1, <1>2, <2>2, SteadyAtLocation
      <3>2. v < reached => v \notin Ahead(w)
        BY <2>1, <2>3, <3>1
      <3>3. DueAt(w, v)' <=> DueAt(w, v)
        BY <2>1 DEF DueAt, Selected
      <3>4. v = reached => visits_[v] # None /\ visits_[v].location_id = call[w].id
        BY <2>1, <3>1 DEF Ahead
      <3>5. QED
        BY <1>2, <2>1, <3>2, <3>3, <3>4, PassedOver
    <2>5. QED
      BY <1>1, <2>1, <2>4 DEF AveragedSoFar, Behind
  <1>3. CASE CountVisit(w) /\ call[w].op = "GetAverageLocationMark"
    <2>1. /\ pc[w] = "count" /\ pc'[w] = "next" /\ call'[w] = call[w]
          /\ cursor'[w] = cursor[w] /\ cursor[w] \in VisitIds /\ steady'[w] = steady[w]
          /\ counted[w] \in Multiset
          /\ UNCHANGED <<visits_, users_, locations_>>
      BY <1>3, CountVisitLemma DEF containers
    <2>2. Indexed(call[w]) # None
      BY <2>1 DEF Typed, Sound
    <2>3. cursor[w] \in Int
      BY <2>1, IdAssumption DEF IdAssumption
    <2>4. ASSUME NEW v \in steady[w] \ overlapped, v <= cursor[w]
          PROVE  counted'[w][v] = IF DueAt(w, v)' THEN 1 ELSE 0
      <3>1. /\ v \in VisitIds /\ v \in Int
            /\ Indexed(call[w])[v] =
                 IF visits_[v] # None /\ visits_[v].location_id = call[w].id THEN 1 ELSE 0
        BY <1>1, <1>3, <2>2, SteadyAtLocation
      <3>2. DueAt(w, v)' <=> DueAt(w, v)
        BY <2>1 DEF DueAt, Selected
      <3>3. counted'[w][v] =
              IF v = cursor[w] /\ Selected(call[w], v)
              THEN counted[w][v] + (IF Indexed(call[w])[v] = 0 THEN 1 ELSE Indexed(call[w])[v])
              ELSE counted[w][v]
        BY <1>3, <3>1, CountVisitLemma
      <3>4. CASE v < cursor[w]
        <4>1. counted[w][v] = IF DueAt(w, v) THEN 1 ELSE 0
          BY <1>3, <2>1, <3>4 DEF AveragedSoFar, Walking, Behind
        <4>2. v # cursor[w]
          BY <2>3, <3>1, <3>4
        <4>3. QED
          BY <3>2, <3>3, <4>1, <4>2
      <3>5. CASE v = cursor[w]
        <4>1. /\ visits_[v] # None /\ visits_[v].location_id = call[w].id
              /\ counted[w][v] = 0
          BY <1>3, <2>1, <3>1, <3>5 DEF AveragedSoFar, WalkedOnce, Walking
        <4>2. DueAt(w, v) <=> Selected(call[w], v)
          BY <4>1 DEF DueAt
        <4>3. Indexed(call[w])[v] = 1
          BY <3>1, <4>1
        <4>4. QED
          BY <3>2, <3>3, <3>5, <4>1, <4>2, <4>3
      <3>6. QED
        BY <2>3, <2>4, <3>1, <3>4, <3>5
    <2>5. QED
      BY <1>1, <2>1, <2>4 DEF AveragedSoFar, Behind
  <1>4. CASE (NextVisit(w) \/ CountVisit(w)) /\ call[w].op # "GetAverageLocationMark"
    <2>1. call'[w] = call[w]
      BY <1>4, NextVisitLemma, CountVisitLemma
    <2>2. QED
      BY <1>4, <2>1 DEF AveragedSoFar
  <1>5. CASE ~NextVisit(w) /\ ~CountVisit(w)
    <2>1. CASE pc'[w] \notin Walking
      BY <2>1 DEF AveragedSoFar
    <2>2. CASE pc'[w] = "next" /\ cursor'[w] = cursor[w] /\ pc[w] = "index"
      <3>1. cursor'[w] = -1
        BY <2>2 DEF WalkedOnce, Walking
      <3>2. ASSUME NEW v \in steady'[w]
            PROVE  ~Behind(w, v)'
        <4>1. v \in Nat
          BY <1>1, IdAssumption DEF Control, IdAssumption
        <4>2. QED
          BY <2>2, <3>1, <4>1 DEF Behind
      <3>3. QED
        BY <2>2, <3>2 DEF AveragedSoFar
    <2>3. CASE call'[w] = call[w] /\ call[w].op = "GetVisistsByUserId"
      BY <2>3 DEF AveragedSoFar
    <2>4. QED
      BY <1>5, <2>1, <2>2, <2>3, StandsStill DEF Walking
  <1>6. QED
    BY <1>2, <1>3, <1>4, <1>5

\* A steady visit is in the multiset of its user.
LEMMA SteadyUnderUser ==
  ASSUME Typed, UserInvariant, SteadyInvariant, NEW w \in Workers, pc[w] # "idle",
         call[w].op = "GetVisistsByUserId", Indexed(call[w]) # None,
         NEW v \in steady[w] \ overlapped
  PROVE  /\ v \in VisitIds /\ v \in Int /\ Indexed(call[w])[v] \in Nat
         /\ /\ visits_[v] # None /\ visits_[v].user_id = call[w].id
            /\ Spared(v, call[w].id)
            => Indexed(call[w])[v] >= 1
  <1>1. v \in VisitIds /\ \A y \in Workers : ~Changing(y, v)
    BY SteadySettled DEF Typed, Queries
  <1>2. v \in Int
    BY <1>1, IdAssumption DEF IdAssumption
  <1>3. Indexed(call[w]) \in Multiset
    BY BusyLemma, IndexedLemma DEF Typed, Queries
  <1>4. UnderItsUser(v)
    BY <1>1 DEF UserInvariant, UserFollows
  <1>5. /\ visits_[v] # None /\ visits_[v].user_id = call[w].id
        /\ Spared(v, call[w].id)
        => Indexed(call[w])[v] >= 1
    BY <1>4 DEF UnderItsUser, Copies, Indexed
  <1>6. QED
    BY <1>1, <1>2, <1>3, <1>5 DEF Multiset

\* Of what a list's walk has passed over, nothing was due that it has not counted.
LEMMA PassedOverListed ==
  ASSUME Typed, UserInvariant, SteadyInvariant, NEW w \in Workers, pc[w] = "next",
         call[w].op = "GetVisistsByUserId", ListedSoFar(w),
         NEW v \in steady[w] \ overlapped, v \notin Ahead(w), DueTo(w, v)
  PROVE  counted[w][v] >= 1
  <1>1. Indexed(call[w]) # None
    BY DEF Typed, Sound
  <1>2. v \in VisitIds /\ v \in Int /\ Indexed(call[w])[v] >= 1 /\ Indexed(call[w])[v] \in Nat
    BY <1>1, SteadyUnderUser DEF DueTo
  <1>3. cursor[w] \in Int
    BY IdAssumption DEF Typed, Control, IdAssumption
  <1>4. v <= cursor[w]
    BY <1>2, <1>3 DEF Ahead
  <1>5. QED
    BY <1>4 DEF ListedSoFar, Walking, Behind

\* The statements of the list itself.
LEMMA ListStep ==
  ASSUME Typed, UserInvariant, SteadyInvariant, NEW w \in Workers, Statement(w),
         WalkedOnce(w), ListedSoFar(w)
  PROVE  ListedSoFar(w)'
  <1>1. overlapped' = overlapped /\ Control /\ Control' /\ pc[w] # "idle"
    BY StepLemma, ActiveLemma DEF Keeps, Typed
  <1>2. CASE NextVisit(w) /\ call[w].op = "GetVisistsByUserId"
    <2> DEFINE reached == cursor'[w]
    <2>1. /\ pc[w] = "next" /\ pc'[w] = "count" /\ call'[w] = call[w]
          /\ counted'[w] = counted[w] /\ steady'[w] = steady[w]
          /\ reached \in Ahead(w) /\ \A x \in Ahead(w) : reached <= x
          /\ UNCHANGED <<visits_, users_, locations_>>
      BY <1>2, NextVisitLemma DEF containers
    <2>2. Indexed(call[w]) # None
      BY <2>1 DEF Typed, Sound
    <2>3. reached \in VisitIds /\ reached \in Int
      <3>1. reached \in Ahead(w)
        BY <2>1
      <3>2. Ahead(w) \subseteq VisitIds
        BY DEF Ahead
      <3>3. \A x \in VisitIds : x \in Int
        BY IdAssumption DEF IdAssumption
      <3> HIDE DEF reached
      <3>4. QED
        BY <3>1, <3>2, <3>3
    <2>4. ASSUME NEW v \in steady[w] \ overlapped, v < reached, DueTo(w, v)'
          PROVE  counted'[w][v] >= 1
      <3>1. v \in Int
        BY <1>1, <1>2, <2>2, SteadyUnderUser
      <3>2. v \notin Ahead(w)
        BY <2>1, <2>3, <2>4, <3>1
      <3>3. DueTo(w, v)
        BY <1>1, <2>1, <2>4 DEF DueTo, Selected, Spared
      <3>4. QED
        BY <1>2, <2>1, <3>2, <3>3, PassedOverListed
    <2>5. QED
      BY <1>1, <2>1, <2>4 DEF ListedSoFar, Behind
  <1>3. CASE CountVisit(w) /\ call[w].op = "GetVisistsByUserId"
    <2>1. /\ pc[w] = "count" /\ pc'[w] = "next" /\ call'[w] = call[w]
          /\ cursor'[w] = cursor[w] /\ cursor[w] \in VisitIds /\ steady'[w] = steady[w]
          /\ counted[w] \in Multiset /\ Indexed(call[w]) \in Multiset
          /\ UNCHANGED <<visits_, users_, locations_>>
      BY <1>3, CountVisitLemma DEF containers
    <2>2. Indexed(call[w]) # None
      BY <2>1 DEF Typed, Sound
    <2>3. cursor[w] \in Int
      BY <2>1, IdAssumption DEF IdAssumption
    <2>4. ASSUME NEW v \in steady[w] \ overlapped, v <= cursor[w], DueTo(w, v)'
          PROVE  counted'[w][v] >= 1
      <3>1. v \in VisitIds /\ v \in Int /\ Indexed(call[w])[v] \in Nat
        BY <1>1, <1>3, <2>2, SteadyUnderUser
      <3>2. DueTo(w, v)
        BY <1>1, <2>1, <2>4 DEF DueTo, Selected, Spared
      <3>3. counted'[w][v] =
              IF v = cursor[w] /\ Selected(call[w], v)
              THEN counted[w][v] + (IF Indexed(call[w])[v] = 0 THEN 1 ELSE Indexed(call[w])[v])
              ELSE counted[w][v]
        BY <1>3, <3>1, CountVisitLemma
      <3>4. counted[w][v] \in Nat
        BY <2>1, <3>1 DEF Multiset
      <3>5. CASE v < cursor[w]
        <4>1. counted[w][v] >= 1
          BY <1>3, <2>1, <3>2, <3>5 DEF ListedSoFar, Walking, Behind
        <4>2. v # cursor[w]
          BY <2>3, <3>1, <3>5
        <4>3. QED
          BY <3>3, <4>1, <4>2
      <3>6. CASE v = cursor[w]
        <4>1. Selected(call[w], v)
          BY <3>2 DEF DueTo
        <4>2. QED
          BY <3>1, <3>3, <3>4, <3>6, <4>1
      <3>7. QED
        BY <2>3, <2>4, <3>1, <3>5, <3>6
    <2>5. QED
      BY <1>1, <2>1, <2>4 DEF ListedSoFar, Behind
  <1>4. CASE (NextVisit(w) \/ CountVisit(w)) /\ call[w].op # "GetVisistsByUserId"
    <2>1. call'[w] = call[w]
      BY <1>4, NextVisitLemma, CountVisitLemma
    <2>2. QED
      BY <1>4, <2>1 DEF ListedSoFar
  <1>5. CASE ~NextVisit(w) /\ ~CountVisit(w)
    <2>1. CASE pc'[w] \notin Walking
      BY <2>1 DEF ListedSoFar
    <2>2. CASE pc'[w] = "next" /\ cursor'[w] = cursor[w] /\ pc[w] = "index"
      <3>1. cursor'[w] = -1
        BY <2>2 DEF WalkedOnce, Walking
      <3>2. ASSUME NEW v \in steady'[w]
            PROVE  ~Behind(w, v)'
        <4>1. v \in Nat
          BY <1>1, IdAssumption DEF Control, IdAssumption
        <4>2. QED
          BY <2>2, <3>1, <4>1 DEF Behind
      <3>3. QED
        BY <2>2, <3>2 DEF ListedSoFar
    <2>3. CASE /\ counted'[w] = counted[w] /\ call'[w] = call[w] /\ steady'[w] = steady[w]
               /\ pc[w] = "next" /\ pc'[w] = "print"
               /\ call[w].op = "GetVisistsByUserId" /\ Ahead(w) = {}
      <3>1. UNCHANGED <<visits_, users_, locations_>>
        BY <1>5, <2>3 DEF Statement, At, EndOfVisits, FindNothing, FindEntity, EmplaceUser,
           EmplaceLocation, EmplaceVisit, IndexUser, IndexLocation, AssignGender, AssignBirthDate,
           AssignDistance, AssignCountry, CompareLocation, FindOldLocation, LeaveLocation,
           EnterLocation,
           WriteLocation, CompareUser, FindOldUser, LeaveUser, EnterUser, WriteUser,
           AssignVisitedAt, AssignMark, Serialize, FindIndex, PrintVisits, containers
      <3>2. ASSUME NEW v \in steady[w] \ overlapped, DueTo(w, v)'
            PROVE  counted'[w][v] >= 1
        <4>1. DueTo(w, v)
          BY <1>1, <2>3, <3>1, <3>2 DEF DueTo, Selected, Spared
        <4>2. QED
          BY <2>3, <4>1, PassedOverListed
      <3>3. QED
        BY <1>1, <2>3, <3>2 DEF ListedSoFar
    <2>4. QED
      BY <1>5, <2>1, <2>2, <2>3, StandsStill DEF Walking
  <1>6. QED
    BY <1>2, <1>3, <1>4, <1>5

\* So does the beginning of a call.
LEMMA SoFarBegins ==
  ASSUME Typed, NEW w \in Workers, NEW z \in Workers, NEW c \in Calls, Begin(z, c)
  PROVE  /\ AveragedSoFar(w) => AveragedSoFar(w)'
         /\ ListedSoFar(w) => ListedSoFar(w)'
  <1>1. CASE w = z
    BY <1>1, BeginLemma DEF AveragedSoFar, ListedSoFar, Walking
  <1>2. CASE w # z
    <2>1. /\ call'[w] = call[w] /\ pc'[w] = pc[w]
          /\ cursor'[w] = cursor[w] /\ counted'[w] = counted[w]
          /\ UNCHANGED <<visits_, users_, locations_>>
      BY <1>2, BeginLemma DEF containers
    <2>2. overlapped \subseteq overlapped' /\ steady'[w] \subseteq steady[w]
      BY <1>2 DEF Begin
    <2>3. \A v : /\ DueAt(w, v)' <=> DueAt(w, v)
                 /\ DueTo(w, v)' => DueTo(w, v)
                 /\ Behind(w, v)' <=> Behind(w, v)
      BY <2>1, <2>2 DEF DueAt, DueTo, Selected, Behind, Spared
    <2>4. QED
      BY <2>1, <2>2, <2>3 DEF AveragedSoFar, ListedSoFar
  <1>3. QED
    BY <1>1, <1>2

\* And a race, or no step at all.
LEMMA SoFarStands ==
  ASSUME Typed, NEW w \in Workers, Race \/ UNCHANGED vars
  PROVE  /\ AveragedSoFar(w) => AveragedSoFar(w)'
         /\ ListedSoFar(w) => ListedSoFar(w)'
  <1>1. UNCHANGED <<visits_, users_, locations_, call, pc, cursor, counted, overlapped, steady>>
    BY StillLemma DEF containers, locals
  <1>2. QED
    BY <1>1 DEF AveragedSoFar, ListedSoFar, DueAt, DueTo, Selected, Behind, Spared

\* An average is exact about the visits nobody touches while it walks, for any
\* number of workers, moving and adding other visits around it.
THEOREM AveragesCorrect == Spec => []SteadyVisitsAveraged
  <1> DEFINE Averaging == \A w \in Workers : AveragedSoFar(w)
  <1>1. Init => Averaging
    BY DEF Init, AveragedSoFar, Walking
  <1>2. ASSUME Typed, LocationInvariant, SteadyInvariant, WalkInvariant, [Next]_vars, Averaging
        PROVE  Averaging'
    <2> SUFFICES ASSUME NEW w \in Workers
                 PROVE  AveragedSoFar(w)'
      OBVIOUS
    <2>1. AveragedSoFar(w) /\ WalkedOnce(w)
      BY <1>2 DEF WalkInvariant
    <2>2. ASSUME NEW y \in Workers, Statement(y)
          PROVE  AveragedSoFar(w)'
      <3>1. CASE y = w
        BY <1>2, <2>1, <2>2, <3>1, AverageStep
      <3>2. CASE y # w
        BY <1>2, <2>1, <2>2, <3>2, SoFarStays
      <3>3. QED
        BY <3>1, <3>2
    <2>3. QED
      BY <1>2, <2>1, <2>2, NextLemma, SoFarBegins, SoFarStands
  <1>3. Typed /\ LocationInvariant /\ SteadyInvariant /\ WalkInvariant /\ Averaging
          => SteadyVisitsAveraged
    <2> SUFFICES ASSUME Typed, LocationInvariant, SteadyInvariant, WalkInvariant, Averaging,
                        NEW w \in Busy, Walked(w, "GetAverageLocationMark"),
                        NEW v \in steady[w] \ overlapped
                 PROVE  counted[w][v] = IF DueAt(w, v) THEN 1 ELSE 0
      BY DEF SteadyVisitsAveraged, DueAt
    <2>1. /\ w \in Workers /\ pc[w] = "next" /\ call[w].op = "GetAverageLocationMark"
          /\ v \notin Ahead(w)
      BY DEF Busy, Walked, At
    <2>2. QED
      BY <2>1, PassedOver DEF WalkInvariant
  <1>4. QED
    BY <1>1, <1>2, <1>3, TypedInvariant, LocationHolds, SteadyHolds, WalkHolds, PTL DEF Spec

\* And a list has every visit of its user that passes its filters and that nobody
\* touches while it walks, unless the visit has the user's id or, once changes of
\* any visit have overlapped, that of any user.
THEOREM ListsCorrect == Spec => []SteadyVisitsListed
  <1> DEFINE Listing == \A w \in Workers : ListedSoFar(w)
  <1>1. Init => Listing
    BY DEF Init, ListedSoFar, Walking
  <1>2. ASSUME Typed, UserInvariant, SteadyInvariant, WalkInvariant, [Next]_vars, Listing
        PROVE  Listing'
    <2> SUFFICES ASSUME NEW w \in Workers
                 PROVE  ListedSoFar(w)'
      OBVIOUS
    <2>1. ListedSoFar(w) /\ WalkedOnce(w)
      BY <1>2 DEF WalkInvariant
    <2>2. ASSUME NEW y \in Workers, Statement(y)
          PROVE  ListedSoFar(w)'
      <3>1. CASE y = w
        BY <1>2, <2>1, <2>2, <3>1, ListStep
      <3>2. CASE y # w
        BY <1>2, <2>1, <2>2, <3>2, SoFarStays
      <3>3. QED
        BY <3>1, <3>2
    <2>3. QED
      BY <1>2, <2>1, <2>2, NextLemma, SoFarBegins, SoFarStands
  <1>3. Typed /\ UserInvariant /\ SteadyInvariant /\ Listing => SteadyVisitsListed
    <2> SUFFICES ASSUME Typed, UserInvariant, SteadyInvariant, Listing,
                        NEW w \in Busy, Walked(w, "GetVisistsByUserId"),
                        NEW v \in steady[w] \ overlapped, DueTo(w, v)
                 PROVE  counted[w][v] >= 1
      BY DEF SteadyVisitsListed, DueTo
    <2>1. /\ w \in Workers /\ pc[w] = "next" /\ call[w].op = "GetVisistsByUserId"
          /\ v \notin Ahead(w)
      BY DEF Busy, Walked, At
    <2>2. QED
      BY <2>1, PassedOverListed
  <1>4. QED
    BY <1>1, <1>2, <1>3, TypedInvariant, UserHolds, SteadyHolds, WalkHolds, PTL DEF Spec

(***************************************************************************)
(* Changes of visits take effect as a whole.                               *)
(***************************************************************************)
\* What the statements an update has behind it have written of the visit.
Written(w) ==
  LET visit == visits_[call[w].id]
      update == call[w].arg
  IN /\ pc[w] \in {"user", "old_user", "leave_user", "enter_user", "write_user",
                   "visited_at", "mark"}
          => update.location_id \in {NoId, visit.location_id}
     /\ pc[w] \in {"visited_at", "mark"} => update.user_id \in {NoId, visit.user_id}
     /\ pc[w] = "mark" => update.visited_at \in {MaxTimestamp, visit.visited_at}

Updating(w) == pc[w] \notin Early /\ call[w].op = "UpdateVisit"

WrittenInvariant ==
  \A w \in Workers : Updating(w) /\ call[w].id \notin overlapped => Written(w)

\* An update is applied once however often its attributes are assigned.
LEMMA AppliedOnce ==
  ASSUME NEW visit \in Visit, NEW update \in VisitUpdates
  PROVE  /\ update.location_id # NoId =>
              UpdatedVisit([visit EXCEPT !.location_id = update.location_id], update)
                = UpdatedVisit(visit, update)
         /\ update.user_id # NoId =>
              UpdatedVisit([visit EXCEPT !.user_id = update.user_id], update)
                = UpdatedVisit(visit, update)
         /\ UpdatedVisit([visit EXCEPT !.visited_at =
                            Given(update.visited_at, MaxTimestamp, @)], update)
              = UpdatedVisit(visit, update)
  BY DEF UpdatedVisit, Given, Visit

\* The last assignment completes it.
LEMMA AppliedAtLast ==
  ASSUME NEW visit \in Visit, NEW update \in VisitUpdates,
         update.location_id \in {NoId, visit.location_id},
         update.user_id \in {NoId, visit.user_id},
         update.visited_at \in {MaxTimestamp, visit.visited_at}
  PROVE  [visit EXCEPT !.mark = Given(update.mark, MaxMark, @)] = UpdatedVisit(visit, update)
  BY DEF UpdatedVisit, Given, Visit

\* What each statement of UpdateVisit makes of the visit and where it leads.
LEMMA UpdateStep ==
  ASSUME Typed, NEW w \in Workers, Statement(w), Updating(w)
  PROVE  LET visit == visits_[call[w].id]
             next == visits_'[call[w].id]
             update == call[w].arg
         IN /\ visit \in Visit /\ update \in VisitUpdates /\ call[w].id \in VisitIds
            /\ \/ /\ pc[w] # "mark"
                  /\ UNCHANGED <<call, answer>> /\ Updating(w)'
                  /\ UpdatedVisit(next, update) = UpdatedVisit(visit, update)
                  /\ Written(w) => Written(w)'
               \/ /\ pc[w] = "mark"
                  /\ Return(w, EntitySuccessfullyUpdated)
                  /\ Written(w) => next = UpdatedVisit(visit, update)
  <1> Contents /\ Control /\ Sound(w)
    BY DEF Typed
  <1> DEFINE c == call[w]
             visit == visits_[c.id]
             next == visits_'[c.id]
  <1>1. /\ visit \in Visit /\ c.arg \in VisitUpdates /\ c.id \in VisitIds
        /\ visit.location_id \in LocationIds /\ visit.user_id \in UserIds
        /\ c.op = "UpdateVisit"
    BY UpdateVisitLemma DEF Updating
  <1>2. CASE CompareLocation(w)
    <2>1. /\ pc[w] = "location" /\ visits_' = visits_ /\ UNCHANGED <<call, answer>>
          /\ pc'[w] = IF c.arg.location_id # NoId /\ visit.location_id # c.arg.location_id
                      THEN "old_location" ELSE "user"
      BY <1>2 DEF CompareLocation, At, Proceed, Goto, Control, containers
    <2>2. QED
      BY <1>1, <2>1 DEF Updating, Written, Early
  <1>3. CASE FindOldLocation(w) \/ LeaveLocation(w) \/ EnterLocation(w)
    <2>1. /\ pc[w] # "mark" /\ visits_' = visits_ /\ UNCHANGED <<call, answer>>
          /\ pc'[w] \in {"leave_location", "enter_location", "write_location"}
      BY <1>3 DEF FindOldLocation, LeaveLocation, EnterLocation, At, Proceed, Goto, Control,
         containers
    <2>2. QED
      BY <1>1, <2>1 DEF Updating, Written, Early
  <1>4. CASE WriteLocation(w)
    <2>1. /\ pc[w] = "write_location" /\ pc'[w] = "user" /\ UNCHANGED <<call, answer>>
          /\ visits_' = [visits_ EXCEPT ![c.id].location_id = c.arg.location_id]
      BY <1>4 DEF WriteLocation, At, Proceed, Goto, Control
    <2>2. /\ c.arg.location_id \in LocationIds /\ c.arg.location_id # NoId
          /\ next = [visit EXCEPT !.location_id = c.arg.location_id]
      BY <1>1, <2>1, IdAssumption DEF Sound, Contents, IdAssumption
    <2>3. next.location_id = c.arg.location_id
      BY <1>1, <2>2 DEF Visit
    <2>4. UpdatedVisit(next, c.arg) = UpdatedVisit(visit, c.arg)
      BY <1>1, <2>2, AppliedOnce
    <2>5. QED
      BY <1>1, <2>1, <2>3, <2>4 DEF Updating, Written, Early
  <1>5. CASE CompareUser(w)
    <2>1. /\ pc[w] = "user" /\ visits_' = visits_ /\ UNCHANGED <<call, answer>>
          /\ pc'[w] = IF c.arg.user_id # NoId /\ visit.user_id # c.arg.user_id
                      THEN "old_user" ELSE "visited_at"
      BY <1>5 DEF CompareUser, At, Proceed, Goto, Control, containers
    <2>2. QED
      BY <1>1, <2>1 DEF Updating, Written, Early
  <1>6. CASE FindOldUser(w) \/ LeaveUser(w) \/ EnterUser(w)
    <2>1. /\ pc[w] \in {"old_user", "leave_user", "enter_user"}
          /\ visits_' = visits_ /\ UNCHANGED <<call, answer>>
          /\ pc'[w] \in {"leave_user", "enter_user", "write_user"}
      BY <1>6 DEF FindOldUser, LeaveUser, EnterUser, At, Proceed, Goto, Control, containers
    <2>2. QED
      BY <1>1, <2>1 DEF Updating, Written, Early
  <1>7. CASE WriteUser(w)
    <2>1. /\ pc[w] = "write_user" /\ pc'[w] = "visited_at" /\ UNCHANGED <<call, answer>>
          /\ visits_' = [visits_ EXCEPT ![c.id].user_id = c.arg.user_id]
      BY <1>7 DEF WriteUser, At, Proceed, Goto, Control
    <2>2. /\ c.arg.user_id \in UserIds /\ c.arg.user_id # NoId
          /\ next = [visit EXCEPT !.user_id = c.arg.user_id]
      BY <1>1, <2>1, IdAssumption DEF Sound, Contents, IdAssumption
    <2>3. next.user_id = c.arg.user_id /\ next.location_id = visit.location_id
      BY <1>1, <2>2 DEF Visit
    <2>4. UpdatedVisit(next, c.arg) = UpdatedVisit(visit, c.arg)
      BY <1>1, <2>2, AppliedOnce
    <2>5. QED
      BY <1>1, <2>1, <2>3, <2>4 DEF Updating, Written, Early
  <1>8. CASE AssignVisitedAt(w)
    <2>1. /\ pc[w] = "visited_at" /\ pc'[w] = "mark" /\ UNCHANGED <<call, answer>>
          /\ visits_' = [visits_ EXCEPT ![c.id].visited_at =
                           Given(c.arg.visited_at, MaxTimestamp, @)]
      BY <1>8 DEF AssignVisitedAt, At, Proceed, Goto, Control
    <2>2. next = [visit EXCEPT !.visited_at = Given(c.arg.visited_at, MaxTimestamp, @)]
      BY <1>1, <2>1 DEF Contents
    <2>3. /\ next.user_id = visit.user_id /\ next.location_id = visit.location_id
          /\ c.arg.visited_at \in {MaxTimestamp, next.visited_at}
      BY <1>1, <2>2 DEF Visit, Given
    <2>4. UpdatedVisit(next, c.arg) = UpdatedVisit(visit, c.arg)
      BY <1>1, <2>2, AppliedOnce
    <2>5. QED
      BY <1>1, <2>1, <2>3, <2>4 DEF Updating, Written, Early
  <1>9. CASE AssignMark(w)
    <2>1. /\ pc[w] = "mark" /\ Return(w, EntitySuccessfullyUpdated)
          /\ visits_' = [visits_ EXCEPT ![c.id].mark = Given(c.arg.mark, MaxMark, @)]
      BY <1>9 DEF AssignMark, At
    <2>2. next = [visit EXCEPT !.mark = Given(c.arg.mark, MaxMark, @)]
      BY <1>1, <2>1 DEF Contents
    <2>3. Written(w) => next = UpdatedVisit(visit, c.arg)
      BY <1>1, <2>1, <2>2, AppliedAtLast DEF Written
    <2>4. QED
      BY <1>1, <2>1, <2>3
  <1>10. \/ CompareLocation(w) \/ FindOldLocation(w) \/ LeaveLocation(w) \/ EnterLocation(w)
         \/ WriteLocation(w)
         \/ CompareUser(w) \/ FindOldUser(w) \/ LeaveUser(w) \/ EnterUser(w) \/ WriteUser(w)
         \/ AssignVisitedAt(w) \/ AssignMark(w)
    <2>1. Changing(w, c.id)
      BY <1>1 DEF Changing, ChangesVisit, Updating, Early
    <2>2. /\ ~FindNothing(w) /\ ~FindEntity(w)
          /\ ~EmplaceVisit(w) /\ ~IndexUser(w) /\ ~IndexLocation(w)
      BY DEF Updating, Early, FindNothing, FindEntity, EmplaceVisit, IndexUser, IndexLocation, At
    <2>3. QED
      BY <1>1, <2>1, <2>2, ChangingLemma, Zenon
  <1>11. QED
    BY <1>2, <1>3, <1>4, <1>5, <1>6, <1>7, <1>8, <1>9, <1>10

\* A statement that is not one of an update's assignments, of a call that
\* changes a visit.
LEMMA FirstSteps ==
  ASSUME Typed, NEW w \in Workers, Statement(w), call[w].op = "UpdateVisit", pc[w] \in Early
  PROVE  /\ pc[w] = "find" /\ visits_' = visits_
         /\ \/ visits_[call[w].id] = None /\ Return(w, EntityNotFound)
            \/ /\ visits_[call[w].id] # None /\ pc'[w] = "location"
               /\ UNCHANGED <<call, answer>>
  <1> Contents /\ Control
    BY DEF Typed
  <1>1. pc[w] # "idle" /\ pc[w] \in StatementsOf("UpdateVisit")
    BY ActiveLemma, BusyLemma
  <1>2. pc[w] = "find"
    BY <1>1, StatementLemma DEF Early, Adds, Gets, Queries
  <1>3. FindNothing(w) \/ FindEntity(w)
    BY <1>2 DEF Statement, At, EmplaceUser, EmplaceLocation,
     EmplaceVisit, IndexUser, IndexLocation, AssignGender, AssignBirthDate, AssignDistance,
     AssignCountry, CompareLocation,
     FindOldLocation, LeaveLocation, EnterLocation, WriteLocation, CompareUser, FindOldUser,
     LeaveUser, EnterUser, WriteUser, AssignVisitedAt, AssignMark, Serialize, FindIndex,
     NextVisit, CountVisit, EndOfVisits, PrintVisits
  <1>4. Entity(call[w]) = visits_[call[w].id]
    BY DEF Entity
  <1>5. visits_' = visits_
    BY <1>3 DEF FindNothing, FindEntity, containers
  <1>6. CASE FindNothing(w)
    BY <1>2, <1>4, <1>5, <1>6 DEF FindNothing, Adds, Updates, Gets, Queries
  <1>7. CASE FindEntity(w)
    <2>1. visits_[call[w].id] # None /\ Proceed(w, "location")
      BY <1>4, <1>7 DEF FindEntity, Adds, Updates, Gets, Queries
    <2>2. pc'[w] = "location" /\ UNCHANGED <<call, answer>>
      BY <2>1 DEF Proceed, Goto, Control
    <2>3. QED
      BY <1>2, <1>5, <2>1, <2>2
  <1>8. QED
    BY <1>3, <1>6, <1>7

\* Of a visit whose changes never overlapped one call at most is in the middle
\* of changing it.
LEMMA OneChanger ==
  ASSUME LocationInvariant, NEW v \in VisitIds, v \notin overlapped,
         NEW w \in Workers, NEW x \in Workers, Changing(w, v), Changing(x, v)
  PROVE  w = x
  BY DEF LocationInvariant, LocationFollows, Sole

\* What an update has written stays written, since nobody else changes the visit.
LEMMA WrittenStep ==
  ASSUME Typed, LocationInvariant, WrittenInvariant, NEW w \in Workers, Statement(w)
  PROVE  WrittenInvariant'
  <1>1. Keeps(w) /\ pc[w] # "idle"
    BY StepLemma, ActiveLemma
  <1> SUFFICES ASSUME NEW x \in Workers, Updating(x)', call'[x].id \notin overlapped'
               PROVE  Written(x)'
    BY DEF WrittenInvariant
  <1>2. CASE x = w
    <2>1. pc'[w] # "idle" /\ call'[w] = call[w] /\ overlapped' = overlapped
      BY <1>1, <1>2 DEF Keeps, Updating, Early
    <2>2. CASE Updating(w)
      <3>1. Written(w)
        BY <1>2, <2>1, <2>2 DEF WrittenInvariant
      <3>2. pc[w] # "mark"
        BY <2>1, <2>2, CameBack, UpdateStep DEF Typed
      <3>3. QED
        BY <1>2, <2>2, <3>1, <3>2, UpdateStep
    <2>3. CASE ~Updating(w)
      <3>1. call[w].op = "UpdateVisit" /\ pc[w] \in Early
        BY <1>2, <2>1, <2>3 DEF Updating
      <3>2. pc'[w] = "location"
        BY <2>1, <3>1, FirstSteps, CameBack DEF Typed
      <3>3. QED
        BY <1>2, <3>2 DEF Written
    <2>4. QED
      BY <2>2, <2>3
  <1>3. CASE x # w
    <2>1. /\ pc'[x] = pc[x] /\ call'[x] = call[x] /\ overlapped' = overlapped
          /\ Updating(x)
      BY <1>1, <1>3 DEF Keeps, Updating
    <2>2. call[x].id \in VisitIds /\ Changing(x, call[x].id)
      BY <2>1, UpdateVisitLemma DEF Updating, Typed, Changing, ChangesVisit, Early
    <2>3. ~Changing(w, call[x].id)
      BY <1>3, <2>1, <2>2, OneChanger
    <2>4. visits_'[call[x].id] = visits_[call[x].id]
      BY <2>2, <2>3, CopiesLemma
    <2>5. QED
      BY <2>1, <2>4 DEF Written, WrittenInvariant
  <1>4. QED
    BY <1>2, <1>3

\* And throughout.
LEMMA WrittenHolds == Spec => []WrittenInvariant
  <1>1. Init => WrittenInvariant
    BY DEF Init, WrittenInvariant, Updating, Early
  <1>2. ASSUME Typed, LocationInvariant, WrittenInvariant, [Next]_vars
        PROVE  WrittenInvariant'
    <2>1. CASE \E w \in Workers : Statement(w)
      BY <1>2, <2>1, WrittenStep
    <2>2. CASE \E w \in Workers : \E c \in Calls : Begin(w, c)
      <3>1. PICK w \in Workers, c \in Calls : Begin(w, c)
        BY <2>2
      <3>2. /\ pc'[w] = "find" /\ visits_' = visits_ /\ overlapped \subseteq overlapped'
            /\ \A x \in Workers \ {w} : pc'[x] = pc[x] /\ call'[x] = call[x]
        BY <1>2, <3>1, BeginLemma DEF Begin, containers
      <3>3. QED
        BY <1>2, <3>2 DEF WrittenInvariant, Updating, Written, Early
    <2>3. CASE Race \/ UNCHANGED vars
      <3>1. UNCHANGED <<visits_, call, pc, overlapped>>
        BY <1>2, <2>3, StillLemma DEF containers
      <3>2. QED
        BY <1>2, <3>1 DEF WrittenInvariant, Updating, Written
    <2>4. QED
      BY <1>2, <2>1, <2>2, <2>3, NextLemma
  <1>3. QED
    BY <1>1, <1>2, TypedInvariant, LocationHolds, PTL DEF Spec

(***************************************************************************)
(* What is promised of a visit before and after a step.                    *)
(***************************************************************************)
\* The only one is the one that is chosen.
LEMMA ChooseOnly ==
  ASSUME NEW T, NEW f, NEW v, NEW w \in T, f[w].id = v,
         \A x \in T : f[x].id = v => x = w
  PROVE  (CHOOSE x \in T : f[x].id = v) = w
  <1>1. \E x \in T : f[x].id = v
    OBVIOUS
  <1>2. (CHOOSE x \in T : f[x].id = v) \in T /\ f[CHOOSE x \in T : f[x].id = v].id = v
    BY <1>1
  <1>3. QED
    BY <1>2

\* The visit that the call c, past its look-up, will have made of this one.
Outcome(c, visit) == IF c.op = "AddVisit" THEN c.arg ELSE UpdatedVisit(visit, c.arg)

\* The promise of a visit nobody is changing, or has begun to.
LEMMA PromisedRest ==
  ASSUME NEW v \in VisitIds \ overlapped, \A x \in Taken : call[x].id # v
  PROVE  Promised(v) = visits_[v]
  BY DEF Promised

\* That of one somebody is changing.
LEMMA PromisedOutcome ==
  ASSUME NEW v \in VisitIds \ overlapped, NEW w \in Taken, call[w].id = v,
         \A x \in Taken : call[x].id = v => x = w
  PROVE  Promised(v) = Outcome(call[w], visits_[v])
  <1>1. (CHOOSE x \in Taken : call[x].id = v) = w
    BY ChooseOnly
  <1>2. QED
    BY <1>1 DEF Promised, Outcome

\* The same after a step.
LEMMA PromisedRestNext ==
  ASSUME NEW v \in VisitIds \ overlapped', \A x \in Taken' : call'[x].id # v
  PROVE  Promised(v)' = visits_'[v]
  BY DEF Promised

\* The same after a step.
LEMMA PromisedOutcomeNext ==
  ASSUME NEW v \in VisitIds \ overlapped', NEW w \in Taken', call'[w].id = v,
         \A x \in Taken' : call'[x].id = v => x = w
  PROVE  Promised(v)' = Outcome(call'[w], visits_'[v])
  <1>1. (CHOOSE x \in Taken' : call'[x].id = v) = w
    BY ChooseOnly
  <1>2. QED
    BY <1>1 DEF Promised, Outcome

\* Who has taken effect is changing the visit, and is alone.
LEMMA TakenLemma ==
  ASSUME Typed, LocationInvariant, NEW v \in VisitIds \ overlapped, NEW w \in Workers,
         Changing(w, v)
  PROVE  /\ w \in Taken <=> pc[w] # "find"
         /\ \A x \in Taken : call[x].id = v => x = w
         /\ call[w].id = v
  <1>1. w \in Taken <=> pc[w] # "find"
    BY DEF Taken, Busy, Changing, ChangesVisit
  <1>2. ASSUME NEW x \in Taken, call[x].id = v
        PROVE  x = w
    <2>1. x \in Workers /\ Changing(x, v)
      BY <1>2 DEF Taken, Busy, Changing, ChangesVisit
    <2>2. QED
      BY <2>1, OneChanger
  <1>3. QED
    BY <1>1, <1>2 DEF Changing, ChangesVisit

\* A statement lets nobody but its own worker take effect or return.
LEMMA TakenStep ==
  ASSUME Typed, NEW w \in Workers, Statement(w)
  PROVE  /\ \A x \in Workers \ {w} : x \in Taken' <=> x \in Taken
         /\ \A x \in Workers \ {w} : call'[x] = call[x]
         /\ \A x \in Taken : x \in Workers
         /\ \A x \in Taken' : x \in Workers
         /\ overlapped' = overlapped
  BY StepLemma DEF Keeps, Taken, Busy

\* The promise of a visit stays while others are changed.
LEMMA OthersPromised ==
  ASSUME Typed, LocationInvariant, NEW w \in Workers, Statement(w), NEW v \in VisitIds,
         ~Changing(w, v)
  PROVE  Promised(v)' = Promised(v)
  <1>1. visits_'[v] = visits_[v] /\ overlapped' = overlapped
    BY CopiesLemma, TakenStep
  <1>2. CASE v \in overlapped
    BY <1>1, <1>2 DEF Promised
  <1>3. ASSUME w \in Taken \/ w \in Taken'
        PROVE  call[w].id # v /\ (w \in Taken' => call'[w].id # v)
    <2>1. w \in Taken' => call'[w] = call[w] /\ Changing(w, v)' = (call[w].id = v)
      BY StepLemma DEF Keeps, Taken, Busy, Changing, ChangesVisit
    <2>2. w \in Taken => Changing(w, v) = (call[w].id = v)
      BY DEF Taken, Busy, Changing, ChangesVisit
    <2>3. QED
      BY <1>3, <2>1, <2>2, ChangersLemma
  <1>4. CASE v \notin overlapped /\ \A x \in Taken : call[x].id # v
    <2>1. \A x \in Taken' : call'[x].id # v
      BY <1>3, <1>4, TakenStep
    <2>2. QED
      BY <1>1, <1>4, <2>1, PromisedRest, PromisedRestNext
  <1>5. CASE v \notin overlapped /\ \E x \in Taken : call[x].id = v
    <2>1. PICK x \in Taken : call[x].id = v
      BY <1>5
    <2>2. x \in Workers /\ Changing(x, v) /\ x # w
      BY <2>1 DEF Taken, Busy, Changing, ChangesVisit
    <2>3. \A y \in Taken : call[y].id = v => y = x
      BY <1>5, <2>2, TakenLemma
    <2>4. x \in Taken' /\ call'[x] = call[x]
      BY <2>1, <2>2, TakenStep
    <2>5. \A y \in Taken' : call'[y].id = v => y = x
      BY <1>3, <2>3, TakenStep
    <2>6. QED
      BY <1>1, <1>5, <2>1, <2>3, <2>4, <2>5, PromisedOutcome, PromisedOutcomeNext
  <1>6. QED
    BY <1>2, <1>4, <1>5

\* No promise changes in a statement that leaves that of its own visit.
LEMMA PromisesKept ==
  ASSUME Typed, LocationInvariant, NEW w \in Workers, Statement(w),
         \A v \in VisitIds \ overlapped : Changing(w, v) => Promised(v)' = Promised(v)
  PROVE  PromisedVisits' = PromisedVisits
  <1>1. ASSUME NEW v \in VisitIds
        PROVE  Promised(v)' = Promised(v)
    <2>1. CASE v \in overlapped
      BY <2>1, TakenStep DEF Promised
    <2>2. CASE v \notin overlapped
      BY <2>2, OthersPromised
    <2>3. QED
      BY <2>1, <2>2
  <1>2. QED
    BY <1>1 DEF PromisedVisits

\* One promise changes when a change takes effect.
LEMMA PromiseMade ==
  ASSUME Typed, LocationInvariant, NEW w \in Workers, Statement(w),
         NEW v \in VisitIds, Changing(w, v), NEW visit,
         v \notin overlapped => Promised(v)' = visit
  PROVE  PromisedVisits' = IF v \in overlapped THEN PromisedVisits
                           ELSE [PromisedVisits EXCEPT ![v] = visit]
  <1>1. \A x \in VisitIds : Changing(w, x) => x = v
    BY DEF Changing, ChangesVisit
  <1>2. CASE v \in overlapped
    BY <1>1, <1>2, PromisesKept
  <1>3. CASE v \notin overlapped
    <2>1. \A x \in VisitIds \ {v} : Promised(x)' = Promised(x)
      BY <1>1, OthersPromised
    <2>2. QED
      BY <1>3, <2>1 DEF PromisedVisits
  <1>4. QED
    BY <1>2, <1>3

\* A return is the answer of the specification.
LEMMA Answered ==
  ASSUME Typed, NEW w \in Workers, NEW result, Return(w, result),
         PromisedVisits' = PromisedVisits
  PROVE  Promise!Answer(w, result) /\ answer'[w] = result
  <1>1. /\ call' = [call EXCEPT ![w] = None] /\ pc' = [pc EXCEPT ![w] = "idle"]
        /\ answer' = [answer EXCEPT ![w] = result] /\ overlapped' = overlapped
    BY DEF Return
  <1>2. /\ pc'[w] = "idle"
        /\ \A x \in Workers \ {w} : pc'[x] = pc[x] /\ call'[x] = call[x]
        /\ answer'[w] = result
    BY <1>1 DEF Typed, Control
  <1>3. Taken' = Taken \ {w}
    BY <1>2 DEF Taken, Busy
  <1>4. QED
    BY <1>1, <1>2, <1>3 DEF Promise!Answer

\* Every statement goes on in its call or returns.
LEMMA GoesOnOrReturns ==
  ASSUME Typed, NEW w \in Workers, Statement(w)
  PROVE  \/ pc'[w] \notin {"idle", "find"} /\ UNCHANGED <<call, answer>>
         \/ \E result : Return(w, result)
  <1> Control
    BY DEF Typed
  <1>1. ASSUME NEW s, s \notin {"idle", "find"}, Goto(w, s)
        PROVE  pc'[w] \notin {"idle", "find"} /\ UNCHANGED <<call, answer>>
    BY <1>1 DEF Goto, Control
  <1>2. CASE FindNothing(w) \/ FindEntity(w)
    BY <1>1, <1>2 DEF FindNothing, FindEntity, Proceed
  <1>3. CASE EmplaceUser(w) \/ EmplaceLocation(w) \/ EmplaceVisit(w) \/ IndexUser(w)
               \/ IndexLocation(w) \/ AssignGender(w) \/ AssignBirthDate(w)
               \/ AssignDistance(w) \/ AssignCountry(w)
    BY <1>1, <1>3 DEF EmplaceUser, EmplaceLocation, EmplaceVisit, IndexUser, IndexLocation,
       AssignGender, AssignBirthDate, AssignDistance, AssignCountry, Proceed
  <1>4. CASE CompareLocation(w) \/ FindOldLocation(w) \/ LeaveLocation(w)
               \/ EnterLocation(w) \/ WriteLocation(w)
    BY <1>1, <1>4 DEF CompareLocation, FindOldLocation, LeaveLocation, EnterLocation,
       WriteLocation, Proceed
  <1>5. CASE CompareUser(w) \/ FindOldUser(w) \/ LeaveUser(w) \/ EnterUser(w) \/ WriteUser(w)
               \/ AssignVisitedAt(w) \/ AssignMark(w)
    BY <1>1, <1>5 DEF CompareUser, FindOldUser, LeaveUser, EnterUser, WriteUser,
       AssignVisitedAt, AssignMark, Proceed
  <1>6. CASE Serialize(w) \/ FindIndex(w) \/ NextVisit(w) \/ CountVisit(w) \/ EndOfVisits(w)
               \/ PrintVisits(w)
    BY <1>1, <1>6 DEF Serialize, FindIndex, NextVisit, CountVisit, EndOfVisits, PrintVisits,
       Proceed
  <1>7. QED
    BY <1>2, <1>3, <1>4, <1>5, <1>6, Zenon DEF Statement

\* The specification's answers and updates are the storage's.
LEMMA SameWords ==
  /\ Promise!EntityNotFound = EntityNotFound
  /\ Promise!EntitySuccessfullyUpdated = EntitySuccessfullyUpdated
  /\ Promise!EntityAlreadyExist = EntityAlreadyExist
  /\ Promise!EntitySuccessfullyAdded = EntitySuccessfullyAdded
  /\ \A visit, update : Promise!UpdatedVisit(visit, update) = UpdatedVisit(visit, update)
  BY DEF Promise!EntityNotFound, EntityNotFound, Promise!EntitySuccessfullyUpdated,
     EntitySuccessfullyUpdated, Promise!EntityAlreadyExist, EntityAlreadyExist,
     Promise!EntitySuccessfullyAdded, EntitySuccessfullyAdded,
     Promise!UpdatedVisit, UpdatedVisit, Promise!Given, Given

\* What is promised of the visit w is changing, before and after its statement.
LEMMA OwnPromise ==
  ASSUME Typed, LocationInvariant, NEW w \in Workers, Statement(w),
         NEW v \in VisitIds \ overlapped, Changing(w, v)
  PROVE  /\ Promised(v) = IF pc[w] = "find" THEN visits_[v] ELSE Outcome(call[w], visits_[v])
         /\ pc'[w] = "idle" => Promised(v)' = visits_'[v]
         /\ pc'[w] \notin {"idle", "find"} /\ call'[w] = call[w]
              => Promised(v)' = Outcome(call[w], visits_'[v])
  <1>1. /\ w \in Taken <=> pc[w] # "find"
        /\ \A x \in Taken : call[x].id = v => x = w
        /\ call[w].id = v
    BY TakenLemma
  <1>2. /\ \A x \in Workers \ {w} : (x \in Taken' <=> x \in Taken) /\ call'[x] = call[x]
        /\ \A x \in Taken : x \in Workers
        /\ \A x \in Taken' : x \in Workers
        /\ overlapped' = overlapped
    BY TakenStep
  <1>3. Promised(v) = IF pc[w] = "find" THEN visits_[v] ELSE Outcome(call[w], visits_[v])
    <2>1. CASE pc[w] = "find"
      BY <1>1, <2>1, PromisedRest
    <2>2. CASE pc[w] # "find"
      BY <1>1, <2>2, PromisedOutcome
    <2>3. QED
      BY <2>1, <2>2
  <1>4. ASSUME pc'[w] = "idle"
        PROVE  Promised(v)' = visits_'[v]
    <2>1. w \notin Taken'
      BY <1>4 DEF Taken, Busy
    <2>2. \A x \in Taken' : call'[x].id # v
      BY <1>1, <1>2, <2>1
    <2>3. QED
      BY <1>2, <2>2, PromisedRestNext
  <1>5. ASSUME pc'[w] \notin {"idle", "find"}, call'[w] = call[w]
        PROVE  Promised(v)' = Outcome(call[w], visits_'[v])
    <2>1. w \in Taken'
      BY <1>5 DEF Taken, Busy, Changing, ChangesVisit
    <2>2. \A x \in Taken' : call'[x].id = v => x = w
      BY <1>1, <1>2
    <2>3. QED
      BY <1>1, <1>2, <1>5, <2>1, <2>2, PromisedOutcomeNext
  <1>6. QED
    BY <1>3, <1>4, <1>5

\* A statement that goes on past the look-up and leaves the outcome is no step.
LEMMA GoingOn ==
  ASSUME Typed, LocationInvariant, NEW w \in Workers, Statement(w),
         pc[w] # "find", pc'[w] \notin {"idle", "find"}, UNCHANGED <<call, answer>>,
         \A v \in VisitIds \ overlapped : Changing(w, v) =>
           Outcome(call[w], visits_'[v]) = Outcome(call[w], visits_[v])
  PROVE  UNCHANGED Promise!vars
  <1>1. PromisedVisits' = PromisedVisits
    BY OwnPromise, PromisesKept
  <1>2. Taken' = Taken /\ overlapped' = overlapped
    <2>1. w \in Taken' <=> w \in Taken
      BY ActiveLemma DEF Taken, Busy
    <2>2. QED
      BY <2>1, TakenStep
  <1>3. QED
    BY <1>1, <1>2 DEF Promise!vars

\* The look-up after which a change goes on is where it takes effect.
LEMMA TakesEffect ==
  ASSUME Typed, LocationInvariant, NEW w \in Workers, Statement(w), NEW v \in VisitIds,
         Changing(w, v), pc[w] = "find", pc'[w] \notin {"idle", "find"},
         UNCHANGED <<call, answer>>, visits_'[v] = visits_[v]
  PROVE  /\ w \notin Taken
         /\ v \notin overlapped => PromisedVisits[v] = visits_[v]
         /\ v \in overlapped => PromisedVisits[v] = None
         /\ Promise!Take(w, Outcome(call[w], visits_[v]))
  <1>1. call[w].id = v
    BY DEF Changing, ChangesVisit
  <1>2. w \notin Taken /\ Taken' = Taken \cup {w} /\ overlapped' = overlapped
    <2>1. w \notin Taken /\ w \in Taken'
      BY DEF Taken, Busy, Changing, ChangesVisit
    <2>2. QED
      BY <2>1, TakenStep
  <1>3. /\ v \notin overlapped => PromisedVisits[v] = visits_[v]
        /\ v \in overlapped => PromisedVisits[v] = None
    <2>1. v \notin overlapped => Promised(v) = visits_[v]
      BY OwnPromise
    <2>2. v \in overlapped => Promised(v) = None
      BY DEF Promised
    <2>3. QED
      BY <2>1, <2>2 DEF PromisedVisits
  <1>4. v \notin overlapped => Promised(v)' = Outcome(call[w], visits_[v])
    BY OwnPromise
  <1>5. PromisedVisits' = IF v \in overlapped THEN PromisedVisits
                          ELSE [PromisedVisits EXCEPT ![v] = Outcome(call[w], visits_[v])]
    BY <1>4, PromiseMade
  <1>6. QED
    BY <1>1, <1>2, <1>3, <1>5 DEF Promise!Take

\* A call that returns with the visit as promised is answered.
LEMMA IsAnswered ==
  ASSUME Typed, LocationInvariant, NEW w \in Workers, Statement(w), NEW v \in VisitIds,
         Changing(w, v), NEW result, Return(w, result),
         v \notin overlapped =>
           visits_'[v] = IF pc[w] = "find" THEN visits_[v] ELSE Outcome(call[w], visits_[v])
  PROVE  /\ Promise!Answer(w, result)
         /\ w \in Taken <=> pc[w] # "find"
         /\ v \notin overlapped /\ pc[w] = "find" => PromisedVisits[v] = visits_[v]
         /\ v \in overlapped => PromisedVisits[v] = None
  <1>1. pc'[w] = "idle"
    BY CameBack DEF Typed
  <1>2. \A x \in VisitIds : Changing(w, x) => x = v
    BY DEF Changing, ChangesVisit
  <1>3. PromisedVisits' = PromisedVisits
    BY <1>1, <1>2, OwnPromise, PromisesKept
  <1>4. w \in Taken <=> pc[w] # "find"
    BY DEF Taken, Busy, Changing, ChangesVisit
  <1>5. v \notin overlapped /\ pc[w] = "find" => Promised(v) = visits_[v]
    BY OwnPromise
  <1>6. v \in overlapped => Promised(v) = None
    BY DEF Promised
  <1>7. QED
    BY <1>3, <1>4, <1>5, <1>6, Answered DEF PromisedVisits

\* Adding a visit takes effect at once.
LEMMA AddPromised ==
  ASSUME Typed, LocationInvariant, NEW w \in Workers, Statement(w), call[w].op = "AddVisit"
  PROVE  [Promise!Next]_(Promise!vars)
  <1> Contents /\ Control
    BY DEF Typed
  <1> DEFINE c == call[w]
             v == c.id
  <1>1. /\ pc[w] # "idle" /\ c \in Call /\ c # None /\ v \in VisitIds
        /\ Changing(w, v) /\ Entity(c) = visits_[v]
    BY ActiveLemma, BusyLemma, CallLemma DEF Changing, ChangesVisit, Entity
  <1>2. CASE FindNothing(w)
    <2>1. /\ pc[w] = "find" /\ visits_[v] = None /\ visits_' = visits_
          /\ Proceed(w, "emplace")
      BY <1>1, <1>2 DEF FindNothing, Adds, Updates, Gets, Queries, containers
    <2>2. pc'[w] = "emplace" /\ UNCHANGED <<call, answer>>
      BY <2>1 DEF Proceed, Goto, Control
    <2>3. Outcome(c, visits_[v]) = c.arg
      BY DEF Outcome
    <2>4. w \notin Taken /\ PromisedVisits[v] = None /\ Promise!Take(w, c.arg)
      BY <1>1, <2>1, <2>2, <2>3, TakesEffect
    <2>5. Promise!AddVisit(w)
      BY <1>1, <2>4 DEF Promise!AddVisit
    <2>6. QED
      BY <2>5 DEF Promise!Next
  <1>3. CASE FindEntity(w)
    <2>1. /\ pc[w] = "find" /\ visits_[v] # None /\ visits_' = visits_
          /\ Return(w, EntityAlreadyExist)
      BY <1>1, <1>3 DEF FindEntity, Adds, Updates, Gets, Queries, containers
    <2>2. /\ Promise!Answer(w, EntityAlreadyExist) /\ w \notin Taken
          /\ v \notin overlapped => PromisedVisits[v] # None
      BY <1>1, <2>1, IsAnswered
    <2>3. Promise!Refuse(w)
      BY <1>1, <2>2, SameWords DEF Promise!Refuse
    <2>4. QED
      BY <2>3 DEF Promise!Next
  <1>4. CASE EmplaceVisit(w) \/ IndexUser(w)
    <2>1. pc[w] # "find" /\ (Proceed(w, "user_index") \/ Proceed(w, "location_index"))
      BY <1>4 DEF EmplaceVisit, IndexUser, At
    <2>2. pc'[w] \notin {"idle", "find"} /\ UNCHANGED <<call, answer>>
      BY <2>1 DEF Proceed, Goto, Control
    <2>3. \A x : Outcome(c, visits_'[x]) = Outcome(c, visits_[x])
      BY DEF Outcome
    <2>4. QED
      BY <2>1, <2>2, <2>3, GoingOn
  <1>5. CASE IndexLocation(w)
    <2>1. /\ pc[w] = "location_index" /\ visits_' = visits_
          /\ Return(w, EntitySuccessfullyAdded)
      BY <1>5 DEF IndexLocation, At, containers
    <2>2. v \notin overlapped => visits_[v] = c.arg
      BY <1>1, <2>1 DEF LocationInvariant, LocationFollows, Underway
    <2>3. v \notin overlapped => visits_'[v] = Outcome(c, visits_[v])
      BY <2>1, <2>2 DEF Outcome
    <2>4. Promise!Answer(w, EntitySuccessfullyAdded) /\ w \in Taken
      BY <1>1, <2>1, <2>3, IsAnswered
    <2>5. Promise!Confirm(w)
      BY <1>1, <2>4, SameWords DEF Promise!Confirm
    <2>6. QED
      BY <2>5 DEF Promise!Next
  <1>6. FindNothing(w) \/ FindEntity(w) \/ EmplaceVisit(w) \/ IndexUser(w) \/ IndexLocation(w)
    <2>1. /\ ~CompareLocation(w) /\ ~FindOldLocation(w) /\ ~LeaveLocation(w)
          /\ ~EnterLocation(w) /\ ~WriteLocation(w) /\ ~CompareUser(w) /\ ~FindOldUser(w)
          /\ ~LeaveUser(w) /\ ~EnterUser(w) /\ ~WriteUser(w) /\ ~AssignVisitedAt(w)
          /\ ~AssignMark(w)
      BY DEF CompareLocation, FindOldLocation, LeaveLocation, EnterLocation, WriteLocation,
         CompareUser, FindOldUser, LeaveUser, EnterUser, WriteUser, AssignVisitedAt,
         AssignMark, At
    <2>2. QED
      BY <1>1, <2>1, ChangingLemma, Zenon
  <1>7. QED
    BY <1>2, <1>3, <1>4, <1>5, <1>6

\* So does updating one.
LEMMA UpdatePromised ==
  ASSUME Typed, LocationInvariant, WrittenInvariant, NEW w \in Workers, Statement(w),
         call[w].op = "UpdateVisit"
  PROVE  [Promise!Next]_(Promise!vars)
  <1> Contents /\ Control
    BY DEF Typed
  <1> DEFINE c == call[w]
             v == c.id
  <1>1. /\ pc[w] # "idle" /\ c # None /\ v \in VisitIds /\ Changing(w, v)
    BY ActiveLemma, BusyLemma, CallLemma DEF Changing, ChangesVisit
  <1>2. \A visit : Outcome(c, visit) = UpdatedVisit(visit, c.arg)
    BY DEF Outcome
  <1>3. CASE pc[w] \in Early /\ visits_[v] = None
    <2>1. pc[w] = "find" /\ visits_' = visits_ /\ Return(w, EntityNotFound)
      BY <1>3, FirstSteps
    <2>2. Promise!Answer(w, EntityNotFound) /\ w \notin Taken /\ PromisedVisits[v] = None
      BY <1>1, <1>3, <2>1, IsAnswered
    <2>3. Promise!Refuse(w)
      BY <1>1, <2>2, SameWords DEF Promise!Refuse
    <2>4. QED
      BY <2>3 DEF Promise!Next
  <1>4. CASE pc[w] \in Early /\ visits_[v] # None
    <2>1. /\ pc[w] = "find" /\ visits_' = visits_ /\ pc'[w] = "location"
          /\ UNCHANGED <<call, answer>>
      BY <1>4, FirstSteps
    <2>2. /\ w \notin Taken /\ Promise!Take(w, UpdatedVisit(visits_[v], c.arg))
          /\ v \notin overlapped => PromisedVisits[v] = visits_[v]
      BY <1>1, <1>2, <2>1, TakesEffect
    <2>3. Promise!Take(w, Promise!UpdatedVisit(PromisedVisits[v], c.arg))
      BY <2>2, SameWords DEF Promise!Take
    <2>4. Promise!UpdateVisit(w)
      BY <1>1, <1>4, <2>2, <2>3 DEF Promise!UpdateVisit
    <2>5. QED
      BY <2>4 DEF Promise!Next
  <1>5. CASE Updating(w) /\ pc[w] # "mark"
    <2>1. /\ UNCHANGED <<call, answer>> /\ Updating(w)'
          /\ UpdatedVisit(visits_'[v], c.arg) = UpdatedVisit(visits_[v], c.arg)
      BY <1>5, UpdateStep
    <2>2. pc[w] # "find" /\ pc'[w] \notin {"idle", "find"}
      BY <1>5, <2>1 DEF Updating, Early
    <2>3. \A x \in VisitIds : Changing(w, x) => x = v
      BY DEF Changing, ChangesVisit
    <2>4. QED
      BY <1>2, <2>1, <2>2, <2>3, GoingOn
  <1>6. CASE Updating(w) /\ pc[w] = "mark"
    <2>1. /\ Return(w, EntitySuccessfullyUpdated)
          /\ Written(w) => visits_'[v] = UpdatedVisit(visits_[v], c.arg)
      BY <1>6, UpdateStep
    <2>2. v \notin overlapped => visits_'[v] = Outcome(c, visits_[v])
      BY <1>2, <1>6, <2>1 DEF WrittenInvariant
    <2>3. Promise!Answer(w, EntitySuccessfullyUpdated) /\ w \in Taken
      BY <1>1, <1>6, <2>1, <2>2, IsAnswered
    <2>4. Promise!Confirm(w)
      BY <1>1, <2>3, SameWords DEF Promise!Confirm
    <2>5. QED
      BY <2>4 DEF Promise!Next
  <1>7. QED
    BY <1>3, <1>4, <1>5, <1>6 DEF Updating

\* What a look-up of a visit returns.
LEMMA LookedUp ==
  ASSUME Typed, NEW w \in Workers, Statement(w), call[w].op = "GetVisitById",
         NEW result, Return(w, result)
  PROVE  result = IF visits_[call[w].id] = None THEN None
                  ELSE <<"Entity", visits_[call[w].id]>>
  <1> Contents /\ Control /\ Sound(w)
    BY DEF Typed
  <1>1. pc[w] \in {"find", "serialize"} /\ Entity(call[w]) = visits_[call[w].id]
    BY ActiveLemma, BusyLemma, StatementLemma DEF Entity, Adds, Queries, Gets
  <1>2. pc'[w] = "idle" /\ answer'[w] = result
    BY DEF Return, Control
  <1>3. FindNothing(w) \/ FindEntity(w) \/ Serialize(w)
    BY <1>1 DEF Statement, At, EmplaceUser, EmplaceLocation,
     EmplaceVisit, IndexUser, IndexLocation, AssignGender, AssignBirthDate, AssignDistance,
     AssignCountry, CompareLocation,
     FindOldLocation, LeaveLocation, EnterLocation, WriteLocation, CompareUser, FindOldUser,
     LeaveUser, EnterUser, WriteUser, AssignVisitedAt, AssignMark, FindIndex,
     NextVisit, CountVisit, EndOfVisits, PrintVisits
  <1>4. CASE FindNothing(w)
    <2>1. visits_[call[w].id] = None /\ Return(w, None)
      BY <1>1, <1>4 DEF FindNothing, Adds, Updates, Gets, Queries
    <2>2. QED
      BY <1>2, <2>1 DEF Return, Control
  <1>5. CASE FindEntity(w)
    <2>1. Proceed(w, "serialize")
      BY <1>5 DEF FindEntity, Adds, Updates, Gets, Queries
    <2>2. QED
      BY <1>2, <2>1, WentOn
  <1>6. CASE Serialize(w)
    <2>1. Return(w, <<"Entity", visits_[call[w].id]>>) /\ pc[w] = "serialize"
      BY <1>1, <1>6 DEF Serialize
    <2>2. visits_[call[w].id] # None
      BY <1>1, <2>1 DEF Sound, Early
    <2>3. QED
      BY <1>2, <2>1, <2>2 DEF Return, Control
  <1>7. QED
    BY <1>3, <1>4, <1>5, <1>6

\* The other calls change no promise, and a look-up keeps it.
LEMMA OthersPromise ==
  ASSUME Typed, LocationInvariant, NEW w \in Workers, Statement(w),
         call[w].op \notin {"AddVisit", "UpdateVisit"}
  PROVE  [Promise!Next]_(Promise!vars)
  <1> Contents /\ Control
    BY DEF Typed
  <1>1. call[w] # None /\ call[w] \in Call
    BY ActiveLemma, BusyLemma
  <1>2. PromisedVisits' = PromisedVisits
    BY PromisesKept DEF Changing, ChangesVisit
  <1>3. CASE UNCHANGED <<call, answer>>
    <2>1. Taken' = Taken /\ overlapped' = overlapped
      <3>1. w \notin Taken /\ w \notin Taken'
        BY <1>3 DEF Taken
      <3>2. QED
        BY <3>1, TakenStep
    <2>2. QED
      BY <1>2, <1>3, <2>1 DEF Promise!vars
  <1>4. ASSUME NEW result, Return(w, result)
        PROVE  Promise!Next
    <2>1. Promise!Answer(w, answer'[w]) /\ answer'[w] = result
      BY <1>2, <1>4, Answered
    <2>2. CASE call[w].op # "GetVisitById"
      <3>1. Promise!Finish(w)
        BY <1>1, <2>1, <2>2 DEF Promise!Finish, Promise!Changes
      <3>2. QED
        BY <3>1 DEF Promise!Next
    <2>3. CASE call[w].op = "GetVisitById"
      <3> DEFINE v == call[w].id
      <3>1. v \in VisitIds
        BY <1>1, <2>3, CallLemma
      <3>2. result = IF visits_[v] = None THEN None ELSE <<"Entity", visits_[v]>>
        BY <1>4, <2>3, LookedUp
      <3>3. ASSUME v \notin overlapped, ~Promise!BeingChanged(v)
            PROVE  PromisedVisits[v] = visits_[v]
        <4>1. \A x \in Taken : call[x].id # v
          <5>1. \A x \in Taken : x \in Workers /\ call[x] # None /\ call[x].op \in {"AddVisit",
          "UpdateVisit"}
            BY BusyLemma DEF Taken, Busy
          <5>2. QED
            BY <3>3, <5>1 DEF Promise!BeingChanged, Promise!ChangesVisit, Promise!Changes
        <4>2. QED
          BY <3>1, <3>3, <4>1, PromisedRest DEF PromisedVisits
      <3>4. Promise!GetVisitById(w)
        BY <1>1, <2>1, <2>3, <3>2, <3>3 DEF Promise!GetVisitById
      <3>5. QED
        BY <3>4 DEF Promise!Next
    <2>4. QED
      BY <2>2, <2>3
  <1>5. QED
    BY <1>3, <1>4, GoesOnOrReturns

\* The beginning of a call ends the promise of a visit it contests.
LEMMA BeginPromised ==
  ASSUME Typed, LocationInvariant, NEW w \in Workers, NEW c \in Calls, Begin(w, c)
  PROVE  Promise!Begin(w, c)
  <1> Contents /\ Control
    BY DEF Typed
  <1>1. /\ pc[w] = "idle" /\ pc'[w] = "find" /\ call'[w] = c /\ visits_' = visits_
        /\ \A x \in Workers \ {w} : call'[x] = call[x] /\ pc'[x] = pc[x]
    BY BeginLemma DEF containers
  <1>2. /\ call[w] = None /\ call' = [call EXCEPT ![w] = c]
        /\ answer' = [answer EXCEPT ![w] = None]
    BY <1>1, RestLemma DEF Begin
  <1>3. overlapped' = overlapped \cup {v \in VisitIds : Promise!ChangesVisit(c, v)
                                                        /\ Promise!BeingChanged(v)}
    <2>1. \A x \in Workers : x \in Busy <=> call[x] # None
      BY BusyLemma, RestLemma DEF Busy
    <2>2. \A v : (\E x \in Busy : ChangesVisit(call[x], v)) <=> Promise!BeingChanged(v)
      BY <2>1 DEF Busy, ChangesVisit, Promise!BeingChanged, Promise!ChangesVisit,
         Promise!Changes
    <2>3. \A v : ChangesVisit(c, v) <=> Promise!ChangesVisit(c, v)
      BY DEF ChangesVisit, Promise!ChangesVisit, Promise!Changes
    <2>4. overlapped' = overlapped \cup
            {v \in VisitIds : ChangesVisit(c, v) /\ \E x \in Busy : ChangesVisit(call[x], v)}
      BY DEF Begin
    <2>5. QED
      BY <2>2, <2>3, <2>4
  <1>4. Taken' = Taken
    BY <1>1 DEF Taken, Busy
  <1>5. \A x \in Taken : x \in Workers /\ x # w /\ call'[x] = call[x]
    BY <1>1 DEF Taken, Busy
  <1>6. ASSUME NEW v \in VisitIds
        PROVE  Promised(v)' = IF v \in overlapped' THEN None ELSE Promised(v)
    <2>1. CASE v \in overlapped'
      BY <2>1 DEF Promised
    <2>2. CASE v \notin overlapped' /\ \A x \in Taken : call[x].id # v
      <3>1. v \notin overlapped /\ \A x \in Taken' : call'[x].id # v
        BY <1>3, <1>4, <1>5, <2>2
      <3>2. QED
        BY <1>1, <2>2, <3>1, PromisedRest, PromisedRestNext
    <2>3. CASE v \notin overlapped' /\ \E x \in Taken : call[x].id = v
      <3>1. PICK x \in Taken : call[x].id = v
        BY <2>3
      <3>2. v \notin overlapped
        BY <1>3, <2>3
      <3>3. x \in Workers /\ Changing(x, v)
        BY <3>1 DEF Taken, Busy, Changing, ChangesVisit
      <3>4. \A y \in Taken : call[y].id = v => y = x
        BY <3>2, <3>3, TakenLemma
      <3>5. x \in Taken' /\ call'[x] = call[x] /\ \A y \in Taken' : call'[y].id = v => y = x
        BY <1>4, <1>5, <3>1, <3>4
      <3>6. QED
        BY <1>1, <2>3, <3>1, <3>2, <3>4, <3>5, PromisedOutcome, PromisedOutcomeNext
    <2>4. QED
      BY <2>1, <2>2, <2>3
  <1>7. PromisedVisits' = [v \in VisitIds |-> IF v \in overlapped' THEN None ELSE PromisedVisits[v]]
    BY <1>6 DEF PromisedVisits
  <1>8. QED
    BY <1>2, <1>3, <1>4, <1>7 DEF Promise!Begin

\* However the statements of any number of workers interleave, a change of a
\* visit that no other change overlaps takes effect as a whole, on the visit as
\* the last change left it, is answered by what it found, and is what the
\* look-ups after it return.
THEOREM StorageKeepsItsPromises == Spec => ImplementsVisitChanges
  <1>1. Init => Promise!Init
    <2> SUFFICES ASSUME Init
                 PROVE  Promise!Init
      OBVIOUS
    <2>1. Taken = {} /\ overlapped = {}
      BY DEF Init, Taken, Busy
    <2>2. \A v \in VisitIds : Promised(v) = LoadedVisits[v]
      BY <2>1 DEF Promised, Init
    <2>3. LoadedVisits = [v \in VisitIds |-> LoadedVisits[v]]
      BY LoadedAssumption DEF LoadedAssumption
    <2>4. PromisedVisits = LoadedVisits
      BY <2>2, <2>3 DEF PromisedVisits
    <2>5. QED
      BY <2>1, <2>4 DEF Init, Promise!Init
  <1>2. ASSUME Typed, LocationInvariant, WrittenInvariant, [Next]_vars
        PROVE  [Promise!Next]_(Promise!vars)
    <2>1. CASE \E w \in Workers : Statement(w)
      BY <1>2, <2>1, AddPromised, UpdatePromised, OthersPromise
    <2>2. CASE \E w \in Workers : \E c \in Calls : Begin(w, c)
      BY <1>2, <2>2, BeginPromised DEF Promise!Next
    <2>3. CASE Race \/ UNCHANGED vars
      <3>1. UNCHANGED <<visits_, call, pc, overlapped>> /\ UNCHANGED answer
        BY <1>2, <2>3, StillLemma DEF containers, Race, vars
      <3>2. Taken' = Taken
        BY <3>1 DEF Taken, Busy
      <3>3. PromisedVisits' = PromisedVisits
        BY <3>1, <3>2 DEF PromisedVisits, Promised
      <3>4. QED
        BY <3>1, <3>2, <3>3 DEF Promise!vars
    <2>4. QED
      BY <1>2, <2>1, <2>2, <2>3, NextLemma
  <1>3. QED
    BY <1>1, <1>2, TypedInvariant, LocationHolds, WrittenHolds, PTL
       DEF Spec, ImplementsVisitChanges, Promise!Spec
=============================================================================
