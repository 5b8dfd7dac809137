---------------------------- MODULE VisitChanges ----------------------------
(***************************************************************************)
(* What AddVisit and UpdateVisit promise when several threads call the     *)
(* storage at once: the change of a visit that no other call is changing   *)
(* takes effect as a whole, at one moment between the call and its answer, *)
(* and the answer says what happened at that moment.  Nothing is promised  *)
(* of a visit once two changes of it have overlapped.                      *)
(***************************************************************************)
EXTENDS Entities

CONSTANTS Workers, Calls, LoadedVisits

VARIABLES
  visits,      \* the visits that are promised, None when absent or contested
  call,        \* the call a worker is in
  taken,       \* the workers whose change has taken effect
  answer,      \* what the worker's last call returned
  contested    \* the visits of which two changes were ever under way together

vars == <<visits, call, taken, answer, contested>>

EntityNotFound == <<"EntityNotFound">>
EntitySuccessfullyUpdated == <<"EntitySuccessfullyUpdated">>
EntityAlreadyExist == <<"EntityAlreadyExist">>
EntitySuccessfullyAdded == <<"EntitySuccessfullyAdded">>

Changes == {"AddVisit", "UpdateVisit"}
ChangesVisit(c, v) == c.op \in Changes /\ c.id = v
BeingChanged(v) == \E w \in Workers : call[w] # None /\ ChangesVisit(call[w], v)

Init ==
  /\ visits = LoadedVisits
  /\ call = [w \in Workers |-> None]
  /\ taken = {}
  /\ answer = [w \in Workers |-> None]
  /\ contested = {}

Begin(w, c) ==
  /\ call[w] = None
  /\ call' = [call EXCEPT ![w] = c]
  /\ answer' = [answer EXCEPT ![w] = None]
  /\ contested' = contested \cup {v \in VisitIds : ChangesVisit(c, v) /\ BeingChanged(v)}
  /\ visits' = [v \in VisitIds |-> IF v \in contested' THEN None ELSE visits[v]]
  /\ UNCHANGED taken

\* The change takes effect.
Take(w, visit) ==
  /\ taken' = taken \cup {w}
  /\ visits' = IF call[w].id \in contested THEN visits
               ELSE [visits EXCEPT ![call[w].id] = visit]
  /\ UNCHANGED <<call, answer, contested>>

AddVisit(w) ==
  /\ call[w] # None /\ call[w].op = "AddVisit"
  /\ w \notin taken
  /\ visits[call[w].id] = None
  /\ Take(w, call[w].arg)

UpdateVisit(w) ==
  /\ call[w] # None /\ call[w].op = "UpdateVisit"
  /\ w \notin taken
  /\ call[w].id \notin contested => visits[call[w].id] # None
  /\ Take(w, UpdatedVisit(visits[call[w].id], call[w].arg))

Answer(w, result) ==
  /\ call' = [call EXCEPT ![w] = None]
  /\ answer' = [answer EXCEPT ![w] = result]
  /\ taken' = taken \ {w}
  /\ UNCHANGED <<visits, contested>>

\* A change is refused: the id is taken, or there is no such visit.
Refuse(w) ==
  /\ call[w] # None
  /\ w \notin taken
  /\ \/ /\ call[w].op = "AddVisit"
        /\ call[w].id \notin contested => visits[call[w].id] # None
        /\ Answer(w, EntityAlreadyExist)
     \/ /\ call[w].op = "UpdateVisit"
        /\ visits[call[w].id] = None
        /\ Answer(w, EntityNotFound)

\* It is answered after it has taken effect.
Confirm(w) ==
  /\ w \in taken
  /\ \/ call[w].op = "AddVisit" /\ Answer(w, EntitySuccessfullyAdded)
     \/ call[w].op = "UpdateVisit" /\ Answer(w, EntitySuccessfullyUpdated)

\* A look-up that returns while nobody changes the visit returns it as promised.
GetVisitById(w) ==
  /\ call[w] # None /\ call[w].op = "GetVisitById"
  /\ Answer(w, answer'[w])
  /\ LET v == call[w].id
     IN v \notin contested /\ ~BeingChanged(v) =>
          answer'[w] = IF visits[v] = None THEN None ELSE <<"Entity", visits[v]>>

\* Any other call may return anything; it changes no visit.
Finish(w) ==
  /\ call[w] # None
  /\ call[w].op \notin Changes \cup {"GetVisitById"}
  /\ Answer(w, answer'[w])

Next ==
  \E w \in Workers :
    \/ \E c \in Calls : Begin(w, c)
    \/ AddVisit(w) \/ UpdateVisit(w) \/ Refuse(w) \/ Confirm(w)
    \/ GetVisitById(w) \/ Finish(w)

Spec == Init /\ [][Next]_vars
=============================================================================
