----------------------------- MODULE HttpParser -----------------------------
(***************************************************************************)
(* HttpParser (HttpParser/HttpParser.cpp) in the worker threads.  Every    *)
(* request has a parser of its own, but the URL is copied into one static  *)
(* array, max_path, and the parameters of a query lie in another, so the   *)
(* workers share them without a lock.                                      *)
(*                                                                         *)
(* A URL is a sequence of bytes, with three abstractions: a name such as   *)
(* "users" is one byte, a country is one byte that qs_decode leaves alone, *)
(* and no URL has a scheme or a fragment.  yuarel works in place, as its   *)
(* callers here rely on: it ends the parts of the URL by writing NUL over  *)
(* what separates them and returns pointers into max_path.  A pointer is a *)
(* position, 0 the null pointer.                                           *)
(* Each loop iteration of this code and each call of yuarel is one step.   *)
(***************************************************************************)
EXTENDS Integers, SequencesExt

CONSTANTS
  Workers,
  Byte,                          \* a char, a name or a country
  Requests,                      \* what clients send, see Request
  PathSize,                      \* max_path[120]
  max_query_parameters_amount,
  IdModulus                      \* 2^32: Id and Distance are uint32_t

Nul == "NUL"
Digits == <<"0", "1", "2", "3", "4", "5", "6", "7", "8", "9">>
Names == {"users", "locations", "visits", "new", "avg"}
NumberKeys == {"toDistance", "fromDate", "toDate", "fromAge", "toAge"}
Keys == NumberKeys \cup {"gender", "country"}

(***************************************************************************)
(* StringToNumber.                                                         *)
(***************************************************************************)
IsNumber(text) == \A c \in DOMAIN text : \E k \in DOMAIN Digits : text[c] = Digits[k]

Digit(byte) == (CHOOSE k \in DOMAIN Digits : Digits[k] = byte) - 1

Number(text) ==
  LET n[k \in 0 .. Len(text)] == IF k = 0 THEN 0 ELSE 10 * n[k - 1] + Digit(text[k])
  IN n[Len(text)]

\* Mutant: the id keeps all of its long long.
ToId_Mutant(text) == Number(text)
ToId(text) == Number(text) % IdModulus

(***************************************************************************)
(* A request has a method, a path of texts and a query of keys and texts;  *)
(* Url is what stands in the first line.  What a URL has beside them is in *)
(* rest, so that every sequence of bytes is the URL of some request.       *)
(***************************************************************************)
Parameter(k, q) ==
  <<IF k = 1 THEN "?" ELSE "&", q[k].key, "=">> \o q[k].val

Url(r) ==
  FlattenSeq([k \in DOMAIN r.path |-> <<"/">> \o r.path[k]])
    \o FlattenSeq([k \in DOMAIN r.query |-> Parameter(k, r.query)])
    \o r.rest

\* The requests the code is made for, which it does not check: an entity and an
\* id or "new", a value for every parameter, and a URL and a query that fit.  No
\* part of a path is empty, and what separates texts is in none of them.
WellFormed(r) ==
  /\ r.path \in Seq(Seq(Byte \ {Nul, "/", "?"}) \ {<<>>})
  /\ r.query \in Seq([key : Byte \ {Nul, "&", "="}, val : Seq(Byte \ {Nul, "&"})])
  /\ r.rest = <<>>
  /\ Len(r.path) >= 2
  /\ Len(r.query) <= max_query_parameters_amount
  /\ Len(Url(r)) < PathSize

ASSUME RequestsAssumption == \A r \in Requests : Url(r) \in Seq(Byte \ {Nul})
ASSUME BytesAssumption == {Nul, "/", "?", "&", "="} \subseteq Byte /\ {":", "#"} \cap Byte = {}
ASSUME LimitsAssumption ==
  /\ PathSize \in Nat
  /\ max_query_parameters_amount \in 1 .. PathSize - 1
  /\ IdModulus \in Nat \ {0}

VARIABLES
  max_path,          \* the static array of ParseHttpRequest
  query_parameters,  \* the static array of SplitQuery: positions of keys and values
  crashed,           \* a null or stray pointer was followed, or max_path overrun
  pc,                \* where each worker is
  request,           \* the request it parses
  i,                 \* its loop counter
  query, parts,      \* url.query and parts: positions in max_path
  amount,            \* query_parameters_amount
  result,            \* what ParseHttpRequest returns, and the parser's fields
  alone              \* no other worker was parsing since it began

shared == <<max_path, query_parameters>>
locals == <<request, query, parts, amount>>
vars == <<shared, crashed, pc, i, locals, result, alone>>

NoRequest == [method |-> "None", path |-> <<>>, query |-> <<>>, rest |-> <<>>]

\* HttpParser's constructor.
NewParser == [error |-> "Ok", type |-> "None", id |-> IdModulus - 1, filters |-> <<>>]

Init ==
  /\ max_path = [p \in 1 .. PathSize |-> Nul]
  /\ query_parameters = [k \in 1 .. max_query_parameters_amount |-> [key |-> 0, val |-> 0]]
  /\ crashed = FALSE
  /\ pc = [w \in Workers |-> "done"]
  /\ request = [w \in Workers |-> NoRequest]
  /\ i = [w \in Workers |-> 0]
  /\ query = [w \in Workers |-> 0]
  /\ parts = [w \in Workers |-> <<>>]
  /\ amount = [w \in Workers |-> 0]
  /\ result = [w \in Workers |-> NewParser]
  /\ alone = [w \in Workers |-> TRUE]

(***************************************************************************)
(* C strings in max_path.                                                  *)
(***************************************************************************)
End(p) == CHOOSE q \in p .. PathSize :
            max_path[q] = Nul /\ \A r \in p .. q - 1 : max_path[r] # Nul
Text(p) == SubSeq(max_path, p, End(p) - 1)
Found(byte, p, q) == {r \in p .. q - 1 : max_path[r] = byte}
Sorted(positions) ==
  CHOOSE s \in [1 .. Cardinality(positions) -> positions] :
    \A j, k \in DOMAIN s : j < k => s[j] < s[k]
Terminated(positions) ==
  [p \in 1 .. PathSize |-> IF p \in positions THEN Nul ELSE max_path[p]]

(***************************************************************************)
(* ParseHttpRequest up to the calls of yuarel.                             *)
(***************************************************************************)
\* A worker that has its answer takes the next request.
Receive(w, r) ==
  /\ ~crashed
  /\ pc[w] = "done"
  /\ pc' = [pc EXCEPT ![w] = "copy"]
  /\ request' = [request EXCEPT ![w] = r]
  /\ i' = [i EXCEPT ![w] = 1]
  /\ query' = [query EXCEPT ![w] = 0]
  /\ parts' = [parts EXCEPT ![w] = <<>>]
  /\ amount' = [amount EXCEPT ![w] = 0]
  /\ result' = [result EXCEPT ![w] = NewParser]
  /\ alone' = [x \in Workers |->
                 IF x = w THEN \A y \in Workers \ {w} : pc[y] = "done"
                 ELSE alone[x] /\ pc[x] = "done"]
  /\ UNCHANGED <<shared, crashed>>

\* The loop has no limit: a URL that takes the last place, the one left for NUL,
\* is too long for the array.
Copy(w) ==
  /\ ~crashed
  /\ pc[w] = "copy"
  /\ i[w] <= Len(Url(request[w]))
  /\ IF i[w] < PathSize
     THEN /\ max_path' = [max_path EXCEPT ![i[w]] = Url(request[w])[i[w]]]
          /\ i' = [i EXCEPT ![w] = @ + 1]
          /\ UNCHANGED crashed
     ELSE crashed' = TRUE /\ UNCHANGED <<max_path, i>>
  /\ UNCHANGED <<query_parameters, pc, locals, result, alone>>

\* Mutant: the URL is not terminated.
Terminate_Mutant(w) ==
  /\ ~crashed
  /\ pc[w] = "copy"
  /\ i[w] > Len(Url(request[w]))
  /\ pc' = [pc EXCEPT ![w] = "yuarel_parse"]
  /\ UNCHANGED <<shared, crashed, i, locals, result, alone>>

Terminate(w) ==
  /\ ~crashed
  /\ pc[w] = "copy"
  /\ i[w] > Len(Url(request[w]))
  /\ max_path' = Terminated({i[w]})
  /\ pc' = [pc EXCEPT ![w] = "yuarel_parse"]
  /\ UNCHANGED <<query_parameters, crashed, i, locals, result, alone>>

(***************************************************************************)
(* The calls of yuarel_parse and yuarel_split_path.                        *)
(***************************************************************************)
\* The URL must begin with a slash, or it has no scheme and is refused; the
\* request type is still None then.
YuarelParse(w) ==
  /\ ~crashed
  /\ pc[w] = "yuarel_parse"
  /\ LET marks == Found("?", 1, End(1))
         mark == IF marks = {} THEN 0 ELSE Min(marks)
         slash == max_path[1] = "/"
     IN /\ max_path' = Terminated({mark} \cup (IF slash THEN {1} ELSE {}))
        /\ query' = [query EXCEPT ![w] = IF mark = 0 THEN 0 ELSE mark + 1]
        /\ pc' = [pc EXCEPT ![w] = IF slash THEN "yuarel_split_path" ELSE "done"]
  /\ UNCHANGED <<query_parameters, crashed, request, i, parts, amount, result, alone>>

\* A part begins where no slash is and one was; the slash after it ends it.  The
\* array parts holds ten; those beyond are kept here, and Route reads none of them.
YuarelSplitPath(w) ==
  /\ ~crashed
  /\ pc[w] = "yuarel_split_path"
  /\ LET path == 2 .. End(2) - 1
         slashes == {p \in path : max_path[p] = "/"}
     IN /\ parts' = [parts EXCEPT ![w] =
                       Sorted({p \in path \ slashes : p = 2 \/ p - 1 \in slashes})]
        /\ max_path' = Terminated({p \in slashes : p > 2 /\ p - 1 \notin slashes})
  /\ pc' = [pc EXCEPT ![w] = IF query[w] = 0 THEN "Route" ELSE "SplitQuery"]
  /\ UNCHANGED <<query_parameters, crashed, request, i, query, amount, result, alone>>

(***************************************************************************)
(* SplitQuery.                                                             *)
(***************************************************************************)
\* The call of yuarel_parse_query.  On an empty query it returns -1, which the
\* loop takes for a huge size_t: it runs off the array unless an old parameter
\* or what lies behind the array stops it.
YuarelParseQuery(w) ==
  /\ ~crashed
  /\ pc[w] = "SplitQuery"
  /\ LET first == query[w]
         seps == Sorted(Found("&", first, End(first)))
         n == Min({Len(seps) + 1, max_query_parameters_amount})
         key(k) == IF k = 1 THEN first ELSE seps[k - 1] + 1
         next(k) == IF k < n THEN seps[k] ELSE End(first)
         equals(k) == Found("=", key(k), next(k))
         val(k) == IF equals(k) = {} THEN 0 ELSE Min(equals(k)) + 1
     IN IF max_path[first] = Nul
        THEN /\ \/ crashed' = TRUE /\ UNCHANGED <<pc, result>>
                \/ /\ result' = [result EXCEPT ![w].error = "BadRequest"]
                   /\ pc' = [pc EXCEPT ![w] = "done"]
                   /\ UNCHANGED crashed
             /\ UNCHANGED <<shared, i, amount>>
        ELSE /\ max_path' = Terminated({seps[k] : k \in 1 .. n - 1}
                                         \cup {val(k) - 1 : k \in 1 .. n})
             /\ query_parameters' = [k \in DOMAIN query_parameters |->
                  IF k <= n THEN [key |-> key(k), val |-> val(k)]
                  ELSE query_parameters[k]]
             /\ amount' = [amount EXCEPT ![w] = n]
             /\ i' = [i EXCEPT ![w] = 1]
             /\ pc' = [pc EXCEPT ![w] = "parameter"]
             /\ UNCHANGED <<crashed, result>>
  /\ UNCHANGED <<request, query, parts, alone>>

\* The value of a parameter the parser knows.
Accepted(key, text) ==
  \/ key = "gender" /\ text \in {<<"m">>, <<"f">>}
  \/ key \in NumberKeys /\ IsNumber(text)
  \/ key = "country"

Value(key, text) ==
  CASE key = "gender" -> IF text = <<"f">> THEN "Female" ELSE "Male"
    [] key = "toDistance" -> ToId(text)
    [] key = "country" -> text
    [] OTHER -> Number(text)

\* The mask has the bit of a filter when filters has a value for it.
WithFilter(filters, key, value) ==
  [k \in DOMAIN filters \cup {key} |-> IF k = key THEN value ELSE filters[k]]

\* Mutant: one iteration too many.
InQuery_Mutant(w) == i[w] <= amount[w] + 1
InQuery(w) == i[w] <= amount[w]

\* One iteration of the loop.  A key that is not a known name is skipped; a
\* null key or the null value of a known key is dereferenced.
SplitQueryParameter(w) ==
  /\ ~crashed
  /\ pc[w] = "parameter"
  /\ InQuery(w)
  /\ i[w] <= max_query_parameters_amount
  /\ LET p == query_parameters[i[w]]
         text == IF p.key = 0 THEN <<>> ELSE Text(p.key)
         key == IF Len(text) = 1 THEN text[1] ELSE Nul
     IN IF p.key = 0 \/ (key \in Keys /\ p.val = 0)
        THEN crashed' = TRUE /\ UNCHANGED <<pc, i, result>>
        ELSE /\ IF key \notin Keys
                THEN i' = [i EXCEPT ![w] = @ + 1] /\ UNCHANGED <<pc, result>>
                ELSE IF Accepted(key, Text(p.val))
                THEN /\ result' = [result EXCEPT ![w].filters =
                                     WithFilter(@, key, Value(key, Text(p.val)))]
                     /\ i' = [i EXCEPT ![w] = @ + 1]
                     /\ UNCHANGED pc
                ELSE /\ result' = [result EXCEPT ![w].error = "BadRequest"]
                     /\ pc' = [pc EXCEPT ![w] = "done"]
                     /\ UNCHANGED i
             /\ UNCHANGED crashed
  /\ UNCHANGED <<shared, locals, alone>>

SplitQueryEnds(w) ==
  /\ ~crashed
  /\ pc[w] = "parameter"
  /\ ~InQuery(w)
  /\ pc' = [pc EXCEPT ![w] = "Route"]
  /\ UNCHANGED <<shared, crashed, i, locals, result, alone>>

(***************************************************************************)
(* Route.                                                                  *)
(***************************************************************************)
\* The pointer to the k-th part, or what was on the stack where it would be:
\* a pointer an earlier request left there, or anything.
Part(w, k) ==
  IF k <= Len(parts[w]) THEN {Text(parts[w][k])}
  ELSE {Text(p) : p \in DOMAIN max_path}

GetTypes(first, third, two) ==
  CASE first = <<"users">> /\ two -> "GetUserById"
    [] first = <<"users">> /\ ~two /\ third = <<"visits">> -> "GetVisitsByUserId"
    [] first = <<"locations">> /\ two -> "GetLocationById"
    [] first = <<"locations">> /\ ~two /\ third = <<"avg">> -> "GetAverageLocationMark"
    [] first = <<"visits">> -> "GetVisitById"
    [] OTHER -> "None"

AddTypes(first) ==
  CASE first = <<"users">> -> "AddUser"
    [] first = <<"locations">> -> "AddLocation"
    [] first = <<"visits">> -> "AddVisit"
    [] OTHER -> "None"

UpdateTypes(first) ==
  CASE first = <<"users">> -> "UpdateUserById"
    [] first = <<"locations">> -> "UpdateLocationById"
    [] first = <<"visits">> -> "UpdateVisitById"
    [] OTHER -> "None"

Routed(type, id) ==
  [error |-> IF type = "None" THEN "BadRequest" ELSE "Ok", type |-> type, id |-> id]

RouteGet(first, second, third, two) ==
  IF IsNumber(second) THEN Routed(GetTypes(first, third, two), ToId(second))
  ELSE [error |-> "NotFound", type |-> "None", id |-> IdModulus - 1]

RoutePost(first, second) ==
  IF AddTypes(first) = "None" THEN Routed("None", IdModulus - 1)
  ELSE IF second = <<"new">> THEN Routed(AddTypes(first), IdModulus - 1)
  ELSE IF IsNumber(second) THEN Routed(UpdateTypes(first), ToId(second))
  ELSE Routed("None", IdModulus - 1)

\* Mutant: the first case does not end in a break.
RouteTo_Mutant(method, first, second, third, two) ==
  IF method = "GET" /\ RouteGet(first, second, third, two).error = "NotFound"
  THEN RouteGet(first, second, third, two)
  ELSE RoutePost(first, second)

RouteTo(method, first, second, third, two) ==
  CASE method = "GET" -> RouteGet(first, second, third, two)
    [] method = "POST" -> RoutePost(first, second)
    [] OTHER -> Routed("None", IdModulus - 1)

\* Whether the request has a part for every pointer Route follows.
HasParts(w) ==
  \/ Len(parts[w]) >= 2
  \/ request[w].method \notin {"GET", "POST"}
  \/ Len(parts[w]) = 1 /\ request[w].method = "POST" /\ AddTypes(Text(parts[w][1])) = "None"

Route(w) ==
  /\ ~crashed
  /\ pc[w] = "Route"
  /\ \/ ~HasParts(w) /\ crashed' = TRUE /\ UNCHANGED <<pc, parts, result>>
     \/ /\ \E first \in Part(w, 1), second \in Part(w, 2), third \in Part(w, 3) :
             LET routed == RouteTo(request[w].method, first, second, third,
                                   Len(parts[w]) = 2)
             IN result' = [result EXCEPT ![w].error = routed.error,
                                         ![w].type = routed.type,
                                         ![w].id = routed.id]
        /\ pc' = [pc EXCEPT ![w] = "done"]
        /\ parts' = [parts EXCEPT ![w] = <<>>]
        /\ UNCHANGED crashed
  /\ UNCHANGED <<shared, request, i, query, amount, alone>>

ParseHttpRequest(w) ==
  \/ \E r \in Requests : Receive(w, r)
  \/ Copy(w) \/ Terminate(w)
  \/ YuarelParse(w) \/ YuarelSplitPath(w)
  \/ YuarelParseQuery(w) \/ SplitQueryParameter(w) \/ SplitQueryEnds(w)
  \/ Route(w)

Next == \E w \in Workers : ParseHttpRequest(w)

Spec == Init /\ [][Next]_vars

-----------------------------------------------------------------------------
(***************************************************************************)
(* What a request means, read off its parts: the routes of the comments in *)
(* Route and of its other cases.  A part after a complete route is taken   *)
(* for one only where the route with two parts is `exact`.                 *)
(***************************************************************************)
RouteTable ==
  {[method |-> "GET", entity |-> "users", to |-> "id", third |-> "", type |-> "GetUserById"],
   [method |-> "GET", entity |-> "users", to |-> "id", third |-> "visits",
    type |-> "GetVisitsByUserId"],
   [method |-> "GET", entity |-> "locations", to |-> "id", third |-> "",
    type |-> "GetLocationById"],
   [method |-> "GET", entity |-> "locations", to |-> "id", third |-> "avg",
    type |-> "GetAverageLocationMark"],
   [method |-> "GET", entity |-> "visits", to |-> "id", third |-> "any", type |-> "GetVisitById"]}
  \cup UNION {{[method |-> "POST", entity |-> t[1], to |-> "new", third |-> "any",
                type |-> t[2]],
               [method |-> "POST", entity |-> t[1], to |-> "id", third |-> "any",
                type |-> t[3]]} :
              t \in {<<"users", "AddUser", "UpdateUserById">>,
                     <<"locations", "AddLocation", "UpdateLocationById">>,
                     <<"visits", "AddVisit", "UpdateVisitById">>}}

Fits(r, route) ==
  /\ r.method = route.method
  /\ r.path[1] = <<route.entity>>
  /\ IF route.to = "new" THEN r.path[2] = <<"new">> ELSE IsNumber(r.path[2])
  /\ \/ route.third = "any"
     \/ route.third = "" /\ Len(r.path) = 2
     \/ route.third # "" /\ Len(r.path) > 2 /\ r.path[3] = <<route.third>>

\* The answer a well-formed request gets when nobody disturbs its parser.
IsMeaning(outcome, r) ==
  LET known == {k \in DOMAIN r.query : r.query[k].key \in Keys}
      routes == {route \in RouteTable : Fits(r, route)}
  IN IF \E k \in known : ~Accepted(r.query[k].key, r.query[k].val)
     THEN outcome.error = "BadRequest"
     ELSE IF r.method = "GET" /\ ~IsNumber(r.path[2]) THEN outcome.error = "NotFound"
     ELSE IF routes = {} THEN outcome.error = "BadRequest"
     ELSE /\ outcome.error = "Ok"
          /\ \E route \in routes : outcome.type = route.type
          /\ r.path[2] # <<"new">> => outcome.id = ToId(r.path[2])
          /\ DOMAIN outcome.filters = {r.query[k].key : k \in known}
          /\ \A k \in known :
               (\A l \in known : l > k => r.query[l].key # r.query[k].key)
                 => outcome.filters[r.query[k].key] = Value(r.query[k].key, r.query[k].val)

(***************************************************************************)
(* Properties.                                                             *)
(***************************************************************************)
\* The request types of a GET and of a POST.
GetRequests == {"GetUserById", "GetLocationById", "GetVisitById",
                "GetVisitsByUserId", "GetAverageLocationMark"}
PostRequests == {"AddUser", "AddLocation", "AddVisit",
                 "UpdateUserById", "UpdateLocationById", "UpdateVisitById"}

\* Positions lie in max_path, which ends in NUL, ids in 32 bits, and the fields
\* of each parser hold values of their kind.
TypeOK ==
  /\ query_parameters \in [1 .. max_query_parameters_amount ->
                            [key : 0 .. PathSize, val : 0 .. PathSize]]
  /\ max_path \in [1 .. PathSize -> Byte] /\ max_path[PathSize] = Nul
  /\ crashed \in BOOLEAN
  /\ pc \in [Workers -> {"copy", "yuarel_parse", "yuarel_split_path", "SplitQuery",
                         "parameter", "Route", "done"}]
  /\ request \in [Workers -> Requests \cup {NoRequest}]
  /\ query \in [Workers -> 0 .. PathSize]
  /\ amount \in [Workers -> 0 .. max_query_parameters_amount]
  /\ i \in [Workers -> 0 .. PathSize]
  /\ \A w \in Workers : parts[w] \in Seq(2 .. PathSize)
  /\ alone \in [Workers -> BOOLEAN]
  /\ \A w \in Workers :
       /\ result[w].error \in {"Ok", "BadRequest", "NotFound"}
       /\ result[w].type \in GetRequests \cup PostRequests \cup {"None"}
       /\ result[w].id \in 0 .. IdModulus - 1
       /\ DOMAIN result[w].filters \subseteq Keys

\* The answer a worker has is the meaning of its request.
Answered(w) == pc[w] = "done" /\ request[w] # NoRequest /\ ~crashed

\* A well-formed request that no other worker's overlaps is parsed as what it
\* says, though both static arrays still hold what earlier requests, ill-formed
\* ones and races left.
AloneIsOwn ==
  \A w \in Workers :
    Answered(w) /\ alone[w] /\ WellFormed(request[w]) => IsMeaning(result[w], request[w])

\* Whatever the race makes of the URL, a GET is never taken for an add or an
\* update, and a POST never for a query: the method is not shared.
GetsOnlyRead ==
  \A w \in Workers :
    /\ result[w].type \in GetRequests => request[w].method = "GET"
    /\ result[w].type \in PostRequests => request[w].method = "POST"

\* A pointer goes astray only when two requests overlap or one is ill-formed: a
\* path of one part leaves parts[1] unset, an empty query has the loop run for a
\* count of -1, a known key without a value has a null one, and a URL of 120 bytes
\* overruns max_path.
CrashHasCause ==
  crashed => \E w \in Workers : pc[w] # "done" /\ (~alone[w] \/ ~WellFormed(request[w]))

\* Every well-formed request is parsed as what it says: /users/<id> is answered
\* for its id.
OwnRequest ==
  \A w \in Workers :
    Answered(w) /\ WellFormed(request[w]) => IsMeaning(result[w], request[w])
=============================================================================
