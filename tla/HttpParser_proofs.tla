-------------------------- MODULE HttpParser_proofs --------------------------
(***************************************************************************)
(* The parser of a request, for any number of workers and any requests:    *)
(* the types, what the race on max_path cannot do to a request, and that   *)
(* a request no other overlaps is parsed as what it says.                  *)
(***************************************************************************)
EXTENDS UrlLemmas, TLAPS

Fields == {"error", "type", "id", "filters"}

\* The parsers and the requests are there for every worker.
Shapes ==
  /\ DOMAIN result = Workers
  /\ \A w \in Workers : DOMAIN result[w] = Fields
  /\ DOMAIN request = Workers

Inv == Shapes /\ GetsOnlyRead

\* Route finds the request types of the method it is given, whatever texts the
\* parts turn out to be.
LEMMA RouteByMethod ==
  ASSUME NEW method, NEW first, NEW second, NEW third, NEW two
  PROVE  LET type == RouteTo(method, first, second, third, two).type
         IN /\ type \in GetRequests => method = "GET"
            /\ type \in PostRequests => method = "POST"
<1>1. GetTypes(first, third, two) \in GetRequests \cup {"None"}
  BY DEF GetTypes, GetRequests
<1>2. AddTypes(first) \in PostRequests \cup {"None"}
  BY DEF AddTypes, PostRequests
<1>3. UpdateTypes(first) \in PostRequests \cup {"None"}
  BY DEF UpdateTypes, PostRequests
<1>4. RouteGet(first, second, third, two).type \in GetRequests \cup {"None"}
  BY <1>1 DEF RouteGet, Routed
<1>5. RoutePost(first, second).type \in PostRequests \cup {"None"}
  BY <1>2, <1>3 DEF RoutePost, Routed
<1>6. Routed("None", IdModulus - 1).type = "None"
  BY DEF Routed
<1>7. \A t \in GetRequests \cup {"None"} : t \notin PostRequests
  BY DEF GetRequests, PostRequests
<1>8. \A t \in PostRequests \cup {"None"} : t \notin GetRequests
  BY DEF GetRequests, PostRequests
<1>. QED
  BY <1>4, <1>5, <1>7, <1>8, <1>6 DEF RouteTo

\* A worker takes a request: its parser is new.
LEMMA ReceiveKeeps ==
  ASSUME Inv, NEW w \in Workers, NEW r, Receive(w, r)
  PROVE  Inv'
<1>1. request' = [request EXCEPT ![w] = r] /\ result' = [result EXCEPT ![w] = NewParser]
  BY DEF Receive
<1>2. DOMAIN NewParser = Fields /\ NewParser.type = "None"
  BY DEF NewParser, Fields
<1>3. Shapes'
  BY <1>1, <1>2 DEF Inv, Shapes
<1>4. GetsOnlyRead'
  <2>1. result'[w].type = "None"
    BY <1>1, <1>2 DEF Inv, Shapes
  <2>2. "None" \notin GetRequests \cup PostRequests
    BY DEF GetRequests, PostRequests
  <2>3. \A x \in Workers \ {w} : result'[x] = result[x] /\ request'[x] = request[x]
    BY <1>1 DEF Inv, Shapes
  <2>. QED
    BY <2>1, <2>2, <2>3 DEF Inv, GetsOnlyRead
<1>. QED
  BY <1>3, <1>4 DEF Inv

\* A step that leaves the worker's request and its type alone.
LEMMA TypeKeeps ==
  ASSUME Inv, UNCHANGED request, DOMAIN result' = DOMAIN result,
         \A x \in Workers : DOMAIN result'[x] = DOMAIN result[x]
                           /\ result'[x].type = result[x].type
  PROVE  Inv'
  BY DEF Inv, Shapes, GetsOnlyRead

\* The query changes the error or a filter, not the type.
LEMMA QueryKeeps ==
  ASSUME Inv, NEW w \in Workers, YuarelParseQuery(w) \/ SplitQueryParameter(w)
  PROVE  Inv'
<1>1. UNCHANGED request
  BY DEF YuarelParseQuery, SplitQueryParameter, locals
<1>2. \/ UNCHANGED result
      \/ result' = [result EXCEPT ![w].error = "BadRequest"]
      \/ \E filters : result' = [result EXCEPT ![w].filters = filters]
  <2>1. CASE YuarelParseQuery(w)
    BY <2>1 DEF YuarelParseQuery
  <2>2. CASE SplitQueryParameter(w)
    BY <2>2, Zenon DEF SplitQueryParameter
  <2>. QED
    BY <2>1, <2>2
<1>3. DOMAIN result' = DOMAIN result
      /\ \A x \in Workers : DOMAIN result'[x] = DOMAIN result[x]
                           /\ result'[x].type = result[x].type
  BY <1>2 DEF Inv, Shapes, Fields
<1>. QED
  BY <1>1, <1>3, TypeKeeps

\* Route writes a type of the worker's own method.
LEMMA RouteKeeps ==
  ASSUME Inv, NEW w \in Workers, Route(w)
  PROVE  Inv'
<1>1. UNCHANGED request
  BY DEF Route
<1>2. CASE UNCHANGED result
  BY <1>1, <1>2 DEF Inv, Shapes, GetsOnlyRead
<1>3. ASSUME NEW first, NEW second, NEW third, NEW two, NEW routed,
             routed = RouteTo(request[w].method, first, second, third, two),
             result' = [result EXCEPT ![w].error = routed.error,
                                      ![w].type = routed.type,
                                      ![w].id = routed.id]
      PROVE  Inv'
  <2>1. result'[w].type = RouteTo(request[w].method, first, second, third, two).type
    BY <1>3 DEF Inv, Shapes, Fields
  <2>2. \A x \in Workers \ {w} : result'[x] = result[x]
    BY <1>3 DEF Inv, Shapes
  <2>3. Shapes'
    BY <1>1, <1>3 DEF Inv, Shapes, Fields
  <2>4. GetsOnlyRead'
    BY <1>1, <2>1, <2>2, RouteByMethod DEF Inv, GetsOnlyRead
  <2>. QED
    BY <2>3, <2>4 DEF Inv
<1>4. CASE ~ UNCHANGED result
  <2>1. PICK first \in Part(w, 1), second \in Part(w, 2), third \in Part(w, 3) :
          LET routed == RouteTo(request[w].method, first, second, third,
                                Len(parts[w]) = 2)
          IN result' = [result EXCEPT ![w].error = routed.error,
                                      ![w].type = routed.type,
                                      ![w].id = routed.id]
    BY <1>4, Zenon DEF Route
  <2>. QED
    BY <2>1, <1>3
<1>. QED
  BY <1>2, <1>4

\* Every step keeps the invariant.
LEMMA StepKeeps == Inv /\ [Next]_vars => Inv'
<1>. SUFFICES ASSUME Inv, [Next]_vars
              PROVE  Inv'
  OBVIOUS
<1>1. CASE UNCHANGED vars
  BY <1>1 DEF vars, locals, Inv, Shapes, GetsOnlyRead
<1>2. ASSUME NEW w \in Workers, ParseHttpRequest(w)
      PROVE  Inv'
  <2>1. CASE \E r \in Requests : Receive(w, r)
    BY <2>1, ReceiveKeeps
  <2>2. CASE UNCHANGED <<request, result>>
    BY <2>2 DEF Inv, Shapes, GetsOnlyRead
  <2>3. CASE Copy(w) \/ Terminate(w) \/ SplitQueryEnds(w)
    BY <2>2, <2>3 DEF Copy, Terminate, SplitQueryEnds, locals
  <2>4. CASE YuarelParse(w) \/ YuarelSplitPath(w)
    BY <2>2, <2>4 DEF YuarelParse, YuarelSplitPath
  <2>5. CASE YuarelParseQuery(w) \/ SplitQueryParameter(w)
    BY <2>5, QueryKeeps
  <2>6. CASE Route(w)
    BY <2>6, RouteKeeps
  <2>. QED
    BY <1>2, <2>1, <2>3, <2>4, <2>5, <2>6 DEF ParseHttpRequest
<1>. QED
  BY <1>1, <1>2 DEF Next

\* However workers overwrite each other's URL, a GET is not routed to an add or
\* an update and a POST not to a query.
THEOREM GetsOnlyReadCorrect == Spec => []GetsOnlyRead
<1>1. Init => Inv
  BY DEF Init, Inv, Shapes, GetsOnlyRead, NewParser, NoRequest, Fields,
         GetRequests, PostRequests
<1>. QED
  BY <1>1, StepKeeps, PTL DEF Spec, Inv
-----------------------------------------------------------------------------
(***************************************************************************)
(* The types.  The invariant adds to TypeOK what keeps each position in    *)
(* its array: how far the loop of a worker has come.                       *)
(***************************************************************************)
Places == {"copy", "yuarel_parse", "yuarel_split_path", "SplitQuery", "parameter", "Route",
           "done"}
Errors == {"Ok", "BadRequest", "NotFound"}
Types == GetRequests \cup PostRequests \cup {"None"}

ParametersTyped ==
  query_parameters \in [1 .. max_query_parameters_amount ->
                          [key : 0 .. PathSize, val : 0 .. PathSize]]

LocalsTyped ==
  /\ crashed \in BOOLEAN
  /\ pc \in [Workers -> Places]
  /\ request \in [Workers -> Requests \cup {NoRequest}]
  /\ query \in [Workers -> 0 .. PathSize]
  /\ amount \in [Workers -> 0 .. max_query_parameters_amount]
  /\ i \in [Workers -> 0 .. PathSize]
  /\ alone \in [Workers -> BOOLEAN]

PartsTyped == DOMAIN parts = Workers /\ \A w \in Workers : parts[w] \in Seq(2 .. PathSize)

ResultTyped(x) ==
  /\ DOMAIN x = Fields
  /\ x.error \in Errors
  /\ x.type \in Types
  /\ x.id \in 0 .. IdModulus - 1
  /\ DOMAIN x.filters \subseteq Keys

ResultsTyped == DOMAIN result = Workers /\ \A w \in Workers : ResultTyped(result[w])

Counter(w) ==
  /\ pc[w] # "done" => request[w] \in Requests
  /\ pc[w] = "copy" => i[w] \in 1 .. Len(Url(request[w])) + 1
  /\ pc[w] = "SplitQuery" => query[w] # 0
  /\ pc[w] = "parameter" => i[w] \in 1 .. amount[w] + 1

Counters == \A w \in Workers : Counter(w)

TypeInv ==
  /\ ParametersTyped /\ PathTyped
  /\ LocalsTyped /\ PartsTyped /\ ResultsTyped
  /\ Counters

\* The limits leave room for a first and a second position.
LEMMA Limits ==
  /\ PathSize \in Nat /\ 1 \in 1 .. PathSize /\ 2 \in 1 .. PathSize
  /\ max_query_parameters_amount \in Nat /\ 1 <= max_query_parameters_amount
  /\ max_query_parameters_amount < PathSize
  /\ IdModulus \in Nat /\ IdModulus - 1 \in 0 .. IdModulus - 1
  BY LimitsAssumption

\* NUL may be written anywhere.
LEMMA TerminatedTyped ==
  ASSUME PathTyped, NEW S
  PROVE  Terminated(S) \in [1 .. PathSize -> Byte] /\ Terminated(S)[PathSize] = Nul
  BY BytesAssumption, Limits DEF PathTyped, Terminated

\* The invariant holds at first.
LEMMA TypesBegin == Init => TypeInv
<1>. SUFFICES ASSUME Init
              PROVE  TypeInv
  OBVIOUS
<1>1. ParametersTyped
  BY Limits DEF Init, ParametersTyped
<1>2. PathTyped
  BY Limits, BytesAssumption DEF Init, PathTyped
<1>3. LocalsTyped
  <2>1. 0 \in 0 .. PathSize /\ 0 \in 0 .. max_query_parameters_amount
    BY Limits
  <2>2. pc \in [Workers -> Places]
    BY DEF Init, Places
  <2>3. request \in [Workers -> Requests \cup {NoRequest}]
    BY DEF Init
  <2>4. query \in [Workers -> 0 .. PathSize] /\ i \in [Workers -> 0 .. PathSize]
    BY <2>1 DEF Init
  <2>5. amount \in [Workers -> 0 .. max_query_parameters_amount]
    BY <2>1 DEF Init
  <2>6. alone \in [Workers -> BOOLEAN] /\ crashed \in BOOLEAN
    BY DEF Init
  <2>. QED
    BY <2>2, <2>3, <2>4, <2>5, <2>6 DEF LocalsTyped
<1>4. PartsTyped
  BY DEF Init, PartsTyped
<1>5. ResultTyped(NewParser)
  BY Limits DEF ResultTyped, NewParser, Fields, Errors, Types
<1>6. ResultsTyped
  BY <1>5 DEF Init, ResultsTyped
<1>7. Counters
  BY DEF Init, Counters, Counter
<1>. QED
  BY <1>1, <1>2, <1>3, <1>4, <1>6, <1>7 DEF TypeInv

\* A worker takes a request, of whose URL nothing is copied yet.
LEMMA ReceiveTyped ==
  ASSUME TypeInv, NEW w \in Workers, NEW r \in Requests, Receive(w, r)
  PROVE  TypeInv'
<1>1. Len(Url(r)) \in Nat
  BY UrlTyped
<1>2. UNCHANGED <<max_path, query_parameters>>
  BY DEF Receive, shared
<1>3. ParametersTyped' /\ PathTyped'
  BY <1>2 DEF TypeInv, ParametersTyped, PathTyped
<1>4. alone' \in [Workers -> BOOLEAN]
  <2>1. alone' = [x \in Workers |->
                   IF x = w THEN \A y \in Workers \ {w} : pc[y] = "done"
                   ELSE alone[x] /\ pc[x] = "done"]
    BY DEF Receive
  <2>. QED
    BY <2>1, Zenon
<1>5. LocalsTyped'
  <2>1. pc' \in [Workers -> Places]
    BY DEF Receive, TypeInv, LocalsTyped, Places
  <2>2. request' \in [Workers -> Requests \cup {NoRequest}]
    BY DEF Receive, TypeInv, LocalsTyped
  <2>3. query' \in [Workers -> 0 .. PathSize]
    BY Limits DEF Receive, TypeInv, LocalsTyped
  <2>4. amount' \in [Workers -> 0 .. max_query_parameters_amount]
    BY Limits DEF Receive, TypeInv, LocalsTyped
  <2>5. i' \in [Workers -> 0 .. PathSize]
    BY Limits DEF Receive, TypeInv, LocalsTyped
  <2>6. crashed' \in BOOLEAN
    BY DEF Receive, TypeInv, LocalsTyped
  <2>. QED
    BY <1>4, <2>1, <2>2, <2>3, <2>4, <2>5, <2>6 DEF LocalsTyped
<1>6. PartsTyped'
  <2>1. parts' = [parts EXCEPT ![w] = <<>>] /\ <<>> \in Seq(2 .. PathSize)
    BY EmptySeq DEF Receive
  <2>. QED
    BY <2>1 DEF TypeInv, PartsTyped
<1>7. ResultTyped(NewParser)
  BY Limits DEF ResultTyped, NewParser, Fields, Errors, Types
<1>8. ResultsTyped'
  BY <1>7 DEF Receive, TypeInv, ResultsTyped
<1>9. Counters'
  BY <1>1 DEF Receive, TypeInv, Counters, Counter, LocalsTyped
<1>. QED
  BY <1>3, <1>5, <1>6, <1>8, <1>9 DEF TypeInv

\* A byte of the URL is copied to its place before the last, if it has one.
LEMMA CopyTyped ==
  ASSUME TypeInv, NEW w \in Workers, Copy(w)
  PROVE  TypeInv'
<1>. DEFINE u == Url(request[w])
            L == Len(u)
<1>1. request[w] \in Requests /\ i[w] \in 1 .. L + 1 /\ i[w] <= L
  BY DEF Copy, TypeInv, Counters, Counter
<1>2. L \in Nat /\ u \in Seq(Byte)
  BY <1>1, UrlTyped
<1>3. UNCHANGED <<query_parameters, pc, request, query, parts, amount, result, alone>>
      /\ pc[w] = "copy"
  BY DEF Copy, locals
<1>4. ParametersTyped' /\ PartsTyped' /\ ResultsTyped'
  BY <1>3 DEF TypeInv, ParametersTyped, PartsTyped, ResultsTyped
<1>5. CASE ~(i[w] < PathSize)
  <2>1. crashed' = TRUE /\ UNCHANGED <<max_path, i>>
    BY <1>5 DEF Copy
  <2>2. PathTyped' /\ LocalsTyped' /\ Counters'
    BY <1>3, <2>1 DEF TypeInv, PathTyped, LocalsTyped, Counters, Counter
  <2>. QED
    BY <1>4, <2>2 DEF TypeInv
<1>6. CASE i[w] < PathSize
  <2>1. /\ max_path' = [max_path EXCEPT ![i[w]] = u[i[w]]]
        /\ i' = [i EXCEPT ![w] = @ + 1]
        /\ UNCHANGED crashed
    BY <1>6 DEF Copy
  <2>. HIDE DEF L, u
  <2>2. i[w] \in 1 .. L /\ i[w] \in 1 .. PathSize - 1 /\ i[w] + 1 \in 1 .. L + 1
        /\ i[w] + 1 \in 0 .. PathSize /\ i[w] # PathSize
    BY <1>1, <1>2, <1>6, Limits
  <2>3. u[i[w]] \in Byte
    BY <1>2, <2>2, ElementOfSeq DEF L
  <2>4. PathTyped'
    <3>1. max_path \in [1 .. PathSize -> Byte] /\ max_path[PathSize] = Nul
          /\ i[w] \in 1 .. PathSize /\ PathSize \in 1 .. PathSize
      BY <2>2, Limits DEF TypeInv, PathTyped
    <3>2. max_path' \in [1 .. PathSize -> Byte]
      BY <2>1, <2>3, <3>1
    <3>3. max_path'[PathSize] = Nul
      BY <2>1, <2>2, <3>1
    <3>. QED
      BY <3>2, <3>3 DEF PathTyped
  <2>5. LocalsTyped'
    BY <1>3, <2>1, <2>2 DEF TypeInv, LocalsTyped
  <2>6. i'[w] = i[w] + 1 /\ \A x \in Workers \ {w} : i'[x] = i[x]
    BY <2>1 DEF TypeInv, LocalsTyped
  <2>7. Counter(w)'
    BY <1>1, <1>3, <2>2, <2>6 DEF Counter, L, u
  <2>8. \A x \in Workers : Counter(x)'
    BY <1>3, <2>6, <2>7 DEF TypeInv, Counters, Counter
  <2>. QED
    BY <1>4, <2>4, <2>5, <2>8 DEF TypeInv, Counters
<1>. QED
  BY <1>5, <1>6

\* A step that moves only its own worker keeps the others in their loops.
LEMMA OthersCount ==
  ASSUME TypeInv, NEW w \in Workers, UNCHANGED request, Counter(w)',
         \A x \in Workers \ {w} :
           pc'[x] = pc[x] /\ i'[x] = i[x] /\ query'[x] = query[x] /\ amount'[x] = amount[x]
  PROVE  Counters'
<1>1. \A x \in Workers \ {w} : Counter(x)'
  BY DEF TypeInv, Counters, Counter
<1>. QED
  BY <1>1 DEF Counters

\* The copy of the URL ends.
LEMMA TerminateTyped ==
  ASSUME TypeInv, NEW w \in Workers, Terminate(w)
  PROVE  TypeInv'
<1>1. max_path' = Terminated({i[w]})
  BY DEF Terminate
<1>2. PathTyped'
  BY <1>1, TerminatedTyped DEF TypeInv, PathTyped
<1>3. UNCHANGED <<query_parameters, crashed, i, request, query, parts, amount, result, alone>>
      /\ pc[w] = "copy" /\ pc' = [pc EXCEPT ![w] = "yuarel_parse"]
  BY DEF Terminate, locals
<1>4. ParametersTyped' /\ PartsTyped' /\ ResultsTyped'
  BY <1>3 DEF TypeInv, ParametersTyped, PartsTyped, ResultsTyped
<1>5. pc' \in [Workers -> Places] /\ pc'[w] = "yuarel_parse"
      /\ \A x \in Workers \ {w} : pc'[x] = pc[x]
  BY <1>3 DEF TypeInv, LocalsTyped, Places
<1>6. LocalsTyped'
  BY <1>3, <1>5 DEF TypeInv, LocalsTyped
<1>7. Counter(w)'
  BY <1>3, <1>5 DEF TypeInv, Counters, Counter
<1>8. Counters'
  BY <1>3, <1>5, <1>7, OthersCount
<1>. QED
  BY <1>2, <1>4, <1>6, <1>8 DEF TypeInv

\* The question mark of a URL is before its end.
LEMMA YuarelParseTyped ==
  ASSUME TypeInv, NEW w \in Workers, YuarelParse(w)
  PROVE  TypeInv'
<1>. DEFINE marks == Found("?", 1, End(1))
            mark == IF marks = {} THEN 0 ELSE Min(marks)
            S == {mark} \cup (IF max_path[1] = "/" THEN {1} ELSE {})
            place == IF max_path[1] = "/" THEN "yuarel_split_path" ELSE "done"
            first == IF mark = 0 THEN 0 ELSE mark + 1
<1>1. /\ pc[w] = "yuarel_parse"
      /\ max_path' = Terminated(S)
      /\ query' = [query EXCEPT ![w] = first]
      /\ pc' = [pc EXCEPT ![w] = place]
      /\ UNCHANGED <<query_parameters, crashed, request, i, parts, amount, result, alone>>
  BY DEF YuarelParse
<1>2. first \in 0 .. PathSize
  <2>1. End(1) \in 1 .. PathSize
    BY EndLemma, Limits DEF TypeInv, IsEnd
  <2>2. marks \in SUBSET (1 .. PathSize - 1)
    BY <2>1, Limits DEF Found
  <2>3. mark \in 0 .. PathSize - 1
    <3>. HIDE DEF marks
    <3>1. CASE marks = {}
      BY <3>1, Limits
    <3>2. CASE marks # {}
      <4>1. marks \in SUBSET Nat
        BY <2>2
      <4>2. Min(marks) \in marks
        BY <3>2, <4>1, MinLemma
      <4>3. Min(marks) \in 1 .. PathSize - 1
        BY <2>2, <4>2, Zenon
      <4>4. \A p \in 1 .. PathSize - 1 : p \in 0 .. PathSize - 1
        BY Limits
      <4>. QED
        BY <3>2, <4>3, <4>4
    <3>. QED
      BY <3>1, <3>2
  <2>. HIDE DEF mark
  <2>. QED
    BY <2>3, Limits
<1>3. place \in {"yuarel_split_path", "done"}
  OBVIOUS
<1>. HIDE DEF S, place, first
<1>4. PathTyped'
  BY <1>1, TerminatedTyped DEF TypeInv, PathTyped
<1>5. ParametersTyped' /\ PartsTyped' /\ ResultsTyped'
  BY <1>1 DEF TypeInv, ParametersTyped, PartsTyped, ResultsTyped
<1>6. pc' \in [Workers -> Places] /\ pc'[w] = place /\ \A x \in Workers \ {w} : pc'[x] = pc[x]
  BY <1>1, <1>3 DEF TypeInv, LocalsTyped, Places
<1>7. query' \in [Workers -> 0 .. PathSize] /\ \A x \in Workers \ {w} : query'[x] = query[x]
  BY <1>1, <1>2 DEF TypeInv, LocalsTyped
<1>8. LocalsTyped'
  BY <1>1, <1>6, <1>7 DEF TypeInv, LocalsTyped
<1>9. Counter(w)'
  BY <1>1, <1>3, <1>6 DEF TypeInv, Counters, Counter
<1>10. Counters'
  BY <1>1, <1>6, <1>7, <1>9, OthersCount
<1>. QED
  BY <1>4, <1>5, <1>8, <1>10 DEF TypeInv

\* Each part begins after the first slash.
LEMMA YuarelSplitPathTyped ==
  ASSUME TypeInv, NEW w \in Workers, YuarelSplitPath(w)
  PROVE  TypeInv'
<1>. DEFINE path == 2 .. End(2) - 1
            slashes == {p \in path : max_path[p] = "/"}
            begins == {p \in path \ slashes : p = 2 \/ p - 1 \in slashes}
            ends == {p \in slashes : p > 2 /\ p - 1 \notin slashes}
            place == IF query[w] = 0 THEN "Route" ELSE "SplitQuery"
<1>1. /\ pc[w] = "yuarel_split_path"
      /\ parts' = [parts EXCEPT ![w] = Sorted(begins)]
      /\ max_path' = Terminated(ends)
      /\ pc' = [pc EXCEPT ![w] = place]
      /\ UNCHANGED <<query_parameters, crashed, request, i, query, amount, result, alone>>
  BY DEF YuarelSplitPath
<1>2. Sorted(begins) \in Seq(2 .. PathSize)
  <2>1. End(2) \in 2 .. PathSize
    BY EndLemma, Limits DEF TypeInv, IsEnd
  <2>2. begins \in SUBSET (2 .. PathSize)
    BY <2>1, Limits
  <2>3. begins \in SUBSET (1 .. PathSize)
    BY <2>2, Limits
  <2>. HIDE DEF begins
  <2>4. Sorted(begins) \in Seq(begins)
    BY <2>3, Limits, SortedLemma
  <2>. QED
    BY <2>2, <2>4, SeqMonotonic
<1>3. place \in {"Route", "SplitQuery"} /\ (place = "SplitQuery" => query[w] # 0)
  OBVIOUS
<1>. HIDE DEF ends, begins, place
<1>4. PathTyped'
  BY <1>1, TerminatedTyped DEF TypeInv, PathTyped
<1>5. ParametersTyped' /\ ResultsTyped'
  BY <1>1 DEF TypeInv, ParametersTyped, ResultsTyped
<1>6. PartsTyped'
  BY <1>1, <1>2 DEF TypeInv, PartsTyped
<1>7. pc' \in [Workers -> Places] /\ pc'[w] = place /\ \A x \in Workers \ {w} : pc'[x] = pc[x]
  BY <1>1, <1>3 DEF TypeInv, LocalsTyped, Places
<1>8. LocalsTyped'
  BY <1>1, <1>7 DEF TypeInv, LocalsTyped
<1>9. Counter(w)'
  BY <1>1, <1>3, <1>7 DEF TypeInv, Counters, Counter
<1>10. Counters'
  BY <1>1, <1>7, <1>9, OthersCount
<1>. QED
  BY <1>4, <1>5, <1>6, <1>8, <1>10 DEF TypeInv

\* What the call of yuarel_parse_query finds: the separators of the parameters
\* and the pointers to their keys and values.
Separators(first) == Sorted(Found("&", first, End(first)))
Found_n(first) == Min({Len(Separators(first)) + 1, max_query_parameters_amount})
KeyAt(first, k) == IF k = 1 THEN first ELSE Separators(first)[k - 1] + 1
NextAt(first, k) == IF k < Found_n(first) THEN Separators(first)[k] ELSE End(first)
EqualsAt(first, k) == Found("=", KeyAt(first, k), NextAt(first, k))
ValAt(first, k) == IF EqualsAt(first, k) = {} THEN 0 ELSE Min(EqualsAt(first, k)) + 1
Ends(first) ==
  {Separators(first)[k] : k \in 1 .. Found_n(first) - 1}
    \cup {ValAt(first, k) - 1 : k \in 1 .. Found_n(first)}

\* The step by these names.
LEMMA YuarelParseQueryIs ==
  ASSUME NEW w \in Workers, YuarelParseQuery(w)
  PROVE  /\ ~crashed /\ pc[w] = "SplitQuery"
         /\ UNCHANGED <<request, query, parts, alone>>
         /\ IF max_path[query[w]] = Nul
            THEN /\ \/ crashed' = TRUE /\ UNCHANGED <<pc, result>>
                    \/ /\ result' = [result EXCEPT ![w].error = "BadRequest"]
                       /\ pc' = [pc EXCEPT ![w] = "done"]
                       /\ UNCHANGED crashed
                 /\ UNCHANGED <<max_path, query_parameters, i, amount>>
            ELSE /\ max_path' = Terminated(Ends(query[w]))
                 /\ query_parameters' = [k \in DOMAIN query_parameters |->
                      IF k <= Found_n(query[w])
                      THEN [key |-> KeyAt(query[w], k), val |-> ValAt(query[w], k)]
                      ELSE query_parameters[k]]
                 /\ amount' = [amount EXCEPT ![w] = Found_n(query[w])]
                 /\ i' = [i EXCEPT ![w] = 1]
                 /\ pc' = [pc EXCEPT ![w] = "parameter"]
                 /\ UNCHANGED <<crashed, result>>
<1>1. ~crashed /\ pc[w] = "SplitQuery" /\ UNCHANGED <<request, query, parts, alone>>
  BY DEF YuarelParseQuery
<1>2. CASE max_path[query[w]] = Nul
  BY <1>1, <1>2 DEF YuarelParseQuery, shared
<1>3. CASE max_path[query[w]] # Nul
  BY <1>1, <1>3, Zenon
     DEF YuarelParseQuery, Separators, Found_n, KeyAt, NextAt, EqualsAt, ValAt, Ends
<1>. QED
  BY <1>1, <1>2, <1>3

\* The keys and values of a query are in max_path, as many as there is room for.
LEMMA ParametersInPath ==
  ASSUME PathTyped, NEW first \in 1 .. PathSize
  PROVE  /\ Found_n(first) \in 1 .. max_query_parameters_amount
         /\ Found_n(first) <= Len(Separators(first)) + 1
         /\ \A k \in 1 .. Found_n(first) : /\ KeyAt(first, k) \in 0 .. PathSize
                                           /\ ValAt(first, k) \in 0 .. PathSize
<1>. DEFINE e == End(first)
            S == Found("&", first, e)
            s == Separators(first)
            n == Found_n(first)
<1>1. e \in first .. PathSize /\ PathSize \in Nat
  BY EndLemma, Limits DEF IsEnd
<1>2. S \in SUBSET (first .. e - 1)
  BY DEF Found
<1>3. S \in SUBSET (1 .. PathSize)
  <2>. HIDE DEF e, S
  <2>. QED
    BY <1>1, <1>2
<1>4. s \in Seq(S) /\ Len(s) \in Nat
  <2>1. s = Sorted(S)
    BY DEF Separators
  <2>2. PathSize \in Nat
    BY <1>1
  <2>. HIDE DEF s, S
  <2>. QED
    BY <1>3, <2>1, <2>2, SortedLemma
<1>5. \A k \in 1 .. Len(s) : s[k] \in first .. e - 1
  <2>. HIDE DEF s, S, e
  <2>. QED
    BY <1>2, <1>4, ElementOfSeq
<1>6. n \in 1 .. max_query_parameters_amount /\ n <= Len(s) + 1
  <2>. DEFINE T == {Len(s) + 1, max_query_parameters_amount}
  <2>1. n = Min(T)
    BY DEF Found_n
  <2>. HIDE DEF s, n
  <2>2. T \in SUBSET Nat /\ T # {} /\ \A m \in T : 1 <= m
    BY <1>4, Limits
  <2>3. Min(T) \in T /\ \A m \in T : Min(T) <= m
    BY <2>2, MinLemma
  <2>. DEFINE x == Min(T)
  <2>4. x \in T /\ x <= Len(s) + 1 /\ x <= max_query_parameters_amount
    BY <2>3
  <2>5. x \in Nat /\ 1 <= x
    BY <2>2, <2>4
  <2>. HIDE DEF x
  <2>6. x \in 1 .. max_query_parameters_amount
    BY <2>4, <2>5, Limits
  <2>. QED
    BY <2>1, <2>4, <2>6 DEF x
<1>7. ASSUME NEW k \in 1 .. n
      PROVE  /\ KeyAt(first, k) \in 1 .. PathSize /\ NextAt(first, k) \in 1 .. PathSize
  <2>. HIDE DEF s, n, e
  <2>1. k = 1 \/ k - 1 \in 1 .. Len(s)
    BY <1>4, <1>6, Limits
  <2>2. k < n => k \in 1 .. Len(s)
    BY <1>4, <1>6, Limits
  <2>3. \A p \in first .. e - 1 : p + 1 \in 1 .. PathSize /\ p \in 1 .. PathSize
    BY <1>1
  <2>4. KeyAt(first, k) = IF k = 1 THEN first ELSE s[k - 1] + 1
    BY DEF KeyAt, s
  <2>5. NextAt(first, k) = IF k < n THEN s[k] ELSE e
    BY DEF NextAt, s, n, e
  <2>6. e \in 1 .. PathSize
    BY <1>1
  <2>. QED
    BY <1>5, <2>1, <2>2, <2>3, <2>4, <2>5, <2>6
<1>8. ASSUME NEW k \in 1 .. n
      PROVE  ValAt(first, k) \in 0 .. PathSize
  <2>. DEFINE E == EqualsAt(first, k)
  <2>. HIDE DEF n
  <2>1. E \in SUBSET (KeyAt(first, k) .. NextAt(first, k) - 1)
    BY DEF EqualsAt, Found
  <2>2. ValAt(first, k) = IF E = {} THEN 0 ELSE Min(E) + 1
    BY DEF ValAt
  <2>3. \A p \in KeyAt(first, k) .. NextAt(first, k) - 1 : p \in Nat /\ p + 1 \in 0 .. PathSize
    BY <1>1, <1>7
  <2>4. 0 \in 0 .. PathSize
    BY <1>1
  <2>. HIDE DEF E
  <2>5. E # {} => Min(E) \in E
    BY <2>1, <2>3, MinLemma
  <2>. QED
    BY <2>1, <2>2, <2>3, <2>4, <2>5
<1>. QED
  BY <1>1, <1>6, <1>7, <1>8

\* The pointers to the parameters of a query stay in max_path.
LEMMA YuarelParseQueryTyped ==
  ASSUME TypeInv, NEW w \in Workers, YuarelParseQuery(w)
  PROVE  TypeInv'
<1>. DEFINE first == query[w]
            n == Found_n(first)
<1>1. pc[w] = "SplitQuery" /\ UNCHANGED <<request, query, parts, alone>>
  BY YuarelParseQueryIs
<1>2. first \in 1 .. PathSize /\ request[w] \in Requests
  BY <1>1, Limits DEF TypeInv, LocalsTyped, Counters, Counter
<1>3. PartsTyped'
  BY <1>1 DEF TypeInv, PartsTyped
<1>4. CASE max_path[first] = Nul
  <2>1. UNCHANGED <<max_path, query_parameters, i, amount>>
    BY <1>4, YuarelParseQueryIs
  <2>2. \/ crashed' = TRUE /\ UNCHANGED <<pc, result>>
        \/ /\ result' = [result EXCEPT ![w].error = "BadRequest"]
           /\ pc' = [pc EXCEPT ![w] = "done"]
           /\ UNCHANGED crashed
    BY <1>4, YuarelParseQueryIs
  <2>3. PathTyped' /\ ParametersTyped'
    BY <2>1 DEF TypeInv, PathTyped, ParametersTyped
  <2>4. ResultsTyped'
    BY <2>2 DEF TypeInv, ResultsTyped, ResultTyped, Fields, Errors
  <2>5. pc' \in [Workers -> Places] /\ crashed' \in BOOLEAN
    BY <2>2 DEF TypeInv, LocalsTyped, Places
  <2>6. LocalsTyped'
    BY <1>1, <2>1, <2>5 DEF TypeInv, LocalsTyped
  <2>7. \A x \in Workers : pc'[x] = pc[x] \/ pc'[x] = "done"
    BY <2>2 DEF TypeInv, LocalsTyped
  <2>8. Counters'
    BY <1>1, <2>1, <2>7 DEF TypeInv, Counters, Counter
  <2>. QED
    BY <1>3, <2>3, <2>4, <2>6, <2>8 DEF TypeInv
<1>5. CASE max_path[first] # Nul
  <2>1. /\ max_path' = Terminated(Ends(first))
        /\ query_parameters' = [k \in DOMAIN query_parameters |->
                      IF k <= n THEN [key |-> KeyAt(first, k), val |-> ValAt(first, k)]
                      ELSE query_parameters[k]]
        /\ amount' = [amount EXCEPT ![w] = n]
        /\ i' = [i EXCEPT ![w] = 1]
        /\ pc' = [pc EXCEPT ![w] = "parameter"]
        /\ UNCHANGED <<crashed, result>>
    BY <1>5, YuarelParseQueryIs
  <2>2. /\ n \in 1 .. max_query_parameters_amount
        /\ \A k \in 1 .. n : KeyAt(first, k) \in 0 .. PathSize /\ ValAt(first, k) \in 0 .. PathSize
    BY <1>2, ParametersInPath DEF TypeInv
  <2>. HIDE DEF n, first
  <2>3. PathTyped'
    BY <2>1, TerminatedTyped DEF TypeInv, PathTyped
  <2>4. ParametersTyped'
    <3>1. DOMAIN query_parameters = 1 .. max_query_parameters_amount
      BY DEF TypeInv, ParametersTyped
    <3>2. ASSUME NEW k \in 1 .. max_query_parameters_amount
          PROVE  query_parameters'[k] \in [key : 0 .. PathSize, val : 0 .. PathSize]
      <4>1. CASE k <= n
        <5>1. k \in 1 .. n
          BY <2>2, <4>1, Limits
        <5>2. query_parameters'[k] = [key |-> KeyAt(first, k), val |-> ValAt(first, k)]
          BY <2>1, <3>1, <4>1
        <5>. QED
          BY <2>2, <5>1, <5>2
      <4>2. CASE ~(k <= n)
        BY <2>1, <3>1, <4>2 DEF TypeInv, ParametersTyped
      <4>. QED
        BY <4>1, <4>2
    <3>3. query_parameters' = [k \in 1 .. max_query_parameters_amount |-> query_parameters'[k]]
      BY <2>1, <3>1
    <3>. QED
      BY <3>2, <3>3, Zenon DEF ParametersTyped
  <2>5. ResultsTyped'
    BY <2>1 DEF TypeInv, ResultsTyped
  <2>6. pc' \in [Workers -> Places] /\ pc'[w] = "parameter"
        /\ \A x \in Workers \ {w} : pc'[x] = pc[x]
    BY <2>1 DEF TypeInv, LocalsTyped, Places
  <2>7. amount' \in [Workers -> 0 .. max_query_parameters_amount] /\ amount'[w] = n
        /\ \A x \in Workers \ {w} : amount'[x] = amount[x]
    BY <2>1, <2>2, Limits DEF TypeInv, LocalsTyped
  <2>8. i' \in [Workers -> 0 .. PathSize] /\ i'[w] = 1
        /\ \A x \in Workers \ {w} : i'[x] = i[x]
    BY <2>1, Limits DEF TypeInv, LocalsTyped
  <2>9. LocalsTyped'
    BY <1>1, <2>1, <2>6, <2>7, <2>8 DEF TypeInv, LocalsTyped
  <2>10. Counter(w)'
    BY <1>1, <1>2, <2>2, <2>6, <2>7, <2>8 DEF Counter
  <2>11. Counters'
    BY <1>1, <2>6, <2>7, <2>8, <2>10, OthersCount
  <2>. QED
    BY <1>3, <2>3, <2>4, <2>5, <2>9, <2>11 DEF TypeInv
<1>. QED
  BY <1>4, <1>5

\* The texts of the k-th parameter, and the name of its key.
KeyText(k) == IF query_parameters[k].key = 0 THEN <<>> ELSE Text(query_parameters[k].key)
KeyName(k) == IF Len(KeyText(k)) = 1 THEN KeyText(k)[1] ELSE Nul
ValText(k) == Text(query_parameters[k].val)
NoPointer(k) ==
  query_parameters[k].key = 0 \/ (KeyName(k) \in Keys /\ query_parameters[k].val = 0)

\* The step by these names.
LEMMA SplitQueryParameterIs ==
  ASSUME NEW w \in Workers, SplitQueryParameter(w)
  PROVE  LET k == i[w]
         IN /\ ~crashed /\ pc[w] = "parameter"
            /\ k <= amount[w] /\ k <= max_query_parameters_amount
            /\ UNCHANGED <<max_path, query_parameters, request, query, parts, amount, alone>>
            /\ \/ NoPointer(k) /\ crashed' = TRUE /\ UNCHANGED <<pc, i, result>>
               \/ /\ ~NoPointer(k) /\ KeyName(k) \notin Keys
                  /\ i' = [i EXCEPT ![w] = @ + 1]
                  /\ UNCHANGED <<crashed, pc, result>>
               \/ /\ ~NoPointer(k) /\ KeyName(k) \in Keys /\ Accepted(KeyName(k), ValText(k))
                  /\ result' = [result EXCEPT ![w].filters =
                       WithFilter(@, KeyName(k), Value(KeyName(k), ValText(k)))]
                  /\ i' = [i EXCEPT ![w] = @ + 1]
                  /\ UNCHANGED <<crashed, pc>>
               \/ /\ ~NoPointer(k) /\ KeyName(k) \in Keys /\ ~Accepted(KeyName(k), ValText(k))
                  /\ result' = [result EXCEPT ![w].error = "BadRequest"]
                  /\ pc' = [pc EXCEPT ![w] = "done"]
                  /\ UNCHANGED <<crashed, i>>
<1>. DEFINE k == i[w]
<1>1. /\ ~crashed /\ pc[w] = "parameter"
      /\ k <= amount[w] /\ k <= max_query_parameters_amount
      /\ UNCHANGED <<max_path, query_parameters, request, query, parts, amount, alone>>
  BY DEF SplitQueryParameter, InQuery, shared, locals
<1>2. IF NoPointer(k)
      THEN crashed' = TRUE /\ UNCHANGED <<pc, i, result>>
      ELSE /\ IF KeyName(k) \notin Keys
              THEN i' = [i EXCEPT ![w] = @ + 1] /\ UNCHANGED <<pc, result>>
              ELSE IF Accepted(KeyName(k), ValText(k))
              THEN /\ result' = [result EXCEPT ![w].filters =
                       WithFilter(@, KeyName(k), Value(KeyName(k), ValText(k)))]
                   /\ i' = [i EXCEPT ![w] = @ + 1]
                   /\ UNCHANGED pc
              ELSE /\ result' = [result EXCEPT ![w].error = "BadRequest"]
                   /\ pc' = [pc EXCEPT ![w] = "done"]
                   /\ UNCHANGED i
           /\ UNCHANGED crashed
  BY Zenon DEF SplitQueryParameter, KeyText, KeyName, ValText, NoPointer
<1>. HIDE DEF k
<1>3. \/ NoPointer(k) /\ crashed' = TRUE /\ UNCHANGED <<pc, i, result>>
      \/ /\ ~NoPointer(k) /\ KeyName(k) \notin Keys
         /\ i' = [i EXCEPT ![w] = @ + 1]
         /\ UNCHANGED <<crashed, pc, result>>
      \/ /\ ~NoPointer(k) /\ KeyName(k) \in Keys /\ Accepted(KeyName(k), ValText(k))
         /\ result' = [result EXCEPT ![w].filters =
              WithFilter(@, KeyName(k), Value(KeyName(k), ValText(k)))]
         /\ i' = [i EXCEPT ![w] = @ + 1]
         /\ UNCHANGED <<crashed, pc>>
      \/ /\ ~NoPointer(k) /\ KeyName(k) \in Keys /\ ~Accepted(KeyName(k), ValText(k))
         /\ result' = [result EXCEPT ![w].error = "BadRequest"]
         /\ pc' = [pc EXCEPT ![w] = "done"]
         /\ UNCHANGED <<crashed, i>>
  BY <1>2
<1>. QED
  BY <1>1, <1>3, Zenon DEF k

\* An iteration adds the filter of a known key, counts or ends.
LEMMA SplitQueryParameterTyped ==
  ASSUME TypeInv, NEW w \in Workers, SplitQueryParameter(w)
  PROVE  TypeInv'
<1>. DEFINE k == i[w]
            name == KeyName(k)
<1>1. /\ ~crashed /\ pc[w] = "parameter" /\ k <= amount[w] /\ k <= max_query_parameters_amount
      /\ UNCHANGED <<max_path, query_parameters, request, query, parts, amount, alone>>
  BY SplitQueryParameterIs
<1>2. /\ \/ UNCHANGED result
         \/ result' = [result EXCEPT ![w].error = "BadRequest"]
         \/ \E v : name \in Keys
                   /\ result' = [result EXCEPT ![w].filters = WithFilter(@, name, v)]
      /\ \/ UNCHANGED i
         \/ i' = [i EXCEPT ![w] = @ + 1] /\ UNCHANGED pc
      /\ UNCHANGED pc \/ pc' = [pc EXCEPT ![w] = "done"]
      /\ crashed' = TRUE \/ UNCHANGED crashed
  BY SplitQueryParameterIs
<1>3. k \in 1 .. amount[w] + 1 /\ amount[w] \in 0 .. max_query_parameters_amount
      /\ request[w] \in Requests
  BY <1>1 DEF TypeInv, LocalsTyped, Counters, Counter
<1>. HIDE DEF name
<1>4. k + 1 \in 1 .. amount[w] + 1 /\ k + 1 \in 0 .. PathSize
  BY <1>1, <1>3, Limits
<1>5. PathTyped' /\ ParametersTyped' /\ PartsTyped'
  BY <1>1 DEF TypeInv, PathTyped, ParametersTyped, PartsTyped
<1>6. ResultsTyped'
  <2>1. CASE UNCHANGED result
    BY <2>1 DEF TypeInv, ResultsTyped
  <2>2. CASE result' = [result EXCEPT ![w].error = "BadRequest"]
    BY <2>2 DEF TypeInv, ResultsTyped, ResultTyped, Fields, Errors
  <2>3. ASSUME NEW v, name \in Keys,
               result' = [result EXCEPT ![w].filters = WithFilter(@, name, v)]
        PROVE  ResultsTyped'
    <3>. DEFINE new == WithFilter(result[w].filters, name, v)
    <3>1. DOMAIN new \subseteq Keys
      BY <2>3 DEF WithFilter, TypeInv, ResultsTyped, ResultTyped
    <3>2. result' = [result EXCEPT ![w].filters = new]
      BY <2>3
    <3>. HIDE DEF new
    <3>. QED
      BY <3>1, <3>2 DEF TypeInv, ResultsTyped, ResultTyped, Fields
  <2>. QED
    BY <1>2, <2>1, <2>2, <2>3
<1>7. pc' \in [Workers -> Places] /\ \A x \in Workers \ {w} : pc'[x] = pc[x]
  BY <1>2 DEF TypeInv, LocalsTyped, Places
<1>8. i' \in [Workers -> 0 .. PathSize] /\ \A x \in Workers \ {w} : i'[x] = i[x]
  BY <1>2, <1>4 DEF TypeInv, LocalsTyped
<1>9. LocalsTyped'
  BY <1>1, <1>2, <1>7, <1>8 DEF TypeInv, LocalsTyped
<1>10. Counter(w)'
  <2>1. i'[w] \in 1 .. amount[w] + 1
    BY <1>2, <1>3, <1>4 DEF TypeInv, LocalsTyped
  <2>2. pc'[w] = "parameter" \/ pc'[w] = "done"
    BY <1>1, <1>2 DEF TypeInv, LocalsTyped
  <2>. QED
    BY <1>1, <1>3, <2>1, <2>2 DEF Counter
<1>11. Counters'
  BY <1>1, <1>7, <1>8, <1>10, OthersCount
<1>. QED
  BY <1>5, <1>6, <1>9, <1>11 DEF TypeInv

\* The loop ends.
LEMMA SplitQueryEndsTyped ==
  ASSUME TypeInv, NEW w \in Workers, SplitQueryEnds(w)
  PROVE  TypeInv'
<1>1. /\ UNCHANGED <<max_path, query_parameters, crashed, i, request, query, parts, amount,
                     result, alone>>
      /\ pc[w] = "parameter" /\ pc' = [pc EXCEPT ![w] = "Route"]
  BY DEF SplitQueryEnds, shared, locals
<1>2. PathTyped' /\ ParametersTyped' /\ PartsTyped' /\ ResultsTyped'
  BY <1>1 DEF TypeInv, PathTyped, ParametersTyped, PartsTyped, ResultsTyped
<1>3. pc' \in [Workers -> Places] /\ pc'[w] = "Route" /\ \A x \in Workers \ {w} : pc'[x] = pc[x]
  BY <1>1 DEF TypeInv, LocalsTyped, Places
<1>4. LocalsTyped'
  BY <1>1, <1>3 DEF TypeInv, LocalsTyped
<1>5. Counter(w)'
  BY <1>1, <1>3 DEF TypeInv, Counters, Counter
<1>6. Counters'
  BY <1>1, <1>3, <1>5, OthersCount
<1>. QED
  BY <1>2, <1>4, <1>6 DEF TypeInv

\* Whatever texts the parts turn out to be, Route finds a type and an id.
LEMMA RouteToTyped ==
  ASSUME NEW method, NEW first, NEW second \in Seq(Byte), NEW third, NEW two
  PROVE  LET routed == RouteTo(method, first, second, third, two)
         IN /\ DOMAIN routed = {"error", "type", "id"}
            /\ routed.error \in Errors /\ routed.type \in Types
            /\ routed.id \in 0 .. IdModulus - 1
<1>. DEFINE Fine(x) == /\ DOMAIN x = {"error", "type", "id"}
                       /\ x.error \in Errors /\ x.type \in Types
                       /\ x.id \in 0 .. IdModulus - 1
<1>1. ASSUME NEW type \in Types, NEW id \in 0 .. IdModulus - 1
      PROVE  Fine(Routed(type, id))
  BY DEF Routed, Errors
<1>2. /\ GetTypes(first, third, two) \in Types /\ "None" \in Types
      /\ AddTypes(first) \in Types /\ UpdateTypes(first) \in Types
  BY DEF GetTypes, AddTypes, UpdateTypes, Types, GetRequests, PostRequests
<1>3. IsNumber(second) => ToId(second) \in 0 .. IdModulus - 1
  BY NumberLemma
<1>4. IdModulus - 1 \in 0 .. IdModulus - 1
  BY Limits
<1>5. Fine([error |-> "NotFound", type |-> "None", id |-> IdModulus - 1])
  BY <1>2, <1>4 DEF Errors
<1>. HIDE DEF Fine
<1>6. Fine(RouteGet(first, second, third, two))
  BY <1>1, <1>2, <1>3, <1>5, Zenon DEF RouteGet
<1>7. Fine(RoutePost(first, second))
  BY <1>1, <1>2, <1>3, <1>4, Zenon DEF RoutePost
<1>8. Fine(Routed("None", IdModulus - 1))
  BY <1>1, <1>2, <1>4
<1>9. Fine(RouteTo(method, first, second, third, two))
  BY <1>6, <1>7, <1>8 DEF RouteTo
<1>. QED
  BY <1>9 DEF Fine

\* What Route finds for some texts of its parts.
RouteAnswer(w, first, second, third) ==
  \E routed :
    /\ routed = RouteTo(request[w].method, first, second, third, Len(parts[w]) = 2)
    /\ result' = [result EXCEPT ![w].error = routed.error,
                                ![w].type = routed.type,
                                ![w].id = routed.id]

RouteAnswers(w) ==
  \E first \in Part(w, 1), second \in Part(w, 2), third \in Part(w, 3) :
    RouteAnswer(w, first, second, third)

\* Route follows a stray pointer, or answers.
LEMMA RouteIs ==
  ASSUME NEW w \in Workers, Route(w)
  PROVE  /\ ~crashed /\ pc[w] = "Route"
         /\ UNCHANGED <<max_path, query_parameters, request, i, query, amount, alone>>
         /\ \/ ~HasParts(w) /\ crashed' = TRUE /\ UNCHANGED <<pc, parts, result>>
            \/ /\ pc' = [pc EXCEPT ![w] = "done"] /\ UNCHANGED crashed
               /\ parts' = [parts EXCEPT ![w] = <<>>]
               /\ RouteAnswers(w)
<1>1. /\ ~crashed /\ pc[w] = "Route"
      /\ UNCHANGED <<max_path, query_parameters, request, i, query, amount, alone>>
  BY DEF Route, shared
<1>2. CASE ~HasParts(w) /\ crashed' = TRUE /\ UNCHANGED <<pc, parts, result>>
  BY <1>1, <1>2
<1>3. CASE ~(~HasParts(w) /\ crashed' = TRUE /\ UNCHANGED <<pc, parts, result>>)
  <2>1. /\ pc' = [pc EXCEPT ![w] = "done"] /\ UNCHANGED crashed
        /\ parts' = [parts EXCEPT ![w] = <<>>]
    BY <1>3 DEF Route
  <2>2. PICK first \in Part(w, 1), second \in Part(w, 2), third \in Part(w, 3) :
          LET routed == RouteTo(request[w].method, first, second, third,
                                Len(parts[w]) = 2)
          IN result' = [result EXCEPT ![w].error = routed.error,
                                      ![w].type = routed.type,
                                      ![w].id = routed.id]
    BY <1>3, Zenon DEF Route
  <2>. DEFINE x == RouteTo(request[w].method, first, second, third, Len(parts[w]) = 2)
  <2>3. result' = [result EXCEPT ![w].error = x.error, ![w].type = x.type, ![w].id = x.id]
    BY <2>2
  <2>4. RouteAnswer(w, first, second, third)
    BY <2>3 DEF RouteAnswer
  <2>5. RouteAnswers(w)
    BY <2>4, Zenon DEF RouteAnswers
  <2>. QED
    BY <1>1, <2>1, <2>5
<1>. QED
  BY <1>2, <1>3

\* The texts Route may read.
LEMMA PartTyped ==
  ASSUME TypeInv, NEW w \in Workers, NEW k \in Nat \ {0}, NEW text \in Part(w, k)
  PROVE  text \in Seq(Byte)
<1>1. PathTyped /\ DOMAIN max_path = 1 .. PathSize /\ parts[w] \in Seq(2 .. PathSize)
  BY DEF TypeInv, PathTyped, PartsTyped
<1>2. k <= Len(parts[w]) => parts[w][k] \in 1 .. PathSize
  <2>. DEFINE s == parts[w]
  <2>1. s \in Seq(2 .. PathSize) /\ (k <= Len(s) => k \in 1 .. Len(s))
    BY <1>1
  <2>. HIDE DEF s
  <2>2. k <= Len(s) => s[k] \in 2 .. PathSize
    BY <2>1, ElementOfSeq
  <2>. QED
    BY <2>2, Limits DEF s
<1>. QED
  BY <1>1, <1>2, TextTyped DEF Part

\* Route answers with a type and an id.
LEMMA RouteTyped ==
  ASSUME TypeInv, NEW w \in Workers, Route(w)
  PROVE  TypeInv'
<1>1. /\ pc[w] = "Route"
      /\ UNCHANGED <<max_path, query_parameters, request, i, query, amount, alone>>
  BY RouteIs
<1>2. /\ UNCHANGED pc \/ pc' = [pc EXCEPT ![w] = "done"]
      /\ UNCHANGED parts \/ parts' = [parts EXCEPT ![w] = <<>>]
      /\ UNCHANGED crashed \/ crashed' = TRUE
  BY RouteIs, Zenon
<1>3. PathTyped' /\ ParametersTyped'
  BY <1>1 DEF TypeInv, PathTyped, ParametersTyped
<1>4. PartsTyped'
  <2>1. <<>> \in Seq(2 .. PathSize)
    BY EmptySeq
  <2>. QED
    BY <1>2, <2>1 DEF TypeInv, PartsTyped
<1>5. ResultsTyped'
  <2>1. CASE UNCHANGED result
    BY <2>1 DEF TypeInv, ResultsTyped
  <2>2. CASE ~ UNCHANGED result
    <3>1. PICK first \in Part(w, 1), second \in Part(w, 2), third \in Part(w, 3) :
            RouteAnswer(w, first, second, third)
      BY <2>2, RouteIs, Zenon DEF RouteAnswers
    <3>2. PICK routed :
            /\ routed = RouteTo(request[w].method, first, second, third, Len(parts[w]) = 2)
            /\ result' = [result EXCEPT ![w].error = routed.error,
                                        ![w].type = routed.type,
                                        ![w].id = routed.id]
      BY <3>1 DEF RouteAnswer
    <3>3. second \in Seq(Byte)
      BY PartTyped
    <3>4. /\ routed.error \in Errors /\ routed.type \in Types
          /\ routed.id \in 0 .. IdModulus - 1
      BY <3>2, <3>3, RouteToTyped
    <3>5. DOMAIN result = Workers /\ DOMAIN result[w] = Fields
      BY DEF TypeInv, ResultsTyped, ResultTyped
    <3>6. \A x \in Workers \ {w} : ResultTyped(result'[x])
      BY <3>2 DEF TypeInv, ResultsTyped
    <3>7. /\ DOMAIN result'[w] = Fields /\ result'[w].error = routed.error
          /\ result'[w].type = routed.type /\ result'[w].id = routed.id
          /\ result'[w].filters = result[w].filters /\ DOMAIN result' = Workers
      BY <3>2, <3>5 DEF Fields
    <3>8. ResultTyped(result'[w])
      BY <3>4, <3>7 DEF TypeInv, ResultsTyped, ResultTyped
    <3>. QED
      BY <3>6, <3>7, <3>8 DEF ResultsTyped
  <2>. QED
    BY <2>1, <2>2
<1>6. pc' \in [Workers -> Places] /\ \A x \in Workers \ {w} : pc'[x] = pc[x]
  BY <1>2 DEF TypeInv, LocalsTyped, Places
<1>7. LocalsTyped'
  BY <1>1, <1>2, <1>6 DEF TypeInv, LocalsTyped
<1>8. Counter(w)'
  <2>1. pc'[w] = "Route" \/ pc'[w] = "done"
    BY <1>1, <1>2 DEF TypeInv, LocalsTyped
  <2>. QED
    BY <1>1, <2>1 DEF TypeInv, Counters, Counter
<1>9. Counters'
  BY <1>1, <1>6, <1>8, OthersCount
<1>. QED
  BY <1>3, <1>4, <1>5, <1>7, <1>9 DEF TypeInv

\* Every step keeps the types.
LEMMA TypesKeep == TypeInv /\ [Next]_vars => TypeInv'
<1>. SUFFICES ASSUME TypeInv, [Next]_vars
              PROVE  TypeInv'
  OBVIOUS
<1>1. CASE UNCHANGED vars
  BY <1>1 DEF vars, shared, locals, TypeInv, ParametersTyped, PathTyped, LocalsTyped,
              PartsTyped, ResultsTyped, Counters, Counter
<1>2. ASSUME NEW w \in Workers, ParseHttpRequest(w)
      PROVE  TypeInv'
  BY <1>2, ReceiveTyped, CopyTyped, TerminateTyped, YuarelParseTyped, YuarelSplitPathTyped,
     YuarelParseQueryTyped, SplitQueryParameterTyped, SplitQueryEndsTyped, RouteTyped
     DEF ParseHttpRequest
<1>. QED
  BY <1>1, <1>2 DEF Next

\* The invariant is more than the type invariant.
LEMMA TypesAre == TypeInv => TypeOK
  BY DEF TypeInv, TypeOK, ParametersTyped, PathTyped, LocalsTyped, Places, PartsTyped,
         ResultsTyped, ResultTyped, Errors, Types

\* Positions lie in max_path, which ends in NUL, ids in 32 bits, and the fields
\* of each parser hold values of their kind, whatever the requests say.
THEOREM TypeCorrect == Spec => []TypeOK
<1>. QED
  BY TypesBegin, TypesKeep, TypesAre, PTL DEF Spec

-----------------------------------------------------------------------------
(***************************************************************************)
(* A request that no other overlaps.  The invariant says how far its       *)
(* worker has come: what of the URL is in max_path, where its parts and    *)
(* parameters are, and which filters are set.                              *)
(***************************************************************************)
Copied(w) == \A p \in 1 .. i[w] - 1 : max_path[p] = Url(request[w])[p]

\* After the copy.
UrlWhole(r) ==
  /\ \A p \in 1 .. Len(Url(r)) : max_path[p] = Url(r)[p]
  /\ max_path[Len(Url(r)) + 1] = Nul

\* After yuarel_parse: the first slash and the question mark are NUL.
UrlMarked(r) ==
  /\ \A p \in 1 .. Len(Url(r)) :
       max_path[p] = IF p \in {1, Mark(r)} THEN Nul ELSE Url(r)[p]
  /\ max_path[Len(Url(r)) + 1] = Nul

\* After yuarel_split_path: every part is a text of its own.
PartsFound(w) ==
  /\ Len(parts[w]) = Len(request[w].path)
  /\ \A k \in 1 .. Len(parts[w]) : TextAt(parts[w][k], request[w].path[k])

\* The query is still as it was copied, behind the parts.
QueryCopied(r) ==
  /\ \A p \in Mark(r) + 1 .. Len(Url(r)) : max_path[p] = Url(r)[p]
  /\ max_path[Len(Url(r)) + 1] = Nul

PartsBefore(w) ==
  \A k \in 1 .. Len(parts[w]) :
    parts[w][k] + Len(request[w].path[k]) <= Mark(request[w])

QueryAhead(w) ==
  IF Len(request[w].query) = 0 THEN query[w] = 0 ELSE query[w] = Mark(request[w]) + 1

\* After yuarel_parse_query: every key and value is a text of its own.
ParameterFound(q, k) ==
  /\ TextAt(query_parameters[k].key, <<q[k].key>>)
  /\ TextAt(query_parameters[k].val, q[k].val)

ParametersFound(w) ==
  LET q == request[w].query
  IN /\ amount[w] = Len(q)
     /\ \A k \in 1 .. Len(q) : ParameterFound(q, k)

\* The first n parameters are accepted and their filters set.
Known(q, n) == {k \in 1 .. n : q[k].key \in Keys}

Latest(q, n, k) == \A l \in Known(q, n) : l > k => q[l].key # q[k].key

FiltersSet(filters, q, n) ==
  /\ \A k \in Known(q, n) : Accepted(q[k].key, q[k].val)
  /\ DOMAIN filters = {q[k].key : k \in Known(q, n)}
  /\ \A k \in Known(q, n) :
       Latest(q, n, k) => filters[q[k].key] = Value(q[k].key, q[k].val)

Filtered(w, n) == FiltersSet(result[w].filters, request[w].query, n)

Progress(w) ==
  /\ pc[w] = "copy" => Copied(w) /\ Filtered(w, 0)
  /\ pc[w] = "yuarel_parse" => UrlWhole(request[w]) /\ Filtered(w, 0)
  /\ pc[w] = "yuarel_split_path" => /\ UrlMarked(request[w]) /\ QueryAhead(w)
                                    /\ Filtered(w, 0)
  /\ pc[w] = "SplitQuery" => /\ PartsFound(w) /\ PartsBefore(w)
                             /\ Len(request[w].query) # 0 /\ QueryAhead(w)
                             /\ QueryCopied(request[w]) /\ Filtered(w, 0)
  /\ pc[w] = "parameter" => PartsFound(w) /\ ParametersFound(w) /\ Filtered(w, i[w] - 1)
  /\ pc[w] = "Route" => PartsFound(w) /\ Filtered(w, Len(request[w].query))

Undisturbed ==
  \A w \in Workers : pc[w] # "done" /\ alone[w] =>
    /\ \A x \in Workers \ {w} : pc[x] = "done"
    /\ request[w] \in WellFormedRequests => Progress(w)

Answers ==
  \A w \in Workers : pc[w] = "done" /\ alone[w] /\ request[w] \in WellFormedRequests
                       => IsMeaning(result[w], request[w])

OwnInv == TypeInv /\ Undisturbed /\ Answers /\ CrashHasCause

\* What a step of a worker does that has a well-formed request and no other
\* overlaps.
Advances(w) ==
  /\ ~crashed'
  /\ pc'[w] # "done" => Progress(w)'
  /\ pc'[w] = "done" => IsMeaning(result[w], request[w])'

\* A byte more of the URL is there.
LEMMA CopyAdvances ==
  ASSUME TypeInv, NEW w \in Workers, request[w] \in WellFormedRequests,
         Progress(w), Copy(w)
  PROVE  Advances(w)
<1>. DEFINE r == request[w]
            u == Url(r)
            L == Len(u)
<1>2. r \in WellFormedRequests /\ pc[w] = "copy" /\ i[w] \in 1 .. L + 1 /\ i[w] <= L
  BY DEF Copy, TypeInv, Counters, Counter
<1>3. L \in Nat /\ L < PathSize /\ i[w] < PathSize
  <2>1. L \in Nat /\ L < PathSize
    BY <1>2, UrlLemma
  <2>. HIDE DEF L
  <2>. QED
    BY <1>2, <2>1, Limits
<1>1. /\ ~crashed /\ pc[w] = "copy" /\ i[w] <= L
      /\ max_path' = [max_path EXCEPT ![i[w]] = u[i[w]]]
      /\ i' = [i EXCEPT ![w] = @ + 1]
      /\ UNCHANGED <<crashed, pc, request, result>>
  BY <1>3 DEF Copy, locals
<1>4. \A p \in 1 .. i[w] - 1 : max_path[p] = u[p]
  BY <1>1 DEF Progress, Copied
<1>5. DOMAIN max_path = 1 .. PathSize /\ i'[w] = i[w] + 1
  BY <1>1 DEF TypeInv, PathTyped, LocalsTyped
<1>6. Filtered(w, 0)
  BY <1>1 DEF Progress
<1>7. Filtered(w, 0)'
  BY <1>1, <1>6 DEF Filtered
<1>. HIDE DEF L, u
<1>8. \A p \in 1 .. i'[w] - 1 : max_path'[p] = u[p]
  BY <1>1, <1>2, <1>3, <1>4, <1>5, Limits
<1>9. Copied(w)'
  BY <1>1, <1>8 DEF Copied, u
<1>. QED
  BY <1>1, <1>7, <1>9 DEF Advances, Progress

\* The URL is there as it was sent.
LEMMA TerminateAdvances ==
  ASSUME TypeInv, NEW w \in Workers, request[w] \in WellFormedRequests,
         Progress(w), Terminate(w)
  PROVE  Advances(w)
<1>. DEFINE r == request[w]
            u == Url(r)
            L == Len(u)
<1>1. /\ ~crashed /\ pc[w] = "copy" /\ i[w] > L
      /\ max_path' = Terminated({i[w]})
      /\ pc' = [pc EXCEPT ![w] = "yuarel_parse"]
      /\ UNCHANGED <<crashed, request, result>>
  BY DEF Terminate, locals
<1>2. r \in WellFormedRequests /\ i[w] \in 1 .. L + 1
  BY <1>1 DEF TypeInv, Counters, Counter
<1>3. L \in Nat /\ L < PathSize
  BY <1>2, UrlLemma
<1>4. \A p \in 1 .. i[w] - 1 : max_path[p] = u[p]
  BY <1>1 DEF Progress, Copied
<1>5. Filtered(w, 0) /\ pc'[w] = "yuarel_parse"
  BY <1>1 DEF Progress, TypeInv, LocalsTyped
<1>6. Filtered(w, 0)'
  BY <1>1, <1>5 DEF Filtered
<1>. HIDE DEF L, u
<1>7. i[w] = L + 1
  BY <1>1, <1>2, <1>3
<1>8. (\A p \in 1 .. L : max_path'[p] = u[p]) /\ max_path'[L + 1] = Nul
  BY <1>1, <1>3, <1>4, <1>7, Limits DEF Terminated
<1>9. UrlWhole(request[w])'
  BY <1>1, <1>8 DEF UrlWhole, u, L
<1>. QED
  BY <1>1, <1>5, <1>6, <1>9 DEF Advances, Progress

\* yuarel_parse finds the question mark that begins the query, if there is one.
LEMMA MarkFound ==
  ASSUME PathTyped, NEW r \in WellFormedRequests, UrlWhole(r)
  PROVE  LET marks == Found("?", 1, End(1))
         IN IF Len(r.query) = 0 THEN marks = {}
            ELSE marks # {} /\ Min(marks) = Mark(r)
<1>. DEFINE u == Url(r)
            L == Len(u)
            M == Mark(r)
            marks == Found("?", 1, End(1))
<1>1. /\ L \in Nat /\ L < PathSize /\ M \in Nat /\ 5 <= M /\ M <= L + 1
      /\ IF Len(r.query) = 0 THEN M = L + 1 ELSE M < L /\ u[M] = "?"
      /\ \A p \in 1 .. M - 1 : u[p] # "?"
      /\ \A p \in 1 .. L : u[p] # Nul
  BY UrlLemma
<1>2. \A p \in 1 .. L : max_path[p] = u[p]
  BY DEF UrlWhole
<1>3. max_path[L + 1] = Nul
  BY DEF UrlWhole
<1>. HIDE DEF L, M, u
<1>4. IsEnd(1, L + 1)
  BY <1>1, <1>2, <1>3, Limits DEF IsEnd
<1>5. End(1) = L + 1
  BY <1>1, <1>4, Limits, EndIs
<1>6. marks = {p \in 1 .. L : u[p] = "?"}
  BY <1>1, <1>2, <1>5 DEF Found
<1>. HIDE DEF marks
<1>7. CASE Len(r.query) = 0
  <2>1. marks = {}
    BY <1>1, <1>6, <1>7
  <2>. QED
    BY <1>7, <2>1 DEF marks
<1>8. CASE Len(r.query) # 0
  <2>1. M \in marks /\ \A p \in marks : M <= p
    BY <1>1, <1>6, <1>8
  <2>2. marks # {} /\ marks \in SUBSET Nat
    BY <1>1, <1>6, <2>1
  <2>3. Min(marks) \in marks /\ Min(marks) <= M
    BY <2>1, <2>2, MinLemma
  <2>. DEFINE x == Min(marks)
  <2>4. x \in Nat /\ M <= x /\ x <= M
    BY <2>1, <2>2, <2>3
  <2>. HIDE DEF x
  <2>5. x = M
    BY <1>1, <2>4
  <2>. QED
    BY <1>8, <2>2, <2>5 DEF marks, x, M
<1>. QED
  BY <1>7, <1>8

\* The slash and the question mark of the URL are found.
LEMMA YuarelParseAdvances ==
  ASSUME TypeInv, NEW w \in Workers, request[w] \in WellFormedRequests,
         Progress(w), YuarelParse(w)
  PROVE  Advances(w)
<1>. DEFINE r == request[w]
            u == Url(r)
            L == Len(u)
            M == Mark(r)
            marks == Found("?", 1, End(1))
            mark == IF marks = {} THEN 0 ELSE Min(marks)
            slash == max_path[1] = "/"
            S == {mark} \cup (IF slash THEN {1} ELSE {})
            first == IF mark = 0 THEN 0 ELSE mark + 1
            place == IF slash THEN "yuarel_split_path" ELSE "done"
<1>1. /\ ~crashed /\ pc[w] = "yuarel_parse"
      /\ max_path' = Terminated(S)
      /\ query' = [query EXCEPT ![w] = first]
      /\ pc' = [pc EXCEPT ![w] = place]
      /\ UNCHANGED <<crashed, request, result>>
  BY DEF YuarelParse
<1>2. r \in WellFormedRequests /\ PathTyped
  BY <1>1 DEF TypeInv, Counters, Counter
<1>3. /\ L \in Nat /\ L < PathSize /\ M \in Nat /\ 5 <= M /\ M <= L + 1
      /\ Len(r.query) = 0 => M = L + 1
      /\ u[1] = "/"
  BY <1>2, UrlLemma
<1>4. UrlWhole(r) /\ Filtered(w, 0)
  BY <1>1 DEF Progress
<1>5. (\A p \in 1 .. L : max_path[p] = u[p]) /\ max_path[L + 1] = Nul
  BY <1>4 DEF UrlWhole
<1>6. IF Len(r.query) = 0 THEN marks = {} ELSE marks # {} /\ Min(marks) = M
  BY <1>2, <1>4, MarkFound
<1>7. mark = IF Len(r.query) = 0 THEN 0 ELSE M
  BY <1>6
<1>. HIDE DEF L, u, M, mark
<1>8. slash
  <2>1. max_path[1] = u[1]
    BY <1>3, <1>5
  <2>. QED
    BY <1>3, <2>1
<1>9. pc'[w] = "yuarel_split_path"
  BY <1>1, <1>8 DEF TypeInv, LocalsTyped
<1>10. query'[w] = IF Len(r.query) = 0 THEN 0 ELSE M + 1
  <2>1. first = IF Len(r.query) = 0 THEN 0 ELSE M + 1
    BY <1>3, <1>7
  <2>. HIDE DEF first
  <2>. QED
    BY <1>1, <2>1 DEF TypeInv, LocalsTyped
<1>11. QueryAhead(w)'
  BY <1>1, <1>10 DEF QueryAhead, M
<1>12. S = {mark, 1}
  BY <1>8
<1>. HIDE DEF S
<1>13. \A p \in 1 .. L : max_path'[p] = IF p \in {1, M} THEN Nul ELSE u[p]
  <2>1. ASSUME NEW p \in 1 .. L
        PROVE  max_path'[p] = IF p \in {1, M} THEN Nul ELSE u[p]
    <3>1. p \in 1 .. PathSize /\ max_path[p] = u[p]
      BY <1>3, <1>5, Limits
    <3>2. max_path'[p] = IF p \in S THEN Nul ELSE u[p]
      BY <1>1, <3>1 DEF Terminated
    <3>3. p \in S <=> p \in {1, M}
      BY <1>3, <1>7, <1>12
    <3>. QED
      BY <3>2, <3>3
  <2>. QED
    BY <2>1
<1>14. max_path'[L + 1] = Nul
  BY <1>1, <1>3, <1>5, Limits DEF Terminated
<1>15. UrlMarked(request[w])'
  BY <1>1, <1>13, <1>14 DEF UrlMarked, L, M, u
<1>16. Filtered(w, 0)'
  BY <1>1, <1>4 DEF Filtered
<1>. QED
  BY <1>1, <1>9, <1>11, <1>15, <1>16 DEF Advances, Progress

\* Where the parts begin, and the slashes that end them.
PathSlashes(last) == {p \in 2 .. last : max_path[p] = "/"}
PartBegins(last) ==
  {p \in (2 .. last) \ PathSlashes(last) : p = 2 \/ p - 1 \in PathSlashes(last)}
PartEnds(last) == {p \in PathSlashes(last) : p > 2 /\ p - 1 \notin PathSlashes(last)}

\* The path ends before its question mark or the end of the URL.
LEMMA PathEnd ==
  ASSUME PathTyped, NEW r \in WellFormedRequests, UrlMarked(r)
  PROVE  /\ End(2) - 1 = Mark(r) - 1
         /\ \A p \in 2 .. Mark(r) - 1 : max_path[p] = Url(r)[p]
<1>. DEFINE u == Url(r)
            L == Len(u)
            M == Mark(r)
<1>1. /\ L \in Nat /\ L < PathSize /\ M \in Nat /\ 5 <= M /\ M <= L + 1
      /\ \A p \in 1 .. L : u[p] # Nul
  BY UrlLemma
<1>2. /\ \A p \in 1 .. L : max_path[p] = IF p \in {1, M} THEN Nul ELSE u[p]
      /\ max_path[L + 1] = Nul
  BY DEF UrlMarked
<1>. HIDE DEF L, M, u
<1>3. \A p \in 2 .. M - 1 : max_path[p] = u[p] /\ u[p] # Nul
  BY <1>1, <1>2
<1>4. max_path[M] = Nul
  BY <1>1, <1>2
<1>5. IsEnd(2, M)
  BY <1>1, <1>3, <1>4, Limits DEF IsEnd
<1>6. End(2) = M
  BY <1>5, Limits, EndIs
<1>. QED
  BY <1>3, <1>6 DEF M, u

\* The path of a request in a URL is split where its texts are.
LEMMA PathSplit ==
  ASSUME PathTyped, NEW r \in WellFormedRequests, UrlMarked(r), NEW a, PathAt(r, a)
  PROVE  /\ \A k \in 1 .. Len(r.path) - 1 : a[k] + 1 \in PartEnds(Mark(r) - 1)
         /\ \A p \in PartEnds(Mark(r) - 1) : \E k \in 1 .. Len(r.path) - 1 : p = a[k] + 1
         /\ Enumerates([k \in 1 .. Len(r.path) |-> a[k - 1] + 2], Len(r.path),
                       PartBegins(Mark(r) - 1))
<1>. DEFINE u == Url(r)
            L == Len(u)
            M == Mark(r)
            n == Len(r.path)
            d == PathLengths(r)
            slashes == PathSlashes(M - 1)
            begins == PartBegins(M - 1)
            ends == PartEnds(M - 1)
            s == [k \in 1 .. n |-> a[k - 1] + 2]
<1>1. M \in Nat /\ 5 <= M /\ u[1] = "/"
  BY UrlLemma
<1>2. \A p \in 2 .. M - 1 : max_path[p] = u[p]
  BY PathEnd
<1>3. /\ n \in Nat /\ n >= 2 /\ d \in [1 .. n -> Nat]
      /\ \A k \in 1 .. n : d[k] = 1 + Len(r.path[k]) /\ Len(r.path[k]) \in Nat \ {0}
                           /\ d[k] \in Nat /\ d[k] >= 2
  <2>1. n \in Nat /\ n >= 2 /\ \A k \in 1 .. n : Len(r.path[k]) \in Nat \ {0}
    BY RequestParts
  <2>2. d = [k \in 1 .. n |-> 1 + Len(r.path[k])]
    BY DEF PathLengths
  <2>. HIDE DEF n, d
  <2>. QED
    BY <2>1, <2>2, SMTT(30)
<1>4. /\ a \in [0 .. n -> Nat] /\ a[0] = 0 /\ a[n] = M - 1 /\ Sums(a, n, d)
      /\ \A k \in 1 .. n :
           /\ u[a[k - 1] + 1] = "/"
           /\ \A j \in 1 .. Len(r.path[k]) : u[a[k - 1] + (1 + j)] = r.path[k][j]
  BY DEF PathAt
<1>5. \A k \in 1 .. n : \A j \in 1 .. Len(r.path[k]) : r.path[k][j] # "/"
  BY PathElement DEF PathBytes
<1>. HIDE DEF u, L, M, n, d
<1>6. Covers(a, n, d) /\ Apart(a, n, d)
  BY <1>3, <1>4, SumsCover, SumsApart
<1>7. ASSUME NEW k \in 1 .. n
      PROVE  /\ a[k] = a[k - 1] + d[k] /\ a[k - 1] \in Nat /\ a[k] \in Nat
             /\ a[k] <= M - 1 /\ d[k] \in Nat /\ d[k] >= 2
  <2>1. k - 1 \in 0 .. n /\ k \in 0 .. n /\ n \in 0 .. n
    BY <1>3
  <2>2. a[k] <= a[n]
    BY <1>3, <1>4, <2>1, SumsGrow
  <2>3. a[k] = a[k - 1] + d[k]
    BY <1>4 DEF Sums
  <2>. QED
    BY <1>3, <1>4, <2>1, <2>2, <2>3
<1>8. ASSUME NEW p \in 1 .. M - 1
      PROVE  \E k \in 1 .. n : \E j \in 1 .. d[k] : p = a[k - 1] + j
  <2>1. n \in 0 .. n /\ p \in a[0] + 1 .. a[n]
    BY <1>3, <1>4
  <2>. QED
    BY <1>6, <2>1, Zenon DEF Covers
<1>9. ASSUME NEW k \in 1 .. n, NEW j \in 1 .. d[k]
      PROVE  u[a[k - 1] + j] = "/" <=> j = 1
  <2>1. CASE j = 1
    BY <1>4, <2>1
  <2>2. CASE j # 1
    <3>. DEFINE x == j - 1
    <3>1. x \in 1 .. Len(r.path[k]) /\ j = 1 + x
      BY <1>3, <2>2
    <3>. HIDE DEF x
    <3>2. u[a[k - 1] + (1 + x)] = r.path[k][x] /\ r.path[k][x] # "/"
      BY <1>4, <1>5, <3>1
    <3>. QED
      BY <2>2, <3>1, <3>2
  <2>. QED
    BY <2>1, <2>2
<1>10. ASSUME NEW k \in 1 .. n, NEW j \in 1 .. d[k]
       PROVE  a[k - 1] + j \in slashes <=> (j = 1 /\ k > 1)
  <2>1. a[k - 1] + j \in 1 .. M - 1 /\ (a[k - 1] + j = 1 <=> j = 1 /\ a[k - 1] = 0)
    BY <1>1, <1>7
  <2>2. a[k - 1] = 0 <=> k = 1
    <3>1. CASE k = 1
      BY <1>4, <3>1
    <3>2. CASE k # 1
      <4>1. k - 1 \in 1 .. n /\ (k - 1) - 1 \in 0 .. n
        BY <1>3, <3>2
      <4>2. a[k - 1] = a[(k - 1) - 1] + d[k - 1] /\ d[k - 1] >= 2 /\ d[k - 1] \in Nat
            /\ a[(k - 1) - 1] \in Nat
        BY <1>7, <4>1
      <4>. QED
        BY <3>2, <4>2
    <3>. QED
      BY <3>1, <3>2
  <2>3. a[k - 1] + j \in slashes <=> a[k - 1] + j # 1 /\ u[a[k - 1] + j] = "/"
    BY <1>1, <1>2, <2>1 DEF PathSlashes
  <2>. QED
    BY <1>3, <1>9, <2>1, <2>2, <2>3
<1>11. \A p \in slashes : \E k \in 1 .. n : k > 1 /\ p = a[k - 1] + 1
  <2>1. ASSUME NEW p \in slashes
        PROVE  \E k \in 1 .. n : k > 1 /\ p = a[k - 1] + 1
    <3>1. p \in 1 .. M - 1
      BY <1>1 DEF PathSlashes
    <3>2. PICK k \in 1 .. n : \E j \in 1 .. d[k] : p = a[k - 1] + j
      BY <1>8, <3>1
    <3>3. PICK j \in 1 .. d[k] : p = a[k - 1] + j
      BY <3>2
    <3>. HIDE DEF slashes
    <3>. QED
      BY <1>10, <3>3
  <2>. QED
    BY <2>1
<1>12. \A k \in 1 .. n : k > 1 => a[k - 1] + 1 \in ends
  <2>1. ASSUME NEW k \in 1 .. n, k > 1
        PROVE  a[k - 1] + 1 \in ends
    <3>1. k - 1 \in 1 .. n /\ 1 \in 1 .. d[k] /\ d[k - 1] \in 1 .. d[k - 1]
      BY <1>3, <2>1
    <3>2. a[k - 1] = a[(k - 1) - 1] + d[k - 1] /\ d[k - 1] >= 2 /\ d[k - 1] \in Nat
          /\ a[(k - 1) - 1] \in Nat /\ a[k - 1] \in Nat
      BY <1>7, <3>1
    <3>. HIDE DEF slashes
    <3>3. a[k - 1] + 1 \in slashes
      BY <1>10, <2>1, <3>1
    <3>4. a[(k - 1) - 1] + d[k - 1] \notin slashes
      BY <1>10, <3>1, <3>2
    <3>5. a[k - 1] + 1 > 2 /\ (a[k - 1] + 1) - 1 = a[k - 1]
      BY <3>2
    <3>. QED
      BY <3>2, <3>3, <3>4, <3>5 DEF PartEnds, slashes
  <2>. QED
    BY <2>1
<1>13. \A k \in 1 .. n - 1 : a[k] + 1 \in ends
  <2>1. ASSUME NEW k \in 1 .. n - 1
        PROVE  a[k] + 1 \in ends
    <3>. DEFINE l == k + 1
    <3>1. l \in 1 .. n /\ l > 1 /\ l - 1 = k
      BY <1>3
    <3>. HIDE DEF l
    <3>2. a[l - 1] + 1 \in ends
      BY <1>12, <3>1
    <3>. QED
      BY <3>1, <3>2
  <2>. QED
    BY <2>1
<1>14. \A p \in ends : \E k \in 1 .. n - 1 : p = a[k] + 1
  <2>1. ASSUME NEW p \in ends
        PROVE  \E k \in 1 .. n - 1 : p = a[k] + 1
    <3>1. p \in slashes
      BY DEF PartEnds
    <3>2. PICK k \in 1 .. n : k > 1 /\ p = a[k - 1] + 1
      BY <1>11, <3>1
    <3>3. k - 1 \in 1 .. n - 1
      BY <1>3, <3>2
    <3>. QED
      BY <3>2, <3>3
  <2>. QED
    BY <2>1
<1>15. ASSUME NEW k \in 1 .. n
       PROVE  s[k] \in begins
  <2>1. 2 \in 1 .. d[k] /\ 1 \in 1 .. d[k] /\ a[k - 1] + 2 \in 2 .. M - 1
    BY <1>1, <1>7
  <2>. HIDE DEF slashes
  <2>2. a[k - 1] + 2 \notin slashes
    BY <1>10, <2>1
  <2>3. k > 1 => a[k - 1] + 1 \in slashes
    BY <1>10, <2>1
  <2>4. a[k - 1] \in Nat /\ (a[k - 1] + 2) - 1 = a[k - 1] + 1
    BY <1>7
  <2>5. k = 1 => a[k - 1] + 2 = 2
    BY <1>4
  <2>6. k = 1 \/ k > 1
    BY <1>3
  <2>7. a[k - 1] + 2 \in begins
    BY <2>1, <2>2, <2>3, <2>4, <2>5, <2>6 DEF PartBegins, slashes
  <2>. QED
    BY <2>7
<1>16. ASSUME NEW p \in begins
       PROVE  \E k \in 1 .. n : s[k] = p
  <2>1. p \in 2 .. M - 1 /\ (p = 2 \/ p - 1 \in slashes)
    BY DEF PartBegins
  <2>2. CASE p = 2
    <3>1. 1 \in 1 .. n /\ s[1] = 2
      BY <1>3, <1>4
    <3>. QED
      BY <2>2, <3>1
  <2>3. CASE p - 1 \in slashes
    <3>1. PICK k \in 1 .. n : k > 1 /\ p - 1 = a[k - 1] + 1
      BY <1>11, <2>3
    <3>2. s[k] = p
      BY <1>1, <1>7, <2>1, <3>1
    <3>. QED
      BY <3>2
  <2>. QED
    BY <2>1, <2>2, <2>3
<1>17. Increasing(s)
  <2>1. ASSUME NEW j \in 1 .. n, NEW k \in 1 .. n, j < k
        PROVE  a[j - 1] + 2 < a[k - 1] + 2
    <3>1. j \in 0 .. k - 1 /\ k - 1 \in 0 .. n
      BY <1>3, <2>1
    <3>2. a[j] <= a[k - 1]
      BY <1>3, <1>4, <3>1, SumsGrow
    <3>. QED
      BY <1>7, <3>2
  <2>2. \A j, k \in DOMAIN s : j < k => s[j] < s[k]
    BY <2>1
  <2>. QED
    BY <2>2 DEF Increasing
<1>18. s \in [1 .. n -> begins]
  BY <1>15
<1>19. Enumerates(s, n, begins)
  <2>. HIDE DEF s, begins
  <2>. QED
    BY <1>16, <1>17, <1>18 DEF Enumerates
<1>. QED
  BY <1>13, <1>14, <1>19 DEF n, M


\* Each part points to its text, and the query is left alone.
LEMMA YuarelSplitPathAdvances ==
  ASSUME TypeInv, NEW w \in Workers, request[w] \in WellFormedRequests,
         Progress(w), YuarelSplitPath(w)
  PROVE  Advances(w)
<1>. DEFINE r == request[w]
            u == Url(r)
            L == Len(u)
            M == Mark(r)
            n == Len(r.path)
            d == PathLengths(r)
            ends == PartEnds(M - 1)
            place == IF query[w] = 0 THEN "Route" ELSE "SplitQuery"
<1>1. /\ ~crashed /\ pc[w] = "yuarel_split_path"
      /\ parts' = [parts EXCEPT ![w] = Sorted(PartBegins(End(2) - 1))]
      /\ max_path' = Terminated(PartEnds(End(2) - 1))
      /\ pc' = [pc EXCEPT ![w] = place]
      /\ UNCHANGED <<crashed, request, query, result>>
  BY Zenon DEF YuarelSplitPath, PartBegins, PartEnds, PathSlashes
<1>2. r \in WellFormedRequests /\ PathTyped /\ query[w] \in 0 .. PathSize
  BY <1>1 DEF TypeInv, Counters, Counter, LocalsTyped
<1>3. UrlMarked(r) /\ QueryAhead(w) /\ Filtered(w, 0)
  BY <1>1 DEF Progress
<1>4. End(2) - 1 = M - 1 /\ \A p \in 2 .. M - 1 : max_path[p] = u[p]
  BY <1>2, <1>3, PathEnd
<1>5. PICK a : PathAt(r, a)
  BY <1>2, PathLemma
<1>. DEFINE s == [k \in 1 .. n |-> a[k - 1] + 2]
<1>6. /\ \A k \in 1 .. n - 1 : a[k] + 1 \in ends
      /\ \A p \in ends : \E k \in 1 .. n - 1 : p = a[k] + 1
      /\ Enumerates(s, n, PartBegins(M - 1))
  BY <1>2, <1>3, <1>5, PathSplit
<1>7. /\ L \in Nat /\ L < PathSize /\ M \in Nat /\ 5 <= M /\ M <= L + 1
      /\ IF Len(r.query) = 0 THEN M = L + 1 ELSE M < L
  BY <1>2, UrlLemma
<1>8. /\ \A p \in 1 .. L : max_path[p] = IF p \in {1, M} THEN Nul ELSE u[p]
      /\ max_path[L + 1] = Nul
  BY <1>3 DEF UrlMarked
<1>9. /\ n \in Nat /\ n >= 2 /\ d \in [1 .. n -> Nat]
      /\ \A k \in 1 .. n : d[k] = 1 + Len(r.path[k]) /\ Len(r.path[k]) \in Nat \ {0}
  <2>1. n \in Nat /\ n >= 2 /\ \A k \in 1 .. n : Len(r.path[k]) \in Nat \ {0}
    BY <1>2, RequestParts
  <2>2. d = [k \in 1 .. n |-> 1 + Len(r.path[k])]
    BY DEF PathLengths
  <2>. HIDE DEF n, d
  <2>. QED
    BY <2>1, <2>2
<1>10. /\ a \in [0 .. n -> Nat] /\ a[0] = 0 /\ a[n] = M - 1 /\ Sums(a, n, d)
       /\ \A k \in 1 .. n :
            \A j \in 1 .. Len(r.path[k]) : u[a[k - 1] + (1 + j)] = r.path[k][j]
  BY <1>5 DEF PathAt
<1>. HIDE DEF u, L, M, n, d
<1>11. Sorted(PartBegins(M - 1)) = s
  <2>. DEFINE B == PartBegins(M - 1)
  <2>1. B \in SUBSET (1 .. M)
    BY <1>7 DEF PartBegins
  <2>. HIDE DEF B, s
  <2>2. Enumerates(s, n, B) /\ n \in Nat /\ M \in Nat
    BY <1>6, <1>7, <1>9 DEF B
  <2>3. Sorted(B) = s
    BY <2>1, <2>2, SortedIs
  <2>. QED
    BY <2>3 DEF B
<1>12. parts'[w] = s /\ max_path' = Terminated(ends)
  BY <1>1, <1>4, <1>11 DEF TypeInv, PartsTyped
<1>. HIDE DEF ends
<1>13. ASSUME NEW k \in 1 .. n
       PROVE  /\ a[k] = a[k - 1] + d[k] /\ a[k - 1] \in Nat /\ a[k] \in Nat
              /\ a[k] <= M - 1 /\ d[k] \in Nat /\ d[k] = 1 + Len(r.path[k])
              /\ Len(r.path[k]) \in Nat /\ Len(r.path[k]) >= 1
  <2>1. k - 1 \in 0 .. n /\ k \in 0 .. n /\ n \in 0 .. n
    BY <1>9
  <2>2. a[k] <= a[n]
    BY <1>9, <1>10, <2>1, SumsGrow
  <2>3. a[k] = a[k - 1] + d[k]
    BY <1>10 DEF Sums
  <2>4. a[k - 1] \in Nat /\ a[k] \in Nat /\ a[k] <= M - 1
    BY <1>10, <2>1, <2>2
  <2>5. d[k] \in Nat /\ d[k] = 1 + Len(r.path[k]) /\ Len(r.path[k]) \in Nat \ {0}
    BY <1>9
  <2>. QED
    BY <2>3, <2>4, <2>5
<1>14. Apart(a, n, d)
  BY <1>9, <1>10, SumsApart
<1>15. ASSUME NEW k \in 1 .. n, NEW j \in 1 .. Len(r.path[k])
       PROVE  max_path'[a[k - 1] + (1 + j)] = r.path[k][j]
  <2>. DEFINE p == a[k - 1] + (1 + j)
  <2>5. /\ a[k] = a[k - 1] + d[k] /\ a[k - 1] \in Nat /\ a[k] \in Nat /\ a[k] <= M - 1
        /\ d[k] \in Nat /\ d[k] = 1 + Len(r.path[k]) /\ Len(r.path[k]) \in Nat
    BY <1>13
  <2>6. 1 + j \in 1 .. d[k] /\ 1 + j # 1 /\ j \in Nat
    BY <2>5
  <2>7. p \in Nat /\ p >= 2 /\ p <= M - 1
    <3>. DEFINE lo == a[k - 1]
                size == d[k]
    <3>1. lo \in Nat /\ size \in Nat /\ lo + size <= M - 1 /\ M \in Nat
      BY <1>7, <2>5
    <3>2. j \in Nat /\ 1 + j <= size /\ 1 + j >= 2
      BY <2>6
    <3>. HIDE DEF lo, size
    <3>3. lo + (1 + j) \in Nat /\ lo + (1 + j) >= 2 /\ lo + (1 + j) <= M - 1
      BY <3>1, <3>2
    <3>. QED
      BY <3>3 DEF lo
  <2>8. M - 1 <= PathSize /\ M \in Nat /\ PathSize \in Nat
    BY <1>7, Limits
  <2>1. p \in 2 .. M - 1 /\ 1 + j \in 1 .. d[k] /\ p \in 1 .. PathSize /\ 1 + j # 1
    <3>. HIDE DEF p
    <3>. QED
      BY <2>6, <2>7, <2>8
  <2>2. p \notin ends
    <3>1. ASSUME NEW l \in 1 .. n - 1, p = a[l] + 1
          PROVE  FALSE
      <4>. DEFINE m == l + 1
      <4>1. m \in 1 .. n /\ m - 1 = l
        BY <1>9
      <4>. HIDE DEF m
      <4>4. d[m] \in Nat /\ d[m] = 1 + Len(r.path[m]) /\ Len(r.path[m]) \in Nat
        BY <1>13, <4>1
      <4>2. 1 \in 1 .. d[m] /\ a[k - 1] + (1 + j) = a[m - 1] + 1
        BY <3>1, <4>1, <4>4
      <4>3. 1 + j = 1
        BY <1>14, <2>1, <4>1, <4>2 DEF Apart
      <4>. QED
        BY <2>1, <4>3
    <3>. HIDE DEF p
    <3>. QED
      BY <1>6, <3>1
  <2>3. max_path[p] = u[p] /\ u[p] = r.path[k][j]
    <3>1. max_path[p] = u[p]
      BY <1>4, <2>1
    <3>2. u[a[k - 1] + (1 + j)] = r.path[k][j]
      BY <1>10
    <3>. QED
      BY <3>1, <3>2
  <2>. HIDE DEF p
  <2>4. max_path'[p] = r.path[k][j]
    BY <1>12, <2>1, <2>2, <2>3 DEF Terminated
  <2>. QED
    BY <2>4 DEF p
<1>16. ASSUME NEW k \in 1 .. n
       PROVE  a[k] + 1 \in 1 .. PathSize /\ max_path'[a[k] + 1] = Nul
  <2>1. a[k] + 1 \in 1 .. PathSize
    BY <1>7, <1>13, Limits
  <2>2. a[k] + 1 \in ends \/ max_path[a[k] + 1] = Nul
    <3>1. CASE k = n
      <4>1. a[k] + 1 = M
        BY <1>7, <1>10, <3>1
      <4>2. max_path[M] = Nul
        BY <1>7, <1>8
      <4>. QED
        BY <4>1, <4>2
    <3>2. CASE k # n
      BY <1>6, <1>9, <3>2
    <3>. QED
      BY <3>1, <3>2
  <2>. DEFINE p == a[k] + 1
  <2>. HIDE DEF p
  <2>3. p \in 1 .. PathSize /\ (p \in ends \/ max_path[p] = Nul)
    BY <2>1, <2>2 DEF p
  <2>4. max_path'[p] = Nul
    BY <1>12, <2>3 DEF Terminated
  <2>. QED
    BY <2>1, <2>4 DEF p
<1>17. ASSUME NEW k \in 1 .. n
       PROVE  /\ s[k] \in 1 .. PathSize /\ s[k] + Len(r.path[k]) = a[k] + 1
              /\ \A j \in 1 .. Len(r.path[k]) : s[k] + (j - 1) = a[k - 1] + (1 + j)
  <2>1. s[k] = a[k - 1] + 2
    OBVIOUS
  <2>. HIDE DEF s
  <2>4. /\ a[k] = a[k - 1] + d[k] /\ a[k - 1] \in Nat /\ a[k] \in Nat /\ a[k] <= M - 1
        /\ d[k] \in Nat /\ d[k] = 1 + Len(r.path[k]) /\ Len(r.path[k]) \in Nat
        /\ Len(r.path[k]) >= 1
    BY <1>13
  <2>5. M - 1 <= PathSize /\ M \in Nat /\ PathSize \in Nat
    BY <1>7, Limits
  <2>. DEFINE z == Len(r.path[k])
  <2>6. /\ a[k] = a[k - 1] + d[k] /\ a[k - 1] \in Nat /\ a[k] \in Nat /\ a[k] <= M - 1
        /\ d[k] \in Nat /\ d[k] = 1 + z /\ z \in Nat /\ z >= 1
    BY <2>4
  <2>. HIDE DEF z
  <2>7. s[k] \in 1 .. PathSize /\ s[k] + z = a[k] + 1
    BY <2>1, <2>5, <2>6
  <2>2. s[k] \in 1 .. PathSize /\ s[k] + Len(r.path[k]) = a[k] + 1
    BY <2>7 DEF z
  <2>3. \A j \in 1 .. Len(r.path[k]) : s[k] + (j - 1) = a[k - 1] + (1 + j)
    BY <2>1, <2>6, SMTT(30)
  <2>. QED
    BY <2>2, <2>3
<1>18. Len(s) = n
  BY <1>9
<1>. HIDE DEF s
<1>19. \A k \in 1 .. n : TextAt(s[k], r.path[k])'
  <2>1. ASSUME NEW k \in 1 .. n
        PROVE  TextAt(s[k], r.path[k])'
    <3>1. r' = r /\ s' = s
      BY <1>1 DEF s, n
    <3>2. s[k] + Len(r.path[k]) <= PathSize
      BY <1>16, <1>17, Limits
    <3>. QED
      BY <1>15, <1>16, <1>17, <3>1, <3>2 DEF TextAt
  <2>. QED
    BY <2>1
<1>20. PartsFound(w)'
  <2>1. parts'[w] = s /\ request'[w] = r /\ Len(s) = n /\ \A k \in 1 .. n : TextAt(s[k], r.path[k])'
    BY <1>1, <1>12, <1>18, <1>19
  <2>2. Len(parts'[w]) = Len(request'[w].path)
    BY <2>1 DEF n
  <2>3. \A k \in 1 .. Len(parts'[w]) : TextAt(parts[w][k], request[w].path[k])'
    <3>1. ASSUME NEW k \in 1 .. n
          PROVE  TextAt(parts[w][k], request[w].path[k])'
      <4>1. TextAt(s[k], r.path[k])'
        BY <2>1
      <4>. QED
        BY <1>1, <1>12, <4>1, SMTT(30) DEF TextAt, s, n
    <3>. QED
      BY <2>1, <3>1
  <2>. QED
    BY <2>2, <2>3 DEF PartsFound
<1>21. Filtered(w, 0)'
  BY <1>1, <1>3 DEF Filtered
<1>22. QueryAhead(w)'
  BY <1>1, <1>3 DEF QueryAhead
<1>23. pc'[w] = place
  BY <1>1 DEF TypeInv, LocalsTyped
<1>24. CASE Len(r.query) = 0
  <2>1. place = "Route"
    BY <1>3, <1>24 DEF QueryAhead
  <2>2. Filtered(w, Len(request[w].query))'
    BY <1>1, <1>21, <1>24 DEF Filtered
  <2>. QED
    BY <1>1, <1>20, <1>23, <2>1, <2>2 DEF Advances, Progress
<1>25. CASE Len(r.query) # 0
  <2>1. place = "SplitQuery"
    BY <1>3, <1>7, <1>25 DEF QueryAhead, M
  <2>2. PartsBefore(w)'
    <3>1. \A k \in 1 .. n : s[k] + Len(r.path[k]) <= M
      <4>1. ASSUME NEW k \in 1 .. n
            PROVE  s[k] + Len(r.path[k]) <= M
        <5>1. a[k] \in Nat /\ a[k] <= M - 1 /\ s[k] + Len(r.path[k]) = a[k] + 1
          BY <1>13, <1>17
        <5>. QED
          BY <1>7, <5>1
      <4>. QED
        BY <4>1
    <3>2. \A k \in 1 .. Len(parts'[w]) :
            parts'[w][k] + Len(request'[w].path[k]) <= Mark(request'[w])
      BY <1>1, <1>12, <1>18, <3>1 DEF M
    <3>. QED
      BY <3>2 DEF PartsBefore
  <2>3. \A p \in M + 1 .. L + 1 : p \in 1 .. PathSize /\ p \notin ends
    <3>1. ASSUME NEW p \in M + 1 .. L + 1, NEW k \in 1 .. n - 1, p = a[k] + 1
          PROVE  FALSE
      <4>1. k \in 1 .. n
        BY <1>9
      <4>2. a[k] \in Nat /\ a[k] <= M - 1
        BY <1>13, <4>1
      <4>. QED
        BY <1>7, <3>1, <4>2
    <3>2. \A p \in M + 1 .. L + 1 : p \in 1 .. PathSize
      BY <1>7, Limits
    <3>. QED
      BY <1>6, <3>1, <3>2
  <2>4. \A p \in M + 1 .. L : max_path'[p] = u[p]
    <3>1. ASSUME NEW p \in M + 1 .. L
          PROVE  max_path'[p] = u[p]
      <4>1. p \in 1 .. L /\ p \notin {1, M} /\ p \in M + 1 .. L + 1
        BY <1>7
      <4>2. max_path[p] = u[p] /\ p \in 1 .. PathSize /\ p \notin ends
        BY <1>8, <2>3, <4>1
      <4>. QED
        BY <1>12, <4>2 DEF Terminated
    <3>. QED
      BY <3>1
  <2>5. max_path'[L + 1] = Nul
    <3>1. L + 1 \in 1 .. PathSize
      BY <1>7, Limits
    <3>. QED
      BY <1>8, <1>12, <3>1 DEF Terminated
  <2>6. QueryCopied(request[w])'
    BY <1>1, <2>4, <2>5 DEF QueryCopied, M, L, u
  <2>7. Len(request'[w].query) # 0
    BY <1>1, <1>25
  <2>. QED
    BY <1>1, <1>20, <1>21, <1>22, <1>23, <2>1, <2>2, <2>6, <2>7 DEF Advances, Progress
<1>. QED
  BY <1>24, <1>25


\* The parameters of a query stand in the URL from its mark to its end, each
\* after the one before.
QuerySums(r, c) ==
  LET m == Len(r.query)
      e == QueryLengths(r)
  IN /\ m \in Nat /\ e \in [1 .. m -> Nat] /\ c \in [0 .. m -> Nat]
     /\ c[0] = Mark(r) - 1 /\ c[m] = Len(Url(r))
     /\ Covers(c, m, e) /\ Apart(c, m, e)
     /\ \A k \in 1 .. m : /\ c[k] = c[k - 1] + e[k] /\ c[k - 1] \in Nat /\ c[k] \in Nat
                          /\ c[k - 1] >= Mark(r) - 1 /\ c[k] <= Len(Url(r))
                          /\ Len(r.query[k].val) \in Nat
                          /\ e[k] = 3 + Len(r.query[k].val) /\ e[k] \in Nat

LEMMA QuerySumsLemma ==
  ASSUME NEW r \in WellFormedRequests, NEW c, QueryAt(r, c)
  PROVE  QuerySums(r, c)
<1>. DEFINE L == Len(Url(r))
            M == Mark(r)
            m == Len(r.query)
            e == QueryLengths(r)
<1>1. /\ m \in Nat /\ e \in [1 .. m -> Nat]
      /\ \A k \in 1 .. m : e[k] = 3 + Len(r.query[k].val) /\ Len(r.query[k].val) \in Nat
  <2>1. m \in Nat /\ \A k \in 1 .. m : Len(r.query[k].val) \in Nat
    BY RequestParts
  <2>2. e = [k \in 1 .. m |-> e[k]] /\ \A k \in 1 .. m : e[k] = 3 + Len(r.query[k].val)
    BY DEF QueryLengths
  <2>. HIDE DEF m, e
  <2>3. \A k \in 1 .. m : e[k] \in Nat
    BY <2>1, <2>2
  <2>4. e \in [1 .. m -> Nat]
    BY <2>2, <2>3, Zenon
  <2>. QED
    BY <2>1, <2>2, <2>4, Zenon
<1>2. c \in [0 .. m -> Nat] /\ c[0] = M - 1 /\ c[m] = L /\ Sums(c, m, e)
  BY DEF QueryAt
<1>3. Covers(c, m, e) /\ Apart(c, m, e)
  <2>. HIDE DEF m, e
  <2>. QED
    BY <1>1, <1>2, SumsCover, SumsApart
<1>4. ASSUME NEW k \in 1 .. m
      PROVE  /\ c[k] = c[k - 1] + e[k] /\ c[k - 1] \in Nat /\ c[k] \in Nat
             /\ c[k - 1] >= M - 1 /\ c[k] <= L /\ e[k] \in Nat
  <2>. HIDE DEF m, e, L, M
  <2>1. k - 1 \in 0 .. m /\ k \in 0 .. m /\ m \in 0 .. m /\ 0 \in 0 .. k - 1
    BY <1>1
  <2>2. c[k] <= c[m] /\ c[0] <= c[k - 1]
    BY <1>1, <1>2, <2>1, SumsGrow
  <2>3. c[k] = c[k - 1] + e[k]
    BY <1>2 DEF Sums
  <2>4. c[k - 1] \in Nat /\ c[k] \in Nat /\ e[k] \in Nat /\ c[0] \in Nat
    BY <1>1, <1>2, <2>1
  <2>. QED
    BY <1>2, <2>2, <2>3, <2>4
<1>. QED
  BY <1>1, <1>2, <1>3, <1>4 DEF QuerySums

\* Where the query of a URL is split: behind each parameter but the last, and
\* at its equals sign.
QuerySplit(r, c) ==
  LET m == Len(r.query)
      first == Mark(r) + 1
  IN /\ max_path[first] # Nul
     /\ Found_n(first) = m
     /\ \A k \in 1 .. m : KeyAt(first, k) = c[k - 1] + 2 /\ ValAt(first, k) = c[k - 1] + 4
     /\ \A p : p \in Ends(first) <=> \/ \E k \in 1 .. m - 1 : p = c[k] + 1
                                     \/ \E k \in 1 .. m : p = c[k - 1] + 3

LEMMA QuerySplitLemma ==
  ASSUME PathTyped, NEW r \in WellFormedRequests, QueryCopied(r), Len(r.query) # 0,
         NEW c, QueryAt(r, c)
  PROVE  QuerySplit(r, c)
<1>. DEFINE u == Url(r)
            L == Len(u)
            M == Mark(r)
            m == Len(r.query)
            e == QueryLengths(r)
            first == M + 1
            S == Found("&", first, End(first))
            s == [k \in 1 .. m - 1 |-> c[k] + 1]
<1>1. /\ L \in Nat /\ L < PathSize /\ M \in Nat /\ 5 <= M /\ M < L
      /\ \A p \in 1 .. L : u[p] # Nul
  BY UrlLemma
<1>2. (\A p \in M + 1 .. L : max_path[p] = u[p]) /\ max_path[L + 1] = Nul
  BY DEF QueryCopied
<1>3. /\ m \in Nat /\ e \in [1 .. m -> Nat] /\ c \in [0 .. m -> Nat]
      /\ c[0] = M - 1 /\ c[m] = L
      /\ Covers(c, m, e) /\ Apart(c, m, e)
      /\ \A k \in 1 .. m : /\ c[k] = c[k - 1] + e[k] /\ c[k - 1] \in Nat /\ c[k] \in Nat
                           /\ c[k - 1] >= M - 1 /\ c[k] <= L
                           /\ Len(r.query[k].val) \in Nat
                           /\ e[k] = 3 + Len(r.query[k].val) /\ e[k] \in Nat
  BY QuerySumsLemma DEF QuerySums
<1>4. \A k \in 1 .. m :
           /\ u[c[k - 1] + 1] = IF k = 1 THEN "?" ELSE "&"
           /\ u[c[k - 1] + 2] = r.query[k].key
           /\ u[c[k - 1] + 3] = "="
           /\ \A j \in 1 .. Len(r.query[k].val) : u[c[k - 1] + (3 + j)] = r.query[k].val[j]
  BY DEF QueryAt
<1>5. \A k \in 1 .. m : /\ r.query[k].key \notin {"&", "="}
                        /\ \A j \in 1 .. Len(r.query[k].val) : r.query[k].val[j] # "&"
  BY QueryElement DEF KeyBytes, ValueBytes
<1>6. m <= max_query_parameters_amount /\ m >= 1
  <2>1. m \in 0 .. max_query_parameters_amount /\ m # 0
    BY RequestParts
  <2>. QED
    BY <2>1
<1>. HIDE DEF u, L, M, m, e
<1>7. IsEnd(first, L + 1) /\ first \in 1 .. PathSize
  BY <1>1, <1>2, Limits DEF IsEnd
<1>8. End(first) = L + 1
  <2>. HIDE DEF first
  <2>. QED
    BY <1>7, EndIs
<1>9. max_path[first] # Nul
  BY <1>1, <1>2
<1>10. ASSUME NEW k \in 1 .. m
       PROVE  /\ c[k] = c[k - 1] + e[k] /\ c[k - 1] \in Nat /\ c[k] \in Nat
              /\ c[k - 1] >= M - 1 /\ c[k] <= L /\ e[k] \in Nat /\ e[k] >= 3
              /\ 1 \in 1 .. e[k] /\ 2 \in 1 .. e[k] /\ 3 \in 1 .. e[k]
  <2>1. /\ c[k] = c[k - 1] + e[k] /\ c[k - 1] \in Nat /\ c[k] \in Nat
        /\ c[k - 1] >= M - 1 /\ c[k] <= L /\ e[k] \in Nat
        /\ Len(r.query[k].val) \in Nat /\ e[k] = 3 + Len(r.query[k].val)
    BY <1>3, Zenon
  <2>. DEFINE z == Len(r.query[k].val)
  <2>3. z \in Nat /\ e[k] = 3 + z
    BY <2>1
  <2>. HIDE DEF z
  <2>2. e[k] >= 3 /\ 1 \in 1 .. e[k] /\ 2 \in 1 .. e[k] /\ 3 \in 1 .. e[k]
    BY <2>3
  <2>. QED
    BY <2>1, <2>2
<1>11. ASSUME NEW p \in first .. L
       PROVE  \E k \in 1 .. m : \E j \in 1 .. e[k] : p = c[k - 1] + j
  <2>1. m \in 0 .. m /\ p \in c[0] + 1 .. c[m]
    BY <1>1, <1>3
  <2>. QED
    BY <1>3, <2>1, Zenon DEF Covers
<1>12. ASSUME NEW k \in 1 .. m, NEW j \in 1 .. e[k]
       PROVE  /\ u[c[k - 1] + j] = "&" <=> (j = 1 /\ k > 1)
              /\ j \in {2, 3} => (u[c[k - 1] + j] = "=" <=> j = 3)
  <2>1. k = 1 \/ k > 1
    BY <1>3
  <2>2. CASE j = 1
    BY <1>4, <2>1, <2>2
  <2>3. CASE j = 2
    BY <1>4, <1>5, <2>3
  <2>4. CASE j = 3
    BY <1>4, <2>4
  <2>5. CASE j \notin {1, 2, 3}
    <3>. DEFINE x == j - 3
    <3>1. e[k] = 3 + Len(r.query[k].val) /\ Len(r.query[k].val) \in Nat
      BY <1>3
    <3>2. x \in 1 .. Len(r.query[k].val) /\ j = 3 + x
      BY <2>5, <3>1
    <3>. HIDE DEF x
    <3>3. u[c[k - 1] + (3 + x)] = r.query[k].val[x]
      BY <1>4, <3>2
    <3>4. r.query[k].val[x] # "&"
      BY <1>5, <3>2
    <3>. QED
      BY <2>5, <3>2, <3>3, <3>4
  <2>. QED
    BY <2>2, <2>3, <2>4, <2>5
<1>13. S = {p \in first .. L : u[p] = "&"}
  <2>1. S = {p \in first .. L : max_path[p] = "&"}
    BY <1>1, <1>8 DEF Found
  <2>. QED
    BY <1>2, <2>1
<1>. HIDE DEF S
<1>14. ASSUME NEW k \in 1 .. m, k > 1
       PROVE  c[k - 1] + 1 \in S
  <2>1. c[k - 1] + 1 <= L /\ c[k - 1] \in Nat
    <3>1. /\ c[k] = c[k - 1] + e[k] /\ c[k - 1] \in Nat /\ c[k] \in Nat
          /\ c[k] <= L /\ e[k] \in Nat /\ e[k] >= 3
      BY <1>10
    <3>. DEFINE lo == c[k - 1]
                size == e[k]
    <3>2. lo \in Nat /\ size \in Nat /\ size >= 3 /\ lo + size <= L
      BY <3>1
    <3>. HIDE DEF lo, size
    <3>3. lo + 1 <= L
      BY <1>1, <3>2
    <3>. QED
      BY <3>1, <3>3 DEF lo
  <2>2. c[k - 1] >= M
    <3>. DEFINE l == k - 1
    <3>1. l \in 1 .. m
      BY <1>3, <1>14
    <3>. HIDE DEF l
    <3>2. c[l] = c[l - 1] + e[l] /\ c[l - 1] >= M - 1 /\ e[l] >= 3 /\ e[l] \in Nat
          /\ c[l - 1] \in Nat /\ c[l] \in Nat
      BY <1>10, <3>1
    <3>3. c[l] >= M
      BY <1>1, <3>2
    <3>. QED
      BY <3>3 DEF l
  <2>3. c[k - 1] + 1 \in first .. L
    BY <1>1, <2>1, <2>2
  <2>4. u[c[k - 1] + 1] = "&"
    BY <1>10, <1>12, <1>14
  <2>. QED
    BY <1>13, <2>3, <2>4
<1>15. ASSUME NEW p \in S
       PROVE  \E k \in 1 .. m : k > 1 /\ p = c[k - 1] + 1
  <2>1. p \in first .. L /\ u[p] = "&"
    BY <1>13
  <2>2. PICK k \in 1 .. m : \E j \in 1 .. e[k] : p = c[k - 1] + j
    BY <1>11, <2>1
  <2>3. PICK j \in 1 .. e[k] : p = c[k - 1] + j
    BY <2>2
  <2>. QED
    BY <1>12, <2>1, <2>3
<1>16. Separators(first) = s /\ Len(Separators(first)) = m - 1
  <2>1. Separators(first) = Sorted(S) /\ m - 1 \in Nat
    BY <1>3, <1>6 DEF Separators, S
  <2>2. S \in SUBSET (1 .. L) /\ L \in Nat
    BY <1>1, <1>13
  <2>3. ASSUME NEW k \in 1 .. m - 1
        PROVE  s[k] \in S
    <3>. DEFINE l == k + 1
    <3>1. l \in 1 .. m /\ l > 1 /\ l - 1 = k
      BY <1>3
    <3>. HIDE DEF l
    <3>2. c[l - 1] + 1 \in S
      BY <1>14, <3>1
    <3>. QED
      BY <3>1, <3>2
  <2>4. \A p \in S : \E k \in 1 .. m - 1 : s[k] = p
    <3>1. ASSUME NEW p \in S
          PROVE  \E k \in 1 .. m - 1 : s[k] = p
      <4>1. PICK k \in 1 .. m : k > 1 /\ p = c[k - 1] + 1
        BY <1>15
      <4>2. k - 1 \in 1 .. m - 1
        BY <1>3, <4>1
      <4>. QED
        BY <4>1, <4>2
    <3>. QED
      BY <3>1
  <2>5. Increasing(s)
    <3>1. ASSUME NEW j \in 1 .. m - 1, NEW k \in 1 .. m - 1, j < k
          PROVE  c[j] + 1 < c[k] + 1
      <4>1. k \in 1 .. m /\ j \in 1 .. m /\ j \in 0 .. k - 1 /\ k - 1 \in 0 .. m
        BY <1>3, <3>1
      <4>2. Sums(c, m, e)
        BY <1>10 DEF Sums
      <4>3. c[j] <= c[k - 1]
        BY <1>3, <4>1, <4>2, SumsGrow
      <4>4. c[k] = c[k - 1] + e[k] /\ e[k] >= 3 /\ e[k] \in Nat /\ c[k - 1] \in Nat
            /\ c[j] \in Nat /\ c[k] \in Nat
        BY <1>10, <4>1
      <4>. QED
        BY <4>3, <4>4
    <3>2. \A j, k \in DOMAIN s : j < k => s[j] < s[k]
      BY <3>1
    <3>. QED
      BY <3>2 DEF Increasing
  <2>6. s \in [1 .. m - 1 -> S]
    BY <2>3
  <2>. HIDE DEF s
  <2>7. Enumerates(s, m - 1, S)
    BY <2>4, <2>5, <2>6 DEF Enumerates
  <2>. QED
    BY <2>1, <2>2, <2>7, SortedIs
<1>17. Found_n(first) = m
  <2>. DEFINE T == {Len(Separators(first)) + 1, max_query_parameters_amount}
              x == Min(T)
  <2>1. T = {m, max_query_parameters_amount}
    BY <1>3, <1>16
  <2>2. Found_n(first) = x
    BY DEF Found_n
  <2>. HIDE DEF T
  <2>3. T \in SUBSET Nat /\ T # {} /\ m \in T
    BY <1>3, <2>1, Limits
  <2>4. x \in T /\ x <= m
    BY <2>3, MinLemma
  <2>. HIDE DEF x, first
  <2>5. x = m
    BY <1>3, <1>6, <2>1, <2>4, Limits
  <2>. QED
    BY <2>2, <2>5
<1>18. ASSUME NEW k \in 1 .. m
       PROVE  KeyAt(first, k) = c[k - 1] + 2 /\ NextAt(first, k) = c[k] + 1
  <2>1. KeyAt(first, k) = IF k = 1 THEN first ELSE Separators(first)[k - 1] + 1
    BY DEF KeyAt
  <2>2. NextAt(first, k) = IF k < m THEN Separators(first)[k] ELSE L + 1
    BY <1>8, <1>17 DEF NextAt
  <2>3. \A j \in 1 .. m - 1 : Separators(first)[j] = c[j] + 1
    BY <1>16
  <2>4. c[k - 1] \in Nat /\ c[k] \in Nat /\ m \in Nat
    BY <1>3, <1>10
  <2>5. first = c[0] + 2 /\ c[m] = L
    BY <1>1, <1>3
  <2>. HIDE DEF first
  <2>6. KeyAt(first, k) = c[k - 1] + 2
    <3>1. CASE k = 1
      BY <2>1, <2>5, <3>1
    <3>2. CASE k # 1
      <4>1. k - 1 \in 1 .. m - 1
        BY <2>4, <3>2
      <4>2. Separators(first)[k - 1] = c[k - 1] + 1
        BY <2>3, <4>1
      <4>. QED
        BY <2>1, <2>4, <3>2, <4>2
    <3>. QED
      BY <3>1, <3>2
  <2>7. NextAt(first, k) = c[k] + 1
    <3>1. CASE k = m
      BY <2>2, <2>4, <2>5, <3>1
    <3>2. CASE k # m
      <4>1. k \in 1 .. m - 1 /\ k < m
        BY <2>4, <3>2
      <4>. QED
        BY <2>2, <2>3, <4>1
    <3>. QED
      BY <3>1, <3>2
  <2>. QED
    BY <2>6, <2>7
<1>19. ASSUME NEW k \in 1 .. m
       PROVE  EqualsAt(first, k) # {} /\ Min(EqualsAt(first, k)) = c[k - 1] + 3
  <2>. DEFINE E == EqualsAt(first, k)
              lo == c[k - 1]
              hi == c[k]
              size == e[k]
  <2>1. /\ hi = lo + size /\ lo \in Nat /\ hi \in Nat /\ lo >= M - 1 /\ hi <= L
        /\ size \in Nat /\ size >= 3
    BY <1>10
  <2>2. E = {p \in lo + 2 .. hi : max_path[p] = "="}
    <3>1. E = {p \in lo + 2 .. (hi + 1) - 1 : max_path[p] = "="}
      BY <1>18 DEF EqualsAt, Found
    <3>2. (hi + 1) - 1 = hi
      BY <2>1
    <3>. HIDE DEF E, lo, hi
    <3>. QED
      BY <3>1, <3>2
  <2>3. u[lo + 2] # "=" /\ u[lo + 3] = "="
    <3>1. u[c[k - 1] + 2] # "=" /\ u[c[k - 1] + 3] = "="
      BY <1>4, <1>5
    <3>. QED
      BY <3>1
  <2>. HIDE DEF E, lo, hi, size
  <2>4. \A p \in lo + 2 .. hi : p \in M + 1 .. L /\ p \in Nat
    BY <1>1, <2>1
  <2>5. lo + 3 \in lo + 2 .. hi /\ lo + 2 \in lo + 2 .. hi
    BY <2>1
  <2>6. max_path[lo + 2] # "=" /\ max_path[lo + 3] = "="
    BY <1>2, <2>3, <2>4, <2>5
  <2>7. lo + 3 \in E /\ \A p \in E : lo + 3 <= p
    <3>1. lo + 3 \in E
      BY <2>2, <2>5, <2>6
    <3>2. ASSUME NEW p \in E
          PROVE  lo + 3 <= p
      <4>1. p \in lo + 2 .. hi /\ p # lo + 2
        BY <2>2, <2>6
      <4>. QED
        BY <2>1, <4>1
    <3>. QED
      BY <3>1, <3>2
  <2>8. E \in SUBSET Nat /\ E # {}
    BY <2>2, <2>4, <2>7
  <2>. DEFINE x == Min(E)
  <2>9. x \in E /\ x <= lo + 3
    BY <2>7, <2>8, MinLemma
  <2>10. x \in Nat /\ lo + 3 <= x
    BY <2>7, <2>8, <2>9
  <2>. HIDE DEF x
  <2>11. x = lo + 3
    BY <2>1, <2>9, <2>10
  <2>. QED
    BY <2>8, <2>11 DEF x, E, lo
<1>20. \A k \in 1 .. m : ValAt(first, k) = c[k - 1] + 4
  <2>1. ASSUME NEW k \in 1 .. m
        PROVE  ValAt(first, k) = c[k - 1] + 4
    <3>1. ValAt(first, k) = c[k - 1] + 3 + 1
      BY <1>19 DEF ValAt
    <3>2. c[k - 1] \in Nat
      BY <1>10
    <3>. QED
      BY <3>1, <3>2
  <2>. QED
    BY <2>1
<1>21. \A p : p \in Ends(first) <=> \/ \E k \in 1 .. m - 1 : p = c[k] + 1
                                   \/ \E k \in 1 .. m : p = c[k - 1] + 3
  <2>1. Ends(first) = {Separators(first)[k] : k \in 1 .. m - 1}
                        \cup {ValAt(first, k) - 1 : k \in 1 .. m}
    BY <1>17 DEF Ends
  <2>2. \A k \in 1 .. m - 1 : Separators(first)[k] = c[k] + 1
    BY <1>16
  <2>3. \A k \in 1 .. m : ValAt(first, k) - 1 = c[k - 1] + 3
    <3>1. ASSUME NEW k \in 1 .. m
          PROVE  ValAt(first, k) - 1 = c[k - 1] + 3
      <4>1. c[k - 1] \in Nat /\ ValAt(first, k) = c[k - 1] + 4
        BY <1>10, <1>20
      <4>. QED
        BY <4>1
    <3>. QED
      BY <3>1
  <2>. HIDE DEF first
  <2>. QED
    BY <2>1, <2>2, <2>3
<1>22. \A k \in 1 .. m : KeyAt(first, k) = c[k - 1] + 2
  BY <1>18
<1>. HIDE DEF first
<1>23. /\ max_path[M + 1] # Nul /\ Found_n(M + 1) = m
       /\ \A k \in 1 .. m : KeyAt(M + 1, k) = c[k - 1] + 2 /\ ValAt(M + 1, k) = c[k - 1] + 4
       /\ \A p : p \in Ends(M + 1) <=> \/ \E k \in 1 .. m - 1 : p = c[k] + 1
                                       \/ \E k \in 1 .. m : p = c[k - 1] + 3
  BY <1>9, <1>17, <1>20, <1>21, <1>22, Zenon DEF first
<1>. QED
  BY <1>23, Zenon DEF QuerySplit, m, M


\* What yuarel_parse_query overwrites is behind the question mark, and of each
\* parameter the equals sign and what stands before the key.
LEMMA QueryEnds ==
  ASSUME NEW r \in WellFormedRequests, NEW c, QuerySums(r, c), QuerySplit(r, c)
  PROVE  /\ \A p \in Ends(Mark(r) + 1) : p \in Nat /\ p > Mark(r)
         /\ \A k \in 1 .. Len(r.query) : \A j \in 1 .. QueryLengths(r)[k] :
              c[k - 1] + j \in Ends(Mark(r) + 1) <=> j = 3 \/ (j = 1 /\ k > 1)
         /\ \A k \in 1 .. Len(r.query) - 1 : c[k] + 1 \in Ends(Mark(r) + 1)
         /\ Len(Url(r)) + 1 \notin Ends(Mark(r) + 1)
<1>. DEFINE M == Mark(r)
            L == Len(Url(r))
            m == Len(r.query)
            e == QueryLengths(r)
            ends == Ends(M + 1)
<1>1. /\ m \in Nat /\ Apart(c, m, e)
      /\ \A k \in 1 .. m : /\ c[k] = c[k - 1] + e[k] /\ c[k - 1] \in Nat /\ c[k] \in Nat
                           /\ c[k - 1] >= M - 1 /\ c[k] <= L
                           /\ Len(r.query[k].val) \in Nat
                           /\ e[k] = 3 + Len(r.query[k].val) /\ e[k] \in Nat
  BY DEF QuerySums
<1>2. \A p : p \in ends <=> \/ \E k \in 1 .. m - 1 : p = c[k] + 1
                            \/ \E k \in 1 .. m : p = c[k - 1] + 3
  BY DEF QuerySplit
<1>3. M \in Nat /\ L \in Nat
  BY UrlLemma
<1>. HIDE DEF M, L, m, e, ends
<1>4. ASSUME NEW k \in 1 .. m
      PROVE  /\ c[k] = c[k - 1] + e[k] /\ c[k - 1] \in Nat /\ c[k] \in Nat
             /\ c[k - 1] >= M - 1 /\ c[k] <= L /\ e[k] \in Nat /\ e[k] >= 3
             /\ 1 \in 1 .. e[k] /\ 3 \in 1 .. e[k]
  <2>1. /\ c[k] = c[k - 1] + e[k] /\ c[k - 1] \in Nat /\ c[k] \in Nat
        /\ c[k - 1] >= M - 1 /\ c[k] <= L /\ e[k] \in Nat
        /\ Len(r.query[k].val) \in Nat /\ e[k] = 3 + Len(r.query[k].val)
    BY <1>1, Zenon
  <2>. DEFINE z == Len(r.query[k].val)
  <2>2. z \in Nat /\ e[k] = 3 + z
    BY <2>1
  <2>. HIDE DEF z
  <2>3. e[k] >= 3 /\ 1 \in 1 .. e[k] /\ 3 \in 1 .. e[k]
    BY <2>2
  <2>. QED
    BY <2>1, <2>3
<1>5. ASSUME NEW p \in ends
      PROVE  p \in Nat /\ p > M /\ p # L + 1
  <2>1. CASE \E k \in 1 .. m - 1 : p = c[k] + 1
    <3>1. PICK k \in 1 .. m - 1 : p = c[k] + 1
      BY <2>1
    <3>. DEFINE l == k + 1
    <3>2. k \in 1 .. m /\ l \in 1 .. m /\ l - 1 = k
      BY <1>1
    <3>. HIDE DEF l
    <3>3. /\ c[k] = c[k - 1] + e[k] /\ c[k - 1] >= M - 1 /\ e[k] >= 3 /\ e[k] \in Nat
          /\ c[k - 1] \in Nat /\ c[k] \in Nat
      BY <1>4, <3>2
    <3>4. c[l] = c[k] + e[l] /\ e[l] >= 3 /\ e[l] \in Nat /\ c[l] <= L /\ c[l] \in Nat
      BY <1>4, <3>2
    <3>5. p \in Nat /\ p > M
      BY <1>3, <3>1, <3>3
    <3>6. p < L + 1
      BY <1>3, <3>1, <3>3, <3>4
    <3>. QED
      BY <1>3, <3>5, <3>6
  <2>2. CASE \E k \in 1 .. m : p = c[k - 1] + 3
    <3>1. PICK k \in 1 .. m : p = c[k - 1] + 3
      BY <2>2
    <3>2. /\ c[k] = c[k - 1] + e[k] /\ c[k - 1] >= M - 1 /\ e[k] >= 3 /\ e[k] \in Nat
          /\ c[k - 1] \in Nat /\ c[k] \in Nat /\ c[k] <= L
      BY <1>4
    <3>. DEFINE lo == c[k - 1]
                size == e[k]
    <3>3. p = lo + 3 /\ lo \in Nat /\ size \in Nat /\ size >= 3 /\ lo >= M - 1
          /\ lo + size <= L
      BY <3>1, <3>2
    <3>. HIDE DEF lo, size
    <3>4. p \in Nat /\ p > M /\ p < L + 1
      BY <1>3, <3>3
    <3>. QED
      BY <1>3, <3>4
  <2>. QED
    BY <1>2, <2>1, <2>2
<1>6. \A k \in 1 .. m - 1 : c[k] + 1 \in ends
  BY <1>2
<1>7. ASSUME NEW k \in 1 .. m, NEW j \in 1 .. e[k]
      PROVE  c[k - 1] + j \in ends <=> j = 3 \/ (j = 1 /\ k > 1)
  <2>1. CASE j = 3
    BY <1>2, <2>1
  <2>2. CASE j = 1 /\ k > 1
    <3>. DEFINE l == k - 1
    <3>1. l \in 1 .. m - 1
      BY <1>1, <2>2
    <3>. HIDE DEF l
    <3>2. c[l] + 1 \in ends
      BY <1>6, <3>1
    <3>. QED
      BY <2>2, <3>2 DEF l
  <2>3. ASSUME c[k - 1] + j \in ends
        PROVE  j = 3 \/ (j = 1 /\ k > 1)
    <3>1. CASE \E l \in 1 .. m - 1 : c[k - 1] + j = c[l] + 1
      <4>1. PICK l \in 1 .. m - 1 : c[k - 1] + j = c[l] + 1
        BY <3>1
      <4>. DEFINE o == l + 1
      <4>2. o \in 1 .. m /\ o - 1 = l /\ o > 1
        BY <1>1
      <4>. HIDE DEF o
      <4>3. 1 \in 1 .. e[o] /\ c[k - 1] + j = c[o - 1] + 1
        BY <1>4, <4>1, <4>2
      <4>5. Apart(c, m, e)
        BY <1>1
      <4>4. k = o /\ j = 1
        BY <4>2, <4>3, <4>5 DEF Apart
      <4>. QED
        BY <4>2, <4>4
    <3>2. CASE \E l \in 1 .. m : c[k - 1] + j = c[l - 1] + 3
      <4>1. PICK l \in 1 .. m : c[k - 1] + j = c[l - 1] + 3
        BY <3>2
      <4>2. 3 \in 1 .. e[l]
        BY <1>4
      <4>4. Apart(c, m, e)
        BY <1>1
      <4>3. j = 3
        BY <4>1, <4>2, <4>4 DEF Apart
      <4>. QED
        BY <4>3
    <3>. QED
      BY <1>2, <2>3, <3>1, <3>2
  <2>. QED
    BY <2>1, <2>2, <2>3
<1>8. L + 1 \notin ends
  BY <1>5
<1>. QED
  BY <1>5, <1>6, <1>7, <1>8, Zenon DEF M, L, m, e, ends

\* A text stays where NUL is written elsewhere.
LEMMA TextKept ==
  ASSUME PathTyped, NEW S, NEW p, NEW text, Len(text) \in Nat, TextAt(p, text),
         max_path' = Terminated(S), \A q \in p .. p + Len(text) : q \notin S
  PROVE  TextAt(p, text)'
<1>. DEFINE n == Len(text)
<1>1. /\ p \in 1 .. PathSize /\ p + n <= PathSize /\ max_path[p + n] = Nul
      /\ \A j \in 1 .. n : max_path[p + (j - 1)] = text[j]
  BY DEF TextAt
<1>2. n \in Nat /\ PathSize \in Nat /\ \A q \in p .. p + n : q \notin S
  BY Limits
<1>. HIDE DEF n
<1>3. \A q \in p .. p + n : max_path'[q] = max_path[q]
  BY <1>1, <1>2 DEF Terminated
<1>4. p + n \in p .. p + n /\ \A j \in 1 .. n : p + (j - 1) \in p .. p + n
  BY <1>1, <1>2
<1>5. max_path'[p + n] = Nul /\ \A j \in 1 .. n : max_path'[p + (j - 1)] = text[j]
  BY <1>1, <1>3, <1>4
<1>. QED
  BY <1>1, <1>5 DEF TextAt, n

\* The texts of the k-th parameter, once yuarel_parse_query has ended them.
LEMMA ParameterTexts ==
  ASSUME PathTyped, NEW r \in WellFormedRequests, QueryCopied(r), NEW c, QueryAt(r, c),
         QuerySums(r, c), QuerySplit(r, c), max_path' = Terminated(Ends(Mark(r) + 1)),
         NEW k \in 1 .. Len(r.query)
  PROVE  /\ TextAt(c[k - 1] + 2, <<r.query[k].key>>)'
         /\ TextAt(c[k - 1] + 4, r.query[k].val)'
<1>. DEFINE u == Url(r)
            L == Len(u)
            M == Mark(r)
            m == Len(r.query)
            e == QueryLengths(r)
            ends == Ends(M + 1)
            lo == c[k - 1]
            size == Len(r.query[k].val)
            key == r.query[k].key
            val == r.query[k].val
<1>1. L \in Nat /\ L < PathSize /\ M \in Nat /\ PathSize \in Nat
  BY UrlLemma, Limits
<1>2. (\A p \in M + 1 .. L : max_path[p] = u[p]) /\ max_path[L + 1] = Nul
  BY DEF QueryCopied
<1>3. /\ m \in Nat /\ c[m] = L
      /\ c[k] = lo + e[k] /\ lo \in Nat /\ c[k] \in Nat /\ lo >= M - 1 /\ c[k] <= L
      /\ size \in Nat /\ e[k] = 3 + size
  BY DEF QuerySums
<1>4. /\ u[lo + 2] = key
      /\ \A j \in 1 .. size : u[lo + (3 + j)] = val[j]
  BY DEF QueryAt
<1>5. /\ \A j \in 1 .. e[k] : lo + j \in ends <=> j = 3 \/ (j = 1 /\ k > 1)
      /\ \A l \in 1 .. m - 1 : c[l] + 1 \in ends
      /\ L + 1 \notin ends
  BY QueryEnds
<1>6. max_path' = [p \in 1 .. PathSize |-> IF p \in ends THEN Nul ELSE max_path[p]]
  BY DEF Terminated
<1>7. k \in 1 .. m
  OBVIOUS
<1>. HIDE DEF u, L, M, m, e, ends, lo, size, key, val
<1>8. c[k] = lo + (3 + size) /\ lo + (3 + size) <= L
  BY <1>3
<1>9. /\ lo + 2 \in 1 .. PathSize /\ lo + 4 \in 1 .. PathSize
      /\ lo + 3 \in 1 .. PathSize /\ lo + 4 + size \in 1 .. PathSize
      /\ lo + 2 \in M + 1 .. L
  BY <1>1, <1>3, <1>8
<1>10. max_path'[lo + 3] = Nul
  <2>1. 3 \in 1 .. e[k]
    BY <1>3
  <2>. QED
    BY <1>5, <1>6, <1>9, <2>1
<1>11. max_path'[lo + 2] = key
  <2>1. 2 \in 1 .. e[k]
    BY <1>3
  <2>2. lo + 2 \notin ends
    BY <1>5, <2>1
  <2>. QED
    BY <1>2, <1>4, <1>6, <1>9, <2>2
<1>12. max_path'[lo + 4 + size] = Nul
  <2>1. lo + 4 + size = c[k] + 1
    BY <1>3, <1>8
  <2>2. c[k] + 1 \in ends \/ max_path[c[k] + 1] = Nul
    <3>1. CASE k = m
      BY <1>2, <1>3, <3>1
    <3>2. CASE k # m
      <4>1. k \in 1 .. m - 1
        BY <1>3, <1>7, <3>2
      <4>. QED
        BY <1>5, <4>1
    <3>. QED
      BY <3>1, <3>2
  <2>3. c[k] + 1 \in 1 .. PathSize
    BY <1>9, <2>1
  <2>. QED
    BY <1>6, <2>1, <2>2, <2>3
<1>13. ASSUME NEW j \in 1 .. size
       PROVE  max_path'[lo + 4 + (j - 1)] = val[j]
  <2>1. 3 + j \in 1 .. e[k] /\ 3 + j # 3 /\ 3 + j # 1
    BY <1>3
  <2>2. lo + (3 + j) \notin ends
    BY <1>5, <2>1
  <2>3. lo + (3 + j) \in M + 1 .. L /\ lo + (3 + j) \in 1 .. PathSize
    BY <1>1, <1>3, <1>8
  <2>4. max_path'[lo + (3 + j)] = u[lo + (3 + j)]
    BY <1>2, <1>6, <2>2, <2>3
  <2>5. lo + 4 + (j - 1) = lo + (3 + j)
    BY <1>3
  <2>. QED
    BY <1>4, <2>4, <2>5
<1>14. TextAt(lo + 2, <<key>>)'
  <2>1. lo' = lo /\ key' = key
    BY DEF lo, key
  <2>2. Len(<<key>>) = 1 /\ <<key>>[1] = key
    OBVIOUS
  <2>3. lo + 2 + 1 = lo + 3 /\ lo + 2 + (1 - 1) = lo + 2 /\ lo + 2 + 1 <= PathSize
    BY <1>1, <1>3, <1>9
  <2>4. \A j \in 1 .. 1 : max_path'[lo + 2 + (j - 1)] = <<key>>[j]
    BY <1>11, <2>2, <2>3
  <2>5. /\ lo + 2 \in 1 .. PathSize /\ lo + 2 + Len(<<key>>) <= PathSize
        /\ max_path'[lo + 2 + Len(<<key>>)] = Nul
        /\ \A j \in 1 .. Len(<<key>>) : max_path'[lo + 2 + (j - 1)] = <<key>>[j]
    BY <1>9, <1>10, <2>2, <2>3, <2>4
  <2>. QED
    BY <2>1, <2>5 DEF TextAt
<1>15. TextAt(lo + 4, val)'
  <2>1. lo' = lo /\ val' = val
    BY DEF lo, val
  <2>2. lo + 4 + size <= PathSize
    BY <1>9
  <2>3. /\ lo + 4 \in 1 .. PathSize /\ lo + 4 + Len(val) <= PathSize
        /\ max_path'[lo + 4 + Len(val)] = Nul
        /\ \A j \in 1 .. Len(val) : max_path'[lo + 4 + (j - 1)] = val[j]
    BY <1>9, <1>12, <1>13, <2>2 DEF size, val
  <2>. QED
    BY <2>1, <2>3 DEF TextAt
<1>. QED
  BY <1>14, <1>15 DEF lo, key, val

\* The parameters are found, and the parts stay.
LEMMA YuarelParseQueryAdvances ==
  ASSUME TypeInv, NEW w \in Workers, request[w] \in WellFormedRequests,
         Progress(w), YuarelParseQuery(w)
  PROVE  Advances(w)
<1>. DEFINE r == request[w]
            M == Mark(r)
            m == Len(r.query)
            ends == Ends(M + 1)
<1>1. ~crashed /\ pc[w] = "SplitQuery" /\ UNCHANGED <<request, query, parts, alone>>
  BY YuarelParseQueryIs
<1>2. r \in WellFormedRequests /\ PathTyped
  BY <1>1 DEF TypeInv, Counters, Counter
<1>3. /\ PartsFound(w) /\ PartsBefore(w) /\ m # 0 /\ query[w] = M + 1
      /\ QueryCopied(r) /\ Filtered(w, 0)
  BY <1>1 DEF Progress, QueryAhead
<1>4. PICK c : QueryAt(r, c)
  BY <1>2, QueryLemma
<1>5. QuerySums(r, c) /\ QuerySplit(r, c)
  BY <1>2, <1>3, <1>4, QuerySumsLemma, QuerySplitLemma
<1>6. /\ max_path[M + 1] # Nul /\ Found_n(M + 1) = m
      /\ \A k \in 1 .. m : KeyAt(M + 1, k) = c[k - 1] + 2 /\ ValAt(M + 1, k) = c[k - 1] + 4
  BY <1>5 DEF QuerySplit
<1>7. /\ max_path' = Terminated(ends)
      /\ query_parameters' = [k \in DOMAIN query_parameters |->
           IF k <= m THEN [key |-> KeyAt(M + 1, k), val |-> ValAt(M + 1, k)]
           ELSE query_parameters[k]]
      /\ amount' = [amount EXCEPT ![w] = m]
      /\ i' = [i EXCEPT ![w] = 1]
      /\ pc' = [pc EXCEPT ![w] = "parameter"]
      /\ UNCHANGED <<crashed, result>>
  <2>. HIDE DEF M, m
  <2>. QED
    BY <1>3, <1>6, YuarelParseQueryIs, ZenonT(40)
<1>8. pc'[w] = "parameter" /\ i'[w] = 1 /\ amount'[w] = m
  BY <1>7 DEF TypeInv, LocalsTyped
<1>9. Filtered(w, i[w] - 1)'
  <2>1. Filtered(w, 0)'
    BY <1>1, <1>3, <1>7 DEF Filtered
  <2>2. i'[w] - 1 = 0
    BY <1>8
  <2>. QED
    BY <2>1, <2>2 DEF Filtered
<1>10. PartsFound(w)'
  <2>1. ASSUME NEW k \in 1 .. Len(parts[w])
        PROVE  TextAt(parts[w][k], r.path[k])'
    <3>. DEFINE p == parts[w][k]
                text == r.path[k]
    <3>1. TextAt(p, text) /\ p + Len(text) <= M
      BY <1>3 DEF PartsFound, PartsBefore
    <3>2. Len(parts[w]) = Len(r.path)
      BY <1>3 DEF PartsFound
    <3>3. Len(text) \in Nat
      BY <1>2, <3>2, RequestParts
    <3>4. \A q \in ends : q \in Nat /\ q > M
      BY <1>2, <1>5, QueryEnds
    <3>5. M \in Nat /\ p \in Nat
      BY <1>2, <3>1, UrlLemma, Limits DEF TextAt
    <3>6. p' = p /\ text' = text
      BY <1>1
    <3>. HIDE DEF p, text, ends, M
    <3>7. \A q \in p .. p + Len(text) : q \notin ends
      BY <3>1, <3>3, <3>4, <3>5
    <3>8. \A pos, t : pos = p /\ t = text => TextAt(pos, t)'
      <4>1. ASSUME NEW pos, NEW t, pos = p, t = text
            PROVE  TextAt(pos, t)'
        BY <1>2, <1>7, <3>1, <3>3, <3>7, <4>1, TextKept
      <4>. QED
        BY <4>1
    <3>9. TextAt(p, text)'
      BY <3>6, <3>8
    <3>. QED
      BY <3>9 DEF p, text
  <2>2. Len(parts'[w]) = Len(request'[w].path)
    BY <1>1, <1>3 DEF PartsFound
  <2>3. \A k \in 1 .. Len(parts'[w]) : TextAt(parts[w][k], request[w].path[k])'
    BY <1>1, <2>1
  <2>. QED
    BY <2>2, <2>3 DEF PartsFound
<1>11. ParametersFound(w)'
  <2>1. ASSUME NEW k \in 1 .. m
        PROVE  ParameterFound(r.query, k)'
    <3>1. k \in 1 .. max_query_parameters_amount /\ k <= m
      <4>1. m \in 0 .. max_query_parameters_amount
        BY <1>2, RequestParts
      <4>. HIDE DEF m
      <4>. QED
        BY <4>1, Limits
    <3>2. DOMAIN query_parameters = 1 .. max_query_parameters_amount
      BY DEF TypeInv, ParametersTyped
    <3>3. query_parameters'[k] = [key |-> c[k - 1] + 2, val |-> c[k - 1] + 4]
      BY <1>6, <1>7, <3>1, <3>2
    <3>4. TextAt(c[k - 1] + 2, <<r.query[k].key>>)' /\ TextAt(c[k - 1] + 4, r.query[k].val)'
      <4>1. ASSUME NEW s, s = r
            PROVE  /\ TextAt(c[k - 1] + 2, <<s.query[k].key>>)'
                   /\ TextAt(c[k - 1] + 4, s.query[k].val)'
        BY <1>2, <1>3, <1>4, <1>5, <1>7, <4>1, ParameterTexts
      <4>2. r' = r
        BY <1>1
      <4>. QED
        BY <4>1, <4>2
    <3>. QED
      BY <3>3, <3>4 DEF ParameterFound
  <2>2. amount'[w] = Len(request'[w].query)
    BY <1>1, <1>8
  <2>3. \A k \in 1 .. Len(request'[w].query) : ParameterFound(request[w].query, k)'
    BY <1>1, <2>1
  <2>. QED
    BY <2>2, <2>3 DEF ParametersFound
<1>. QED
  BY <1>1, <1>7, <1>8, <1>9, <1>10, <1>11 DEF Advances, Progress

\* A parameter whose key is not known sets no filter.
LEMMA FilterSkipped ==
  ASSUME NEW filters, NEW q, NEW k \in Nat \ {0}, q[k].key \notin Keys,
         FiltersSet(filters, q, k - 1)
  PROVE  FiltersSet(filters, q, k)
<1>1. Known(q, k) = Known(q, k - 1)
  BY DEF Known
<1>. QED
  BY <1>1 DEF FiltersSet, Latest

\* A known parameter sets the filter of its key, the latest counts.
LEMMA FilterAdded ==
  ASSUME NEW filters, NEW q, NEW k \in Nat \ {0}, q[k].key \in Keys,
         Accepted(q[k].key, q[k].val), FiltersSet(filters, q, k - 1)
  PROVE  FiltersSet(WithFilter(filters, q[k].key, Value(q[k].key, q[k].val)), q, k)
<1>. DEFINE v == Value(q[k].key, q[k].val)
            key == q[k].key
            f == WithFilter(filters, key, v)
<1>1. Known(q, k) = Known(q, k - 1) \cup {k} /\ k \notin Known(q, k - 1)
      /\ \A j \in Known(q, k - 1) : j \in Nat /\ j < k
  BY DEF Known
<1>2. f = [x \in DOMAIN filters \cup {key} |-> IF x = key THEN v ELSE filters[x]]
  BY DEF WithFilter
<1>3. /\ \A j \in Known(q, k - 1) : Accepted(q[j].key, q[j].val)
      /\ DOMAIN filters = {q[j].key : j \in Known(q, k - 1)}
      /\ \A j \in Known(q, k - 1) :
           Latest(q, k - 1, j) => filters[q[j].key] = Value(q[j].key, q[j].val)
  BY DEF FiltersSet
<1>. HIDE DEF f, v
<1>4. \A j \in Known(q, k) : Accepted(q[j].key, q[j].val)
  BY <1>1, <1>3
<1>5. DOMAIN f = {q[j].key : j \in Known(q, k)}
  BY <1>1, <1>2, <1>3
<1>6. ASSUME NEW j \in Known(q, k), Latest(q, k, j)
      PROVE  f[q[j].key] = Value(q[j].key, q[j].val)
  <2>1. CASE j = k
    BY <1>2, <2>1 DEF v
  <2>2. CASE j # k
    <3>1. j \in Known(q, k - 1) /\ k > j /\ k \in Known(q, k)
      BY <1>1, <2>2
    <3>2. Latest(q, k - 1, j) /\ q[k].key # q[j].key
      BY <1>1, <1>6, <3>1 DEF Latest
    <3>3. q[j].key \in DOMAIN filters
      BY <1>3, <3>1
    <3>4. filters[q[j].key] = Value(q[j].key, q[j].val)
      BY <1>3, <3>1, <3>2
    <3>. QED
      BY <1>2, <3>2, <3>3, <3>4
  <2>. QED
    BY <2>1, <2>2
<1>. QED
  BY <1>4, <1>5, <1>6 DEF FiltersSet, f, v

\* A request is refused for a known parameter with another value.
LEMMA Refused ==
  ASSUME NEW r \in WellFormedRequests, NEW k \in 1 .. Len(r.query), r.query[k].key \in Keys,
         ~Accepted(r.query[k].key, r.query[k].val), NEW outcome, outcome.error = "BadRequest"
  PROVE  IsMeaning(outcome, r)
<1>1. DOMAIN r.query = 1 .. Len(r.query)
  BY RequestParts
<1>2. k \in {j \in DOMAIN r.query : r.query[j].key \in Keys}
  BY <1>1
<1>. QED
  BY <1>2 DEF IsMeaning

\* An iteration reads the key and the value of its parameter.
LEMMA SplitQueryParameterAdvances ==
  ASSUME TypeInv, NEW w \in Workers, request[w] \in WellFormedRequests,
         Progress(w), SplitQueryParameter(w)
  PROVE  Advances(w)
<1>. DEFINE r == request[w]
            q == r.query
            m == Len(q)
            k == i[w]
            key == q[k].key
            val == q[k].val
<1>1. /\ ~crashed /\ pc[w] = "parameter" /\ k <= amount[w]
      /\ UNCHANGED <<max_path, query_parameters, request, query, parts, amount, alone>>
  BY SplitQueryParameterIs
<1>2. r \in WellFormedRequests /\ PathTyped /\ k \in 1 .. amount[w] + 1
      /\ amount[w] \in 0 .. max_query_parameters_amount
  BY <1>1 DEF TypeInv, Counters, Counter, LocalsTyped
<1>3. PartsFound(w) /\ ParametersFound(w) /\ Filtered(w, k - 1)
  BY <1>1 DEF Progress
<1>4. amount[w] = m /\ k \in 1 .. m /\ k \in Nat \ {0}
  <2>1. amount[w] = m
    BY <1>3 DEF ParametersFound
  <2>. HIDE DEF m
  <2>. QED
    BY <1>1, <1>2, <2>1, Limits
<1>5. TextAt(query_parameters[k].key, <<key>>) /\ TextAt(query_parameters[k].val, val)
  BY <1>3, <1>4 DEF ParametersFound, ParameterFound
<1>6. key \in KeyBytes /\ val \in Seq(Byte \ {Nul})
  BY <1>2, <1>4, RequestParts
<1>7. <<key>> \in Seq(Byte \ {Nul}) /\ Len(<<key>>) = 1 /\ <<key>>[1] = key
  BY <1>6 DEF KeyBytes
<1>. HIDE DEF key, val
<1>8. Text(query_parameters[k].key) = <<key>> /\ Text(query_parameters[k].val) = val
  BY <1>2, <1>5, <1>6, <1>7, TextLemma
<1>9. query_parameters[k].key # 0 /\ query_parameters[k].val # 0
  BY <1>5 DEF TextAt
<1>10. KeyName(k) = key /\ ValText(k) = val /\ ~NoPointer(k)
  BY <1>7, <1>8, <1>9 DEF KeyName, KeyText, ValText, NoPointer
<1>11. \/ /\ key \notin Keys
          /\ i' = [i EXCEPT ![w] = @ + 1]
          /\ UNCHANGED <<crashed, pc, result>>
       \/ /\ key \in Keys /\ Accepted(key, val)
          /\ result' = [result EXCEPT ![w].filters = WithFilter(@, key, Value(key, val))]
          /\ i' = [i EXCEPT ![w] = @ + 1]
          /\ UNCHANGED <<crashed, pc>>
       \/ /\ key \in Keys /\ ~Accepted(key, val)
          /\ result' = [result EXCEPT ![w].error = "BadRequest"]
          /\ pc' = [pc EXCEPT ![w] = "done"]
          /\ UNCHANGED <<crashed, i>>
  BY <1>10, SplitQueryParameterIs
<1>12. PartsFound(w)' /\ ParametersFound(w)'
  BY <1>1, <1>3 DEF PartsFound, ParametersFound, ParameterFound, TextAt
<1>13. DOMAIN result = Workers /\ DOMAIN result[w] = Fields
  BY DEF TypeInv, ResultsTyped, ResultTyped
<1>14. CASE key \notin Keys
  <2>1. i' = [i EXCEPT ![w] = @ + 1] /\ UNCHANGED <<crashed, pc, result>>
    BY <1>11, <1>14
  <2>2. i'[w] - 1 = k
    BY <1>4, <2>1 DEF TypeInv, LocalsTyped
  <2>3. FiltersSet(result[w].filters, q, k)
    BY <1>3, <1>4, <1>14, FilterSkipped DEF Filtered, key
  <2>4. Filtered(w, i[w] - 1)'
    BY <1>1, <2>1, <2>2, <2>3 DEF Filtered
  <2>. QED
    BY <1>1, <1>12, <2>1, <2>4 DEF Advances, Progress
<1>15. CASE key \in Keys /\ Accepted(key, val)
  <2>1. /\ result' = [result EXCEPT ![w].filters = WithFilter(@, key, Value(key, val))]
        /\ i' = [i EXCEPT ![w] = @ + 1] /\ UNCHANGED <<crashed, pc>>
    BY <1>11, <1>15
  <2>2. i'[w] - 1 = k
    BY <1>4, <2>1 DEF TypeInv, LocalsTyped
  <2>3. FiltersSet(WithFilter(result[w].filters, key, Value(key, val)), q, k)
    BY <1>3, <1>4, <1>15, FilterAdded DEF Filtered, key, val
  <2>4. result'[w].filters = WithFilter(result[w].filters, key, Value(key, val))
    BY <1>13, <2>1 DEF Fields
  <2>5. Filtered(w, i[w] - 1)'
    BY <1>1, <2>2, <2>3, <2>4 DEF Filtered
  <2>. QED
    BY <1>1, <1>12, <2>1, <2>5 DEF Advances, Progress
<1>16. CASE key \in Keys /\ ~Accepted(key, val)
  <2>1. /\ result' = [result EXCEPT ![w].error = "BadRequest"]
        /\ pc' = [pc EXCEPT ![w] = "done"] /\ UNCHANGED <<crashed, i>>
    BY <1>11, <1>16
  <2>2. pc'[w] = "done" /\ result'[w].error = "BadRequest"
    BY <1>13, <2>1 DEF TypeInv, LocalsTyped, Fields
  <2>3. IsMeaning(result'[w], r)
    BY <1>2, <1>4, <1>16, <2>2, Refused DEF key, val
  <2>4. IsMeaning(result[w], request[w])'
    BY <1>1, <2>3
  <2>. QED
    BY <1>1, <2>1, <2>2, <2>4 DEF Advances
<1>. QED
  BY <1>14, <1>15, <1>16

\* All filters are set.
LEMMA SplitQueryEndsAdvances ==
  ASSUME TypeInv, NEW w \in Workers, request[w] \in WellFormedRequests,
         Progress(w), SplitQueryEnds(w)
  PROVE  Advances(w)
<1>1. /\ ~crashed /\ pc[w] = "parameter" /\ ~(i[w] <= amount[w])
      /\ pc' = [pc EXCEPT ![w] = "Route"]
      /\ UNCHANGED <<max_path, query_parameters, crashed, i, request, query, parts, amount,
                     result, alone>>
  BY DEF SplitQueryEnds, InQuery, shared, locals
<1>2. PartsFound(w) /\ ParametersFound(w) /\ Filtered(w, i[w] - 1)
  BY <1>1 DEF Progress
<1>3. amount[w] = Len(request[w].query) /\ i[w] \in 1 .. amount[w] + 1
      /\ amount[w] \in 0 .. max_query_parameters_amount
  BY <1>1, <1>2 DEF ParametersFound, TypeInv, Counters, Counter, LocalsTyped
<1>4. i[w] - 1 = Len(request[w].query)
  BY <1>1, <1>3, Limits
<1>5. PartsFound(w)'
  BY <1>1, <1>2 DEF PartsFound, TextAt
<1>6. Filtered(w, Len(request[w].query))'
  BY <1>1, <1>2, <1>4 DEF Filtered
<1>7. pc'[w] = "Route"
  BY <1>1 DEF TypeInv, LocalsTyped
<1>. QED
  BY <1>1, <1>5, <1>6, <1>7 DEF Advances, Progress

\* The rows of the route table.
GetRow(entity, third, type) ==
  [method |-> "GET", entity |-> entity, to |-> "id", third |-> third, type |-> type]
PostRow(entity, to, type) ==
  [method |-> "POST", entity |-> entity, to |-> to, third |-> "any", type |-> type]

IsGetRow(x) ==
  \/ x = GetRow("users", "", "GetUserById")
  \/ x = GetRow("users", "visits", "GetVisitsByUserId")
  \/ x = GetRow("locations", "", "GetLocationById")
  \/ x = GetRow("locations", "avg", "GetAverageLocationMark")
  \/ x = GetRow("visits", "any", "GetVisitById")

IsPostRow(x) ==
  \/ x = PostRow("users", "new", "AddUser")
  \/ x = PostRow("users", "id", "UpdateUserById")
  \/ x = PostRow("locations", "new", "AddLocation")
  \/ x = PostRow("locations", "id", "UpdateLocationById")
  \/ x = PostRow("visits", "new", "AddVisit")
  \/ x = PostRow("visits", "id", "UpdateVisitById")

\* The route table is these rows.
LEMMA RouteTableIs == \A x : x \in RouteTable <=> IsGetRow(x) \/ IsPostRow(x)
<1>. DEFINE Triples == {<<"users", "AddUser", "UpdateUserById">>,
                        <<"locations", "AddLocation", "UpdateLocationById">>,
                        <<"visits", "AddVisit", "UpdateVisitById">>}
            Rows(t) == {PostRow(t[1], "new", t[2]), PostRow(t[1], "id", t[3])}
            Gets == {GetRow("users", "", "GetUserById"),
                     GetRow("users", "visits", "GetVisitsByUserId"),
                     GetRow("locations", "", "GetLocationById"),
                     GetRow("locations", "avg", "GetAverageLocationMark"),
                     GetRow("visits", "any", "GetVisitById")}
<1>1. RouteTable = Gets \cup UNION {Rows(t) : t \in Triples}
  BY DEF RouteTable, GetRow, PostRow
<1>2. \A x : x \in Gets <=> IsGetRow(x)
  BY DEF IsGetRow
<1>3. \A x : x \in UNION {Rows(t) : t \in Triples} <=> \E t \in Triples : x \in Rows(t)
  OBVIOUS
<1>4. \A x : (\E t \in Triples : x \in Rows(t)) <=> IsPostRow(x)
  <2>1. \A x : (\E t \in Triples : x \in Rows(t))
                 <=> \/ x \in Rows(<<"users", "AddUser", "UpdateUserById">>)
                     \/ x \in Rows(<<"locations", "AddLocation", "UpdateLocationById">>)
                     \/ x \in Rows(<<"visits", "AddVisit", "UpdateVisitById">>)
    <3>. HIDE DEF Rows
    <3>. QED
      OBVIOUS
  <2>. QED
    BY <2>1 DEF IsPostRow
<1>. QED
  BY <1>1, <1>2, <1>3, <1>4, Zenon

\* The path of a request as Route reads it: what it takes for a third part of
\* two is not read.
ReadAs(r, third) == Len(r.path) > 2 => third = r.path[3]

\* The type of a query is that of a row that fits it, if one does.
LEMMA GetMeaning ==
  ASSUME NEW r \in WellFormedRequests, r.method = "GET", IsNumber(r.path[2]),
         NEW third, ReadAs(r, third)
  PROVE  LET type == GetTypes(r.path[1], third, Len(r.path) = 2)
         IN /\ (\E x \in RouteTable : Fits(r, x)) => type # "None"
            /\ type # "None" => \E x \in RouteTable : Fits(r, x) /\ x.type = type
<1>. DEFINE first == r.path[1]
            two == Len(r.path) = 2
            type == GetTypes(first, third, two)
<1>1. Len(r.path) \in Nat /\ Len(r.path) >= 2
  BY RequestParts
<1>2. (Len(r.path) > 2 <=> ~two) /\ (~two => third = r.path[3])
  <2>. DEFINE z == Len(r.path)
  <2>1. z \in Nat /\ z >= 2
    BY <1>1
  <2>. HIDE DEF z
  <2>2. z > 2 <=> ~(z = 2)
    BY <2>1
  <2>3. Len(r.path) > 2 <=> ~two
    BY <2>2 DEF z, two
  <2>4. Len(r.path) > 2 => third = r.path[3]
    BY DEF ReadAs
  <2>. QED
    BY <2>3, <2>4
<1>3. ASSUME NEW entity, NEW exact, NEW t
      PROVE  Fits(r, GetRow(entity, exact, t))
               <=> /\ first = <<entity>>
                   /\ \/ exact = "any"
                      \/ exact = "" /\ two
                      \/ exact # "" /\ ~two /\ third = <<exact>>
  <2>. DEFINE row == GetRow(entity, exact, t)
  <2>1. /\ row.method = "GET" /\ row.entity = entity /\ row.to = "id" /\ row.third = exact
    BY DEF GetRow
  <2>2. Len(r.path) > 2 <=> ~two
    BY <1>2
  <2>. HIDE DEF row, two
  <2>3. Fits(r, row) <=> /\ r.method = row.method
                         /\ r.path[1] = <<row.entity>>
                         /\ IF row.to = "new" THEN r.path[2] = <<"new">> ELSE IsNumber(r.path[2])
                         /\ \/ row.third = "any"
                            \/ row.third = "" /\ two
                            \/ row.third # "" /\ Len(r.path) > 2 /\ r.path[3] = <<row.third>>
    BY DEF Fits, two
  <2>. HIDE DEF first
  <2>4. Fits(r, row) <=> /\ r.path[1] = <<entity>>
                         /\ \/ exact = "any"
                            \/ exact = "" /\ two
                            \/ exact # "" /\ ~two /\ r.path[3] = <<exact>>
    BY <2>1, <2>2, <2>3
  <2>. QED
    BY <1>2, <2>4 DEF first, row
<1>4. ASSUME NEW entity, NEW to, NEW t
      PROVE  ~Fits(r, PostRow(entity, to, t))
  BY DEF Fits, PostRow
<1>5. \A entity, exact, t : GetRow(entity, exact, t).type = t
  BY DEF GetRow
<1>. HIDE DEF first, two
<1>6. ASSUME NEW x \in RouteTable, Fits(r, x)
      PROVE  type # "None"
  <2>1. IsGetRow(x)
    BY <1>4, <1>6, RouteTableIs DEF IsPostRow
  <2>2. CASE first = <<"users">> /\ two
    BY <2>2 DEF GetTypes
  <2>3. CASE first = <<"users">> /\ ~two /\ third = <<"visits">>
    BY <2>3 DEF GetTypes
  <2>4. CASE first = <<"locations">> /\ two
    BY <2>4 DEF GetTypes
  <2>5. CASE first = <<"locations">> /\ ~two /\ third = <<"avg">>
    BY <2>5 DEF GetTypes
  <2>6. CASE first = <<"visits">>
    BY <2>6 DEF GetTypes
  <2>7. \/ first = <<"users">> /\ two
        \/ first = <<"users">> /\ ~two /\ third = <<"visits">>
        \/ first = <<"locations">> /\ two
        \/ first = <<"locations">> /\ ~two /\ third = <<"avg">>
        \/ first = <<"visits">>
    BY <1>3, <1>6, <2>1 DEF IsGetRow
  <2>. QED
    BY <2>2, <2>3, <2>4, <2>5, <2>6, <2>7
<1>7. ASSUME type # "None"
      PROVE  \E x \in RouteTable : Fits(r, x) /\ x.type = type
  <2>1. \/ first = <<"users">> /\ two /\ type = "GetUserById"
        \/ first = <<"users">> /\ ~two /\ third = <<"visits">> /\ type = "GetVisitsByUserId"
        \/ first = <<"locations">> /\ two /\ type = "GetLocationById"
        \/ first = <<"locations">> /\ ~two /\ third = <<"avg">>
             /\ type = "GetAverageLocationMark"
        \/ first = <<"visits">> /\ type = "GetVisitById"
    BY <1>7 DEF GetTypes
  <2>. HIDE DEF type
  <2>2. CASE first = <<"users">> /\ two /\ type = "GetUserById"
    <3>1. Fits(r, GetRow("users", "", "GetUserById"))
      BY <1>3, <2>2
    <3>. QED
      BY <1>5, <2>2, <3>1, RouteTableIs, ZenonT(40) DEF IsGetRow
  <2>3. CASE first = <<"users">> /\ ~two /\ third = <<"visits">> /\ type = "GetVisitsByUserId"
    <3>1. Fits(r, GetRow("users", "visits", "GetVisitsByUserId"))
      BY <1>3, <2>3
    <3>. QED
      BY <1>5, <2>3, <3>1, RouteTableIs, ZenonT(40) DEF IsGetRow
  <2>4. CASE first = <<"locations">> /\ two /\ type = "GetLocationById"
    <3>1. Fits(r, GetRow("locations", "", "GetLocationById"))
      BY <1>3, <2>4
    <3>. QED
      BY <1>5, <2>4, <3>1, RouteTableIs, ZenonT(40) DEF IsGetRow
  <2>5. CASE first = <<"locations">> /\ ~two /\ third = <<"avg">>
               /\ type = "GetAverageLocationMark"
    <3>1. Fits(r, GetRow("locations", "avg", "GetAverageLocationMark"))
      BY <1>3, <2>5
    <3>. QED
      BY <1>5, <2>5, <3>1, RouteTableIs, ZenonT(40) DEF IsGetRow
  <2>6. CASE first = <<"visits">> /\ type = "GetVisitById"
    <3>1. Fits(r, GetRow("visits", "any", "GetVisitById"))
      BY <1>3, <2>6
    <3>. QED
      BY <1>5, <2>6, <3>1, RouteTableIs, ZenonT(40) DEF IsGetRow
  <2>. QED
    BY <2>1, <2>2, <2>3, <2>4, <2>5, <2>6
<1>. QED
  BY <1>6, <1>7 DEF first, two

\* "new" is not an id.
LEMMA NewIsNoNumber == ~IsNumber(<<"new">>)
<1>1. DOMAIN Digits = 1 .. 10 /\ \A k \in 1 .. 10 : Digits[k] # "new"
  BY DEF Digits
<1>. QED
  BY <1>1 DEF IsNumber

\* The type of an add or an update is that of a row that fits it, if one does.
LEMMA PostMeaning ==
  ASSUME NEW r \in WellFormedRequests, r.method = "POST"
  PROVE  LET routed == RoutePost(r.path[1], r.path[2])
         IN /\ (\E x \in RouteTable : Fits(r, x)) => routed.type # "None"
            /\ routed.type # "None" =>
                 /\ \E x \in RouteTable : Fits(r, x) /\ x.type = routed.type
                 /\ r.path[2] # <<"new">> => routed.id = ToId(r.path[2])
            /\ routed.error = IF routed.type = "None" THEN "BadRequest" ELSE "Ok"
<1>. DEFINE first == r.path[1]
            second == r.path[2]
            routed == RoutePost(first, second)
<1>1. ASSUME NEW entity, NEW to, NEW t
      PROVE  Fits(r, PostRow(entity, to, t))
               <=> /\ first = <<entity>>
                   /\ IF to = "new" THEN second = <<"new">> ELSE IsNumber(second)
  BY DEF Fits, PostRow
<1>2. ASSUME NEW entity, NEW exact, NEW t
      PROVE  ~Fits(r, GetRow(entity, exact, t))
  BY DEF Fits, GetRow
<1>3. \A entity, to, t : PostRow(entity, to, t).type = t
  BY DEF PostRow
<1>4. routed.error = IF routed.type = "None" THEN "BadRequest" ELSE "Ok"
  BY DEF RoutePost, Routed
<1>5. routed.type = IF AddTypes(first) = "None" THEN "None"
                    ELSE IF second = <<"new">> THEN AddTypes(first)
                    ELSE IF IsNumber(second) THEN UpdateTypes(first)
                    ELSE "None"
  BY DEF RoutePost, Routed
<1>6. routed.type # "None" /\ second # <<"new">> => routed.id = ToId(second)
  BY DEF RoutePost, Routed
<1>. HIDE DEF first, second, routed
<1>7. /\ first = <<"users">> => AddTypes(first) = "AddUser" /\ UpdateTypes(first) = "UpdateUserById"
      /\ first = <<"locations">> => /\ AddTypes(first) = "AddLocation"
                                    /\ UpdateTypes(first) = "UpdateLocationById"
      /\ first = <<"visits">> => AddTypes(first) = "AddVisit" /\ UpdateTypes(first) = "UpdateVisitById"
      /\ first \notin {<<"users">>, <<"locations">>, <<"visits">>} => AddTypes(first) = "None"
  BY DEF AddTypes, UpdateTypes
<1>8. ASSUME NEW x \in RouteTable, Fits(r, x)
      PROVE  routed.type # "None"
  <2>1. IsPostRow(x)
    BY <1>2, <1>8, RouteTableIs DEF IsGetRow
  <2>2. first \in {<<"users">>, <<"locations">>, <<"visits">>}
        /\ (second = <<"new">> \/ IsNumber(second))
    BY <1>1, <1>8, <2>1 DEF IsPostRow
  <2>. QED
    BY <1>5, <1>7, <2>2
<1>9. ASSUME routed.type # "None"
      PROVE  \E x \in RouteTable : Fits(r, x) /\ x.type = routed.type
  <2>1. first \in {<<"users">>, <<"locations">>, <<"visits">>}
        /\ (second = <<"new">> \/ IsNumber(second))
    BY <1>5, <1>7, <1>9
  <2>2. PICK entity \in {"users", "locations", "visits"} : first = <<entity>>
    BY <2>1
  <2>3. CASE second = <<"new">>
    <3>1. Fits(r, PostRow(entity, "new", routed.type)) /\ routed.type = AddTypes(first)
      BY <1>1, <1>5, <1>9, <2>2, <2>3
    <3>2. IsPostRow(PostRow(entity, "new", routed.type))
      BY <1>7, <2>2, <3>1 DEF IsPostRow
    <3>. QED
      BY <1>3, <3>1, <3>2, RouteTableIs
  <2>4. CASE second # <<"new">> /\ IsNumber(second)
    <3>1. Fits(r, PostRow(entity, "id", routed.type)) /\ routed.type = UpdateTypes(first)
      BY <1>1, <1>5, <1>9, <2>2, <2>4
    <3>2. IsPostRow(PostRow(entity, "id", routed.type))
      BY <1>7, <2>2, <3>1 DEF IsPostRow
    <3>. QED
      BY <1>3, <3>1, <3>2, RouteTableIs
  <2>. QED
    BY <2>1, <2>3, <2>4
<1>. QED
  BY <1>4, <1>6, <1>8, <1>9 DEF first, second, routed


\* An outcome is what the route table says of a request.
RouteMeant(outcome, r) ==
  IF r.method = "GET" /\ ~IsNumber(r.path[2]) THEN outcome.error = "NotFound"
  ELSE IF ~ \E x \in RouteTable : Fits(r, x) THEN outcome.error = "BadRequest"
  ELSE /\ outcome.error = "Ok"
       /\ \E x \in RouteTable : Fits(r, x) /\ x.type = outcome.type
       /\ r.path[2] # <<"new">> => outcome.id = ToId(r.path[2])

\* The meaning of a request is that of its route and of its filters.
LEMMA MeaningIs ==
  ASSUME NEW r \in WellFormedRequests, NEW outcome, RouteMeant(outcome, r),
         FiltersSet(outcome.filters, r.query, Len(r.query))
  PROVE  IsMeaning(outcome, r)
<1>. DEFINE known == {k \in DOMAIN r.query : r.query[k].key \in Keys}
            routes == {x \in RouteTable : Fits(r, x)}
            q == r.query
<1>1. known = Known(q, Len(q))
  BY RequestParts DEF Known
<1>2. /\ \A k \in known : Accepted(q[k].key, q[k].val)
      /\ DOMAIN outcome.filters = {q[k].key : k \in known}
      /\ \A k \in known : (\A l \in known : l > k => q[l].key # q[k].key)
                            => outcome.filters[q[k].key] = Value(q[k].key, q[k].val)
  BY <1>1 DEF FiltersSet, Latest
<1>3. /\ routes = {} <=> ~ \E x \in RouteTable : Fits(r, x)
      /\ (\E x \in RouteTable : Fits(r, x) /\ x.type = outcome.type)
           => \E x \in routes : outcome.type = x.type
  OBVIOUS
<1>. HIDE DEF known, routes
<1>4. IF r.method = "GET" /\ ~IsNumber(r.path[2]) THEN outcome.error = "NotFound"
      ELSE IF routes = {} THEN outcome.error = "BadRequest"
      ELSE /\ outcome.error = "Ok"
           /\ \E x \in routes : outcome.type = x.type
           /\ r.path[2] # <<"new">> => outcome.id = ToId(r.path[2])
  BY <1>3 DEF RouteMeant
<1>. QED
  BY <1>2, <1>4 DEF IsMeaning, known, routes

\* Route finds what the route table says.
LEMMA RouteToMeant ==
  ASSUME NEW r \in WellFormedRequests, NEW third, ReadAs(r, third), NEW outcome,
         LET routed == RouteTo(r.method, r.path[1], r.path[2], third, Len(r.path) = 2)
         IN outcome.error = routed.error /\ outcome.type = routed.type /\ outcome.id = routed.id
  PROVE  RouteMeant(outcome, r)
<1>. DEFINE first == r.path[1]
            second == r.path[2]
            type == GetTypes(first, third, Len(r.path) = 2)
            post == RoutePost(first, second)
            fits == \E x \in RouteTable : Fits(r, x)
<1>1. CASE r.method = "GET" /\ ~IsNumber(second)
  <2>1. outcome.error = "NotFound"
    BY <1>1 DEF RouteTo, RouteGet
  <2>. QED
    BY <1>1, <2>1 DEF RouteMeant
<1>2. CASE r.method = "GET" /\ IsNumber(second)
  <2>1. /\ outcome.error = IF type = "None" THEN "BadRequest" ELSE "Ok"
        /\ outcome.type = type /\ outcome.id = ToId(second)
    BY <1>2 DEF RouteTo, RouteGet, Routed
  <2>2. /\ fits => type # "None"
        /\ type # "None" => \E x \in RouteTable : Fits(r, x) /\ x.type = type
    BY <1>2, GetMeaning
  <2>. HIDE DEF type
  <2>. QED
    BY <1>2, <2>1, <2>2 DEF RouteMeant
<1>3. CASE r.method = "POST"
  <2>1. outcome.error = post.error /\ outcome.type = post.type /\ outcome.id = post.id
    BY <1>3 DEF RouteTo
  <2>2. /\ fits => post.type # "None"
        /\ post.type # "None" =>
             /\ \E x \in RouteTable : Fits(r, x) /\ x.type = post.type
             /\ second # <<"new">> => post.id = ToId(second)
        /\ post.error = IF post.type = "None" THEN "BadRequest" ELSE "Ok"
    BY <1>3, PostMeaning
  <2>. HIDE DEF post
  <2>. QED
    BY <1>3, <2>1, <2>2 DEF RouteMeant
<1>4. CASE r.method \notin {"GET", "POST"}
  <2>1. outcome.error = "BadRequest"
    BY <1>4 DEF RouteTo, Routed
  <2>2. \A x \in RouteTable : x.method \in {"GET", "POST"}
    <3>1. /\ \A entity, exact, t : GetRow(entity, exact, t).method = "GET"
          /\ \A entity, to, t : PostRow(entity, to, t).method = "POST"
      BY DEF GetRow, PostRow
    <3>2. ASSUME NEW x, IsGetRow(x)
          PROVE  x.method = "GET"
      BY <3>1, <3>2 DEF IsGetRow
    <3>3. ASSUME NEW x, IsPostRow(x)
          PROVE  x.method = "POST"
      BY <3>1, <3>3 DEF IsPostRow
    <3>. QED
      BY <3>2, <3>3, RouteTableIs
  <2>3. ~fits
    BY <1>4, <2>2 DEF Fits
  <2>. QED
    BY <1>4, <2>1, <2>3 DEF RouteMeant
<1>. QED
  BY <1>1, <1>2, <1>3, <1>4

\* The answer of Route is the meaning of its request.
LEMMA RouteAdvances ==
  ASSUME TypeInv, NEW w \in Workers, request[w] \in WellFormedRequests,
         Progress(w), Route(w)
  PROVE  Advances(w)
<1>. DEFINE r == request[w]
<1>1. /\ ~crashed /\ pc[w] = "Route" /\ UNCHANGED request
      /\ \/ ~HasParts(w) /\ crashed' = TRUE /\ UNCHANGED <<pc, parts, result>>
         \/ /\ pc' = [pc EXCEPT ![w] = "done"] /\ UNCHANGED crashed
            /\ RouteAnswers(w)
  BY RouteIs
<1>2. PartsFound(w) /\ Filtered(w, Len(r.query))
  BY <1>1 DEF Progress
<1>3. r \in WellFormedRequests
  OBVIOUS
<1>4. Len(parts[w]) = Len(r.path) /\ Len(parts[w]) \in Nat /\ Len(parts[w]) >= 2
  BY <1>2, <1>3, RequestParts DEF PartsFound
<1>5. HasParts(w)
  BY <1>4 DEF HasParts
<1>6. ASSUME NEW k \in 1 .. Len(parts[w])
      PROVE  Part(w, k) = {r.path[k]}
  <2>1. PathTyped /\ r.path[k] \in Seq(Byte \ {Nul})
    BY <1>3, <1>4, RequestParts DEF TypeInv
  <2>2. TextAt(parts[w][k], r.path[k])
    BY <1>2 DEF PartsFound
  <2>3. Text(parts[w][k]) = r.path[k]
    BY <2>1, <2>2, TextLemma
  <2>4. k <= Len(parts[w])
    BY <1>4
  <2>. QED
    BY <2>3, <2>4 DEF Part
<1>7. PICK first \in Part(w, 1), second \in Part(w, 2), third \in Part(w, 3) :
        RouteAnswer(w, first, second, third)
  BY <1>1, <1>5, Zenon DEF RouteAnswers
<1>8. first = r.path[1] /\ second = r.path[2]
  <2>1. 1 \in 1 .. Len(parts[w]) /\ 2 \in 1 .. Len(parts[w])
    BY <1>4
  <2>2. Part(w, 1) = {r.path[1]} /\ Part(w, 2) = {r.path[2]}
    BY <1>6, <2>1
  <2>. QED
    BY <2>2
<1>9. ReadAs(r, third)
  <2>1. Len(r.path) > 2 => 3 \in 1 .. Len(parts[w])
    BY <1>4
  <2>2. Len(r.path) > 2 => Part(w, 3) = {r.path[3]}
    BY <1>6, <2>1
  <2>. QED
    BY <2>2 DEF ReadAs
<1>10. PICK routed :
         /\ routed = RouteTo(r.method, first, second, third, Len(parts[w]) = 2)
         /\ result' = [result EXCEPT ![w].error = routed.error,
                                     ![w].type = routed.type,
                                     ![w].id = routed.id]
  BY <1>7 DEF RouteAnswer
<1>11. DOMAIN result = Workers /\ DOMAIN result[w] = Fields
  BY DEF TypeInv, ResultsTyped, ResultTyped
<1>12. /\ result'[w].error = routed.error
       /\ result'[w].type = routed.type /\ result'[w].id = routed.id
       /\ result'[w].filters = result[w].filters
  BY <1>10, <1>11 DEF Fields
<1>13. routed = RouteTo(r.method, r.path[1], r.path[2], third, Len(r.path) = 2)
  BY <1>4, <1>8, <1>10
<1>14. RouteMeant(result'[w], r)
  BY <1>3, <1>9, <1>12, <1>13, RouteToMeant
<1>15. FiltersSet(result'[w].filters, r.query, Len(r.query))
  BY <1>2, <1>12 DEF Filtered
<1>16. IsMeaning(result'[w], r)
  BY <1>3, <1>14, <1>15, MeaningIs
<1>17. pc'[w] = "done" /\ ~crashed'
  BY <1>1, <1>5 DEF TypeInv, LocalsTyped
<1>18. IsMeaning(result[w], request[w])'
  BY <1>1, <1>16
<1>. QED
  BY <1>17, <1>18 DEF Advances

-----------------------------------------------------------------------------
(***************************************************************************)
(* The steps of the invariant.                                             *)
(***************************************************************************)
\* A worker that takes a request has copied nothing and set no filter.
LEMMA ReceiveOwn ==
  ASSUME OwnInv, NEW w \in Workers, NEW r \in Requests, Receive(w, r)
  PROVE  Undisturbed' /\ Answers' /\ CrashHasCause'
<1>1. /\ ~crashed /\ pc[w] = "done"
      /\ pc' = [pc EXCEPT ![w] = "copy"]
      /\ request' = [request EXCEPT ![w] = r]
      /\ i' = [i EXCEPT ![w] = 1]
      /\ result' = [result EXCEPT ![w] = NewParser]
      /\ alone' = [x \in Workers |->
                     IF x = w THEN \A y \in Workers \ {w} : pc[y] = "done"
                     ELSE alone[x] /\ pc[x] = "done"]
      /\ UNCHANGED crashed
  BY DEF Receive
<1>2. /\ pc'[w] = "copy" /\ i'[w] = 1 /\ result'[w] = NewParser /\ request'[w] = r
      /\ \A x \in Workers \ {w} : /\ pc'[x] = pc[x] /\ result'[x] = result[x]
                                  /\ request'[x] = request[x]
  BY <1>1 DEF OwnInv, TypeInv, LocalsTyped, ResultsTyped
<1>3. /\ alone'[w] => \A y \in Workers \ {w} : pc[y] = "done"
      /\ \A x \in Workers \ {w} : alone'[x] => alone[x] /\ pc[x] = "done"
  BY <1>1
<1>4. Filtered(w, 0)'
  <2>1. Known(r.query, 0) = {} /\ NewParser.filters = <<>> /\ DOMAIN <<>> = {}
    BY DEF Known, NewParser
  <2>2. FiltersSet(NewParser.filters, r.query, 0)
    BY <2>1 DEF FiltersSet
  <2>. QED
    BY <1>2, <2>2 DEF Filtered
<1>5. Progress(w)'
  <2>1. Copied(w)'
    BY <1>2 DEF Copied
  <2>. QED
    BY <1>2, <1>4, <2>1 DEF Progress
<1>6. Undisturbed'
  BY <1>2, <1>3, <1>5 DEF Undisturbed
<1>7. Answers'
  BY <1>2, <1>3 DEF OwnInv, Answers
<1>8. CrashHasCause'
  BY <1>1 DEF CrashHasCause
<1>. QED
  BY <1>6, <1>7, <1>8

\* What every step but the first changes and leaves alone.
Works(w) ==
  /\ ~crashed /\ pc[w] # "done"
  /\ UNCHANGED <<request, alone>>
  /\ \A x \in Workers \ {w} : pc'[x] = pc[x] /\ result'[x] = result[x]
  /\ crashed' => UNCHANGED pc

\* The steps of ParseHttpRequest but the first.
Parses(w) ==
  \/ Copy(w) \/ Terminate(w)
  \/ YuarelParse(w) \/ YuarelSplitPath(w)
  \/ YuarelParseQuery(w) \/ SplitQueryParameter(w) \/ SplitQueryEnds(w)
  \/ Route(w)

\* No step touches the answers of the other workers.
LEMMA ParsesWorks ==
  ASSUME TypeInv, NEW w \in Workers, Parses(w)
  PROVE  Works(w)
<1>1. DOMAIN pc = Workers /\ DOMAIN result = Workers
  BY DEF TypeInv, LocalsTyped, ResultsTyped
<1>2. CASE Copy(w)
  BY <1>2 DEF Copy, Works, locals
<1>3. CASE Terminate(w)
  BY <1>1, <1>3 DEF Terminate, Works, locals
<1>4. CASE YuarelParse(w)
  <2>1. /\ ~crashed /\ pc[w] = "yuarel_parse"
        /\ UNCHANGED <<crashed, request, result, alone>>
        /\ pc' = [pc EXCEPT ![w] = IF max_path[1] = "/" THEN "yuarel_split_path" ELSE "done"]
    BY <1>4 DEF YuarelParse
  <2>. QED
    BY <1>1, <2>1 DEF Works
<1>5. CASE YuarelSplitPath(w)
  <2>1. /\ ~crashed /\ pc[w] = "yuarel_split_path"
        /\ UNCHANGED <<crashed, request, result, alone>>
        /\ pc' = [pc EXCEPT ![w] = IF query[w] = 0 THEN "Route" ELSE "SplitQuery"]
    BY <1>5 DEF YuarelSplitPath
  <2>. QED
    BY <1>1, <2>1 DEF Works
<1>6. CASE YuarelParseQuery(w)
  <2>1. /\ ~crashed /\ pc[w] = "SplitQuery" /\ UNCHANGED <<request, alone>>
        /\ \/ crashed' = TRUE /\ UNCHANGED <<pc, result>>
           \/ /\ result' = [result EXCEPT ![w].error = "BadRequest"]
              /\ pc' = [pc EXCEPT ![w] = "done"] /\ UNCHANGED crashed
           \/ pc' = [pc EXCEPT ![w] = "parameter"] /\ UNCHANGED <<crashed, result>>
    BY <1>6, YuarelParseQueryIs
  <2>. QED
    BY <1>1, <2>1 DEF Works
<1>7. CASE SplitQueryParameter(w)
  <2>1. /\ ~crashed /\ pc[w] = "parameter" /\ UNCHANGED <<request, alone>>
        /\ \/ crashed' = TRUE /\ UNCHANGED <<pc, result>>
           \/ UNCHANGED <<crashed, pc, result>>
           \/ /\ \E v : result' = [result EXCEPT ![w].filters = v]
              /\ UNCHANGED <<crashed, pc>>
           \/ /\ result' = [result EXCEPT ![w].error = "BadRequest"]
              /\ pc' = [pc EXCEPT ![w] = "done"] /\ UNCHANGED crashed
    BY <1>7, SplitQueryParameterIs
  <2>. QED
    BY <1>1, <2>1 DEF Works
<1>8. CASE SplitQueryEnds(w)
  BY <1>1, <1>8 DEF SplitQueryEnds, Works, locals
<1>9. CASE Route(w)
  <2>1. /\ ~crashed /\ pc[w] = "Route" /\ UNCHANGED <<request, alone>>
        /\ \/ crashed' = TRUE /\ UNCHANGED <<pc, result>>
           \/ /\ pc' = [pc EXCEPT ![w] = "done"] /\ UNCHANGED crashed
              /\ RouteAnswers(w)
    BY <1>9, RouteIs
  <2>2. RouteAnswers(w) => \A x \in Workers \ {w} : result'[x] = result[x]
    BY <1>1, Zenon DEF RouteAnswers, RouteAnswer
  <2>. QED
    BY <1>1, <2>1, <2>2 DEF Works
<1>. QED
  BY <1>2, <1>3, <1>4, <1>5, <1>6, <1>7, <1>8, <1>9 DEF Parses

\* The step of a worker alone brings it further, and that of another harms
\* nobody who is alone.
LEMMA ParsesOwn ==
  ASSUME OwnInv, NEW w \in Workers, Parses(w)
  PROVE  Undisturbed' /\ Answers' /\ CrashHasCause'
<1>1. /\ ~crashed /\ pc[w] # "done"
      /\ UNCHANGED <<request, alone>>
      /\ \A x \in Workers \ {w} : pc'[x] = pc[x] /\ result'[x] = result[x]
      /\ crashed' => UNCHANGED pc
  BY ParsesWorks DEF OwnInv, Works
<1>2. CASE alone[w] /\ request[w] \in WellFormedRequests
  <2>1. (\A x \in Workers \ {w} : pc[x] = "done") /\ Progress(w)
    BY <1>1, <1>2 DEF OwnInv, Undisturbed
  <2>2. Advances(w)
    BY <1>2, <2>1, CopyAdvances, TerminateAdvances, YuarelParseAdvances,
       YuarelSplitPathAdvances, YuarelParseQueryAdvances, SplitQueryParameterAdvances,
       SplitQueryEndsAdvances, RouteAdvances DEF Parses, OwnInv
  <2>3. /\ ~crashed'
        /\ pc'[w] # "done" => Progress(w)'
        /\ pc'[w] = "done" => IsMeaning(result[w], request[w])'
    BY <2>2 DEF Advances
  <2>4. Undisturbed'
    BY <1>1, <2>1, <2>3 DEF Undisturbed
  <2>5. Answers'
    BY <1>1, <2>3 DEF OwnInv, Answers
  <2>6. CrashHasCause'
    BY <2>3 DEF CrashHasCause
  <2>. QED
    BY <2>4, <2>5, <2>6
<1>4. CASE alone[w] /\ request[w] \notin WellFormedRequests
  <2>1. \A x \in Workers \ {w} : pc[x] = "done"
    BY <1>1, <1>4 DEF OwnInv, Undisturbed
  <2>2. Undisturbed'
    BY <1>1, <1>4, <2>1 DEF Undisturbed
  <2>3. Answers'
    BY <1>1, <1>4 DEF OwnInv, Answers
  <2>4. ~WellFormed(request[w])
    BY <1>1, <1>4 DEF OwnInv, TypeInv, Counters, Counter, WellFormedRequests
  <2>5. CrashHasCause'
    BY <1>1, <2>4 DEF CrashHasCause
  <2>. QED
    BY <2>2, <2>3, <2>5
<1>3. CASE ~alone[w]
  <2>1. \A x \in Workers \ {w} : alone[x] => pc[x] = "done"
    BY <1>1 DEF OwnInv, Undisturbed
  <2>2. Undisturbed'
    BY <1>1, <1>3, <2>1 DEF Undisturbed
  <2>3. Answers'
    BY <1>1, <1>3 DEF OwnInv, Answers
  <2>4. CrashHasCause'
    BY <1>1, <1>3 DEF CrashHasCause
  <2>. QED
    BY <2>2, <2>3, <2>4
<1>. QED
  BY <1>2, <1>3, <1>4

\* At the start nobody has a request.
LEMMA OwnBegins == Init => OwnInv
<1>. SUFFICES ASSUME Init
              PROVE  OwnInv
  OBVIOUS
<1>1. /\ crashed = FALSE /\ \A w \in Workers : pc[w] = "done" /\ request[w] = NoRequest
  BY DEF Init
<1>2. NoRequest \notin WellFormedRequests
  <2>1. Len(NoRequest.path) = 0
    BY DEF NoRequest
  <2>. QED
    BY <2>1 DEF WellFormedRequests, WellFormed
<1>3. Undisturbed /\ Answers /\ CrashHasCause
  BY <1>1, <1>2 DEF Undisturbed, Answers, CrashHasCause
<1>. QED
  BY <1>3, TypesBegin DEF OwnInv

\* Every step keeps the invariant.
LEMMA OwnKeeps == OwnInv /\ [Next]_vars => OwnInv'
<1>. SUFFICES ASSUME OwnInv, [Next]_vars
              PROVE  OwnInv'
  OBVIOUS
<1>1. TypeInv'
  BY TypesKeep DEF OwnInv
<1>2. CASE UNCHANGED vars
  <2>1. Undisturbed'
    <3>1. UNCHANGED <<max_path, query_parameters, pc, i, request, query, parts, amount,
                      result, alone>>
      BY <1>2 DEF vars, shared, locals
    <3>2. ASSUME NEW w \in Workers
          PROVE  /\ Copied(w)' = Copied(w) /\ UrlWhole(request[w])' = UrlWhole(request[w])
                 /\ UrlMarked(request[w])' = UrlMarked(request[w])
                 /\ QueryAhead(w)' = QueryAhead(w) /\ PartsBefore(w)' = PartsBefore(w)
                 /\ QueryCopied(request[w])' = QueryCopied(request[w])
                 /\ Filtered(w, 0)' = Filtered(w, 0)
                 /\ Filtered(w, i[w] - 1)' = Filtered(w, i[w] - 1)
                 /\ Filtered(w, Len(request[w].query))' = Filtered(w, Len(request[w].query))
      BY <3>1 DEF Copied, UrlWhole, UrlMarked, QueryAhead, PartsBefore, QueryCopied, Filtered
    <3>3. ASSUME NEW w \in Workers
          PROVE  PartsFound(w)' = PartsFound(w) /\ ParametersFound(w)' = ParametersFound(w)
      BY <3>1 DEF PartsFound, ParametersFound, ParameterFound, TextAt
    <3>4. \A w \in Workers : Progress(w) => Progress(w)'
      BY <3>1, <3>2, <3>3 DEF Progress
    <3>. QED
      BY <3>1, <3>4 DEF OwnInv, Undisturbed
  <2>2. Answers' /\ CrashHasCause'
    BY <1>2 DEF OwnInv, Answers, CrashHasCause, vars, shared, locals
  <2>. QED
    BY <1>1, <2>1, <2>2 DEF OwnInv
<1>3. ASSUME NEW w \in Workers, ParseHttpRequest(w)
      PROVE  OwnInv'
  <2>1. Undisturbed' /\ Answers' /\ CrashHasCause'
    BY <1>3, ReceiveOwn, ParsesOwn DEF ParseHttpRequest, Parses
  <2>. QED
    BY <1>1, <2>1 DEF OwnInv
<1>. QED
  BY <1>2, <1>3 DEF Next

\* A well-formed request that no other worker's overlaps is parsed as what it
\* says, whatever earlier requests, ill-formed ones too, and their races left in
\* the static arrays.
THEOREM AloneIsOwnCorrect == Spec => []AloneIsOwn
<1>1. OwnInv => AloneIsOwn
  <2>. SUFFICES ASSUME OwnInv, NEW w \in Workers, Answered(w), alone[w],
                       WellFormed(request[w])
                PROVE  IsMeaning(result[w], request[w])
    BY DEF AloneIsOwn
  <2>1. request[w] \in Requests /\ pc[w] = "done"
    BY DEF Answered, OwnInv, TypeInv, LocalsTyped
  <2>2. request[w] \in WellFormedRequests
    BY <2>1 DEF WellFormedRequests
  <2>. QED
    BY <2>1, <2>2 DEF OwnInv, Answers
<1>. QED
  BY <1>1, OwnBegins, OwnKeeps, PTL DEF Spec

\* A pointer of the parser goes astray only when two requests overlap or one is
\* ill-formed.
THEOREM CrashHasCauseCorrect == Spec => []CrashHasCause
<1>1. OwnInv => CrashHasCause
  BY DEF OwnInv
<1>. QED
  BY <1>1, OwnBegins, OwnKeeps, PTL DEF Spec
===============================================================================
