------------------------------- MODULE UrlLemmas -------------------------------
(***************************************************************************)
(* What the helpers of HttpParser compute for every array, text and        *)
(* request: the C strings in max_path, positions in order, numbers, and    *)
(* where the texts of a request stand in its URL.                          *)
(***************************************************************************)
EXTENDS HttpParser, DataLemmas

(***************************************************************************)
(* Positions in order.                                                     *)
(***************************************************************************)
\* Sorted enumerates a set of positions, which has only this enumeration.
LEMMA SortedLemma ==
  ASSUME NEW m \in Nat, NEW S \in SUBSET (1 .. m)
  PROVE  /\ Cardinality(S) \in Nat /\ Enumerates(Sorted(S), Cardinality(S), S)
         /\ Sorted(S) \in Seq(S) /\ Len(Sorted(S)) = Cardinality(S)
<1>. DEFINE n == Cardinality(S)
<1>1. S \in SUBSET Nat
  OBVIOUS
<1>2. PICK k \in Nat : \E s : Enumerates(s, k, S)
  BY EnumerationExists
<1>3. PICK s : Enumerates(s, k, S)
  BY <1>2
<1>4. k = n /\ n \in Nat
  BY <1>1, <1>3, EnumerationSize
<1>5. Enumerates(s, n, S)
  BY <1>3, <1>4
<1>6. \A t \in [1 .. n -> S] : Increasing(t) => Enumerates(t, n, S)
  BY <1>1, <1>3, <1>4, EnumerationSize
<1>. HIDE DEF n
<1>7. s \in [1 .. n -> S] /\ Increasing(s)
  BY <1>5 DEF Enumerates
<1>8. Sorted(S) = CHOOSE t \in [1 .. n -> S] : Increasing(t)
  BY DEF Sorted, Increasing, n
<1>9. Sorted(S) \in [1 .. n -> S] /\ Increasing(Sorted(S))
  BY <1>7, <1>8
<1>10. Enumerates(Sorted(S), n, S)
  BY <1>6, <1>9
<1>11. Sorted(S) \in Seq(S) /\ Len(Sorted(S)) = n
  BY <1>4, <1>9, FunctionIsSeq
<1>. QED
  BY <1>4, <1>10, <1>11 DEF n

\* What enumerates a set of positions is Sorted of it.
LEMMA SortedIs ==
  ASSUME NEW m \in Nat, NEW S \in SUBSET (1 .. m), NEW n \in Nat, NEW s, Enumerates(s, n, S)
  PROVE  Sorted(S) = s /\ Len(Sorted(S)) = n
<1>1. S \in SUBSET Nat
  OBVIOUS
<1>2. Cardinality(S) = n
  BY <1>1, EnumerationSize
<1>3. Enumerates(Sorted(S), n, S) /\ Len(Sorted(S)) = n
  BY <1>2, SortedLemma
<1>. QED
  BY <1>1, <1>3, EnumerationUnique

-----------------------------------------------------------------------------
(***************************************************************************)
(* C strings in max_path.                                                  *)
(***************************************************************************)
PathTyped == max_path \in [1 .. PathSize -> Byte] /\ max_path[PathSize] = Nul

IsEnd(p, q) ==
  /\ q \in p .. PathSize
  /\ max_path[q] = Nul
  /\ \A r \in p .. q - 1 : max_path[r] # Nul

\* A text ends at the first NUL, which there is.
LEMMA EndLemma ==
  ASSUME PathTyped, NEW p \in 1 .. PathSize
  PROVE  IsEnd(p, End(p))
<1>. DEFINE S == {q \in p .. PathSize : max_path[q] = Nul}
<1>1. PathSize \in Nat
  BY LimitsAssumption
<1>2. S \in SUBSET Nat /\ PathSize \in S
  BY <1>1 DEF PathTyped
<1>3. PICK q \in S : \A r \in S : q <= r
  <2>. HIDE DEF S
  <2>. QED
    BY <1>2, LeastElement
<1>4. q \in p .. PathSize /\ max_path[q] = Nul
  OBVIOUS
<1>5. \A r \in p .. q - 1 : max_path[r] # Nul
  BY <1>1, <1>3
<1>. QED
  BY <1>4, <1>5 DEF IsEnd, End

\* There is only one such end.
LEMMA EndIs ==
  ASSUME PathTyped, NEW p \in 1 .. PathSize, NEW q, IsEnd(p, q)
  PROVE  End(p) = q
<1>1. PathSize \in Nat
  BY LimitsAssumption
<1>. DEFINE e == End(p)
<1>2. IsEnd(p, e)
  BY EndLemma
<1>. HIDE DEF e
<1>3. e \in Nat /\ q \in Nat /\ p <= e /\ p <= q
  BY <1>1, <1>2 DEF IsEnd
<1>4. ~(e < q)
  BY <1>2, <1>3 DEF IsEnd
<1>5. ~(q < e)
  BY <1>2, <1>3 DEF IsEnd
<1>6. e = q
  BY <1>3, <1>4, <1>5
<1>. QED
  BY <1>6 DEF e

\* Every text is made of bytes of max_path.
LEMMA TextTyped ==
  ASSUME PathTyped, NEW p \in 1 .. PathSize
  PROVE  Text(p) \in Seq(Byte)
<1>1. IsEnd(p, End(p)) /\ PathSize \in Nat
  BY EndLemma, LimitsAssumption
<1>. DEFINE q == End(p) - 1
<1>2. q \in Int /\ p \in Int /\ \A k \in p .. q : max_path[k] \in Byte
  BY <1>1 DEF IsEnd, PathTyped
<1>. HIDE DEF q
<1>3. SubSeq(max_path, p, q) \in Seq(Byte)
  BY <1>2, SubSeqProperties
<1>. QED
  BY <1>3 DEF Text, q

\* The text stands at p and ends there.
TextAt(p, text) ==
  /\ p \in 1 .. PathSize
  /\ p + Len(text) <= PathSize
  /\ max_path[p + Len(text)] = Nul
  /\ \A j \in 1 .. Len(text) : max_path[p + (j - 1)] = text[j]

\* A text without NUL is what is read at the place where it stands.
LEMMA TextLemma ==
  ASSUME PathTyped, NEW p, NEW text \in Seq(Byte \ {Nul}), TextAt(p, text)
  PROVE  Text(p) = text
<1>. DEFINE n == Len(text)
<1>1. /\ p \in 1 .. PathSize /\ n \in Nat /\ p + n <= PathSize /\ PathSize \in Nat
      /\ max_path[p + n] = Nul
      /\ \A j \in 1 .. n : max_path[p + (j - 1)] = text[j] /\ text[j] \in Byte /\ text[j] # Nul
  BY LimitsAssumption DEF TextAt
<1>2. \A r \in p .. p + n - 1 : r - p + 1 \in 1 .. n /\ p + ((r - p + 1) - 1) = r
  BY <1>1
<1>3. \A r \in p .. p + n - 1 : max_path[r] # Nul /\ max_path[r] \in Byte
  BY <1>1, <1>2
<1>4. IsEnd(p, p + n)
  BY <1>1, <1>3 DEF IsEnd
<1>5. End(p) = p + n
  BY <1>1, <1>4, EndIs
<1>. DEFINE q == p + n - 1
            s == SubSeq(max_path, p, q)
<1>6. p \in Int /\ q \in Int /\ q - p + 1 = n
  BY <1>1
<1>7. /\ s \in Seq(Byte)
      /\ Len(s) = IF p <= q THEN q - p + 1 ELSE 0
      /\ \A j \in 1 .. q - p + 1 : s[j] = max_path[p + j - 1]
  <2>. HIDE DEF q
  <2>1. \A r \in p .. q : max_path[r] \in Byte
    BY <1>3 DEF q
  <2>. QED
    BY <1>6, <2>1, SubSeqProperties
<1>8. Len(s) = n
  <2>. HIDE DEF s
  <2>. QED
    BY <1>1, <1>7
<1>9. \A j \in 1 .. n : s[j] = text[j]
  <2>1. \A j \in 1 .. n : p + j - 1 = p + (j - 1)
    BY <1>1
  <2>. HIDE DEF s, n
  <2>. QED
    BY <1>1, <1>6, <1>7, <2>1
<1>10. text \in Seq(Byte)
  OBVIOUS
<1>11. s = text
  <2>. HIDE DEF s
  <2>. QED
    BY <1>7, <1>8, <1>9, <1>10, SeqEqual
<1>. DEFINE last == End(p) - 1
<1>12. last = q
  BY <1>1, <1>5
<1>13. Text(p) = SubSeq(max_path, p, last)
  BY DEF Text
<1>. HIDE DEF last, q
<1>. QED
  BY <1>11, <1>12, <1>13

-----------------------------------------------------------------------------
(***************************************************************************)
(* StringToNumber.                                                         *)
(***************************************************************************)
\* A text of digits is read as a natural number, an id as one below IdModulus.
LEMMA NumberLemma ==
  ASSUME NEW text \in Seq(Byte), IsNumber(text)
  PROVE  Number(text) \in Nat /\ ToId(text) \in 0 .. IdModulus - 1
<1>. DEFINE n == Len(text)
            Def(f, m) == f = [k \in 0 .. m |-> IF k = 0 THEN 0 ELSE 10 * f[k - 1] + Digit(text[k])]
            I == {m \in Nat : m <= n => \E f \in [0 .. m -> Nat] : Def(f, m)}
<1>1. n \in Nat /\ DOMAIN text = 1 .. n
  OBVIOUS
<1>2. \A k \in 1 .. n : Digit(text[k]) \in Nat
  <2>1. DOMAIN Digits = 1 .. 10
    BY DEF Digits
  <2>. QED
    BY <1>1, <2>1 DEF IsNumber, Digit
<1>. HIDE DEF n
<1>3. 0 \in I
  <2>. DEFINE f == [k \in 0 .. 0 |-> 0]
  <2>1. f \in [0 .. 0 -> Nat] /\ Def(f, 0)
    OBVIOUS
  <2>. QED
    BY <2>1
<1>4. ASSUME NEW m \in Nat, m \in I
      PROVE  m + 1 \in I
  <2>1. ASSUME m + 1 <= n
        PROVE  \E f \in [0 .. m + 1 -> Nat] : Def(f, m + 1)
    <3>1. m <= n /\ m + 1 \in 1 .. n
      BY <1>1, <2>1
    <3>2. PICK f \in [0 .. m -> Nat] : Def(f, m)
      BY <1>4, <3>1
    <3>3. \A k \in 0 .. m : f[k] = IF k = 0 THEN 0 ELSE 10 * f[k - 1] + Digit(text[k])
      BY <3>2
    <3>. DEFINE g == [k \in 0 .. m + 1 |->
                       IF k = m + 1 THEN 10 * f[m] + Digit(text[m + 1]) ELSE f[k]]
                step == [k \in 0 .. m + 1 |->
                          IF k = 0 THEN 0 ELSE 10 * g[k - 1] + Digit(text[k])]
    <3>4. f[m] \in Nat /\ Digit(text[m + 1]) \in Nat
      BY <1>2, <3>1
    <3>5. \A k \in 0 .. m + 1 : k # m + 1 => k \in 0 .. m
      OBVIOUS
    <3>6. g \in [0 .. m + 1 -> Nat]
      BY <3>4, <3>5
    <3>7. ASSUME NEW k \in 0 .. m + 1
          PROVE  g[k] = step[k]
      <4>1. CASE k = 0
        <5>1. g[k] = f[k] /\ step[k] = 0 /\ f[k] = 0
          BY <3>3, <4>1
        <5>. QED
          BY <5>1
      <4>2. CASE k = m + 1
        <5>1. k # 0 /\ k - 1 = m /\ k - 1 \in 0 .. m + 1 /\ k - 1 # m + 1
          BY <4>2
        <5>2. g[k - 1] = f[m]
          BY <5>1
        <5>3. step[k] = 10 * g[k - 1] + Digit(text[k])
          BY <5>1
        <5>4. g[k] = 10 * f[m] + Digit(text[m + 1])
          BY <4>2
        <5>. HIDE DEF g, step
        <5>. QED
          BY <4>2, <5>2, <5>3, <5>4
      <4>3. CASE k # 0 /\ k # m + 1
        <5>1. k \in 0 .. m /\ k - 1 \in 0 .. m + 1 /\ k - 1 # m + 1
          BY <4>3
        <5>2. g[k] = f[k] /\ g[k - 1] = f[k - 1]
          BY <4>3, <5>1
        <5>3. step[k] = 10 * g[k - 1] + Digit(text[k])
          BY <4>3
        <5>4. f[k] = 10 * f[k - 1] + Digit(text[k])
          BY <3>3, <4>3, <5>1
        <5>. HIDE DEF g, step
        <5>. QED
          BY <5>2, <5>3, <5>4
      <4>. QED
        BY <4>1, <4>2, <4>3
    <3>8. g = [k \in 0 .. m + 1 |-> g[k]] /\ step = [k \in 0 .. m + 1 |-> step[k]]
      OBVIOUS
    <3>9. g = step
      <4>. HIDE DEF g, step
      <4>. QED
        BY <3>7, <3>8
    <3>10. Def(g, m + 1)
      BY <3>9
    <3>. QED
      BY <3>6, <3>10
  <2>. HIDE DEF Def
  <2>. QED
    BY <2>1
<1>5. PICK f \in [0 .. n -> Nat] : Def(f, n)
  <2>1. n \in I
    <3>. HIDE DEF I
    <3>. QED
      BY <1>1, <1>3, <1>4, Induction
  <2>. QED
    BY <2>1
<1>. DEFINE value == CHOOSE g : Def(g, n)
<1>6. Def(value, n)
  <2>. HIDE DEF Def
  <2>. QED
    BY <1>5
<1>7. Number(text) = value[n]
  BY DEF Number, n
<1>. HIDE DEF value
<1>8. \A k \in 0 .. n : value[k] = IF k = 0 THEN 0 ELSE 10 * value[k - 1] + Digit(text[k])
  BY <1>6
<1>. DEFINE V == {m \in Nat : m <= n => value[m] \in Nat}
<1>9. 0 \in V
  BY <1>1, <1>8
<1>10. ASSUME NEW m \in Nat, m \in V
       PROVE  m + 1 \in V
  <2>1. ASSUME m + 1 <= n
        PROVE  value[m + 1] \in Nat
    <3>1. m <= n /\ m + 1 \in 0 .. n /\ m + 1 \in 1 .. n /\ m + 1 # 0 /\ m + 1 - 1 = m
      BY <1>1, <2>1
    <3>2. value[m] \in Nat /\ Digit(text[m + 1]) \in Nat
      BY <1>2, <1>10, <3>1
    <3>3. value[m + 1] = 10 * value[m] + Digit(text[m + 1])
      BY <1>8, <3>1
    <3>. QED
      BY <3>2, <3>3
  <2>. QED
    BY <2>1
<1>11. n \in V
  <2>. HIDE DEF V
  <2>. QED
    BY <1>1, <1>9, <1>10, Induction
<1>12. Number(text) \in Nat
  BY <1>1, <1>7, <1>11
<1>13. ToId(text) \in 0 .. IdModulus - 1
  BY <1>12, LimitsAssumption DEF ToId
<1>. QED
  BY <1>12, <1>13

-----------------------------------------------------------------------------
(***************************************************************************)
(* Where the texts of a request stand in its URL.                          *)
(***************************************************************************)
WellFormedRequests == {r \in Requests : WellFormed(r)}

PathPieces(r) == [k \in DOMAIN r.path |-> <<"/">> \o r.path[k]]
QueryPieces(r) == [k \in DOMAIN r.query |-> Parameter(k, r.query)]
PathLengths(r) == [k \in 1 .. Len(r.path) |-> 1 + Len(r.path[k])]
QueryLengths(r) == [k \in 1 .. Len(r.query) |-> 3 + Len(r.query[k].val)]

\* The position after the path, where the query begins if there is one.
Mark(r) == Len(FlattenSeq(PathPieces(r))) + 1

PathBytes == Byte \ {Nul, "/", "?"}
KeyBytes == Byte \ {Nul, "&", "="}
ValueBytes == Byte \ {Nul, "&"}

\* What a request is made of.
LEMMA RequestParts ==
  ASSUME NEW r \in WellFormedRequests
  PROVE  /\ Len(r.path) \in Nat /\ Len(r.path) >= 2 /\ DOMAIN r.path = 1 .. Len(r.path)
         /\ \A k \in 1 .. Len(r.path) :
              /\ r.path[k] \in Seq(PathBytes) /\ Len(r.path[k]) \in Nat \ {0}
              /\ r.path[k] \in Seq(Byte) /\ r.path[k] \in Seq(Byte \ {Nul})
         /\ Len(r.query) \in 0 .. max_query_parameters_amount
         /\ DOMAIN r.query = 1 .. Len(r.query)
         /\ \A k \in 1 .. Len(r.query) :
              /\ r.query[k].key \in KeyBytes
              /\ r.query[k].val \in Seq(ValueBytes) /\ Len(r.query[k].val) \in Nat
              /\ r.query[k].val \in Seq(Byte) /\ r.query[k].val \in Seq(Byte \ {Nul})
<1>1. /\ r.path \in Seq(Seq(PathBytes) \ {<<>>})
      /\ r.query \in Seq([key : KeyBytes, val : Seq(ValueBytes)])
      /\ Len(r.path) >= 2
      /\ Len(r.query) <= max_query_parameters_amount
  BY DEF WellFormedRequests, WellFormed, PathBytes, KeyBytes, ValueBytes
<1>2. /\ Len(r.path) \in Nat /\ DOMAIN r.path = 1 .. Len(r.path)
      /\ \A k \in 1 .. Len(r.path) : r.path[k] \in Seq(PathBytes) /\ r.path[k] # <<>>
  BY <1>1
<1>3. /\ Len(r.query) \in Nat /\ DOMAIN r.query = 1 .. Len(r.query)
      /\ \A k \in 1 .. Len(r.query) : r.query[k].key \in KeyBytes
                                     /\ r.query[k].val \in Seq(ValueBytes)
  <2>. DEFINE q == r.query
              P == [key : KeyBytes, val : Seq(ValueBytes)]
  <2>1. q \in Seq(P)
    BY <1>1
  <2>2. \A x \in P : x.key \in KeyBytes /\ x.val \in Seq(ValueBytes)
    OBVIOUS
  <2>. HIDE DEF q, P
  <2>3. Len(q) \in Nat /\ DOMAIN q = 1 .. Len(q) /\ \A k \in 1 .. Len(q) : q[k] \in P
    BY <2>1
  <2>. QED
    BY <2>2, <2>3 DEF q
<1>4. PathBytes \subseteq Byte /\ PathBytes \subseteq Byte \ {Nul}
      /\ ValueBytes \subseteq Byte /\ ValueBytes \subseteq Byte \ {Nul}
  BY DEF PathBytes, ValueBytes
<1>5. \A s \in Seq(PathBytes) : s \in Seq(Byte) /\ s \in Seq(Byte \ {Nul})
  BY <1>4, SeqMonotonic
<1>6. \A s \in Seq(ValueBytes) : s \in Seq(Byte) /\ s \in Seq(Byte \ {Nul}) /\ Len(s) \in Nat
  BY <1>4, SeqMonotonic
<1>7. \A s \in Seq(PathBytes) : s # <<>> => Len(s) \in Nat \ {0}
  BY EmptySeq
<1>8. Len(r.query) \in 0 .. max_query_parameters_amount
  BY <1>1, <1>3, LimitsAssumption
<1>. QED
  BY <1>1, <1>2, <1>3, <1>5, <1>6, <1>7, <1>8

\* No text of a path has a separator in it.
LEMMA PathElement ==
  ASSUME NEW r \in WellFormedRequests, NEW k \in 1 .. Len(r.path), NEW j \in 1 .. Len(r.path[k])
  PROVE  r.path[k][j] \in PathBytes
<1>. DEFINE t == r.path[k]
<1>1. t \in Seq(PathBytes)
  BY RequestParts
<1>2. j \in 1 .. Len(t)
  OBVIOUS
<1>. HIDE DEF t
<1>3. t[j] \in PathBytes
  BY <1>1, <1>2, ElementOfSeq
<1>. QED
  BY <1>3 DEF t

\* No value of a query ends before its end, no key is a separator.
LEMMA QueryElement ==
  ASSUME NEW r \in WellFormedRequests, NEW k \in 1 .. Len(r.query)
  PROVE  /\ r.query[k].key \in KeyBytes
         /\ \A j \in 1 .. Len(r.query[k].val) : r.query[k].val[j] \in ValueBytes
<1>. DEFINE t == r.query[k].val
<1>1. t \in Seq(ValueBytes) /\ r.query[k].key \in KeyBytes
  BY RequestParts
<1>. HIDE DEF t
<1>2. \A j \in 1 .. Len(t) : t[j] \in ValueBytes
  BY <1>1, ElementOfSeq
<1>. QED
  BY <1>1, <1>2 DEF t

\* A piece of the path is a slash and the text.
LEMMA PathPiece ==
  ASSUME NEW r \in WellFormedRequests, NEW k \in 1 .. Len(r.path)
  PROVE  /\ PathPieces(r)[k] \in Seq(Byte)
         /\ Len(PathPieces(r)[k]) = PathLengths(r)[k]
         /\ PathPieces(r)[k][1] = "/"
         /\ \A j \in 1 .. Len(r.path[k]) : PathPieces(r)[k][1 + j] = r.path[k][j]
<1>1. PathPieces(r)[k] = <<"/">> \o r.path[k] /\ PathLengths(r)[k] = 1 + Len(r.path[k])
  BY RequestParts DEF PathPieces, PathLengths
<1>2. <<"/">> \in Seq(Byte) /\ Len(<<"/">>) = 1 /\ <<"/">>[1] = "/"
  BY BytesAssumption
<1>. DEFINE head == <<"/">>
            text == r.path[k]
<1>3. text \in Seq(Byte)
  BY RequestParts
<1>4. head \in Seq(Byte) /\ Len(head) = 1 /\ head[1] = "/"
  BY <1>2
<1>. HIDE DEF head, text
<1>5. head \o text \in Seq(Byte) /\ Joins(head \o text, head, text)
  BY <1>3, <1>4, ConcatAt
<1>6. PathPieces(r)[k] = head \o text /\ PathLengths(r)[k] = 1 + Len(text)
  BY <1>1 DEF head, text
<1>7. 1 \in 1 .. Len(head)
  BY <1>4
<1>. QED
  BY <1>4, <1>5, <1>6, <1>7 DEF text, Joins

\* A piece of the query is what separates it, the key, "=" and the value.
LEMMA QueryPiece ==
  ASSUME NEW r \in WellFormedRequests, NEW k \in 1 .. Len(r.query)
  PROVE  /\ QueryPieces(r)[k] \in Seq(Byte)
         /\ Len(QueryPieces(r)[k]) = QueryLengths(r)[k]
         /\ QueryPieces(r)[k][1] = IF k = 1 THEN "?" ELSE "&"
         /\ QueryPieces(r)[k][2] = r.query[k].key
         /\ QueryPieces(r)[k][3] = "="
         /\ \A j \in 1 .. Len(r.query[k].val) : QueryPieces(r)[k][3 + j] = r.query[k].val[j]
<1>. DEFINE first == IF k = 1 THEN "?" ELSE "&"
            head == <<first, r.query[k].key, "=">>
            text == r.query[k].val
<1>1. QueryPieces(r)[k] = head \o text /\ QueryLengths(r)[k] = 3 + Len(text)
  BY RequestParts DEF QueryPieces, QueryLengths, Parameter
<1>2. first \in Byte /\ r.query[k].key \in Byte /\ "=" \in Byte
  BY BytesAssumption, RequestParts DEF KeyBytes
<1>3. head \in Seq(Byte) /\ Len(head) = 3 /\ head[1] = first
      /\ head[2] = r.query[k].key /\ head[3] = "="
  <2>. HIDE DEF first
  <2>. QED
    BY <1>2
<1>4. text \in Seq(Byte)
  BY RequestParts
<1>. HIDE DEF head, text
<1>5. head \o text \in Seq(Byte) /\ Joins(head \o text, head, text)
  BY <1>3, <1>4, ConcatAt
<1>6. 1 \in 1 .. Len(head) /\ 2 \in 1 .. Len(head) /\ 3 \in 1 .. Len(head)
  BY <1>3
<1>. QED
  BY <1>1, <1>3, <1>5, <1>6 DEF text, Joins

\* a[k] is where the k-th text of the path ends.
PathAt(r, a) ==
  /\ a \in [0 .. Len(r.path) -> Nat]
  /\ a[0] = 0 /\ a[Len(r.path)] = Mark(r) - 1
  /\ Sums(a, Len(r.path), PathLengths(r))
  /\ \A k \in 1 .. Len(r.path) :
       /\ Url(r)[a[k - 1] + 1] = "/"
       /\ \A j \in 1 .. Len(r.path[k]) : Url(r)[a[k - 1] + (1 + j)] = r.path[k][j]

\* c[k] is where the k-th parameter of the query ends.
QueryAt(r, c) ==
  /\ c \in [0 .. Len(r.query) -> Nat]
  /\ c[0] = Mark(r) - 1 /\ c[Len(r.query)] = Len(Url(r))
  /\ Sums(c, Len(r.query), QueryLengths(r))
  /\ \A k \in 1 .. Len(r.query) :
       /\ Url(r)[c[k - 1] + 1] = IF k = 1 THEN "?" ELSE "&"
       /\ Url(r)[c[k - 1] + 2] = r.query[k].key
       /\ Url(r)[c[k - 1] + 3] = "="
       /\ \A j \in 1 .. Len(r.query[k].val) : Url(r)[c[k - 1] + (3 + j)] = r.query[k].val[j]

PathPlaced(r, a) ==
  LET u == FlattenSeq(PathPieces(r))
  IN /\ a \in [0 .. Len(r.path) -> Nat]
     /\ a[0] = 0 /\ Sums(a, Len(r.path), PathLengths(r))
     /\ u \in Seq(Byte) /\ Placed(u, Len(r.path), PathPieces(r), PathLengths(r), a)

QueryPlaced(r, b) ==
  LET u == FlattenSeq(QueryPieces(r))
  IN /\ b \in [0 .. Len(r.query) -> Nat]
     /\ b[0] = 0 /\ Sums(b, Len(r.query), QueryLengths(r))
     /\ u \in Seq(Byte) /\ Placed(u, Len(r.query), QueryPieces(r), QueryLengths(r), b)

\* The pieces of the path stand one after the other.
LEMMA PathPlaces ==
  ASSUME NEW r \in WellFormedRequests
  PROVE  \E a : PathPlaced(r, a)
<1>. DEFINE n == Len(r.path)
            d == PathLengths(r)
            pieces == PathPieces(r)
<1>1. n \in Nat /\ pieces \in [1 .. n -> Seq(Byte)] /\ \A k \in 1 .. n : Len(pieces[k]) = d[k]
  <2>1. n \in Nat /\ pieces = [k \in 1 .. n |-> pieces[k]]
    BY RequestParts DEF PathPieces
  <2>2. \A k \in 1 .. n : pieces[k] \in Seq(Byte) /\ Len(pieces[k]) = d[k]
    BY PathPiece
  <2>. HIDE DEF n, d, pieces
  <2>. QED
    BY <2>1, <2>2
<1>2. d \in [1 .. n -> Nat]
  BY RequestParts DEF PathLengths
<1>. HIDE DEF n, d, pieces
<1>3. PICK a \in [0 .. n -> Nat] : a[0] = 0 /\ Sums(a, n, d)
  BY <1>1, <1>2, SumsExist
<1>4. FlattenSeq(pieces) \in Seq(Byte) /\ Placed(FlattenSeq(pieces), n, pieces, d, a)
  BY <1>1, <1>2, <1>3, FlattenLemma
<1>5. PathPlaced(r, a)
  BY <1>3, <1>4 DEF PathPlaced, n, d, pieces
<1>. QED
  BY <1>5

\* The pieces of the query stand one after the other.
LEMMA QueryPlaces ==
  ASSUME NEW r \in WellFormedRequests
  PROVE  \E b : QueryPlaced(r, b)
<1>. DEFINE n == Len(r.query)
            d == QueryLengths(r)
            pieces == QueryPieces(r)
<1>1. n \in Nat /\ pieces \in [1 .. n -> Seq(Byte)] /\ \A k \in 1 .. n : Len(pieces[k]) = d[k]
  <2>1. n \in Nat /\ pieces = [k \in 1 .. n |-> pieces[k]]
    BY RequestParts DEF QueryPieces
  <2>2. \A k \in 1 .. n : pieces[k] \in Seq(Byte) /\ Len(pieces[k]) = d[k]
    BY QueryPiece, ZenonT(40)
  <2>. HIDE DEF n, d, pieces
  <2>. QED
    BY <2>1, <2>2
<1>2. d \in [1 .. n -> Nat]
  BY RequestParts DEF QueryLengths
<1>. HIDE DEF n, d, pieces
<1>3. PICK b \in [0 .. n -> Nat] : b[0] = 0 /\ Sums(b, n, d)
  BY <1>1, <1>2, SumsExist
<1>4. FlattenSeq(pieces) \in Seq(Byte) /\ Placed(FlattenSeq(pieces), n, pieces, d, b)
  BY <1>1, <1>2, <1>3, FlattenLemma
<1>5. QueryPlaced(r, b)
  BY <1>3, <1>4 DEF QueryPlaced, n, d, pieces
<1>. QED
  BY <1>5

\* The URL is the path and the query after it, for there is no rest.
LEMMA UrlJoins ==
  ASSUME NEW r \in WellFormedRequests
  PROVE  /\ Url(r) \in Seq(Byte)
         /\ Joins(Url(r), FlattenSeq(PathPieces(r)), FlattenSeq(QueryPieces(r)))
         /\ Len(FlattenSeq(PathPieces(r))) \in Nat /\ Len(FlattenSeq(QueryPieces(r))) \in Nat
<1>. DEFINE s == FlattenSeq(PathPieces(r))
            t == FlattenSeq(QueryPieces(r))
<1>1. s \in Seq(Byte)
  BY PathPlaces DEF PathPlaced
<1>2. t \in Seq(Byte)
  BY QueryPlaces DEF QueryPlaced
<1>5. Url(r) = s \o t \o r.rest /\ r.rest = <<>>
  BY DEF WellFormedRequests, WellFormed, Url, PathPieces, QueryPieces
<1>. HIDE DEF s, t
<1>3. Url(r) = s \o t
  BY <1>1, <1>2, <1>5, ConcatProperties, EmptySeq, ConcatEmptySeq
<1>4. s \o t \in Seq(Byte) /\ Joins(s \o t, s, t) /\ Len(s) \in Nat /\ Len(t) \in Nat
  BY <1>1, <1>2, ConcatAt
<1>. QED
  BY <1>3, <1>4 DEF s, t

\* Every request has the places of its path.
LEMMA PathLemma ==
  ASSUME NEW r \in WellFormedRequests
  PROVE  \E a : PathAt(r, a)
<1>. DEFINE n == Len(r.path)
            d == PathLengths(r)
            s == FlattenSeq(PathPieces(r))
<1>1. PICK a : PathPlaced(r, a)
  BY PathPlaces
<1>2. /\ a \in [0 .. n -> Nat] /\ a[0] = 0 /\ a[n] = Len(s) /\ Sums(a, n, d)
      /\ \A k \in 1 .. n : \A j \in 1 .. d[k] : s[a[k - 1] + j] = PathPieces(r)[k][j]
  BY <1>1 DEF PathPlaced, Placed
<1>3. \A p \in 1 .. Len(s) : Url(r)[p] = s[p]
  BY UrlJoins DEF Joins
<1>4. Len(s) \in Nat /\ Mark(r) = Len(s) + 1
  BY UrlJoins DEF Mark
<1>5. n \in Nat /\ \A k \in 1 .. n : d[k] = 1 + Len(r.path[k]) /\ Len(r.path[k]) \in Nat
  BY RequestParts DEF PathLengths
<1>6. d \in [1 .. n -> Nat]
  BY <1>5 DEF PathLengths
<1>. HIDE DEF n, d, s
<1>7. ASSUME NEW k \in 1 .. n, NEW j \in 1 .. d[k]
      PROVE  Url(r)[a[k - 1] + j] = PathPieces(r)[k][j]
  <2>1. k \in 0 .. n /\ n \in 0 .. n /\ k \in 0 .. n /\ k - 1 \in 0 .. n
    BY <1>5
  <2>2. a[k] <= a[n]
    BY <1>2, <1>5, <1>6, <2>1, SumsGrow
  <2>3. a[k] = a[k - 1] + d[k]
    BY <1>2 DEF Sums
  <2>4. a[k] \in Nat /\ a[k - 1] \in Nat /\ a[n] \in Nat /\ d[k] \in Nat
    BY <1>2, <1>6, <2>1
  <2>5. a[k - 1] + j \in 1 .. Len(s)
    BY <1>2, <2>2, <2>3, <2>4
  <2>. QED
    BY <1>2, <1>3, <2>5
<1>8. ASSUME NEW k \in 1 .. n
      PROVE  /\ Url(r)[a[k - 1] + 1] = "/"
             /\ \A j \in 1 .. Len(r.path[k]) : Url(r)[a[k - 1] + (1 + j)] = r.path[k][j]
  <2>1. 1 \in 1 .. d[k] /\ \A j \in 1 .. Len(r.path[k]) : 1 + j \in 1 .. d[k]
    BY <1>5
  <2>2. /\ PathPieces(r)[k][1] = "/"
        /\ \A j \in 1 .. Len(r.path[k]) : PathPieces(r)[k][1 + j] = r.path[k][j]
    BY PathPiece DEF n
  <2>. QED
    BY <1>7, <2>1, <2>2
<1>9. a[n] = Mark(r) - 1
  BY <1>2, <1>4
<1>10. PathAt(r, a)
  BY <1>2, <1>8, <1>9 DEF PathAt, n, d
<1>. QED
  BY <1>10

\* Every request has the places of its query.
LEMMA QueryLemma ==
  ASSUME NEW r \in WellFormedRequests
  PROVE  \E c : QueryAt(r, c)
<1>. DEFINE n == Len(r.query)
            d == QueryLengths(r)
            s == FlattenSeq(PathPieces(r))
            t == FlattenSeq(QueryPieces(r))
            h == Len(s)
<1>1. PICK b : QueryPlaced(r, b)
  BY QueryPlaces
<1>2. /\ b \in [0 .. n -> Nat] /\ b[0] = 0 /\ b[n] = Len(t) /\ Sums(b, n, d)
      /\ \A k \in 1 .. n : \A j \in 1 .. d[k] : t[b[k - 1] + j] = QueryPieces(r)[k][j]
  BY <1>1 DEF QueryPlaced, Placed
<1>3. Len(Url(r)) = h + Len(t) /\ \A p \in 1 .. Len(t) : Url(r)[h + p] = t[p]
  BY UrlJoins DEF Joins
<1>4. h \in Nat /\ Len(t) \in Nat /\ Mark(r) = h + 1
  BY UrlJoins DEF Mark
<1>5. n \in Nat /\ \A k \in 1 .. n : d[k] = 3 + Len(r.query[k].val) /\ Len(r.query[k].val) \in Nat
  BY RequestParts DEF QueryLengths
<1>6. d \in [1 .. n -> Nat]
  BY <1>5 DEF QueryLengths
<1>7. \A k \in 1 .. n : QueryPieces(r)[k][1] = IF k = 1 THEN "?" ELSE "&"
  BY QueryPiece, SMTT(30)
<1>8. ASSUME NEW k \in 1 .. n
      PROVE  /\ QueryPieces(r)[k][2] = r.query[k].key
             /\ QueryPieces(r)[k][3] = "="
             /\ \A j \in 1 .. Len(r.query[k].val) :
                  QueryPieces(r)[k][3 + j] = r.query[k].val[j]
  BY QueryPiece, ZenonT(40)
<1>. HIDE DEF n, d, s, t, h
<1>. DEFINE c == [k \in 0 .. n |-> h + b[k]]
<1>9. c \in [0 .. n -> Nat] /\ c[0] = h /\ c[n] = h + Len(t)
  BY <1>2, <1>4, <1>5
<1>10. Sums(c, n, d)
  <2>1. ASSUME NEW k \in 1 .. n
        PROVE  c[k] = c[k - 1] + d[k]
    <3>1. k \in 0 .. n /\ k - 1 \in 0 .. n
      BY <1>5
    <3>2. c[k] = h + b[k] /\ c[k - 1] = h + b[k - 1] /\ b[k] \in Nat /\ b[k - 1] \in Nat
      BY <1>2, <3>1
    <3>3. b[k] = b[k - 1] + d[k]
      BY <1>2 DEF Sums
    <3>. HIDE DEF c
    <3>. QED
      BY <1>4, <1>6, <3>2, <3>3
  <2>. QED
    BY <2>1 DEF Sums
<1>11. ASSUME NEW k \in 1 .. n, NEW j \in 1 .. d[k]
       PROVE  Url(r)[c[k - 1] + j] = QueryPieces(r)[k][j]
  <2>1. k \in 0 .. n /\ n \in 0 .. n /\ k \in 0 .. n /\ k - 1 \in 0 .. n
    BY <1>5
  <2>2. b[k] <= b[n]
    BY <1>2, <1>5, <1>6, <2>1, SumsGrow
  <2>3. b[k] = b[k - 1] + d[k]
    BY <1>2 DEF Sums
  <2>4. b[k] \in Nat /\ b[k - 1] \in Nat /\ b[n] \in Nat /\ d[k] \in Nat
    BY <1>2, <1>6, <2>1
  <2>5. b[k - 1] + j \in 1 .. Len(t)
    BY <1>2, <2>2, <2>3, <2>4
  <2>6. c[k - 1] = h + b[k - 1]
    BY <2>1
  <2>7. c[k - 1] + j = h + (b[k - 1] + j)
    BY <1>4, <2>4, <2>6
  <2>. HIDE DEF c
  <2>. QED
    BY <1>2, <1>3, <2>5, <2>7
<1>. HIDE DEF c
<1>12. ASSUME NEW k \in 1 .. n
       PROVE  /\ Url(r)[c[k - 1] + 1] = IF k = 1 THEN "?" ELSE "&"
              /\ Url(r)[c[k - 1] + 2] = r.query[k].key
              /\ Url(r)[c[k - 1] + 3] = "="
              /\ \A j \in 1 .. Len(r.query[k].val) :
                   Url(r)[c[k - 1] + (3 + j)] = r.query[k].val[j]
  <2>. DEFINE size == Len(r.query[k].val)
  <2>2. d[k] = 3 + size /\ size \in Nat
    BY <1>5
  <2>. HIDE DEF size
  <2>3. 1 \in 1 .. d[k] /\ 2 \in 1 .. d[k] /\ 3 \in 1 .. d[k]
        /\ \A j \in 1 .. size : 3 + j \in 1 .. d[k]
    BY <2>2
  <2>1. 1 \in 1 .. d[k] /\ 2 \in 1 .. d[k] /\ 3 \in 1 .. d[k]
        /\ \A j \in 1 .. Len(r.query[k].val) : 3 + j \in 1 .. d[k]
    BY <2>3 DEF size
  <2>. QED
    BY <1>7, <1>8, <1>11, <2>1
<1>13. c[0] = Mark(r) - 1 /\ c[n] = Len(Url(r))
  BY <1>3, <1>4, <1>9
<1>14. QueryAt(r, c)
  BY <1>9, <1>10, <1>12, <1>13 DEF QueryAt, n, d
<1>. QED
  BY <1>14

\* Any URL is a sequence of bytes, none of them NUL.
LEMMA UrlTyped ==
  ASSUME NEW r \in Requests
  PROVE  Url(r) \in Seq(Byte) /\ Len(Url(r)) \in Nat
<1>1. Url(r) \in Seq(Byte \ {Nul})
  BY RequestsAssumption
<1>. DEFINE u == Url(r)
            S == Byte \ {Nul}
<1>2. u \in Seq(S) /\ S \subseteq Byte
  BY <1>1
<1>. HIDE DEF u, S
<1>3. u \in Seq(Byte) /\ Len(u) \in Nat
  BY <1>2, SeqMonotonic
<1>. QED
  BY <1>3 DEF u

\* The URL of a well-formed request has room in max_path, and no NUL; the path begins with a slash and
\* has no question mark, which begins the query.
LEMMA UrlLemma ==
  ASSUME NEW r \in WellFormedRequests
  PROVE  /\ Url(r) \in Seq(Byte) /\ Len(Url(r)) \in Nat /\ Len(Url(r)) < PathSize
         /\ Mark(r) \in Nat /\ 5 <= Mark(r) /\ Mark(r) <= Len(Url(r)) + 1
         /\ IF Len(r.query) = 0 THEN Mark(r) = Len(Url(r)) + 1
            ELSE Mark(r) < Len(Url(r)) /\ Url(r)[Mark(r)] = "?"
         /\ Url(r)[1] = "/"
         /\ \A p \in 1 .. Mark(r) - 1 : Url(r)[p] # "?"
         /\ \A p \in 1 .. Len(Url(r)) : Url(r)[p] # Nul
<1>. DEFINE u == Url(r)
            L == Len(u)
            M == Mark(r)
            n == Len(r.path)
            m == Len(r.query)
            d == PathLengths(r)
            e == QueryLengths(r)
<1>1. u \in Seq(Byte) /\ L \in Nat /\ L < PathSize
  <2>1. WellFormed(r) /\ r \in Requests
    BY DEF WellFormedRequests
  <2>2. L < PathSize
    BY <2>1 DEF WellFormed
  <2>. QED
    BY <2>1, <2>2, UrlTyped
<1>2. PICK a : PathAt(r, a)
  BY PathLemma
<1>3. PICK c : QueryAt(r, c)
  BY QueryLemma
<1>4. /\ n \in Nat /\ n >= 2 /\ d \in [1 .. n -> Nat]
      /\ \A k \in 1 .. n : d[k] = 1 + Len(r.path[k]) /\ Len(r.path[k]) \in Nat \ {0}
                           /\ d[k] \in Nat /\ d[k] >= 2
  <2>1. n \in Nat /\ n >= 2 /\ \A k \in 1 .. n : Len(r.path[k]) \in Nat \ {0}
    BY RequestParts
  <2>2. d = [k \in 1 .. n |-> 1 + Len(r.path[k])]
    BY DEF PathLengths
  <2>. HIDE DEF n, d
  <2>. QED
    BY <2>1, <2>2, SMTT(30)
<1>5. /\ m \in Nat /\ e \in [1 .. m -> Nat]
      /\ \A k \in 1 .. m : e[k] = 3 + Len(r.query[k].val) /\ Len(r.query[k].val) \in Nat
                           /\ e[k] \in Nat /\ e[k] >= 3
  <2>1. m \in Nat /\ \A k \in 1 .. m : Len(r.query[k].val) \in Nat
    BY RequestParts
  <2>2. e = [k \in 1 .. m |-> e[k]] /\ \A k \in 1 .. m : e[k] = 3 + Len(r.query[k].val)
    BY DEF QueryLengths
  <2>. HIDE DEF m, e
  <2>3. \A k \in 1 .. m : e[k] \in Nat /\ e[k] >= 3
    BY <2>1, <2>2
  <2>4. e \in [1 .. m -> Nat]
    BY <2>2, <2>3, Zenon
  <2>. QED
    BY <2>1, <2>2, <2>3, <2>4, Zenon
<1>6. /\ a \in [0 .. n -> Nat] /\ a[0] = 0 /\ a[n] = M - 1 /\ Sums(a, n, d)
      /\ \A k \in 1 .. n :
           /\ u[a[k - 1] + 1] = "/"
           /\ \A j \in 1 .. Len(r.path[k]) : u[a[k - 1] + (1 + j)] = r.path[k][j]
  BY <1>2 DEF PathAt
<1>7. /\ c \in [0 .. m -> Nat] /\ c[0] = M - 1 /\ c[m] = L /\ Sums(c, m, e)
      /\ \A k \in 1 .. m :
           /\ u[c[k - 1] + 1] = IF k = 1 THEN "?" ELSE "&"
           /\ u[c[k - 1] + 2] = r.query[k].key
           /\ u[c[k - 1] + 3] = "="
           /\ \A j \in 1 .. Len(r.query[k].val) : u[c[k - 1] + (3 + j)] = r.query[k].val[j]
  BY <1>3 DEF QueryAt
<1>8. M \in Nat
  BY UrlJoins DEF Mark
<1>9. \A k \in 1 .. n : \A j \in 1 .. Len(r.path[k]) : r.path[k][j] \notin {Nul, "?"}
  BY PathElement DEF PathBytes
<1>10. /\ \A k \in 1 .. m : r.query[k].key # Nul
       /\ \A k \in 1 .. m : \A j \in 1 .. Len(r.query[k].val) : r.query[k].val[j] # Nul
  BY QueryElement DEF KeyBytes, ValueBytes
<1>. HIDE DEF u, L, M, n, m, d, e
<1>11. Covers(a, n, d) /\ Covers(c, m, e)
  BY <1>4, <1>5, <1>6, <1>7, SumsCover
<1>12. 5 <= M
  <2>1. 2 \in 0 .. n /\ n \in 0 .. n /\ 1 \in 1 .. n /\ 2 \in 1 .. n /\ 2 \in 0 .. n /\ 1 \in 0 .. n
    BY <1>4
  <2>2. a[2] <= a[n]
    BY <1>4, <1>6, <2>1, SumsGrow
  <2>3. a[1] = a[1 - 1] + d[1] /\ a[2] = a[2 - 1] + d[2]
    BY <1>6, <2>1 DEF Sums
  <2>4. 1 - 1 = 0 /\ 2 - 1 = 1 /\ d[1] >= 2 /\ d[2] >= 2 /\ d[1] \in Nat /\ d[2] \in Nat
    BY <1>4, <2>1
  <2>5. a[1] = d[1] /\ a[2] = d[1] + d[2]
    BY <1>6, <2>3, <2>4
  <2>. QED
    BY <1>6, <1>8, <2>1, <2>2, <2>4, <2>5
<1>13. ASSUME NEW p \in 1 .. M - 1
       PROVE  u[p] \notin {Nul, "?"}
  <2>1. n \in 0 .. n /\ p \in a[0] + 1 .. a[n]
    BY <1>4, <1>6
  <2>2. PICK k \in 1 .. n : \E j \in 1 .. d[k] : p = a[k - 1] + j
    BY <1>11, <2>1, Zenon DEF Covers
  <2>3. PICK j \in 1 .. d[k] : p = a[k - 1] + j
    BY <2>2
  <2>4. CASE j = 1
    BY <1>6, <2>3, <2>4 DEF Nul
  <2>5. CASE j # 1
    <3>1. j - 1 \in 1 .. Len(r.path[k]) /\ j = 1 + (j - 1)
      BY <1>4, <2>5
    <3>. DEFINE x == j - 1
    <3>2. x \in 1 .. Len(r.path[k]) /\ p = a[k - 1] + (1 + x)
      BY <2>3, <3>1
    <3>. HIDE DEF x
    <3>. QED
      BY <1>6, <1>9, <3>2
  <2>. QED
    BY <2>4, <2>5
<1>14. ASSUME NEW p \in M .. L
       PROVE  u[p] # Nul
  <2>1. m \in 0 .. m /\ p \in c[0] + 1 .. c[m]
    BY <1>5, <1>7, <1>8
  <2>2. PICK k \in 1 .. m : \E j \in 1 .. e[k] : p = c[k - 1] + j
    BY <1>11, <2>1, Zenon DEF Covers
  <2>3. PICK j \in 1 .. e[k] : p = c[k - 1] + j
    BY <2>2
  <2>6. u[c[k - 1] + 1] # Nul /\ u[c[k - 1] + 2] # Nul /\ u[c[k - 1] + 3] # Nul
    BY <1>7, <1>10 DEF Nul
  <2>7. CASE j = 1
    BY <2>3, <2>6, <2>7
  <2>8. CASE j = 2
    BY <2>3, <2>6, <2>8
  <2>9. CASE j = 3
    BY <2>3, <2>6, <2>9
  <2>5. CASE j \notin {1, 2, 3}
    <3>. DEFINE x == j - 3
    <3>1. x \in 1 .. Len(r.query[k].val) /\ j = 3 + x
      BY <1>5, <2>5
    <3>. HIDE DEF x
    <3>2. p = c[k - 1] + (3 + x)
      BY <2>3, <3>1
    <3>3. u[c[k - 1] + (3 + x)] = r.query[k].val[x]
      BY <1>7, <3>1
    <3>4. r.query[k].val[x] # Nul
      BY <1>10, <3>1, Zenon
    <3>. QED
      BY <3>2, <3>3, <3>4
  <2>. QED
    BY <2>5, <2>7, <2>8, <2>9
<1>15. M <= L + 1 /\ IF m = 0 THEN M = L + 1 ELSE M < L /\ u[M] = "?"
  <2>1. CASE m = 0
    BY <1>1, <1>7, <1>8, <2>1
  <2>2. CASE m # 0
    <3>1. m \in 0 .. m /\ 1 \in 0 .. m /\ 1 \in 1 .. m /\ 1 - 1 = 0 /\ 0 \in 0 .. m
      BY <1>5, <2>2
    <3>2. c[1] <= c[m]
      BY <1>5, <1>7, <3>1, SumsGrow
    <3>3. c[1] = c[1 - 1] + e[1]
      BY <1>7, <3>1 DEF Sums
    <3>4. e[1] \in Nat /\ e[1] >= 3 /\ c[1] \in Nat /\ c[0] \in Nat
      BY <1>5, <1>7, <3>1
    <3>5. M < L
      BY <1>1, <1>7, <1>8, <3>1, <3>2, <3>3, <3>4, SMTT(30)
    <3>6. u[c[1 - 1] + 1] = "?"
      BY <1>7, <3>1
    <3>7. c[1 - 1] + 1 = M
      BY <1>7, <1>8, <3>1
    <3>. QED
      BY <1>1, <1>8, <2>2, <3>5, <3>6, <3>7
  <2>. QED
    BY <2>1, <2>2
<1>16. u[1] = "/"
  <2>1. 1 \in 1 .. n /\ 1 - 1 = 0 /\ 0 + 1 = 1
    BY <1>4
  <2>2. u[a[1 - 1] + 1] = "/"
    BY <1>6, <2>1
  <2>. QED
    BY <1>6, <2>1, <2>2
<1>17. \A p \in 1 .. L : u[p] # Nul
  <2>1. \A p \in 1 .. L : p \in 1 .. M - 1 \/ p \in M .. L
    BY <1>1, <1>8
  <2>. QED
    BY <1>13, <1>14, <2>1
<1>. QED
  BY <1>1, <1>8, <1>12, <1>13, <1>15, <1>16, <1>17 DEF u, L, M, m
===============================================================================
