---------------------------- MODULE MCHttpParser ----------------------------
(***************************************************************************)
(* HttpParser on small sets of requests.                                   *)
(***************************************************************************)
EXTENDS HttpParser

MCByte == {Nul, "/", "?", "&", "="} \cup Names \cup Keys
            \cup {Digits[k] : k \in DOMAIN Digits} \cup {"x", "m", "f", "fr", "cars", "queryId"}

Request(m, p, q) == [method |-> m, path |-> p, query |-> q, rest |-> <<>>]
IllFormed(m, p, q, bytes) == [method |-> m, path |-> p, query |-> q, rest |-> bytes]
Param(k, v) == [key |-> k, val |-> v]

\* The second part of a path: short and long ids, one beyond 32 bits here, a
\* text that is no number, and "new".
Seconds == {<<"7">>, <<"1", "2">>, <<"1", "0", "7">>, <<"1", "x">>, <<"new">>}

\* Every route, and paths that are none.
MCPaths ==
  {<<<<entity>>, second>> : entity \in {"users", "locations", "visits", "cars"},
                            second \in Seconds}
  \cup {<<<<entity>>, <<"7">>, <<third>>>> : entity \in {"users", "locations", "visits"},
                                            third \in {"visits", "avg"}}

MCQueries ==
  {<<Param("gender", <<"f">>)>>,
   <<Param("gender", <<"x">>)>>,
   <<Param("toDistance", <<"1", "0", "1">>), Param("country", <<"fr">>)>>,
   <<Param("toDate", <<"1">>), Param("toDate", <<"2", "x">>)>>,
   <<Param("fromDate", <<"1">>), Param("fromDate", <<"3">>)>>,
   <<Param("queryId", <<"5">>), Param("fromAge", <<"0">>)>>}

MCAloneRequests ==
  {Request(method, path, <<>>) : method \in {"GET", "POST"}, path \in MCPaths}
  \cup {Request("PUT", <<<<"users">>, <<"7">>>>, <<>>)}
  \cup {Request("GET", <<<<"users">>, <<"7">>, <<"visits">>>>, q) : q \in MCQueries}
  \cup {Request("GET", <<<<"locations">>, <<"1", "2">>, <<"avg">>>>, q) : q \in MCQueries}

\* A path of one part and of none, an empty query, a parameter without a value,
\* one too many, a URL too long and one that yuarel_parse refuses.
MCIllFormedRequests ==
  LET users == <<<<"users">>, <<"7">>>>
      three == <<Param("toAge", <<"2">>), Param("fromDate", <<"1">>), Param("country", <<"fr">>)>>
  IN {Request("GET", <<<<"users">>>>, <<>>), Request("POST", <<<<"users">>>>, <<>>),
      IllFormed("GET", <<>>, <<>>, <<"/">>), IllFormed("GET", <<>>, <<>>, <<"users">>),
      IllFormed("GET", users, <<>>, <<"?">>), IllFormed("GET", users, <<>>, <<"?", "toAge">>),
      IllFormed("GET", users, <<>>, [k \in 1 .. PathSize |-> "1"]),
      Request("GET", users, three)}

MCLoneRequests == MCAloneRequests \cup MCIllFormedRequests

\* A few requests, one of them ill-formed, with parts and queries that lie across
\* each other.
MCSharedRequests ==
  {Request("GET", <<<<"users">>, <<"7">>>>, <<>>),
   Request("GET", <<<<"users">>, <<"1", "2">>>>, <<>>),
   Request("GET", <<<<"users">>, <<"7">>>>, <<Param("toAge", <<"3">>)>>),
   Request("POST", <<<<"visits">>, <<"new">>>>, <<>>),
   Request("POST", <<<<"users">>>>, <<>>)}

\* Two requests whose URLs agree byte for byte but in the id.
MCSameShapeRequests ==
  {Request("GET", <<<<"users">>, <<"1">>>>, <<>>),
   Request("GET", <<<<"users">>, <<"2">>>>, <<>>)}
=============================================================================
