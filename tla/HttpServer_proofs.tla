-------------------------- MODULE HttpServer_proofs --------------------------
(***************************************************************************)
(* Theorems about HttpServer, for any number of clients, descriptors and   *)
(* threads.                                                                *)
(***************************************************************************)
EXTENDS HttpServer, TLAPS

(***************************************************************************)
(* Type correctness.                                                       *)
(***************************************************************************)
\* The initial state has values of the right kinds.
LEMMA TypeInit == Init => TypeOK
  <1> SUFFICES ASSUME Init
               PROVE  TypeOK
    OBVIOUS
  <1>1. backlog \in Seq(Clients) /\ \A c \in Clients : inbox[c] \in Seq(Requests)
    BY DEF Init
  <1>2. NoMessage \in Requests
    BY DEF NoMessage, Requests
  <1>3. unsent \in [Clients -> Nat]
    BY PiecesAssumption DEF PiecesAssumption, Init
  <1>4. QED
    BY <1>1, <1>2, <1>3 DEF Init, TypeOK

\* So has the state after every step.
LEMMA TypeStep == TypeOK /\ [Next]_vars => TypeOK'
  <1> SUFFICES ASSUME TypeOK, [Next]_vars
               PROVE  TypeOK'
    OBVIOUS
  <1> USE DEF TypeOK
  <1>1. ASSUME NEW c \in Clients, Connect(c)
        PROVE  TypeOK'
    BY <1>1 DEF Connect, workers
  <1>2. ASSUME NEW c \in Clients, SendPiece(c)
        PROVE  TypeOK'
    BY <1>2 DEF SendPiece, server, workers
  <1>3. ASSUME NEW c \in Clients, HangUp(c)
        PROVE  TypeOK'
    <2>1. unread' \in [Clients -> Nat]
      <3>1. unread' = unread \/ unread' = [unread EXCEPT ![c] = 0]
        BY <1>3 DEF HangUp
      <3>2. unread \in [Clients -> Nat] /\ 0 \in Nat
        OBVIOUS
      <3>3. QED
        BY <3>1, <3>2
    <2>2. QED
      BY <1>3, <2>1 DEF HangUp, server, workers
  <1>4. CASE Accept
    <2>1. Head(backlog) \in Clients /\ Tail(backlog) \in Seq(Clients)
      BY <1>4 DEF Accept
    <2>2. QED
      BY <1>4, <2>1 DEF Accept, workers, clients
  <1>5. CASE AcceptFails \/ \E w \in Workers : ParseFaults(w)
    BY <1>5 DEF AcceptFails, ParseFaults, workers, clients
  <1>6. CASE Register
    BY <1>6 DEF Register, workers, clients
  <1>7. CASE RegisterFails
    BY <1>7 DEF RegisterFails, workers, clients
  <1>8. ASSUME NEW w \in Workers, EpollWait(w)
        PROVE  TypeOK'
    BY <1>8 DEF EpollWait, IsBatch, Ready, clients
  <1>9. ASSUME NEW w \in Workers, Recv(w)
        PROVE  TypeOK'
    <2>1. PICK f \in events[w] :
            /\ fd' = [fd EXCEPT ![w] = f]
            /\ events' = [events EXCEPT ![w] = @ \ {f}]
            /\ \/ /\ Readable(f)
                  /\ \E n \in 1 .. unread[conn[f]] :
                       /\ message' = [message EXCEPT ![w] = <<conn[f], n>>]
                       /\ unread' = [unread EXCEPT ![conn[f]] = @ - n]
                  /\ crossed' = crossed \cup Crossing(conn[f])
                  /\ pc' = [pc EXCEPT ![w] = "ProcessRequest"]
               \/ /\ pc' = [pc EXCEPT ![w] = "close"]
                  /\ UNCHANGED <<message, crossed, unread>>
      BY <1>9 DEF Recv
    <2>2. f \in Descriptors /\ f # NoDescriptor
      BY AbsenceAssumption DEF AbsenceAssumption
    <2>3. message' \in [Workers -> Requests] /\ unread' \in [Clients -> Nat]
      <3>1. CASE UNCHANGED <<message, unread>>
        BY <3>1
      <3>2. ASSUME Readable(f), NEW n \in 1 .. unread[conn[f]],
                   message' = [message EXCEPT ![w] = <<conn[f], n>>],
                   unread' = [unread EXCEPT ![conn[f]] = @ - n]
            PROVE  message' \in [Workers -> Requests] /\ unread' \in [Clients -> Nat]
        <4>1. conn[f] \in Clients
          BY <2>2, <3>2 DEF Readable
        <4>2. unread[conn[f]] \in Nat /\ n \in Nat /\ unread[conn[f]] - n \in Nat
          BY <4>1
        <4>3. <<conn[f], n>> \in Requests
          BY <4>1, <4>2 DEF Requests
        <4>4. QED
          BY <3>2, <4>1, <4>2, <4>3
      <3>3. QED
        BY <2>1, <3>1, <3>2
    <2>4. /\ UNCHANGED <<backlog, conn, sock, armed, exited, link, unsent, hungup, inbox>>
          /\ pc[w] = "recv"
      BY <1>9 DEF Recv, server
    <2>5. /\ fd' \in [Workers -> Descriptors \cup {NoDescriptor}]
          /\ events' \in [Workers -> SUBSET Descriptors]
          /\ pc' \in [Workers -> {"epoll_wait", "recv", "ProcessRequest", "send", "close"}]
      BY <2>1, <2>2
    <2>6. ASSUME NEW x \in Workers
          PROVE  /\ pc[x]' = "epoll_wait" => events[x]' = {}
                 /\ pc[x]' = "recv" => events[x]' # {}
                 /\ fd[x]' = NoDescriptor <=> pc[x]' \in {"epoll_wait", "recv"}
      <3>1. CASE x = w
        BY <2>1, <2>2, <3>1
      <3>2. CASE x # w
        BY <2>1, <3>2
      <3>3. QED
        BY <3>1, <3>2
    <2>7. crossed' \subseteq Clients \cup {NoClient}
      <3>1. conn[f] \in Clients \cup {NoClient}
        BY <2>2
      <3>2. \A x \in Workers : message[x][1] \in Clients \cup {NoClient}
        BY DEF Requests
      <3>3. Crossing(conn[f]) \subseteq Clients \cup {NoClient}
        BY <3>1, <3>2 DEF Crossing, Parsing
      <3>4. QED
        BY <2>1, <3>3
    <2>8. QED
      BY <2>3, <2>4, <2>5, <2>6, <2>7
  <1>10. ASSUME NEW w \in Workers, ProcessRequest(w)
         PROVE  TypeOK'
    BY <1>10 DEF ProcessRequest, server, clients
  <1>11. ASSUME NEW w \in Workers, Send(w)
         PROVE  TypeOK'
    <2> DEFINE c == conn[fd[w]]
    <2>0. pc[w] = "send"
      BY <1>11 DEF Send
    <2>1. c \in Clients \cup {NoClient} /\ message[w] \in Requests
      BY <2>0
    <2>2. inbox' \in [Clients -> Seq(Requests)]
      <3>1. CASE UNCHANGED inbox
        BY <3>1
      <3>2. CASE c # NoClient /\ inbox' = [inbox EXCEPT ![c] = Append(@, message[w])]
        <4>1. c \in Clients /\ inbox[c] \in Seq(Requests)
          BY <2>1, <3>2
        <4>2. Append(inbox[c], message[w]) \in Seq(Requests)
          BY <2>1, <4>1
        <4>3. QED
          BY <3>2, <4>1, <4>2
      <3>3. QED
        BY <1>11, <3>1, <3>2 DEF Send
    <2>3. pc' = [pc EXCEPT ![w] = "close"] /\ pc[w] = "send"
      BY <1>11 DEF Send
    <2>4. QED
      BY <1>11, <2>2, <2>3 DEF Send, server
  <1>12. ASSUME NEW w \in Workers, Close(w)
         PROVE  TypeOK'
    <2>1. fd[w] \in Descriptors
      BY <1>12 DEF Close
    <2>2. /\ conn' \in [Descriptors -> Clients \cup {NoClient}]
          /\ armed' \subseteq Descriptors
          /\ link' \in [Clients -> {"out", "in", "closed"}]
          /\ inbox' \in [Clients -> Seq(Requests)]
      <3>1. CASE conn[fd[w]] = NoClient
        BY <1>12, <3>1 DEF Close, CloseDescriptor
      <3>2. CASE conn[fd[w]] # NoClient
        <4> DEFINE c == conn[fd[w]]
        <4>1. c \in Clients /\ <<>> \in Seq(Requests)
          BY <2>1, <3>2
        <4>2. inbox' \in {inbox, [inbox EXCEPT ![c] = <<>>]}
          BY <1>12, <3>2 DEF Close, CloseDescriptor
        <4>3. inbox' \in [Clients -> Seq(Requests)]
          BY <4>1, <4>2
        <4>4. QED
          BY <1>12, <2>1, <3>2, <4>1, <4>3 DEF Close, CloseDescriptor
      <3>3. QED
        BY <3>1, <3>2
    <2>3. NoMessage \in Requests
      BY DEF NoMessage, Requests
    <2>4. QED
      BY <1>12, <2>2, <2>3 DEF Close, NextEvent
  <1>13. CASE UNCHANGED vars
    BY <1>13 DEF vars, server, workers, clients
  <1>14. QED
    BY <1>1, <1>2, <1>3, <1>4, <1>5, <1>6, <1>7, <1>8, <1>9, <1>10, <1>11,
       <1>12, <1>13 DEF Next, Run, DoJob

\* Every variable has values of its kind, and a worker that waits for events
\* has finished its batch.
THEOREM TypeCorrect == Spec => []TypeOK
  <1>1. Init => TypeOK
    BY TypeInit
  <1>2. TypeOK /\ [Next]_vars => TypeOK'
    BY TypeStep
  <1>3. QED
    BY <1>1, <1>2, PTL DEF Spec

-----------------------------------------------------------------------------
(***************************************************************************)
(* The inductive invariant.                                                *)
(***************************************************************************)
\* A client has one connection, in the backlog or with one descriptor.
ConnectedOnce ==
  /\ \A i, j \in 1 .. Len(backlog) : backlog[i] = backlog[j] => i = j
  /\ \A f, g \in Open : conn[f] = conn[g] => f = g
  /\ \A f \in Open : \A i \in 1 .. Len(backlog) : conn[f] # backlog[i]
  /\ \A f \in Open : link[conn[f]] = "in"
  /\ \A i \in 1 .. Len(backlog) : link[backlog[i]] = "in"

\* What a worker has read came from the client it will answer, and no piece is
\* counted twice.
ReadFromHolder ==
  /\ \A c \in Clients : unsent[c] + unread[c] <= Pieces[c]
  /\ \A w \in Workers : pc[w] \in {"ProcessRequest", "send"} =>
       LET c == conn[fd[w]]
       IN /\ message[w][1] = c
          /\ message[w][2] >= 1
          /\ unsent[c] + unread[c] + message[w][2] <= Pieces[c]

\* What may leave a client without a reply.
Excused(c) == Pieces[c] > 1 \/ c \in hungup \cup IllFormed \cup crossed

\* Only a connection that is closed, or about to be, has a reply, and it is
\* closed after the reply to all there was, or with an excuse.
AnsweredLast ==
  /\ \A c \in Clients : inbox[c] # <<>> =>
       link[c] = "closed" \/ \E w \in Workers : pc[w] = "close" /\ conn[fd[w]] = c
  /\ \A w \in Workers : pc[w] = "close" =>
       LET c == conn[fd[w]]
       IN Excused(c) \/ (inbox[c] # <<>> /\ unsent[c] = 0 /\ unread[c] = 0)

Inv == TypeOK /\ OneHolder /\ ConnectedOnce /\ ReadFromHolder /\ AnsweredLast
         /\ RepliesGoHome /\ NotDropped

-----------------------------------------------------------------------------
(***************************************************************************)
(* Descriptors.                                                            *)
(***************************************************************************)
\* What a worker does with its descriptor, before close, leaves every open
\* descriptor where it is.
LEMMA SameHolders ==
  ASSUME OneHolder, UNCHANGED <<conn, sock, armed>>,
         \A w \in Workers :
           /\ Held(w)' = Held(w)
           /\ \A f \in Held(w) : f \in events[w]' /\ f = fd[w]'
                                   => f \in events[w] /\ f = fd[w]
  PROVE  OneHolder'
  BY DEF OneHolder, Open

\* Every step hands a descriptor on as a whole.
LEMMA HolderStep == TypeOK /\ OneHolder /\ [Next]_vars => OneHolder'
  <1> SUFFICES ASSUME TypeOK, OneHolder, [Next]_vars
               PROVE  OneHolder'
    OBVIOUS
  <1>a. /\ events \in [Workers -> SUBSET Descriptors]
        /\ fd \in [Workers -> Descriptors \cup {NoDescriptor}]
        /\ pc \in [Workers -> {"epoll_wait", "recv", "ProcessRequest", "send", "close"}]
        /\ conn \in [Descriptors -> Clients \cup {NoClient}]
        /\ armed \subseteq Descriptors
        /\ \A w \in Workers :
             /\ pc[w] = "epoll_wait" => events[w] = {}
             /\ fd[w] = NoDescriptor <=> pc[w] \in {"epoll_wait", "recv"}
    BY DEF TypeOK
  <1>1. ASSUME NEW c \in Clients, Connect(c) \/ SendPiece(c) \/ HangUp(c)
        PROVE  OneHolder'
    BY <1>1, SameHolders DEF Connect, SendPiece, HangUp, server, workers, Held
  <1>2. CASE Accept
    <2>1. PICK f \in Descriptors \ Open :
            conn' = [conn EXCEPT ![f] = Head(backlog)] /\ sock' = f
      BY <1>2 DEF Accept
    <2>2. Head(backlog) # NoClient
      <3>1. Head(backlog) \in Clients
        BY <1>2 DEF Accept, TypeOK
      <3>2. QED
        BY <3>1, AbsenceAssumption DEF AbsenceAssumption
    <2>3. UNCHANGED <<armed, events, fd>> /\ sock = NoDescriptor
      BY <1>2 DEF Accept, workers
    <2>4. Open' = Open \cup {f}
      BY <2>1, <2>2, <1>a DEF Open
    <2>5. QED
      BY <2>1, <2>3, <2>4, AbsenceAssumption DEF AbsenceAssumption, OneHolder, Held
  <1>3. CASE Register
    <2>1. armed' = armed \cup {sock} /\ sock' = NoDescriptor /\ sock # NoDescriptor
          /\ UNCHANGED <<conn, events, fd>>
      BY <1>3 DEF Register, workers
    <2>2. QED
      BY <2>1, AbsenceAssumption DEF AbsenceAssumption, OneHolder, Open, Held
  <1>4. CASE AcceptFails \/ RegisterFails \/ \E w \in Workers : ParseFaults(w)
    BY <1>4, SameHolders DEF AcceptFails, ParseFaults, RegisterFails, workers, Held
  <1>5. ASSUME NEW w \in Workers, EpollWait(w)
        PROVE  OneHolder'
    <2>1. PICK batch \in SUBSET Ready :
            events' = [events EXCEPT ![w] = batch] /\ armed' = armed \ batch
      BY <1>5 DEF EpollWait
    <2>2. UNCHANGED <<conn, sock, fd>> /\ pc[w] = "epoll_wait"
      BY <1>5 DEF EpollWait
    <2>3. batch \subseteq armed
      BY DEF Ready
    <2>4. Held(w) = {} /\ Held(w)' = batch
      BY <1>a, <2>1, <2>2 DEF Held
    <2>5. \A x \in Workers \ {w} : Held(x)' = Held(x)
      BY <1>a, <2>1, <2>2 DEF Held
    <2>6. Open' = Open
      BY <2>2 DEF Open
    <2>7. \A f \in Descriptors, x \in Workers :
            f \in events[x]' /\ f = fd[x]' => f \in events[x] /\ f = fd[x]
      BY <1>a, <2>1, <2>2, AbsenceAssumption DEF AbsenceAssumption
    <2>8. ASSUME NEW f \in Descriptors
          PROVE  /\ f \in Open' <=> f = sock' \/ f \in armed'
                                    \/ \E x \in Workers : f \in Held(x)'
                 /\ f = sock' => f \notin armed'
      BY <2>1, <2>2, <2>3, <2>4, <2>5, <2>6 DEF OneHolder
    <2>9. ASSUME NEW f \in Descriptors, NEW x \in Workers, f \in Held(x)'
          PROVE  /\ f # sock' /\ f \notin armed'
                 /\ f \notin events[x]' \/ f # fd[x]'
                 /\ \A y \in Workers \ {x} : f \notin Held(y)'
      <3>1. CASE x = w
        <4>1. f \in batch /\ f \in armed
          BY <2>3, <2>4, <2>9, <3>1
        <4>2. f # sock /\ \A y \in Workers : f \notin Held(y)
          BY <4>1 DEF OneHolder
        <4>3. f \notin events[x]' \/ f # fd[x]'
          BY <2>7, <4>2 DEF Held
        <4>4. QED
          BY <2>1, <2>2, <2>5, <3>1, <4>1, <4>2, <4>3
      <3>2. CASE x # w
        BY <2>1, <2>2, <2>3, <2>4, <2>5, <2>7, <2>9, <3>2 DEF OneHolder
      <3>3. QED
        BY <3>1, <3>2
    <2>10. QED
      BY <2>8, <2>9 DEF OneHolder
  <1>6. ASSUME NEW w \in Workers, Recv(w)
        PROVE  OneHolder'
    <2>1. PICK f \in events[w] : /\ fd' = [fd EXCEPT ![w] = f]
                                 /\ events' = [events EXCEPT ![w] = @ \ {f}]
      BY <1>6 DEF Recv
    <2>2. UNCHANGED <<conn, sock, armed>> /\ fd[w] = NoDescriptor
      BY <1>6, <1>a DEF Recv, server
    <2>3. f # NoDescriptor
      BY <1>a, AbsenceAssumption DEF AbsenceAssumption
    <2>4. \A x \in Workers :
            /\ Held(x)' = Held(x)
            /\ \A g \in Held(x) : g \in events[x]' /\ g = fd[x]'
                                   => g \in events[x] /\ g = fd[x]
      BY <1>a, <2>1, <2>2, <2>3 DEF Held
    <2>5. QED
      BY <2>2, <2>4, SameHolders
  <1>7. ASSUME NEW w \in Workers, ProcessRequest(w) \/ Send(w)
        PROVE  OneHolder'
    BY <1>7, SameHolders DEF ProcessRequest, Send, server, Held
  <1>8. ASSUME NEW w \in Workers, Close(w)
        PROVE  OneHolder'
    <2> DEFINE f == fd[w]
    <2>1. /\ fd' = [fd EXCEPT ![w] = NoDescriptor] /\ UNCHANGED <<events, sock>>
          /\ f \in Descriptors
      BY <1>8, <1>a DEF Close
    <2>2. f \in Held(w) /\ Held(w)' = events[w]
      BY <1>a, <2>1, AbsenceAssumption DEF AbsenceAssumption, Held
    <2>3. \A x \in Workers \ {w} : Held(x)' = Held(x)
      BY <1>a, <2>1 DEF Held
    <2>4. f \in Open
      BY <2>1, <2>2 DEF OneHolder
    <2>5. Open' = Open \ {f} /\ armed' = armed \ {f}
      BY <1>8, <1>a, <2>1, <2>4 DEF Close, CloseDescriptor, Open
    <2>6. f \notin events[w]
      BY <2>1, <2>2 DEF OneHolder
    <2>7. \A g \in Descriptors, x \in Workers :
            g \in events[x]' /\ g = fd[x]' => g \in events[x] /\ g = fd[x]
      BY <1>a, <2>1, AbsenceAssumption DEF AbsenceAssumption
    <2>8. ASSUME NEW g \in Descriptors
          PROVE  /\ g \in Open' <=> g = sock' \/ g \in armed'
                                    \/ \E x \in Workers : g \in Held(x)'
                 /\ g = sock' => g \notin armed'
      BY <2>1, <2>2, <2>3, <2>4, <2>5, <2>6 DEF OneHolder, Held
    <2>9. ASSUME NEW g \in Descriptors, NEW x \in Workers, g \in Held(x)'
          PROVE  /\ g # sock' /\ g \notin armed'
                 /\ g \notin events[x]' \/ g # fd[x]'
                 /\ \A y \in Workers \ {x} : g \notin Held(y)'
      <3>1. /\ g \in Held(x) /\ (x = w => g # f)
            /\ \A y \in Workers : Held(y)' \subseteq Held(y)
        BY <2>2, <2>3, <2>6, <2>9 DEF Held
      <3>2. QED
        BY <2>1, <2>5, <2>7, <3>1 DEF OneHolder
    <2>10. QED
      BY <2>8, <2>9 DEF OneHolder
  <1>9. CASE UNCHANGED vars
    BY <1>9, SameHolders DEF vars, server, workers, Held
  <1>10. QED
    BY <1>1, <1>2, <1>3, <1>4, <1>5, <1>6, <1>7, <1>8, <1>9 DEF Next, Run, DoJob

-----------------------------------------------------------------------------
(***************************************************************************)
(* Connections.                                                            *)
(***************************************************************************)
\* What the steps that neither open nor close a connection leave alone.
LEMMA SameConnections ==
  ASSUME ConnectedOnce, UNCHANGED <<backlog, conn, link>>
  PROVE  ConnectedOnce'
  BY DEF ConnectedOnce, Open

\* connect, accept and close keep a client to one connection.
LEMMA ConnectedStep ==
  TypeOK /\ OneHolder /\ ConnectedOnce /\ [Next]_vars => ConnectedOnce'
  <1> SUFFICES ASSUME TypeOK, OneHolder, ConnectedOnce, [Next]_vars
               PROVE  ConnectedOnce'
    OBVIOUS
  <1>a. /\ backlog \in Seq(Clients)
        /\ conn \in [Descriptors -> Clients \cup {NoClient}]
        /\ link \in [Clients -> {"out", "in", "closed"}]
        /\ \A i \in 1 .. Len(backlog) : backlog[i] \in Clients
    BY DEF TypeOK
  <1>1. ASSUME NEW c \in Clients, Connect(c)
        PROVE  ConnectedOnce'
    <2>1. /\ link[c] = "out" /\ link' = [link EXCEPT ![c] = "in"]
          /\ backlog' = Append(backlog, c) /\ conn' = conn
      BY <1>1 DEF Connect
    <2>2. /\ Len(backlog') = Len(backlog) + 1 /\ Len(backlog) \in Nat
          /\ \A i \in 1 .. Len(backlog) : backlog'[i] = backlog[i]
          /\ backlog'[Len(backlog) + 1] = c
      BY <1>a, <2>1
    <2>3. \A i \in 1 .. Len(backlog) : backlog[i] # c
      BY <2>1 DEF ConnectedOnce
    <2>4. \A f \in Open : conn[f] # c /\ conn[f] \in Clients
      BY <1>a, <2>1 DEF ConnectedOnce, Open
    <2>5. Open' = Open
      BY <2>1 DEF Open
    <2>6. \A i \in 1 .. Len(backlog') : i \in 1 .. Len(backlog) \/ i = Len(backlog) + 1
      BY <2>2
    <2>7. \A i, j \in 1 .. Len(backlog') : backlog'[i] = backlog'[j] => i = j
      BY <2>2, <2>3, <2>6 DEF ConnectedOnce
    <2>8. \A f \in Open' : \A i \in 1 .. Len(backlog') : conn'[f] # backlog'[i]
      BY <2>1, <2>2, <2>4, <2>5, <2>6 DEF ConnectedOnce
    <2>9. \A f \in Open' : link'[conn'[f]] = "in"
      BY <1>a, <2>1, <2>4, <2>5 DEF ConnectedOnce
    <2>10. \A i \in 1 .. Len(backlog') : link'[backlog'[i]] = "in"
      BY <1>a, <2>1, <2>2, <2>6 DEF ConnectedOnce
    <2>11. \A f, g \in Open' : conn'[f] = conn'[g] => f = g
      BY <2>1, <2>5 DEF ConnectedOnce
    <2>12. QED
      BY <2>7, <2>8, <2>9, <2>10, <2>11 DEF ConnectedOnce
  <1>2. CASE Accept
    <2>1. PICK f \in Descriptors \ Open : conn' = [conn EXCEPT ![f] = Head(backlog)]
      BY <1>2 DEF Accept
    <2>2. backlog # <<>> /\ backlog' = Tail(backlog) /\ link' = link
      BY <1>2 DEF Accept, clients
    <2>3. /\ Head(backlog) = backlog[1] /\ Len(backlog) \in Nat /\ 1 <= Len(backlog)
          /\ Len(backlog') = Len(backlog) - 1
          /\ \A i \in 1 .. Len(backlog') :
               i + 1 \in 1 .. Len(backlog) /\ backlog'[i] = backlog[i + 1]
      BY <1>a, <2>2
    <2>4. Head(backlog) \in Clients /\ Head(backlog) # NoClient
      BY <1>a, <2>3, AbsenceAssumption DEF AbsenceAssumption
    <2>5. Open' = Open \cup {f} /\ \A g \in Open : conn'[g] = conn[g]
      BY <1>a, <2>1, <2>4 DEF Open
    <2>6. conn'[f] = backlog[1] /\ 1 \in 1 .. Len(backlog)
      BY <1>a, <2>1, <2>3
    <2>7. \A i, j \in 1 .. Len(backlog') : backlog'[i] = backlog'[j] => i = j
      <3> TAKE i, j \in 1 .. Len(backlog')
      <3>1. backlog[i + 1] = backlog[j + 1] => i + 1 = j + 1
        BY <2>3 DEF ConnectedOnce
      <3>2. QED
        BY <2>3, <3>1
    <2>8. \A g, h \in Open' : conn'[g] = conn'[h] => g = h
      BY <2>5, <2>6 DEF ConnectedOnce
    <2>9. \A g \in Open' : \A i \in 1 .. Len(backlog') : conn'[g] # backlog'[i]
      <3> TAKE g \in Open'
      <3> TAKE i \in 1 .. Len(backlog')
      <3>1. backlog'[i] = backlog[i + 1] /\ i + 1 \in 1 .. Len(backlog) /\ i + 1 # 1
        BY <2>3
      <3>2. QED
        BY <2>5, <2>6, <3>1 DEF ConnectedOnce
    <2>10. \A g \in Open' : link'[conn'[g]] = "in"
      BY <2>2, <2>5, <2>6 DEF ConnectedOnce
    <2>11. \A i \in 1 .. Len(backlog') : link'[backlog'[i]] = "in"
      BY <2>2, <2>3 DEF ConnectedOnce
    <2>12. QED
      BY <2>7, <2>8, <2>9, <2>10, <2>11 DEF ConnectedOnce
  <1>3. ASSUME NEW w \in Workers, Close(w)
        PROVE  ConnectedOnce'
    <2> DEFINE f == fd[w]
    <2>1. f \in Descriptors /\ backlog' = backlog
      BY <1>3 DEF Close, TypeOK
    <2>2. f \in Open
      BY <2>1, AbsenceAssumption DEF AbsenceAssumption, OneHolder, Held
    <2>3. conn' = [conn EXCEPT ![f] = NoClient] /\ link' = [link EXCEPT ![conn[f]] = "closed"]
      BY <1>3, <2>2 DEF Close, CloseDescriptor, Open
    <2>4. Open' = Open \ {f} /\ \A g \in Open' : conn'[g] = conn[g]
      BY <1>a, <2>1, <2>3 DEF Open
    <2>5. \A g \in Open' : conn[g] # conn[f]
      BY <2>2, <2>4 DEF ConnectedOnce
    <2>6. \A i \in 1 .. Len(backlog) : backlog[i] # conn[f]
      BY <2>2 DEF ConnectedOnce
    <2>7. \A g \in Open' : conn[g] \in Clients
      BY <1>a, <2>4 DEF Open
    <2>8. \A c \in Clients : c # conn[f] => link'[c] = link[c]
      BY <1>a, <2>3
    <2>9. QED
      BY <1>a, <2>1, <2>4, <2>5, <2>6, <2>7, <2>8 DEF ConnectedOnce
  <1>4. ASSUME NEW c \in Clients, SendPiece(c) \/ HangUp(c)
        PROVE  ConnectedOnce'
    BY <1>4, SameConnections DEF SendPiece, HangUp, server
  <1>5. CASE AcceptFails \/ Register \/ RegisterFails \/ \E w \in Workers : ParseFaults(w)
    BY <1>5, SameConnections DEF ParseFaults, AcceptFails, Register, RegisterFails, clients
  <1>6. ASSUME NEW w \in Workers,
               EpollWait(w) \/ Recv(w) \/ ProcessRequest(w) \/ Send(w)
        PROVE  ConnectedOnce'
    BY <1>6, SameConnections DEF EpollWait, Recv, ProcessRequest, Send, server, clients
  <1>7. CASE UNCHANGED vars
    BY <1>7, SameConnections DEF vars, server, clients
  <1>8. QED
    BY <1>1, <1>2, <1>3, <1>4, <1>5, <1>6, <1>7 DEF Next, Run, DoJob

-----------------------------------------------------------------------------
(***************************************************************************)
(* Replies.                                                                *)
(***************************************************************************)
\* A worker that is past recv.
Busy(w) == pc[w] \in {"ProcessRequest", "send", "close"}

\* Such a worker is at an open connection, and no two are at one client's.
LEMMA BusyLemma ==
  ASSUME TypeOK, OneHolder, ConnectedOnce, NEW w \in Workers, Busy(w)
  PROVE  /\ fd[w] \in Open
         /\ conn[fd[w]] \in Clients
         /\ link[conn[fd[w]]] = "in"
         /\ \A x \in Workers : Busy(x) /\ conn[fd[x]] = conn[fd[w]] => x = w
         /\ \A x \in Workers : Busy(x) /\ fd[x] = fd[w] => x = w
  <1>1. ASSUME NEW x \in Workers, Busy(x)
        PROVE  fd[x] \in Descriptors /\ fd[x] \in Held(x) /\ fd[x] \in Open
    <2>1. fd[x] \in Descriptors
      BY <1>1 DEF TypeOK, Busy
    <2>2. fd[x] \in Held(x)
      BY <2>1, AbsenceAssumption DEF AbsenceAssumption, Held
    <2>3. QED
      BY <2>1, <2>2 DEF OneHolder
  <1>2. conn[fd[w]] \in Clients
    BY <1>1 DEF TypeOK, Open
  <1>3. ASSUME NEW x \in Workers, Busy(x), fd[x] = fd[w]
        PROVE  x = w
    BY <1>1, <1>3 DEF OneHolder
  <1>4. QED
    BY <1>1, <1>2, <1>3 DEF ConnectedOnce

\* What accept and close leave of the other connections.
LEMMA BusyConnections ==
  ASSUME TypeOK, OneHolder, ConnectedOnce
  PROVE  /\ Accept => \A w \in Workers : Busy(w) => conn'[fd[w]] = conn[fd[w]]
         /\ \A w \in Workers : Close(w) =>
              /\ conn' = [conn EXCEPT ![fd[w]] = NoClient]
              /\ link' = [link EXCEPT ![conn[fd[w]]] = "closed"]
              /\ \/ UNCHANGED inbox
                 \/ /\ unread[conn[fd[w]]] > 0
                    /\ inbox' = [inbox EXCEPT ![conn[fd[w]]] = <<>>]
              /\ \A x \in Workers \ {w} : Busy(x) => conn'[fd[x]] = conn[fd[x]]
  <1>1. ASSUME Accept, NEW w \in Workers, Busy(w)
        PROVE  conn'[fd[w]] = conn[fd[w]]
    BY <1>1, BusyLemma DEF Accept, Open, TypeOK
  <1>2. ASSUME NEW w \in Workers, Close(w)
        PROVE  /\ conn' = [conn EXCEPT ![fd[w]] = NoClient]
               /\ link' = [link EXCEPT ![conn[fd[w]]] = "closed"]
               /\ \/ UNCHANGED inbox
                  \/ /\ unread[conn[fd[w]]] > 0
                     /\ inbox' = [inbox EXCEPT ![conn[fd[w]]] = <<>>]
               /\ \A x \in Workers \ {w} : Busy(x) => conn'[fd[x]] = conn[fd[x]]
    <2>1. Busy(w) /\ CloseDescriptor(fd[w])
      BY <1>2 DEF Close, Busy
    <2>2. conn[fd[w]] # NoClient
      BY <2>1, BusyLemma DEF Open
    <2>3. /\ conn' = [conn EXCEPT ![fd[w]] = NoClient]
          /\ link' = [link EXCEPT ![conn[fd[w]]] = "closed"]
          /\ \/ UNCHANGED inbox
             \/ /\ unread[conn[fd[w]]] > 0
                /\ inbox' = [inbox EXCEPT ![conn[fd[w]]] = <<>>]
      BY <2>1, <2>2 DEF CloseDescriptor
    <2>4. ASSUME NEW x \in Workers \ {w}, Busy(x)
          PROVE  conn'[fd[x]] = conn[fd[x]]
      <3>1. fd[x] # fd[w] /\ fd[x] \in Descriptors
        BY <2>1, <2>4, BusyLemma DEF Open
      <3>2. QED
        BY <2>3, <3>1 DEF TypeOK
    <2>5. QED
      BY <2>3, <2>4
  <1>3. QED
    BY <1>1, <1>2

\* The recv of a worker, taken apart.
LEMMA RecvLemma ==
  ASSUME TypeOK, OneHolder, NEW w \in Workers, Recv(w)
  PROVE  /\ UNCHANGED <<conn, link, unsent, hungup, inbox>>
         /\ crossed \subseteq crossed'
         /\ ~Busy(w) /\ \A x \in Workers \ {w} :
              pc'[x] = pc[x] /\ fd'[x] = fd[x] /\ message'[x] = message[x]
         /\ \A c \in Clients : unread'[c] \in Nat /\ unread'[c] <= unread[c]
         /\ conn[fd'[w]] \in Clients
         /\ \/ /\ pc'[w] = "ProcessRequest"
               /\ message'[w][1] = conn[fd'[w]]
               /\ message'[w][2] \in Nat /\ message'[w][2] >= 1
               /\ unread'[conn[fd'[w]]] + message'[w][2] = unread[conn[fd'[w]]]
            \/ /\ pc'[w] = "close"
               /\ conn[fd'[w]] \in hungup
  <1>1. /\ pc[w] = "recv"
        /\ UNCHANGED <<conn, link, unsent, hungup, inbox>>
    BY DEF Recv, server
  <1>2. PICK f \in events[w] :
          /\ fd' = [fd EXCEPT ![w] = f]
          /\ \/ /\ Readable(f)
                /\ \E n \in 1 .. unread[conn[f]] :
                     /\ message' = [message EXCEPT ![w] = <<conn[f], n>>]
                     /\ unread' = [unread EXCEPT ![conn[f]] = @ - n]
                /\ crossed' = crossed \cup Crossing(conn[f])
                /\ pc' = [pc EXCEPT ![w] = "ProcessRequest"]
             \/ /\ Readable(f) => unread[conn[f]] = 0
                /\ conn[f] # NoClient => Readable(f)
                /\ pc' = [pc EXCEPT ![w] = "close"]
                /\ UNCHANGED <<message, crossed, unread>>
    BY DEF Recv
  <1>3. f \in Descriptors /\ f \in Held(w)
    BY DEF TypeOK, Held
  <1>4. f \in Open /\ conn[f] \in Clients
    BY <1>3 DEF OneHolder, Open, TypeOK
  <1>5. fd'[w] = f /\ \A x \in Workers \ {w} : fd'[x] = fd[x]
    BY <1>2 DEF TypeOK
  <1>6. pc \in [Workers -> {"epoll_wait", "recv", "ProcessRequest", "send", "close"}]
        /\ message \in [Workers -> Requests] /\ unread \in [Clients -> Nat]
    BY DEF TypeOK
  <1>7. CASE UNCHANGED <<message, crossed, unread>> /\ pc' = [pc EXCEPT ![w] = "close"]
             /\ Readable(f) /\ unread[conn[f]] = 0
    BY <1>1, <1>4, <1>5, <1>6, <1>7 DEF Readable, Busy
  <1>8. ASSUME NEW n \in 1 .. unread[conn[f]],
               message' = [message EXCEPT ![w] = <<conn[f], n>>],
               unread' = [unread EXCEPT ![conn[f]] = @ - n],
               crossed' = crossed \cup Crossing(conn[f]),
               pc' = [pc EXCEPT ![w] = "ProcessRequest"]
        PROVE  /\ crossed \subseteq crossed'
               /\ ~Busy(w) /\ \A x \in Workers \ {w} :
                    pc'[x] = pc[x] /\ message'[x] = message[x]
               /\ \A c \in Clients : unread'[c] \in Nat /\ unread'[c] <= unread[c]
               /\ pc'[w] = "ProcessRequest" /\ message'[w] = <<conn[f], n>>
               /\ n \in Nat /\ n >= 1 /\ unread'[conn[f]] + n = unread[conn[f]]
    BY <1>1, <1>4, <1>6, <1>8 DEF Busy
  <1>9. QED
    BY <1>1, <1>2, <1>4, <1>5, <1>7, <1>8 DEF Open

\* Pieces are neither made nor counted twice.
LEMMA ReadStep ==
  TypeOK /\ OneHolder /\ ConnectedOnce /\ ReadFromHolder /\ [Next]_vars
    => ReadFromHolder'
  <1> SUFFICES ASSUME TypeOK, OneHolder, ConnectedOnce, ReadFromHolder, [Next]_vars
               PROVE  ReadFromHolder'
    OBVIOUS
  <1>a. /\ unsent \in [Clients -> Nat] /\ unread \in [Clients -> Nat]
        /\ Pieces \in [Clients -> Nat] /\ pc \in [Workers ->
              {"epoll_wait", "recv", "ProcessRequest", "send", "close"}]
        /\ \A w \in Workers : message[w][2] \in Nat
    BY PiecesAssumption DEF PiecesAssumption, TypeOK, Requests
  <1>b. \A w \in Workers : Busy(w) => conn[fd[w]] \in Clients
    BY BusyLemma
  <1>1. ASSUME NEW c \in Clients, Connect(c)
        PROVE  ReadFromHolder'
    BY <1>1 DEF Connect, workers, ReadFromHolder
  <1>2. ASSUME NEW c \in Clients, SendPiece(c) \/ HangUp(c)
        PROVE  ReadFromHolder'
    <2>1. \A d \in Clients : unsent'[d] + unread'[d] <= unsent[d] + unread[d]
      <3>1. CASE SendPiece(c)
        BY <1>a, <3>1 DEF SendPiece
      <3>2. CASE HangUp(c)
        <4>1. unsent' = unsent
              /\ (unread' = unread \/ unread' = [unread EXCEPT ![c] = 0])
          BY <3>2 DEF HangUp
        <4>2. QED
          BY <1>a, <4>1
      <3>3. QED
        BY <1>2, <3>1, <3>2
    <2>2. unsent' \in [Clients -> Nat] /\ unread' \in [Clients -> Nat]
      BY TypeStep DEF TypeOK
    <2>3. UNCHANGED <<pc, fd, conn, message>>
      BY <1>2 DEF SendPiece, HangUp, server, workers
    <2>4. QED
      BY <1>a, <1>b, <2>1, <2>2, <2>3 DEF ReadFromHolder, Busy
  <1>3. CASE Accept
    <2>1. UNCHANGED <<pc, fd, message, unsent, unread>>
      BY <1>3 DEF Accept, workers, clients
    <2>2. \A w \in Workers : Busy(w) => conn'[fd[w]] = conn[fd[w]]
      BY <1>3, BusyConnections
    <2>3. QED
      BY <2>1, <2>2 DEF ReadFromHolder, Busy
  <1>4. CASE AcceptFails \/ Register \/ RegisterFails \/ \E w \in Workers : ParseFaults(w)
    BY <1>4 DEF ParseFaults, AcceptFails, Register, RegisterFails, workers, clients, ReadFromHolder
  <1>5. ASSUME NEW w \in Workers, EpollWait(w)
        PROVE  ReadFromHolder'
    BY <1>5, <1>a DEF EpollWait, clients, ReadFromHolder
  <1>6. ASSUME NEW w \in Workers, Recv(w)
        PROVE  ReadFromHolder'
    <2>1. \A c \in Clients : unsent'[c] + unread'[c] <= Pieces[c]
      BY <1>a, <1>6, RecvLemma DEF ReadFromHolder
    <2>2. ASSUME NEW x \in Workers, pc'[x] \in {"ProcessRequest", "send"}
          PROVE  /\ message'[x][1] = conn'[fd'[x]]
                 /\ message'[x][2] >= 1
                 /\ unsent'[conn'[fd'[x]]] + unread'[conn'[fd'[x]]] + message'[x][2]
                      <= Pieces[conn'[fd'[x]]]
      <3>1. CASE x = w
        BY <1>a, <1>6, <2>2, <3>1, RecvLemma DEF ReadFromHolder
      <3>2. CASE x # w
        <4>1. /\ pc[x] \in {"ProcessRequest", "send"} /\ Busy(x)
              /\ conn'[fd'[x]] = conn[fd[x]] /\ message'[x] = message[x]
          BY <1>6, <2>2, <3>2, RecvLemma DEF Busy
        <4>2. conn[fd[x]] \in Clients
          BY <1>b, <4>1
        <4>3. /\ unsent' = unsent
              /\ unread'[conn[fd[x]]] \in Nat
              /\ unread'[conn[fd[x]]] <= unread[conn[fd[x]]]
          BY <1>6, <4>2, RecvLemma
        <4>4. QED
          BY <1>a, <4>1, <4>2, <4>3 DEF ReadFromHolder
      <3>3. QED
        BY <3>1, <3>2
    <2>3. QED
      BY <2>1, <2>2 DEF ReadFromHolder
  <1>7. ASSUME NEW w \in Workers, ProcessRequest(w)
        PROVE  ReadFromHolder'
    BY <1>7, <1>a DEF ProcessRequest, server, clients, ReadFromHolder
  <1>8. ASSUME NEW w \in Workers, Send(w)
        PROVE  ReadFromHolder'
    BY <1>8, <1>a DEF Send, server, ReadFromHolder
  <1>9. ASSUME NEW w \in Workers, Close(w)
        PROVE  ReadFromHolder'
    <2>1. UNCHANGED <<unsent, unread>>
      BY <1>9 DEF Close
    <2>2. ASSUME NEW x \in Workers, pc'[x] \in {"ProcessRequest", "send"}
          PROVE  /\ x # w /\ pc[x] = pc'[x] /\ Busy(x)
                 /\ fd'[x] = fd[x] /\ message'[x] = message[x]
      <3>1. pc'[w] \in {"epoll_wait", "recv"}
        BY <1>9, <1>a DEF Close, NextEvent
      <3>2. QED
        BY <1>9, <2>2, <3>1 DEF Close, Busy, TypeOK
    <2>3. \A x \in Workers \ {w} : Busy(x) => conn'[fd[x]] = conn[fd[x]]
      BY <1>9, BusyConnections
    <2>4. QED
      BY <2>1, <2>2, <2>3 DEF ReadFromHolder
  <1>10. CASE UNCHANGED vars
    BY <1>10 DEF vars, server, workers, clients, ReadFromHolder
  <1>11. QED
    BY <1>1, <1>2, <1>3, <1>4, <1>5, <1>6, <1>7, <1>8, <1>9, <1>10 DEF Next, Run, DoJob

\* The conjuncts the replies rest on.
Base == TypeOK /\ OneHolder /\ ConnectedOnce /\ ReadFromHolder

\* A connection that is about to be closed has its reply or an excuse.
AboutToClose(w) ==
  LET c == conn[fd[w]]
  IN Excused(c) \/ (inbox[c] # <<>> /\ unsent[c] = 0 /\ unread[c] = 0)

\* The worker that sends finds an empty inbox and fills it, unless the client
\* hung up.
LEMMA SendLemma ==
  ASSUME Base, AnsweredLast, NEW w \in Workers, Send(w),
         NEW c, c = conn[fd[w]]
  PROVE  /\ c \in Clients /\ inbox[c] = <<>> /\ message[w][1] = c
         /\ Excused(c) \/ (unsent[c] = 0 /\ unread[c] = 0)
         /\ link[c] = "in"
         /\ \/ inbox' = [inbox EXCEPT ![c] = <<message[w]>>]
            \/ c \in hungup /\ UNCHANGED inbox
         /\ pc' = [pc EXCEPT ![w] = "close"]
         /\ UNCHANGED <<conn, fd, link, unsent, unread, crossed, hungup>>
  <1>1. pc[w] = "send" /\ Busy(w)
    BY DEF Send, Busy
  <1>2. c \in Clients /\ link[c] = "in"
    BY <1>1, BusyLemma DEF Base
  <1>3. inbox[c] = <<>>
    <2>1. \A x \in Workers : ~(pc[x] = "close" /\ conn[fd[x]] = c)
      BY <1>1, BusyLemma DEF Base, Busy
    <2>2. QED
      BY <1>2, <2>1 DEF AnsweredLast
  <1>4. /\ message[w][1] = c /\ message[w][2] >= 1
        /\ unsent[c] + unread[c] + message[w][2] <= Pieces[c]
    BY <1>1 DEF Base, ReadFromHolder
  <1>5. /\ unsent[c] \in Nat /\ unread[c] \in Nat /\ Pieces[c] \in Nat
        /\ message[w] \in Requests /\ message[w][2] \in Nat
    BY <1>2, PiecesAssumption DEF PiecesAssumption, Base, TypeOK, Requests
  <1>6. Excused(c) \/ (unsent[c] = 0 /\ unread[c] = 0)
    BY <1>4, <1>5 DEF Excused
  <1>7. /\ pc' = [pc EXCEPT ![w] = "close"]
        /\ UNCHANGED <<conn, fd, link, unsent, unread, crossed, hungup>>
    BY DEF Send, server
  <1>8. Append(inbox[c], message[w]) = <<message[w]>>
    BY <1>3, <1>5
  <1>9. \/ inbox' = [inbox EXCEPT ![c] = <<message[w]>>]
        \/ c \in hungup /\ UNCHANGED inbox
    BY <1>2, <1>8, AbsenceAssumption DEF AbsenceAssumption, Send
  <1>10. QED
    BY <1>2, <1>3, <1>4, <1>6, <1>7, <1>9

\* Sending and closing keep the replies in step with the connections.
LEMMA AnsweredStep == Base /\ AnsweredLast /\ [Next]_vars => AnsweredLast'
  <1> SUFFICES ASSUME Base, AnsweredLast, [Next]_vars
               PROVE  AnsweredLast'
    OBVIOUS
  <1>a. /\ TypeOK /\ OneHolder /\ ConnectedOnce /\ ReadFromHolder
        /\ unsent \in [Clients -> Nat] /\ unread \in [Clients -> Nat]
        /\ pc \in [Workers -> {"epoll_wait", "recv", "ProcessRequest", "send", "close"}]
        /\ inbox \in [Clients -> Seq(Requests)]
        /\ link \in [Clients -> {"out", "in", "closed"}]
    BY DEF Base, TypeOK
  <1>b. \A w \in Workers : Busy(w) => conn[fd[w]] \in Clients
    BY <1>a, BusyLemma
  <1>c. \A w \in Workers : pc[w] = "close" => Busy(w) /\ AboutToClose(w)
    BY DEF AnsweredLast, AboutToClose, Busy
  <1>1. ASSUME NEW c \in Clients, Connect(c)
        PROVE  AnsweredLast'
    <2>1. /\ link[c] = "out" /\ link' = [link EXCEPT ![c] = "in"]
          /\ UNCHANGED <<pc, fd, conn, inbox, unsent, unread, crossed, hungup>>
      BY <1>1 DEF Connect, workers
    <2>2. \A x \in Workers : pc[x] = "close" => conn[fd[x]] # c
      BY <1>a, <2>1, BusyLemma DEF Busy
    <2>3. inbox[c] = <<>>
      BY <2>1, <2>2 DEF AnsweredLast
    <2>4. QED
      BY <1>a, <2>1, <2>3 DEF AnsweredLast, Excused
  <1>2. ASSUME NEW c \in Clients, SendPiece(c)
        PROVE  AnsweredLast'
    <2>1. /\ UNCHANGED <<pc, fd, conn, inbox, link, crossed, hungup>>
          /\ unsent[c] > 0 /\ \A d \in Clients \ {c} :
               unsent'[d] = unsent[d] /\ unread'[d] = unread[d]
      BY <1>2, <1>a DEF SendPiece, server, workers
    <2>2. QED
      BY <1>a, <1>b, <1>c, <2>1 DEF AnsweredLast, AboutToClose, Excused
  <1>3. ASSUME NEW c \in Clients, HangUp(c)
        PROVE  AnsweredLast'
    <2>1. /\ UNCHANGED <<pc, fd, conn, inbox, link, unsent, crossed>>
          /\ hungup' = hungup \cup {c}
          /\ unread' = unread \/ unread' = [unread EXCEPT ![c] = 0]
      BY <1>3 DEF HangUp, server, workers
    <2>2. \A d \in Clients : unread[d] = 0 => unread'[d] = 0
      BY <1>a, <2>1
    <2>3. \A d \in Clients : Excused(d) => Excused(d)'
      BY <2>1 DEF Excused
    <2>4. ASSUME NEW w \in Workers, pc'[w] = "close"
          PROVE  AboutToClose(w)'
      <3>1. AboutToClose(w) /\ conn[fd[w]] \in Clients /\ conn'[fd'[w]] = conn[fd[w]]
        BY <1>b, <1>c, <2>1, <2>4
      <3>2. QED
        BY <2>1, <2>2, <2>3, <3>1 DEF AboutToClose, Excused
    <2>5. QED
      BY <2>1, <2>4 DEF AnsweredLast, AboutToClose
  <1>4. CASE Accept
    <2>1. UNCHANGED <<pc, fd, link, inbox, unsent, unread, crossed, hungup>>
      BY <1>4 DEF Accept, workers, clients
    <2>2. \A w \in Workers : Busy(w) => conn'[fd[w]] = conn[fd[w]]
      BY <1>4, <1>a, BusyConnections
    <2>3. QED
      BY <2>1, <2>2 DEF AnsweredLast, Excused, Busy
  <1>5. CASE AcceptFails \/ Register \/ RegisterFails \/ \E w \in Workers : ParseFaults(w)
    BY <1>5 DEF ParseFaults, AcceptFails, Register, RegisterFails, workers, clients,
                AnsweredLast, Excused
  <1>6. ASSUME NEW w \in Workers, EpollWait(w)
        PROVE  AnsweredLast'
    <2>1. /\ UNCHANGED <<conn, fd, link, inbox, unsent, unread, crossed, hungup>>
          /\ pc[w] = "epoll_wait" /\ pc' = [pc EXCEPT ![w] = "recv"]
      BY <1>6 DEF EpollWait, clients
    <2>2. \A x \in Workers : pc'[x] = "close" <=> pc[x] = "close"
      BY <1>a, <2>1
    <2>3. QED
      BY <2>1, <2>2 DEF AnsweredLast, Excused
  <1>7. ASSUME NEW w \in Workers, Recv(w)
        PROVE  AnsweredLast'
    <2>1. \A x \in Workers : pc[x] = "close" =>
            x # w /\ pc'[x] = "close" /\ conn'[fd'[x]] = conn[fd[x]]
      BY <1>7, <1>a, <1>c, RecvLemma
    <2>2. \A c \in Clients : inbox'[c] # <<>> =>
            link'[c] = "closed" \/ \E x \in Workers : pc'[x] = "close" /\ conn'[fd'[x]] = c
      <3>1. UNCHANGED <<inbox, link>>
        BY <1>7, <1>a, RecvLemma
      <3>2. QED
        BY <2>1, <3>1 DEF AnsweredLast
    <2>3. ASSUME NEW x \in Workers, pc'[x] = "close"
          PROVE  AboutToClose(x)'
      <3>1. CASE x = w
        BY <1>7, <1>a, <2>3, <3>1, RecvLemma DEF AboutToClose, Excused
      <3>2. CASE x # w
        <4>1. pc[x] = "close" /\ AboutToClose(x) /\ conn[fd[x]] \in Clients
          BY <1>7, <1>a, <1>b, <1>c, <2>3, <3>2, RecvLemma
        <4>2. /\ conn'[fd'[x]] = conn[fd[x]]
              /\ UNCHANGED <<inbox, unsent, hungup>> /\ crossed \subseteq crossed'
              /\ unread'[conn[fd[x]]] \in Nat /\ unread'[conn[fd[x]]] <= unread[conn[fd[x]]]
          BY <1>7, <1>a, <2>1, <4>1, RecvLemma
        <4>3. QED
          BY <4>1, <4>2 DEF AboutToClose, Excused
      <3>3. QED
        BY <3>1, <3>2
    <2>4. QED
      BY <2>2, <2>3 DEF AnsweredLast, AboutToClose
  <1>8. ASSUME NEW w \in Workers, ProcessRequest(w)
        PROVE  AnsweredLast'
    <2>1. /\ UNCHANGED <<conn, fd, link, inbox, unsent, unread, crossed, hungup>>
          /\ pc[w] = "ProcessRequest" /\ Busy(w)
          /\ \/ pc' = [pc EXCEPT ![w] = "send"]
             \/ /\ pc' = [pc EXCEPT ![w] = "close"]
                /\ ~Recognized(message[w])
      BY <1>8 DEF ProcessRequest, server, clients, Busy
    <2>2. \A x \in Workers : pc[x] = "close" => pc'[x] = "close"
      BY <1>a, <2>1
    <2>3. ASSUME pc'[w] = "close"
          PROVE  Excused(conn[fd[w]])
      <3> DEFINE c == conn[fd[w]]
      <3>1. ~Recognized(message[w])
        BY <1>a, <2>1, <2>3
      <3>2. c \in Clients /\ message[w][1] = c /\ message[w][2] >= 1
            /\ unsent[c] + unread[c] + message[w][2] <= Pieces[c]
        BY <1>a, <1>b, <2>1 DEF ReadFromHolder
      <3>3. unsent[c] \in Nat /\ unread[c] \in Nat /\ Pieces[c] \in Nat /\ message[w][2] \in Nat
        BY <1>a, <3>2, PiecesAssumption DEF PiecesAssumption, TypeOK, Requests
      <3>4. Pieces[c] > 1 \/ message[w][2] = Pieces[c]
        BY <3>2, <3>3
      <3>5. QED
        BY <3>1, <3>2, <3>4 DEF Complete, Recognized, Excused
    <2>4. \A x \in Workers : pc'[x] = "close" => x = w \/ pc[x] = "close"
      BY <1>a, <2>1
    <2>5. \A c \in Clients : inbox'[c] # <<>> =>
            link'[c] = "closed" \/ \E x \in Workers : pc'[x] = "close" /\ conn'[fd'[x]] = c
      BY <2>1, <2>2 DEF AnsweredLast
    <2>6. ASSUME NEW x \in Workers, pc'[x] = "close"
          PROVE  AboutToClose(x)'
      <3>1. AboutToClose(x)
        BY <1>c, <2>3, <2>4, <2>6 DEF AboutToClose
      <3>2. QED
        BY <2>1, <3>1 DEF AboutToClose, Excused
    <2>7. QED
      BY <2>5, <2>6 DEF AnsweredLast, AboutToClose
  <1>9. ASSUME NEW w \in Workers, Send(w)
        PROVE  AnsweredLast'
    <2>0. PICK c : c = conn[fd[w]]
      OBVIOUS
    <2>1. /\ c \in Clients
          /\ Excused(c) \/ (unsent[c] = 0 /\ unread[c] = 0)
          /\ inbox' = [inbox EXCEPT ![c] = <<message[w]>>] \/ (c \in hungup /\ UNCHANGED inbox)
          /\ pc' = [pc EXCEPT ![w] = "close"]
          /\ UNCHANGED <<conn, fd, link, unsent, unread, crossed, hungup>>
      BY <1>9, <2>0, SendLemma
    <2>2. \A x \in Workers : pc'[x] = "close" <=> x = w \/ pc[x] = "close"
      BY <1>a, <2>1
    <2>3. <<message[w]>> # <<>>
      OBVIOUS
    <2>4. \A d \in Clients : inbox'[d] # <<>> => d = c \/ inbox[d] # <<>>
      BY <1>a, <2>1
    <2>5. \A d \in Clients : inbox[d] # <<>> => inbox'[d] # <<>>
      BY <1>a, <2>1, <2>3
    <2>6. Excused(c) \/ (inbox'[c] # <<>> /\ unsent[c] = 0 /\ unread[c] = 0)
      BY <1>a, <2>1, <2>3 DEF Excused
    <2>7. QED
      BY <1>b, <1>c, <2>0, <2>1, <2>2, <2>4, <2>5, <2>6 DEF AnsweredLast, AboutToClose, Excused
  <1>10. ASSUME NEW w \in Workers, Close(w)
         PROVE  AnsweredLast'
    <2> DEFINE c == conn[fd[w]]
    <2>1. Busy(w) /\ c \in Clients /\ UNCHANGED <<unsent, unread, crossed, hungup>>
      BY <1>10, <1>b DEF Close, Busy
    <2>2. /\ link' = [link EXCEPT ![c] = "closed"]
          /\ UNCHANGED inbox \/ inbox' = [inbox EXCEPT ![c] = <<>>]
          /\ \A x \in Workers \ {w} : Busy(x) => conn'[fd[x]] = conn[fd[x]]
      BY <1>10, <1>a, BusyConnections
    <2>3. \A x \in Workers \ {w} : pc'[x] = pc[x] /\ fd'[x] = fd[x]
      BY <1>10, <1>a DEF Close, TypeOK
    <2>4. pc'[w] # "close"
      BY <1>10, <1>a DEF Close, NextEvent
    <2>5. \A x \in Workers \ {w} : Busy(x) => conn[fd[x]] # c
      BY <1>a, <2>1, BusyLemma
    <2>6. \A d \in Clients \ {c} : inbox'[d] = inbox[d] /\ link'[d] = link[d]
      BY <1>a, <2>2
    <2>7. link'[c] = "closed"
      BY <1>a, <2>1, <2>2
    <2>8. QED
      BY <1>b, <1>c, <2>1, <2>2, <2>3, <2>4, <2>5, <2>6, <2>7
         DEF AnsweredLast, AboutToClose, Excused
  <1>11. CASE UNCHANGED vars
    BY <1>11 DEF vars, server, workers, clients, AnsweredLast, Excused
  <1>12. QED
    BY <1>1, <1>2, <1>3, <1>4, <1>5, <1>6, <1>7, <1>8, <1>9, <1>10, <1>11
       DEF Next, Run, DoJob

-----------------------------------------------------------------------------
(***************************************************************************)
(* The replies.                                                            *)
(***************************************************************************)
\* Only Send and Close touch what a client received.
LEMMA SameInbox ==
  ASSUME [Next]_vars, \A w \in Workers : ~Send(w) /\ ~Close(w)
  PROVE  UNCHANGED inbox
  BY DEF Next, Run, DoJob, Connect, SendPiece, HangUp, Accept, AcceptFails, Register,
         RegisterFails, EpollWait, Recv, ProcessRequest, ParseFaults, vars, server, workers, clients

\* Every step leaves a client at most the one reply that is its own.
LEMMA RepliesStep ==
  Base /\ AnsweredLast /\ RepliesGoHome /\ [Next]_vars => RepliesGoHome'
  <1> SUFFICES ASSUME Base, AnsweredLast, RepliesGoHome, [Next]_vars
               PROVE  RepliesGoHome'
    OBVIOUS
  <1>a. inbox \in [Clients -> Seq(Requests)]
    BY DEF Base, TypeOK
  <1>1. ASSUME NEW w \in Workers, Send(w)
        PROVE  RepliesGoHome'
    <2>1. PICK c : c = conn[fd[w]]
      OBVIOUS
    <2>2. /\ c \in Clients /\ message[w][1] = c
          /\ inbox' = [inbox EXCEPT ![c] = <<message[w]>>] \/ UNCHANGED inbox
      BY <1>1, <2>1, SendLemma
    <2>3. Len(<<message[w]>>) = 1 /\ <<message[w]>>[1] = message[w]
      OBVIOUS
    <2>4. CASE UNCHANGED inbox
      BY <2>4 DEF RepliesGoHome
    <2>5. CASE inbox' = [inbox EXCEPT ![c] = <<message[w]>>]
      <3>1. inbox'[c] = <<message[w]>> /\ \A d \in Clients \ {c} : inbox'[d] = inbox[d]
        BY <1>a, <2>2, <2>5
      <3>2. Len(inbox'[c]) <= 1 /\ inbox'[c][1][1] = c
        BY <2>2, <2>3, <3>1
      <3>3. QED
        BY <3>1, <3>2 DEF RepliesGoHome
    <2>6. QED
      BY <2>2, <2>4, <2>5
  <1>2. ASSUME NEW w \in Workers, Close(w)
        PROVE  RepliesGoHome'
    <2>1. \A c \in Clients : inbox'[c] = inbox[c] \/ inbox'[c] = <<>>
      <3>1. UNCHANGED inbox \/ inbox' = [inbox EXCEPT ![conn[fd[w]]] = <<>>]
        BY <1>2 DEF Close, CloseDescriptor
      <3>2. QED
        BY <3>1, <1>a DEF Base, TypeOK
    <2>2. QED
      BY <2>1 DEF RepliesGoHome
  <1>3. CASE UNCHANGED inbox
    BY <1>3 DEF RepliesGoHome
  <1>4. QED
    BY <1>1, <1>2, <1>3, SameInbox

\* A connection is closed by the worker that has answered it, or has an excuse.
LEMMA NotDroppedStep ==
  Base /\ AnsweredLast /\ NotDropped /\ [Next]_vars => NotDropped'
  <1> SUFFICES ASSUME Base, AnsweredLast, NotDropped, [Next]_vars
               PROVE  NotDropped'
    OBVIOUS
  <1>a. /\ TypeOK /\ OneHolder /\ ConnectedOnce
        /\ inbox \in [Clients -> Seq(Requests)]
        /\ link \in [Clients -> {"out", "in", "closed"}]
    BY DEF Base, TypeOK
  <1>b. hungup \subseteq hungup' /\ crossed \subseteq crossed'
    BY DEF Next, Run, DoJob, Connect, SendPiece, HangUp, Accept, AcceptFails, Register,
           RegisterFails, EpollWait, Recv, ProcessRequest, ParseFaults, Send, Close,
           vars, server, workers, clients
  <1>1. ASSUME NEW w \in Workers, Close(w)
        PROVE  NotDropped'
    <2>1. PICK c : c = conn[fd[w]]
      OBVIOUS
    <2>2. pc[w] = "close" /\ Busy(w) /\ UNCHANGED <<unread, crossed, hungup>>
      BY <1>1 DEF Close, Busy
    <2>3. c \in Clients /\ conn[fd[w]] # NoClient
      BY <1>a, <2>1, <2>2, BusyLemma, AbsenceAssumption DEF AbsenceAssumption
    <2>4. /\ link' = [link EXCEPT ![c] = "closed"]
          /\ \/ UNCHANGED inbox
             \/ unread[c] > 0 /\ inbox' = [inbox EXCEPT ![c] = <<>>]
      BY <1>1, <2>1, <2>3 DEF Close, CloseDescriptor
    <2>5. Excused(c) \/ (inbox[c] # <<>> /\ unread[c] = 0)
      BY <2>1, <2>2 DEF AnsweredLast
    <2>6. inbox'[c] # <<>> \/ Pieces[c] > 1 \/ c \in hungup \cup IllFormed \cup crossed
      BY <2>4, <2>5 DEF Excused
    <2>7. \A d \in Clients \ {c} : link'[d] = link[d] /\ inbox'[d] = inbox[d]
      BY <1>a, <2>4
    <2>8. QED
      BY <2>2, <2>6, <2>7 DEF NotDropped
  <1>2. ASSUME NEW w \in Workers, Send(w)
        PROVE  NotDropped'
    <2>1. PICK c : c = conn[fd[w]]
      OBVIOUS
    <2>2. /\ c \in Clients /\ link[c] = "in" /\ UNCHANGED <<link, crossed, hungup>>
          /\ inbox' = [inbox EXCEPT ![c] = <<message[w]>>] \/ UNCHANGED inbox
      BY <1>2, <2>1, SendLemma
    <2>3. \A d \in Clients \ {c} : inbox'[d] = inbox[d]
      BY <1>a, <2>2
    <2>4. QED
      BY <2>2, <2>3 DEF NotDropped
  <1>3. ASSUME NEW c \in Clients, Connect(c)
        PROVE  NotDropped'
    <2>1. link' = [link EXCEPT ![c] = "in"] /\ UNCHANGED <<inbox, crossed, hungup>>
      BY <1>3 DEF Connect, workers
    <2>2. link'[c] = "in" /\ \A d \in Clients \ {c} : link'[d] = link[d]
      BY <1>a, <2>1
    <2>3. QED
      BY <2>1, <2>2 DEF NotDropped
  <1>4. CASE UNCHANGED <<link, inbox>>
    BY <1>4, <1>b DEF NotDropped
  <1>5. QED
    BY <1>1, <1>2, <1>3, <1>4
       DEF Next, Run, DoJob, SendPiece, HangUp, Accept, AcceptFails, Register,
           RegisterFails, EpollWait, Recv, ProcessRequest, ParseFaults, vars, server, workers, clients

-----------------------------------------------------------------------------
(***************************************************************************)
(* The theorems.                                                           *)
(***************************************************************************)
\* Nothing is open, read or answered at first.
LEMMA InvInit == Init => Inv
  <1> SUFFICES ASSUME Init
               PROVE  Inv
    OBVIOUS
  <1>1. TypeOK
    BY TypeInit
  <1>2. Open = {} /\ \A w \in Workers : Held(w) = {}
    BY DEF Init, Open, Held
  <1>3. OneHolder
    BY <1>2, AbsenceAssumption DEF AbsenceAssumption, Init, OneHolder
  <1>4. Len(backlog) = 0 /\ \A i \in 1 .. Len(backlog) : FALSE
    BY DEF Init
  <1>5. ConnectedOnce
    BY <1>2, <1>4 DEF ConnectedOnce
  <1>6. ReadFromHolder /\ AnsweredLast /\ NotDropped
    <2>1. \A c \in Clients : /\ inbox[c] = <<>> /\ link[c] = "out"
                             /\ unsent[c] = Pieces[c] /\ unread[c] = 0
                             /\ Pieces[c] \in Nat
      BY PiecesAssumption DEF PiecesAssumption, Init
    <2>2. \A w \in Workers : pc[w] = "epoll_wait"
      BY DEF Init
    <2>3. QED
      BY <2>1, <2>2 DEF ReadFromHolder, AnsweredLast, NotDropped
  <1>7. RepliesGoHome
    <2>1. \A c \in Clients : inbox[c] = <<>> /\ Len(inbox[c]) <= 1
      BY DEF Init
    <2>2. QED
      BY <2>1 DEF RepliesGoHome
  <1>8. QED
    BY <1>1, <1>3, <1>5, <1>6, <1>7 DEF Inv

\* The invariant is inductive.
LEMMA InvStep == Inv /\ [Next]_vars => Inv'
  BY TypeStep, HolderStep, ConnectedStep, ReadStep, AnsweredStep, RepliesStep,
     NotDroppedStep DEF Inv, Base

\* No descriptor leaks, none is used after close and none by two threads.
THEOREM OneHolderCorrect == Spec => []OneHolder
  <1>1. Inv => OneHolder
    BY DEF Inv
  <1>2. QED
    BY <1>1, InvInit, InvStep, PTL DEF Spec

\* A client receives one reply at most, and only to its own request.
THEOREM RepliesGoHomeCorrect == Spec => []RepliesGoHome
  <1>1. Inv => RepliesGoHome
    BY DEF Inv
  <1>2. QED
    BY <1>1, InvInit, InvStep, PTL DEF Spec

\* The connection of a client that stays, with a well-formed request that comes
\* whole and is parsed alone, is not closed without a reply.
THEOREM NotDroppedCorrect == Spec => []NotDropped
  <1>1. Inv => NotDropped
    BY DEF Inv
  <1>2. QED
    BY <1>1, InvInit, InvStep, PTL DEF Spec
=============================================================================
