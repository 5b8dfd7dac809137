----------------------------- MODULE HttpServer -----------------------------
(***************************************************************************)
(* HttpServer::Run and DoJob (HttpServer/HttpServer.cpp): the main thread  *)
(* accepts connections and registers them with one epoll instance, the     *)
(* worker threads wait on it, and each connection is read once, answered   *)
(* and closed.  What a request asks of the storage is left out; a request  *)
(* is a number of pieces, each small enough for one recv.                  *)
(*                                                                         *)
(* The kernel is modelled by what the code relies on: a ONESHOT            *)
(* registration reports once and is then disarmed; close removes the       *)
(* descriptor from the epoll instance and frees its number for accept; an  *)
(* accept or an epoll_ctl that finds its table full fails.                 *)
(*                                                                         *)
(* The workers parse in one static array, HttpParser's max_path: a request *)
(* that is parsed while another one is may be taken for anything, for one  *)
(* that has no reply or for one that ends the process.                     *)
(***************************************************************************)
EXTENDS Integers, Sequences, FiniteSets

CONSTANTS
  Clients,             \* each client opens one connection
  Pieces,              \* Pieces[c]: how many pieces the request of c comes in
  IllFormed,           \* the clients whose request is not WellFormed for HttpParser
  Descriptors,         \* the descriptors the process may have open
  MaxWatches,          \* what fs.epoll.max_user_watches allows
  MAX_EVENTS,
  threads_count_,
  NoClient, NoDescriptor

ASSUME PiecesAssumption == Pieces \in [Clients -> Nat \ {0}]
ASSUME IllFormedAssumption == IllFormed \subseteq Clients
ASSUME DescriptorsAssumption == IsFiniteSet(Descriptors)
ASSUME LimitsAssumption == MAX_EVENTS \in Nat \ {0} /\ MaxWatches \in Nat
\* The vector of threads is filled up to the size_t threads_count_ - 1.
ASSUME ThreadsAssumption == threads_count_ \in Nat \ {0}
ASSUME AbsenceAssumption == NoClient \notin Clients /\ NoDescriptor \notin Descriptors

Workers == 1 .. (threads_count_ - 1)

VARIABLES
  backlog,       \* connections accept has not returned yet
  conn,          \* conn[f]: the client a descriptor is connected to
  sock,          \* the descriptor between accept and epoll_ctl
  armed,         \* the descriptors epoll_wait may report
  exited,        \* exit(EXIT_FAILURE) was called, or a worker faulted
  pc,            \* where each worker is in DoJob
  events,        \* the events of its batch a worker has not looked at yet
  fd,            \* the descriptor it is looking at
  message,       \* what it read: the client and the number of pieces
  crossed,       \* the clients whose request was parsed while another was
  link,          \* a client's connection: "out", "in" or "closed"
  unsent,        \* the pieces a client has still to send
  unread,        \* those that lie in the server's receive buffer
  hungup,        \* the clients that shut their side down
  inbox          \* the replies that reached each client

server == <<backlog, conn, sock, armed, exited>>
workers == <<pc, events, fd, message, crossed>>
clients == <<link, unsent, unread, hungup, inbox>>
vars == <<server, workers, clients>>

NoMessage == <<NoClient, 0>>

Init ==
  /\ backlog = <<>>
  /\ conn = [f \in Descriptors |-> NoClient]
  /\ sock = NoDescriptor
  /\ armed = {}
  /\ exited = FALSE
  /\ pc = [w \in Workers |-> "epoll_wait"]
  /\ events = [w \in Workers |-> {}]
  /\ fd = [w \in Workers |-> NoDescriptor]
  /\ message = [w \in Workers |-> NoMessage]
  /\ crossed = {}
  /\ link = [c \in Clients |-> "out"]
  /\ unsent = Pieces
  /\ unread = [c \in Clients |-> 0]
  /\ hungup = {}
  /\ inbox = [c \in Clients |-> <<>>]

(***************************************************************************)
(* The clients.  One that hangs up may reset the connection, which empties *)
(* the receive buffer.                                                     *)
(***************************************************************************)
Connect(c) ==
  /\ link[c] = "out"
  /\ ~exited
  /\ link' = [link EXCEPT ![c] = "in"]
  /\ backlog' = Append(backlog, c)
  /\ UNCHANGED <<conn, sock, armed, exited, workers,
                 unsent, unread, hungup, inbox>>

SendPiece(c) ==
  /\ link[c] = "in"
  /\ c \notin hungup
  /\ unsent[c] > 0
  /\ unsent' = [unsent EXCEPT ![c] = @ - 1]
  /\ unread' = [unread EXCEPT ![c] = @ + 1]
  /\ UNCHANGED <<server, workers, link, hungup, inbox>>

HangUp(c) ==
  /\ link[c] = "in"
  /\ c \notin hungup
  /\ hungup' = hungup \cup {c}
  /\ unread' \in {unread, [unread EXCEPT ![c] = 0]}
  /\ UNCHANGED <<server, workers, link, unsent, inbox>>

(***************************************************************************)
(* The main thread, HttpServer::Run.                                       *)
(***************************************************************************)
Open == {f \in Descriptors : conn[f] # NoClient}

Accept ==
  /\ ~exited
  /\ sock = NoDescriptor
  /\ backlog # <<>>
  /\ \E f \in Descriptors \ Open :
       /\ conn' = [conn EXCEPT ![f] = Head(backlog)]
       /\ sock' = f
  /\ backlog' = Tail(backlog)
  /\ UNCHANGED <<armed, exited, workers, clients>>

\* accept takes the number before it waits, so it fails even with no client.
AcceptFails ==
  /\ ~exited
  /\ sock = NoDescriptor
  /\ Open = Descriptors
  /\ exited' = TRUE
  /\ UNCHANGED <<backlog, conn, sock, armed, workers, clients>>

Register ==
  /\ ~exited
  /\ sock # NoDescriptor
  /\ Cardinality(Open \ {sock}) < MaxWatches
  /\ armed' = armed \cup {sock}
  /\ sock' = NoDescriptor
  /\ UNCHANGED <<backlog, conn, exited, workers, clients>>

RegisterFails ==
  /\ ~exited
  /\ sock # NoDescriptor
  /\ Cardinality(Open \ {sock}) >= MaxWatches
  /\ exited' = TRUE
  /\ UNCHANGED <<backlog, conn, sock, armed, workers, clients>>

(***************************************************************************)
(* The workers, DoJob.                                                     *)
(***************************************************************************)
\* The descriptors with something to read, be it the end of the stream.
Readable(f) == conn[f] # NoClient /\ (unread[conn[f]] > 0 \/ conn[f] \in hungup)
Ready == {f \in armed : Readable(f)}

\* A batch is as large as MAX_EVENTS allows.
IsBatch(batch) ==
  /\ batch \subseteq Ready
  /\ batch # {}
  /\ Cardinality(batch) <= MAX_EVENTS
  /\ Cardinality(batch) < MAX_EVENTS => batch = Ready

\* Mutant: the descriptor is registered without EPOLLONESHOT.
EpollWait_Mutant(w) ==
  /\ ~exited
  /\ pc[w] = "epoll_wait"
  /\ \E batch \in SUBSET Ready :
       /\ IsBatch(batch)
       /\ events' = [events EXCEPT ![w] = batch]
  /\ pc' = [pc EXCEPT ![w] = "recv"]
  /\ UNCHANGED <<server, fd, message, crossed, clients>>

EpollWait(w) ==
  /\ ~exited
  /\ pc[w] = "epoll_wait"
  /\ \E batch \in SUBSET Ready :
       /\ IsBatch(batch)
       /\ events' = [events EXCEPT ![w] = batch]
       /\ armed' = armed \ batch
  /\ pc' = [pc EXCEPT ![w] = "recv"]
  /\ UNCHANGED <<backlog, conn, sock, exited, fd, message, crossed, clients>>

\* The workers that are about to parse, or parse, a request.
Parsing == {w \in Workers : pc[w] = "ProcessRequest"}

\* The requests whose parses overlap when client c's joins those under way.
Crossing(c) == IF Parsing = {} THEN {} ELSE {c} \cup {message[w][1] : w \in Parsing}

\* The sockets are blocking: recv returns when there is something to read, or
\* at once when the descriptor is not open.
Recv(w) ==
  /\ ~exited
  /\ pc[w] = "recv"
  /\ \E f \in events[w] :
       /\ fd' = [fd EXCEPT ![w] = f]
       /\ events' = [events EXCEPT ![w] = @ \ {f}]
       /\ \/ /\ Readable(f)
             /\ \E n \in 1 .. unread[conn[f]] :
                  /\ message' = [message EXCEPT ![w] = <<conn[f], n>>]
                  /\ unread' = [unread EXCEPT ![conn[f]] = @ - n]
             /\ crossed' = crossed \cup Crossing(conn[f])
             /\ pc' = [pc EXCEPT ![w] = "ProcessRequest"]
          \/ /\ Readable(f) => unread[conn[f]] = 0
             /\ conn[f] # NoClient => Readable(f)
             /\ pc' = [pc EXCEPT ![w] = "close"]
             /\ UNCHANGED <<message, crossed, unread>>
  /\ UNCHANGED <<server, link, unsent, hungup, inbox>>

\* A whole request that is well-formed and parsed alone has a reply, errors
\* included.  What any other is taken for is anyone's guess: its URL may be one
\* that cannot be parsed, HttpParserUnknownRequestType.
Complete(request) == request[2] = Pieces[request[1]]
Recognized(request) ==
  Complete(request) /\ request[1] \notin IllFormed \cup crossed

\* Where a worker goes when it is done with an event.
\* Mutant: the `break` that was commented out, which forgets the batch.
NextEvent_Mutant(w) == "epoll_wait"
NextEvent(w) == IF events[w] = {} THEN "epoll_wait" ELSE "recv"

\* Mutant: what DoJobTest does, continue without close.
ProcessRequest_Mutant(w) ==
  /\ ~exited
  /\ pc[w] = "ProcessRequest"
  /\ \/ /\ pc' = [pc EXCEPT ![w] = "send"]
        /\ UNCHANGED <<fd, message>>
     \/ /\ ~Recognized(message[w])
        /\ pc' = [pc EXCEPT ![w] = NextEvent(w)]
        /\ fd' = [fd EXCEPT ![w] = NoDescriptor]
        /\ message' = [message EXCEPT ![w] = NoMessage]
  /\ UNCHANGED <<server, events, crossed, clients>>

\* Mutant: no reply to a request of the wrong kind.
ProcessRequest_Silent(w) ==
  /\ ~exited
  /\ pc[w] = "ProcessRequest"
  /\ pc' \in {[pc EXCEPT ![w] = "send"], [pc EXCEPT ![w] = "close"]}
  /\ UNCHANGED <<server, events, fd, message, crossed, clients>>

ProcessRequest(w) ==
  /\ ~exited
  /\ pc[w] = "ProcessRequest"
  /\ \/ pc' = [pc EXCEPT ![w] = "send"]
     \/ /\ ~Recognized(message[w])
        /\ pc' = [pc EXCEPT ![w] = "close"]
  /\ UNCHANGED <<server, events, fd, message, crossed, clients>>

\* The parse follows a null or a stray pointer, and the process ends.
ParseFaults(w) ==
  /\ ~exited
  /\ pc[w] = "ProcessRequest"
  /\ ~Recognized(message[w])
  /\ exited' = TRUE
  /\ UNCHANGED <<backlog, conn, sock, armed, workers, clients>>

\* The reply goes to whoever the descriptor is connected to; a client that
\* hung up may be gone, and SIGPIPE is ignored.  The send buffer takes it.
Send(w) ==
  /\ ~exited
  /\ pc[w] = "send"
  /\ LET c == conn[fd[w]]
     IN \/ /\ c # NoClient
           /\ inbox' = [inbox EXCEPT ![c] = Append(@, message[w])]
        \/ /\ c \in hungup \cup {NoClient}
           /\ UNCHANGED inbox
  /\ pc' = [pc EXCEPT ![w] = "close"]
  /\ UNCHANGED <<server, events, fd, message, crossed, link, unsent, unread, hungup>>

\* The close call.  On a connection that has unread pieces it sends a reset,
\* which may overtake the reply; on a descriptor that is not open it fails.
CloseDescriptor(f) ==
  IF conn[f] = NoClient THEN UNCHANGED <<conn, armed, link, inbox>>
  ELSE /\ conn' = [conn EXCEPT ![f] = NoClient]
       /\ armed' = armed \ {f}
       /\ link' = [link EXCEPT ![conn[f]] = "closed"]
       /\ \/ UNCHANGED inbox
          \/ /\ unread[conn[f]] > 0
             /\ inbox' = [inbox EXCEPT ![conn[f]] = <<>>]

\* Mutant: the descriptor may be closed a second time.
Close_Mutant(w) ==
  /\ ~exited
  /\ pc[w] = "close"
  /\ CloseDescriptor(fd[w])
  /\ \/ UNCHANGED <<pc, fd, message>>
     \/ /\ pc' = [pc EXCEPT ![w] = NextEvent(w)]
        /\ fd' = [fd EXCEPT ![w] = NoDescriptor]
        /\ message' = [message EXCEPT ![w] = NoMessage]
  /\ UNCHANGED <<backlog, sock, exited, events, crossed, unsent, unread, hungup>>

Close(w) ==
  /\ ~exited
  /\ pc[w] = "close"
  /\ CloseDescriptor(fd[w])
  /\ pc' = [pc EXCEPT ![w] = NextEvent(w)]
  /\ fd' = [fd EXCEPT ![w] = NoDescriptor]
  /\ message' = [message EXCEPT ![w] = NoMessage]
  /\ UNCHANGED <<backlog, sock, exited, events, crossed, unsent, unread, hungup>>

DoJob(w) ==
  \/ EpollWait(w)
  \/ Recv(w)
  \/ ProcessRequest(w)
  \/ ParseFaults(w)
  \/ Send(w)
  \/ Close(w)

Run == Accept \/ AcceptFails \/ Register \/ RegisterFails

Next ==
  \/ \E c \in Clients : Connect(c) \/ SendPiece(c) \/ HangUp(c)
  \/ Run
  \/ \E w \in Workers : DoJob(w)

Spec == Init /\ [][Next]_vars

\* The scheduler runs every thread that is not blocked; clients owe nothing.
FairSpec == Spec /\ WF_vars(Run) /\ \A w \in Workers : WF_vars(DoJob(w))

-----------------------------------------------------------------------------
(***************************************************************************)
(* Properties.                                                             *)
(***************************************************************************)
\* The descriptors a worker has taken from epoll_wait and not closed yet.
Held(w) == events[w] \cup ({fd[w]} \ {NoDescriptor})

Requests == (Clients \cup {NoClient}) \X Nat

\* Every variable has values of its kind, and a worker that waits for events
\* has finished its batch.
TypeOK ==
  /\ backlog \in Seq(Clients)
  /\ conn \in [Descriptors -> Clients \cup {NoClient}]
  /\ sock \in Descriptors \cup {NoDescriptor}
  /\ armed \subseteq Descriptors
  /\ exited \in BOOLEAN
  /\ pc \in [Workers -> {"epoll_wait", "recv", "ProcessRequest", "send", "close"}]
  /\ events \in [Workers -> SUBSET Descriptors]
  /\ fd \in [Workers -> Descriptors \cup {NoDescriptor}]
  /\ message \in [Workers -> Requests]
  /\ crossed \subseteq Clients \cup {NoClient}
  /\ link \in [Clients -> {"out", "in", "closed"}]
  /\ unsent \in [Clients -> Nat]
  /\ unread \in [Clients -> Nat]
  /\ hungup \subseteq Clients
  /\ inbox \in [Clients -> Seq(Requests)]
  /\ \A w \in Workers :
       /\ pc[w] = "epoll_wait" => events[w] = {}
       /\ pc[w] = "recv" => events[w] # {}
       /\ fd[w] = NoDescriptor <=> pc[w] \in {"epoll_wait", "recv"}

\* No descriptor leaks and none is used after close or by two threads: every
\* open descriptor is in exactly one place, the main thread's hands, epoll's
\* or one worker's, and no other descriptor is in any.  A worker that is at a
\* descriptor does not have it in the rest of its batch.
OneHolder ==
  \A f \in Descriptors :
    /\ f \in Open <=> f = sock \/ f \in armed \/ \E w \in Workers : f \in Held(w)
    /\ f = sock => f \notin armed
    /\ \A w \in Workers : f \in Held(w) =>
         /\ f # sock /\ f \notin armed
         /\ f \notin events[w] \/ f # fd[w]
         /\ \A x \in Workers \ {w} : f \notin Held(x)

\* A reply reaches the client whose request it answers, though descriptors are
\* reused, and no client gets two.
RepliesGoHome ==
  \A c \in Clients :
    /\ Len(inbox[c]) <= 1
    /\ inbox[c] # <<>> => inbox[c][1][1] = c

\* A connection is closed without a reply only on a client that hung up, whose
\* request came in pieces or is ill-formed, or whose request was parsed while
\* another worker parsed one in the same static array.
NotDropped ==
  \A c \in Clients :
    link[c] = "closed" =>
      \/ inbox[c] # <<>>
      \/ Pieces[c] > 1
      \/ c \in hungup \cup IllFormed \cup crossed

\* A client that has said something, or hung up, is not left waiting: the
\* server closes its connection in the end, unless it exits.
Served ==
  \A c \in Clients :
    (link[c] = "in" /\ (unsent[c] < Pieces[c] \/ c \in hungup))
      ~> (link[c] = "closed" \/ exited)
=============================================================================
