# HighloadCup2017: TLA+ models, checks and proofs

The service answers queries about users, locations and visits over HTTP. It
loads a data set at start, keeps everything in memory, and serves
`GET /users/<id>`, `/locations/<id>`, `/visits/<id>`, `/users/<id>/visits`,
`/locations/<id>/avg`, and POSTs that update or add an entity. One thread accepts
connections and the others share one epoll instance, one storage and, as it
turns out, the parser's static buffers.

These modules model the code in `src/`; `PROJECT.json` says which lines each
definition stands for. `tlc -config X.cfg M` runs a check, `tlapm M_proofs.tla`
a proof.

## The system

| Part | State | Operations | Used by |
|---|---|---|---|
| `HttpServer` (`Run`, `DoJob`) | listening socket, epoll instance, descriptors; each worker's batch of events and buffer | accept, register, wait, recv, process, send, close | clients, through the kernel |
| `HttpParser` | a parser per request; `max_path` and `query_parameters`, static and shared by the workers | `ParseHttpRequest`, `SplitQuery`, `Route` | `RequestProcessor` |
| `RequestProcessor` | none | `ProcessRequest` and one handler for each request type | `DoJob` |
| `EntitiesValidator`, `Validate`, `Deserialize` | none | check and narrow a JSON body | `RequestProcessor`, loading |
| `DataStorageNew` | `users_`, `locations_`, `visits_`, `users_to_visits_`, `locations_to_visits_` | load, three lookups, two queries, three updates, three adds | `RequestProcessor` |
| `IndexedDataStorage` | an older storage with five indexes | the same interface | nobody: compiled, never created |
| `Main`, `Traceable`, macros, `HttpServerBoost`, `RequestProcessorSimple` | none that matters | command line, logging; the last two are not built | |

A request goes through `DoJob` -> `RequestProcessor::ProcessRequest` ->
`HttpParser::ParseHttpRequest` -> one call of `IDataStorage` -> a reply -> `close`.

What is hard in it:

* **Indexes against containers.** The queries trust the indexes and never compare
  `user_id` or `location_id`, so they are right only if every sequence of loads, adds
  and moves keeps the multisets exact. They are not when a visit changes its user.
* **Descriptors that are reused.** `close` frees a number that `accept` may hand out
  at once, while other workers still wait on the same epoll instance.
* **A request in pieces, a client that hangs up, tables that are full.**
* **Static buffers.** The URL of one request is overwritten by another's.
* **Values that stand for "not given"**, and numbers narrowed in different ways by
  an add and by an update.
* **Refused and repeated requests**, which must leave no trace.
* **Workers in the storage without a lock.** Statements of several calls interleave: a
  move empties one multiset before it fills another, an add fills a container before the
  indexes, a query walks a multiset that changes under it.
* **An update that is refused after it has changed something** (`IndexedDataStorage`).

What each part must guarantee, and the properties that say so:

| Part | Must guarantee | Property |
|---|---|---|
| storage | a visit is counted once, at its location | `LocationIndexExact` |
| storage | a user's list has the user's visits and no others, as long as none changes hands | `UserIndexExact` |
| storage | when visits change hands, the only one lost or disturbed is the visit that has the old user's id | `UserIndexCovers`, `OnlyNamesakeForgotten`, `OnlyNamesakeDisturbed` |
| storage | every answer is that of a store without indexes | `ImplementsIDataStorage` |
| storage, shared | once its changes are done, a visit is at its location and, but for the user's namesake, in its user's list | `SettledVisitsAtTheirLocation`, `SettledVisitsUnderTheirUser` |
| storage, shared | a query is exact about the visits nobody touches, and counts none twice | `SteadyVisitsAveraged`, `SteadyVisitsListed`, `NeverCountedTwice` |
| storage, shared | of concurrent adds of one id the first stays | `VisitsStay` |
| storage, shared | a change happens as a whole, on what the last one left, and is answered by what it found | `ImplementsVisitChanges` |
| older storage | locations' multimaps exact, no dangling look-up, as many pairs as visits | `LocationIndexExact`, `EntriesKnown`, `PairsCounted` |
| older storage | users' multimaps, both maps and the answers exact, while times tell a user's visits apart | `UserIndexExact`, `MapsAgree`, `AnswersExact` |
| older storage | a refusal touches no entity and no multimap | `RefusedLeavesLists` |
| server | a descriptor is nobody's, watched, or held by one worker, and never lost | `OneHolder` |
| server | a reply reaches the client that asked, once | `RepliesGoHome` |
| server | nobody is turned away without a reason, or left waiting | `NotDropped`, `Served` |
| processor | refused: no trace; accepted: the named effect; repeated: nothing more | `RefusedChangesNothing`, `AcceptedTakesEffect`, `RetriedChangesNothing` |
| parser | a well-formed request alone is parsed as what it says | `AloneIsOwn` |
| parser | a race never turns a GET into an update | `GetsOnlyRead` |
| parser | the process ends only by a race or an ill-formed request | `CrashHasCause` |

## The modules

`Entities` holds the data: the attributes some filter reads, the partial records of
an update with their "not given" values, the update rule and the filters.

`IDataStorage` is the **abstract specification** of the storage: three containers and
the answer of the last call, no indexes. A query is a set comprehension over all
visits that have been indexed (`located`, `owned`) and whose attributes fit.

`DataStorage` is `DataStorageNew`, one action for each call. An index maps an id
to a multiset of visit ids, written as copies per visit. `LoadUser`, `LoadLocation`,
`LoadVisit` take elements in any order and `MapEntities` indexes at the end, as the
constructor does. `UpdateVisit` is the code's: the location's multiset first, then the
user's, where **the user's id, not the visit's, is erased** (DataStorage.cpp:630). Users and
visits are numbered from 1, so there usually is a visit with that id, the user's *namesake*: if
it belongs to the user, its entry is what the erase hits. Ids of all kinds are plain numbers
here and may coincide.
`ImplementsIDataStorage` instantiates `IDataStorage` with `located` and `owned`
replaced by what the multisets hold.

`ConcurrentStorage` is `DataStorageNew` as the workers use it. A call is a sequence of
statements, named by the worker's `pc`; each looks at or changes one container, one
multiset or one entity, and the other workers' statements come in between. What the code
keeps in local variables is kept in `from` (the multiset an iterator of `UpdateVisit`
points to) and in `cursor` and `counted` (a query's iterator and its result so far). Where
the next statements of two workers use one object and one of them writes it, the C++
program has a **data race**: the model lets either go first, or anything happen from there
on (`undefined`, where it stops). `Reads` and `Writes` name the tables, multisets and
attributes of each statement, numbers included: an average that reads a mark while
`UpdateVisit` assigns it races. A query is taken to read all attributes its filters could ask
for. What the code does in several accesses and the model in one step: a query's reading of one
visit and of its location or user; passing the copies of one id, which are neighbours in the
multiset; the second walk of a list, over what the first collected; and the texts an update
replaces, which are written with the attribute next to them (`AssignGender`,
`AssignCountry`). The attributes the filters read are assigned in steps of their own. Nodes
of the hash maps stay where they are when a table grows, so an iterator is used without the
table. The history variables say what the properties are about: `overlapped` holds the
visits of which two changes were ever under way together, `steady[w]` those nothing has
touched since `w`'s query began. The data files are taken to be complete.

`VisitChanges` is the **abstract specification** of `AddVisit` and `UpdateVisit` under
concurrent calls: of a visit whose changes never overlapped (`contested` holds the others) a
change is one step, `AddVisit` or `UpdateVisit`, somewhere between the call and its answer;
`Refuse` and `Confirm` give the answer that fits that step, and `GetVisitById` returns the
visit as promised if nobody is changing it. `ConcurrentStorage` implements it
(`ImplementsVisitChanges`): a change takes effect when its look-up has succeeded, and from
then on `Promised` is the visit as the statements that are left will make it.

`IndexedDataStorage` is the storage that `DataStorageNew` replaced. It keeps each visit's
location and user a second time (`visits_to_locations_`, `visits_to_user_`) and indexes
visits by their time in multimaps, written as copies per pair of time and id. An added
visit is found again in its user's multimap **by its time alone**. `timely` is the history
under which that is sound: no user has had two visits of one time, and no visit a new time
while it stayed with its user; `added` holds the visits that `AddVisit` accepted. A visit that
comes from the data files is in no index, for the calls of `MapEntities` are commented out:
`AnswersExact` compares every answer with what a client would count in the containers
(`TrueList`, `TrueMarks`) and says that loaded visits are what is missing. `UpdateVisit` writes
the two maps before it looks into the multimaps, so it may be refused half-way
(`UpdateVisitHalfway`), as when a visit is given a new time and then a new user. `phase` ends
in "hung" when a filter comes to a visit of an unknown location, from which its loop never
moves on (`ListHangs`), and in "undefined" when a look-up that failed is used unseen
(`AverageUndefined`, `UpdateVisitOfUnknownUser`). An answer is "Malformed" when all that is
listed is skipped for want of a location and the bracket is popped, "NotANumber" for 0/0.

`HttpServer` is `Run` and `DoJob`. A worker's `pc` names where it is in the loop
(`epoll_wait`, `recv`, `ProcessRequest`, `send`, `close`); `events` is what is left of its
batch. The kernel is modelled by what the code relies on: a ONESHOT registration
reports once and is disarmed, `close` deregisters and frees the number, full
tables make `accept` and `epoll_ctl` fail, and then the process exits. A client
connects, sends its request in one or more pieces, and may hang up at any time. What the
request is parsed as is `HttpParser`'s business; here the parse has the outcomes that module
shows. A whole, well-formed request that no other worker's parse overlaps has a reply. Any
other, one in `IllFormed`, one that came in pieces, or one in `crossed`, which holds the requests
that two workers had in `max_path` at one time, may have a reply, be closed without one
(HttpServer.cpp:141) or end the process (`ParseFaults`).

`RequestProcessor` instantiates `DataStorage` and adds validation, narrowing (`ToId`,
`ToInt`, `ToMark`), the bodies with absent and wrong values, and the status of each
reply. Each handler is one action: a call of the storage and its reply, or `Refuse`.
`GetInt` takes the low 32 bits, which is the Release build; a Debug build would assert.

`HttpParser` puts the parser in concurrent workers. A URL is a sequence of bytes
in which a name ("users", "toAge") is a single byte, so that `max_path` can be
copied byte by byte, terminated, cut up in place by yuarel and read through
pointers (positions) by `Route`, each a step of its own. A part that is not there is
a stray pointer: it reads any text of `max_path`, or crashes the process. yuarel is an
empty submodule here, so its calls are external: what they write and return is
what their uses in this code need, each call one step. Any sequence of bytes may be sent
(`RequestsAssumption`): a request has a path, a query and `rest`, the bytes that fit neither.
`WellFormed` says what the code is made for and does not check: an entity and an id or "new",
no empty part, no separator inside a part, a key or a value, a value for every parameter, at
most `max_query_parameters_amount` of them, and a URL shorter than `PathSize`. `crashed` is a
null or stray pointer that was followed, or a URL that ran over the end of `max_path`. No URL
here has a scheme or a fragment.

An operator whose name ends in an underscore and a word (`_Mutant`, `_Kept`, `_Cleared`
and the like) is a deliberately wrong variant of the definition after it, and is used by no
specification: replacing the definition by it must break the property the
"mutants" of `PROJECT.json` pair it with.

## The runs

| Run | Instance | Shows |
|---|---|---|
| `storage` | 2 users, 2 locations, 1 visit, 2 dates, both genders and countries; no hand-overs | `TypeOK`, both indexes exact, and the refinement of `IDataStorage` |
| `handovers` | 2 users, 2 locations, 2 visits, one with a user's and a location's id and one with an id of its own; moves, hand-overs, at most 2 copies | old users keep stale entries, and only the namesake of a user is ever lost or disturbed |
| `stale_list` | 2 users, 2 visits with the same ids, hand-overs | **violation**: after a hand-over the old user's list still shows the visit |
| `workers` | 3 workers, at most 3 calls; ids that coincide; 2 loaded visits and a free id, 2 locations and 2 users, one of each not there yet; moves, hand-overs, adds, in-place updates, look-ups, both queries | what holds of the shared storage until two accesses race, and the refinement of `VisitChanges` |
| `indexed` | 2 users, 2 locations in either of 2 countries, 2 visits, 2 times; loads, adds, moves, new times, hand-overs with and without a new time; queries with filters that pass and reject; at most 2 copies | what holds always and what holds while `timely`; refusals; exact answers, loaded visits left out |
| `requests` | 2 users, 1 visit, ids and marks of 4 bits; wrong, absent, wide and negative values, text that is not JSON | refused requests leave no trace |
| `moves` | 2 users, 2 locations, 1 visit; every partial move | repeated requests change nothing; accepted ones do what they say |
| `server` | 3 clients (one in two pieces, one ill-formed), 3 descriptors, 2 watches, batches of 2, 2 workers | `TypeOK`, `OneHolder`, `RepliesGoHome`, `NotDropped` |
| `served` | 2 clients, 2 descriptors, 2 workers, fairness | `Served` |
| `parser` | 1 worker, 65 well-formed requests: every route, paths that are none, a third method, bad and wide numbers, repeated and unknown parameters; and 8 ill-formed ones | each well-formed one is parsed as what it says over what earlier ones left behind; only ill-formed ones crash |
| `parsers` | 2 workers, 5 requests, one ill-formed, whose parts and queries lie across each other | what the race on the static arrays can and cannot do |
| `shared_path` | 2 workers, `GET /users/1` and `GET /users/2` | **violation**: one GET is not taken for what it is |

Why the bounds are enough. A defect in the indexes needs one visit to be moved twice between two users or two locations, or two visits when one's entries are hit by
the other's id, or by the id of the user; all are there. Values beyond two of a kind only repeat what a filter can
tell apart. `MaxCopies` bounds how often a visit can come back to a user it left: a
further update is not explored, in `handovers` after the first duplicate. A race over
descriptors needs a number that is closed by one worker, given out again and used by
another: two workers and more clients than descriptors allow it, and `MaxWatches` below
the number of descriptors lets `epoll_ctl` fail. `IdModulus` and `MarkModulus` are
small powers of two (100 in the parser, whose digits are decimal), so wide numbers
wrap around within the instance. `PathSize` stands for the 120 bytes of `max_path`; of the
URLs in `parser` one is longer. In `workers` a property needs at most two calls that disturb
each other and a query that sees them, hence three workers and three calls (`MaxCalls`); a
call moves a visit at most once, and the queries and updates are the few the filters tell
apart. The workers are interchangeable, so its states are taken up to their permutation.
In `indexed` a stale pair needs two visits of one user with one time, and a hand-over that
takes the wrong one: two visits and two times. Two countries tell the visits apart by a filter;
for distance, age and gender one query passes every visit and another rejects every one; `MaxCopies` only stops a visit that comes
back again and again. No step depends on the last answer, so
`MCView` leaves it out of the states of `indexed` and `handovers`, while every step's answer is
still checked; and what a storage held when it stopped was checked in the state before.
`max_query_parameters_amount` is 2, with queries that
fill it. Ages of queries and the largest distance have no run of their own: see the notes
of their hazards.

Deadlock is not checked in `server`, `served`, `parser`, `parsers`, `shared_path`, `workers`
and `indexed`: the server comes to rest when every client is gone, or exits, a parser may
crash, a data race or a look-up used unseen ends a model of the storage, and `workers` stops
after its last call.

**Fairness** (`served` only): weak fairness of `Run` and of each worker's `DoJob`. Each is
an endless loop of a thread of its own whose calls return, so a step that stays possible
is taken. The clients get none: one that connects and says nothing keeps its
descriptor for ever, and `Served` promises nothing to it. `Served` allows for the
process exiting, which the code does when `accept` or `epoll_ctl` fails.

## What disagrees with the code

* `stale_list`: `UpdateVisit` erases the wrong id. The assertions of
  `Tests/DataStorageTests/ComplexTests/ComplexTests.h:141` expect the visit to leave
  the old user's list; they pass only because visit 1 belongs to user 1.
* `shared_path`: `max_path` is static, so the routes in the comments of `Route`
  hold only for a request that is parsed while no other is.

## What is proved

TLAPS checks these for all values of the constants, under the modules' named
assumptions (finite sets of descriptors, positive bounds, sentinels outside the sets).

* `DataStorage_proofs`. `TypeCorrect`; `LocationIndexCorrect`, which is inductive with
  `TypeOK` since a move takes out every copy before it puts one in; `UserIndexCovered`,
  `NothingElseForgotten` and `NoneElseDisturbed`: the erase of line 630 names a user's id, so
  what it hits under that user is the namesake or nothing. None of them assumes that ids of
  users and visits differ.
  Without hand-overs, `UserIndexCorrect` and `StorageImplementsIDataStorage`: every step
  maps to a step of the interface or a stutter. The answers agree because the index
  invariants turn "the visits in the multiset of l" into "the indexed visits at l". With
  hand-overs the refinement is false, as `stale_list` shows.
* `ConcurrentStorage_proofs`, for any number of workers and calls. Every property of the run
  `workers` is proved. `Typed` says where each statement may be and what its locals hold.
  `SettledVisitsAtTheirLocation` is about visits at rest, and becomes inductive as
  `LocationInvariant`: of a visit whose changes never overlapped at most one call is changing
  it (`Sole`), and what the locations hold of it follows from the statement that call has
  reached (`Underway`): at its location, nowhere between erase and emplace, at the new one
  before the visit says so. `UserInvariant` is the same for its user, "at least once", of the
  entries `UpdateVisit` spares (`Spared`): under users of another id while no two changes of a
  visit overlapped; after that, where the user it reads may no longer be the one whose multiset
  it has found, of visits that are no user's namesake. `WalkInvariant` bounds what a query has
  counted by where its iterator is; since an iterator only moves up, nothing is counted
  twice. `SteadyInvariant` adds that nobody is changing a steady visit, so that a walk counts
  it when it passes it and `Selected` still means what it meant then.
  `StorageKeepsItsPromises` is the refinement of `VisitChanges`. `WrittenInvariant` says which
  attributes an update has written at each of its statements; with `Sole` nobody else undoes
  them. Each write leaves `UpdatedVisit(visits_[v], update)` as it is (`AppliedOnce`), so the
  promise stands still from the look-up to the last write, which makes the visit equal to it
  (`AppliedAtLast`). Every other statement is a stutter or an answer.
* `IndexedDataStorage_proofs`. Every property of the run `indexed`. `LocationIndexExact` is
  inductive with `TypeOK`: the locations' side erases by time **and** id, and an update that is
  refused changes neither visits nor locations. `Paired` says that the two maps know the
  same visits; with it `EntriesKnown` is inductive. On the users' side `InTime` is: while
  `timely`, the multimaps are exact, no two visits of a user share a time (`Apart`), and the maps
  agree. `Apart` makes the pair found by its time the visit's own; exactness makes an
  update find what it looks for, so that none is refused half-way (`NeverHalfway`), which keeps
  the maps right. `RefusedLeavesLists` needs it for its last words only: that a half-way refusal
  is of a visit no pair of that time is listed for is the guard the code has. `AnswersExact`
  follows pair by pair.
* `HttpServer_proofs`. `OneHolder`, `RepliesGoHome` and `NotDropped` are not inductive
  alone. The invariant `Inv` adds `ConnectedOnce` (a client is behind one descriptor),
  `ReadFromHolder` (what a worker has read came from the client its descriptor is
  connected to) and `AnsweredLast` (a client has a reply only if it is closed, or the
  worker that holds its descriptor is about to close it). Then a reply that is sent to the
  descriptor is sent to the client that was read, and it is the first.
* `RequestProcessor_proofs`. By the lemma `ProcessorUsesStorage` the processor's steps are
  steps of `Storage!Spec`, which is how it is written. `BodiesAssumption` and `UpdatesAssumption` say that the ids and values in
  bodies are among those the storage is declared with. `RefusedLeavesNoTrace`: by
  cases over the requests. `RetriesAreHarmless` follows from `RetryInvariant`: what the last
  request would update holds its attributes already, what it would add is there
  (`UpdatesIdempotent`: replacing attributes twice is replacing them once).
  `AcceptedUpdatesTakeEffect` takes the type invariant and `LocationIndexExact` from
  `DataStorage_proofs`, instantiated as `Facts`, and carries them over with
  `ProcessorUsesStorage`; without them an entry that is moved to a location might be there
  already. The other results on the storage are carried over in the same way
  (`ProcessorUsesFacts`), under the conditions they have there: `RequestsKeepLists`,
  `RequestsForgetNothingElse`, `RequestsDisturbNoneElse` and `RequestsImplementIDataStorage`. It assumes `ValuesAssumption`: ids and marks in use survive the narrowing and none
  of them is a "not given" value.
* `HttpParser_proofs`, for any number of workers, every sequence of bytes as a URL, and
  any size of the arrays. `GetsOnlyReadCorrect`: only the worker's own method decides
  between the two halves of `Route`, whatever texts the parts turn out to be. `TypeCorrect`:
  however the workers race, positions lie in `max_path` and its last byte stays NUL, so every
  C string ends. `TypeInv` adds where each loop counter may be at each step (`Counter`).
  `AloneIsOwnCorrect` and `CrashHasCauseCorrect` have one invariant, `OwnInv`: a worker
  whose request is well-formed and no other overlaps has come as far as its `pc` says (`Progress`): the first
  bytes of the URL are copied; the whole URL is there; its first slash and its question mark
  are NUL; its parts, then its parameters, are C strings of their own, found through the
  pointers of `parts` and `query_parameters`; the filters of the parameters before `i` are
  set. One lemma per step (`CopyAdvances` to `RouteAdvances`) shows that it brings the worker
  to the next stage and follows no stray pointer; the step of another worker finds nobody
  alone. `GetMeaning` and `PostMeaning` compare the nested cases of `Route` with the table of
  routes row by row, for every path.
* `DataLemmas` and `UrlLemmas` hold what those proofs need of the operators: a set of
  positions has exactly one increasing enumeration (`Sorted`), a C string reads back as what
  was written (`TextLemma`), a number is a natural (`NumberLemma`), and the byte at each place
  of the folded URL is that of its part or parameter (`UrlLemma`, `PathLemma`, `QueryLemma`).
  The provers have no induction; `Induction` draws it from the library's
  `NatLessThanWellFounded` and `WFMin`, over a set instead of an operator.

Only model-checked: `Served`, a liveness property under fairness, and `PairsCounted`, a sum
over a set, both out of the provers' reach.

## What is not modelled

Names, places and cities, which no filter reads; the text of replies and the digits of
an average; the order of a user's list; `DumpData` and the size getters; the names of
files in the archive; JSON bodies that are not objects; digits beyond 64 bits; a
scheme, host or fragment in a URL; the limit of ten parts that `yuarel_split_path` is given, of
which `Route` reads three; `Main` and logging.
`HttpServerBoost` and `RequestProcessorSimple` are in no CMakeLists.txt and never built. Of `IndexedDataStorage`: `MapEntities`, whose calls are commented out, and what
the entries of `locations_to_users_` hold, which nothing reads. Of the shared storage: loading
with workers, which have not started then, and data files with references to entities that
are missing, which `DataStorage` covers.

Some hazards have no property, because what happens is in the model and no text of the
repository says what should. Ages of a query narrowed to 16 bits (DataStorage.cpp:485), an
update to distance 0 (573), the bound of a Timestamp for a distance (376), the values that
mean "not given" (RequestProcessor.cpp:697), an add and an update that narrow a number
differently (User.cpp:36): they are in `Entities` and `RequestProcessor` as the code has them,
which the interface shares. The data races of the storage (DataStorage.cpp:619) and the copy
of an entry that is not there (IndexedDataStorage.cpp:584) end a behaviour of the model; the
properties speak of what comes before. One thread, or none, on the command line
(HttpServer.cpp:269) is a configuration in which the program serves nobody by construction.
A `send` that blocks (HttpServer.cpp:164) needs a reply larger than the send buffer; the
model's buffer takes every reply.

## Plan

Done: all modules named above, with their theorems. What could follow:

1. `Service`: `HttpServer` composed with `RequestProcessor`: an acknowledged add is seen
   by every later query, a lost reply and a retry on a new connection.
2. `ConcurrentStorage` shown to implement `DataStorage`, answers of queries included, when
   calls do not overlap.
