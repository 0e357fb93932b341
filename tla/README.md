# TLA+ specifications of img2web and of its Cassandra driver

img2web is a micro-service for image micro-blogs: a FastCGI daemon with four
handlers (`/users`, `/post`, `/feed`, `/subscribe`) that keeps its data in
Cassandra. The handlers are a few hundred lines; what they do right depends on
the C++ driver that is kept in the repository (`src/cpp-driver-master`), where
the threads, queues, timers and retries are. These specifications model both,
TLC checks them on small instances, and TLAPS proves the theorems in the
modules whose names end in `Proofs` for every value of the constants.

## 1. The system

    client --HTTP--> fastcgi-daemon queue --> handler thread            Img2Web
                                                | cass_session_execute Statement
                                                | cass_future_wait        Future
                                                v
                       Session::execute --> request_queue_ (MPMC)     MPMCQueue
                                                |   plan, timestamp  QueryPlan, Clocks
                       session thread: on_execute                       Session
                                                | request_queue_ (SPSC) SPSCQueue
                       I/O worker: on_execute, retry           Session, Request
                                                |
                       Pool::borrow_connection / wait_for_connection       Pool
                                                |
                       Connection::write, consume, on_timeout        Connection
                         | stream ids           | bytes                |
                       StreamManager          Ssl, RingBuffer     Frames, Responses

    session thread: ControlConnection --> hosts, policies       LoadBalancing
                                      --> schema   Metadata, TableColumns, UserFunctions
                                      --> replicas           TokenMap, Replication

| Component (source) | State | Operations | Hard because of |
|---|---|---|---|
| Service (`img2web.cpp`, `cassandra_db.cpp`) | threads of the daemon's pool, three tables | `handleRequest` of four components, `onLoad`, `execQuery` | several statements per request, no transaction; statements that fail, come late or are applied twice; blocking waits |
| Stream manager (`stream_manager.hpp`) | bit map of free ids, wrapping offset, pending table | `acquire`, `release`, `get_pending_and_release` | two representations of one fact; counter wrap-around |
| Connection (`connection.cpp`, `handler.cpp`) | connection and handler states, intrusive lists, timers, reference counts | start-up, write, flush, on_write, on_read/consume, timeout, heartbeat, close | the order of libuv's callbacks; late responses; cancelled writes |
| Request (`request_handler.cpp`, the set-keyspace, prepare and schema-change handlers, `retry_policy.cpp`) | plan, host, retries, the helper that acts for it | borrow, wait, USE, PREPARE, agreement, retry, answer | a retry while a write is due; keyspaces that change; several queries for one answer |
| Pool (`pool.cpp`) | connections, pending connections, waiting requests, availability, one timer | connect, borrow, return, wait, on_ready, on_close, partial reconnect, close | counts kept by callbacks in any order; closing while connecting |
| Session and I/O workers (`session.cpp`, `io_worker.cpp`) | session state, queues, event queues, pending counts, pools per worker | connect, execute, close, on_event, on_execute, add_pool, notify_* | three kinds of threads, queues with limits, a state check outside the mutex |
| Control connection (`control_connection.cpp`) | connection, version, plan, hosts, policies' lists, queries outstanding | connect, reconnect, events, refreshes, host up and down | events between a query and its answer; losses; hosts that disappear |
| Load balancing (`*_policy.cpp`) | lists of hosts, per data center; latencies | init, on_add/up/down/remove, distance, compute_next | plans walked by one thread while another changes the hosts |
| Metadata (`metadata.cpp`, `data_type_parser.cpp`) | front and back buffer, type objects, tables, functions | update_*, drop_*, snapshot, swap | snapshots that share objects; rows in an order of their own; three layouts |
| Token map (`token_map.cpp`, `replication_strategy.cpp`) | ring, strategies, replicas | update_host, remove_host, update_keyspace, build, clear | derived state kept in step with what it is derived from |
| Statements, values, responses (`statement.cpp`, `collection.cpp`, `*_response.cpp`, `row.cpp`) | bound values, options, decoded bodies, iterators | bind, append, set, encode, decode, next | widths and orders that depend on version and flags; objects kept by pointer |
| SSL (`ssl_openssl_impl.cpp`, `ring_buffer.cpp`) | two ring buffers, handshake, certificate | handshake, verify, encrypt, flush, read | ends of blocks; memory that a write still points to |
| Generators (`timestamp_generator.cpp`, `uuids.cpp`) | last value | next, monotonic_timestamp | lock-free; the clock goes back |
| Metrics (`metrics.hpp`) | two histograms and three epochs per thread | record, snapshot, mark, tick | lock-free phases |
| Future (`future.cpp`) | is_set_, callback_, waiters, references | wait, wait_timed, set, set_callback, free | callback against set; free against queued work |
| Queues (`mpmc_queue.hpp`, `spsc_queue.hpp`) | ring of nodes with sequence numbers; ring with two indices | enqueue, dequeue | lock-free, stale loads |

Interactions: an application thread and the session thread share the MPMC
request queue and the event queue; the session thread and a worker share the
SPSC request queue and the worker's event queue; `uv_async_send` wakes the
other side and may coalesce. Within an event loop everything is a callback and
callbacks do not overlap. Closing is a NULL entry that follows the requests
through the same queues. Hosts, policies, the token map and the metadata belong
to the session thread; workers see hosts through query plans, applications see
the metadata through snapshots.

The places in the code where it could go wrong are the `hazards` of
`PROJECT.json`; each names the properties of section 3 that would notice.

## 2. Modules

`Img2Web` - a thread is idle or blocked in one `execQuery` (`thread[t].pc` names
which). One action per return from a statement (`RegisterUserReturns`,
`RegisterSelfReturns`, `WriteReturns`, `GetSubscriptionsReturns`,
`ReadReturns`), with the code's checks of the result and its early returns:
the result of RegisterSelf is not looked at, that of the post or the
subscription is. `ParseTop` is `stream >> top`, including that a failed
extraction stores 0. External parts: the daemon's queue (`Submit`), connecting
(`OnLoad`, which may fail and whose result the code drops), and Cassandra
(`Execute`, `ExecuteResent`, `Refuse`, `GiveUp`, `ApplyLate`): an insert whose
future is set to an error may be applied, never or later, and one that is
resent may be applied twice. Cassandra is a single copy here: what replicas
may return below quorum is not modelled. JSON and base64 are abstracted.

`StreamManager` - `words_` as sets of free bit positions, the offset modulo its
width, `pending_` as a function. `StreamPool` is the abstract specification:
ids that are in use, each with its handler, any free one of which may be given
out, and failure only when none is free. It has no bit map and no offset; the
refinement mapping is the identity on `pending` and `result`.

`Connection` - one connection with its handlers. `HandlerState` and `ConnState`
are the two `set_state` functions; where the code asserts, the state becomes
"INVALID" and the type invariant fails. `callback` is the callback that runs,
so that a callback which works through a list takes one step per element and
nothing else happens on that loop in between. `pending_reads`, `queued` and
`writes` are the intrusive lists, `wire` is what the server may still answer.

`Request` - one request on its worker. `phase` says who acts for it: nobody yet,
the pool, the RequestHandler ("written"), the SetKeyspaceHandler ("use"), the
PrepareHandler ("prepare"), the SchemaChangeHandler ("agreement"), or nobody any
more ("done"); "lost" is a request whose handler drops the answer it is given
(section 6). `writing` is the write callback that is due. `RetryPolicy` has
the policies as operators; `Decide` applies one to what a node may answer.
Nodes may answer what no handler expects, and the queries of an agreement may
find no stream: `agreement.refused` has those that did.

`Pool` - the pool of one worker for one host; a connection is its state, the
reason it closes, its stream count and the requests written to it. `Borrow` is a
request that comes from the session or from another host, `BorrowAndPass` one
whose write failed there: `on_error` then also returns the connection that it has
just got here (`request_handler.cpp:53-57`), and a waiting request is passed on
though nothing was freed.

`Session` - application threads (`caller`), the session thread (`thread`), the
workers (`remaining` is the loop variable of `on_execute`), and the pools of a
worker as far as connecting and closing wait for them. `ExecuteChecks` and
`ExecuteEnqueues` are two steps, because `Session::execute` holds no lock.
`mutex` is TRUE while `close_async` spins inside `state_mutex_`.

`ControlConnection` - the control connection with the session's map of hosts and
the policy's lists. A host is its address, a row of `system.peers` is a pair of
addresses, one of which may be missing or 0.0.0.0. Answers to refreshes come in
any order, and events between them. `PolicyPlans` are the hosts a plan may have:
the local list, and of each remote one as many as the policy takes. `LoadBalancing` has the policies as
operators on a record and is shared with `QueryPlan`, where a plan is walked
one round of a `compute_next` loop at a time while hosts go down, come up, and
latencies are measured.

`Metadata` - front and back buffer, the stream of events and answers, snapshots.
Maps are values, because the code copies them on write; type objects are in a
heap, because it does not copy those. `TableColumns` and `UserFunctions` are
what one keyspace makes of its rows; `DataTypes` the parsers of the CQL and of
the class notation, on tokens.

`TokenMap`, `Replication` - the ring and the replicas; tokens have `Width` bits.

`Values`, `Statement`, `Responses`, `Frames`, `HashTable` - what is sent and
read. A byte is a digit of base `Base` and integers have few digits, so that
lengths overflow within small values. A message is a sequence of fields with
their widths; properties compare what the driver wrote with an independent
reading of the protocol (`ReadRequest`, `Meant`), or what a server means with
what the getters return. A bound collection is shared: the application may append
to it at any time, `collections` records what it was when the request was executed
and last written, and `CollectionSent` says which of the two the server must read.

`Ssl`, `RingBuffer` - the ring of blocks as the code links it; OpenSSL is
external: it numbers the bytes it puts out, and the property compares the
numbers that reach the socket.

`Clocks`, `Metrics` - one step per atomic access.

`Future` - what happens under `mutex_` is one step; running a callback is a
later one. Condition variables may wake for no reason.

`MPMCQueue`, `SPSCQueue` - one step per atomic access; `SPSCQueue` lets each
side read any value the other's index had since its own last read. Both are
shown to implement `BoundedQueue`, the abstract first-in first-out queue with
a capacity. In `MPMCQueue` a relaxed load of a counter may give any older value.
Apart from these stale loads the accesses are interleaved, in the order of the
code, in `MPMCQueue`, `Clocks` and `Metrics` as well; reorderings that the C++
memory model would allow beyond that are not modelled.

The `MC*` modules name the model values and symmetry sets. `MCParts`,
`MCDriver` and `MCRequests` hold several instances: `component` says
which of them a behaviour is a behaviour of, and the others keep their initial
values, so that the state space is the sum of theirs and not the product. An
operator with "Faulty" in its comment is a plausible mistake in the definition
after it; it is not part of any specification and shows that a property notices
the mistake.

## 3. Runs

Deadlock is checked in `img2web`, the two `connection` runs, `pool` and
`requests`; where such a system may stop for good there is a `Done` (or
`Finished`) step whose guard says when. `driver` and `parts` do not check it:
most of their components end when their bounds are used up, and the liveness
properties say what must have happened by then.

| Run | Instance | Checks |
|---|---|---|
| `img2web` | 2 logins, 1 image, 2 threads, 3 requests, 1 failing statement | `AcknowledgedPostStored`; `FeedExact`: at most `top` images, newest first, of subscriptions only, and what was acknowledged before the feed was asked for is in it unless newer images push it out |
| `connection_requests` | 2 requests, 1 heartbeat, 2 ids, 1 retry in all | `ResponseReachesItsRequest`, `RefCountExact`, `StreamsAndTimers`: no assert fails, handlers are in one list, ids are accounted for, and what waits for an answer has a timer |
| `connection_startup` | authentication, events and keyspace; 1 request, 2 ids | `ReadyAfterStartup`; `ConnectionCompletes`: closing ends, a written request leaves |
| `pool` | 3 connections (core 2), 2 requests, 1 id per connection, 2 failures | `PoolConsistent`, `ReconnectScheduled`, `RequestInOnePlace`, `PoolCompletes` |
| `requests` (session) | four sizes: 2 requests with 1 per flush; a worker queue of 1; 2 workers; 2 hosts | `InFlightFinishes`: closed only after what was accepted is answered, connected only after every pool has reported; `SessionCompletes` |
| `requests` (request) | plans of 1 and 2 hosts, 2 policies, 2 keyspaces, 1 UNPREPARED, agreement asked for again once; any answer, also to USE, PREPARE and the agreement queries, each of which may find no stream | `AnsweredOnce` (a second time only after an agreement query found no stream), `RanInCurrentKeyspace`, `RetriesSafe`, `RequestAnswered` (or lost by a handler that drops an answer) |
| `driver` (future) | 2 waiters, 1 timed waiter, 2 callbacks, with and without a loop | `CallbackAtMostOnce`, `AliveWhileUsed`, `FutureCompletes` |
| `driver` (control) | 3 nodes, 2 of them contact points, 2 data centers, 2 sets of peers, 1 loss; 2 events with schema and local plans, 1 event without schema and plans that use 1 remote host | `LocalHostsListed`, `CatchesUp`, `ControlRecovers` |
| `driver` (metrics) | 1 thread and 3 snapshots; 2 threads and 1 snapshot | `SnapshotComplete`, `SnapshotEnds` |
| `parts` (streams) | 2 words of 2 bits, offset modulo 4, 3 handlers | `BitmapMatchesPending`, `ImplementsStreamPool` |
| `parts` (queues) | 2 producers, 2 consumers, ring of 2, 3 entries; ring of 4, 6 entries | `QueuesBounded`: both implement `BoundedQueue`, no place is touched by two threads, refusals are true |
| `parts` (types, values) | every type of depth two; 4 versions, values at the edge of a digit | `ConversionsFaithful` |
| `parts` (statement) | 2 parameters, a list or a map for any of them, the map appended to at any time; query, prepared and batch; keys of 1 and 2 columns; none or both parameters bound to begin with, then 2 calls that bind, set or add; written twice; 4 versions | `StatementAsSent` |
| `parts` (responses, frames, names) | every kind of response at 4 versions, 2 iterators; 1 or 2 frames in pieces; 2 tables of 4 entries | `ResponsesRead`, `FramesReassembled`, `LookupsExact` |
| `parts` (ssl) | blocks of 2 bytes, 3 flights, records longer than a block, 7 certificates | `EncryptedIntact`, `SecuredBeforeUse` |
| `parts` (plans) | 3 hosts in 2 data centers, 4 compositions of policies, one of them with replicas that repeat a host under both wrappers | `PlanSound` |
| `parts` (metadata, tables, functions) | 1 keyspace with an item of each kind, 1 change, 2 connections; 2 keyspaces of 2 tables, 5 shapes, 3 versions; 5 functions, 2 aggregates, 4 changes | `SchemaSound`, `SchemaAsDeclared` |
| `parts` (token map, rings) | 3 hosts, tokens of 2 bits, 2 keyspaces, 2 connections, 1 change; rings of 5 of 6 hosts | `ReplicasPlaced` |
| `parts` (clocks) | 2 threads, 2 values a millisecond, a clock set back once | `StampsIncrease` |
| `img2web_top`, `session_race`, `uuid_race`, `schema_snapshot`, `token_routing` | smallest that show it | violated, see section 6 |

Why the bounds are enough: three requests are what the feed properties relate
(a post, a subscription, a feed), and two threads interleave the statements of
any two of them. Two stream ids and two requests let an id be reused while a
late response is under way. A ring of two nodes makes every sequence number
wrap within three entries. Queues of one and two entries are full at once, so
that the refusals and the spinning closes happen. Two core connections and two
failures reach a pool that loses one connection, then the last. One request
per flush leaves entries behind in the worker's queue. Three snapshots of the
metrics meet an even phase, an odd one and an even one again. Two connections
of the control connection are the first and a later one, which the code treats
differently. Three hosts in two data centers have a local host to prefer, one
to fall back to and a remote one; a ring of five hosts in two racks has a rack
that must be used twice. A statement whose parameters are both bound needs two
more calls to be routed by both columns, to be in a batch twice, or to have two
options, and below version 4 it can only be sent when both are bound. A table that holds two entries without the heap moves
twice within four.

Named bounds of the models: `MaxRequests`, `MaxErrors` (Img2Web), `MaxRetries`,
`Heartbeats` (Connection), `MaxEntries` (queues, HashTable), `MaxReconnects`
(Session), `MaxFailures` (Pool), `MaxUnprepared`, `MaxRounds`, `MaxOthers`
(Request), `max_events`, `MaxLosses` (ControlConnection), `max_downs`,
`max_updates` (QueryPlan), `MaxRecords`, `MaxSnapshots` (Metrics), `MaxChanges`,
`MaxSnapshots`, `MaxConnections` (Metadata), `MaxAlters` (TableColumns),
`MaxChanges` (UserFunctions), `Reads`, `Changes` (TokenMap), `MaxItems`,
`MaxSets`, `MaxSends` (Statement), `MaxGets`, `MaxIterators` (Responses),
`MaxIn`, `MaxOut`, `MaxQueued` (Ssl), `MaxClock`, `MaxCalls`, `MaxBack` (Clocks).

### Fairness

- `Connection`: a callback that has begun returns, libuv reports every write and
  every close (weak fairness). Request timers get strong fairness: the loop
  passes its timers in every iteration, and the timer of a request is disabled
  only while another callback runs. Nothing is assumed of the server.
- `Request`: weak fairness of what the worker and its timers do by themselves
  (`Progress`); nodes need not answer, pools need not connect.
- `Session`: the threads run, and pools connect or fail (their connections have
  a connect timeout); a request that a pool holds ends, by its timer at the
  latest (`ConnectionCompletes`, `RequestAnswered`). Connecting and closing by
  the application is not fair: nobody has to.
- `Pool`: the timer of a delayed connect fires, a connection that is connecting
  becomes ready or fails, one that is closing is closed.
- `ControlConnection`: connections that are being made become ready or close,
  the reconnect timer fires, a query is answered or times out. The server need
  not push events.
- `Metrics`, `Future`: the threads run; a future is set some day.
- `Img2Web`, the queues and the other components of `parts` have no fairness,
  and no liveness is claimed of them.

## 4. Proofs

Every theorem holds for every value of the constants that satisfies the named
assumption of its module. Each rests on one inductive invariant (`Inv`; `IInv`
in `Img2WebProofs`; `WalkInv` and `OrderInv` for the plans in `SessionProofs`;
`Inv`, `SingleInv`, `ClockInv` and `Safe` for the four parts of
`LockFreeProofs`), with `Init => Inv`, `Inv /\ [Next]_vars => Inv'` (one lemma
per action) and one step from `Inv` to the property. TLC checked every invariant
on small instances before it was proved.

| Module | Theorems | Assumption |
|---|---|---|
| `StreamManagerProofs` | `BitmapAlwaysMatches`, `AcquireNeverOverwrites`, `StreamManagerImplementsPool` | `StreamAssumption`: three numbers are positive |
| `FutureProofs` | `CallbackRunsAtMostOnce`, `FutureOutlivesItsUsers` | `FutureAssumption`: NULL is no callback |
| `RequestProofs` | `FutureSetOnce`, `KeyspaceIsCurrent`, `RetriesAreSafe` | `RequestAssumption` |
| `PoolProofs` | `PoolIsConsistent`, `ReconnectIsScheduled`, `RequestIsInOnePlace` | `PoolAssumption`: finitely many objects, positive limits, `Core <= MaxConnections` |
| `ConnectionProofs` | `NoStreamLeaks`, `ResponsesMatch`, `ReferencesAreExact`, `ReadyIsStartedUp` | `ConnectionAssumption` |
| `Img2WebProofs` | `AcknowledgedPosts`, `FeedsExact` | `BoundsAssumption`, `WorkloadAssumption`: the arguments a request may carry |
| `SessionProofs` | of `Session`: `CloseWaits`, `ConnectWaits`, `TypesHold` | `SessionAssumption`: finitely many requests, workers (at least one) and hosts, positive queue sizes |
| | of `QueryPlan`: `PlanNamesEachOnce`, `PlansAreSound` | `QueryPlanAssumption`: finitely many hosts |
| `LockFreeProofs` | of `MPMCQueue`: `NodesAreExclusive`, `RefusalsAlwaysTrue`, `RingIsABoundedQueue` | `QueueAssumption`: at least two nodes, no thread on both sides |
| | of `SPSCQueue`: `PlacesAreExclusive`, `SingleRingIsABoundedQueue` | its `QueueAssumption`: at least two places |
| | of `Clocks`: `TimestampsIncrease`, `TimesAtMostTwice` | `ClockAssumption`: a millisecond has at least one part |
| | of `Metrics`: `SnapshotsAddAlone`, `SnapshotsComplete` | `MetricsAssumption`: finitely many threads, fewer records than the two phases' epochs are apart |

`StreamManagerProofs`. The inductive invariant is `TypeOK /\
BitmapMatchesPending`: the agreement of the two representations is not inductive
by itself, because `release` computes word and bit from an id and both must be
in range for the bit to be the one that was cleared. The argument rests on two
facts of arithmetic, `QuotientRemainder` (word and bit of `bit + BitsPerWord *
word` are unique) and `ProbeReachesAll` (the rotated loop visits every word, so
that a failed search means that every word is empty). The refinement then needs
only the invariant: an id whose bit is set is free, and all words empty means
that no id is.

`FutureProofs`. That a callback ran at most once says nothing about who may
still run it. The inductive invariant names the party that has the callback to
run (`OneRunner`: the setter, the queued work or the caller, never two of them),
ties that to the callback that was accepted (`OnlyAccepted`) and to the moment
the future is set (`SetFirst`), keeps an accepted callback from falling between
them (`NotLost`), and gives every party that may touch the future its reference
(`Held`).

`RequestProofs`. Whether the future is set once depends on who else may still
set it: `QueriesOwned` says that agreement queries without an answer belong to a
request that waits for them, or that one of them failed and the future was set
for that, or that one found no stream, and then how often the future was set. `WriteCallbackDue` says in which phases a write callback may still
come, `ResentOnce` ties the policies' decisions to `num_retries`, and
`KeyspaceKnown` carries the keyspace that a USE named to the write after it.
Nodes may answer what no handler expects. `FutureSetOnce` holds of every
request, also of one whose agreement queries find no stream, for which the code
sets the future a second time (section 6); the theorem says that this is the only
case, and that there is no third time.

`PoolProofs`. The counts of the pool are cardinalities and lengths that callbacks
keep in step. `Lists` and `States` say which connections are in which list in
which state, without repetitions; `StreamsHeld` that a connection has at least
as many streams in use as requests written to it; `OnePlace` is the request in
one place, stated element by element, from which the sum of cardinalities in
`RequestInOnePlace` follows. `ReconnectScheduled` is inductive only in the form
that counts the connections: fewer than `Core` of them, made or being made,
means that the timer of the partial reconnect runs.

`ConnectionProofs`. None of the four properties is inductive. `Placed` says that
its state tells in which list a handler is, `Registered` and `StreamsFit` that
the ids in use are exactly those of unanswered handlers and that what is on the
wire is registered and was flushed, `References` counts the owners, `Disjoint`
keeps the batches apart, `Exchange` says where the start-up exchange is
(`InProgress`: what was answered before the current request, and that nothing
after it was sent). `SizesExact`, that `pending_writes_size` is the sum over
the batches, is stated by the existence of the partial sums and not by a
recursive sum. Once a connection is `CLOSED` its object is gone, and only the
references and the empty lists are claimed.

`LockFreeProofs`, four components whose threads share memory without a lock.

- `MPMCQueue`: `Places` says what the sequence number of a node tells about
  every place that shares the node; `ProducerFits` and `ConsumerFits` what a
  thread between its claim and its release may rely on. The arithmetic is in
  `SlotPeriod` and `SlotDistinct`: places share a node exactly when they are
  whole rounds apart. A stale counter never claims: the compare-and-exchange
  demands the current one, and the sequence number seen before it then still
  holds. In the refinement the two claims are `Enter` and `Take`, the two
  releases `Store` and `Leave`, and everything else stutters. `MaxEntries` is
  arbitrary, so that it bounds nothing. The run checks the same three facts, as
  `QueuesBounded`.
- `SPSCQueue`: the indices say where the two threads are, but not how often they
  went round. `Counters` reads them as the places of two numbers that only grow,
  and `Seen` says that an index one thread saw is the place of a number the
  other one has passed since: from it there was room, or an entry, and there
  still is. That is why a stale load can only refuse what would have been
  possible. With `Contents` the refinement of `BoundedQueue` follows, with one
  place less than the ring has.
- `Clocks`: `last` is the largest timestamp returned, and a timestamp that was
  exchanged is larger than the one loaded, whatever `computeNext` made of the
  clock (`Larger`). Only when the parts of a millisecond are used up is a value
  returned again (`Stamped`, in the words of the property). For UUIDs `Timed`
  counts: the last time was returned once at most, by the call that stored it,
  and an earlier one once more by the `fetch_add` that went past it. The
  run `parts` checks the two theorems as `StampsIncrease`.
- `Metrics`: `Balanced` is the arithmetic of `WriterReaderPhaser`: the writers
  that entered in a phase and have not left are the difference of the start and
  end epochs of that phase. `Indexed` says that a writer of the current phase
  has the index of the active histogram; `Flips` follows the reader through the
  change of the phase. So the wait ends only when nobody of the old phase is
  left, and the histogram that is added has no writer (`SnapshotsAddAlone`).
  `Kept` and `Added` follow a latency from the writer through the histograms to
  the snapshot: the inactive histogram is in the total already, so that what is
  missing is in the active one, and that is the one a snapshot adds. `Rated`
  counts the events of a rate by the cardinalities of two sets, those between
  `mark` and the end of `record_request` and those no tick has counted yet.
  The two theorems are the two parts of `SnapshotComplete` of the run `driver`.
  `MetricsAssumption` bounds the records because the odd epochs start at
  `INT64_MIN`: only 2^63 requests would make the epochs of the phases meet.

`Img2WebProofs`. A reply is a promise about tables that other threads go on
writing to. `IInv` says for each place of the handlers what the thread there
knows (`Working`), and for each reply what it promised (`Promised`); that none
of this is undone later is one lemma for each (`WorksStays`, `KeptStays`), from
`Grows`: the tables only grow, and images at their end. The set of logins that
a `/feed` has read covers what its reader had been told before (`Covers`), and
`Told` says that what counts as told had been answered: a subscription that
arrives between the two statements may be missing, one acknowledged before may
not. `Written` signs every row, also those of writes that come late, with the
login of their request. `NewestFirst` is proved from `Ranks`: every rank among
finitely many numbers is taken by one of them, so that what the LIMIT cuts off
is older than all that is shown.

`Session`, in `SessionProofs`. Closing and connecting are two counting arguments
over the same queues, and the invariant has a part for each. `Closing`: a
request is in one place at most (`Owned`) and, once accepted, in one at least
until it is answered (`Accounted`); the NULL entry comes after it (`Halting`,
with `Announcing` for the session's queue, `Passing` for a worker's and
`Holding` for the pools), so that when every worker is closed no place is left
for it to be in. Accepting and the NULL entry are ordered by the queue alone,
which is why a request that was checked before the close and enqueued after it
is not among them (`session_race`). `Counting`: `pending_workers_count_` is the
number of workers that are not closed and of their notifications that are not
handled yet. `Reporting`: the pools that still owe a report, and the reports in
the event queue, are together at most `pending_pool_count_`. It is at most and
not equal because a worker that is closing drops the pools it is asked to add,
and these report nothing; then the session is never connected. `Starting` keeps
the two arguments apart before the control connection is ready. The run checks
the same three facts, as `InFlightFinishes`.

`QueryPlan`, in `SessionProofs`: the session thread makes the plans. A plan
walks copies of lists that the session thread goes on changing, so nothing in
the plan may depend on the lists as they are now. What the theorems need from
the policy is `ListsFit`: no list has a host twice, a list has only hosts of its
data center (the local one also those it got before it knew), local hosts that
are down are in none, and who is local (`SameHome`) is not changed by hosts that
go down or come up. `WalkFits` is about the plan. `Ring` gives the hosts that
the rounds that are left will meet, and `AheadFit` says that none of them was
named, but for replicas: a loop that starts at any index and makes as many
rounds as the list is long meets every place once (`RingStep` takes one round
off it, `RingAll` says that all rounds meet all hosts). `PhasesFit` keeps
replicas, local hosts, data centers and skipped hosts in this order,
`SkippedFit` the hosts that were too slow apart from those named. `OriginsFit`
says of each host that was named which loop it came from, so that it is none of
those ahead; `NothingLost`, that a local host that was up all the time is named,
skipped, or ahead. With `RemoteLast` follows the order. All of it was checked
with TLC on three assignments of data centers, one with hosts of an unknown one,
before it was proved. The theorems speak of any replicas and any data centers,
because the code gives them so: a host that has several tokens may be repeated
among the replicas of a key (section 6) and is then named as often, which is what
`EachHostOnce` allows and nothing else; a host whose data center was not known
when the policy was told of it is in the local list, and is named as such although
the policy calls it remote later, which is why `LocalBeforeRemote` is about hosts
that are known to be of a remote data center.

The proofs also settled how the code's `if` and `else if` are written here. Arms
of a CASE whose guards overlap may be chosen freely, while TLC takes the first, as
the code does: such chains are nested IFs in `LoadBalancing`, `QueryPlan` and
`ControlConnection`, or have guards that exclude each other (`Read` in `Values`).

Only model-checked:

- liveness (`ConnectionCompletes`, `PoolCompletes`, `SessionCompletes`,
  `FutureCompletes`, `RequestAnswered`, `CatchesUp`, `ControlRecovers`,
  `SnapshotEnds`): fairness and ENABLED are not supported by the prover;
- what `RingBuffer`, `DataTypes`, `Values`, `Statement`, `Responses`,
  `Replication` and the modules that use them compute: it is defined by
  recursion over data, which is out of the prover's reach as well;
- the safety properties of `ControlConnection` (`LocalHostsListed`) and `Ssl`
  (`EncryptedIntact`, `SecuredBeforeUse`), which are not proved.

## 5. Plan

What is left, in this order:

1. proofs: `LocalHostsListed` of `ControlConnection`, whose invariant must say
   which events a query that is under way has not seen; then the safety of
   `Ssl`. What is defined by recursion stays with TLC;
2. compositions: `Session` with `ControlConnection` (pools that workers add and
   remove while hosts come and go), `Request` over `Pool`.

## 6. Where the code and its documentation differ

- `img2web_top`: the handler of `/feed` means to fall back to 10 images when
  `top` cannot be converted (`img2web.cpp:106-110`), but a stringstream does not
  throw: `top` becomes 0, `LIMIT 0` is refused, and the client gets 404.
- `session_race`: `Session::execute` checks the state and then enqueues
  (`session.cpp:477-485`). If another thread closes the session in between, the
  request stays in a queue that is not read any more, its future is never set,
  and `cass_future_wait` on it does not return. The documentation calls the
  session safe for concurrent use (`topics/README.md:159`). img2web closes its
  sessions only when the process ends.
- `uuid_race`: `UuidGen::monotonic_timestamp` returns the old value of
  `fetch_add` (`uuids.cpp:282`), which was given to another call.
- `schema_snapshot`: a refresh of a user type changes the object that earlier
  snapshots point to (`metadata.cpp:1557`).
- `token_routing`: reading the schema clears the ring that the rows of the hosts
  have just filled (`metadata.cpp:695`), so that token-aware routing finds no
  replicas until a host's tokens are read again.

Noted while reading, and left out of the instances where a property would fail:

- a schema agreement query that is answered with an error, and a USE or PREPARE
  that is answered with another opcode, leave the request without an answer
  (`schema_change_handler.cpp:111`, `set_keyspace_handler.cpp:47`): its future is
  never set. This is the phase "lost", which `RequestAnswered` excepts;
- an agreement query that finds no stream answers the request at once but does not
  set the flag of `MultipleRequestHandler`, so that the other query answers it
  again (`schema_change_handler.cpp:139-150`), in a future that is set already.
  `AnsweredOnce` and `FutureSetOnce` except it;
- the replication strategies collect the hosts of the following tokens and do
  not look whether a host is among them already (`replication_strategy.cpp:173`,
  `127`): where hosts have several tokens, which is the default of a server, a
  token-aware plan names a host as often as the replicas do;
- `cass_error_result_keyspace` refuses every error, because it asks for both codes
  that have a keyspace at once (`error_response.cpp:64`). The code it compares is
  moreover the number on the wire, while the constants of `cassandra.h` have the
  source of the error in their highest byte: so the getters of the table, the
  function and the argument types refuse as well (`error_response.cpp:76`, `87`,
  `103`). `cassandra.h:6293-6369` says which errors they are for. `GettersAgree`
  says that these four refuse, and that the others give what was sent;
- a MOVED_NODE event for a node that the session does not know hands no host to
  `remove_host` (`control_connection.cpp:281`), and the token map reads its address
  (`token_map.cpp:149`). `MovedUnknownNode` ends the process there, which
  `ControlRecovers` excepts;
- a table of names in which two are equal but for their case keeps, when it grows
  or is copied, a pointer into the memory it left, and follows it
  (`hash_table.hpp:208`): `LookupsExact` ends there;
- at Cassandra 1.2 the key columns of a table are in its list of columns and not
  found by their names (`metadata.cpp:1147-1154`);
- a collection is encoded again at each write (`abstract_data.cpp:104-108`), so
  that what is appended after execute, or between a write and its retry, is sent,
  and an odd number of items in a map as well, which binding refuses; but a request
  that is routed by the collection sends the encoding made for its key
  (`abstract_data.cpp:114-131`);
- a page size of 0 is counted by one test and written by another
  (`query_request.cpp:123` and `174`); version 1 cannot carry the values of a
  query; up to version 2 a cached collection has the encoding of another version;
- up to version 2 lengths above 16 bits are cut off, and a collection inside a
  collection is read with other widths than it is written;
- tables of one name that follow each other in two keyspaces are read as one
  (`metadata.cpp:1690`); aggregates refreshed before their functions keep NULL
  (`metadata.cpp:1323`); strategy options are merged with the old ones
  (`metadata.cpp:896`);
- the write of a handshake points to a buffer on the stack
  (`connection.cpp:1111`), and output beyond `MAX_BUFFER_SIZE` is not sent
  (`connection.cpp:828`);
- `cass_future_get_result` decodes the first row again at each call
  (`future.cpp:64`): with `MaxGets = 2` the first row is the second;
- `/subscribe` is documented to fail with 434 when a login does not exist, which
  the code never tests; `/users` is documented to list everyone who ever logged
  in, while `RegisterSelf` ignores its errors (`cassandra_db.cpp:155-159`);
- `cass_future_wait_timed` is documented to return false on a timeout, and also
  does so after a spurious wake-up (`future.hpp:116-123`);
- a snapshot adds the inactive histogram of a thread to the total and does not
  reset it before it is active again (`metrics.hpp:429`), so that a latency is
  added again each time its histogram has its turn; `SnapshotsComplete` says
  that none is missed and none invented, not that each weighs once;
- pools are counted whether or not a worker's event queue took them
  (`session.cpp:540`), and with no usable host connecting never ends
  (`session.cpp:528`).

## 7. Not modelled

Cluster configuration and the C API, which are setters and casts (settings are
constants of the models); logging, random numbers, name resolution and
addresses; the hash functions of the partitioners, and OpenSSL and PEM files;
native types other than int and text in values; metadata fields that are only
copied and the JSON they are read from; the workers' side of hosts that come
and go after connecting; vendored third-party code; examples, tests, packaging,
the load test and the command-line client.

Narrower than the code, each named where it is:

- `StartupHandler::on_set` dispatches on the opcode alone (`connection.cpp:69-117`).
  `StartupResponse` lets the server answer each request with an opcode that the
  protocol gives for it, or with anything that ends the connection; an opcode that
  is legal elsewhere in the exchange would be followed, and `ReadyAfterStartup`
  would not hold of it;
- `FinalResponse` of `Connection` sets the future at once. After a SCHEMA_CHANGE or
  UNPREPARED the code leaves that to the handlers it sends
  (`request_handler.cpp:152-159`, `216-229`), which `Request` models with the
  connection reduced to its answers;
- in the run `pool` a connection has one id, so that `BorrowAndPass` always sends
  the waiting request to the next host; the theorems of `PoolProofs` cover the case
  of a second id;
- `ControlRecovers` takes a connection to a host of the plan that is under way for
  recovery: it does not say that it succeeds;
- statements that are bound again after execute, and items that are appended at the
  same moment as a write, which is a data race.
