# system_k: a TLA+ verification development

`system_k` is a trading system made of cooperating processes: market data
collectors that build order books from venue messages, an aggregator that
publishes one best bid and offer per instrument, order gateways that carry the
orders of trading strategies to venues over FIX, a serializer that records orders
and trades in a database, a configuration server they all ask when they start, and a
replay server for tests. This directory models the
parts that decide whether orders and books are right, checks them with TLC on small
instances, and proves the central properties for all instances with TLAPS.

All source paths below are relative to `src/`.

## 1. Inventory

| component | source | state | operations | hard because |
|---|---|---|---|---|
| order book v2 | `order_book/order_book.v2` | `_orderMap` (id -> order), two trees of limits, a running 32-bit volume per limit | add, remove, modify, clear, bestPrice, volume queries | two structures that must agree through any sequence of calls, repeated ids, wrapping totals |
| order gateway, message processor | `order_entry/order-fix/msg_processor.cpp`, `msg_cache.h` | order cache (id -> strategy), strategy cache (strategy -> ZMQ route) and its file, three sockets | HELO, heartbeat, orders from strategies; replies and reports to strategies | poll loop over two sockets; restart on an old route file; a cache without a lock |
| order gateway, FIX application | `order_entry/order-fix/application.cpp`, `order-fix.cpp` | the MsgProcessor pointer, reply and serialization sockets, the FIX session and its store | dispatch of requests, execution reports, cancel rejects, serialization | two threads on the same objects; callbacks before the sockets exist; resends at logon |
| trade serializer | `trade_serializer/trade_serializer.cpp` | `strategy_id`, the tables `order_state` and `trades` | insertOrder, setOrderStatus, insertTrade for each message | several statements per report, each its own transaction, failures swallowed |
| aggregated book | `aggregated_book/aggregated_book.cpp` | per instrument and venue the best bid and offer with its time | updateOrderBooks, stale purge, broadcastBBO | staleness noticed only when another update arrives; at this commit it ends before its first update (section 5) |
| FIX market data collector | `market_data/fix/md_parser_qf.cpp`, `md_fix.cpp` | one KBook per symbol, the FIX session | full refresh, incremental refresh, logon | fields that stick from entry to entry; renamed and repeated ids; books replaced at every logon |
| ITCH receive buffer, socket | `market_data/itch/ExpandableRingBuffer.cpp`, `Socket.cpp` | a growing ring buffer | WriteData, ReadData, ReadDataUtilByte, RecvMessage, RecvPacket | growth while wrapped; reads that end anywhere in a message; waits with and without a timeout |
| ITCH session | `market_data/itch/Session.cpp`, `main.cpp`, `msg/` | a dispatch queue, the socket, 10 threads | Start, Login, subscriptions, Stop; server, client and dispatcher workers; parsing | hand-over between threads; shutdown and restart in any state; packets cut short |
| replay server | `replay_server/msg_pump.cpp`, `msg_dispatcher.cpp`, `Application.cpp` | a one-message hand-over between two threads per session | pump, dispatch, stop, the FIX callbacks | condition variables, a logout while the threads wait |
| interactive brokers collector | `market_data/interactive_brokers/collect-ib-native_api`, on the vendor's `Shared` and `PosixSocketClient` | in and out buffers, the handshake, the quotes of a contract | connect, checkMessages, the messages, publishing | a stream cut anywhere, 40 kinds of messages with version-dependent lengths, reconnection |
| configuration service and startup | `configuration_server/`, `common/src/c++/utils/config_server.cpp`, the `main` of `md_fix.cpp` and `order-fix.cpp`, the request builders of `md_parser_qf.cpp` | the parsed file; a REQ client that polls three times; what a process was configured with | refresh, request, timeout, the checks at startup, subscriptions | a file edited while it is read, a server that ends between request and reply |
| order books v1 and v3, the interactive brokers FIX collector, symbol validation, protobuf and utility code | see `PROJECT.json` | | | not modelled: superseded, unfinished, not working at this commit, a one-shot client |

How they interact. A strategy connects to a gateway's ROUTER socket, says
`STRATEGY_HELO` and sends orders. The gateway's main thread caches the owner of each
order, sends it over the FIX session and passes it to the serializer. The FIX
engine's thread calls `Application::onMessage` for each report: it looks up the owner,
puts the report on an inproc socket for the main thread to route to the strategy, and
passes it to the serializer over the same socket the main thread uses. Collectors keep
a `KBook` per symbol and publish its top; the aggregator merges those of all venues.
Collector and gateway ask the configuration server for their venue's id and addresses
before they start their FIX initiator. The ITCH and interactive brokers collectors are
programs of their own over TCP.

What makes each modelled component correct:

* the book: the index always leads to a queued order; no empty limit is quoted; the
  top of book is the one its live orders make;
* the collector: whatever the venue sends, index and limits of every book agree; while
  the venue tells its changes, the books hold its quotes and the broadcast is their top;
* the gateway: no strategy is told about another's orders, the lookup for a report
  finds the owner of its order, routes survive a restart, a queued report is not starved;
* the serializer: each execution is booked once and under the right order, a replaced
  order is never closed without its replacement, and once everything has arrived
  the tables show what happened at the venue.

* receiving (ITCH, interactive brokers): however the stream is cut, its bytes stay in
  order, every message is handed on once, whole and in order, and nothing waits for
  bytes that are already there;
* threads (ITCH session, replay server): a message is with exactly one thread or queue,
  a stop comes to its end, and what is queued is handled;
* startup: no process runs on a configuration older than the one acknowledged, or mixed
  from two, none hangs, and every symbol it has a book for is subscribed.

`PROJECT.json` lists the hazards of the code at their lines, and for each the
properties aimed at it.

## 2. Modules

| module | models | state and actions |
|---|---|---|
| `PartialFunctions` | the maps of the code | `Put`, `Drop`, `EmptyFcn` |
| `KBook` | `KBook`, `KLimit`, `KOrder` as values | one operator per method; a limit is its queue (id -> size) and running volume modulo `VolMod`; `shared` tells whether index and limit point to one object |
| `OrderBook` | one book and its caller | `AddCall`, `RemoveCall`, `ModifyCall`, `ClearCall`; `BookSpec` is any caller, `SpecUnique` one that never adds an id still in the index |
| `LiveOrders` | the abstract book: live orders and the top they make | `Enter`, `Leave`, `Resize`, `Snapshot` |
| `OrderBookProofs` | | lemmas about extrema and sums over finite sets, the methods of `KBook` and what a book shows; the theorems about `OrderBook` |
| `MdCollector` | the FIX collector: books, snapshots, refreshes, broadcast; a venue with quotes | `Logon`, `Logout`, `Restart`, `BeginSnapshot`, `SnapshotEntry`, `BeginIncremental`, `IncrementalEntry`, `Publish`, and the venue's `Quote...`, `Answer`, `Refresh`, `SendStray` |
| `MdCollectorProofs` | | the theorems about `MdCollector`, from the lemmas of `OrderBookProofs` |
| `OrderGateway` | the gateway process, its two threads, the FIX session, connections | see below |
| `TradeSerializer` | `handleOrders` and the statements it executes | `ReadMessage`, `RunStatement`, `StatementThrows`, `SerKilled`, `SerStart` |
| `OrderFlow` | gateway + venue + serializer, composed on the parts in flight (`wire`) | `VenueNext`, `GatewayNext`, `SerializerNext` |
| `OrderProofs` | | the theorems about `OrderGateway` and `OrderFlow` |
| `ExpandableRingBuffer` | the ring buffer as operators on a record | `WriteData`, `OffsetOfByte`, `UtilByteCounts`, `ReadBytes`, `AfterRead`, with the slips of the code |
| `ItchReceive` | `Socket` on that buffer, the network | `RecvMessage`, `SelectReads`, `SelectTimesOut`, `SelectFails`, `RecvPacket`, `RecvMore`, `VenueSends`, `VenueShutsDown`, `Close` |
| `ItchReceiveProofs` | | the theorems about `ItchReceive` |
| `ItchMessages` | `MessageFactory` and the message classes: which object a packet becomes | `ParseMessage`, `Load`, `Handler`; a packet is its type, its length, what its fields count and whether its numbers convert |
| `ItchSession` | the session's threads under the loop of `main.cpp` | the steps of `Main`, `ServerWorker`, `ClientWorker`, `DispatcherWorker`, and the venue's |
| `ItchSessionProofs` | | the theorems about `ItchSession` |
| `ReplayServer` | the FIX callbacks, pump and dispatcher of every client | `Callback`, `Joins`, `PumpRun`, `DispRun` |
| `ReplayServerProofs` | | the theorems about `ReplayServer` |
| `IbMessages` | the sizes and calls of every message of `processMsg` | `MsgSize`, `Calls` |
| `IbClient` | the native collector: library, EWrapper and `main`; TWS | `EConnect`, `Read`, `ReadsNothing`, `ProcessConnectAck`, `ProcessMsg`, `FinishCheck`, `ReqCurrentTime`, `Subscribe`, `LoopOver`, `NextAttempt`, `Tws` |
| `IbClientProofs` | | the theorems about `IbClient` |
| `Startup` | the configuration server, its client, the start of collectors and gateways up to the subscription | `ServerNext` (edits, refreshes, answers, ends), `Start`, `ReadLocalVenueConfig`, `AsksServer`, `GetsReply`, `PollTimesOut`, `StartsInitiator`, `GatewayRuns`, `Logon`, `Logout`, `Ends` |
| `StartupProofs` | | the theorems about `Startup` |
| `MC...` | constants for TLC | |

**MdCollector.** All callbacks run on the FIX thread. A message is taken from `channel` and
worked through entry by entry; `work` holds the local variables of the handler: the
entries left, the last symbol, entry id and quote entry id that were set (an entry without one
has the previous entry's), and the book `pBook` points to. The last step publishes the
top of that book, or ends the process when `pBook` is NULL. Logging on replaces every
book and subscribes again. The venue is external: it holds quotes, answers a
subscription with a snapshot (or with nothing, if it has no quotes) and tells every
change after that, one or several to a message; what is in flight when the session is
lost is lost, since the session resets its sequence numbers. It may also send messages that
follow from no quote (`Stray`): empty, with missing ids, unknown symbols, deletes of
unknown entries, several symbols, actions of a later FIX version.

**OrderGateway.** `main.at` is where the main thread is in `MsgProcessor::run`: `poll`;
`client` (a strategy message was reported readable); `helo` (between the truncation of
the route file and its close); `add` (inserting into the order cache); `dispatch`;
`ser1..ser3` (writing the three parts of the serialization message); `internal`
(`rcv_internal`). `fix.at` is where a FIX callback is: `idle`, `reply`, `ser1..ser3`,
`done`. `phase` follows `Application::run`: the initiator's thread exists from
`starting` on, the MsgProcessor pointer from `init` on, the sockets from `running` on.
`Die` is the end of the process: memory, connections and unflushed parts are gone, the
route file and a file store stay. Undefined behaviour is a choice: a lookup in the
`dense_hash_map` during an insertion (`FixLookupRace`) may find the entry, miss it, or end
the process; a report that meets the unset reply socket ends it. `AssertsOn` selects
the debug build; the default build defines `NDEBUG`. The FIX engine, ZMQ and the
venue are external and modelled from how the code uses them: a multi-part message is
flushed with its last part, the ROUTER socket drops what is addressed to an identity
that is gone, the session stores what it cannot send and resends it at logon, and a
message counts as delivered when its callback returns. A reply whose strategy has no route
is an orphan: `rcv_internal` has read its strategy id only, so in the default build its other frames stay at
the inproc socket and are taken for strategy ids one by one (`Leftover`).

**TradeSerializer.** Its loop reads three parts at a time whatever the message
boundaries, so it sees a stream of parts. Every protobuf field is optional: a body of one
type parses as the other; a part that is no body may or may not parse. `strategy_id`
keeps its old value when the part is not a UUID. Each statement is committed on
its own, one action each, and the process may end between any two.

**OrderFlow.** The venue takes the requests in order, executes live orders at any
moment, and reports under the id of the request (ClOrdID) with the id of the order a
cancel or replace was about (OrigClOrdID), as `ORDER_NOTES.txt` describes.

**ItchReceive.** Bytes are followed one by one: `stream` is what the venue sent and no
packet has delivered. `RecvMessage` waits, with a timeout, until a terminator seems to be
there; `RecvPacket` then reads up to it, and asks the socket for more, without a timeout,
when what it read does not end in one. `OffsetOfByte` and the growth of a wrapped buffer
are translated as they are: a search in wrapped data may look outside the buffer, and
then any answer is possible. A `select` may time out also while bytes are on their way. `wrapped` and `lossy` remember that the data has wrapped and that a
growth has lost bytes.

**ItchSession.** It sees the socket from above, as whole packets. A wait on the dispatch
condition is a state that only a broadcast leaves; timed waits are steps that may be
taken at any time. The limit the server thread compares the silence of the venue with is
never initialised, so a connected socket may be closed at any time. `ItchMessages` decides which class of
object a packet becomes and whether all its fields were there; a damaged sequenced packet
is routed as if it were whole, and from there the process may go on or end. A field that
reaches to the end of the packet takes the terminator with it, and a number still converts, since
`ReadString` trims what it reads. `RecvMessage` says that there is a packet,
`RecvPacket` takes it from the ring; when the ring has wrapped it may not see the terminator
(`MissTerminator`), and then asks for more in a loop that neither the shutdown flag nor the
close of the socket ends (`RecvMore`).

**ReplayServer.** One FIX thread runs all callbacks, and a logout joins pump and
dispatcher in it, so one session's logout can hold up the others. The dispatcher's flags
are not initialised by its constructor (`msg_dispatcher.cpp:3`), so its thread may or may not be started.

**IbClient.** The stream is a sequence of fields, and a read may end within one. A
message's size is computed from its version, the server's version and the counts and flags
in it; `MsgSize` and `Calls` cover all message types, and the scripts of the run send each in
the versions that differ. `handleTickPrice` keeps bid, ask and last price, `handleTickSize` their
sizes, and each ignores the ticks of the other; every call broadcasts
(`ZmqPublishTick`) the four quotes that the message has: the last price and size are kept and not sent.

**Startup.** The file has versions; a version is a sequence of sections, and a section may
lack options. A request waits in the socket while the server is down and is lost when a
server that has received it ends. `asked` is the version acknowledged when a process
asked. A FIX version that is not compiled in ends the collector at its logon, unless it asks for its
symbols singly and there is none.

## 3. Runs

Passing runs:

| run | checks | bounds and why they are enough |
|---|---|---|
| `book` | `BookTypeOK`, `IndexConsistent`, `NoEmptyLimit`, `RemoveNeverFaults`, `VolumeIsSum`, `BestPriceIsBest` under any caller | two ids, two prices, two sides: an id can be added twice at one limit, at two limits, or on both sides, beside another order; volumes are modulo 4 with sizes 1 and 3, so totals wrap up and down |
| `book_unique` | `BookMirrorsIndex`, refinement `ImplementsLiveOrders` under the disciplined caller | three ids, so a limit can lose one of several orders and still be best |
| `collector` | `TypeOK`, `BooksWellFormed`, `BooksFollowVenue`, `PublishedIsTop` | two symbols and an unknown one, two ids, two prices, both sides; the venue does three things, two messages are in flight and a refresh has up to two entries: enough to rename, move and repeat an id within a message and across a reconnection, and to meet every stray message |
| `gateway` | `TypeOK`, `OnlyTheOwnerIsTold`, `RouteFileCurrent`, `LookupFindsOwner` | two strategies and two connections (one each, or one strategy twice), every kind of strategy message, a request of each strategy of which one does not parse, one report, a crash at any step with a file store, both threads racing |
| `flow` | `DatabaseFollowsVenue`, `QueuedReportIsServed` (liveness) when the threads do not overlap | an order, its replacement, a cancel of the replacement, an execution at any moment, four reports; the strategy keeps its socket busy, without end, with messages that need no answer |
| `flow_faults` | `NoFalseTrades`, `ReplacementRecordedFirst` with all interleavings and faults | an order and its replacement, one crash of the gateway, one end of the serializer, one throwing statement, mixed parts |
| `itch_receive` | `BytesInOrder`, `PacketsAreMessages`, `BlocksOnlyOnLongPackets`, `MessagesArrive`, `RecvPacketReturns` (both liveness) | blocks of four bytes, messages of two and five, pieces of up to three, reads of up to four, 16 bytes in all: the ring wraps, fills up and grows in every position, and a message needs two reads |
| `itch_session` | `EachMessageOnce`, `ClosedIsRestarted`, `QueuedIsHandled` (both liveness) | two dispatchers, two packets of five kinds, whole and cut short, two sessions |
| `replay` | `ReplaysInOrder`, `OnlyOddLineMissing`, `ReplayEnds`, `PumpStops` (both liveness) | two clients, two logons, logs of three and four lines with and without a line that holds no message |
| `ib` | `DeliveredInOrder`, `PublishedIsCurrent`, `MixedIsMended`, `EverythingDelivered`, `BrokenIsRetried` (both liveness) | every message type in the versions that differ, each followed by a tick; reads of any length up to 25 fields; two attempts |
| `startup` | `RunsOnAcknowledgedVersion`, `EverySymbolRequested`, `StartupEnds` (liveness) | nine setups (both programs, with good and with refused settings, local and remote configuration), a file with three versions out of four contents or none, one end of the server, two starts |

A run that shows a disagreement between the code and its comment:

| run | property | what the trace shows |
|---|---|---|
| `flow_reject` | `RejectedIsTerminal` | the status of a rejected new order is set under an OrigClOrdID its report does not have, so the row stays NEW, although the comment (`trade_serializer.cpp:812`) says "just update the status to a terminal state" |

Other places where the code does not do what it says, seen while modelling. The models have
these behaviours, and the properties are stated so that they are outside or an outcome:

* `toApp` looks for PossDupFlag in the body instead of the header, so an order stored while
  logged out goes out as a possible duplicate at the next logon (`order-fix/application.cpp:243`:
  "Don't send potenially duplicate requests");
* the order cache is not persisted: after a restart the report on an earlier order carries
  the null strategy id, and the assertion at `msg_processor.cpp:299` ends the debug build;
* a report that arrives during `MsgProcessor::init` passes the test of `_pMsgProcessor` and
  uses a reply socket that does not exist (`order-fix/application.cpp:960`);
* both gateway threads write the parts of their messages to one socket: mixed parts book a
  trade under another strategy or under none (`trade_serializer.cpp:891`);
* a lookup in the order cache that meets an insertion of the other thread may miss the order or end the process,
  and the report then has no owner (`msg_cache.h:292`; `order-fix/application.cpp:739`: "lookup order id
  to fetch strategy id");
* a full ring that is wrapped, or one whose wrapped part is longer than the space added, loses or
  moves bytes when it grows (`ExpandableRingBuffer.cpp:61`), and the search for the terminator in wrapped
  data starts at the wrong byte (`ExpandableRingBuffer.cpp:180`), so that a packet handed out may be no message
  (`Socket.h:36`: "Retrieve a full packet");
* `RecvPacket` does not look at the failure of its reads, so it stays in its loop (`Socket.cpp:309`) when the
  socket is closed (`Socket.h:37`: false "if the socket closes before the the packet is fully received"), and
  `Stop` waits for the server thread for ever;
* a packet that is cut short becomes a `ServerUnsupportedMessage` that keeps its type and is cast to the
  class of that type (`Session.cpp:408`); nothing calls `OnUnsupportedMessage`;
* the dispatchers may leave on the shutdown flag before the server thread queues its last message, although
  they "won't shutdown until all server responses are successfully processed" (`Session.cpp:224`);
* a replay session that logs out without having asked for data trips `assert(md)`
  (`replay_server/Application.cpp:149`); one that logs out during its replay may hold the FIX thread for
  ever, as the pump is stopped first and the dispatcher waits for its next line (`152`); a line without a
  FIX message makes the dispatcher send an earlier one again; the last line of an odd
  number is not sent;
* `eConnect` returns true behind "successfully connected" (`EPosixClientSocket.cpp:83`) also when TWS is too
  old or the connection has broken; after a failed `eConnect` `main` waits for ever
  (`Main.cpp:40`), and after an orderly close it reads for ever;
* `parse` never returns false, so a refresh is never answered with ERROR: it succeeds, also
  with no file, or ends the server (`configuration_server.py:61`); a running process never learns of a refresh;
* symbols behind an empty line of the symbol file are requested and get no book
  (`md_parser_qf.cpp:169`, `189`), an empty file passes the check for symbols
  (`md_fix.cpp:581`), and a FIX version that is not compiled in is noticed at logon only.

How far the properties reach. `LookupFindsOwner` is about every lookup that no insertion disturbs, with
the threads overlapping in every other way. `PacketsAreMessages`, `BlocksOnlyOnLongPackets`,
`MessagesArrive` and `RecvPacketReturns` hold until the data first wraps, `BytesInOrder` until a growth has lost
bytes. `QueuedReportIsServed` is checked while the threads do not overlap. `ClosedIsRestarted` holds when the close does not
catch the server thread in `RecvPacket`'s loop, and `QueuedIsHandled` as long as a dispatcher is there.
Further: when the insertion of a replacement throws, `updateOrder` still cancels the replaced order, which is
why `ReplacementRecordedFirst` is stated for executions without a throwing statement; a book to
which an id was added twice shows the old size in `getOrder` after a successful modify, which is why
`BookMirrorsIndex` is stated for the disciplined caller; a crash between the truncation of the route
file and its close loses the routes, which is why `RouteFileCurrent` leaves out the HELO.

Deadlock is checked in the book runs only: every other behaviour is bounded by the number of
messages, connections, requests, reports, logons, starts and crashes, and the system really stops when
they are used up (the interactive brokers collector when its attempts are). The bounds are constants with `Max` in their name.
`MaxPending` bounds the messages of the strategies that wait, and those at the inproc socket when a strategy
asks for an acknowledgement. `MaxFrames` is how many frames an orphan leaves there: in
`gateway` and `flow_reject` two, all there can be; in `flow` and `flow_faults`, whose states are many, none. What is at
that socket never reaches the serializer, and each leftover frame is one more message that the
poll loop serves in turn.

**Fairness.** Weak fairness of threads and processes, which the operating system schedules and
which wait for nothing but what the guards of their steps say:

| run | fair | not assumed |
|---|---|---|
| `flow` | the gateway's main thread and its FIX thread | that a dead process restarts, that a strategy sends or falls silent, that the venue answers |
| `itch_receive` | the server thread; strongly, that `select` finds bytes that are on their way: the network delivers them some time, so it cannot time out for ever instead | that the venue sends |
| `itch_session` | the main, server and client threads, each dispatcher | that the venue sends or hangs up |
| `replay` | each pump, each dispatcher, the joins of the FIX thread | that clients log on, ask or log out |
| `ib` | the one thread of the collector | anything of TWS |
| `startup` | each process on its way up (`zmq_poll` returns after its timeout) | anything of the server |

The liveness properties have the death of the process, or the loss of the connection, as an
outcome where the code has.

## 4. Proofs

`OrderBookProofs`, for every set of ids, prices and sizes and every volume modulus:

* `BookCorrect`: under any caller, `BookTypeOK`, `IndexConsistent`, `NoEmptyLimit` and
  `RemoveNeverFaults` always hold. `RemoveNeverFaults` alone is not inductive: that a removal finds
  its limit and its order there is `IndexConsistent`, and that the limit of another order
  is not erased needs both it and the types. The inductive invariant is their conjunction
  (`BookInv` with no fault). One lemma per method shows that it preserves `BookInv`.
* `UniqueIdsMirror`: with ids that are not repeated, index and trees
  say the same, so that `getOrder` shows what is queued. The inductive invariant `UInv` adds
  that every queued order is the indexed one and that index and limit share the object.

* `TopOfBookCorrect`: under any caller `VolumeIsSum` and `BestPriceIsBest` always hold. Every
  limit holds finitely many orders and their total modulo `VolMod` (`BookSums`), which each
  method preserves because a sum over a finite set changes by the order added or removed;
  the first lemmas of the module are these facts, and those on maxima and minima, by the
  argument from the least counterexample.
* `BookImplementsLiveOrders`: under the disciplined caller the book implements `LiveOrders`:
  the initial book maps to no orders, and every call to a step of the live orders or to none.
  That `bestPrice` and `bestPriceVolume` are the top of those orders rests on `Exact`
  (`LimitsAreOrders`: a side has a limit at the prices of its orders, each with the orders of that
  price) and on `BookSums`.

`OrderProofs`, of the gateway, for every number of strategies, orders, connections, reports and
crashes, both builds and both stores:

* `GatewayCorrect`: `TypeOK`, `OnlyTheOwnerIsTold` and `RouteFileCurrent` always hold with
  both threads racing. The invariant `GInv` has seven named parts: where the process is
  when its threads are busy (`LifeInv`); every cached or filed route was given to that
  strategy, and a live connection has the identity it was given (`RouteInv`); what the
  queues, the main thread and the FIX thread carry (`QueueInv`, `MainInv`, `FixInv`); every
  cached owner is the owner of that request (`OwnerInv`); and what the session holds
  (`SessionInv`). Identities are never reused, which is what makes an old route file harmless.

* `LookupsFindOwners`: `LookupFindsOwner` always holds, with the threads overlapping in every
  way, through crashes, file stores and resent orders: a lookup finds the owner of an order
  this process has handed to the venue, unless it meets the insertion of another order. The invariant `LInv`
  follows each request: it waits once, nothing is sent under its id while it waits
  (`PendingInv`, with `GoneInv` and `UniqueInv` in `UInv`), and an order is in the cache before it is sent and stays
  there while the process lives (`CachedInv`), so an order that is being inserted is none that was sent.

`OrderProofs`, of the order flow, for every number of strategies, orders, executions, failed statements and
crashes, with the gateway's threads running at once:

* `TradesAreExecutions`: `NoFalseTrades` always holds when the session forgets its queue in a
  crash (`~FileStore`, the setting of the run). The property is about the table only; the
  invariant `TInv` follows the report of an execution through five places - the session's queue,
  the unflushed parts of the socket, the wire, the statements of the serializer, the table - and says
  that it is genuine in each (`Genuine`) and in one place at one position only (`Once`). The report
  leaves the queue when the last part of its message is written, although the session drops it
  after the callback: with a file store a crash in between delivers it again, which is the
  hazard listed at `application.cpp:541`. That both threads write parts to one socket can
  put a report under another type, where it is not booked, but never duplicates it.

* `ReplacementFirst`: `ReplacementRecordedFirst` always holds, with and without a file store.
  The property compares a row with what the venue did, so the invariant `RInv` follows the
  news of a replacement between the two. Every report in transit - in the queue, in the
  hands of the FIX thread, among the unflushed parts or on the wire - tells of a cancel or a
  replacement that the venue carried out (`TrueReports`); a statement that marks an order
  CANCELLED may do so because the venue cancelled that order, because the
  row of its replacement exists under the same strategy id, or because the statement right before it,
  both still to run, inserts that row (`TodoInv`); and a row that is CANCELLED is so for one of the
  first two reasons (`RowsInv`), which no later step takes back. That the row found is the one
  the property asks for needs that an order has one accepted replacement (`ReplacedInv`), and so
  that the venue deals with a request once (`TakenInv`). For that the request must be sent
  once, which is the part of the invariant shared with `LookupsFindOwners` (`UInv`).

* `DatabaseFollows`: while the threads do not overlap (`FlowSpecNoOverlap`), and until a process
  ends or a statement throws (`Faultless`), `DatabaseFollowsVenue` holds. Both conditions are
  needed: overlapping threads put parts of two messages together, and what a crash takes with it
  is not sent again. So is `OwnOrders`, that a strategy cancels or replaces orders of its own:
  the gateway does not check it, and the cancellation of another's order would update a row that
  does not exist. Order ids are UUIDs made by the strategies, and by `GatewayCorrect` nobody
  else is told of them. The property speaks of a quiet system only; `DataInv` is what makes it
  true whenever things become quiet. An order the venue took, an ending of one and an execution
  is in the tables or said by a message still on its way (`InsertInv`, `StatusInv`, `BookInv`); a
  message marks an order only as it ended, under its owner, and behind the insertion of the
  order, since an update without a row is lost (`RightInv`); and a row is new or shows the end of the order
  (`RowInv`). The way has places in an order - statements read, messages on the wire, in the
  hand of a thread, in the session's queue - and each step of the gateway or the serializer
  moves messages along it without one overtaking another (`Moves`, `Streams`), except that a new
  order joins in the middle. For that the threads take turns, what is not flushed is the
  beginning of the message of the one at work (`TurnInv`), and the wire is whole messages
  (`WireInv`), so the serializer reads each as it was written. That an execution has one row, and not two,
  is `TradesAreExecutions`.

`MdCollectorProofs`, for all symbols, ids, prices and sizes, any stray messages, and both settings
of `new_replaces`:

* `CollectorCorrect`: `TypeOK` and `BooksWellFormed` always hold. The invariant `CInv` adds the
  types of the messages in flight, of the local variables of the handler and of the
  venue's quotes; each entry is a few calls that preserve `BookInv`.

* `BooksAreFollowed`, `PublishedTopIsVenues`: `BooksFollowVenue` and `PublishedIsTop`
  always hold, also for any number of messages in flight and of entries in a message. Both speak
  of quiet moments only, so the invariant `FInv` says what they leave open: during a session
  without a stray message, what is pending for a symbol - the entries left of the message
  being worked through, then the messages in flight - leads, entry by entry, from the orders its book
  holds to the quotes of the venue (`Follows`), each entry fits the quotes it meets
  (`Fits`), every message is about one symbol and has its ids in one field (`Regular`), every
  book is exact, and of a symbol that is not being worked on the last broadcast is the top of its book
  (`PublishedInv`). That a book moves under an entry as the quotes do is `EntryFollows`.

`ItchReceiveProofs`, for every block size, set of messages, size of a read and division of the
stream:

* `BytesStayInOrder`: `BytesInOrder` always holds. The inductive part `BytesInv` adds
  that the ring is a ring (`IsBuffer`) and that wrapped data is remembered; the lemmas say
  what each operation of the buffer does to its contents, growth included.
* `PacketsAreFramed`, `BlockingIsRare`: until the data wraps, `PacketsAreMessages` and
  `BlocksOnlyOnLongPackets` hold. `FrameInv`: the undelivered bytes are whole messages up to
  the one that is arriving; what has been read of a packet has no terminator in it and is a
  multiple of `MaxRead` long; and when `RecvPacket` runs, a terminator is in the buffer.

`ItchSessionProofs`, for every pool of dispatchers, set of packets and number of restarts:

* `MessagesAreHandledOnce`: `EachMessageOnce` always holds. A message is new when it is
  received (`IdInv`), a thread holds one just in the states that say so and no thread of an
  earlier session is left when one starts (`ControlInv`), and the places are disjoint and
  without repetition (`PlaceInv`), or a message could move to where it already is.

`ReplayServerProofs`, for every number of clients, every log and every logout:

* `ReplayIsInOrder`, `ReplayIsComplete`: `ReplaysInOrder` and `OnlyOddLineMissing` always
  hold. What has been sent is the market data of the lines taken from the slot so far, up to the
  pair in hand (`PairInv`); a line in the slot has not been taken, and the end of the log is
  the last thing put there (`SlotInv`).

`StartupProofs`, for all files, setups and numbers of processes:

* `AcknowledgedVersionRuns`: `RunsOnAcknowledgedVersion` always holds. The server's configuration
  is what one version of the file says, not older than the last acknowledged refresh (`ServerInv`);
  a reply is what a version says that is not older than what was acknowledged when
  the process asked, and only a process that waits has one (`WaitInv`), or an answer to a process
  that has gone could configure the next. `VenueFound`: what `get_venue_config` finds in the venues
  of a file is the first section of the MIC.
* `SymbolsRequested`: `EverySymbolRequested` always holds, for every symbol file and every FIX
  version that is compiled in. `WantedInOrder`: the loop over the lines keeps those that are not
  empty, in their order, shown by induction over the lines read (`UpTo`); `RequestsAsk`: one
  request with all of them and one request for each ask for the same. Over the logons, `AskInv`:
  every book is for a line before the first empty one of the file the process was started with.

`IbClientProofs`, for every script of whole messages, every version of TWS, every size of a read
and every break of the connection:

* `Delivered`: `DeliveredInOrder` always holds. A message's size and its calls are functions of
  its fields that read none behind the message, whatever its id, version, counts and flags
  (`SizeAgrees`, `CallsAgree`, with a lemma for each family of messages); so `processMsg`
  takes the front of a buffer for a message exactly when the whole message is there, and makes of it
  what it would of the message alone (`NextMessage`). That is half of the argument. The other is
  the invariant `IInv`: what TWS sends in a connection is one stream of fields, in which the i-th
  message ends at `EndsAt(i)`; buffer and wire hold the stream around the place that has been read
  (`Wired`), and `checkMessages` stands behind a whole number of messages, has made the calls of just
  those, and when it returns the next one is not whole (`Parsed`). Before the acknowledgement
  is processed nothing behind it has been (`Waiting`), and an acknowledgement answered on a broken
  connection leaves `m_connected` set with nothing read (`Dead`).
* `Published`: `PublishedIsCurrent` always holds. `Quoted` says of the messages processed
  so far what the property says when `checkMessages` has returned. It is kept because what was published
  last is the current best bid and offer or nothing, and because no tick comes before the
  subscription that makes room for it (`Asked`): TWS has had all four requests when it sends one,
  and main sends the last of them when it makes the entry of `contractPriceMap`.
* `Mended`: `MixedIsMended` always holds. A message makes one broadcast, of the quotes after it, or two,
  the price and then the size, of which the second is whole: so every broadcast is whole or has a whole one right
  behind it, and what was broadcast before a connection ended is not taken back.

The proofs rest on the assumptions named in the modules: `KBookAssumption` (prices between the
two sentinels, sizes below the modulus), `GatewayAssumption` (distinct null ids; one request per order
id, which are generated UUIDs), `CollectorAssumption` (distinct null ids, finitely many ids,
well-typed messages), `ReceiveAssumption` (messages are non-empty byte sequences that end with their
only terminator; what a lossy growth leaves behind is none of their bytes), `FlowAssumption`
(the reports are those of the venue),
`StartupAssumption` (files are sequences of sections, symbol files sequences of lines; no FIX
version is compiled in that there is no code for), `ScriptsAssumption` (TWS sends whole
messages: each has as many fields as its id, its version and the server's version call for; the
scripts of the run are counted by hand from the cases of `processMsg`), `SessionAssumption` (a
finite pool, which is an array in the code; the packet inside a sequenced packet is shorter by
its header) and `ReplayAssumption` (logs are sequences of lines).

Only model-checked: the liveness properties, since fairness is out of the prover's reach, and the
counterexample of `flow_reject`. Every safety and action property of the passing runs is a theorem.

## 5. Not modelled

Times recorded in orders and limits, printing and logging; the ping thread of the gateway
(it shares nothing); the callbacks that only log (business rejects, list and session
status) and the stubs for other FIX versions; `handleRecovery` and the position queries of
the serializer, which are never called; order books v1 and v3; symbol validation. Of
the collector, one that is configured not to publish. Of interactive
brokers, the requests of the library that the collector never makes, and the FIX collector,
which its README says does not work. `get_config_params`, which the gateway calls, is in no
file of the repository: `Startup` takes it to do what `readConfigServer` does. The
aggregator is described next.

The aggregated book cannot be reached at this commit: `OrderBookListener::run`
dereferences the global `bcast_sock` (`aggregated_book.cpp:271`, declared in
`aggregated_book.h:100`), which nothing assigns, before it receives its first update.

## 6. Plan

1. `OrderFlow` with a file store: redelivered reports and the trades booked for them.
