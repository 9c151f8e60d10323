# Verification of DCP

TLA+ models of the stateful core of the Development Context Protocol server
(`src/src/`), the TLC configurations that check them on small instances, and
TLAPS proofs of the properties that carry over to every instance.

DCP is a Rust library and server: a binary protocol with multiplexed streams,
request pipelining and zero-copy chunk streams, a TCP server, sessions, graceful
shutdown, and a compatibility layer for MCP (JSON-RPC over SSE, stdio and TCP).
Most of its code formats, parses or renders data. What can go wrong in ways that
a unit test hardly reaches is in the parts that several tasks share: counters
beside flags, tables beside counters, locks taken one after the other, checks
that are stale when they are used. Those parts are modelled first.

## 1. Inventory

| Component | State it keeps | Operations | What is hard about it |
|---|---|---|---|
| Graceful shutdown (`shutdown/`) | flags `initiated` and `shutdown`, counter `in_flight`, a broadcast channel | `shutdown`, `request_start` and its guard, `increment/decrement_in_flight`, `wait_drain`, `ShutdownLogger`, `wait_for_shutdown` | a flag and a counter handshake without a lock; a drain that must not end too early nor hang |
| Multiplexed connection (`multiplex/connection.rs`, `header.rs`) | map of streams under an RwLock, one Mutex per stream, `stream_count`, `next_stream_id` (u16), bounded send queue, `closed` | `open_stream`, `accept_stream`, `send`, `recv`, `close_stream`, `reset_stream`, `stream_status`, `process_frame`, `take_frame`, `close` | counts, map and queue change in separate critical sections; id wrap; lock order; full queues half way through an operation |
| Request pipelining (`multiplex/pipeline.rs`) | table of pending requests, counter `in_flight` | `send`, `send_batch`, `process_response`, `process_error`, `cancel_all` | check-then-act on the limit; responses, resets and cancellations that meet a send in progress; roll-back |
| Chunk stream (`stream/`, `binary/stream.rs`) | ring buffer with two positions and a space counter, sequence numbers, running hash, `write_lock` | `write_chunk`, `read_chunk`, `reset`, `push`, `pop`, `peek`, `clear` | lock-free single-producer single-consumer ring; two pushes per chunk; wrap-around |
| TCP server (`transport/tcp.rs`) | connection map, semaphore, `running`, broadcast channel | `run`, one task per connection, `shutdown` | the loop selects between clients and the signal; permits must follow connections; forced shutdown |
| Sessions (`server/mod.rs`) | table of `Arc<Session>`, id counter, per-session data and activity time | `create_session`, `get_session`, `set_data`, `touch`, `upgrade_session`, `remove_session`, `cleanup_expired_sessions` | an upgrade replaces the object others hold; limit checked and used in two sections; wrapping time arithmetic |
| MCP adapter (`compat/complete_adapter.rs`, `capability/manifest.rs`, `compat/request_replay.rs`) | life-cycle flags, negotiated manifest, tool, prompt and resource tables, replay guard, audit log | `register_*`, `handle_request` and one handler per method | every field has a lock of its own, so a request sees the fields at different times; two `initialize` at once; replays |
| Legacy adapter (`compat/adapter.rs`) | two tool tables, manifest, replay guard | `register_tool`, `handle_request`, three handlers | threads that call with equal ids |
| Tool arguments (`compat/complete_adapter.rs`, `protocol/schema.rs`, `dispatch/handler.rs`) | none | encode, validate, read | three pieces of code compute one layout |
| Signed calls (`dispatch/router.rs`, `security/replay.rs`) | nonce store | `execute_signed_authorized`, `check_nonce`, `cleanup_expired` | expiry against replay, a full store, permissions that change |
| MCP services (`compat/mcp2025.rs`, `resource/mod.rs`) | pending elicitations, tokens and their states, progress, subscriptions and callbacks, roots | `create`/`respond`, `cancel`/`complete`, `subscribe`/`unsubscribe`/`notify_change`, `add_root`/... | answers racing timeouts, dropped futures, two tables with a lock each |
| Transports (`compat/sse.rs`, `compat/stdio.rs`, `bin/dcp.rs`, `transport/framing.rs`) | event buffer and id counter, POST queue, line and frame buffers, the stdio session | format and replay events, queue and take POSTs, read lines, decode frames | fragmentation, limits in number and bytes, cursors that are too old or too new |
| Formats (`compat/json_rpc.rs`, `binary/`, `protocol/parser.rs`), delta sync (`sync/delta.rs`), context (`context/mod.rs`) | none; slots per tool | parse, format, sign, diff, apply; set, update, clear | one encoding per value; deltas out of order; a slot marker that is also a tool id |
| Observability, reactors, conversion, benchmarks, client libraries | counters, OS handles | | thin wrappers and I/O |

How they interact. The TCP server accepts a connection and hands it to a handler;
a handler decodes frames and drives a `MultiplexedConnection`; `PipelinedClient`
sits on top of a connection and owns one stream per request; `DcpStream` is used
by the application on the payloads. `DcpServer` holds sessions, router, context
and audit log and is called from handlers. A transport (stdio, SSE, TCP) takes JSON
texts apart with the JSON-RPC parser and hands them to an adapter, which asks the
router to run a tool and the resource registry to read. The shutdown coordinator is consulted
by whoever admits work; signal tasks call it. The components share nothing else,
so each is modelled with the others at its boundary.

The behaviours that are hard and were modelled: every interleaving of the atomic
accesses and critical sections of several tasks; peers that reset, answer or stay
silent at any time; full queues and buffers; id and counter wrap; deadlines that
pass at any moment; a handler that never ends; futures dropped where they wait; input
that arrives in arbitrary pieces; calls and deltas that are repeated, lost or late.

PROJECT.json lists every component, the modelled and the others with the reason,
and every hazard with its line and the property that watches it.

## 2. Modules

| Module | Models | State and actions |
|---|---|---|
| `DrainGate` | what graceful shutdown promises (abstract) | a gate that closes for good, the work inside, the verdict "drained" |
| `ShutdownCoordinator` | `shutdown/mod.rs`, `signals.rs` | one action per atomic access; `req` is the program counter of a guarded request or a manual caller, `sig`, `drain`, `logger`, `wait` those of the other tasks |
| `MultiplexConn` | `multiplex/connection.rs`, `header.rs` | one action per critical section or atomic access; `pc`/`loc` of each task say which method it is in; `streams` maps ids to stream objects so that a task can hold an object that has left the map; an entry of the send buffer is the task that pushed it; `late` counts the error paths that found their stream gone |
| `PipelinedClient` | `multiplex/pipeline.rs` over the methods of the connection | one action per access to the table, the counter or the connection; the peer is external |
| `DcpStream` | `stream/dcp_stream.rs`, `ring_buffer.rs`, `binary/stream.rs` | bytes are pairs of chunk and offset, so that a misplaced byte is seen; `wpc`, `rpc`, `xpc` are the program counters of writer, reader and reset |
| `TcpServer` | `transport/tcp.rs` | the accept loop, one program counter per connection task and per `shutdown()` call |
| `SessionTable` | sessions of `server/mod.rs` | session objects, the table that points at them, one action per critical section |
| `Manifest` | `capability/manifest.rs` | bit sets as words, `Intersect` and the checks (no state) |
| `McpAdapter` | `compat/complete_adapter.rs`, `request_replay.rs`, the audit log and the registry as it uses them | `pc` of each task; a handler is one action where it holds what it reads, and several (`Initialize`, `InitializeVersion`, `InitializeOffer`, `InitializeGrant`; `ToolsCall`, `ExecuteCall`; `ResourceCapability`, `ResourceRoots`, `ResourceApply`) where it gives up a lock; registrations with the refusals they have, of which only that of a tool leaves a receipt |
| `LegacyAdapter` | `compat/adapter.rs` | set-up, then threads; a call is two actions, up to the replay guard and the execution |
| `Arguments` | the argument encoder of the adapter, `protocol/schema.rs`, `dispatch/handler.rs` | operators for encoder, validator and reader; one action that makes a call |
| `SignedRouter` | `dispatch/router.rs`, `security/replay.rs` | `Present` is one signed invocation with any verdict of the cryptography; `CleanupExpired`, `Renegotiate`, `Tick` |
| `Elicitation` | `ElicitationHandler` of `compat/mcp2025.rs` | one action per lock, channel or timer step of `create` and `respond`; `Abandon` drops the future |
| `Cancellation` | `CancellationManager`, `CancellationToken`, `ProgressTracker` | tokens are objects that workers and cancellers hold; the state and the reason change in two steps |
| `Subscriptions` | `ResourceRegistry::subscribe` and the like, `SubscriptionTracker`, `RootsRegistry` | one action per lock; `DropCall` drops a future between two locks |
| `SseTransport` | `compat/sse.rs` | taking an event id and buffering the event are two actions; the POST queue |
| `StdioServer` | `compat/stdio.rs`, `run_stdio_mode` of `bin/dcp.rs` | the bytes of stdin as symbols, cut anywhere, with an I/O error wherever more is asked for; the session of the loop |
| `MessageChannel` | what the stream and the frame codec promise (abstract) | messages given and taken, and whether the channel has broken |
| `FrameCodec` | `transport/framing.rs` | a sender, a wire that fragments, a receiver that clears its buffer at an error and goes on; `received` and `ferror` record what `decode` returned up to its first error |
| `JsonRpc`, `BinaryRecords` | `compat/json_rpc.rs`; `binary/`, `protocol/parser.rs` | parsers and formatters as operators, one step per input; the size of a text that is written is any of `WrittenSizes`, whatever that of the text that was read |
| `Delta` | `sync/delta.rs` | sender, receiver and the deltas under way |
| `Context` | `context/mod.rs` | the slots; history of what was set last |
| `Queues` | what the queues of the code have in common | `Without` (`retain`) and `Total` (the sum of the queued sizes), as recursive functions that the proofs can expand |
| `ShutdownProofs`, `MultiplexProofs`, `StreamProofs`, `TasksProofs`, `ServiceProofs` | | theorems and their proofs |
| `TransportProofs`, `ProtocolProofs` | | theorems about `TcpServer`, `FrameCodec`, `JsonRpc` and `StdioServer`; about `McpAdapter`, `Delta`, `Arguments` and `BinaryRecords` |
| `Lemmas` | | what several proofs need: remainders, least and greatest elements, sequences that a step computes from the one before, concatenation, replay windows, `Without` and `Total` |
| `MC*` | | instances for TLC |

Abstractions. Payloads are lengths or (chunk, offset) pairs; header encoding is
the set of frames that pass `validate_frame_shape`, with one malformed frame for
the rest; error values, logs, metrics and byte statistics are left out; time is
"the deadline has passed" or a small clock. `PipelinedClient` takes a method of
the connection as one step where `MultiplexConn` has its inner steps: the only
state they share is the send queue and the stream's status, and both are changed
by one critical section of the method. `ResetStream`, `close` and the removal of
streams follow the code's order of locks, because `OpsReturn` is about it.

In the MCP layer a message is a record of what the handlers tell apart: its method, the
class of its id, the name it asks for, whether its params have the right form, and
whether its arguments fit. A JSON text is its size, its syntax, its shape and the class
of each field. What serde_json, std's UTF-8 decoder, Ed25519 and Blake3 do is an input
(signatures, hashes) or is marked external in the map.

Memory model. The models are sequentially consistent. That is what the source
asks for where it uses SeqCst or locks; `in_flight` of the coordinator is accessed
with AcqRel/Acquire only and the ring's positions with Acquire/Release, so
reorderings that a weak memory allows between these and other variables are not
covered.

Contract of the ring. `StreamRingBuffer` is written for one producer and one
consumer. Producers are serialised by `write_lock`; the model has the consumer call
`read_chunk` and `reset` one after the other, as `reset()` moves the read position.
`reset()` does run beside a writer, because it does not take `write_lock`.

Mutants. Definitions marked "Mutant" are the ways in which the code might plausibly
be wrong. They are part of no specification; PROJECT.json pairs each property with
one that breaks it.

## 3. Runs

TLC finishes the longest of these runs (`mux_live`, `tasks`, `blocks`) with two workers in two
to three minutes. `shutdown`, `tasks` and `blocks` are about several components that have no
state in common: a behaviour is about one of them, chosen at the start, so that the state
spaces add up instead of multiplying, and each property is checked as in a run of its own
(`MCShutdown`, `MCTasks` and `MCBlocks` put the specifications together).

| Run | Instance | What it shows |
|---|---|---|
| `shutdown` | 1 guarded request, 1 manual caller, 2 signal tasks, 1 drainer, logger, 1 waiter; each may call again and again; or a TCP server with 2 slots, 2 clients and 2 calls of `shutdown()` | `InFlightExact`, refinement of `DrainGate` (and with it `DrainSound`); with fairness `WaitsEnd`, and `ShutdownReturns`: `shutdown()` returns and the loop stops |
| `mux` | 2 tasks; ids {0, 1} with 2 streams and no payloads, or 1 stream with payloads in one direction, receive limit 2 and queue of 1 (the constraint `Focus`) | `CountExact`: the count follows the map around the id wrap, but for the late error paths; `SendBufferExact`, `RecvAccounting`: buffers are accounted for; `StatusMonotone`; `CloseEmptiesMap`: no stream outlives `close()` |
| `mux_live` | 2 tasks; `open_stream`, `send`, `reset_stream`, `stream_status`, `process_frame` and `close()`; strong fairness | `OpsReturn`: no cycle of locks |
| `mux_close` | 2 tasks, open and close | **violation** of `CloseClears` (finding 1) |
| `mux_count` | 2 tasks that process inbound frames, queue of 1 | **violation** of `CountIsCurrent` (finding 2) |
| `mux_send` | 2 tasks, open and send, queue of 1 | **violation** of `BufferHoldsQueued` (finding 3) |
| `tasks` | a TCP server with 2 slots, 3 clients and 2 calls of `shutdown()`; or 2 tasks and one of: a table for 1 session with 3 objects, 2 seconds and timeout 1; a client with limit 1, queue of 2, 3 requests and a resetting peer; an adapter with 5 messages out of 24 kinds and one change by the application, or 4 and 2 (the constraint `MessagesOrChanges`), manifests of two words, a policy, 2 resource handlers, replay window and audit log of 1 | `NoResurrection`, `DataPreserved`, `ActiveSessionKept`; `RequestsAccounted`, `InFlightExact`; `OnlyGranted`, `OneNegotiation`, `ReplayWindowHolds`, `ReceiptsComplete`; `PermitsExact`, `DrainedBefore` |
| `pipeline_reset` | the client with 2 requests and resets only | **violation** of `InFlightMatches` (finding 4) |
| `stream` | ring of 4, header 3, payloads 0 and 1, 3 chunks, 1 reset | chunks arrive whole and in order across the wrap; every byte of the ring is accounted for; refinement of `MessageChannel` |
| `stream_torn` | ring of 4, header 2, payloads up to 2 | **violation** of `WriteAtomic` (finding 5) |
| `blocks` | 16 parts that share no state, one per behaviour, each with bounds of its own (below) | one property per part and two for elicitation, see PROJECT.json |
| `tool_arguments` | schemas of two fields, the second optional | **violation** of `EncodedIsValid` (finding 6) |

The parts of `blocks` and their bounds: elicitation (2 calls, 3 responders), cancellation (2
workers and 2 cancellers on 2 ids, equal or not), subscriptions (2 callers, 1 notifier),
tracker (limit 2, 3 subscribers), roots (channel of 2, 4 changes), events (2 writers, buffer
of 2, 5 events), posts (4 posts of 9 kinds, limits 2 and 3 bytes), stdio (streams of up to 4
lines cut in every way, limit 4), json (some 2300 texts, size limit 1, written texts of size 1
and 2), frames (3 messages, lengths of two
ternary digits, limits 3 and 4, one message too long for the length field), signed (6
invocations, store of 2, window 2, clock to 6), arguments (all schemas of up to two fields
of 8 kinds and two whose fields overlap, values of 7 kinds), delta (3 deltas over 5 states,
runs longer than a pair), legacy (2 threads, 3 messages of 14 kinds, window of 1), context
(2 slots, 4 tools of which one has id 0, 5 calls), records (every byte of every record
changed). A behaviour runs one part, so the state spaces add up instead of multiplying.

Why the bounds are enough. Every race these components have is between two tasks
that execute a few steps each; a third party is added where the code has one (the
peer, the socket writer, the clock, a waiter, the application). Queues of one or two
entries make "full" and "not full" both common; id spaces of two wrap after one stream;
rings of four bytes wrap inside a header and inside a payload; clocks pass the timeout; a
replay window of one forgets after two calls; a bit set of two words of two bits has a word
boundary. The unbounded counters are capped by constants named as bounds in the modules
(`MaxOpens`, `MaxSendBuffer`, `MaxRequests`, `MaxSends`, `MaxChunks`, `MaxResets`, `MaxAttempts`,
`MaxObjects`, `MaxClock`, `MaxChanges`, `MaxEvents`, `MaxPosts`, `MaxNotices`,
`MaxSubscriptions`, `MaxRootChanges`, `MaxSent`, `MaxNow`, `MaxDeltas`, `MaxLegacyTools`,
`MaxLegacyRequests`, `MaxContextOps`); when they run out the system stops, and the
configurations concerned do not check for deadlock. In a composed run the check is off if
one of its parts may stop: a server in `shutdown` and `tasks` whose clients have all come
and gone, an adapter in `tasks` without further messages. `mux` splits the bounds of the
multiplexed connection in three ways (two streams without payloads, or one with data going out
or coming in), because all methods with all bounds exceed what TLC finishes; opens, accepts,
`close_stream`, inbound frames and `close()` are in all of them.

`mux_live` has one method of each pattern of locking, as liveness over all of them is out of
TLC's reach: `recv` and `close_stream` look a stream up and wait for its lock once, as
`reset_stream` does, and `accept_stream` is called by `process_frame` for a SYN. A cycle of
locks among these would need a pattern that the six methods in the run do not have.

Fairness. A task that is inside a method runs on (weak fairness of its steps): no
method blocks except on a lock, a full wait or a sleep. Tokio's Mutex and RwLock
serve waiters in order, so a task whose lock becomes free again and again gets it
(strong fairness of a task's steps in `MultiplexConn`). `select!` polls its branches
in random order, so the shutdown branch of the accept loop is not passed over for
ever (strong fairness of `RunBreak`). Deadlines pass. The consumer of a stream keeps
reading. The runtime polls a `create()` whose channel or timer is ready (weak fairness of
`CreateStep`). Nothing is assumed of clients, peers or handlers, and nobody has to call
`shutdown()`.

## 4. Proofs

TLAPS proves the following for every value of the constants. The assumptions are the ASSUMEs
of the modules: limits, windows and bounds are naturals, sets of tasks and threads are finite
where they are counted, and a value that marks "none" is not one of the values it stands in
for.

`ShutdownProofs` (finite, disjoint sets of callers):
* `TypeCorrect`, `InFlightIsExact` (`InFlightExact`), `DrainIsSound` (`DrainSound`),
  `NoLateAdmission` (`AdmissionClosed`), `GateRefinement` (`ImplementsGate`).
* Inductive invariant `SafeInv`: types, `InFlightExact`, `DrainSound`, and "the logger
  has read the flag as set only if it is set". `DrainSound` is not inductive alone:
  a load of zero means "nobody active" only because the counter is exact
  (`ZeroMeansIdle`), and a verdict stays right only because nobody becomes active
  once the flag is set (`VerdictsStay`). The step for each action changes the set of
  counted callers by at most one element, and the cardinality lemmas of
  `FiniteSetTheorems` turn that into arithmetic on the counter.

`MultiplexProofs` (a finite set of tasks, at least two ids, payloads that are not empty):
* `StatusesMoveForward` (`StatusMonotone`), `SendBufferIsExact` (`SendBufferExact`),
  `RecvBytesAreExact` (`RecvAccounting`) and `CountIsExact` (`CountExact`), for any number of
  tasks, streams and ids. All rest on `MuxInv`, whose heart is `StartingOwns`: between the
  moment `open_stream` or `accept_stream` makes a stream state and the moment it registers it,
  no other task, no map entry and no `close()` refers to it, so that the registration does not
  overwrite a stream in use. `SendBufferExact`, which is about the number of entries and not
  about whose they are (finding 3), then follows by counting the sends between their locks,
  and `RecvAccounting` from what appending to and taking from a queue does to its sum
  (`TotalProperties`). `CountExact` needs in addition that no object is under two ids
  (`CountTypes`) and a little arithmetic modulo a variable (`Division` to
  `RemainderAdd`), because the u16 counter wraps when a FIN removes a stream that its
  open has not counted yet. It holds until `close()` stores 0 beside opens under way. The
  error paths that uncount a stream which a FIN, or another error path, has removed and
  uncounted already are in it as `late` (finding 2): each takes one too many, and nothing else
  moves the count.
* `NoStreamOutlivesClose` (`CloseEmptiesMap`), from `CloseInv`: a stream that is in the map
  after `close()` has emptied it belongs to an open or accept which has not yet queued its
  frame, and will find the flag there and remove it (`CloseKeptOpening`).

`StreamProofs` (a positive capacity, a header that fits into it):
* `StreamTypeCorrect` and `SpaceIsAccounted`: for every capacity, header and payload
  length and any number of resets, `read_pos` never passes `write_pos`, and free,
  reserved, readable and passed bytes always add up to the capacity, so that no push
  overwrites an unread byte. The invariant says in addition what each party knows in
  the middle of its operation: the reader's and the reset's remembered positions are
  still the current ones, the writer's reservation is still its own.
* `ChunksStayIntact` (`IntactChunks`): the chunks read are the chunks written, in order, whole
  and with their own bytes, across every wrap. The invariant `ContentInv` says that there is a
  table `S` of the positions at which the chunks begin (`Chained`: each begins where the one
  before it ends), that every slot between the two positions holds the byte that `S` assigns
  to its position (`Holds`), and where in this layout the writer and the reader are
  (`WriterAt`, `ReaderAt`). What the writer copies cannot touch a slot that is still to be
  read because two positions less than a capacity apart are in different slots (`RingApart`),
  which is where `SpaceIsAccounted` is used.
* `StreamImplementsChannel` (`StreamIsChannel`): every step of the threads is a step of
  `MessageChannel` or none. Of the many steps of a write only the one that publishes the
  last byte gives the chunk (`WrittenGrows`), of those of a read only the last takes one
  (`DeliveredGrows`), and by `IntactChunks` before and after the step that one is the next
  in line. The channel adds to `IntactChunks` what a state cannot say: a chunk once
  published or returned stays so. A push that fails half way (finding 5) and `reset()`
  break the channel, and nothing mends it (`CalmBefore`).

`TransportProofs`, the TCP server (naturals for limit and number of clients):
* `TcpTypeCorrect`, `SlotsAreExact` (`PermitsExact` and `MapExact`), `ShutdownDrains`
  (`DrainedBefore`). `PermitsExact` needs `IdsFresh` (an id not handed out has no
  task), without which a spawned task could be one that is counted already;
  `DrainedBefore` needs `MapExact` and that a connection once started never looks
  unstarted again (`BeforeStarted`).

`TransportProofs`, frames, JSON-RPC and stdio:
* `FramesStayIntact` (`FramesIntact`), for any base of a byte above 1, any width of the length,
  any limits and any messages. The invariant `FrameInv` says that there is a table `S` of the
  places at which the frames of all messages begin (`Laid`), and that the buffer and the wire,
  one after the other, are just the frames of the messages not yet received (`Flows`), or that
  `decode` has returned an error, for a message over the receiver's limit (`Failed`). After
  that error the codec has cleared its buffer and goes on with what is fed next, which may cut
  frames out of payloads: the model does so too, and the property is about what came before.
  `encode` adds a frame at
  the end (`FlowGrows`), a read moves bytes but leaves the whole alone (`FeedKeepsFlow`), and
  what is at the front when a decode succeeds is a whole frame (`FirstFrame`), whose
  length reads back as it was written (`GetLength` of `PutLength`, digit by digit).
* `FramesImplementChannel` (`FramesAreChannel`): the same abstract channel, given a message by
  `encode` (`EncodeGives`) and relieved of the next one by `decode` (`DecodeTakes`), with
  nothing to see of what `feed` does. It breaks when a message is sent whose length the field
  cannot tell (section 5), and what `decode` returns after its first error is not counted.
* `EnvelopesReadBack` (`EnvelopeReadsBack`), for any set of texts, any size limit and any size
  of the text that is written. That size is not the size of the text that was read: a number
  may be written with more digits (`1e9`), and what `sanitize_text` puts into an error may be
  longer than what it takes out. So a text is read back as the same if it is within the limit,
  and is refused as `RequestTooLarge` if not (`ReadsBack`). The
  parsers are lists of checks in the order of the code, of which the first that fails is the
  error; the proof turns each list into the conjunction that it tests (`GoodRequest`,
  `GoodResponse`), and shows that what the formatters write satisfies it.
* `StdioServerFaithful` (`StdioFaithful`), for any stream, limit and cut into reads. The
  invariant `StdioInv` says that what has been handled and the line under way are what cutting
  the stream into lines gives for the bytes consumed (`InStream`, over `Cut`), whichever
  pieces brought them: a turn of `read_line_bounded` takes bytes of which only the last can be
  a newline (`Takes`), and a run of other bytes only makes the line longer (`CutRun`). At the end
  of the stream nothing is left (`SoFarExact`); a piece that is not UTF-8 inside a valid stream
  ends in a cut character (`PieceInvalid`), and a line that does not fit has more bytes without
  a newline than the limit (`TooLong`, `LastUnbroken`). `SessionKnown` ties the two flags of
  the session to the messages handled.

`TasksProofs` is about the sessions (assuming a clock that does not reach the end of u64) and
the pipelined client (a counter wider than the number of requests, a finite set of tasks):
* `SessionTypeCorrect`, `NoSessionRevived` (`NoResurrection`), `UpgradeKeepsData`
  (`DataPreserved`), for any number of tasks, keys and sessions. Neither property is
  inductive: a creation inserts its object in a later critical section than the one in
  which it took its id, so the invariant must say that this id belongs to no other
  creation, is not in the table, was never removed (`PendingFresh`, from `IdsBelow`: all
  ids in use are below the counter) and has no data recorded (`DurableKnown`).
* `SweepsSpareTheActive` (`ActiveSessionKept`, an action property): no task holds a time that
  is still to come (`TimesPast`), so that the age a sweep computes is not too large unless its
  subtraction wraps, which only a touch after the reading of the clock can bring about
  (`ExpiredIsOld`).
* `RequestsNeverLost` (`RequestsAccounted`): the invariant `RequestInv` follows a request
  through the tasks that may hold it. `SendsOwn`: a request is with one `send()` until its
  outcome is known; `ReadersOwn`: data for a request is queued, under way or being answered
  only if its `send()` succeeded; `Accounted`: a request whose `send()` succeeded is in the
  table, answered or with the task that answers or fails it, and one whose `send()` failed has
  left no entry, stream or frame.
* `InFlightStaysExact` (`InFlightExact`): counter and table change under no common lock; each
  step moves the counter, the table and the set of tasks in between by amounts that cancel
  modulo the width of the counter (`Pays`), until a request is taken off twice.

`ProtocolProofs`, the MCP adapter (any catalogue, policy, messages and number of tasks):
* `AdapterInvariant`, and from it `OnlyGrantedEver` (`OnlyGranted`) and `OneNegotiationEver`
  (`OneNegotiation`). What a handler hands out is checked in another critical section than
  the one in which `initialize` stored the grant. `NegotiationHeld` says that one
  task at most negotiates, that it does so for the request that claimed the session, and that
  nothing is granted before it is done; `NegotiationDone` that version and tools in force are
  both those of that request; `GrantsPermitted` that the grant is within request, registry and
  policy; `LifecycleKept`
  that whoever is inside a guarded method came after the handshake; `UsedKept` carries this to
  what was handed out. `Intersect` on words of bits is shown to be the intersection of sets.
* `ReplayWindowAlwaysHolds` (`ReplayWindowHolds`): the guard's queue is the last part of the
  history of recorded ids (`WindowInv`; `WindowSlides` and `NewIsSpaced` of `Lemmas` say what
  pushing and evicting do to this).
* `ReceiptsAreComplete` (`ReceiptsComplete`): for any size of the log, 0 included. It is about
  refused messages and refused registrations of tools. `register_prompt` and
  `ResourceRegistry::register` refuse without a receipt (`complete_adapter.rs:671`,
  `resource/mod.rs:231`); the model has these refusals, and they leave none.

`ProtocolProofs`, the binary data:
* `DeltasAreExact` (`DeltaExact`), for any states and any longest run. The invariant says that
  every delta under way is `Compute` of two states the sender had; `PatchReproduces` that it
  makes the second of the first, through a loop whose pairs always expand to just the data it
  has read (`NextPairExpands`), so that a decompressor gets all of it back (`Decompressed`).
* `ArgumentsReachTheTool` (`ArgumentsArrive`), for any schemas and arguments that the types of
  the code allow: the bytes of a field lie within its place, so that in a schema whose fields
  lie apart no later write touches them; and the checks of encoder and validator together are
  at least those of the advertised schema.
* `SignatureCoversRecord`: two records that `from_bytes` accepts and whose `signed_bytes` are
  equal agree on every byte but those of the signature and its key; the layouts leave no other
  byte uncovered (`Covered`) and no two fields share one (`Separate`). From it,
  `RecordsStayCanonical` (`RecordsCanonical`), for any input.

`ServiceProofs` proves a theorem for each of the smaller services. Where a service runs as a
part of `MCBlocks` its own specification is written out (`CancelSpec`, `SubscriptionSpec`,
`ContextSpec`, `SseSpec`, `LegacySpec`: its Init and every action of it):
* `SignedNeverTwice` (`NeverTwice`; assumes a clock that does not go back): any invocations,
  presented any number of times, in any order with cleanups and changes of permission. The
  invariant adds `PassedIsRemembered`, that an invocation which has passed is in the store
  under its nonce or is too old to pass again. `DroppedIsExpired` is the heart of it: what
  `cleanup_expired` forgets, `is_expired` refuses.
* `AlwaysAnsweredOnce` (`AnsweredOnce`; an answer is none of the marks): that no second
  responder is told "taken" rests on `AnsweredGone`: the entry of an answered call is out of
  the table, and its `create()` is past the only step that inserts it; `AnswerHasTaker` ties
  what is in the channel or handed on to a responder. That the answer was heard is not claimed
  (section 5).
* `CancellationAlwaysSettles` (`CancellationSettles`): `TokenInv` says who may have changed a
  token (`OneWinner`: the exchange of the state succeeds for one canceller, and a reason is
  that one's) and that a request which shares its id with no other is found under it
  (`Reachable`); `NoticeInv` counts the final notices of a progress against the calls that
  started it (`FinalsPaid`).
* `SubscribersAreNotified` (`SubscribedIsNotified`): an id is taken by one subscription
  (`IdsTaken`), every stored callback is in a list (`CallbacksListed`), and what a caller
  between two locks has entered is there exactly once (`EntriesOf`), dropped calls included.
  `RootsStayFresh` (`RootsViewFresh`): a change leaves a signal to be read or the mark of a
  lost one (`SignalStays`).
* `ContextStaysFaithful` (`ContextFaithful`): a tool that is not written by index has one
  slot at most (`SlotsFaithful`), because `set_tool_state` writes a free slot only if none is
  the tool's.
* `ReplaysAreComplete` (`ReplayComplete`): the buffer is, in order, the end of what has been
  published (`Gapless`), so that a replay that begins within it has no hole.
* `PostsStayAccounted` (`PostsAccounted`): limits, order and completeness of the queue.
* `LegacyStaysGuarded` (`LegacyGuarded`): the two tool tables stay paired (`TablesPaired`),
  every run and every thread on its way to one has a pass of the guard of its own
  (`PassesSuffice`), and the guard's queue is the window of the history, as for the newer
  adapter.

Induction over data. The library's induction theorems take an operator as a parameter and
cannot be used. `Lemmas` has the induction it needs in another form: a set of naturals with a
member has a least one (`LeastElement`), and a set that has 0 and with each number the next one
has them all (`SetInduction`). With sets that name the positions at which a statement holds,
this proves what `Without` and `Total` compute for every sequence. What a loop computes is a
recursive function in the models (`Cut`, `RleCompress`, `RleDecompress`, `PutLength`,
`GetLength`): `Iteration` gives a function that takes each value from the one before, and a proof
that such a function exists makes the equation of the definition usable.

Two conditions. `FramesIntact` speaks of messages shorter than the length field can
tell (`AllFit`), and `ArgumentsArrive` of fields that lie apart: without either TLC finds a
counterexample in `blocks`. Both are conditions the code does not check (section 5).

Only model-checked: the liveness properties `WaitsEnd`, `OpsReturn`, `ChunksArrive`,
`ShutdownReturns` and `CreateReturns` (the prover has no rule for fairness). Every invariant and
every action property that a run checks is a theorem. `TypeOK`, `AdmissionClosed`,
`PositionsOrdered`, `MapExact` and `FramesAreChannel` are proved and not run: the theorems named
above hold for every instance. `DrainSound` and `IntactChunks` are proved too; their runs
check the refinements `ImplementsGate` and `StreamIsChannel`, which imply them.

## 5. What was found

With a run:
1. `queue_frame` reads `closed` before it takes the lock of the queue, so a frame may be
   queued after `close()` has emptied it, and stays (`multiplex/connection.rs:631`). Streams do
   not stay: `open_stream` may register one after `close()`, but finds the flag when it queues
   the SYN and takes the stream out again (`CloseEmptiesMap`).
2. The error paths of `open_stream` and `accept_stream` count down whether or not their
   stream was still in the map. After a FIN has removed and uncounted it the count wraps below
   zero, and every later open is refused (`multiplex/connection.rs:339`, and `:297`). In the
   same way they remove whatever stream has the id by then.
3. A `send` whose frame is refused pops the last entry of the send buffer, which may be that of
   another send: the buffer keeps the data that was refused and loses what was queued
   (`multiplex/connection.rs:370`). Nothing reads that buffer in this repository
   (`take_send` has no caller), so no wrong data is sent.
4. A stream reset while its request is being sent is counted down twice and `in_flight`
   wraps below zero (`multiplex/pipeline.rs:110`).
5. `write_chunk` looks at the positions for space and `push` at the counter, which `pop`
   updates later; a write can fail after it has taken a sequence number or after its
   header is visible (`stream/dcp_stream.rs:105`).
6. The adapter encodes the arguments of a call into a buffer for all fields of the schema,
   and the validator refuses data behind the last field that is present: a call that leaves
   out an optional last argument is refused (`compat/complete_adapter.rs:448`,
   `protocol/schema.rs:130`).

Seen while modelling, and stated as the precise condition in a property that holds:
* `increment_in_flight` refuses silently after shutdown; its caller still decrements
  and so takes away the count of a running guarded request, and `wait_drain` may return
  true too early (`shutdown/mod.rs:118`; `DrainSound` is about the time before that).
* `format_response` takes an event's id before it locks the buffer; with two writers events
  may be buffered out of order, and a replay in between leaves one out (`compat/sse.rs:333`;
  `ReplayComplete` is about writers that do not overtake one another).
* `read_line_bounded` decodes each piece of a line by itself: a read that ends inside a
  character of several bytes stops the server although the line is valid UTF-8
  (`compat/stdio.rs:161`; `LinesExact` names this as a reason to stop).
* `encode` takes the length of a message `as u32` before it compares it with the limit: a
  message of 2^32 bytes or more passes for a short one and all of it is written, so that the
  receiver takes its bytes for frames (`transport/framing.rs:192`; `FramesIntact` is about
  shorter messages).
* Nothing keeps the fields of an `InputSchema` apart: where two overlap, the argument written
  last is the one both read (`protocol/schema.rs:29`; `ArgumentsArrive` promises the bytes
  for fields that lie `Apart`).
* `0` marks a free slot of the context and is accepted as a tool id; the state of such a tool
  is overwritten by the next one (`context/mod.rs:260`; `ContextFaithful` leaves it out).
* `create()` may have timed out or been dropped when its channel still takes an answer: a
  responder is told that the answer counted, and nobody hears it (`compat/mcp2025.rs:566`;
  `AnsweredOnce` says that at most one responder is told so).
* A refused registration of a prompt or a resource leaves no receipt in the audit log, that of a
  tool does (`compat/complete_adapter.rs:671`; `ReceiptsComplete`).
* A request or response whose parser accepted it may be written longer than it was read, and
  then be over the limit of the parser at the other end (`compat/json_rpc.rs:415`;
  `EnvelopeReadsBack`).
* `FrameCodec` clears its buffer after an error and goes on in the middle of a frame
  (`transport/framing.rs:150`; `FramesIntact` is about what came before).
* `cancel_all` stores 0 beside sends in progress (`disturbed` in `InFlightExact`).
* `cleanup_expired_sessions` reads the clock before the lock; a session touched in
  between makes `now - last` wrap in a release build (a panic with the lock held in a
  debug build) and the freshest session is removed (`ActiveSessionKept`).
* A waiter that subscribes after the broadcast is never woken (`WaitsEnd` is
  about those before); `shutdown()` of the TCP server is not heard before the loop has
  subscribed, may return before a connection being accepted is registered, and its
  "force close" empties the map while the handlers go on (`DrainedBefore`).
* `set_data` through an `Arc` obtained before an upgrade is lost, and the upgrade also
  resets the activity time, creation time and message count (`DataPreserved`).

Seen and not stated as properties: `max_in_flight` and `max_sessions` are checked before
they are used and can be exceeded by one per concurrent task (`pipeline.rs:79`,
`server/mod.rs:275`); nothing takes data out of a stream's `send_buffer`
(`connection.rs:122`); the second of two concurrent `shutdown()` calls
returns before the flag is stored (`shutdown/mod.rs:49`); a stream that becomes Closed
by the local side last is never removed (`connection.rs:417`); `close_stream` on a full
queue changes the status without a FIN (`:421`); DATA can be queued behind a concurrent
FIN (`:363`);
a roll-back after the SYN has left is not told to the peer (`pipeline.rs:111`);
`reset()` does not take `write_lock` (`dcp_stream.rs:212`).

## 6. Not modelled

Cryptography and redaction (`security/signing.rs`, `redaction.rs`), operating-system
reactors, TLS set-up, file conversion, benchmarks and configuration files are I/O or
library calls; observability is counters, spans and rendering. `try_request_start`,
`send_batch` and `RequestPipeline` add nothing to the methods they call. The SIGHUP reload
broadcast has no state. The session's message count and the server's metrics are statistics.
Of `compat/mcp2025.rs` the sampling and completion records, the table of versions and the
percent-decoding of root paths are left out: they have no state and work on text. The
asynchronous stdio transport repeats the synchronous one over another reader. The HBTP
header and the argument-type bits of `ToolInvocation` are fixed layouts that no other part
reads in this repository.

## 7. Plan

Done: graceful shutdown with its abstract gate; multiplexed connection; pipelining;
chunk stream and frames with their abstract channel; TCP server; sessions; the MCP adapters,
their services and transports; signed
calls; arguments; formats; delta sync; context; a proof of every safety property that a run
checks.

What would come next: `MultiplexLink`, two connections back to back with their queues as the
wire (both number streams from 1; DATA behind FIN), refined by an abstract pair of byte streams;
and the percent-decoding and the templates of URIs, which decide which handler reads a resource.
