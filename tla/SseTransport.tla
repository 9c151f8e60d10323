--------------------------- MODULE SseTransport ---------------------------
(***************************************************************************)
(* SseTransport, EventBuffer and SseMessageHandler (src/src/compat/sse.rs).*)
(* An event gets its id from an atomic counter and is put into the replay  *)
(* buffer later, under a lock; a client that reconnects asks for what came *)
(* after the last id it saw.  Messages POSTed by clients wait in a queue   *)
(* with a limit on their number and on their bytes.  Texts are left out;   *)
(* reset(), which is for tests, is not modelled.                           *)
(***************************************************************************)
EXTENDS Naturals, Sequences, FiniteSets, Queues

CONSTANTS
    Writers,          \* tasks that format events
    BufferSize,       \* EventBuffer's max_size; 0 disables replay
    MaxEvents,        \* bound: events
    PostPool,         \* the messages clients POST
    MaxMessageSize, MaxPending, MaxPendingBytes,    \* SseMessageHandler's limits
    MaxPosts          \* bound: messages POSTed

ASSUME SseAssumption ==
    /\ BufferSize \in Nat /\ MaxEvents \in Nat /\ MaxPending \in Nat /\ MaxPendingBytes \in Nat
    /\ \A m \in PostPool : m.kept \in Nat

VARIABLES
    event_counter,
    buffer,           \* ids in the replay buffer, oldest first
    wpc, wevent,      \* writer -> progress, and the id it took
    published,        \* history: ids that were buffered at some time
    disordered,       \* history: an event was buffered after a later one
    replay,           \* the last answer of checked_replay_events
    responses,        \* queued messages
    accepted, taken   \* history: messages accepted and not notifications; taken

eventVars == <<event_counter, buffer, wpc, wevent, published, disordered, replay>>
postVars  == <<responses, accepted, taken>>
sseVars   == <<eventVars, postVars>>

NoReplay == [cursor |-> 0, result |-> "none", events |-> <<>>, missed |-> {}, known |-> {}]

SseInit ==
    /\ event_counter = 0 /\ buffer = <<>> /\ published = {} /\ disordered = FALSE
    /\ wpc = [w \in Writers |-> "idle"] /\ wevent = [w \in Writers |-> 0]
    /\ replay = NoReplay
    /\ responses = <<>> /\ accepted = <<>> /\ taken = <<>>

----------------------------------------------------------------------------
(* Events *)

\* EventBuffer::push.
PushEvent(b, id) ==
    IF BufferSize = 0 THEN b
    ELSE LET kept == IF Len(b) >= BufferSize
                     THEN SubSeq(b, Len(b) - BufferSize + 2, Len(b)) ELSE b
         IN  Append(kept, id)

\* format_response and format_error take an id and format the event ...
TakeEventId(w) ==
    /\ wpc[w] = "idle" /\ event_counter < MaxEvents
    /\ event_counter' = event_counter + 1
    /\ wevent' = [wevent EXCEPT ![w] = event_counter']
    /\ wpc' = [wpc EXCEPT ![w] = "formatted"]
    /\ UNCHANGED <<buffer, published, disordered, replay>>

\* ... and buffer it.
BufferEvent(w) ==
    /\ wpc[w] = "formatted"
    /\ buffer' = PushEvent(buffer, wevent[w])
    /\ published' = published \cup {wevent[w]}
    /\ disordered' = (disordered \/ \E id \in published : id > wevent[w])
    /\ wpc' = [wpc EXCEPT ![w] = "idle"]
    /\ UNCHANGED <<event_counter, wevent, replay>>

\* format_endpoint: an id is used up, nothing is buffered.
FormatEndpoint ==
    /\ event_counter < MaxEvents
    /\ event_counter' = event_counter + 1
    /\ UNCHANGED <<buffer, wpc, wevent, published, disordered, replay>>

EventsAfter(last) == Without(buffer, 0 .. last)

SaturatingDec(n) == IF n = 0 THEN 0 ELSE n - 1

\* Mutant: the gap before the oldest event is not noticed.
ReplayResultLoose(last) ==
    IF buffer = <<>> THEN "ok"
    ELSE IF last > buffer[Len(buffer)] THEN "future" ELSE "ok"

\* checked_replay_events: the verdict on a cursor.
ReplayResult(last) ==
    IF buffer = <<>>
    THEN IF last > event_counter THEN "future"
         ELSE IF last < event_counter THEN "stale" ELSE "ok"
    ELSE IF last > buffer[Len(buffer)] THEN "future"
         ELSE IF last < SaturatingDec(buffer[1]) THEN "stale" ELSE "ok"

\* A client reconnects with the id of the last event it saw.
Replay(last) ==
    LET events == EventsAfter(last)
    IN  /\ replay' = [cursor |-> last, result |-> ReplayResult(last),
                      events |-> IF ReplayResult(last) = "ok" THEN events ELSE <<>>,
                      known |-> published,
                      missed |-> {id \in published : id > last} \ {events[i] : i \in DOMAIN events}]
        /\ UNCHANGED <<event_counter, buffer, wpc, wevent, published, disordered>>

EventsNext ==
    \/ FormatEndpoint
    \/ \E w \in Writers : TakeEventId(w) \/ BufferEvent(w)
    \/ \E last \in 0 .. MaxEvents : Replay(last)

----------------------------------------------------------------------------
(* POSTed messages: [method, id, size, kept, form], where kept is the size *)
(* of the sanitized text and form tells whether text and params are valid  *)

SseNotifications == {"notifications/initialized", "notifications/cancelled"}
SsePostMethods == SseNotifications \cup
    {"initialize", "ping", "tools/list", "tools/call", "resources/list", "resources/read",
     "resources/subscribe", "resources/unsubscribe", "prompts/list", "prompts/get",
     "logging/setLevel", "completion/complete"}

PostIsNotification(m) == m.id = "missing"

\* handle_message up to the queue.
PostValid(m) ==
    /\ m.size <= MaxMessageSize /\ m.form = "ok"
    /\ m.method \in SsePostMethods
    /\ PostIsNotification(m) <=> m.method \in SseNotifications

QueuedBytes == Total([i \in DOMAIN responses |-> responses[i].kept])

\* Mutant: the budget is compared before the message is added.
FitsQueueLate(m) == Len(responses) < MaxPending /\ QueuedBytes <= MaxPendingBytes

FitsQueue(m) == Len(responses) < MaxPending /\ QueuedBytes + m.kept <= MaxPendingBytes

PostMessage(m) ==
    /\ Len(accepted) < MaxPosts         \* bound
    /\ \/ /\ PostValid(m) /\ ~PostIsNotification(m) /\ FitsQueue(m)
          /\ responses' = Append(responses, m) /\ accepted' = Append(accepted, m)
       \/ /\ ~PostValid(m) \/ PostIsNotification(m) \/ ~FitsQueue(m)
          /\ UNCHANGED <<responses, accepted>>
    /\ UNCHANGED taken

TakeResponses ==
    /\ responses # <<>>
    /\ taken' = taken \o responses /\ responses' = <<>>
    /\ UNCHANGED accepted

PostNext == TakeResponses \/ \E m \in PostPool : PostMessage(m)

----------------------------------------------------------------------------
(* Properties *)

\* A replay that is not refused is complete and in order: the client gets
\* every event published after its cursor, evicted ones included in "every",
\* and endpoint events never; and a client is told that it is ahead only of
\* events that have not been published.  Nothing orders the push of an event
\* with the counter it took its id from, so this needs writers that do not
\* overtake one another in between.
ReplayComplete ==
    ~disordered =>
        /\ replay.result = "ok" =>
             /\ replay.missed = {}
             /\ \A i, j \in DOMAIN replay.events : i < j => replay.events[i] < replay.events[j]
        /\ replay.result = "future" => replay.cursor \notin replay.known

\* The queue keeps to both limits, through any mix of sizes, and what was
\* accepted is handed out once and in order; notifications are not queued.
PostsAccounted ==
    /\ Len(responses) <= MaxPending /\ QueuedBytes <= MaxPendingBytes
    /\ accepted = taken \o responses
    /\ \A i \in DOMAIN accepted :
         accepted[i].method \in SsePostMethods \ SseNotifications /\ ~PostIsNotification(accepted[i])
=============================================================================
