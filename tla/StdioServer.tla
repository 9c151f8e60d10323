---------------------------- MODULE StdioServer ----------------------------
(***************************************************************************)
(* `dcp --stdio`: StdioTransport (src/src/compat/stdio.rs) reads lines     *)
(* from stdin in whatever pieces the reader hands out, and the loop of     *)
(* run_stdio_mode (src/src/bin/dcp.rs) answers each with the state of one  *)
(* session.  A byte is a symbol: "n" ends a line, "s" is white space, "h"  *)
(* and "t" are the two bytes of one character, and every other symbol is   *)
(* a JSON text.  Reading stdin and writing to stdout may fail.  The        *)
(* answers of this server are far smaller than the limit of write_message. *)
(***************************************************************************)
EXTENDS JsonRpc, SequencesExt

CONSTANTS
    Texts,            \* the JSON text (a record, see JsonRpc) of each letter
    Streams,          \* what may arrive on stdin before it is closed
    max_message_size

ASSUME StdioAssumption ==
    max_message_size \in Nat /\ \A s \in Streams : s \in Seq({s[i] : i \in DOMAIN s})

VARIABLES
    stdin,
    pos, filled,      \* bytes consumed, and bytes the reader has buffered
    read_buffer,
    shutdown,         \* StdioTransport.shutdown, which others may set
    lpc, stopped_by,
    initialize_seen, initialized,
    handled           \* history: each message with its answer

stdioVars == <<stdin, pos, filled, read_buffer, shutdown, lpc, stopped_by,
               initialize_seen, initialized, handled>>

StdioInit ==
    /\ stdin \in Streams
    /\ pos = 0 /\ filled = 0 /\ read_buffer = <<>> /\ shutdown = FALSE
    /\ lpc = "start" /\ stopped_by = "none"
    /\ initialize_seen = FALSE /\ initialized = FALSE
    /\ handled = <<>>

Stop(reason) == lpc' = "stopped" /\ stopped_by' = reason

----------------------------------------------------------------------------
(* Reading a line *)

ValidUtf8(bytes) ==
    \A i \in DOMAIN bytes :
        /\ bytes[i] = "h" => i < Len(bytes) /\ bytes[i + 1] = "t"
        /\ bytes[i] = "t" => i > 1 /\ bytes[i - 1] = "h"

TrimEnd(bytes) ==
    LET kept == {i \in DOMAIN bytes : bytes[i] \notin {"n", "s"}}
    IN  IF kept = {} THEN <<>> ELSE SubSeq(bytes, 1, Max(kept))

\* read_message: the top of its loop.
ReadMessage ==
    /\ lpc = "start"
    /\ IF shutdown THEN Stop("shutdown") /\ UNCHANGED read_buffer
       ELSE lpc' = "reading" /\ read_buffer' = <<>> /\ UNCHANGED stopped_by
    /\ UNCHANGED <<stdin, pos, filled, shutdown, initialize_seen, initialized, handled>>

\* fill_buf: what is left in the reader's buffer, else the next bytes.
FillBuf(end) ==
    IF pos < filled THEN end = filled
    ELSE end \in pos + 1 .. Len(stdin)

\* A line is complete: handle it, or go on when it is blank.
EndLine(line) == lpc' = IF TrimEnd(line) = <<>> THEN "start" ELSE "handle"

\* Mutant: what one read brings is taken for a line.
LineCompleteAtRead(text) == TRUE

LineComplete(text) == text[Len(text)] = "n"

\* read_line_bounded: one turn of its loop, with `available` up to `end`.
ReadPart(end) ==
    LET available == SubSeq(stdin, pos + 1, end)
        newlines  == {i \in DOMAIN available : available[i] = "n"}
        take      == IF newlines = {} THEN Len(available) ELSE Min(newlines)
        room      == max_message_size - Len(read_buffer)
        allowed   == Min({room, Len(available)})
        part      == SubSeq(available, 1, IF take > room THEN allowed ELSE take)
    IN  /\ lpc = "reading" /\ FillBuf(end)
        /\ filled' = end
        /\ \/ /\ ~ValidUtf8(part)
              /\ Stop("utf8")
              /\ UNCHANGED <<pos, read_buffer, shutdown>>
           \/ /\ ValidUtf8(part) /\ take > room
              /\ pos' = pos + Min({allowed + 1, Len(available)})
              /\ read_buffer' = <<>> /\ shutdown' = TRUE
              /\ Stop("size")
           \/ /\ ValidUtf8(part) /\ take <= room
              /\ pos' = pos + take
              /\ read_buffer' = read_buffer \o part
              /\ IF LineComplete(read_buffer') THEN EndLine(read_buffer') ELSE UNCHANGED lpc
              /\ UNCHANGED <<shutdown, stopped_by>>
        /\ UNCHANGED <<stdin, initialize_seen, initialized, handled>>

\* stdin is closed: the last line needs no newline.
ReadEof ==
    /\ lpc = "reading" /\ pos = Len(stdin) /\ filled = pos
    /\ IF read_buffer = <<>>
       THEN shutdown' = TRUE /\ Stop("eof")
       ELSE EndLine(read_buffer) /\ UNCHANGED <<shutdown, stopped_by>>
    /\ UNCHANGED <<stdin, pos, filled, read_buffer, initialize_seen, initialized, handled>>

\* fill_buf fails where the reader has to be asked for more.
ReadError ==
    /\ lpc = "reading" /\ pos = filled
    /\ Stop("io")
    /\ UNCHANGED <<stdin, pos, filled, read_buffer, shutdown, initialize_seen, initialized, handled>>

\* A holder of shutdown_handle sets the flag.
SignalShutdown ==
    /\ ~shutdown /\ lpc # "stopped"
    /\ shutdown' = TRUE
    /\ UNCHANGED <<stdin, pos, filled, read_buffer, lpc, stopped_by,
                   initialize_seen, initialized, handled>>

----------------------------------------------------------------------------
(* Answering it *)

\* The JSON text of a line; white space before it and characters in its
\* strings do not matter, two texts on a line are no JSON.
Garbled == [size |-> 1, syntax |-> "malformed", shape |-> "other", fields |-> <<>>]

TextOf(line) ==
    LET letters == {i \in DOMAIN line : line[i] \notin {"s", "h", "t", "n"}}
    IN  IF \E i \in letters : letters = {i} THEN Texts[line[CHOOSE i \in letters : TRUE]] ELSE Garbled

Listing == {"tools/list", "resources/list", "prompts/list", "tools/call", "resources/read",
            "resources/subscribe", "resources/unsubscribe", "prompts/get", "completion/complete"}

Silent == "no answer"

\* handle_stdio_message_with_session: the answer to a notification.
AnswerNotification(request) ==
    CASE request.method = "notifications/initialized" ->
           IF request.params = "absent" /\ initialize_seen /\ ~initialized THEN Silent ELSE "-32600"
      [] request.method = "notifications/cancelled" -> Silent
      [] OTHER -> "-32600"

\* handle_stdio_message_with_session: the answer to a request.
AnswerRequest(request) ==
    CASE request.method = "initialize" -> IF initialize_seen THEN "-32600" ELSE "result"
      [] request.method \in {"initialized", "notifications/initialized"} -> "-32600"
      [] request.method = "ping" -> "result"
      [] request.method \in Listing -> IF initialized THEN "-32001" ELSE "-32600"
      [] OTHER -> "-32601"

AnswerText(text) ==
    LET request == ParseRequest(text)
    IN  CASE request.error = "InvalidJson" -> "-32700"
          [] request.error \notin {"none", "InvalidJson"} -> "-32600"
          [] request.error = "none" /\ IsNotification(request) -> AnswerNotification(request)
          [] OTHER -> AnswerRequest(request)

\* The loop of run_stdio_mode from a message to the next: handle it, and
\* write the answer unless the transport was shut down or stdout fails.
HandleMessage ==
    LET text    == TextOf(read_buffer)
        request == ParseRequest(text)
        answer  == AnswerText(text)
        begins  == request.error = "none" /\ request.method = "initialize" /\ ~IsNotification(request)
        entry   == [line |-> TrimEnd(read_buffer), answer |-> answer]
    IN  /\ lpc = "handle"
        /\ initialize_seen' = (initialize_seen \/ begins)
        /\ initialized' = (initialized \/ (/\ request.error = "none" /\ IsNotification(request)
                                           /\ request.method = "notifications/initialized"
                                           /\ answer = Silent))
        /\ \/ /\ answer = Silent \/ ~shutdown
              /\ handled' = Append(handled, entry)
              /\ lpc' = "start" /\ UNCHANGED stopped_by
           \/ /\ answer # Silent
              /\ handled' = Append(handled, [entry EXCEPT !.answer = "lost"])
              /\ Stop("write")
        /\ UNCHANGED <<stdin, pos, filled, read_buffer, shutdown>>

StdioNext ==
    \/ ReadMessage \/ ReadEof \/ ReadError \/ HandleMessage \/ SignalShutdown
    \/ \E end \in 1 .. Len(stdin) : ReadPart(end)

----------------------------------------------------------------------------
(* Properties *)

\* The lines of the stream as such, cut at newlines and without the blank
\* ones: after k bytes those that are done, and the one that is not.
Keep(lines, line) == IF TrimEnd(line) = <<>> THEN lines ELSE Append(lines, TrimEnd(line))

Cut(bytes) ==
    LET cut[k \in 0 .. Len(bytes)] ==
            IF k = 0 THEN [done |-> <<>>, last |-> <<>>]
            ELSE LET before == cut[k - 1]
                 IN  IF bytes[k] = "n" THEN [done |-> Keep(before.done, before.last), last |-> <<>>]
                     ELSE [done |-> before.done, last |-> Append(before.last, bytes[k])]
    IN  cut

Lines(bytes) == LET all == Cut(bytes)[Len(bytes)] IN Keep(all.done, all.last)

\* Some line, its newline included, is longer than the limit.
SomeLineTooLong ==
    \E i \in 1 .. Len(stdin) :
        /\ i + max_message_size <= Len(stdin)
        /\ \A j \in i .. i + max_message_size - 1 : stdin[j] # "n"

\* However the bytes are cut into reads, the messages handled are the lines of
\* the stream, in order and each once; at the end of the stream all of them
\* are.  The size error is raised only for a line that is too long, the UTF-8
\* error only for bytes that are not UTF-8, for such a line, or where a read
\* ends inside a character: read_line_bounded decodes each piece by itself.
LinesExact ==
    /\ IsPrefix([i \in DOMAIN handled |-> handled[i].line], Lines(stdin))
    /\ stopped_by = "eof" => Len(handled) = Len(Lines(stdin))
    /\ stopped_by = "size" => SomeLineTooLong
    /\ stopped_by = "utf8" => SomeLineTooLong \/ ~ValidUtf8(stdin) \/ stdin[filled] = "h"

IsMessage(entry, method, notification) ==
    LET request == ParseRequest(TextOf(entry.line))
    IN  request.error = "none" /\ request.method = method /\ IsNotification(request) = notification

\* A listing gets past the session check only after an `initialize` that was
\* answered with a result and an accepted `notifications/initialized` after
\* it; a session is initialized once.
LifecycleHeld ==
    /\ \A i \in DOMAIN handled : handled[i].answer = "-32001" =>
         \E j, k \in 1 .. i - 1 :
            /\ j < k
            /\ IsMessage(handled[j], "initialize", FALSE) /\ handled[j].answer = "result"
            /\ IsMessage(handled[k], "notifications/initialized", TRUE) /\ handled[k].answer = Silent
    /\ \A i, j \in DOMAIN handled :
         /\ IsMessage(handled[i], "initialize", FALSE) /\ handled[i].answer = "result"
         /\ IsMessage(handled[j], "initialize", FALSE) /\ handled[j].answer = "result"
         => i = j

\* What a client of the stdio server relies on: its lines are handled one by
\* one as they were written, and in the order of the session's life cycle.
StdioFaithful == LinesExact /\ LifecycleHeld
=============================================================================
