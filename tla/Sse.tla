-------------------------------- MODULE Sse --------------------------------
(***************************************************************************)
(* The event stream of a Responses call: the bytes of the body arrive in   *)
(* chunks the network chose, push_with_flushed() cuts each chunk at line   *)
(* ends, SseDecoder turns pieces into lines and lines into frames,         *)
(* the endpoint policy classifies the frames, and the stream of            *)
(* ResponseEventStream::from_response yields them.                         *)
(*                                                                         *)
(* A byte is a member of Bytes.  "cr" and "lf" end lines, BOM is the byte  *)
(* order mark, "d" stands for the field name `data:`.  A line "x" stands   *)
(* for `event: response.output_text.delta`, a line "t" for                 *)
(* `event: response.completed`, a line "r" for `event: error`; a longer    *)
(* line that starts with one of them names some other event.  As data,     *)
(* "x", "t" and "r" are the JSON of an event whose `type` is that name,    *)
(* "s" is the sentinel [DONE], and everything else is not the JSON of an   *)
(* event.  Comments, ids and retry delays are lines without effect on the  *)
(* events and are not told apart; an `event:` line without a value, which  *)
(* takes the name away again, is left out.                                 *)
(***************************************************************************)
EXTENDS Naturals, FiniteSets, Sequences, SequencesExt

CONSTANTS
  Alphabet,      \* the bytes that may stand at each position of a body
  MaxChunk,      \* bound on the bytes of a chunk
  FeedSlice,     \* FEED_SLICE_BYTES
  MaxLine,       \* max_line_bytes
  MaxEvent,      \* max_event_bytes
  MaxDataLines   \* max_data_lines

Bytes == {"cr", "lf", "b1", "b2", "b3", "d", "t", "r", "s", "x"}
BOM == <<"b1", "b2", "b3">>
LineEnds == {"cr", "lf"}
MaxBody == Len(Alphabet)

ASSUME SseAssumption ==
  /\ Alphabet \in Seq(SUBSET Bytes)
  /\ MaxChunk \in Nat \ {0} /\ FeedSlice \in Nat \ {0}
  /\ MaxLine \in Nat \ {0} /\ MaxEvent \in Nat \ {0} /\ MaxDataLines \in Nat \ {0}

VARIABLES
  body,          \* the bytes received so far
  fed,           \* how many of them the decoder holds or has consumed
  upto,          \* the end of the piece handed to SseDecoder::push
  eof,           \* the body has ended
  pc,
  line_buffer, search_from, bom_checked,
  event_name, event_data, data_lines,
  frames,        \* of the current call of the decoder
  dispatches,    \* of the current chunk
  error,         \* of the current chunk; "none" if there is none
  state,         \* SseStreamState
  yielded        \* what the consumer of the stream has got

input == <<body, upto, eof>>
lineVars == <<line_buffer, search_from, bom_checked>>
eventVars == <<event_name, event_data, data_lines>>
vars == <<input, fed, pc, lineVars, eventVars, frames, dispatches, error, state,
          yielded>>

DecodeErrors == {"line_too_large", "event_too_large", "too_many_data_lines",
                 "invalid_utf8", "unexpected_eof"}
KnownNames == {"x", "t", "r"}
EventNames == KnownNames \cup {"none", "other"}
Data == Seq(Bytes \cup {"nl"})
Frame == [event : EventNames, data : Data]
Dispatch == [type : {"event", "terminal", "remote_error"}, frame : Frame]
Yields == [type : {"ok"}, data : Data]
            \cup [type : DecodeErrors \cup {"remote", "protocol", "json", "transport"}]

TypeOK ==
  /\ body \in Seq(Bytes) /\ Len(body) <= MaxBody
  /\ fed \in 0..Len(body) /\ upto \in 0..Len(body)
  /\ eof \in BOOLEAN
  /\ pc \in {"idle", "piece", "slice", "drain", "limit", "leftover", "classify",
             "deliver", "done"}
  /\ line_buffer \in Seq(Bytes)
  /\ search_from \in 0..Len(line_buffer)
  /\ bom_checked \in BOOLEAN
  /\ event_name \in EventNames
  /\ event_data \in Data /\ Len(event_data) <= MaxEvent
  /\ data_lines \in 0..MaxDataLines
  /\ frames \in Seq(Frame)
  /\ dispatches \in Seq(Dispatch)
  /\ error \in DecodeErrors \cup {"none"}
  /\ state \in {"active", "completed", "remote_error", "failed"}
  /\ yielded \in Seq(Yields)

Init ==
  /\ body = <<>> /\ fed = 0 /\ upto = 0 /\ eof = FALSE
  /\ pc = "idle"
  /\ line_buffer = <<>> /\ search_from = 0 /\ bom_checked = FALSE
  /\ event_name = "none" /\ event_data = <<>> /\ data_lines = 0
  /\ frames = <<>> /\ dispatches = <<>>
  /\ error = "none"
  /\ state = "active"
  /\ yielded = <<>>

----------------------------------------------------------------------------
\* A line as str::from_utf8 sees it: the bytes of BOM form one character.
ValidUtf8(line) ==
  \A i \in 1..Len(line) :
    /\ line[i] = "b1" => i + 2 <= Len(line) /\ SubSeq(line, i, i + 2) = BOM
    /\ line[i] = "b2" => i > 1 /\ line[i - 1] = "b1"
    /\ line[i] = "b3" => i > 1 /\ line[i - 1] = "b2"

\* The pending event: its name, its data and the number of its data fields.
Event(name, data, n) == [name |-> name, data |-> data, lines |-> n]

NoEvent == Event("none", <<>>, 0)

\* push_data() of a value to the event e
PushData(e, value) ==
  LET joined == IF e.lines = 0 THEN value ELSE e.data \o <<"nl">> \o value
  IN CASE e.lines >= MaxDataLines
            -> [event |-> e, frames |-> <<>>, error |-> "too_many_data_lines"]
       [] e.lines < MaxDataLines /\ Len(joined) > MaxEvent
            -> [event |-> e, frames |-> <<>>, error |-> "event_too_large"]
       [] OTHER
            -> [event |-> Event(e.name, joined, e.lines + 1), frames |-> <<>>,
                error |-> "none"]

\* take_event()
TakeEvent(e) ==
  [event |-> NoEvent,
   frames |-> IF e.lines = 0 THEN <<>> ELSE <<[event |-> e.name, data |-> e.data]>>,
   error |-> "none"]

\* process_line() of a line while e is pending: the event then pending, the
\* frames completed and the error.
ProcessLine(line, e) ==
  LET keeps(event, why) == [event |-> event, frames |-> <<>>, error |-> why]
  IN CASE Len(line) > MaxLine -> keeps(e, "line_too_large")
       [] Len(line) <= MaxLine /\ ~ValidUtf8(line) -> keeps(e, "invalid_utf8")
       [] line = <<>> -> TakeEvent(e)
       [] Len(line) \in 1..MaxLine /\ ValidUtf8(line) /\ line[1] = "d"
            -> PushData(e, Tail(line))
       [] Len(line) \in 1..MaxLine /\ ValidUtf8(line) /\ line[1] \in KnownNames
            -> keeps([e EXCEPT !.name = IF Len(line) = 1 THEN line[1] ELSE "other"],
                     "none")
       [] OTHER -> keeps(e, "none")

\* SseEndpointPolicy::responses() and classify()
Classify(f) ==
  IF f.data = <<"s">> THEN "consumed"
  ELSE IF f.event = "r" THEN "remote_error"
  ELSE IF f.event = "t" THEN "terminal"
  ELSE "event"

\* decode_event(): a frame must have a name, its data must be JSON, and the
\* `type` in there must be that name.
Decoded(f) ==
  IF f.event = "none" THEN "protocol"
  ELSE IF f.data \notin {<<n>> : n \in KnownNames} THEN "json"
  ELSE IF f.data # <<f.event>> THEN "protocol"
  ELSE IF f.event = "t" THEN "terminal"
  ELSE IF f.event = "r" THEN "error"
  ELSE "event"

\* What the stream yields for a dispatch, and whether it ends there; last says
\* that the dispatch was flushed at the end of the body.
Yielded(d, last) ==
  LET typed == Decoded(d.frame)
      ok == [type |-> "ok", data |-> d.frame.data]
  IN CASE d.type = "remote_error" -> [item |-> [type |-> "remote"], ends |-> TRUE]
       [] d.type # "remote_error" /\ typed \in {"protocol", "json"}
            -> [item |-> [type |-> typed], ends |-> TRUE]
       [] d.type # "remote_error" /\ typed = "error" /\ (d.type = "event" \/ last)
            -> [item |-> [type |-> "remote"], ends |-> TRUE]
       [] OTHER
            -> [item |-> ok,
                ends |-> ~last /\ (d.type = "terminal" \/ typed = "terminal")]

----------------------------------------------------------------------------
\* The chunks of n bytes that may follow the bytes received.
Chunks(n) ==
  {c \in [1..n -> UNION {Alphabet[Len(body) + i] : i \in 1..n}] :
     \A i \in 1..n : c[i] \in Alphabet[Len(body) + i]}

\* The next chunk of the body.
Receive ==
  /\ pc = "idle"
  /\ \E n \in 1..MaxChunk :
       /\ Len(body) + n <= MaxBody
       /\ \E c \in Chunks(n) : body' = body \o c
  /\ pc' = "piece"
  /\ dispatches' = <<>>
  /\ UNCHANGED <<fed, upto, eof, lineVars, eventVars, frames, error, state, yielded>>

\* The end of the piece of the chunk that is fed next.
PieceEnd ==
  LET ends == {i \in fed + 1..Len(body) : body[i] \in LineEnds}
  IN IF line_buffer # <<>> /\ Last(line_buffer) = "cr" THEN fed + 1
     ELSE IF ends = {} THEN Len(body)
     ELSE CHOOSE i \in ends : \A j \in ends : i <= j

\* The loop of push_with_flushed()
NextPiece ==
  /\ pc = "piece"
  /\ IF fed < Len(body)
     THEN upto' = PieceEnd /\ pc' = "slice"
     ELSE upto' = upto /\ pc' = "deliver"
  /\ frames' = <<>>
  /\ UNCHANGED <<body, eof, fed, lineVars, eventVars, dispatches, error, state,
                 yielded>>

\* ensure_bom_checked() on the buffer b, and the scan that follows it unless
\* more bytes are needed to decide.
CheckBom(b, atEof, next) ==
  LET waits == ~atEof /\ Len(b) < 3 /\ IsPrefix(b, BOM)
      strips == IsPrefix(BOM, b)
  IN IF bom_checked
     THEN line_buffer' = b /\ UNCHANGED <<search_from, bom_checked>> /\ pc' = "drain"
     ELSE IF waits
     THEN line_buffer' = b /\ UNCHANGED <<search_from, bom_checked>> /\ pc' = next
     ELSE /\ line_buffer' = IF strips THEN SubSeq(b, 4, Len(b)) ELSE b
          /\ search_from' = IF strips /\ search_from > 3 THEN search_from - 3
                            ELSE IF strips THEN 0 ELSE search_from
          /\ bom_checked' = TRUE
          /\ pc' = "drain"

\* Mutant: the piece is buffered at once.
FeedAll ==
  /\ pc = "slice"
  /\ CheckBom(line_buffer \o SubSeq(body, fed + 1, upto), FALSE, "limit")
  /\ fed' = upto
  /\ UNCHANGED <<input, eventVars, frames, dispatches, error, state, yielded>>

\* push_inner(): the next slice of the piece
FeedNext ==
  /\ pc = "slice"
  /\ LET end == IF fed + FeedSlice < upto THEN fed + FeedSlice ELSE upto
     IN /\ CheckBom(line_buffer \o SubSeq(body, fed + 1, end), FALSE, "limit")
        /\ fed' = end
  /\ UNCHANGED <<input, eventVars, frames, dispatches, error, state, yielded>>

\* next_line(): the position of the first line end the scan meets, or 0, and
\* the length of the terminator, 0 without one and for a final CR that may be
\* half of a CRLF.
LineEnd ==
  LET ends == {i \in search_from + 1..Len(line_buffer) : line_buffer[i] \in LineEnds}
  IN IF ends = {} THEN 0 ELSE CHOOSE i \in ends : \A j \in ends : i <= j

\* Mutant: a final CR ends the line at once.
TerminatorLenEager ==
  IF LineEnd = 0 THEN 0
  ELSE IF line_buffer[LineEnd] = "cr" /\ LineEnd < Len(line_buffer)
          /\ line_buffer[LineEnd + 1] = "lf" THEN 2
  ELSE 1

TerminatorLen ==
  IF LineEnd = 0 THEN 0
  ELSE IF line_buffer[LineEnd] = "lf" THEN 1
  ELSE IF LineEnd < Len(line_buffer)
       THEN IF line_buffer[LineEnd + 1] = "lf" THEN 2 ELSE 1
  ELSE IF eof THEN 1 ELSE 0

\* clear_retained() and fail(): the error ends the stream decoder, and frames
\* of the failing call are lost.
Fail(why) ==
  /\ line_buffer' = <<>> /\ search_from' = 0
  /\ event_name' = "none" /\ event_data' = <<>> /\ data_lines' = 0
  /\ frames' = <<>>
  /\ error' = why
  /\ state' = "failed"
  /\ pc' = "deliver"
  /\ UNCHANGED bom_checked

\* The line is processed and the rest of the buffer stays.
Consume(line, rest, next) ==
  LET p == ProcessLine(line, Event(event_name, event_data, data_lines))
  IN IF p.error # "none" THEN Fail(p.error)
     ELSE /\ line_buffer' = rest /\ search_from' = 0
          /\ event_name' = p.event.name /\ event_data' = p.event.data
          /\ data_lines' = p.event.lines
          /\ frames' = frames \o p.frames
          /\ pc' = next
          /\ UNCHANGED <<bom_checked, error, state>>

\* The loop of drain_complete_lines(), one line
DrainLine ==
  /\ pc = "drain"
  /\ TerminatorLen # 0
  /\ Consume(SubSeq(line_buffer, 1, LineEnd - 1),
             SubSeq(line_buffer, LineEnd + TerminatorLen, Len(line_buffer)), "drain")
  /\ UNCHANGED <<input, fed, dispatches, yielded>>

\* next_line() finds no line: the scan goes on from where it stopped.
NoLine ==
  /\ pc = "drain"
  /\ TerminatorLen = 0
  /\ search_from' = IF LineEnd = 0 THEN Len(line_buffer) ELSE LineEnd - 1
  /\ pc' = IF eof THEN "leftover" ELSE "limit"
  /\ UNCHANGED <<input, fed, line_buffer, bom_checked, eventVars, frames, dispatches,
                 error, state, yielded>>

\* check_incomplete_line_limit()
CheckLimit ==
  LET content == IF line_buffer # <<>> /\ Last(line_buffer) = "cr"
                 THEN Len(line_buffer) - 1 ELSE Len(line_buffer)
  IN /\ pc = "limit"
     /\ IF content > MaxLine /\ (bom_checked \/ ~IsPrefix(line_buffer, BOM))
        THEN Fail("line_too_large")
        ELSE /\ pc' = IF fed < upto THEN "slice" ELSE "classify"
             /\ UNCHANGED <<lineVars, eventVars, frames, error, state>>
     /\ UNCHANGED <<input, fed, dispatches, yielded>>

\* classify_frames(): the dispatches up to the first that ends the stream
Dispatched ==
  LET ends == {i \in 1..Len(frames) : Classify(frames[i]) # "event"}
      upTo == IF ends = {} THEN Len(frames)
              ELSE CHOOSE i \in ends : \A j \in ends : i <= j
  IN [kind |-> IF ends = {} THEN "event" ELSE Classify(frames[upTo]),
      dispatches |->
        LET all == [i \in 1..upTo |->
                      [type |-> Classify(frames[i]), frame |-> frames[i]]]
        IN IF ends # {} /\ Classify(frames[upTo]) = "consumed"
           THEN SubSeq(all, 1, upTo - 1) ELSE all]

StateAfter(kind) ==
  IF kind = "event" THEN "active"
  ELSE IF kind = "remote_error" THEN "remote_error" ELSE "completed"

\* A dispatch that ends the stream closes the decoder.  At the end of the body
\* the policy wants a terminal marker.
ClassifyFrames ==
  LET d == Dispatched
  IN /\ pc = "classify"
     /\ dispatches' = dispatches \o d.dispatches
     /\ frames' = <<>>
     /\ IF d.kind = "event" /\ ~eof
        THEN /\ pc' = "piece"
             /\ UNCHANGED <<lineVars, eventVars, error, state>>
        ELSE /\ pc' = "deliver"
             /\ line_buffer' = <<>> /\ search_from' = 0
             /\ event_name' = "none" /\ event_data' = <<>> /\ data_lines' = 0
             /\ UNCHANGED bom_checked
             /\ IF d.kind = "event"
                THEN state' = "failed" /\ error' = "unexpected_eof"
                ELSE state' = StateAfter(d.kind) /\ UNCHANGED error
     /\ UNCHANGED <<input, fed, yielded>>

\* The dispatches of a chunk, one by one, then the error of the chunk.
DeliverNext ==
  /\ pc = "deliver"
  /\ IF dispatches # <<>>
     THEN LET y == Yielded(Head(dispatches), eof)
          IN /\ yielded' = Append(yielded, y.item)
             /\ dispatches' = Tail(dispatches)
             /\ pc' = IF y.ends THEN "done" ELSE "deliver"
     ELSE /\ yielded' = IF error = "none" THEN yielded
                        ELSE Append(yielded, [type |-> error])
          /\ pc' = IF state = "active" THEN "idle" ELSE "done"
          /\ UNCHANGED dispatches
  /\ UNCHANGED <<input, fed, lineVars, eventVars, frames, error, state>>

\* The body ends: finish_with_flushed() and SseDecoder::finish().
FinishBody ==
  /\ pc = "idle"
  /\ eof' = TRUE
  /\ CheckBom(line_buffer, TRUE, "drain")
  /\ frames' = <<>> /\ dispatches' = <<>>
  /\ UNCHANGED <<body, upto, fed, eventVars, error, state, yielded>>

\* finish_inner(): the unterminated line
Leftover ==
  /\ pc = "leftover"
  /\ line_buffer # <<>>
  /\ Consume(line_buffer, <<>>, "leftover")
  /\ UNCHANGED <<input, fed, dispatches, yielded>>

\* finish_inner(): the unterminated event
FlushEvent ==
  /\ pc = "leftover"
  /\ line_buffer = <<>>
  /\ frames' = frames \o TakeEvent(Event(event_name, event_data, data_lines)).frames
  /\ event_name' = "none" /\ event_data' = <<>> /\ data_lines' = 0
  /\ pc' = "classify"
  /\ UNCHANGED <<input, fed, lineVars, dispatches, error, state, yielded>>

\* The body fails: from_response() yields the transport error.
BodyError ==
  /\ pc = "idle"
  /\ yielded' = Append(yielded, [type |-> "transport"])
  /\ pc' = "done"
  /\ UNCHANGED <<input, fed, lineVars, eventVars, frames, dispatches, error, state>>

Next ==
  \/ Receive
  \/ NextPiece \/ FeedNext
  \/ DrainLine \/ NoLine \/ CheckLimit
  \/ ClassifyFrames \/ DeliverNext
  \/ FinishBody \/ Leftover \/ FlushEvent
  \/ BodyError

Spec == Init /\ [][Next]_vars

----------------------------------------------------------------------------
\* The reference reads a whole body at once: behind a leading byte order mark,
\* the lines that LF, CR and CRLF end.  A final CR may be half of a CRLF and
\* ends no line yet.
BomLen(b) == IF IsPrefix(BOM, b) THEN 3 ELSE 0

Ends(b) ==
  {i \in 1..Len(b) : \/ b[i] = "lf"
                     \/ b[i] = "cr" /\ i < Len(b) /\ b[i + 1] # "lf"}

\* The line up to position i, without its terminator.
LineAt(b, i) ==
  LET start == Max({BomLen(b)} \cup {j \in Ends(b) : j < i})
      last == Max({start} \cup {j \in start + 1..i : b[j] \notin LineEnds})
  IN SubSeq(b, start + 1, last)

\* A consumer has read acc: the pending event, the items it got, and whether
\* they end the stream.
Acc(event, out, ends) == [event |-> event, out |-> out, ends |-> ends]

\* It gets the frames f, at the end of the body if last holds; then a line.
ReadFrames(acc, f, last) ==
  IF acc.ends \/ f = <<>> THEN acc
  ELSE IF Classify(f[1]) = "consumed" THEN Acc(acc.event, acc.out, TRUE)
  ELSE LET y == Yielded([type |-> Classify(f[1]), frame |-> f[1]], last)
       IN Acc(acc.event, Append(acc.out, y.item), y.ends \/ Classify(f[1]) # "event")

ReadLine(acc, line, last) ==
  LET p == ProcessLine(line, acc.event)
  IN IF acc.ends THEN acc
     ELSE IF p.error # "none"
     THEN Acc(acc.event, Append(acc.out, [type |-> p.error]), TRUE)
     ELSE ReadFrames(Acc(p.event, acc.out, FALSE), p.frames, last)

\* What the lines give that end at position i or before it.
Reading(b) ==
  LET read[i \in 0..Len(b)] ==
        IF i = 0 THEN Acc(NoEvent, <<>>, FALSE)
        ELSE IF i \in Ends(b) THEN ReadLine(read[i - 1], LineAt(b, i), FALSE)
        ELSE read[i - 1]
  IN read

\* What the lines of a body give before its end is known.
ReadLines(b) == Reading(b)[Len(b)]

\* The last line of a body that has ended needs no terminator,
ReadOpen(b) ==
  IF Len(b) > BomLen(b) /\ Len(b) \notin Ends(b)
  THEN ReadLine(ReadLines(b), LineAt(b, Len(b)), TRUE)
  ELSE ReadLines(b)

\* nor does its last event, but a stream without a terminal event is an error.
ReadBody(b) ==
  LET read == ReadOpen(b)
      all == ReadFrames(read, TakeEvent(read.event).frames, TRUE)
  IN IF all.ends THEN all.out ELSE Append(all.out, [type |-> "unexpected_eof"])

\* However the network cuts the body into chunks, the consumer gets what the
\* body read as a whole gives: every event whose blank line has arrived at
\* once, and events before a malformed line, before the missing terminal
\* event, or before a failure of the transport. Nothing after the end of the
\* stream is parsed, so nothing there can turn it into an error.
DeliveryIgnoresChunks ==
  /\ pc = "idle" => yielded = ReadLines(body).out
  /\ pc = "done" =>
       yielded = IF yielded # <<>> /\ Last(yielded).type = "transport"
                 THEN Append(ReadLines(body).out, [type |-> "transport"])
                 ELSE ReadBody(body)

\* A decoder never buffers more than a line and one slice, and keeps nothing
\* once the stream has stopped.
RetainedIsBounded ==
  LET most(m, n) == IF m < n THEN n ELSE m
  IN /\ Len(line_buffer) <= most(MaxLine, 2) + most(FeedSlice, 2)
     /\ state # "active" => line_buffer = <<>> /\ event_data = <<>>
=============================================================================
