------------------------ MODULE ResponseAccumulator ------------------------
(***************************************************************************)
(* The reduction of a Responses event stream, over one connection or over  *)
(* several: ResponseAccumulator::push and finish, driven by a consumer     *)
(* that may lose its connection at any event and resumes the stream with   *)
(* starting_after.                                                         *)
(*                                                                         *)
(* The server's events are numbered by their position in its log.  A text, *)
(* or the arguments of a function call, is the sequence of the numbers of  *)
(* the events it is made of, so that a delta that is lost, doubled or out  *)
(* of place shows.                                                         *)
(***************************************************************************)
EXTENDS Naturals, Sequences

CONSTANTS
  MaxIndex,   \* the largest output index
  MaxPart,    \* the largest content index of an item
  ItemIds,    \* item ids
  NoId,       \* the absence of an item id
  Items,      \* the output items the server sends
  Responses,  \* the output lists of its lifecycle events
  MaxEvents   \* bound on the events of the server

Indices == 0..MaxIndex
Parts == 0..MaxPart

ASSUME ResponseAssumption ==
  /\ NoId \notin ItemIds
  /\ MaxEvents \in Nat
  /\ MaxIndex \in Nat /\ MaxPart \in Nat
  /\ \A item \in Items :
       /\ item.type \in {"message", "function_call", "other"}
       /\ item.id \in ItemIds \cup {NoId}
       /\ item.type = "message" => item.id \in ItemIds
       /\ item.texts \subseteq Parts
  /\ \A r \in Responses : r \in Seq(Items) /\ Len(r) <= MaxIndex + 1

VARIABLES
  log,        \* the events of the server
  conn,       \* number of events before the next one, or Lost
  last,       \* last_sequence_number; 0 is None
  slots,      \* item_ids, text and function_arguments, by output index
  snapshot,   \* the number of the event whose response is kept; 0 is None
  terminal,
  result,     \* of the last push
  refused,    \* history: an event was refused for the identity of an item
  taken,      \* history: the numbers of the events that were reduced
  ahead,      \* history: the stream was resumed behind an event that was not
  outcome     \* of finish(): "none", "missing" or "ok"

streamVars == <<log, conn, last, slots, snapshot, terminal, result, refused, taken,
                ahead, outcome>>

accVars == <<last, slots, snapshot, terminal>>

Lost == MaxEvents + 1

\* The events that name an item by its id.
Addressed == {"text_delta", "set_text", "bind", "arguments_delta", "set_arguments"}

\* Every event but "unknown" has a number.  "bind" stands for the events whose
\* payload is not reduced (refusals, reasoning, the progress of hosted tools),
\* "set_text" for a content part and for a finished text.
Events ==
  [type : {"text_delta", "set_text"}, at : Indices, part : Parts, id : ItemIds]
    \cup [type : {"bind", "arguments_delta", "set_arguments"}, at : Indices,
          id : ItemIds]
    \cup [type : {"item"}, at : Indices, item : Items]
    \cup [type : {"lifecycle", "final"}, output : Responses]
    \cup [type : {"error", "ignored", "unknown"}]

\* AccumulatedText and AccumulatedArguments; id is NoId when there is none.
Piece == [id : ItemIds \cup {NoId}, from : Seq(1..MaxEvents)]

NoPiece == [id |-> NoId, from |-> <<>>]

\* What the three maps hold for one output index.
Slot == [id : ItemIds \cup {NoId}, text : [Parts -> Piece], arguments : Piece]

Results == {"ok", "duplicate", "backwards", "after_terminal", "item_mismatch",
            "content_mismatch", "stream_error"}

AccumulatorType ==
  /\ log \in Seq(Events) /\ Len(log) <= MaxEvents
  /\ conn \in 0..Lost
  /\ last \in 0..Len(log)
  /\ slots \in [Indices -> Slot]
  /\ snapshot \in 0..Len(log)
  /\ terminal \in BOOLEAN
  /\ result \in Results
  /\ refused \in BOOLEAN
  /\ taken \subseteq 1..last
  /\ ahead \in BOOLEAN
  /\ outcome \in {"none", "missing", "ok"}

AccumulatorInit ==
  /\ log = <<>>
  /\ conn = 0
  /\ last = 0
  /\ slots = [o \in Indices |->
                [id |-> NoId, text |-> [c \in Parts |-> NoPiece],
                 arguments |-> NoPiece]]
  /\ snapshot = 0
  /\ terminal = FALSE
  /\ result = "ok"
  /\ refused = FALSE
  /\ taken = {}
  /\ ahead = FALSE
  /\ outcome = "none"

----------------------------------------------------------------------------
\* What a helper of push() leaves of a slot, and the error it returns.
Done(s, r) == [slot |-> s, result |-> r]

Agrees(known, id) == known \in {NoId, id}

\* Mutant: an item id that does not match replaces the one that is bound.
BindItemAnyway(s, id) == Done([s EXCEPT !.id = id], "ok")

\* bind_item()
BindItem(s, id) ==
  IF Agrees(s.id, id) THEN Done([s EXCEPT !.id = id], "ok")
                      ELSE Done(s, "item_mismatch")

\* append_text() and set_text() at content index c; n is the event's number.
PutText(s, c, id, n, append) ==
  LET old == s.text[c]
      new == [id |-> id, from |-> IF append THEN Append(old.from, n) ELSE <<n>>]
  IN IF Agrees(old.id, id) THEN Done([s EXCEPT !.text[c] = new], "ok")
                           ELSE Done(s, "content_mismatch")

\* append_function_arguments() and set_function_arguments()
PutArguments(s, id, n, append) ==
  LET old == s.arguments
      new == [id |-> id, from |-> IF append THEN Append(old.from, n) ELSE <<n>>]
  IN IF Agrees(old.id, id) THEN Done([s EXCEPT !.arguments = new], "ok")
                           ELSE Done(s, "item_mismatch")

\* The contents of a message are set one by one up to the first that belongs
\* to another item.
SetTexts(s, item, n) ==
  LET bad == {c \in item.texts : ~Agrees(s.text[c].id, item.id)}
      set == {c \in item.texts : \A b \in bad : c < b}
  IN Done([s EXCEPT !.text = [c \in Parts |->
             IF c \in set THEN [id |-> item.id, from |-> <<n>>] ELSE @[c]]],
          IF bad = {} THEN "ok" ELSE "content_mismatch")

\* observe_output_item()
ObserveItem(s, item, n) ==
  LET bound == IF item.id = NoId THEN Done(s, "ok") ELSE BindItem(s, item.id)
  IN CASE bound.result # "ok" -> bound
       [] bound.result = "ok" /\ item.type = "message"
            -> SetTexts(bound.slot, item, n)
       [] bound.result = "ok" /\ item.type = "function_call" /\ item.id # NoId
            -> PutArguments(bound.slot, item.id, n, FALSE)
       [] OTHER -> bound

\* The events about one slot: bind_item() and then the payload.
Touch(s, e, n) ==
  LET bound == BindItem(s, e.id)
      append == e.type \in {"text_delta", "arguments_delta"}
  IN CASE e.type = "item" -> ObserveItem(s, e.item, n)
       [] e.type # "item" /\ bound.result # "ok" -> bound
       [] e.type \in {"text_delta", "set_text"} /\ bound.result = "ok"
            -> PutText(bound.slot, e.part, e.id, n, append)
       [] e.type \in {"arguments_delta", "set_arguments"} /\ bound.result = "ok"
            -> PutArguments(bound.slot, e.id, n, append)
       [] OTHER -> bound

----------------------------------------------------------------------------
\* push() of the event with number n, after the checks: its effect on the maps
\* and its result.
Reduced(e, n) ==
  LET at(o) == IF o < Len(e.output) THEN ObserveItem(slots[o], e.output[o + 1], n)
                                    ELSE Done(slots[o], "ok")
      stops == {o \in Indices : at(o).result # "ok"}
      first == CHOOSE o \in stops : \A p \in stops : o <= p
  IN CASE e.type \in {"lifecycle", "final"}
            -> \* accept_response(): the items one by one up to an error
               [slots |-> [o \in Indices |->
                  IF \A p \in stops : o <= p THEN at(o).slot ELSE slots[o]],
                result |-> IF stops = {} THEN "ok" ELSE at(first).result]
       [] e.type \in {"ignored", "unknown"}
            -> [slots |-> slots, result |-> "ok"]
       [] e.type = "error"
            -> [slots |-> slots, result |-> "stream_error"]
       [] OTHER
            -> LET t == Touch(slots[e.at], e, n)
               IN [slots |-> [slots EXCEPT ![e.at] = t.slot],
                   result |-> t.result]

\* Mutant: only the number of the last event is a duplicate.
SequenceErrorOnRepeat(e, n) == IF e.type # "unknown" /\ n = last THEN "duplicate" ELSE "ok"

\* The sequence check; an event without a number passes it.
SequenceError(e, n) ==
  IF e.type = "unknown" THEN "ok"
  ELSE IF n = last THEN "duplicate"
  ELSE IF n < last THEN "backwards"
  ELSE "ok"

\* The new last_sequence_number.
Numbered(e, n) == IF e.type = "unknown" THEN last ELSE n

Reject(why) ==
  /\ result' = why
  /\ UNCHANGED <<accVars, refused, taken>>

Push(e, n) ==
  IF terminal THEN Reject("after_terminal")
  ELSE IF SequenceError(e, n) # "ok" THEN Reject(SequenceError(e, n))
  ELSE LET r == Reduced(e, n)
           accepted == e.type \in {"lifecycle", "final"} /\ r.result = "ok"
       IN /\ last' = Numbered(e, n)
          /\ slots' = r.slots
          /\ result' = r.result
          /\ snapshot' = IF accepted THEN n ELSE snapshot
          /\ terminal' = (accepted /\ e.type = "final")
          /\ refused' = (refused \/ r.result \in {"item_mismatch",
                                                  "content_mismatch"})
          /\ taken' = IF e.type = "unknown" THEN taken ELSE taken \cup {n}

----------------------------------------------------------------------------
\* The server sends one more event.
Emit(e) ==
  /\ Len(log) < MaxEvents
  /\ log' = Append(log, e)
  /\ UNCHANGED <<conn, accVars, result, refused, taken, ahead, outcome>>

\* The consumer takes the next event of its connection and pushes it.  After
\* an error it may go on with the same accumulator.
Deliver ==
  /\ outcome = "none"
  /\ conn < Len(log)
  /\ Push(log[conn + 1], conn + 1)
  /\ conn' = conn + 1
  /\ UNCHANGED <<log, ahead, outcome>>

Disconnect ==
  /\ outcome = "none"
  /\ conn # Lost
  /\ conn' = Lost
  /\ UNCHANGED <<log, accVars, result, refused, taken, ahead, outcome>>

\* retrieve_stream() with starting_after(k), for any event k of the server: the
\* application chooses it, and may skip events that the accumulator never got.
Resume(k) ==
  /\ outcome = "none"
  /\ conn = Lost
  /\ k <= Len(log)
  /\ conn' = k
  /\ ahead' = (ahead \/ k > last)
  /\ UNCHANGED <<log, accVars, result, refused, taken, outcome>>

\* Mutant: finish() returns the latest response.
FinishEarly ==
  /\ outcome = "none"
  /\ outcome' = IF snapshot # 0 THEN "ok" ELSE "missing"
  /\ UNCHANGED <<log, conn, accVars, result, refused, taken, ahead>>

\* finish()
Finish ==
  /\ outcome = "none"
  /\ outcome' = IF terminal /\ snapshot # 0 THEN "ok" ELSE "missing"
  /\ UNCHANGED <<log, conn, accVars, result, refused, taken, ahead>>

AccumulatorNext ==
  \/ \E e \in Events : Emit(e)
  \/ Deliver
  \/ Disconnect
  \/ \E k \in 0..MaxEvents : Resume(k)
  \/ Finish

AccumulatorSpec == AccumulatorInit /\ [][AccumulatorNext]_streamVars

----------------------------------------------------------------------------
\* The item an event gives for the output index o, the ids it gives for it, and
\* the text or the arguments it sets or extends.
ItemAt(e, o) ==
  IF e.type \in {"lifecycle", "final"} /\ o < Len(e.output) THEN {e.output[o + 1]}
  ELSE IF e.type = "item" /\ e.at = o THEN {e.item} ELSE {}

Names(e, o) ==
  {item.id : item \in ItemAt(e, o)} \cup
  (IF e.type \in Addressed /\ e.at = o THEN {e.id} ELSE {})

SetsText(e, o, c) ==
  \/ e.type = "set_text" /\ e.at = o /\ e.part = c
  \/ \E item \in ItemAt(e, o) : item.type = "message" /\ c \in item.texts

AddsText(e, o, c) == e.type = "text_delta" /\ e.at = o /\ e.part = c

SetsArguments(e, o) ==
  \/ e.type = "set_arguments" /\ e.at = o
  \/ \E item \in ItemAt(e, o) : item.type = "function_call" /\ item.id # NoId

AddsArguments(e, o) == e.type = "arguments_delta" /\ e.at = o

\* from lists, in order, the latest of the numbers in sets and the numbers in
\* adds after it.
Reduces(from, sets, adds) ==
  /\ {from[k] : k \in 1..Len(from)} = {i \in sets \cup adds : \A j \in sets : j <= i}
  /\ \A k, l \in 1..Len(from) : k < l => from[k] < from[l]

\* A slot s is the reduction, for the output index o, of the events with the
\* numbers T: it has the one item id that these events give, and its texts and
\* its arguments are the latest value set and the deltas since, in order.
ReducedTo(s, o, T) ==
  /\ \A i \in T : Names(log[i], o) \subseteq {NoId, s.id}
  /\ s.id # NoId => \E i \in T : s.id \in Names(log[i], o)
  /\ \A c \in Parts :
       Reduces(s.text[c].from, {i \in T : SetsText(log[i], o, c)},
               {i \in T : AddsText(log[i], o, c)})
  /\ Reduces(s.arguments.from, {i \in T : SetsArguments(log[i], o)},
             {i \in T : AddsArguments(log[i], o)})

\* A text and the arguments of a call belong to the item that is bound to
\* their output index, so that the check of the content identity never fails
\* where that of the item has passed.
IdentityHolds ==
  /\ \A o \in Indices :
       /\ \A c \in Parts : Agrees(slots[o].text[c].id, slots[o].id)
       /\ Agrees(slots[o].arguments.id, slots[o].id)
  /\ result # "content_mismatch"

\* Whatever connections were lost and resumed and whatever was delivered
\* twice or skipped, the reduction is that of the events taken, each applied
\* once and in order of their numbers.  Those are all the server has numbered
\* up to the last, also across refused events, unless the application itself
\* resumed the stream behind an event that the accumulator had not reached:
\* push() does not notice such a gap.
ReductionIsExact ==
  /\ ~refused => \A o \in Indices : ReducedTo(slots[o], o, taken)
  /\ ~ahead => taken = {i \in 1..last : log[i].type # "unknown"}

\* finish() hands out the response of the terminal event, and never that of an
\* earlier lifecycle event of a stream that was cut short or refused.
FinishIsFinal ==
  outcome = "ok" => log[snapshot].type = "final" /\ snapshot = last
=============================================================================
