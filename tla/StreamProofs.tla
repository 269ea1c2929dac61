---------------------------- MODULE StreamProofs ----------------------------
(***************************************************************************)
(* Proofs about the two ends of an event stream.  First the reduction, for *)
(* every set of items, responses and ids and every number of events, cuts  *)
(* and resumptions.  Then the decoder, for every body, every way to cut it *)
(* into chunks and every limit.                                            *)
(***************************************************************************)
EXTENDS ResponseAccumulator, Sse, SequenceTheorems, WellFoundedInduction, TLAPS

\* A slot whose texts and arguments belong to the item that is bound to it.
SlotOK(s) ==
  /\ s \in Slot
  /\ \A c \in Parts : Agrees(s.text[c].id, s.id)
  /\ Agrees(s.arguments.id, s.id)

\* What one event of number n may make of a piece.
Becomes(new, old, sets, adds, n) ==
  new = IF sets THEN <<n>> ELSE IF adds THEN Append(old, n) ELSE old

\* The slot t is the slot s after an item in an event of number n.
Observed(t, s, item, n) ==
  /\ s.id \in {NoId, t.id} /\ item.id \in {NoId, t.id}
  /\ t.id \in {item.id, NoId, s.id}
  /\ \A c \in Parts : t.text[c].from =
       IF item.type = "message" /\ c \in item.texts THEN <<n>> ELSE s.text[c].from
  /\ t.arguments.from =
       IF item.type = "function_call" /\ item.id # NoId THEN <<n>>
       ELSE s.arguments.from

\* The slot t is the slot s after the event e of number n, for the output index o.
Applied(t, s, e, o, n) ==
  /\ s.id \in {NoId, t.id}
  /\ Names(e, o) \subseteq {NoId, t.id}
  /\ t.id \in Names(e, o) \cup {NoId, s.id}
  /\ \A c \in Parts : Becomes(t.text[c].from, s.text[c].from,
                              SetsText(e, o, c), AddsText(e, o, c), n)
  /\ Becomes(t.arguments.from, s.arguments.from,
             SetsArguments(e, o), AddsArguments(e, o), n)

\* Unless the application asked for it, the connection has skipped nothing that
\* has a number: between the last event that was reduced and the next there are
\* only events without one.
NoGap ==
  /\ conn = Lost \/ conn <= Len(log)
  /\ ~ahead /\ ~terminal /\ conn # Lost =>
       \A i \in 1..Len(log) : last < i /\ i <= conn => log[i].type = "unknown"

\* A terminal accumulator keeps the response of its last event.
Terminal ==
  /\ terminal => snapshot = last /\ snapshot # 0 /\ log[snapshot].type = "final"
  /\ outcome = "ok" => terminal

\* The inductive invariant of the accumulator.
AccumulatorInv ==
  /\ AccumulatorType /\ NoGap /\ Terminal
  /\ \A o \in Indices : SlotOK(slots[o])
  /\ result # "content_mismatch"
  /\ ReductionIsExact

----------------------------------------------------------------------------
\* bind_item() binds a slot once and changes nothing else.
LEMMA BindItemOK ==
  ASSUME NEW s, SlotOK(s), NEW id \in ItemIds, NEW b, b = BindItem(s, id)
  PROVE  /\ SlotOK(b.slot) /\ b.result \in {"ok", "item_mismatch"}
         /\ b.result # "ok" => b.slot = s
         /\ b.result = "ok" => /\ b.slot.id = id /\ s.id \in {NoId, id}
                               /\ b.slot.text = s.text
                               /\ b.slot.arguments = s.arguments
BY ResponseAssumption DEF BindItem, SlotOK, Slot, Agrees, Done

\* A log position added to a list of them.
LEMMA NumbersOK ==
  ASSUME NEW S, NEW f \in Seq(S), NEW n \in S
  PROVE  Append(f, n) \in Seq(S) /\ <<n>> \in Seq(S)
<1>1. <<n>> \in Seq(S)
  OBVIOUS
<1> QED
  BY <1>1

\* A text of the bound item is set or appended to, whatever the slot held.
LEMMA PutTextOK ==
  ASSUME NEW s, SlotOK(s), s.id \in ItemIds, NEW c \in Parts,
         NEW n \in 1..MaxEvents, NEW append \in BOOLEAN,
         NEW t, t = PutText(s, c, s.id, n, append)
  PROVE  /\ SlotOK(t.slot) /\ t.result = "ok" /\ t.slot.id = s.id
         /\ t.slot.arguments = s.arguments
         /\ t.slot.text[c].from = IF append THEN Append(s.text[c].from, n) ELSE <<n>>
         /\ \A d \in Parts \ {c} : t.slot.text[d] = s.text[d]
<1> DEFINE new == [id |-> s.id,
                   from |-> IF append THEN Append(s.text[c].from, n) ELSE <<n>>]
<1>1. new \in Piece
  <2>1. s.text[c].from \in Seq(1..MaxEvents) /\ s.text \in [Parts -> Piece]
    BY DEF SlotOK, Slot, Piece
  <2>2. new.from \in Seq(1..MaxEvents)
    BY <2>1, NumbersOK
  <2> QED
    BY <2>2 DEF Piece
<1>2. t = Done([s EXCEPT !.text[c] = new], "ok")
  BY DEF PutText, SlotOK, Agrees
<1>3. /\ t.result = "ok" /\ t.slot.id = s.id /\ t.slot.arguments = s.arguments
      /\ t.slot.text = [s.text EXCEPT ![c] = new]
  <2> HIDE DEF new
  <2> QED
    BY <1>2 DEF Done, SlotOK, Slot
<1>4. t.slot \in Slot
  <2> HIDE DEF new
  <2>1. [s.text EXCEPT ![c] = new] \in [Parts -> Piece]
    BY <1>1 DEF SlotOK, Slot
  <2>2. t.slot = [s EXCEPT !.text = [s.text EXCEPT ![c] = new]]
    BY <1>2 DEF Done, SlotOK, Slot
  <2> QED
    BY <2>1, <2>2 DEF SlotOK, Slot
<1> QED
  BY <1>1, <1>3, <1>4 DEF SlotOK, Slot, Agrees

\* The same for the arguments of the bound item.
LEMMA PutArgumentsOK ==
  ASSUME NEW s, SlotOK(s), s.id \in ItemIds,
         NEW n \in 1..MaxEvents, NEW append \in BOOLEAN,
         NEW t, t = PutArguments(s, s.id, n, append)
  PROVE  /\ SlotOK(t.slot) /\ t.result = "ok" /\ t.slot.id = s.id
         /\ t.slot.text = s.text
         /\ t.slot.arguments.from =
              IF append THEN Append(s.arguments.from, n) ELSE <<n>>
<1> DEFINE new == [id |-> s.id,
                   from |-> IF append THEN Append(s.arguments.from, n) ELSE <<n>>]
<1>1. new \in Piece
  <2>1. s.arguments.from \in Seq(1..MaxEvents)
    BY DEF SlotOK, Slot, Piece
  <2>2. new.from \in Seq(1..MaxEvents)
    BY <2>1, NumbersOK
  <2> QED
    BY <2>2 DEF Piece
<1>2. t = Done([s EXCEPT !.arguments = new], "ok")
  BY DEF PutArguments, SlotOK, Agrees
<1>3. /\ t.result = "ok" /\ t.slot.id = s.id /\ t.slot.arguments = new
      /\ t.slot.text = s.text
  BY <1>2 DEF Done, SlotOK, Slot
<1>4. t.slot \in Slot
  BY <1>1, <1>2, <1>3 DEF Done, SlotOK, Slot
<1> QED
  BY <1>1, <1>3, <1>4 DEF SlotOK, Slot, Agrees

\* The texts of a message replace those of its parts.
LEMMA SetTextsOK ==
  ASSUME NEW s, SlotOK(s), NEW item \in Items, item.type = "message", s.id = item.id,
         NEW n \in 1..MaxEvents, NEW t, t = SetTexts(s, item, n)
  PROVE  /\ SlotOK(t.slot) /\ t.result = "ok" /\ t.slot.id = s.id
         /\ t.slot.arguments = s.arguments
         /\ \A c \in Parts : t.slot.text[c].from =
              IF c \in item.texts THEN <<n>> ELSE s.text[c].from
<1> DEFINE text == [c \in Parts |->
                      IF c \in item.texts THEN [id |-> item.id, from |-> <<n>>]
                      ELSE s.text[c]]
<1>1. item.id \in ItemIds /\ item.texts \subseteq Parts
  BY ResponseAssumption
<1>2. {c \in item.texts : ~Agrees(s.text[c].id, item.id)} = {}
  BY <1>1 DEF SlotOK
<1>3. text \in [Parts -> Piece]
  BY <1>1 DEF SlotOK, Slot, Piece
<1>4. t = Done([s EXCEPT !.text = text], "ok")
  BY <1>2 DEF SetTexts
<1>5. /\ t.result = "ok" /\ t.slot.id = s.id /\ t.slot.arguments = s.arguments
      /\ t.slot.text = text
  BY <1>4 DEF Done, SlotOK, Slot
<1>6. t.slot \in Slot
  BY <1>3, <1>4, <1>5 DEF Done, SlotOK, Slot
<1> QED
  BY <1>5, <1>6 DEF SlotOK, Slot, Agrees

\* An item is either refused or leaves the slot that Observed describes.
LEMMA ObserveItemOK ==
  ASSUME NEW s, SlotOK(s), NEW item \in Items, NEW n \in 1..MaxEvents,
         NEW t, t = ObserveItem(s, item, n)
  PROVE  /\ SlotOK(t.slot) /\ t.result \in {"ok", "item_mismatch"}
         /\ t.result = "ok" => Observed(t.slot, s, item, n)
<1> DEFINE bound == IF item.id = NoId THEN Done(s, "ok") ELSE BindItem(s, item.id)
<1>1. /\ item.type \in {"message", "function_call", "other"}
      /\ item.id \in ItemIds \cup {NoId}
      /\ item.type = "message" => item.id \in ItemIds
  BY ResponseAssumption
<1>2. /\ SlotOK(bound.slot) /\ bound.result \in {"ok", "item_mismatch"}
      /\ bound.result = "ok" => /\ bound.slot.text = s.text
                                /\ bound.slot.arguments = s.arguments
                                /\ s.id \in {NoId, bound.slot.id}
                                /\ item.id # NoId => bound.slot.id = item.id
                                /\ item.id = NoId => bound.slot.id = s.id
  <2>1. CASE item.id = NoId
    BY <2>1 DEF Done
  <2>2. CASE item.id # NoId
    <3>1. item.id \in ItemIds
      BY <1>1, <2>2
    <3> QED
      BY <2>2, <3>1, BindItemOK
  <2> QED
    BY <2>1, <2>2
<1> HIDE DEF bound
<1>3. CASE bound.result # "ok"
  <2>1. t = bound
    BY <1>3 DEF ObserveItem, bound
  <2> QED
    BY <1>2, <1>3, <2>1
<1>4. CASE bound.result = "ok" /\ item.type = "message"
  <2>1. t = SetTexts(bound.slot, item, n)
    BY <1>4 DEF ObserveItem, bound
  <2>2. item.id # NoId /\ bound.slot.id = item.id
    BY <1>1, <1>2, <1>4, ResponseAssumption
  <2>3. /\ SlotOK(t.slot) /\ t.result = "ok" /\ t.slot.id = item.id
        /\ t.slot.arguments = s.arguments
        /\ \A c \in Parts : t.slot.text[c].from =
             IF c \in item.texts THEN <<n>> ELSE bound.slot.text[c].from
    BY <1>2, <1>4, <2>1, <2>2, SetTextsOK
  <2> QED
    BY <1>2, <1>4, <2>2, <2>3 DEF Observed
<1>5. CASE bound.result = "ok" /\ item.type = "function_call" /\ item.id # NoId
  <2>1. t = PutArguments(bound.slot, bound.slot.id, n, FALSE)
    BY <1>2, <1>5 DEF ObserveItem, bound
  <2>2. bound.slot.id = item.id /\ bound.slot.id \in ItemIds
    BY <1>1, <1>2, <1>5
  <2>3. /\ SlotOK(t.slot) /\ t.result = "ok" /\ t.slot.id = bound.slot.id
        /\ t.slot.text = bound.slot.text
        /\ t.slot.arguments.from = <<n>>
    <3> DEFINE append == item.type = "message"
    <3>1. append \in BOOLEAN /\ ~append
      BY <1>5
    <3>2. t = PutArguments(bound.slot, bound.slot.id, n, append)
      BY <2>1, <3>1
    <3> HIDE DEF append
    <3>3. SlotOK(bound.slot) /\ append \in BOOLEAN
      BY <1>2, <3>1
    <3>4. /\ SlotOK(t.slot) /\ t.result = "ok" /\ t.slot.id = bound.slot.id
          /\ t.slot.text = bound.slot.text
          /\ t.slot.arguments.from =
               IF append THEN Append(bound.slot.arguments.from, n) ELSE <<n>>
      BY <2>2, <3>2, <3>3, PutArgumentsOK
    <3> QED
      BY <3>1, <3>4
  <2> QED
    BY <1>2, <1>5, <2>2, <2>3 DEF Observed
<1>6. CASE /\ bound.result = "ok" /\ item.type # "message"
           /\ ~(item.type = "function_call" /\ item.id # NoId)
  <2>1. t = bound
    BY <1>6 DEF ObserveItem, bound
  <2> QED
    BY <1>1, <1>2, <1>6, <2>1 DEF Observed
<1> QED
  BY <1>1, <1>3, <1>4, <1>5, <1>6

\* The fields of an event, by its type.
LEMMA EventFields ==
  ASSUME NEW e \in Events
  PROVE  /\ e.type \in Addressed \cup {"item", "lifecycle", "final", "error",
                                       "ignored", "unknown"}
         /\ e.type \in Addressed => e.at \in Indices /\ e.id \in ItemIds
         /\ e.type \in {"text_delta", "set_text"} => e.part \in Parts
         /\ e.type = "item" => e.at \in Indices /\ e.item \in Items
         /\ e.type \in {"lifecycle", "final"} => e.output \in Responses
BY DEF Events, Addressed

\* An event that carries one item for the output index o.
LEMMA ItemApplied ==
  ASSUME NEW s, SlotOK(s), NEW item \in Items, NEW n \in 1..MaxEvents,
         NEW t, t = ObserveItem(s, item, n), t.result = "ok",
         NEW e \in Events, NEW o \in Indices, e.type \in {"item", "lifecycle", "final"},
         ItemAt(e, o) = {item}
  PROVE  Applied(t.slot, s, e, o, n)
<1>1. Names(e, o) = {item.id}
  BY DEF Names, Addressed
<1>2. \A c \in Parts : /\ SetsText(e, o, c) <=> item.type = "message" /\ c \in item.texts
                       /\ ~AddsText(e, o, c)
  BY DEF SetsText, AddsText
<1>3. /\ SetsArguments(e, o) <=> item.type = "function_call" /\ item.id # NoId
      /\ ~AddsArguments(e, o)
  BY DEF SetsArguments, AddsArguments
<1> QED
  BY <1>1, <1>2, <1>3, ObserveItemOK DEF Applied, Becomes, Observed

\* An event that says nothing about the output index o.
LEMMA NothingApplied ==
  ASSUME NEW s, NEW e \in Events, NEW o \in Indices, NEW n,
         ItemAt(e, o) = {}, e.type \in Addressed => e.at # o
  PROVE  Applied(s, s, e, o, n)
<1>1. Names(e, o) = {}
  BY DEF Names
<1>2. /\ ~SetsArguments(e, o) /\ ~AddsArguments(e, o)
      /\ \A c \in Parts : ~SetsText(e, o, c) /\ ~AddsText(e, o, c)
  BY DEF SetsText, AddsText, SetsArguments, AddsArguments, Addressed
<1> QED
  BY <1>1, <1>2 DEF Applied, Becomes

\* An event is either refused or leaves the slots that Applied describes.
LEMMA TouchOK ==
  ASSUME NEW s, SlotOK(s), NEW e \in Events, e.type \in Addressed \cup {"item"},
         NEW n \in 1..MaxEvents, NEW t, t = Touch(s, e, n)
  PROVE  /\ SlotOK(t.slot) /\ t.result \in {"ok", "item_mismatch"}
         /\ t.result = "ok" => Applied(t.slot, s, e, e.at, n)
<1> DEFINE bound == BindItem(s, e.id)
           append == e.type \in {"text_delta", "arguments_delta"}
<1>1. CASE e.type = "item"
  <2>1. t = ObserveItem(s, e.item, n)
    BY <1>1 DEF Touch
  <2>2. e.item \in Items /\ e.at \in Indices /\ ItemAt(e, e.at) = {e.item}
    BY <1>1, EventFields DEF ItemAt
  <2>3. SlotOK(t.slot) /\ t.result \in {"ok", "item_mismatch"}
    <3>1. \A item \in Items : \A u : u = ObserveItem(s, item, n) =>
            SlotOK(u.slot) /\ u.result \in {"ok", "item_mismatch"}
      BY ObserveItemOK
    <3> QED
      BY <2>1, <2>2, <3>1
  <2>4. ASSUME t.result = "ok" PROVE Applied(t.slot, s, e, e.at, n)
    BY <1>1, <2>1, <2>2, <2>4, ItemApplied
  <2> QED
    BY <2>3, <2>4
<1>2. CASE e.type \in Addressed
  <2>1. /\ e.at \in Indices /\ e.id \in ItemIds /\ e.type # "item"
        /\ ItemAt(e, e.at) = {} /\ Names(e, e.at) = {e.id}
    BY <1>2, EventFields DEF ItemAt, Names, Addressed
  <2>2. /\ SlotOK(bound.slot) /\ bound.result \in {"ok", "item_mismatch"}
        /\ bound.result = "ok" => /\ bound.slot.id = e.id /\ s.id \in {NoId, e.id}
                                  /\ bound.slot.text = s.text
                                  /\ bound.slot.arguments = s.arguments
    BY <2>1, BindItemOK
  <2>3. /\ SetsArguments(e, e.at) <=> e.type = "set_arguments"
        /\ AddsArguments(e, e.at) <=> e.type = "arguments_delta"
        /\ \A c \in Parts :
             /\ SetsText(e, e.at, c) <=> e.type = "set_text" /\ e.part = c
             /\ AddsText(e, e.at, c) <=> e.type = "text_delta" /\ e.part = c
    BY <2>1 DEF SetsText, AddsText, SetsArguments, AddsArguments
  <2> HIDE DEF bound
  <2>4. CASE bound.result # "ok"
    <3>1. t = bound
      BY <2>1, <2>4 DEF Touch, bound
    <3> QED
      BY <2>2, <2>4, <3>1
  <2>5. CASE bound.result = "ok" /\ e.type \in {"text_delta", "set_text"}
    <3>1. t = PutText(bound.slot, e.part, bound.slot.id, n, append)
      BY <2>1, <2>2, <2>5 DEF Touch, bound
    <3>2. e.part \in Parts /\ append \in BOOLEAN
      BY <2>5, EventFields
    <3>3. /\ SlotOK(t.slot) /\ t.result = "ok" /\ t.slot.id = e.id
          /\ t.slot.arguments = s.arguments
          /\ t.slot.text[e.part].from =
               IF append THEN Append(s.text[e.part].from, n) ELSE <<n>>
          /\ \A d \in Parts \ {e.part} : t.slot.text[d] = s.text[d]
      <4> HIDE DEF append
      <4> QED
        BY <2>1, <2>2, <2>5, <3>1, <3>2, PutTextOK
    <3> QED
      BY <2>1, <2>2, <2>3, <2>5, <3>2, <3>3 DEF Applied, Becomes
  <2>6. CASE bound.result = "ok" /\ e.type \in {"arguments_delta", "set_arguments"}
    <3>1. t = PutArguments(bound.slot, bound.slot.id, n, append)
      BY <2>1, <2>2, <2>6 DEF Touch, bound
    <3>2. append \in BOOLEAN
      OBVIOUS
    <3>3. /\ SlotOK(t.slot) /\ t.result = "ok" /\ t.slot.id = e.id
          /\ t.slot.text = s.text
          /\ t.slot.arguments.from =
               IF append THEN Append(s.arguments.from, n) ELSE <<n>>
      <4> HIDE DEF append
      <4> QED
        BY <2>1, <2>2, <2>6, <3>1, <3>2, PutArgumentsOK
    <3> QED
      BY <2>1, <2>2, <2>3, <2>6, <3>3 DEF Applied, Becomes
  <2>7. CASE bound.result = "ok" /\ e.type = "bind"
    <3>1. t = bound
      BY <2>1, <2>7 DEF Touch, bound
    <3> QED
      BY <2>1, <2>2, <2>3, <2>7, <3>1 DEF Applied, Becomes
  <2> QED
    BY <1>2, <2>2, <2>4, <2>5, <2>6, <2>7 DEF Addressed
<1> QED
  BY <1>1, <1>2

\* A set of numbers has a least member.
LEMMA Least ==
  ASSUME NEW T, T \subseteq Nat, T # {}
  PROVE  \E x \in T : \A y \in T : x <= y
<1> DEFINE R == {ss \in Nat \X Nat : ss[1] < ss[2]}
<1>1. IsWellFoundedOn(R, Nat)
  BY NatLessThanWellFounded, Zenon DEF OpToRel
<1>2. PICK x \in T : \A y \in T : ~(<<y, x>> \in R)
  <2> HIDE DEF R
  <2> QED
    BY <1>1, WFMin
<1>3. ASSUME NEW y \in T, y < x PROVE FALSE
  <2>1. <<y, x>> \in Nat \X Nat /\ <<y, x>>[1] < <<y, x>>[2]
    BY <1>3
  <2> QED
    BY <1>2, <2>1, Zenon
<1> QED
  BY <1>3

\* The items of a response are observed one by one up to an error.
LEMMA ResponseOK ==
  ASSUME AccumulatorType, \A o \in Indices : SlotOK(slots[o]), NEW e \in Events,
         e.type \in {"lifecycle", "final"}, NEW n \in 1..MaxEvents,
         NEW r, r = Reduced(e, n)
  PROVE  /\ DOMAIN r.slots = Indices /\ \A o \in Indices : SlotOK(r.slots[o])
         /\ r.result \in {"ok", "item_mismatch"}
         /\ r.result = "ok" =>
              \A o \in Indices : Applied(r.slots[o], slots[o], e, o, n)
<1> DEFINE at(o) == IF o < Len(e.output) THEN ObserveItem(slots[o], e.output[o + 1], n)
                                         ELSE Done(slots[o], "ok")
           stops == {o \in Indices : at(o).result # "ok"}
           first == CHOOSE o \in stops : \A p \in stops : o <= p
           done == [o \in Indices |->
                      IF \A p \in stops : o <= p THEN at(o).slot ELSE slots[o]]
<1>1. r = [slots |-> done, result |-> IF stops = {} THEN "ok" ELSE at(first).result]
  BY DEF Reduced
<1>2. ASSUME NEW o \in Indices
      PROVE  /\ SlotOK(at(o).slot) /\ at(o).result \in {"ok", "item_mismatch"}
             /\ at(o).result = "ok" => Applied(at(o).slot, slots[o], e, o, n)
  <2>1. CASE o < Len(e.output)
    <3>1. e.output \in Seq(Items) /\ Len(e.output) \in Nat
      BY EventFields, ResponseAssumption
    <3>2. o \in Nat /\ e.output[o + 1] \in Items /\ ItemAt(e, o) = {e.output[o + 1]}
      BY <2>1, <3>1, ResponseAssumption DEF Indices, ItemAt
    <3>3. SlotOK(slots[o]) /\ at(o) = ObserveItem(slots[o], e.output[o + 1], n)
      BY <2>1
    <3> HIDE DEF at
    <3>4. SlotOK(at(o).slot) /\ at(o).result \in {"ok", "item_mismatch"}
      BY <3>2, <3>3, ObserveItemOK
    <3>5. ASSUME at(o).result = "ok" PROVE Applied(at(o).slot, slots[o], e, o, n)
      BY <3>2, <3>3, <3>5, ItemApplied
    <3> QED
      BY <3>4, <3>5
  <2>2. CASE ~(o < Len(e.output))
    <3>1. at(o).slot = slots[o] /\ at(o).result = "ok" /\ SlotOK(slots[o])
      BY <2>2 DEF Done
    <3>2. ItemAt(e, o) = {} /\ e.type \notin Addressed
      BY <2>2 DEF ItemAt, Addressed
    <3>3. Applied(slots[o], slots[o], e, o, n)
      BY <3>2, NothingApplied
    <3> QED
      BY <3>1, <3>3
  <2> QED
    BY <2>1, <2>2
<1> HIDE DEF at
<1>3. stops # {} => first \in stops
  <2>1. stops \subseteq Nat
    BY ResponseAssumption DEF Indices
  <2> HIDE DEF stops
  <2> QED
    BY <2>1, Least
<1>4. r.slots = done /\ r.result \in {"ok", "item_mismatch"}
  <2> HIDE DEF done, first
  <2> QED
    BY <1>1, <1>2, <1>3
<1>5. r.result = "ok" => stops = {}
  <2> HIDE DEF done, first
  <2> QED
    BY <1>1, <1>3
<1> QED
  BY <1>2, <1>4, <1>5

\* What push() makes of an event that passes the checks.
LEMMA ReducedOK ==
  ASSUME AccumulatorType, \A o \in Indices : SlotOK(slots[o]), NEW e \in Events,
         NEW n \in 1..MaxEvents, NEW r, r = Reduced(e, n)
  PROVE  /\ r.slots \in [Indices -> Slot] /\ \A o \in Indices : SlotOK(r.slots[o])
         /\ r.result \in {"ok", "item_mismatch", "stream_error"}
         /\ r.result # "item_mismatch" =>
              \A o \in Indices : Applied(r.slots[o], slots[o], e, o, n)
<1> SUFFICES /\ DOMAIN r.slots = Indices /\ r.slots = [o \in Indices |-> r.slots[o]]
             /\ \A o \in Indices : SlotOK(r.slots[o])
             /\ r.result \in {"ok", "item_mismatch", "stream_error"}
             /\ r.result # "item_mismatch" =>
                  \A o \in Indices : Applied(r.slots[o], slots[o], e, o, n)
  BY DEF SlotOK
<1>1. CASE e.type \in {"lifecycle", "final"}
  BY <1>1, ResponseOK DEF Reduced
<1>2. CASE e.type \in {"ignored", "unknown", "error"}
  <2>1. r.slots = slots /\ r.result \in {"ok", "stream_error"}
    BY <1>2 DEF Reduced
  <2>2. \A o \in Indices : Applied(slots[o], slots[o], e, o, n)
    <3>1. \A o \in Indices : ItemAt(e, o) = {} /\ e.type \notin Addressed
      BY <1>2 DEF ItemAt, Addressed
    <3> QED
      BY <3>1, NothingApplied
  <2> QED
    BY <2>1, <2>2 DEF AccumulatorType
<1>3. CASE e.type \in Addressed \cup {"item"}
  <2> DEFINE t == Touch(slots[e.at], e, n)
  <2>1. e.at \in Indices
    BY <1>3, EventFields
  <2>2. r = [slots |-> [slots EXCEPT ![e.at] = t.slot], result |-> t.result]
    BY <1>3 DEF Reduced, Addressed
  <2>3. /\ SlotOK(t.slot) /\ t.result \in {"ok", "item_mismatch"}
        /\ t.result = "ok" => Applied(t.slot, slots[e.at], e, e.at, n)
    BY <1>3, <2>1, TouchOK
  <2>4. \A o \in Indices : o # e.at => Applied(slots[o], slots[o], e, o, n)
    <3>1. \A o \in Indices : o # e.at => ItemAt(e, o) = {}
      BY <1>3 DEF ItemAt, Addressed
    <3> QED
      BY <3>1, NothingApplied
  <2> HIDE DEF t
  <2>5. r.slots = [slots EXCEPT ![e.at] = t.slot] /\ r.result = t.result
    BY <2>2
  <2> QED
    BY <2>1, <2>3, <2>4, <2>5 DEF AccumulatorType
<1> QED
  BY <1>1, <1>2, <1>3, EventFields

----------------------------------------------------------------------------
\* One more event keeps a piece the reduction of the events so far.
LEMMA BecomesReduces ==
  ASSUME NEW n \in Nat \ {0}, NEW old \in Seq(1..MaxEvents), NEW new,
         NEW S \in SUBSET (1..n), NEW A \in SUBSET (1..n),
         Reduces(old, S \ {n}, A \ {n}), Becomes(new, old, n \in S, n \in A, n)
  PROVE  Reduces(new, S, A)
<1>1. CASE n \in S
  <2>1. new = <<n>> /\ Len(new) = 1 /\ new[1] = n
    BY <1>1 DEF Becomes
  <2>2. {new[k] : k \in 1..Len(new)} = {n}
    BY <2>1
  <2>3. {i \in S \cup A : \A j \in S : j <= i} = {n}
    <3>1. \A i \in S \cup A : i \in Nat /\ i <= n
      OBVIOUS
    <3>2. ASSUME NEW i \in S \cup A, \A j \in S : j <= i PROVE i = n
      BY <1>1, <3>1, <3>2
    <3>3. \A j \in S : j <= n
      BY <3>1
    <3> QED
      BY <1>1, <3>2, <3>3
  <2> QED
    BY <2>1, <2>2, <2>3 DEF Reduces
<1>2. CASE n \notin S /\ n \in A
  <2>1. new = Append(old, n)
    BY <1>2 DEF Becomes
  <2>2. \A k \in 1..Len(old) : old[k] \in (S \cup A) \ {n}
    BY <1>2 DEF Reduces
  <2>3. \A k \in 1..Len(old) : old[k] < n
    <3>1. \A i \in (S \cup A) \ {n} : i < n
      OBVIOUS
    <3> QED
      BY <2>2, <3>1
  <2>4. /\ Len(new) = Len(old) + 1 /\ new[Len(old) + 1] = n
        /\ \A k \in 1..Len(old) : new[k] = old[k]
    BY <2>1
  <2>5. {new[k] : k \in 1..Len(new)} = {old[k] : k \in 1..Len(old)} \cup {n}
    BY <2>4
  <2>6. {i \in S \cup A : \A j \in S : j <= i}
          = {i \in (S \ {n}) \cup (A \ {n}) : \A j \in S \ {n} : j <= i} \cup {n}
    BY <1>2
  <2>7. \A k, l \in 1..Len(new) : k < l => new[k] < new[l]
    BY <2>3, <2>4 DEF Reduces
  <2> QED
    BY <2>5, <2>6, <2>7 DEF Reduces
<1>3. CASE n \notin S /\ n \notin A
  BY <1>3 DEF Becomes, Reduces
<1> QED
  BY <1>1, <1>2, <1>3

\* One more event, applied once.
LEMMA AppliedReduces ==
  ASSUME NEW n \in 1..Len(log), NEW o \in Indices, NEW s, SlotOK(s), NEW t,
         NEW T \in SUBSET (1..(n - 1)),
         ReducedTo(s, o, T), Applied(t, s, log[n], o, n), AccumulatorType
  PROVE  ReducedTo(t, o, T \cup {n})
<1> DEFINE U == T \cup {n}
<1>1. n \in Nat \ {0} /\ U \subseteq 1..n /\ U \ {n} = T /\ n \in U
  BY DEF AccumulatorType
<1>2. \A i \in U : Names(log[i], o) \subseteq {NoId, t.id}
  BY <1>1 DEF ReducedTo, Applied
<1>3. t.id # NoId => \E i \in U : t.id \in Names(log[i], o)
  BY <1>1 DEF ReducedTo, Applied
<1> HIDE DEF U
<1>4. ASSUME NEW c \in Parts
      PROVE  Reduces(t.text[c].from, {i \in U : SetsText(log[i], o, c)},
                     {i \in U : AddsText(log[i], o, c)})
  <2> DEFINE S == {i \in U : SetsText(log[i], o, c)}
             A == {i \in U : AddsText(log[i], o, c)}
  <2>1. /\ S \ {n} = {i \in T : SetsText(log[i], o, c)}
        /\ A \ {n} = {i \in T : AddsText(log[i], o, c)}
    BY <1>1
  <2>2. s.text[c].from \in Seq(1..MaxEvents)
    BY DEF SlotOK, Slot, Piece
  <2>3. Becomes(t.text[c].from, s.text[c].from, n \in S, n \in A, n)
    BY <1>1 DEF Applied, Becomes
  <2>4. Reduces(s.text[c].from, S \ {n}, A \ {n})
    BY <2>1 DEF ReducedTo
  <2> HIDE DEF S, A
  <2>5. S \in SUBSET (1..n) /\ A \in SUBSET (1..n)
    BY <1>1 DEF S, A
  <2>6. Reduces(t.text[c].from, S, A)
    BY <1>1, <2>2, <2>3, <2>4, <2>5, BecomesReduces
  <2> QED
    BY <2>6 DEF S, A
<1>5. Reduces(t.arguments.from, {i \in U : SetsArguments(log[i], o)},
              {i \in U : AddsArguments(log[i], o)})
  <2> DEFINE S == {i \in U : SetsArguments(log[i], o)}
             A == {i \in U : AddsArguments(log[i], o)}
  <2>1. /\ S \ {n} = {i \in T : SetsArguments(log[i], o)}
        /\ A \ {n} = {i \in T : AddsArguments(log[i], o)}
    BY <1>1
  <2>2. s.arguments.from \in Seq(1..MaxEvents)
    BY DEF SlotOK, Slot, Piece
  <2>3. Becomes(t.arguments.from, s.arguments.from, n \in S, n \in A, n)
    BY <1>1 DEF Applied, Becomes
  <2>4. Reduces(s.arguments.from, S \ {n}, A \ {n})
    BY <2>1 DEF ReducedTo
  <2> HIDE DEF S, A
  <2>5. S \in SUBSET (1..n) /\ A \in SUBSET (1..n)
    BY <1>1 DEF S, A
  <2>6. Reduces(t.arguments.from, S, A)
    BY <1>1, <2>2, <2>3, <2>4, <2>5, BecomesReduces
  <2> QED
    BY <2>6 DEF S, A
<1>6. ReducedTo(t, o, U)
  BY <1>2, <1>3, <1>4, <1>5 DEF ReducedTo
<1> QED
  BY <1>6 DEF U

----------------------------------------------------------------------------
\* The empty accumulator.
LEMMA AccumulatorInitInv == AccumulatorInit => AccumulatorInv
<1> SUFFICES ASSUME AccumulatorInit PROVE AccumulatorInv
  OBVIOUS
<1> USE ResponseAssumption DEF AccumulatorInit
<1>1. NoPiece \in Piece
  <2>1. <<>> \in Seq(1..MaxEvents)
    OBVIOUS
  <2> QED
    BY <2>1 DEF NoPiece, Piece
<1>2. ASSUME NEW o \in Indices PROVE SlotOK(slots[o])
  BY <1>1 DEF SlotOK, Slot, Agrees, NoPiece
<1>3. AccumulatorType
  <2>1. log \in Seq(Events) /\ Len(log) = 0
    OBVIOUS
  <2>2. slots \in [Indices -> Slot]
    BY <1>2 DEF SlotOK
  <2>3. terminal \in BOOLEAN /\ refused \in BOOLEAN /\ ahead \in BOOLEAN
    OBVIOUS
  <2>4. taken \subseteq 1..last
    OBVIOUS
  <2> QED
    BY <2>1, <2>2, <2>3, <2>4 DEF AccumulatorType, Lost, Results
<1>4. ASSUME NEW o \in Indices PROVE ReducedTo(slots[o], o, taken)
  <2>1. /\ slots[o].id = NoId /\ slots[o].arguments.from = <<>>
        /\ \A c \in Parts : slots[o].text[c].from = <<>>
    BY DEF NoPiece
  <2>2. taken = {}
    OBVIOUS
  <2>3. Reduces(<<>>, {}, {})
    BY DEF Reduces
  <2> QED
    BY <2>1, <2>2, <2>3 DEF ReducedTo
<1>5. taken = {i \in 1..last : log[i].type # "unknown"}
  <2>1. 1..last = {} /\ taken = {}
    OBVIOUS
  <2> QED
    BY <2>1, Zenon
<1> QED
  BY <1>2, <1>3, <1>4, <1>5 DEF AccumulatorInv, NoGap, Terminal, ReductionIsExact, Lost

\* The server's log only grows: what it holds already stays.
LEMMA EmitInv == ASSUME AccumulatorInv, NEW e \in Events, Emit(e) PROVE AccumulatorInv'
<1> USE ResponseAssumption
<1>1. /\ log' \in Seq(Events) /\ Len(log') = Len(log) + 1 /\ Len(log) \in Nat
      /\ \A i \in 1..Len(log) : log'[i] = log[i]
  BY DEF Emit, AccumulatorInv, AccumulatorType
<1>2. UNCHANGED <<conn, last, slots, snapshot, terminal, result, refused, taken, ahead,
                  outcome>>
  BY DEF Emit, accVars
<1>3. AccumulatorType'
  BY <1>1, <1>2 DEF Emit, AccumulatorInv, AccumulatorType
<1>4. NoGap' /\ Terminal'
  BY <1>1, <1>2 DEF AccumulatorInv, AccumulatorType, NoGap, Terminal, Lost, Emit
<1>5. last \in 0..Len(log) /\ taken \subseteq 1..last
  BY DEF AccumulatorInv, AccumulatorType
<1>6. \A i \in 1..last : log'[i] = log[i]
  <2>1. \A i \in 1..last : i \in 1..Len(log)
    BY <1>5, <1>1
  <2> QED
    BY <1>1, <2>1
<1>7. ASSUME NEW o \in Indices PROVE SlotOK(slots[o])'
  BY <1>2 DEF AccumulatorInv, SlotOK
<1>8. ASSUME NEW o \in Indices, ReducedTo(slots[o], o, taken)
      PROVE  ReducedTo(slots[o], o, taken)'
  <2>1. \A i \in taken : log'[i] = log[i]
    BY <1>5, <1>6
  <2>2. \A c \in Parts :
          /\ {i \in taken : SetsText(log'[i], o, c)} =
               {i \in taken : SetsText(log[i], o, c)}
          /\ {i \in taken : AddsText(log'[i], o, c)} =
               {i \in taken : AddsText(log[i], o, c)}
    BY <2>1
  <2>3. /\ {i \in taken : SetsArguments(log'[i], o)} =
             {i \in taken : SetsArguments(log[i], o)}
        /\ {i \in taken : AddsArguments(log'[i], o)} =
             {i \in taken : AddsArguments(log[i], o)}
    BY <2>1
  <2> QED
    BY <1>2, <1>8, <2>1, <2>2, <2>3 DEF ReducedTo
<1>9. {i \in 1..last : log[i].type # "unknown"}' = {i \in 1..last : log[i].type # "unknown"}
  BY <1>2, <1>6
<1> QED
  BY <1>2, <1>3, <1>4, <1>7, <1>8, <1>9 DEF AccumulatorInv, ReductionIsExact

\* push() of the next event the connection has: refused, skipped or applied.
LEMMA DeliverInv == ASSUME AccumulatorInv, Deliver PROVE AccumulatorInv'
<1> USE ResponseAssumption
<1> DEFINE n == conn + 1
           e == log[n]
           r == Reduced(e, n)
<1>1. /\ Len(log) \in Nat /\ conn \in Nat /\ n \in 1..Len(log) /\ n \in 1..MaxEvents
      /\ conn # Lost /\ e \in Events
  BY DEF Deliver, AccumulatorInv, AccumulatorType, Lost
<1>2. /\ log' = log /\ outcome' = outcome /\ outcome = "none" /\ conn' = n
      /\ ahead' = ahead /\ Push(e, n)
  BY DEF Deliver
<1> HIDE DEF e, r
<1>3. ASSUME NEW why \in {"after_terminal", "duplicate", "backwards"}, Reject(why),
             terminal \/ n <= last
      PROVE  AccumulatorInv'
  <2>1. UNCHANGED <<last, slots, snapshot, terminal, refused, taken>> /\ result' = why
    BY <1>3 DEF Reject, accVars
  <2>2. AccumulatorType'
    BY <1>1, <1>2, <2>1 DEF AccumulatorInv, AccumulatorType, Lost, Results
  <2>3. NoGap'
    BY <1>1, <1>2, <1>3, <2>1 DEF AccumulatorInv, AccumulatorType, NoGap
  <2>4. Terminal'
    BY <1>2, <2>1 DEF AccumulatorInv, Terminal
  <2>5. (\A o \in Indices : SlotOK(slots[o]))' /\ result' # "content_mismatch"
    BY <2>1 DEF AccumulatorInv, SlotOK
  <2>6. ReductionIsExact'
    <3>1. ASSUME ~refused', NEW o \in Indices PROVE ReducedTo(slots'[o], o, taken')
      BY <2>1, <3>1 DEF AccumulatorInv, ReductionIsExact
    <3> QED
      <4>1. ~ahead' => taken' = {i \in 1..last : log[i].type # "unknown"}'
        BY <1>2, <2>1 DEF AccumulatorInv, ReductionIsExact
      <4> QED
        BY <1>2, <3>1, <4>1 DEF ReductionIsExact, ReducedTo
  <2> QED
    BY <2>2, <2>3, <2>4, <2>5, <2>6 DEF AccumulatorInv
<1>4. CASE ~terminal /\ SequenceError(e, n) = "ok"
  <2>1. /\ last' = Numbered(e, n) /\ slots' = r.slots /\ result' = r.result
        /\ refused' = (refused \/ r.result \in {"item_mismatch", "content_mismatch"})
        /\ taken' = IF e.type = "unknown" THEN taken ELSE taken \cup {n}
    BY <1>2, <1>4 DEF Push, r
  <2>2. /\ terminal' => e.type = "final" /\ snapshot' = n
        /\ terminal' \in BOOLEAN /\ snapshot' \in {snapshot, n}
    BY <1>2, <1>4 DEF Push, r
  <2>3. /\ r.slots \in [Indices -> Slot] /\ \A o \in Indices : SlotOK(r.slots[o])
        /\ r.result \in {"ok", "item_mismatch", "stream_error"}
        /\ r.result # "item_mismatch" =>
             \A o \in Indices : Applied(r.slots[o], slots[o], e, o, n)
    BY <1>1, ReducedOK DEF AccumulatorInv, r
  <2>4. last \in Nat /\ last <= Len(log) /\ (e.type = "unknown" \/ last < n)
    BY <1>1, <1>4 DEF SequenceError, AccumulatorInv, AccumulatorType
  <2>5. last' = IF e.type = "unknown" THEN last ELSE n
    BY <2>1 DEF Numbered
  <2>6. AccumulatorType'
    BY <1>1, <1>2, <2>1, <2>2, <2>3, <2>4, <2>5
       DEF AccumulatorInv, AccumulatorType, Lost, Results
  <2>7. NoGap'
    BY <1>1, <1>2, <1>4, <2>4, <2>5 DEF AccumulatorInv, AccumulatorType, NoGap, e
  <2>8. Terminal'
    BY <1>1, <1>2, <2>2, <2>5 DEF AccumulatorInv, Terminal, e
  <2>9. (\A o \in Indices : SlotOK(slots[o]))' /\ result' # "content_mismatch"
    BY <2>1, <2>3 DEF SlotOK
  <2>10. ASSUME ~refused', NEW o \in Indices PROVE ReducedTo(slots'[o], o, taken')
    <3>1. ReducedTo(slots[o], o, taken) /\ Applied(slots'[o], slots[o], e, o, n)
      BY <2>1, <2>3, <2>10 DEF AccumulatorInv, ReductionIsExact
    <3>2. CASE e.type = "unknown"
      <4>1. slots' = slots /\ taken' = taken
        BY <2>1, <3>2 DEF r, Reduced
      <4> QED
        BY <3>1, <4>1
    <3>3. CASE e.type # "unknown"
      <4>1. taken \in SUBSET (1..(n - 1)) /\ taken' = taken \cup {n}
        BY <1>1, <2>1, <2>4, <3>3 DEF AccumulatorInv, AccumulatorType
      <4>2. SlotOK(slots[o]) /\ AccumulatorType /\ Applied(slots'[o], slots[o], log[n], o, n)
        BY <3>1 DEF AccumulatorInv, e
      <4>3. ReducedTo(slots'[o], o, taken \cup {n})
        BY <1>1, <3>1, <4>1, <4>2, AppliedReduces
      <4> QED
        BY <4>1, <4>3
    <3> QED
      BY <3>2, <3>3
  <2>11. ASSUME ~ahead PROVE taken' = {i \in 1..last' : log[i].type # "unknown"}
    <3>1. taken = {i \in 1..last : log[i].type # "unknown"}
      BY <2>11 DEF AccumulatorInv, ReductionIsExact
    <3>2. CASE e.type = "unknown"
      BY <2>1, <2>5, <3>1, <3>2
    <3>3. CASE e.type # "unknown"
      <4>1. last' = n /\ last < n /\ taken' = taken \cup {n} /\ log[n].type # "unknown"
        BY <2>1, <2>4, <2>5, <3>3 DEF e
      <4>2. \A i \in 1..(n - 1) : last < i => log[i].type = "unknown"
        BY <1>1, <1>4, <2>11 DEF AccumulatorInv, NoGap
      <4>3. 1..n = 1..(n - 1) \cup {n} /\ 1..last \subseteq 1..(n - 1)
        BY <1>1, <2>4, <4>1
      <4>4. {i \in 1..n : log[i].type # "unknown"}
              = {i \in 1..last : log[i].type # "unknown"} \cup {n}
        BY <2>4, <4>1, <4>2, <4>3
      <4> QED
        BY <3>1, <4>1, <4>4
    <3> QED
      BY <3>2, <3>3
  <2>12. ReductionIsExact'
    BY <1>2, <2>10, <2>11 DEF ReductionIsExact, ReducedTo
  <2> QED
    BY <2>6, <2>7, <2>8, <2>9, <2>12 DEF AccumulatorInv
<1>5. CASE terminal
  BY <1>2, <1>3, <1>5 DEF Push
<1>6. CASE ~terminal /\ SequenceError(e, n) # "ok"
  <2>1. SequenceError(e, n) \in {"duplicate", "backwards"} /\ n <= last
    BY <1>1, <1>6 DEF SequenceError, AccumulatorInv, AccumulatorType
  <2>2. Reject(SequenceError(e, n))
    BY <1>2, <1>6 DEF Push
  <2> QED
    BY <1>3, <2>1, <2>2
<1> QED
  BY <1>4, <1>5, <1>6

\* The steps that leave the accumulator alone: the connection is lost or resumed,
\* the accumulator is finished, or nothing happens.
LEMMA OtherInv ==
  ASSUME AccumulatorInv,
         \/ Disconnect \/ (\E k \in 0..MaxEvents : Resume(k))
         \/ Finish \/ UNCHANGED streamVars
  PROVE  AccumulatorInv'
<1> USE ResponseAssumption
<1>1. UNCHANGED <<log, last, slots, snapshot, terminal, result, refused, taken>>
  BY DEF Disconnect, Resume, Finish, streamVars, accVars
<1>2. /\ conn' \in {conn, Lost} \cup 0..Len(log) /\ ahead' \in BOOLEAN
      /\ ~ahead' => ~ahead /\ conn' \in {conn, Lost} \cup 0..last
      /\ outcome' \in {"none", "missing", "ok"}
  <2>1. /\ ahead \in BOOLEAN /\ outcome \in {"none", "missing", "ok"}
        /\ last \in Nat /\ Len(log) \in Nat
    BY DEF AccumulatorInv, AccumulatorType
  <2>2. CASE \E k \in 0..MaxEvents : Resume(k)
    <3>1. PICK k \in 0..MaxEvents : Resume(k)
      BY <2>2
    <3>2. k <= Len(log) /\ conn' = k /\ outcome' = outcome /\ ahead' = (ahead \/ k > last)
      BY <3>1 DEF Resume
    <3>3. ahead' \in BOOLEAN /\ (~ahead' => ~ahead /\ ~(k > last))
      BY <3>2, Zenon
    <3>4. conn' \in 0..Len(log) /\ (~(k > last) => conn' \in 0..last)
      BY <2>1, <3>2
    <3> QED
      BY <2>1, <3>2, <3>3, <3>4
  <2>3. CASE Disconnect \/ Finish \/ UNCHANGED streamVars
    BY <2>1, <2>3 DEF Disconnect, Finish, streamVars
  <2> QED
    BY <2>2, <2>3
<1>3. AccumulatorType' /\ NoGap'
  <2>1. AccumulatorType'
    BY <1>1, <1>2 DEF AccumulatorInv, AccumulatorType, Lost
  <2>2. conn' = Lost \/ conn' <= Len(log)
    BY <1>2 DEF AccumulatorInv, NoGap, AccumulatorType, Lost
  <2>3. ~ahead' /\ ~terminal /\ conn' # Lost =>
          \A i \in 1..Len(log) : last < i /\ i <= conn' => log[i].type = "unknown"
    BY <1>2 DEF AccumulatorInv, NoGap, AccumulatorType
  <2> QED
    BY <1>1, <2>1, <2>2, <2>3 DEF NoGap, Lost
<1>4. Terminal'
  BY <1>1 DEF AccumulatorInv, Terminal, Disconnect, Resume, Finish, streamVars
<1>5. (\A o \in Indices : SlotOK(slots[o]))' /\ result' # "content_mismatch"
  BY <1>1 DEF AccumulatorInv, SlotOK
<1>6. ReductionIsExact'
  <2>1. ~ahead' => taken' = {i \in 1..last : log[i].type # "unknown"}'
    BY <1>1, <1>2 DEF AccumulatorInv, ReductionIsExact
  <2> QED
    <3>1. (~refused => \A o \in Indices : ReducedTo(slots[o], o, taken))'
      BY <1>1 DEF AccumulatorInv, ReductionIsExact, ReducedTo
    <3> QED
      BY <2>1, <3>1 DEF ReductionIsExact
<1> QED
  BY <1>3, <1>4, <1>5, <1>6 DEF AccumulatorInv

\* AccumulatorInv is inductive.
THEOREM AccumulatorInvariance == AccumulatorSpec => []AccumulatorInv
<1>1. AccumulatorInv /\ [AccumulatorNext]_streamVars => AccumulatorInv'
  BY EmitInv, DeliverInv, OtherInv DEF AccumulatorNext
<1> QED
  BY <1>1, AccumulatorInitInv, PTL DEF AccumulatorSpec

\* The state of the accumulator is well typed, whatever the server sends.
THEOREM AccumulatorTypeCorrect == AccumulatorSpec => []AccumulatorType
<1>1. AccumulatorInv => AccumulatorType
  BY DEF AccumulatorInv
<1> QED
  BY <1>1, AccumulatorInvariance, PTL

\* A text never belongs to another item than its output index.
THEOREM IdentityIsKept == AccumulatorSpec => []IdentityHolds
<1>1. AccumulatorInv => IdentityHolds
  BY DEF AccumulatorInv, SlotOK, IdentityHolds
<1> QED
  BY <1>1, AccumulatorInvariance, PTL

\* However often the stream is cut and resumed, and wherever, the accumulator
\* holds the reduction of the events it took, each once and in order, and these
\* are all that the server numbered unless a resumption skipped some: for every
\* log and every number of cuts.
THEOREM ReductionIsOfTheLog == AccumulatorSpec => []ReductionIsExact
<1>1. AccumulatorInv => ReductionIsExact
  BY DEF AccumulatorInv
<1> QED
  BY <1>1, AccumulatorInvariance, PTL

\* Only the response of a terminal event is handed out.
THEOREM OnlyFinalIsReturned == AccumulatorSpec => []FinishIsFinal
<1>1. AccumulatorInv => FinishIsFinal
  BY DEF AccumulatorInv, Terminal, FinishIsFinal
<1> QED
  BY <1>1, AccumulatorInvariance, PTL

----------------------------------------------------------------------------
(* The decoder. *)

USE SseAssumption

Most(m, n) == IF m < n THEN n ELSE m

EndsInCr == line_buffer # <<>> /\ Last(line_buffer) = "cr"

\* A pending event within the limits.
Pending ==
  {e \in [name : EventNames, data : Data, lines : 0..MaxDataLines] :
     Len(e.data) <= MaxEvent}

\* The decoder waits for the byte order mark with two bytes at most, and what
\* ends a stream clears it.
Flow ==
  /\ ~bom_checked => Len(line_buffer) <= 2
  /\ pc \in {"drain", "leftover"} => bom_checked
  /\ pc \in {"idle", "piece", "slice", "limit"} => ~eof
  /\ pc = "deliver" /\ eof => state # "active"
  /\ state # "active" =>
       pc \in {"deliver", "done"} /\ line_buffer = <<>> /\ event_data = <<>>

\* A piece has a line end in its last place only, and is one byte long when the
\* buffer ends in a CR.
PieceIsLine ==
  /\ pc \in {"slice", "drain", "limit"} /\ ~eof =>
       \A i \in 1..Len(body) : fed < i /\ i < upto => body[i] \notin LineEnds
  /\ pc = "slice" => fed < upto /\ (EndsInCr => upto = fed + 1)
  /\ pc \in {"drain", "limit"} /\ ~eof /\ fed < upto => ~EndsInCr

\* Between two slices the buffer holds a line at most, and perhaps a CR.
BetweenSlices ==
  pc \in {"idle", "piece", "slice", "classify", "deliver", "done"} =>
    \/ Len(line_buffer) <= Most(MaxLine, 2)
    \/ Len(line_buffer) <= MaxLine + 1 /\ EndsInCr

\* The inductive invariant of the decoder.
SseInv ==
  /\ TypeOK /\ Flow /\ PieceIsLine /\ BetweenSlices
  /\ Len(line_buffer) <= Most(MaxLine, 2) + Most(FeedSlice, 2)

----------------------------------------------------------------------------
\* The end of a concatenation is the end of its second part.
LEMMA Joined ==
  ASSUME NEW S, NEW s \in Seq(S), NEW t \in Seq(S)
  PROVE  /\ s \o t \in Seq(S) /\ Len(s \o t) = Len(s) + Len(t)
         /\ t # <<>> => s \o t # <<>> /\ Last(s \o t) = Last(t)
BY DEF Last

\* The length and the last element of a part of a sequence.
LEMMA Cut ==
  ASSUME NEW S, NEW s \in Seq(S), NEW i \in Nat \ {0}, NEW j \in Nat, j <= Len(s)
  PROVE  /\ SubSeq(s, i, j) \in Seq(S)
         /\ i <= j => /\ Len(SubSeq(s, i, j)) = j - i + 1
                      /\ SubSeq(s, i, j) # <<>> /\ Last(SubSeq(s, i, j)) = s[j]
         /\ i > j => SubSeq(s, i, j) = <<>>
BY DEF Last

\* A piece ends at the first line end, or after one byte when a CR is pending.
LEMMA PieceEndOK ==
  ASSUME TypeOK, fed < Len(body)
  PROVE  /\ PieceEnd \in fed + 1..Len(body)
         /\ EndsInCr => PieceEnd = fed + 1
         /\ \A i \in 1..Len(body) : fed < i /\ i < PieceEnd => body[i] \notin LineEnds
<1> DEFINE ends == {i \in fed + 1..Len(body) : body[i] \in LineEnds}
<1>1. fed \in Nat /\ Len(body) \in Nat /\ ends \subseteq Nat
  BY DEF TypeOK
<1>2. CASE EndsInCr
  BY <1>1, <1>2 DEF PieceEnd, EndsInCr
<1>3. CASE ~EndsInCr /\ ends = {}
  BY <1>1, <1>3 DEF PieceEnd, EndsInCr
<1>4. CASE ~EndsInCr /\ ends # {}
  <2>1. PieceEnd = CHOOSE i \in ends : \A j \in ends : i <= j
    BY <1>4 DEF PieceEnd, EndsInCr
  <2>2. PieceEnd \in ends /\ \A j \in ends : PieceEnd <= j
    <3> HIDE DEF ends
    <3> QED
      BY <1>1, <1>4, <2>1, Least
  <2> QED
    BY <1>1, <1>4, <2>2
<1> QED
  BY <1>2, <1>3, <1>4

\* A line and its terminator lie within the buffer.
LEMMA LineEndOK ==
  ASSUME TypeOK
  PROVE  /\ LineEnd \in 0..Len(line_buffer) /\ TerminatorLen \in 0..2
         /\ TerminatorLen # 0 => /\ LineEnd \in 1..Len(line_buffer)
                                 /\ LineEnd + TerminatorLen <= Len(line_buffer) + 1
<1> DEFINE ends == {i \in search_from + 1..Len(line_buffer) : line_buffer[i] \in LineEnds}
<1>1. search_from \in Nat /\ Len(line_buffer) \in Nat /\ ends \subseteq Nat
  BY DEF TypeOK
<1>2. LineEnd \in 0..Len(line_buffer)
  <2>1. LineEnd = IF ends = {} THEN 0 ELSE CHOOSE i \in ends : \A j \in ends : i <= j
    BY DEF LineEnd
  <2>2. ends # {} => LineEnd \in ends
    <3> HIDE DEF ends
    <3> QED
      BY <1>1, <2>1, Least
  <2> QED
    BY <1>1, <2>1, <2>2
<1> QED
  BY <1>1, <1>2 DEF TerminatorLen

\* process_line() keeps the pending event within its limits.
LEMMA ProcessLineOK ==
  ASSUME NEW line \in Seq(Bytes), NEW e \in Pending, NEW p, p = ProcessLine(line, e)
  PROVE  /\ p.event \in Pending /\ p.frames \in Seq(Frame)
         /\ p.error \in DecodeErrors \cup {"none"}
<1>1. e.name \in EventNames /\ e.data \in Data /\ e.lines \in 0..MaxDataLines
      /\ Len(e.data) <= MaxEvent
  BY DEF Pending
<1>2. <<>> \in Seq(Frame) /\ <<>> \in Data
  BY DEF Data
<1>3. NoEvent \in Pending
  BY <1>2 DEF NoEvent, Event, Pending, EventNames
<1>4. CASE p = TakeEvent(e)
  <2>1. [event |-> e.name, data |-> e.data] \in Frame
    BY <1>1 DEF Frame
  <2>2. <<[event |-> e.name, data |-> e.data]>> \in Seq(Frame)
    BY <2>1
  <2> QED
    BY <1>2, <1>3, <1>4, <2>2 DEF TakeEvent
<1>5. ASSUME line # <<>>, p = PushData(e, Tail(line))
      PROVE  /\ p.event \in Pending /\ p.frames = <<>>
             /\ p.error \in DecodeErrors \cup {"none"}
  <2> DEFINE joined == IF e.lines = 0 THEN Tail(line) ELSE e.data \o <<"nl">> \o Tail(line)
  <2>1. Tail(line) \in Data /\ <<"nl">> \in Data
    BY <1>5 DEF Data
  <2>2. joined \in Data /\ Len(joined) \in Nat
    <3>1. e.data \o <<"nl">> \in Data
      BY <1>1, <2>1, Joined DEF Data
    <3>2. e.data \o <<"nl">> \o Tail(line) \in Data
      BY <2>1, <3>1, Joined DEF Data
    <3>3. joined \in Data
      BY <2>1, <3>2
    <3> HIDE DEF joined
    <3> QED
      BY <3>3 DEF Data
  <2> HIDE DEF joined
  <2>3. CASE e.lines >= MaxDataLines \/ Len(joined) > MaxEvent
    <3>1. /\ p.event = e /\ p.frames = <<>>
          /\ p.error \in {"too_many_data_lines", "event_too_large"}
      <4>1. CASE e.lines >= MaxDataLines
        BY <1>1, <1>5, <4>1 DEF PushData, joined
      <4>2. CASE e.lines < MaxDataLines /\ Len(joined) > MaxEvent
        BY <1>1, <1>5, <4>2 DEF PushData, joined
      <4> QED
        BY <1>1, <2>3, <4>1, <4>2
    <3> QED
      BY <3>1 DEF DecodeErrors
  <2>4. CASE e.lines < MaxDataLines /\ ~(Len(joined) > MaxEvent)
    <3>1. /\ p.event = [name |-> e.name, data |-> joined, lines |-> e.lines + 1]
          /\ p.frames = <<>> /\ p.error = "none"
      BY <1>1, <1>5, <2>4 DEF PushData, Event, joined
    <3>2. Len(joined) \in Nat
      BY <2>2 DEF Data
    <3> QED
      BY <1>1, <2>2, <2>4, <3>1, <3>2 DEF Pending
  <2> QED
    BY <1>1, <2>3, <2>4
<1>6. ASSUME NEW name \in EventNames, p.event = [e EXCEPT !.name = name],
             p.frames = <<>>, p.error = "none"
      PROVE  p.event \in Pending /\ p.frames \in Seq(Frame)
  BY <1>1, <1>2, <1>6 DEF Pending
<1>7. CASE Len(line) > MaxLine \/ ~ValidUtf8(line)
  <2>1. /\ p.event = e /\ p.frames = <<>>
        /\ p.error \in {"line_too_large", "invalid_utf8"}
    <3>1. CASE Len(line) > MaxLine
      BY <3>1 DEF ProcessLine
    <3>2. CASE Len(line) <= MaxLine /\ ~ValidUtf8(line)
      <4>1. line # <<>>
        BY <3>2 DEF ValidUtf8
      <4> QED
        BY <3>2, <4>1 DEF ProcessLine
    <3> QED
      BY <1>7, <3>1, <3>2
  <2> QED
    BY <1>2, <2>1 DEF DecodeErrors
<1>8. CASE Len(line) <= MaxLine /\ ValidUtf8(line) /\ line = <<>>
  BY <1>4, <1>8 DEF ProcessLine
<1>9. CASE Len(line) \in 1..MaxLine /\ ValidUtf8(line) /\ line[1] = "d"
  <2>1. line # <<>> /\ p = PushData(e, Tail(line))
    BY <1>9 DEF ProcessLine, KnownNames
  <2> QED
    BY <1>2, <1>5, <2>1
<1>10. CASE Len(line) \in 1..MaxLine /\ ValidUtf8(line) /\ line[1] \in KnownNames
  <2>1. (IF Len(line) = 1 THEN line[1] ELSE "other") \in EventNames
    BY <1>10 DEF EventNames, KnownNames
  <2>2. /\ p.event = [e EXCEPT !.name = IF Len(line) = 1 THEN line[1] ELSE "other"]
        /\ p.frames = <<>> /\ p.error = "none"
    BY <1>10 DEF ProcessLine
  <2> QED
    BY <1>6, <2>1, <2>2
<1>11. CASE /\ Len(line) \in 1..MaxLine /\ ValidUtf8(line)
            /\ line[1] \notin KnownNames \cup {"d"}
  BY <1>2, <1>11 DEF ProcessLine
<1> QED
  BY <1>7, <1>8, <1>9, <1>10, <1>11

\* The dispatches of a batch of frames, and what the last of them was.
LEMMA DispatchedOK ==
  ASSUME TypeOK
  PROVE  /\ Dispatched.dispatches \in Seq(Dispatch)
         /\ Dispatched.kind \in {"event", "consumed", "remote_error", "terminal"}
<1> DEFINE ends == {i \in 1..Len(frames) : Classify(frames[i]) # "event"}
           upTo == IF ends = {} THEN Len(frames)
                   ELSE CHOOSE i \in ends : \A j \in ends : i <= j
           all == [i \in 1..upTo |-> [type |-> Classify(frames[i]), frame |-> frames[i]]]
<1>1. Len(frames) \in Nat /\ \A i \in 1..Len(frames) : frames[i] \in Frame
  BY DEF TypeOK
<1>2. \A f : Classify(f) \in {"event", "consumed", "remote_error", "terminal"}
  BY DEF Classify
<1>3. ends # {} => upTo \in ends /\ \A j \in ends : upTo <= j
  <2>1. ends \subseteq Nat
    OBVIOUS
  <2> HIDE DEF ends
  <2> QED
    BY <2>1, Least
<1>4. /\ upTo \in Nat /\ upTo <= Len(frames)
      /\ \A i \in 1..upTo : i # upTo => Classify(frames[i]) = "event"
      /\ ends = {} => \A i \in 1..upTo : Classify(frames[i]) = "event"
  <2>1. CASE ends = {}
    BY <1>1, <2>1
  <2>2. CASE ends # {}
    <3>1. upTo \in 1..Len(frames) /\ \A j \in ends : upTo <= j
      BY <1>3, <2>2
    <3> HIDE DEF upTo
    <3>2. \A i \in 1..upTo : i # upTo => i \notin ends /\ i \in 1..Len(frames)
      BY <1>1, <3>1
    <3> QED
      BY <1>1, <2>2, <3>1, <3>2
  <2> QED
    BY <2>1, <2>2
<1>5. Dispatched.kind = IF ends = {} THEN "event" ELSE Classify(frames[upTo])
  BY DEF Dispatched
<1>6. Dispatched.dispatches =
        IF ends # {} /\ Classify(frames[upTo]) = "consumed" THEN SubSeq(all, 1, upTo - 1)
        ELSE all
  BY DEF Dispatched
<1> HIDE DEF ends, upTo
<1>7. CASE ends # {} /\ Classify(frames[upTo]) = "consumed"
  <2>1. SubSeq(all, 1, upTo - 1) = [i \in 1..(upTo - 1) |-> all[i]]
    BY <1>4
  <2>2. \A i \in 1..(upTo - 1) : all[i] \in Dispatch
    BY <1>1, <1>4 DEF Dispatch
  <2> HIDE DEF all
  <2>3. [i \in 1..(upTo - 1) |-> all[i]] \in Seq(Dispatch)
    <3>1. CASE upTo = 0
      BY <3>1
    <3>2. CASE upTo # 0
      <4>1. upTo - 1 \in Nat
        BY <1>4, <3>2
      <4> QED
        BY <2>2, <4>1
    <3> QED
      BY <3>1, <3>2
  <2> QED
    BY <1>2, <1>5, <1>6, <1>7, <2>1, <2>3
<1>8. CASE ~(ends # {} /\ Classify(frames[upTo]) = "consumed")
  <2>1. \A i \in 1..upTo : all[i] \in Dispatch
    BY <1>1, <1>2, <1>4, <1>8 DEF Dispatch
  <2>2. all \in Seq(Dispatch)
    <3>1. all = [i \in 1..upTo |-> all[i]]
      OBVIOUS
    <3> HIDE DEF all
    <3> QED
      BY <1>4, <2>1, <3>1
  <2> QED
    BY <1>2, <1>5, <1>6, <1>8, <2>2
<1> QED
  BY <1>7, <1>8

\* What the stream yields for a dispatch.
LEMMA YieldedOK ==
  ASSUME NEW d \in Dispatch, NEW ends \in BOOLEAN
  PROVE  Yielded(d, ends).item \in Yields
<1>1. d.frame.data \in Data
  BY DEF Dispatch, Frame
<1>2. /\ [type |-> "ok", data |-> d.frame.data] \in Yields
      /\ [type |-> "remote"] \in Yields /\ [type |-> "json"] \in Yields
      /\ [type |-> "protocol"] \in Yields
  BY <1>1 DEF Yields
<1> QED
  BY <1>2 DEF Yielded

\* A byte order mark is waited for with two bytes at most and removed once.
LEMMA CheckBomOK ==
  ASSUME TypeOK, ~bom_checked => Len(line_buffer) <= 2,
         NEW b \in Seq(Bytes), Len(line_buffer) <= Len(b),
         NEW atEof \in BOOLEAN, NEW next, CheckBom(b, atEof, next)
  PROVE  /\ line_buffer' \in Seq(Bytes) /\ search_from' \in 0..Len(line_buffer')
         /\ bom_checked' \in BOOLEAN /\ Len(line_buffer') <= Len(b)
         /\ ~bom_checked' => Len(line_buffer') <= 2 /\ pc' = next /\ ~atEof
         /\ bom_checked' => pc' = "drain"
         /\ line_buffer' # <<>> => b # <<>> /\ Last(line_buffer') = Last(b)
<1>1. CASE bom_checked
  BY <1>1 DEF CheckBom, TypeOK
<1>2. CASE ~bom_checked /\ ~atEof /\ Len(b) < 3 /\ IsPrefix(b, BOM)
  BY <1>2 DEF CheckBom, TypeOK
<1>3. CASE ~bom_checked /\ ~(~atEof /\ Len(b) < 3 /\ IsPrefix(b, BOM)) /\ IsPrefix(BOM, b)
  <2>1. /\ line_buffer' = SubSeq(b, 4, Len(b)) /\ bom_checked' = TRUE /\ pc' = "drain"
        /\ search_from' = IF search_from > 3 THEN search_from - 3 ELSE 0
    BY <1>3 DEF CheckBom
  <2>2. Len(b) \in Nat /\ Len(b) >= 3
    BY <1>3 DEF IsPrefix, BOM
  <2>3. /\ line_buffer' \in Seq(Bytes) /\ Len(line_buffer') = Len(b) - 3
        /\ line_buffer' # <<>> => Last(line_buffer') = Last(b)
    <3>1. CASE Len(b) = 3
      BY <2>1, <3>1, Cut
    <3>2. CASE Len(b) # 3
      <4>1. /\ SubSeq(b, 4, Len(b)) \in Seq(Bytes)
            /\ Len(SubSeq(b, 4, Len(b))) = Len(b) - 4 + 1
            /\ Last(SubSeq(b, 4, Len(b))) = b[Len(b)]
        <5>1. Len(b) \in Nat /\ 4 <= Len(b) /\ Len(b) <= Len(b)
          <6>1. \A k \in Nat : k >= 3 /\ k # 3 => 4 <= k /\ k <= k
            OBVIOUS
          <6> QED
            BY <2>2, <3>2, <6>1
        <5> QED
          BY <5>1, Cut
      <4> QED
        BY <2>1, <2>2, <4>1 DEF Last
    <3> QED
      BY <3>1, <3>2
  <2> QED
    BY <1>3, <2>1, <2>2, <2>3 DEF TypeOK
<1>4. CASE ~bom_checked /\ ~(~atEof /\ Len(b) < 3 /\ IsPrefix(b, BOM)) /\ ~IsPrefix(BOM, b)
  <2>1. /\ line_buffer' = b /\ bom_checked' = TRUE /\ pc' = "drain"
        /\ search_from' = search_from
    BY <1>4 DEF CheckBom
  <2> QED
    BY <2>1 DEF TypeOK
<1> QED
  BY <1>1, <1>2, <1>3, <1>4

----------------------------------------------------------------------------
\* What Fail() leaves.
LEMMA FailInv ==
  ASSUME SseInv, NEW why \in DecodeErrors, Fail(why),
         UNCHANGED <<input, fed, dispatches, yielded>>
  PROVE  SseInv'
<1>1. <<>> \in Seq(Bytes) /\ <<>> \in Data /\ <<>> \in Seq(Frame)
  BY DEF Data
<1>2. /\ line_buffer' = <<>> /\ search_from' = 0 /\ event_name' = "none"
      /\ event_data' = <<>> /\ data_lines' = 0 /\ frames' = <<>> /\ error' = why
      /\ state' = "failed" /\ pc' = "deliver" /\ bom_checked' = bom_checked
      /\ UNCHANGED <<body, upto, eof, fed, dispatches, yielded>>
  BY DEF Fail, input
<1>3. TypeOK'
  BY <1>1, <1>2 DEF SseInv, TypeOK, EventNames
<1> QED
  BY <1>2, <1>3 DEF SseInv, Flow, PieceIsLine, BetweenSlices, Most

\* The line of Consume() is processed, or the decoder fails.
LEMMA ConsumeInv ==
  ASSUME SseInv, state = "active", bom_checked,
         NEW line \in Seq(Bytes), NEW rest \in Seq(Bytes), Len(rest) <= Len(line_buffer),
         rest # <<>> => Last(rest) = Last(line_buffer),
         NEW next \in {"drain", "leftover"}, pc = next, Consume(line, rest, next),
         UNCHANGED <<input, fed, dispatches, yielded>>
  PROVE  SseInv'
<1> DEFINE p == ProcessLine(line, Event(event_name, event_data, data_lines))
<1>1. Event(event_name, event_data, data_lines) \in Pending
  BY DEF SseInv, TypeOK, Event, Pending
<1>2. /\ p.event \in Pending /\ p.frames \in Seq(Frame)
      /\ p.error \in DecodeErrors \cup {"none"}
  BY <1>1, ProcessLineOK
<1> HIDE DEF p
<1>3. CASE p.error # "none"
  <2>1. Fail(p.error)
    BY <1>3 DEF Consume, p
  <2> QED
    BY <1>2, <1>3, <2>1, FailInv
<1>4. CASE p.error = "none"
  <2>1. /\ line_buffer' = rest /\ search_from' = 0 /\ event_name' = p.event.name
        /\ event_data' = p.event.data /\ data_lines' = p.event.lines
        /\ frames' = frames \o p.frames /\ pc' = next
        /\ UNCHANGED <<bom_checked, error, state>>
    BY <1>4 DEF Consume, p
  <2>2. frames' \in Seq(Frame)
    BY <1>2, <2>1, Joined DEF SseInv, TypeOK
  <2>3. /\ event_name' \in EventNames /\ event_data' \in Data
        /\ Len(event_data') <= MaxEvent /\ data_lines' \in 0..MaxDataLines
    BY <1>2, <2>1 DEF Pending
  <2>4. TypeOK'
    BY <2>1, <2>2, <2>3 DEF SseInv, TypeOK, input
  <2>5. Flow'
    BY <2>1 DEF SseInv, TypeOK, Flow, input
  <2>6. PieceIsLine'
    BY <2>1 DEF SseInv, TypeOK, PieceIsLine, EndsInCr, input
  <2>7. BetweenSlices' /\ Len(line_buffer') <= Most(MaxLine, 2) + Most(FeedSlice, 2)
    <3>1. Len(rest) \in Nat /\ Len(line_buffer) \in Nat
      BY DEF SseInv, TypeOK
    <3> QED
      BY <2>1, <3>1 DEF SseInv, BetweenSlices, Most
  <2> QED
    BY <2>4, <2>5, <2>6, <2>7 DEF SseInv
<1> QED
  BY <1>3, <1>4

\* The bytes of a chunk.
LEMMA ChunkOK ==
  ASSUME TypeOK, NEW n \in 1..MaxChunk, Len(body) + n <= MaxBody, NEW c \in Chunks(n)
  PROVE  c \in Seq(Bytes) /\ Len(c) = n
<1>1. Len(body) \in Nat /\ \A i \in 1..n : Len(body) + i \in 1..Len(Alphabet)
  BY DEF TypeOK, MaxBody
<1>2. \A k \in 1..Len(Alphabet) : Alphabet[k] \in SUBSET Bytes
  OBVIOUS
<1>3. \A i \in 1..n : c[i] \in Bytes
  BY <1>1, <1>2 DEF Chunks
<1>4. c = [i \in 1..n |-> c[i]]
  BY DEF Chunks
<1> HIDE DEF Chunks
<1> QED
  BY <1>3, <1>4

\* A chunk arrives.
LEMMA ReceiveInv == ASSUME SseInv, Receive PROVE SseInv'
<1>1. PICK n \in 1..MaxChunk : /\ Len(body) + n <= MaxBody
                               /\ \E c \in Chunks(n) : body' = body \o c
  BY DEF Receive
<1>2. PICK c \in Chunks(n) : body' = body \o c
  BY <1>1
<1>3. c \in Seq(Bytes) /\ Len(c) = n
  BY <1>1, <1>2, ChunkOK DEF SseInv
<1>4. body' \in Seq(Bytes) /\ Len(body') = Len(body) + n /\ Len(body) \in Nat
  <2>1. body \in Seq(Bytes) /\ Len(body) \in Nat
    BY DEF SseInv, TypeOK
  <2>2. body \o c \in Seq(Bytes) /\ Len(body \o c) = Len(body) + Len(c)
    BY <1>3, <2>1, Joined
  <2> QED
    BY <1>2, <1>3, <2>1, <2>2
<1>5. /\ pc = "idle" /\ pc' = "piece" /\ dispatches' = <<>>
      /\ UNCHANGED <<fed, upto, eof, line_buffer, search_from, bom_checked, event_name,
                     event_data, data_lines, frames, error, state, yielded>>
  BY DEF Receive, lineVars, eventVars
<1>6. <<>> \in Seq(Dispatch)
  OBVIOUS
<1>7. TypeOK'
  BY <1>1, <1>4, <1>5, <1>6 DEF SseInv, TypeOK, MaxBody
<1> QED
  BY <1>5, <1>7 DEF SseInv, Flow, PieceIsLine, BetweenSlices, EndsInCr

\* The next piece of the chunk, or the chunk is used up.
LEMMA NextPieceInv == ASSUME SseInv, NextPiece PROVE SseInv'
<1>1. /\ pc = "piece" /\ frames' = <<>>
      /\ UNCHANGED <<body, eof, fed, line_buffer, search_from, bom_checked, event_name,
                     event_data, data_lines, dispatches, error, state, yielded>>
  BY DEF NextPiece, lineVars, eventVars
<1>2. <<>> \in Seq(Frame)
  OBVIOUS
<1>3. CASE fed < Len(body)
  <2>1. upto' = PieceEnd /\ pc' = "slice"
    BY <1>3 DEF NextPiece
  <2>2. TypeOK'
    BY <1>1, <1>2, <1>3, <2>1, PieceEndOK DEF SseInv, TypeOK
  <2>3. PieceIsLine'
    BY <1>1, <1>3, <2>1, PieceEndOK DEF SseInv, TypeOK, PieceIsLine, EndsInCr
  <2> QED
    BY <1>1, <2>1, <2>2, <2>3 DEF SseInv, Flow, BetweenSlices, EndsInCr
<1>4. CASE ~(fed < Len(body))
  <2>1. upto' = upto /\ pc' = "deliver"
    BY <1>4 DEF NextPiece
  <2>2. TypeOK'
    BY <1>1, <1>2, <2>1 DEF SseInv, TypeOK
  <2> QED
    BY <1>1, <2>1, <2>2 DEF SseInv, Flow, PieceIsLine, BetweenSlices, EndsInCr
<1> QED
  BY <1>3, <1>4

\* A slice of the piece is appended to the buffer.
LEMMA FeedNextInv == ASSUME SseInv, FeedNext PROVE SseInv'
<1> DEFINE end == IF fed + FeedSlice < upto THEN fed + FeedSlice ELSE upto
           piece == SubSeq(body, fed + 1, end)
           b == line_buffer \o piece
<1>1. /\ pc = "slice" /\ CheckBom(b, FALSE, "limit") /\ fed' = end
      /\ UNCHANGED <<body, upto, eof, event_name, event_data, data_lines, frames,
                     dispatches, error, state, yielded>>
  BY DEF FeedNext, input, eventVars
<1>2. /\ fed \in Nat /\ upto \in Nat /\ fed < upto /\ upto <= Len(body)
      /\ end \in Nat /\ fed < end /\ end <= upto /\ end <= fed + FeedSlice
      /\ Len(body) \in Nat /\ ~eof /\ Len(line_buffer) \in Nat
      /\ body \in Seq(Bytes) /\ line_buffer \in Seq(Bytes)
  BY <1>1 DEF SseInv, TypeOK, Flow, PieceIsLine
<1> HIDE DEF end
<1>3. /\ piece \in Seq(Bytes) /\ Len(piece) = end - fed /\ piece # <<>>
      /\ Last(piece) = body[end]
  <2>1. /\ fed + 1 \in Nat \ {0} /\ end \in Nat /\ body \in Seq(Bytes)
        /\ fed + 1 <= end /\ end <= Len(body)
    BY <1>2
  <2>2. /\ SubSeq(body, fed + 1, end) \in Seq(Bytes)
        /\ Len(SubSeq(body, fed + 1, end)) = end - (fed + 1) + 1
        /\ SubSeq(body, fed + 1, end) # <<>>
        /\ Last(SubSeq(body, fed + 1, end)) = body[end]
    <3> DEFINE from == fed + 1
    <3>1. from \in Nat \ {0} /\ from <= end
      BY <2>1
    <3> HIDE DEF from
    <3>2. /\ SubSeq(body, from, end) \in Seq(Bytes)
          /\ Len(SubSeq(body, from, end)) = end - from + 1
          /\ SubSeq(body, from, end) # <<>> /\ Last(SubSeq(body, from, end)) = body[end]
      BY <2>1, <3>1, Cut
    <3> QED
      BY <3>2 DEF from
  <2> QED
    BY <1>2, <2>2
<1> HIDE DEF piece
<1>4. /\ b \in Seq(Bytes) /\ Len(b) = Len(line_buffer) + (end - fed)
      /\ Last(b) = body[end]
  BY <1>2, <1>3, Joined
<1> HIDE DEF b
<1>5. /\ line_buffer' \in Seq(Bytes) /\ search_from' \in 0..Len(line_buffer')
      /\ bom_checked' \in BOOLEAN /\ Len(line_buffer') <= Len(b)
      /\ ~bom_checked' => Len(line_buffer') <= 2 /\ pc' = "limit"
      /\ bom_checked' => pc' = "drain"
      /\ line_buffer' # <<>> => Last(line_buffer') = body[end]
  <2>1. Len(line_buffer) <= Len(b) /\ FALSE \in BOOLEAN
    BY <1>2, <1>4
  <2> QED
    BY <1>1, <1>4, <2>1, CheckBomOK DEF SseInv, Flow
<1>6. TypeOK'
  BY <1>1, <1>2, <1>5 DEF SseInv, TypeOK
<1>7. Flow'
  BY <1>1, <1>2, <1>5 DEF SseInv, Flow
<1>8. PieceIsLine'
  <2>1. \A i \in 1..Len(body) : fed < i /\ i < upto => body[i] \notin LineEnds
    BY <1>1, <1>2 DEF SseInv, PieceIsLine
  <2>2. end < upto => body[end] # "cr"
    BY <1>2, <2>1 DEF LineEnds
  <2> QED
    BY <1>1, <1>2, <1>5, <2>1, <2>2 DEF PieceIsLine, EndsInCr
<1>9. Len(line_buffer') <= Most(MaxLine, 2) + Most(FeedSlice, 2)
  <2>1. Len(line_buffer') \in Nat
    BY <1>5
  <2>2. CASE Len(line_buffer) <= Most(MaxLine, 2)
    BY <1>2, <1>4, <1>5, <2>1, <2>2 DEF Most
  <2>3. CASE Len(line_buffer) <= MaxLine + 1 /\ EndsInCr
    <3>1. upto = fed + 1
      BY <1>1, <2>3 DEF SseInv, PieceIsLine
    <3> QED
      BY <1>2, <1>4, <1>5, <2>1, <2>3, <3>1 DEF Most
  <2> QED
    BY <1>1, <2>2, <2>3 DEF SseInv, BetweenSlices
<1> QED
  BY <1>5, <1>6, <1>7, <1>8, <1>9 DEF SseInv, BetweenSlices

\* A complete line leaves the buffer.
LEMMA DrainLineInv == ASSUME SseInv, DrainLine PROVE SseInv'
<1> DEFINE line == SubSeq(line_buffer, 1, LineEnd - 1)
           rest == SubSeq(line_buffer, LineEnd + TerminatorLen, Len(line_buffer))
<1>1. /\ pc = "drain" /\ TerminatorLen # 0 /\ Consume(line, rest, "drain")
      /\ UNCHANGED <<input, fed, dispatches, yielded>>
  BY DEF DrainLine
<1>2. /\ LineEnd \in 1..Len(line_buffer) /\ TerminatorLen \in 1..2
      /\ LineEnd + TerminatorLen <= Len(line_buffer) + 1
      /\ line_buffer \in Seq(Bytes) /\ Len(line_buffer) \in Nat
  BY <1>1, LineEndOK DEF SseInv, TypeOK
<1>3. state = "active" /\ bom_checked
  BY <1>1 DEF SseInv, Flow, TypeOK
<1>4. line \in Seq(Bytes)
  <2>1. LineEnd - 1 \in Nat /\ LineEnd - 1 <= Len(line_buffer)
    BY <1>2
  <2> QED
    BY <1>2, <2>1, Cut
<1>5. /\ rest \in Seq(Bytes) /\ Len(rest) <= Len(line_buffer)
      /\ rest # <<>> => Last(rest) = Last(line_buffer)
  <2> DEFINE k == LineEnd + TerminatorLen
  <2>1. k \in Nat \ {0} /\ k <= Len(line_buffer) + 1
    BY <1>2
  <2> HIDE DEF k
  <2>2. /\ SubSeq(line_buffer, k, Len(line_buffer)) \in Seq(Bytes)
        /\ k <= Len(line_buffer) =>
             /\ Len(SubSeq(line_buffer, k, Len(line_buffer))) = Len(line_buffer) - k + 1
             /\ Last(SubSeq(line_buffer, k, Len(line_buffer))) = line_buffer[Len(line_buffer)]
        /\ k > Len(line_buffer) => SubSeq(line_buffer, k, Len(line_buffer)) = <<>>
    BY <1>2, <2>1, Cut
  <2>3. rest = SubSeq(line_buffer, k, Len(line_buffer))
    BY DEF k
  <2> HIDE DEF rest
  <2> QED
    BY <1>2, <2>1, <2>2, <2>3 DEF Last
<1> HIDE DEF line, rest
<1> QED
  BY <1>1, <1>3, <1>4, <1>5, ConsumeInv

\* No complete line is left.
LEMMA NoLineInv == ASSUME SseInv, NoLine PROVE SseInv'
<1>1. /\ pc = "drain" /\ pc' = (IF eof THEN "leftover" ELSE "limit")
      /\ search_from' = (IF LineEnd = 0 THEN Len(line_buffer) ELSE LineEnd - 1)
      /\ UNCHANGED <<body, upto, eof, fed, line_buffer, bom_checked, event_name,
                     event_data, data_lines, frames, dispatches, error, state, yielded>>
  BY DEF NoLine, input, eventVars
<1>2. search_from' \in 0..Len(line_buffer) /\ eof \in BOOLEAN
  BY <1>1, LineEndOK DEF SseInv, TypeOK
<1>3. TypeOK'
  BY <1>1, <1>2 DEF SseInv, TypeOK
<1> QED
  BY <1>1, <1>2, <1>3 DEF SseInv, Flow, PieceIsLine, BetweenSlices, EndsInCr

\* What remains in the buffer is measured: this is where a line that is too long
\* ends the stream.
LEMMA CheckLimitInv == ASSUME SseInv, CheckLimit PROVE SseInv'
<1> DEFINE content == IF line_buffer # <<>> /\ Last(line_buffer) = "cr"
                      THEN Len(line_buffer) - 1 ELSE Len(line_buffer)
<1>1. pc = "limit" /\ UNCHANGED <<input, fed, dispatches, yielded>>
  BY DEF CheckLimit
<1>2. CASE content > MaxLine /\ (bom_checked \/ ~IsPrefix(line_buffer, BOM))
  <2>1. Fail("line_too_large")
    BY <1>2 DEF CheckLimit
  <2> QED
    BY <1>1, <2>1, FailInv DEF DecodeErrors
<1>3. CASE ~(content > MaxLine /\ (bom_checked \/ ~IsPrefix(line_buffer, BOM)))
  <2>1. /\ pc' = (IF fed < upto THEN "slice" ELSE "classify")
        /\ UNCHANGED <<body, upto, eof, fed, dispatches, yielded, line_buffer,
                       search_from, bom_checked, event_name, event_data, data_lines,
                       frames, error, state>>
    BY <1>1, <1>3 DEF CheckLimit, lineVars, eventVars, input
  <2>2. Len(line_buffer) \in Nat /\ bom_checked \in BOOLEAN /\ fed \in Nat /\ upto \in Nat
    BY DEF SseInv, TypeOK
  <2>3. \/ Len(line_buffer) <= Most(MaxLine, 2)
        \/ Len(line_buffer) <= MaxLine + 1 /\ EndsInCr
    BY <1>3, <2>2 DEF SseInv, Flow, Most, EndsInCr
  <2>4. TypeOK'
    BY <2>1 DEF SseInv, TypeOK
  <2>5. PieceIsLine'
    BY <1>1, <2>1, <2>2 DEF SseInv, Flow, PieceIsLine, EndsInCr
  <2>6. Flow'
    BY <1>1, <2>1 DEF SseInv, Flow
  <2> QED
    BY <2>1, <2>3, <2>4, <2>5, <2>6 DEF SseInv, BetweenSlices, EndsInCr
<1> QED
  BY <1>2, <1>3

\* The frames of a piece are classified.
LEMMA ClassifyFramesInv == ASSUME SseInv, ClassifyFrames PROVE SseInv'
<1> DEFINE d == Dispatched
<1>1. /\ pc = "classify" /\ dispatches' = dispatches \o d.dispatches /\ frames' = <<>>
      /\ UNCHANGED <<body, upto, eof, fed, yielded>>
  BY DEF ClassifyFrames, input
<1>2. /\ d.dispatches \in Seq(Dispatch)
      /\ d.kind \in {"event", "consumed", "remote_error", "terminal"}
  BY DispatchedOK DEF SseInv
<1>3. dispatches' \in Seq(Dispatch) /\ frames' \in Seq(Frame)
  BY <1>1, <1>2, Joined DEF SseInv, TypeOK
<1>4. CASE d.kind = "event" /\ ~eof
  <2>1. /\ pc' = "piece"
        /\ UNCHANGED <<line_buffer, search_from, bom_checked, event_name, event_data,
                       data_lines, error, state>>
    BY <1>4 DEF ClassifyFrames, lineVars, eventVars
  <2>2. TypeOK'
    BY <1>1, <1>3, <2>1 DEF SseInv, TypeOK
  <2> QED
    BY <1>1, <1>4, <2>1, <2>2 DEF SseInv, Flow, PieceIsLine, BetweenSlices, EndsInCr
<1>5. CASE ~(d.kind = "event" /\ ~eof)
  <2>1. /\ pc' = "deliver" /\ line_buffer' = <<>> /\ search_from' = 0
        /\ event_name' = "none" /\ event_data' = <<>> /\ data_lines' = 0
        /\ bom_checked' = bom_checked
    BY <1>5 DEF ClassifyFrames
  <2>2. state' \in {"completed", "remote_error", "failed"}
        /\ error' \in DecodeErrors \cup {"none"}
    <3>1. CASE d.kind = "event"
      BY <1>5, <3>1 DEF ClassifyFrames, DecodeErrors
    <3>2. CASE d.kind # "event"
      BY <1>2, <1>5, <3>2 DEF ClassifyFrames, StateAfter, SseInv, TypeOK
    <3> QED
      BY <3>1, <3>2
  <2>3. <<>> \in Seq(Bytes) /\ <<>> \in Data /\ Len(<<>>) = 0
    BY DEF Data
  <2>4. TypeOK'
    BY <1>1, <1>3, <2>1, <2>2, <2>3 DEF SseInv, TypeOK, EventNames
  <2> QED
    BY <1>1, <2>1, <2>2, <2>3, <2>4
       DEF SseInv, Flow, PieceIsLine, BetweenSlices, EndsInCr, Most
<1> QED
  BY <1>4, <1>5

\* The consumer takes the next item.
LEMMA DeliverNextInv == ASSUME SseInv, DeliverNext PROVE SseInv'
<1>1. /\ pc = "deliver"
      /\ UNCHANGED <<body, upto, eof, fed, line_buffer, search_from, bom_checked,
                     event_name, event_data, data_lines, frames, error, state>>
  BY DEF DeliverNext, input, lineVars, eventVars
<1>2. CASE dispatches # <<>>
  <2> DEFINE y == Yielded(Head(dispatches), eof)
  <2>1. /\ yielded' = Append(yielded, y.item) /\ dispatches' = Tail(dispatches)
        /\ pc' = (IF y.ends THEN "done" ELSE "deliver")
    BY <1>2 DEF DeliverNext
  <2>2. Head(dispatches) \in Dispatch /\ Tail(dispatches) \in Seq(Dispatch)
    BY <1>2 DEF SseInv, TypeOK
  <2>3. y.item \in Yields
    BY <2>2, YieldedOK DEF SseInv, TypeOK
  <2> HIDE DEF y
  <2>4. yielded' \in Seq(Yields)
    BY <2>1, <2>3 DEF SseInv, TypeOK
  <2>5. TypeOK'
    BY <1>1, <2>1, <2>2, <2>4 DEF SseInv, TypeOK
  <2> QED
    BY <1>1, <2>1, <2>5 DEF SseInv, Flow, PieceIsLine, BetweenSlices, EndsInCr
<1>3. CASE dispatches = <<>>
  <2>1. /\ yielded' = (IF error = "none" THEN yielded
                       ELSE Append(yielded, [type |-> error]))
        /\ pc' = (IF state = "active" THEN "idle" ELSE "done")
        /\ dispatches' = dispatches
    BY <1>3 DEF DeliverNext
  <2>2. yielded' \in Seq(Yields)
    <3>1. error # "none" => [type |-> error] \in Yields
      BY DEF SseInv, TypeOK, Yields
    <3> QED
      BY <2>1, <3>1 DEF SseInv, TypeOK
  <2>3. TypeOK'
    BY <1>1, <2>1, <2>2 DEF SseInv, TypeOK
  <2> QED
    BY <1>1, <2>1, <2>3 DEF SseInv, Flow, PieceIsLine, BetweenSlices, EndsInCr
<1> QED
  BY <1>2, <1>3

\* The body ends.
LEMMA FinishBodyInv == ASSUME SseInv, FinishBody PROVE SseInv'
<1>1. /\ pc = "idle" /\ eof' = TRUE /\ CheckBom(line_buffer, TRUE, "drain")
      /\ frames' = <<>> /\ dispatches' = <<>>
      /\ UNCHANGED <<body, upto, fed, event_name, event_data, data_lines, error, state,
                     yielded>>
  BY DEF FinishBody, eventVars
<1>2. line_buffer \in Seq(Bytes) /\ Len(line_buffer) \in Nat /\ TRUE \in BOOLEAN
  BY DEF SseInv, TypeOK
<1>3. /\ line_buffer' \in Seq(Bytes) /\ search_from' \in 0..Len(line_buffer')
      /\ bom_checked' = TRUE /\ Len(line_buffer') <= Len(line_buffer)
      /\ pc' = "drain"
  <2>1. Len(line_buffer) <= Len(line_buffer)
    BY <1>2
  <2>2. /\ line_buffer' \in Seq(Bytes) /\ search_from' \in 0..Len(line_buffer')
        /\ bom_checked' \in BOOLEAN /\ Len(line_buffer') <= Len(line_buffer)
        /\ ~bom_checked' => Len(line_buffer') <= 2 /\ pc' = "drain" /\ ~TRUE
        /\ bom_checked' => pc' = "drain"
    BY <1>1, <1>2, <2>1, CheckBomOK DEF SseInv, Flow
  <2> QED
    BY <2>2
<1>4. <<>> \in Seq(Frame) /\ <<>> \in Seq(Dispatch)
  OBVIOUS
<1>5. TypeOK'
  BY <1>1, <1>3, <1>4 DEF SseInv, TypeOK
<1>6. Len(line_buffer') <= Most(MaxLine, 2) + Most(FeedSlice, 2)
  <2>1. Len(line_buffer') \in Nat
    BY <1>3
  <2> QED
    BY <1>2, <1>3, <2>1 DEF SseInv, Most
<1> QED
  BY <1>1, <1>3, <1>5, <1>6 DEF SseInv, Flow, PieceIsLine, BetweenSlices

\* An unterminated last line is processed.
LEMMA LeftoverInv == ASSUME SseInv, Leftover PROVE SseInv'
<1>1. /\ pc = "leftover" /\ Consume(line_buffer, <<>>, "leftover")
      /\ UNCHANGED <<input, fed, dispatches, yielded>>
  BY DEF Leftover
<1>2. state = "active" /\ bom_checked /\ line_buffer \in Seq(Bytes)
  BY <1>1 DEF SseInv, Flow, TypeOK
<1>3. <<>> \in Seq(Bytes) /\ Len(<<>>) <= Len(line_buffer)
  BY <1>2
<1> QED
  BY <1>1, <1>2, <1>3, ConsumeInv

\* An event without its empty line is flushed at the end.
LEMMA FlushEventInv == ASSUME SseInv, FlushEvent PROVE SseInv'
<1> DEFINE flushed == TakeEvent(Event(event_name, event_data, data_lines)).frames
<1>1. /\ pc = "leftover" /\ line_buffer = <<>> /\ frames' = frames \o flushed
      /\ event_name' = "none" /\ event_data' = <<>> /\ data_lines' = 0
      /\ pc' = "classify"
      /\ UNCHANGED <<body, upto, eof, fed, line_buffer, search_from, bom_checked,
                     dispatches, error, state, yielded>>
  BY DEF FlushEvent, input, lineVars
<1>2. flushed \in Seq(Frame)
  <2>1. [event |-> event_name, data |-> event_data] \in Frame
    BY DEF SseInv, TypeOK, Frame
  <2>2. <<[event |-> event_name, data |-> event_data]>> \in Seq(Frame)
    BY <2>1
  <2> QED
    BY <2>2 DEF TakeEvent, Event
<1> HIDE DEF flushed
<1>3. frames' \in Seq(Frame) /\ <<>> \in Data /\ Len(<<>>) = 0
  BY <1>1, <1>2, Joined DEF SseInv, TypeOK, Data
<1>4. TypeOK'
  BY <1>1, <1>3 DEF SseInv, TypeOK, EventNames
<1> QED
  BY <1>1, <1>3, <1>4 DEF SseInv, Flow, PieceIsLine, BetweenSlices, EndsInCr, Most

\* The body fails.
LEMMA BodyErrorInv == ASSUME SseInv, BodyError PROVE SseInv'
<1>1. /\ pc = "idle" /\ pc' = "done" /\ yielded' = Append(yielded, [type |-> "transport"])
      /\ UNCHANGED <<body, upto, eof, fed, line_buffer, search_from, bom_checked,
                     event_name, event_data, data_lines, frames, dispatches, error, state>>
  BY DEF BodyError, input, lineVars, eventVars
<1>2. [type |-> "transport"] \in Yields
  BY DEF Yields
<1>3. TypeOK'
  BY <1>1, <1>2 DEF SseInv, TypeOK
<1> QED
  BY <1>1, <1>3 DEF SseInv, Flow, PieceIsLine, BetweenSlices, EndsInCr

\* The new decoder.
LEMMA SseInitInv == Init => SseInv
<1> SUFFICES ASSUME Init PROVE SseInv
  OBVIOUS
<1> USE DEF Init
<1>1. /\ <<>> \in Seq(Bytes) /\ <<>> \in Data /\ <<>> \in Seq(Frame)
      /\ <<>> \in Seq(Dispatch) /\ <<>> \in Seq(Yields) /\ Len(<<>>) = 0
  BY DEF Data
<1>2. MaxBody \in Nat
  BY DEF MaxBody
<1>3. eof \in BOOLEAN /\ bom_checked \in BOOLEAN
  OBVIOUS
<1>4. TypeOK
  BY <1>1, <1>2, <1>3 DEF TypeOK, EventNames
<1> QED
  BY <1>1, <1>4 DEF SseInv, Flow, PieceIsLine, BetweenSlices, EndsInCr, Most

\* A step that leaves the decoder alone.
LEMMA SseStutterInv == ASSUME SseInv, UNCHANGED vars PROVE SseInv'
<1>1. UNCHANGED <<body, upto, eof, fed, pc, line_buffer, search_from, bom_checked,
                  event_name, event_data, data_lines, frames, dispatches, error, state,
                  yielded>>
  BY DEF vars, input, lineVars, eventVars
<1> QED
  BY <1>1 DEF SseInv, TypeOK, Flow, PieceIsLine, BetweenSlices, EndsInCr

\* The invariant of the decoder holds in every reachable state.
THEOREM SseInvariance == Spec => []SseInv
<1>1. SseInv /\ [Next]_vars => SseInv'
  BY ReceiveInv, NextPieceInv, FeedNextInv, DrainLineInv, NoLineInv, CheckLimitInv,
     ClassifyFramesInv, DeliverNextInv, FinishBodyInv, LeftoverInv, FlushEventInv,
     BodyErrorInv, SseStutterInv DEF Next
<1> QED
  BY <1>1, SseInitInv, PTL DEF Spec

\* Every reachable state of the decoder is well typed; in particular the pending
\* event keeps within MaxEvent bytes and MaxDataLines lines.
THEOREM SseTypeCorrect == Spec => []TypeOK
<1>1. SseInv => TypeOK
  BY DEF SseInv
<1> QED
  BY <1>1, SseInvariance, PTL

\* For every limit and every slice size, and however the body is cut into chunks,
\* the decoder buffers no more than a line of the allowed length and one slice,
\* and nothing at all once the stream has stopped.
THEOREM BufferIsBounded == Spec => []RetainedIsBounded
<1>1. SseInv => RetainedIsBounded
  BY DEF SseInv, Flow, RetainedIsBounded, Most
<1> QED
  BY <1>1, SseInvariance, PTL

----------------------------------------------------------------------------
(* The reference reading of a body: its equation, and how far it reaches. *)

\* The reading before the first line.
NothingRead == Acc(NoEvent, <<>>, FALSE)

\* The equation that the reading of a body satisfies: a recursive function is a
\* CHOOSE, and exists because every initial part of it does.
LEMMA ReadingDef ==
  ASSUME NEW b, Len(b) \in Nat
  PROVE  Reading(b) = [i \in 0..Len(b) |->
           IF i = 0 THEN NothingRead
           ELSE IF i \in Ends(b) THEN ReadLine(Reading(b)[i - 1], LineAt(b, i), FALSE)
           ELSE Reading(b)[i - 1]]
<1> DEFINE next(x, i) == IF i \in Ends(b) THEN ReadLine(x, LineAt(b, i), FALSE) ELSE x
           reads(r, n) == r = [i \in 0..n |-> IF i = 0 THEN NothingRead
                                             ELSE next(r[i - 1], i)]
           missing == {n \in Nat : ~\E r : reads(r, n)}
<1>1. Reading(b) = CHOOSE r : reads(r, Len(b))
  BY DEF Reading, NothingRead
<1> HIDE DEF next
<1>2. missing = {}
  <2> SUFFICES ASSUME missing # {} PROVE FALSE
    OBVIOUS
  <2>1. PICK n \in missing : \A m \in missing : n <= m
    BY Least
  <2>2. CASE n = 0
    <3>1. reads([i \in 0..0 |-> NothingRead], 0)
      OBVIOUS
    <3> QED
      BY <2>1, <2>2, <3>1
  <2>3. CASE n # 0
    <3>1. n - 1 \in Nat /\ n - 1 \notin missing /\ n \in Nat
      <4>1. n \in Nat
        OBVIOUS
      <4> HIDE DEF missing
      <4> QED
        BY <2>1, <2>3, <4>1
    <3>2. PICK r : reads(r, n - 1)
      BY <3>1
    <3> DEFINE q == [i \in 0..n |-> IF i = n THEN next(r[n - 1], n) ELSE r[i]]
    <3>3. \A i \in 0..n : q[i] = IF i = 0 THEN NothingRead ELSE next(q[i - 1], i)
      <4>1. TAKE i \in 0..n
      <4>2. CASE i = n
        BY <2>3, <3>1, <4>2
      <4>3. CASE i # n
        <5>1. i \in 0..(n - 1) /\ q[i] = r[i]
          BY <3>1, <4>3
        <5>2. i # 0 => i - 1 \in 0..n /\ i - 1 # n /\ q[i - 1] = r[i - 1]
          BY <3>1, <4>3
        <5>3. r[i] = IF i = 0 THEN NothingRead ELSE next(r[i - 1], i)
          BY <3>2, <5>1
        <5> HIDE DEF q
        <5> QED
          BY <5>1, <5>2, <5>3
      <4> QED
        BY <4>2, <4>3
    <3>4. reads(q, n)
      <4>1. q = [i \in 0..n |-> q[i]]
        OBVIOUS
      <4> HIDE DEF q
      <4> QED
        BY <3>3, <4>1
    <3> QED
      BY <2>1, <3>4
  <2> QED
    BY <2>2, <2>3
<1>3. reads(Reading(b), Len(b))
  <2>1. \E r : reads(r, Len(b))
    BY <1>2
  <2> HIDE DEF reads
  <2> QED
    BY <1>1, <2>1
<1> QED
  BY <1>3 DEF next

\* One position of a reading follows from the one before it.
LEMMA ReadingStep ==
  ASSUME NEW b, Len(b) \in Nat
  PROVE  /\ Reading(b)[0] = NothingRead
         /\ \A i \in 1..Len(b) :
              Reading(b)[i] = IF i \in Ends(b)
                              THEN ReadLine(Reading(b)[i - 1], LineAt(b, i), FALSE)
                              ELSE Reading(b)[i - 1]
<1> DEFINE r == Reading(b)
<1>1. \A i \in 0..Len(b) : r[i] =
        IF i = 0 THEN NothingRead
        ELSE IF i \in Ends(b) THEN ReadLine(r[i - 1], LineAt(b, i), FALSE)
        ELSE r[i - 1]
  <2>1. r = [i \in 0..Len(b) |->
               IF i = 0 THEN NothingRead
               ELSE IF i \in Ends(b) THEN ReadLine(r[i - 1], LineAt(b, i), FALSE)
               ELSE r[i - 1]]
    BY ReadingDef
  <2> HIDE DEF r
  <2> QED
    BY <2>1
<1> HIDE DEF r
<1>2. r[0] = NothingRead
  <2>1. 0 \in 0..Len(b)
    OBVIOUS
  <2> QED
    BY <1>1, <2>1
<1>3. ASSUME NEW i \in 1..Len(b)
      PROVE  r[i] = IF i \in Ends(b) THEN ReadLine(r[i - 1], LineAt(b, i), FALSE)
                    ELSE r[i - 1]
  <2>1. i \in 0..Len(b) /\ i # 0
    OBVIOUS
  <2> QED
    BY <1>1, <2>1
<1> QED
  BY <1>2, <1>3 DEF r

\* Nothing is read where no line ends.
LEMMA ReadingSkips ==
  ASSUME NEW b, Len(b) \in Nat, NEW c \in Nat, NEW d \in Nat, c <= d, d <= Len(b),
         \A i \in c + 1..d : i \notin Ends(b)
  PROVE  Reading(b)[d] = Reading(b)[c]
<1> DEFINE wrong == {n \in Nat : c <= n /\ n <= d /\ Reading(b)[n] # Reading(b)[c]}
<1> SUFFICES ASSUME wrong # {} PROVE FALSE
  OBVIOUS
<1>1. PICK n \in wrong : \A m \in wrong : n <= m
  BY Least
<1>2. n # c /\ n \in 1..Len(b) /\ n - 1 \in Nat /\ c <= n - 1 /\ n \in c + 1..d
  BY <1>1
<1>3. Reading(b)[n - 1] = Reading(b)[c]
  BY <1>1, <1>2
<1> QED
  BY <1>1, <1>2, <1>3, ReadingStep

\* The next line that ends is read.
LEMMA ReadingNext ==
  ASSUME NEW b, Len(b) \in Nat, NEW c \in Nat, NEW d \in Ends(b), c < d,
         \A i \in c + 1..d - 1 : i \notin Ends(b)
  PROVE  Reading(b)[d] = ReadLine(Reading(b)[c], LineAt(b, d), FALSE)
<1>1. d \in 1..Len(b)
  BY DEF Ends
<1>2. d - 1 \in Nat /\ c <= d - 1 /\ d - 1 <= Len(b)
  BY <1>1
<1>3. Reading(b)[d - 1] = Reading(b)[c]
  BY <1>2, ReadingSkips
<1> QED
  BY <1>1, <1>3, ReadingStep

\* A reading that has ended stays as it is, and is that of the whole body.
LEMMA ReadingEnded ==
  ASSUME NEW b, Len(b) \in Nat, NEW c \in 0..Len(b), Reading(b)[c].ends
  PROVE  /\ \A d \in c..Len(b) : Reading(b)[d] = Reading(b)[c]
         /\ ReadBody(b) = Reading(b)[c].out
<1> DEFINE wrong == {n \in Nat : c <= n /\ n <= Len(b) /\ Reading(b)[n] # Reading(b)[c]}
<1>1. wrong = {}
  <2> SUFFICES ASSUME wrong # {} PROVE FALSE
    OBVIOUS
  <2>1. PICK n \in wrong : \A m \in wrong : n <= m
    BY Least
  <2>2. n # c /\ n \in 1..Len(b) /\ n - 1 \in Nat /\ c <= n - 1
    BY <2>1
  <2>3. Reading(b)[n - 1] = Reading(b)[c]
    BY <2>1, <2>2
  <2>4. \A line : ReadLine(Reading(b)[c], line, FALSE) = Reading(b)[c]
    BY DEF ReadLine
  <2> QED
    BY <2>1, <2>2, <2>3, <2>4, ReadingStep
<1>2. \A d \in c..Len(b) : Reading(b)[d] = Reading(b)[c]
  <2>1. TAKE d \in c..Len(b)
  <2>2. d \in Nat /\ c <= d /\ d <= Len(b)
    OBVIOUS
  <2> QED
    BY <1>1, <2>2
<1>3. ReadLines(b) = Reading(b)[c]
  BY <1>2 DEF ReadLines
<1> DEFINE acc == Reading(b)[c]
<1> HIDE DEF acc
<1>4. acc.ends /\ ReadLines(b) = acc
  BY <1>3 DEF acc
<1>5. ReadOpen(b) = acc
  BY <1>4 DEF ReadOpen, ReadLine
<1>6. ReadBody(b) = acc.out
  BY <1>4, <1>5 DEF ReadBody, ReadFrames
<1> QED
  BY <1>2, <1>6 DEF acc

\* A prefix, element by element.
LEMMA PrefixIs ==
  ASSUME NEW S, NEW s \in Seq(S), NEW t \in Seq(S)
  PROVE  IsPrefix(s, t) <=> Len(s) <= Len(t) /\ \A i \in 1..Len(s) : s[i] = t[i]
<1>1. CASE Len(s) <= Len(t)
  <2>1. /\ SubSeq(s, 1, Len(s)) = [i \in 1..Len(s) |-> s[i]]
        /\ SubSeq(t, 1, Len(s)) = [i \in 1..Len(s) |-> t[i]]
    BY <1>1
  <2> QED
    BY <1>1, <2>1 DEF IsPrefix
<1>2. CASE ~(Len(s) <= Len(t))
  BY <1>2 DEF IsPrefix
<1> QED
  BY <1>1, <1>2

\* A byte order mark is the first three bytes of a body.
LEMMA BomIs ==
  ASSUME NEW b \in Seq(Bytes)
  PROVE  /\ IsPrefix(BOM, b) <=>
              Len(b) >= 3 /\ b[1] = "b1" /\ b[2] = "b2" /\ b[3] = "b3"
         /\ Len(b) < 3 =>
              (IsPrefix(b, BOM) <=> \A i \in 1..Len(b) : b[i] = BOM[i])
         /\ BomLen(b) \in {0, 3} /\ BomLen(b) <= Len(b)
<1>1. BOM \in Seq(Bytes) /\ Len(BOM) = 3
  BY DEF BOM, Bytes
<1>2. BOM[1] = "b1" /\ BOM[2] = "b2" /\ BOM[3] = "b3"
  BY DEF BOM
<1>3. IsPrefix(BOM, b) <=> 3 <= Len(b) /\ \A i \in 1..3 : BOM[i] = b[i]
  <2>1. IsPrefix(BOM, b) <=>
          Len(BOM) <= Len(b) /\ \A i \in 1..Len(BOM) : BOM[i] = b[i]
    <3>1. \A s \in Seq(Bytes) :
            IsPrefix(s, b) <=> Len(s) <= Len(b) /\ \A i \in 1..Len(s) : s[i] = b[i]
      BY PrefixIs
    <3> QED
      BY <1>1, <3>1, Zenon
  <2> QED
    BY <1>1, <2>1
<1>4. IsPrefix(b, BOM) <=> Len(b) <= 3 /\ \A i \in 1..Len(b) : b[i] = BOM[i]
  BY <1>1, PrefixIs
<1>5. \A i : i \in 1..3 <=> i = 1 \/ i = 2 \/ i = 3
  OBVIOUS
<1>6. Len(b) \in Nat
  OBVIOUS
<1>7. IsPrefix(BOM, b) <=> Len(b) >= 3 /\ b[1] = "b1" /\ b[2] = "b2" /\ b[3] = "b3"
  BY <1>2, <1>3, <1>5, <1>6
<1>8. BomLen(b) \in {0, 3} /\ BomLen(b) <= Len(b)
  BY <1>6, <1>7 DEF BomLen
<1> QED
  BY <1>4, <1>6, <1>7, <1>8

\* No line ends within a byte order mark.
LEMMA EndsBehindBom ==
  ASSUME NEW b \in Seq(Bytes), NEW i \in Ends(b)
  PROVE  i \in 1..Len(b) /\ BomLen(b) < i /\ b[i] \in LineEnds
<1>1. i \in 1..Len(b) /\ b[i] \in LineEnds
  BY DEF Ends, LineEnds
<1>2. IsPrefix(BOM, b) => i # 1 /\ i # 2 /\ i # 3
  BY <1>1, BomIs DEF LineEnds
<1> QED
  BY <1>1, <1>2 DEF BomLen

\* The greatest member of a set of numbers.
LEMMA MaxIs ==
  ASSUME NEW T, T \subseteq Nat, NEW x \in T, \A y \in T : y <= x
  PROVE  Max(T) = x
<1>1. \A y \in T : x >= y
  OBVIOUS
<1>2. Max(T) \in T /\ Max(T) >= x
  BY <1>1 DEF Max
<1>3. Max(T) <= x /\ Max(T) \in Nat /\ x \in Nat
  BY <1>2
<1> QED
  BY <1>2, <1>3

\* A bounded set of numbers has a greatest member.
LEMMA MaxOK ==
  ASSUME NEW T, T \subseteq Nat, T # {}, NEW k \in Nat, \A y \in T : y <= k
  PROVE  Max(T) \in T /\ \A y \in T : y <= Max(T)
<1> DEFINE U == {u \in Nat : \A y \in T : y <= u}
<1>1. PICK u \in U : \A v \in U : u <= v
  <2>1. k \in U
    OBVIOUS
  <2> QED
    BY <2>1, Least
<1>2. u \in Nat /\ \A y \in T : y <= u
  OBVIOUS
<1>3. u \in T
  <2> SUFFICES ASSUME u \notin T PROVE FALSE
    OBVIOUS
  <2>1. \A y \in T : y < u /\ y \in Nat
    BY <1>2
  <2>2. u - 1 \in Nat /\ \A y \in T : y <= u - 1
    <3>1. PICK y \in T : TRUE
      OBVIOUS
    <3>2. u - 1 \in Nat
      BY <1>2, <2>1, <3>1
    <3> QED
      BY <1>2, <2>1, <3>2
  <2>3. u - 1 \in U
    BY <2>2
  <2> HIDE DEF U
  <2> QED
    BY <1>1, <1>2, <2>3
<1>4. Max(T) = u
  BY <1>2, <1>3, MaxIs
<1> QED
  BY <1>2, <1>3, <1>4

\* Positions behind which a line starts.
LineStart(b, c) == c = BomLen(b) \/ c \in Ends(b)

\* Where the line up to position i starts.
LEMMA StartIs ==
  ASSUME NEW b \in Seq(Bytes), NEW c \in Nat, NEW i \in Nat, c < i, i <= Len(b),
         LineStart(b, c), \A j \in c + 1..i - 1 : j \notin Ends(b)
  PROVE  Max({BomLen(b)} \cup {j \in Ends(b) : j < i}) = c
<1> DEFINE T == {BomLen(b)} \cup {j \in Ends(b) : j < i}
<1>1. T \subseteq Nat /\ c \in T
  BY BomIs, EndsBehindBom DEF LineStart
<1>2. ASSUME NEW y \in T PROVE y <= c
  <2>1. CASE y = BomLen(b)
    BY <2>1, BomIs, EndsBehindBom DEF LineStart
  <2>2. CASE y \in Ends(b) /\ y < i
    <3>1. y \in Nat
      BY <2>2, EndsBehindBom
    <3> QED
      BY <2>2, <3>1
  <2> QED
    BY <2>1, <2>2
<1> HIDE DEF T
<1>3. Max(T) = c
  BY <1>1, <1>2, MaxIs
<1> QED
  BY <1>3 DEF T

\* The line up to position i: it starts behind c, m is its last byte.
LEMMA LineIs ==
  ASSUME NEW b \in Seq(Bytes), NEW c \in Nat, NEW m \in Nat, NEW i \in Nat,
         c < i, i <= Len(b), LineStart(b, c), \A j \in c + 1..i - 1 : j \notin Ends(b),
         c <= m, m <= i, c < m => b[m] \notin LineEnds,
         \A j \in m + 1..i : b[j] \in LineEnds
  PROVE  LineAt(b, i) = SubSeq(b, c + 1, m)
<1> DEFINE T == {c} \cup {j \in c + 1..i : b[j] \notin LineEnds}
<1>1. Max({BomLen(b)} \cup {j \in Ends(b) : j < i}) = c
  BY StartIs
<1>2. LineAt(b, i) = SubSeq(b, c + 1, Max(T))
  BY <1>1 DEF LineAt
<1>3. T \subseteq Nat /\ m \in T
  OBVIOUS
<1>4. ASSUME NEW y \in T PROVE y <= m
  OBVIOUS
<1> HIDE DEF T
<1>5. Max(T) = m
  BY <1>3, <1>4, MaxIs
<1> QED
  BY <1>2, <1>5

\* A line is at least as long as its bytes up to one that ends no line.
LEMMA LineReaches ==
  ASSUME NEW b \in Seq(Bytes), NEW c \in Nat, NEW m \in Nat, NEW i \in Nat,
         c < i, i <= Len(b), LineStart(b, c), \A j \in c + 1..i - 1 : j \notin Ends(b),
         c < m, m <= i, b[m] \notin LineEnds
  PROVE  LineAt(b, i) \in Seq(Bytes) /\ Len(LineAt(b, i)) >= m - c
<1> DEFINE T == {c} \cup {j \in c + 1..i : b[j] \notin LineEnds}
<1>1. Max({BomLen(b)} \cup {j \in Ends(b) : j < i}) = c
  BY StartIs
<1>2. LineAt(b, i) = SubSeq(b, c + 1, Max(T))
  BY <1>1 DEF LineAt
<1>3. T \subseteq Nat /\ m \in T /\ \A y \in T : y <= i
  OBVIOUS
<1> HIDE DEF T
<1>4. Max(T) \in Nat /\ m <= Max(T) /\ Max(T) <= i
  BY <1>3, MaxOK
<1> QED
  BY <1>2, <1>4

\* More bytes change nothing that has been read: only a final CR was undecided.
LEMMA ReadingGrows ==
  ASSUME NEW b \in Seq(Bytes), NEW c \in Seq(Bytes), NEW t, t = b \o c,
         BomLen(t) = BomLen(b), NEW n \in 0..Len(b),
         n = 0 \/ n < Len(b) \/ b[Len(b)] # "cr"
  PROVE  /\ Reading(t)[n] = Reading(b)[n]
         /\ \A i \in 1..n : i \in Ends(t) <=> i \in Ends(b)
<1>1. /\ t \in Seq(Bytes) /\ Len(t) = Len(b) + Len(c) /\ Len(b) \in Nat /\ Len(c) \in Nat
      /\ \A i \in 1..Len(b) : t[i] = b[i]
  OBVIOUS
<1>2. \A i \in 1..n : i \in Ends(t) <=> i \in Ends(b)
  <2>1. TAKE i \in 1..n
  <2>2. i \in 1..Len(b) /\ i \in 1..Len(t) /\ t[i] = b[i]
    BY <1>1
  <2>3. CASE i < Len(b)
    <3>1. i + 1 \in 1..Len(b) /\ i < Len(t) /\ t[i + 1] = b[i + 1]
      BY <1>1, <2>3
    <3> QED
      BY <2>2, <2>3, <3>1 DEF Ends
  <2>4. CASE i = Len(b)
    <3>1. b[i] # "cr"
      BY <1>1, <2>4
    <3> QED
      BY <2>2, <3>1 DEF Ends
  <2> QED
    BY <1>1, <2>2, <2>3, <2>4
<1>3. ASSUME NEW i \in 1..n, i \in Ends(b) PROVE LineAt(t, i) = LineAt(b, i)
  <2> DEFINE S == {BomLen(b)} \cup {j \in Ends(b) : j < i}
             start == Max(S)
             L(d) == {start} \cup {j \in start + 1..i : d[j] \notin LineEnds}
  <2>1. {j \in Ends(t) : j < i} = {j \in Ends(b) : j < i}
    <3>1. \A j : j \in Ends(t) \/ j \in Ends(b) => j \in Nat /\ j >= 1
      BY DEF Ends
    <3> QED
      BY <1>1, <1>2, <3>1
  <2>2. S \subseteq Nat /\ S # {} /\ \A y \in S : y <= i - 1
    <3>1. BomLen(b) \in Nat /\ BomLen(b) < i
      BY <1>3, BomIs, EndsBehindBom
    <3>2. \A j \in Ends(b) : j \in Nat
      BY EndsBehindBom
    <3> QED
      BY <3>1, <3>2
  <2>3. start \in Nat /\ start < i
    <3> HIDE DEF S
    <3>1. i - 1 \in Nat
      OBVIOUS
    <3>2. Max(S) \in S
      BY <2>2, <3>1, MaxOK
    <3>3. \A y \in S : y \in Nat /\ y < i
      BY <2>2
    <3> QED
      BY <3>2, <3>3, Zenon
  <2>4. /\ LineAt(t, i) = SubSeq(t, start + 1, Max(L(t)))
        /\ LineAt(b, i) = SubSeq(b, start + 1, Max(L(b)))
    BY <2>1 DEF LineAt
  <2> HIDE DEF S, start
  <2>5. L(t) = L(b)
    BY <1>1, <2>3
  <2>6. L(b) \subseteq Nat /\ L(b) # {} /\ \A y \in L(b) : start <= y /\ y <= i
    BY <2>3
  <2> DEFINE fin == Max(L(b))
  <2>7. fin \in Nat /\ fin <= i
    <3>1. i \in Nat
      OBVIOUS
    <3> HIDE DEF L
    <3> QED
      BY <2>6, <3>1, MaxOK
  <2> HIDE DEF L, fin
  <2>8. LineAt(t, i) = SubSeq(t, start + 1, fin) /\ LineAt(b, i) = SubSeq(b, start + 1, fin)
    BY <2>4, <2>5 DEF fin
  <2>9. fin <= Len(b) /\ fin <= Len(t)
    BY <1>1, <2>7
  <2>10. /\ SubSeq(t, start + 1, fin) = [k \in 1..(fin - start) |-> t[start + k]]
         /\ SubSeq(b, start + 1, fin) = [k \in 1..(fin - start) |-> b[start + k]]
    BY <1>1, <2>3, <2>7, <2>9
  <2>11. \A k \in 1..(fin - start) : t[start + k] = b[start + k]
    BY <1>1, <2>3, <2>7, <2>9
  <2> QED
    BY <2>8, <2>10, <2>11
<1>4. /\ Reading(t)[0] = NothingRead /\ Reading(b)[0] = NothingRead
      /\ \A i \in 1..Len(t) :
           Reading(t)[i] = IF i \in Ends(t)
                           THEN ReadLine(Reading(t)[i - 1], LineAt(t, i), FALSE)
                           ELSE Reading(t)[i - 1]
      /\ \A i \in 1..Len(b) :
           Reading(b)[i] = IF i \in Ends(b)
                           THEN ReadLine(Reading(b)[i - 1], LineAt(b, i), FALSE)
                           ELSE Reading(b)[i - 1]
  <2>1. Len(t) \in Nat
    BY <1>1
  <2> QED
    BY <1>1, <2>1, ReadingStep, Zenon
<1> DEFINE wrong == {i \in Nat : i <= n /\ Reading(t)[i] # Reading(b)[i]}
<1>5. wrong = {}
  <2> SUFFICES ASSUME wrong # {} PROVE FALSE
    OBVIOUS
  <2>1. PICK i \in wrong : \A j \in wrong : i <= j
    BY Least
  <2>2. i # 0
    BY <1>4, <2>1
  <2>3. i \in 1..n /\ i \in 1..Len(b) /\ i \in 1..Len(t) /\ i - 1 \in Nat
    BY <1>1, <2>1, <2>2
  <2>4. Reading(t)[i - 1] = Reading(b)[i - 1]
    BY <2>1, <2>3
  <2>5. Reading(t)[i] # Reading(b)[i]
    BY <2>1
  <2> HIDE DEF wrong
  <2> QED
    BY <1>4, <1>2, <1>3, <2>3, <2>4, <2>5
<1> QED
  BY <1>2, <1>5

\* What a line adds to a reading.
LEMMA ReadLineIs ==
  ASSUME NEW e, NEW o, NEW line, NEW fin
  PROVE  ReadLine(Acc(e, o, FALSE), line, fin) =
           IF ProcessLine(line, e).error # "none"
           THEN Acc(e, Append(o, [type |-> ProcessLine(line, e).error]), TRUE)
           ELSE ReadFrames(Acc(ProcessLine(line, e).event, o, FALSE),
                           ProcessLine(line, e).frames, fin)
<1> DEFINE acc == Acc(e, o, FALSE)
<1>1. acc.event = e /\ acc.out = o /\ ~acc.ends
  BY DEF Acc
<1> HIDE DEF acc
<1>2. ReadLine(acc, line, fin) =
        IF ProcessLine(line, e).error # "none"
        THEN Acc(e, Append(o, [type |-> ProcessLine(line, e).error]), TRUE)
        ELSE ReadFrames(Acc(ProcessLine(line, e).event, o, FALSE),
                        ProcessLine(line, e).frames, fin)
  BY <1>1, Zenon DEF ReadLine
<1> QED
  BY <1>2 DEF acc

\* What the stream yields for a frame that is not consumed.
Sent(f, fin) == Yielded([type |-> Classify(f), frame |-> f], fin)

\* What a frame adds to a reading.
LEMMA ReadFramesIs ==
  ASSUME NEW e, NEW o, NEW fin
  PROVE  /\ ReadFrames(Acc(e, o, FALSE), <<>>, fin) = Acc(e, o, FALSE)
         /\ \A f \in Seq(Frame) : Len(f) = 1 /\ Classify(f[1]) = "consumed" =>
              ReadFrames(Acc(e, o, FALSE), f, fin) = Acc(e, o, TRUE)
<1> DEFINE acc == Acc(e, o, FALSE)
<1>1. acc.event = e /\ acc.out = o /\ ~acc.ends
  BY DEF Acc
<1> HIDE DEF acc
<1>2. ReadFrames(acc, <<>>, fin) = acc
  BY DEF ReadFrames
<1>3. ASSUME NEW f \in Seq(Frame), Len(f) = 1, Classify(f[1]) = "consumed"
      PROVE  ReadFrames(acc, f, fin) = Acc(e, o, TRUE)
  <2>1. f # <<>>
    <3>1. Len(<<>>) = 0 /\ 0 # 1
      OBVIOUS
    <3> QED
      BY <1>3, <3>1, Zenon
  <2> QED
    BY <1>1, <1>3, <2>1, Zenon DEF ReadFrames
<1> QED
  BY <1>2, <1>3, Zenon DEF acc

\* A frame that is not consumed gives an item, and may end the stream.
LEMMA ReadFrameEnds ==
  ASSUME NEW e, NEW o, NEW fin, NEW f \in Seq(Frame), Len(f) = 1,
         Classify(f[1]) # "consumed", Sent(f[1], fin).ends \/ Classify(f[1]) # "event"
  PROVE  ReadFrames(Acc(e, o, FALSE), f, fin) = Acc(e, Append(o, Sent(f[1], fin).item), TRUE)
<1> DEFINE acc == Acc(e, o, FALSE)
           stops == Sent(f[1], fin).ends \/ Classify(f[1]) # "event"
<1>1. acc.event = e /\ acc.out = o /\ ~acc.ends
  BY DEF Acc
<1> HIDE DEF acc
<1>2. f # <<>>
  <2>1. Len(<<>>) = 0 /\ 0 # 1
    OBVIOUS
  <2> QED
    BY <2>1, Zenon
<1>3. ReadFrames(acc, f, fin) = Acc(e, Append(o, Sent(f[1], fin).item), stops)
  BY <1>1, <1>2, Zenon DEF ReadFrames, Sent
<1>4. stops = TRUE
  OBVIOUS
<1> HIDE DEF stops
<1> QED
  BY <1>3, <1>4 DEF acc

\* A line with an error ends the reading of the body, whether a line end follows
\* or not.
LEMMA LongLine ==
  ASSUME NEW b \in Seq(Bytes), NEW c \in Nat, NEW m \in Nat, LineStart(b, c),
         c < m, m <= Len(b), b[m] \notin LineEnds,
         \A i \in c + 1..m : i \notin Ends(b), m - c > MaxLine,
         NEW e, NEW o, Reading(b)[c] = Acc(e, o, FALSE)
  PROVE  ReadBody(b) = Append(o, [type |-> "line_too_large"])
<1> DEFINE later == {i \in Ends(b) : c < i}
           long == Acc(e, Append(o, [type |-> "line_too_large"]), TRUE)
<1>1. ASSUME NEW line \in Seq(Bytes), Len(line) >= m - c, NEW fin
      PROVE  ReadLine(Acc(e, o, FALSE), line, fin) = long
  <2>1. Len(line) > MaxLine
    BY <1>1
  <2>2. ProcessLine(line, e).error = "line_too_large"
    BY <2>1 DEF ProcessLine
  <2> QED
    BY <2>2, ReadLineIs
<1>2. long.ends /\ long.out = Append(o, [type |-> "line_too_large"])
  BY DEF Acc
<1> HIDE DEF long
<1>3. BomLen(b) <= c /\ Len(b) \in Nat
  BY BomIs, EndsBehindBom DEF LineStart
<1>4. CASE later = {}
  <2>1. \A i \in c + 1..Len(b) : i \notin Ends(b)
    BY <1>4
  <2>2. ReadLines(b) = Acc(e, o, FALSE)
    <3>1. c <= Len(b) /\ Len(b) <= Len(b)
      BY <1>3
    <3>2. Reading(b)[Len(b)] = Reading(b)[c]
      BY <1>3, <2>1, <3>1, ReadingSkips
    <3> QED
      BY <3>2 DEF ReadLines
  <2>3. Len(b) \notin Ends(b) /\ Len(b) > BomLen(b)
    BY <1>3, <2>1, BomIs
  <2>4. LineAt(b, Len(b)) \in Seq(Bytes) /\ Len(LineAt(b, Len(b))) >= m - c
    <3>1. \A i \in c + 1..Len(b) - 1 : i \notin Ends(b)
      BY <2>1
    <3>2. c < Len(b) /\ Len(b) <= Len(b)
      BY <1>3
    <3> QED
      BY <1>3, <3>1, <3>2, LineReaches
  <2>5. ReadOpen(b) = long
    BY <1>1, <2>2, <2>3, <2>4 DEF ReadOpen
  <2> QED
    BY <1>2, <2>5 DEF ReadBody, ReadFrames
<1>5. CASE later # {}
  <2>1. later \subseteq Nat
    BY EndsBehindBom
  <2>2. PICK i \in later : \A j \in later : i <= j
    BY <1>5, <2>1, Least
  <2>3. i \in Ends(b) /\ i \in Nat /\ i <= Len(b) /\ c < i
    BY <2>2, EndsBehindBom
  <2>4. \A j \in c + 1..i - 1 : j \notin Ends(b)
    BY <2>2, <2>3
  <2>5. m < i
    BY <2>3
  <2>6. LineAt(b, i) \in Seq(Bytes) /\ Len(LineAt(b, i)) >= m - c
    BY <2>3, <2>4, <2>5, LineReaches
  <2>7. Reading(b)[i] = long
    <3>1. Reading(b)[i] = ReadLine(Reading(b)[c], LineAt(b, i), FALSE)
      BY <1>3, <2>3, <2>4, ReadingNext
    <3> QED
      BY <1>1, <2>6, <3>1
  <2>8. i \in 0..Len(b)
    BY <2>3
  <2> QED
    BY <1>2, <1>3, <2>7, <2>8, ReadingEnded
<1> QED
  BY <1>4, <1>5

\* The items a consumer takes from the dispatches ds: those up to the first that
\* ends the stream.
Enders(ds, fin) == {i \in 1..Len(ds) : Yielded(ds[i], fin).ends}

Taken(ds, fin) ==
  LET n == IF Enders(ds, fin) = {} THEN Len(ds)
           ELSE CHOOSE i \in Enders(ds, fin) : \A j \in Enders(ds, fin) : i <= j
  IN [i \in 1..n |-> Yielded(ds[i], fin).item]

\* How many of them there are.
LEMMA TakenIs ==
  ASSUME NEW ds \in Seq(Dispatch), NEW fin, NEW n \in Nat, n <= Len(ds),
         \/ Enders(ds, fin) = {} /\ n = Len(ds)
         \/ n \in Enders(ds, fin) /\ \A j \in Enders(ds, fin) : n <= j
  PROVE  Taken(ds, fin) = [i \in 1..n |-> Yielded(ds[i], fin).item]
<1> DEFINE E == Enders(ds, fin)
           k == IF E = {} THEN Len(ds) ELSE CHOOSE i \in E : \A j \in E : i <= j
<1>1. E \subseteq Nat
  BY DEF Enders
<1>2. Taken(ds, fin) = [i \in 1..k |-> Yielded(ds[i], fin).item]
  BY DEF Taken
<1> HIDE DEF E
<1>3. k = n
  <2>1. CASE E = {}
    BY <2>1 DEF E
  <2>2. CASE E # {}
    <3>1. n \in E /\ \A j \in E : n <= j
      BY <2>2 DEF E
    <3>2. k \in E /\ \A j \in E : k <= j
      BY <2>2, <3>1
    <3>3. k <= n /\ n <= k /\ k \in Nat
      BY <1>1, <3>1, <3>2
    <3> HIDE DEF k
    <3> QED
      BY <3>3
  <2> QED
    BY <2>1, <2>2
<1> HIDE DEF k
<1> QED
  BY <1>2, <1>3

\* There is a number of them.
LEMMA TakenLen ==
  ASSUME NEW ds \in Seq(Dispatch), NEW fin
  PROVE  \E n \in Nat :
           /\ n <= Len(ds) /\ Taken(ds, fin) = [i \in 1..n |-> Yielded(ds[i], fin).item]
           /\ \/ Enders(ds, fin) = {} /\ n = Len(ds)
              \/ n \in Enders(ds, fin) /\ \A j \in Enders(ds, fin) : n <= j
<1>1. Enders(ds, fin) \subseteq 1..Len(ds) /\ Len(ds) \in Nat /\ Len(ds) <= Len(ds)
  BY DEF Enders
<1>2. CASE Enders(ds, fin) = {}
  BY <1>1, <1>2, TakenIs
<1>3. CASE Enders(ds, fin) # {}
  <2>1. Enders(ds, fin) \subseteq Nat
    BY <1>1
  <2>2. PICK n \in Enders(ds, fin) : \A j \in Enders(ds, fin) : n <= j
    BY <1>3, <2>1, Least
  <2>3. n \in Nat /\ n <= Len(ds)
    BY <1>1, <2>2
  <2> QED
    BY <2>2, <2>3, TakenIs
<1> QED
  BY <1>2, <1>3

\* They are items of the stream, and none is a transport error.
LEMMA TakenOK ==
  ASSUME NEW ds \in Seq(Dispatch), NEW fin \in BOOLEAN
  PROVE  /\ Taken(ds, fin) \in Seq(Yields)
         /\ ds = <<>> => Taken(ds, fin) = <<>> /\ Enders(ds, fin) = {}
<1>1. PICK n \in Nat :
        /\ n <= Len(ds) /\ Taken(ds, fin) = [i \in 1..n |-> Yielded(ds[i], fin).item]
  BY TakenLen
<1>2. \A i \in 1..n : Yielded(ds[i], fin).item \in Yields
  <2>1. TAKE i \in 1..n
  <2>2. ds[i] \in Dispatch
    BY <1>1
  <2> QED
    BY <2>2, YieldedOK
<1>3. Taken(ds, fin) \in Seq(Yields)
  BY <1>1, <1>2
<1>4. ds = <<>> => Taken(ds, fin) = <<>>
  <2> SUFFICES ASSUME ds = <<>> PROVE Taken(ds, fin) = <<>>
    OBVIOUS
  <2>1. Len(ds) = 0 /\ n = 0
    BY <1>1
  <2> QED
    BY <1>1, <2>1
<1>5. ds = <<>> => Enders(ds, fin) = {}
  BY DEF Enders
<1> QED
  BY <1>3, <1>4, <1>5

\* One dispatch more is taken unless one before it ends the stream.
LEMMA TakenMore ==
  ASSUME NEW ds \in Seq(Dispatch), NEW d \in Dispatch, NEW fin \in BOOLEAN
  PROVE  /\ Enders(ds, fin) = {} =>
              /\ Taken(ds \o <<d>>, fin) = Append(Taken(ds, fin), Yielded(d, fin).item)
              /\ Enders(ds \o <<d>>, fin) = {} <=> ~Yielded(d, fin).ends
         /\ Enders(ds, fin) # {} =>
              /\ Taken(ds \o <<d>>, fin) = Taken(ds, fin)
              /\ Enders(ds \o <<d>>, fin) # {}
<1> DEFINE more == ds \o <<d>>
<1>1. /\ more \in Seq(Dispatch) /\ Len(more) = Len(ds) + 1 /\ Len(ds) \in Nat
      /\ more[Len(ds) + 1] = d /\ \A i \in 1..Len(ds) : more[i] = ds[i]
  OBVIOUS
<1> HIDE DEF more
<1>2. \A i \in 1..Len(ds) : i \in Enders(more, fin) <=> i \in Enders(ds, fin)
  BY <1>1 DEF Enders
<1>3. Enders(ds, fin) \subseteq 1..Len(ds) /\ Enders(more, fin) \subseteq 1..Len(ds) + 1
  BY <1>1 DEF Enders
<1>4. Len(ds) + 1 \in Enders(more, fin) <=> Yielded(d, fin).ends
  BY <1>1 DEF Enders
<1>5. CASE Enders(ds, fin) = {}
  <2>1. \A i \in Enders(more, fin) : i = Len(ds) + 1
    BY <1>1, <1>2, <1>3, <1>5
  <2>2. Enders(more, fin) = {} <=> ~Yielded(d, fin).ends
    BY <1>4, <2>1
  <2> DEFINE n == Len(ds) + 1
  <2>3. n \in Nat /\ n <= Len(more) /\ n = Len(more)
    BY <1>1
  <2>4. \/ Enders(more, fin) = {} /\ n = Len(more)
        \/ n \in Enders(more, fin) /\ \A j \in Enders(more, fin) : n <= j
    BY <2>1, <2>3
  <2>5. Taken(more, fin) = [i \in 1..n |-> Yielded(more[i], fin).item]
    <3> HIDE DEF n
    <3>1. \A m \in Nat : /\ m <= Len(more)
                          /\ \/ Enders(more, fin) = {} /\ m = Len(more)
                             \/ m \in Enders(more, fin) /\ \A j \in Enders(more, fin) : m <= j
            => Taken(more, fin) = [i \in 1..m |-> Yielded(more[i], fin).item]
      BY <1>1, TakenIs
    <3> QED
      BY <2>3, <2>4, <3>1
  <2>6. Taken(ds, fin) = [i \in 1..Len(ds) |-> Yielded(ds[i], fin).item]
    <3>1. Len(ds) <= Len(ds)
      BY <1>1
    <3> QED
      BY <1>1, <1>5, <3>1, TakenIs
  <2>7. \A i \in 1..n : Yielded(more[i], fin).item =
          IF i = n THEN Yielded(d, fin).item ELSE Yielded(ds[i], fin).item
    BY <1>1
  <2>8. Append(Taken(ds, fin), Yielded(d, fin).item) =
          [i \in 1..n |-> IF i = n THEN Yielded(d, fin).item ELSE Yielded(ds[i], fin).item]
    <3> DEFINE q == [i \in 1..Len(ds) |-> Yielded(ds[i], fin).item]
    <3>1. q \in Seq(Yields) /\ Len(q) = Len(ds)
      <4>1. Taken(ds, fin) \in Seq(Yields)
        BY TakenOK
      <4> QED
        BY <1>1, <2>6, <4>1
    <3>2. \A i \in 1..Len(ds) : q[i] = Yielded(ds[i], fin).item
      OBVIOUS
    <3> HIDE DEF q
    <3>3. Append(q, Yielded(d, fin).item) =
            [i \in 1..n |-> IF i = n THEN Yielded(d, fin).item ELSE q[i]]
      BY <1>1, <3>1
    <3> QED
      BY <1>1, <2>6, <3>2, <3>3 DEF q
  <2>9. Taken(more, fin) = Append(Taken(ds, fin), Yielded(d, fin).item)
    BY <2>5, <2>7, <2>8
  <2> QED
    BY <1>5, <2>2, <2>9 DEF more
<1>6. CASE Enders(ds, fin) # {}
  <2>1. PICK n \in Nat :
          /\ n <= Len(ds) /\ Taken(ds, fin) = [i \in 1..n |-> Yielded(ds[i], fin).item]
          /\ n \in Enders(ds, fin) /\ \A j \in Enders(ds, fin) : n <= j
    BY <1>6, TakenLen
  <2>2. n \in Enders(more, fin) /\ n <= Len(more)
    BY <1>1, <1>2, <1>3, <2>1
  <2>3. \A j \in Enders(more, fin) : n <= j
    BY <1>1, <1>2, <1>3, <2>1
  <2>4. Taken(more, fin) = [i \in 1..n |-> Yielded(more[i], fin).item]
    BY <1>1, <2>2, <2>3, TakenIs
  <2>5. \A i \in 1..n : more[i] = ds[i]
    BY <1>1, <2>1
  <2>6. Taken(more, fin) = Taken(ds, fin)
    BY <2>1, <2>4, <2>5
  <2> QED
    BY <1>6, <2>2, <2>6 DEF more
<1> QED
  BY <1>5, <1>6

\* The first dispatch is taken before the others.
LEMMA TakenNext ==
  ASSUME NEW ds \in Seq(Dispatch), ds # <<>>, NEW fin \in BOOLEAN,
         NEW out \in Seq(Yields)
  PROVE  /\ Yielded(Head(ds), fin).ends =>
              /\ Enders(ds, fin) # {}
              /\ out \o Taken(ds, fin) = Append(out, Yielded(Head(ds), fin).item)
         /\ ~Yielded(Head(ds), fin).ends =>
              /\ Enders(Tail(ds), fin) = {} <=> Enders(ds, fin) = {}
              /\ out \o Taken(ds, fin) =
                   Append(out, Yielded(Head(ds), fin).item) \o Taken(Tail(ds), fin)
<1> DEFINE rest == Tail(ds)
           item == Yielded(Head(ds), fin).item
<1>1. /\ rest \in Seq(Dispatch) /\ Len(ds) = Len(rest) + 1 /\ Len(rest) \in Nat
      /\ Head(ds) = ds[1] /\ \A i \in 1..Len(rest) : rest[i] = ds[i + 1]
  OBVIOUS
<1>2. item \in Yields
  BY <1>1, YieldedOK
<1>3. Taken(ds, fin) \in Seq(Yields) /\ Taken(rest, fin) \in Seq(Yields)
  BY <1>1, TakenOK
<1> HIDE DEF rest
<1>4. CASE Yielded(Head(ds), fin).ends
  <2>1. 1 \in Enders(ds, fin) /\ \A j \in Enders(ds, fin) : 1 <= j
    BY <1>1, <1>4 DEF Enders
  <2>2. 1 \in Nat /\ 1 <= Len(ds)
    BY <1>1
  <2>3. Taken(ds, fin) = [i \in 1..1 |-> Yielded(ds[i], fin).item]
    BY <2>1, <2>2, TakenIs
  <2>4. Taken(ds, fin) = <<item>>
    BY <1>1, <2>3
  <2> HIDE DEF item
  <2>5. out \o <<item>> = Append(out, item)
    BY <1>2
  <2> QED
    BY <1>4, <2>1, <2>4, <2>5 DEF item
<1>5. CASE ~Yielded(Head(ds), fin).ends
  <2>1. \A i \in 1..Len(rest) : i \in Enders(rest, fin) <=> i + 1 \in Enders(ds, fin)
    BY <1>1 DEF Enders
  <2>2. Enders(rest, fin) \subseteq 1..Len(rest) /\ Enders(ds, fin) \subseteq 1..Len(ds)
    BY DEF Enders
  <2>3. 1 \notin Enders(ds, fin)
    BY <1>1, <1>5 DEF Enders
  <2>4. PICK n \in Nat :
          /\ n <= Len(rest) /\ Taken(rest, fin) = [i \in 1..n |-> Yielded(rest[i], fin).item]
          /\ \/ Enders(rest, fin) = {} /\ n = Len(rest)
             \/ n \in Enders(rest, fin) /\ \A j \in Enders(rest, fin) : n <= j
    BY <1>1, TakenLen
  <2>5. \A j \in Enders(ds, fin) : j - 1 \in Enders(rest, fin) /\ j \in Nat
    <3>1. TAKE j \in Enders(ds, fin)
    <3>2. j - 1 \in 1..Len(rest) /\ (j - 1) + 1 = j
      BY <1>1, <2>2, <2>3
    <3> QED
      BY <2>1, <3>2
  <2>6. Enders(rest, fin) = {} <=> Enders(ds, fin) = {}
    <3>1. \A i \in Enders(rest, fin) : i + 1 \in Enders(ds, fin)
      BY <2>1, <2>2
    <3> QED
      BY <2>5, <3>1
  <2> DEFINE k == n + 1
  <2>7. \/ Enders(ds, fin) = {} /\ k = Len(ds)
        \/ k \in Enders(ds, fin) /\ \A j \in Enders(ds, fin) : k <= j
    <3>1. CASE Enders(rest, fin) = {}
      BY <1>1, <2>4, <2>6, <3>1
    <3>2. CASE Enders(rest, fin) # {}
      <4>1. n \in Enders(rest, fin) /\ \A j \in Enders(rest, fin) : n <= j
        BY <2>4, <3>2
      <4>2. k \in Enders(ds, fin)
        BY <2>1, <2>2, <4>1
      <4>3. ASSUME NEW j \in Enders(ds, fin) PROVE k <= j
        BY <2>5, <4>1
      <4> QED
        BY <4>2, <4>3
    <3> QED
      BY <3>1, <3>2
  <2>8. k \in Nat /\ k <= Len(ds)
    BY <1>1, <2>4
  <2>9. Taken(ds, fin) = [i \in 1..k |-> Yielded(ds[i], fin).item]
    <3> HIDE DEF k
    <3> QED
      BY <2>7, <2>8, TakenIs
  <2>10. Len(Taken(rest, fin)) = n /\ Len(Taken(ds, fin)) = k
    BY <1>3, <2>4, <2>8, <2>9
  <2>11. Taken(ds, fin)[1] = item
    BY <1>1, <2>4, <2>9
  <2>12. \A i \in 1..n : Taken(ds, fin)[i + 1] = Taken(rest, fin)[i]
    <3>1. TAKE i \in 1..n
    <3>2. i + 1 \in 1..k /\ rest[i] = ds[i + 1]
      BY <1>1, <2>4
    <3> QED
      BY <2>4, <2>9, <3>2
  <2>13. \A s, t \in Seq(Yields) : \A y \in Yields :
           Len(s) = Len(t) + 1 /\ s[1] = y /\ (\A i \in 1..Len(t) : s[i + 1] = t[i])
             => out \o s = Append(out, y) \o t
    <3>1. TAKE s, t \in Seq(Yields)
    <3>2. TAKE y \in Yields
    <3>3. HAVE Len(s) = Len(t) + 1 /\ s[1] = y /\ \A i \in 1..Len(t) : s[i + 1] = t[i]
    <3> DEFINE l == out \o s
               r == Append(out, y) \o t
    <3>4. /\ l \in Seq(Yields) /\ r \in Seq(Yields) /\ Len(l) = Len(r)
          /\ Len(l) = Len(out) + 1 + Len(t) /\ Len(out) \in Nat /\ Len(t) \in Nat
      <4>1. Append(out, y) \in Seq(Yields) /\ Len(Append(out, y)) = Len(out) + 1
        OBVIOUS
      <4>2. Len(out) \in Nat /\ Len(t) \in Nat /\ Len(s) \in Nat
        OBVIOUS
      <4>3. /\ out \o s \in Seq(Yields) /\ Len(out \o s) = Len(out) + Len(s)
            /\ Append(out, y) \o t \in Seq(Yields)
            /\ Len(Append(out, y) \o t) = Len(Append(out, y)) + Len(t)
        BY <4>1, Joined
      <4> QED
        BY <3>3, <4>1, <4>2, <4>3
    <3>5. \A i \in 1..Len(l) : l[i] = r[i]
      <4>1. TAKE i \in 1..Len(l)
      <4>2. CASE i <= Len(out)
        BY <3>3, <3>4, <4>2
      <4>3. CASE i = Len(out) + 1
        BY <3>3, <3>4, <4>3
      <4>4. CASE i > Len(out) + 1
        <5>1. /\ i - Len(out) - 1 \in 1..Len(t)
              /\ (i - Len(out) - 1) + 1 = i - Len(out)
          BY <3>4, <4>4
        <5>2. l[i] = s[i - Len(out)] /\ r[i] = t[i - Len(out) - 1]
          BY <3>3, <3>4, <4>4
        <5> QED
          BY <3>3, <5>1, <5>2
      <4> QED
        BY <3>4, <4>2, <4>3, <4>4
    <3> HIDE DEF l, r
    <3>6. l = r
      BY <3>4, <3>5, SeqEqual
    <3> QED
      BY <3>6 DEF l, r
  <2>14. out \o Taken(ds, fin) = Append(out, item) \o Taken(rest, fin)
    <3> HIDE DEF item, k
    <3>1. Len(Taken(ds, fin)) = Len(Taken(rest, fin)) + 1
      BY <2>10 DEF k
    <3> QED
      BY <1>2, <1>3, <2>10, <2>11, <2>12, <2>13, <3>1
  <2> QED
    BY <1>5, <2>6, <2>14 DEF rest
<1> QED
  BY <1>4, <1>5

----------------------------------------------------------------------------
(* What the decoder delivers is what the whole body reads as. *)

\* The position of the body up to which lines have left the buffer.
Consumed == IF bom_checked THEN fed - Len(line_buffer) ELSE 0

\* The reading that the decoder and the stream hold between them.
Held ==
  Acc(Event(event_name, event_data, data_lines), yielded \o Taken(dispatches, eof), FALSE)

\* What the end of the body makes of a reading.
Closed(acc) ==
  IF acc.ends THEN acc.out ELSE Append(acc.out, [type |-> "unexpected_eof"])

\* The buffer is the body from the end of a line on, and the scan has passed no
\* line end in it.  Whether a byte order mark stands first is decided as soon as
\* the body tells.
Buffered ==
  state = "active" =>
    /\ Len(line_buffer) <= fed /\ (~bom_checked => fed = Len(line_buffer))
    /\ \A i \in 1..Len(line_buffer) : line_buffer[i] = body[Consumed + i]
    /\ \A i \in 1..search_from : line_buffer[i] \notin LineEnds
    /\ ~bom_checked => search_from = 0 /\ IsPrefix(line_buffer, BOM)
    /\ bom_checked /\ ~eof => Len(body) >= 3 \/ ~IsPrefix(body, BOM)
    /\ bom_checked /\ (~eof \/ line_buffer # <<>>) =>
         LineStart(body, Consumed)

\* Only a CR that waits for the next byte is left in the buffer between two calls,
\* and a call completes one line at most.
OneLine ==
  /\ state = "active" /\ pc # "drain" =>
       \A i \in 1..Len(line_buffer) :
         line_buffer[i] \in LineEnds =>
           i = Len(line_buffer) /\ line_buffer[i] = "cr" /\ pc # "leftover"
  /\ pc = "drain" =>
       \A i \in 1..Len(line_buffer) :
         line_buffer[i] \in LineEnds =>
           /\ ~eof => fed = upto
           /\ i # Len(line_buffer) => i + 1 = Len(line_buffer) /\ line_buffer[i] = "cr"
           /\ eof => i = Len(line_buffer) /\ line_buffer[i] = "cr"
  /\ pc \in {"idle", "piece", "slice", "deliver"} => frames = <<>>
  /\ Len(frames) <= 1
  /\ frames # <<>> /\ pc \in {"drain", "limit"} /\ ~eof =>
       /\ fed = upto /\ Len(line_buffer) <= 1
       /\ line_buffer # <<>> => line_buffer[1] # "lf"
  /\ frames # <<>> /\ pc \in {"drain", "leftover"} /\ eof =>
       line_buffer = <<>> /\ data_lines = 0

\* The stream at rest: everything received is in the decoder, and everything it
\* gave is delivered.  The end of the body is the last thing to be read.
AtRest ==
  /\ state = "active" =>
       /\ error = "none"
       /\ pc \in {"idle", "deliver"} \/ eof => fed = Len(body)
       /\ pc = "idle" \/ eof => dispatches = <<>>
  /\ pc = "leftover" => eof
  /\ pc # "done" => \A i \in 1..Len(yielded) : yielded[i].type # "transport"

\* Before the body ends, the lines that have left the buffer have given what the
\* stream holds.
InStep ==
  state = "active" /\ pc # "done" /\ ~eof =>
    IF Enders(dispatches, FALSE) = {}
    THEN Reading(body)[Consumed] = ReadFrames(Held, frames, FALSE)
    ELSE /\ Reading(body)[Consumed].ends
         /\ Reading(body)[Consumed].out = yielded \o Taken(dispatches, FALSE)

\* At its end the last line is still to come, or has been read too, and then the
\* last event.
InStepAtEnd ==
  state = "active" /\ pc # "done" /\ eof =>
    /\ pc # "classify" /\ line_buffer # <<>> => Reading(body)[Consumed] = Held
    /\ pc # "classify" /\ line_buffer = <<>> =>
         ReadOpen(body) = ReadFrames(Held, frames, TRUE)
    /\ pc = "classify" => ReadBody(body) = Closed(ReadFrames(Held, frames, TRUE))

\* Once the decoder has stopped, what is still to be delivered completes what the
\* body gives.
Settled ==
  /\ pc = "deliver" /\ state # "active" =>
       ReadBody(body) =
         IF Enders(dispatches, eof) = {} /\ error # "none"
         THEN Append(yielded \o Taken(dispatches, eof), [type |-> error])
         ELSE yielded \o Taken(dispatches, eof)
  /\ pc = "done" => DeliveryIgnoresChunks

DeliveryInv == Buffered /\ OneLine /\ AtRest /\ InStep /\ InStepAtEnd /\ Settled

----------------------------------------------------------------------------
\* Where the buffer lies in the body.
LEMMA ConsumedOK ==
  ASSUME SseInv, Buffered, state = "active"
  PROVE  /\ Consumed \in Nat /\ Consumed + Len(line_buffer) = fed /\ fed <= Len(body)
         /\ Len(body) \in Nat /\ Len(line_buffer) \in Nat /\ fed \in Nat
         /\ body \in Seq(Bytes) /\ line_buffer \in Seq(Bytes)
         /\ \A i \in 1..Len(line_buffer) : line_buffer[i] = body[Consumed + i]
<1>1. /\ Len(body) \in Nat /\ Len(line_buffer) \in Nat /\ fed \in Nat /\ fed <= Len(body)
      /\ body \in Seq(Bytes) /\ line_buffer \in Seq(Bytes) /\ bom_checked \in BOOLEAN
  BY DEF SseInv, TypeOK
<1>2. /\ Len(line_buffer) <= fed /\ (~bom_checked => fed = Len(line_buffer))
      /\ \A i \in 1..Len(line_buffer) : line_buffer[i] = body[Consumed + i]
  BY DEF Buffered
<1>3. Consumed \in Nat /\ Consumed + Len(line_buffer) = fed
  BY <1>1, <1>2 DEF Consumed
<1> QED
  BY <1>1, <1>2, <1>3

\* No line ends in the first k bytes of the buffer.
LEMMA NoEndIn ==
  ASSUME SseInv, Buffered, state = "active", NEW k \in Nat, k <= Len(line_buffer),
         \A i \in 1..k : line_buffer[i] \notin LineEnds
  PROVE  \A i \in Consumed + 1..Consumed + k : body[i] \notin LineEnds /\ i \notin Ends(body)
<1>1. TAKE i \in Consumed + 1..Consumed + k
<1>2. i - Consumed \in 1..k /\ i - Consumed \in 1..Len(line_buffer) /\ Consumed + (i - Consumed) = i
  BY ConsumedOK
<1>3. line_buffer[i - Consumed] = body[i] /\ line_buffer[i - Consumed] \notin LineEnds
  BY <1>2, ConsumedOK
<1> QED
  BY <1>3, EndsBehindBom, ConsumedOK

\* What the buffer holds of the body.
LEMMA BufferIs ==
  ASSUME SseInv, Buffered, state = "active", NEW k \in Nat, k <= Len(line_buffer)
  PROVE  SubSeq(body, Consumed + 1, Consumed + k) = SubSeq(line_buffer, 1, k)
<1> DEFINE c == Consumed
<1>1. /\ c \in Nat /\ c + Len(line_buffer) <= Len(body) /\ Len(body) \in Nat
      /\ Len(line_buffer) \in Nat /\ body \in Seq(Bytes) /\ line_buffer \in Seq(Bytes)
      /\ \A i \in 1..Len(line_buffer) : line_buffer[i] = body[c + i]
  BY ConsumedOK
<1> HIDE DEF c
<1>2. SubSeq(line_buffer, 1, k) = [i \in 1..k |-> line_buffer[i]]
  BY <1>1
<1>3. SubSeq(body, c + 1, c + k) = [i \in 1..k |-> body[c + i]]
  <2> DEFINE q == SubSeq(body, c + 1, c + k)
  <2>1. q \in Seq(Bytes) /\ Len(q) = k /\ \A i \in 1..k : q[i] = body[c + i]
    BY <1>1
  <2> HIDE DEF q
  <2>2. q = [i \in 1..Len(q) |-> q[i]]
    BY <2>1
  <2>3. q = [i \in 1..k |-> body[c + i]]
    BY <2>1, <2>2
  <2> QED
    BY <2>3 DEF q
<1>4. \A i \in 1..k : line_buffer[i] = body[c + i]
  BY <1>1
<1> QED
  BY <1>2, <1>3, <1>4 DEF c

\* At rest the stream has delivered what the lines of the body give.
LEMMA IdleIs ==
  ASSUME SseInv, DeliveryInv, state = "active", ~eof,
         pc = "idle" \/ (pc = "deliver" /\ dispatches = <<>>)
  PROVE  ReadLines(body) = Held /\ ReadLines(body).out = yielded
<1>1. /\ fed = Len(body) /\ dispatches = <<>> /\ frames = <<>> /\ pc # "drain"
      /\ pc # "done"
  BY DEF DeliveryInv, AtRest, OneLine
<1>2. yielded \in Seq(Yields) /\ dispatches \in Seq(Dispatch) /\ eof = FALSE
  BY DEF SseInv, TypeOK
<1>3. Taken(dispatches, FALSE) = <<>> /\ Enders(dispatches, FALSE) = {}
  BY <1>1, <1>2, TakenOK
<1>4. Held.out = yielded /\ ReadFrames(Held, frames, FALSE) = Held
  <2>1. yielded \o <<>> = yielded
    BY <1>2
  <2>2. Held = Acc(Event(event_name, event_data, data_lines), yielded, FALSE)
    BY <1>2, <1>3, <2>1 DEF Held
  <2> DEFINE e == Event(event_name, event_data, data_lines)
  <2> HIDE DEF e
  <2>3. Acc(e, yielded, FALSE).out = yielded
    BY DEF Acc
  <2>4. ReadFrames(Acc(e, yielded, FALSE), <<>>, FALSE) = Acc(e, yielded, FALSE)
    BY ReadFramesIs
  <2> QED
    BY <1>1, <2>2, <2>3, <2>4 DEF e
<1>5. Reading(body)[Consumed] = Held
  BY <1>1, <1>3, <1>4 DEF DeliveryInv, InStep
<1>6. \A i \in Consumed + 1..Len(body) : i \notin Ends(body)
  <2>1. \A i \in 1..Len(line_buffer) : line_buffer[i] \in LineEnds =>
          i = Len(line_buffer) /\ line_buffer[i] = "cr"
    BY <1>1 DEF DeliveryInv, OneLine
  <2>2. TAKE i \in Consumed + 1..Len(body)
  <2>3. SUFFICES ASSUME i \in Ends(body) PROVE FALSE
    OBVIOUS
  <2>4. i - Consumed \in 1..Len(line_buffer) /\ Consumed + (i - Consumed) = i
    BY <1>1, ConsumedOK DEF DeliveryInv
  <2>5. line_buffer[i - Consumed] = body[i] /\ body[i] \in LineEnds
    BY <2>3, <2>4, ConsumedOK, EndsBehindBom DEF DeliveryInv
  <2>6. i = Len(body) /\ body[i] = "cr"
    BY <1>1, <2>1, <2>4, <2>5, ConsumedOK DEF DeliveryInv
  <2> QED
    BY <2>3, <2>6, ConsumedOK DEF Ends, DeliveryInv
<1>7. ReadLines(body) = Reading(body)[Consumed]
  <2>1. Consumed <= Len(body) /\ Len(body) <= Len(body)
    BY ConsumedOK DEF DeliveryInv
  <2> QED
    BY <1>6, <2>1, ConsumedOK, ReadingSkips DEF ReadLines, DeliveryInv
<1> QED
  BY <1>4, <1>5, <1>7

\* The new decoder has read nothing.
LEMMA DeliveryInit == Init => DeliveryInv
<1> SUFFICES ASSUME Init PROVE DeliveryInv
  OBVIOUS
<1> USE DEF Init
<1>1. /\ <<>> \in Seq(Bytes) /\ <<>> \in Seq(Dispatch) /\ <<>> \in Seq(Yields)
      /\ Len(<<>>) = 0 /\ FALSE \in BOOLEAN
  OBVIOUS
<1>2. Taken(<<>>, FALSE) = <<>> /\ Enders(<<>>, FALSE) = {}
  BY <1>1, TakenOK
<1>3. Consumed = 0
  BY DEF Consumed
<1>4. Held = NothingRead
  <2>1. yielded \o Taken(dispatches, eof) = <<>>
    <3>1. Taken(dispatches, eof) = <<>> /\ yielded = <<>>
      BY <1>2, Zenon
    <3> QED
      BY <3>1
  <2> QED
    BY <2>1 DEF Held, NothingRead, NoEvent
<1>5. Reading(body)[0] = NothingRead
  BY <1>1, ReadingStep
<1>6. ReadFrames(Held, frames, FALSE) = Held
  BY <1>4, ReadFramesIs DEF NothingRead
<1>7. IsPrefix(line_buffer, BOM)
  <2>1. /\ line_buffer \in Seq(Bytes) /\ Len(line_buffer) < 3
        /\ \A i \in 1..Len(line_buffer) : line_buffer[i] = BOM[i]
    OBVIOUS
  <2> QED
    BY <2>1, BomIs
<1>8. Buffered
  BY <1>1, <1>3, <1>7 DEF Buffered
<1>9. InStep
  BY <1>2, <1>3, <1>4, <1>5, <1>6 DEF InStep
<1>10. OneLine
  BY <1>1 DEF OneLine
<1>11. AtRest
  BY <1>1 DEF AtRest
<1>12. InStepAtEnd /\ Settled
  BY DEF InStepAtEnd, Settled
<1> QED
  BY <1>8, <1>9, <1>10, <1>11, <1>12 DEF DeliveryInv

\* A chunk arrives: what has been read stays read.
LEMMA ReceiveDelivers == ASSUME SseInv, DeliveryInv, SseInv', Receive PROVE DeliveryInv'
<1>1. PICK n \in 1..MaxChunk : /\ Len(body) + n <= MaxBody
                               /\ \E c \in Chunks(n) : body' = body \o c
  BY DEF Receive
<1>2. PICK c \in Chunks(n) : body' = body \o c
  BY <1>1
<1>3. /\ pc = "idle" /\ pc' = "piece" /\ dispatches' = <<>>
      /\ UNCHANGED <<fed, upto, eof, line_buffer, search_from, bom_checked, event_name,
                     event_data, data_lines, frames, error, state, yielded>>
  BY DEF Receive, lineVars, eventVars
<1>4. state = "active" /\ ~eof /\ bom_checked \in BOOLEAN /\ eof = FALSE
  BY <1>3 DEF SseInv, Flow, TypeOK
<1>5. fed = Len(body) /\ dispatches = <<>>
  BY <1>3, <1>4 DEF DeliveryInv, AtRest
<1>6. /\ body' \in Seq(Bytes) /\ Len(body') \in Nat /\ Len(body) <= Len(body')
      /\ \A i \in 1..Len(body) : body'[i] = body[i]
      /\ body \in Seq(Bytes) /\ Len(body) \in Nat /\ c \in Seq(Bytes)
  <2>1. c \in Seq(Bytes)
    BY <1>1, <1>2, ChunkOK DEF SseInv
  <2>2. body \in Seq(Bytes)
    BY DEF SseInv, TypeOK
  <2> QED
    BY <1>2, <2>1, <2>2
<1>7. Consumed' = Consumed
  BY <1>3 DEF Consumed
<1>8. /\ Consumed \in Nat /\ Consumed <= Len(body)
      /\ \A i \in 1..Len(line_buffer) :
           line_buffer[i] = body[Consumed + i] /\ Consumed + i \in 1..Len(body)
  BY <1>4, ConsumedOK DEF DeliveryInv
<1>9. bom_checked => Len(body') >= 3 \/ ~IsPrefix(body', BOM)
  <2> SUFFICES ASSUME bom_checked, Len(body') < 3, IsPrefix(body', BOM) PROVE FALSE
    BY <1>6
  <2>1. \A i \in 1..Len(body') : body'[i] = BOM[i]
    BY <1>6, BomIs
  <2>2. Len(body) < 3 /\ \A i \in 1..Len(body) : body[i] = BOM[i]
    BY <1>6, <2>1
  <2>3. IsPrefix(body, BOM)
    BY <1>6, <2>2, BomIs
  <2> QED
    BY <1>4, <1>6, <2>2, <2>3 DEF DeliveryInv, Buffered
<1>10. bom_checked => /\ LineStart(body', Consumed)
                      /\ Reading(body')[Consumed] = Reading(body)[Consumed]
  <2> SUFFICES ASSUME bom_checked
               PROVE  /\ LineStart(body', Consumed)
                      /\ Reading(body')[Consumed] = Reading(body)[Consumed]
    OBVIOUS
  <2>1. LineStart(body, Consumed) /\ (Len(body) >= 3 \/ ~IsPrefix(body, BOM))
    BY <1>4 DEF DeliveryInv, Buffered
  <2>2. BomLen(body') = BomLen(body)
    <3>1. IsPrefix(BOM, body) => IsPrefix(BOM, body')
      <4> SUFFICES ASSUME IsPrefix(BOM, body) PROVE IsPrefix(BOM, body')
        OBVIOUS
      <4>1. Len(body) >= 3 /\ body[1] = "b1" /\ body[2] = "b2" /\ body[3] = "b3"
        BY <1>6, BomIs
      <4>2. Len(body') >= 3 /\ body'[1] = "b1" /\ body'[2] = "b2" /\ body'[3] = "b3"
        BY <1>6, <4>1
      <4> QED
        BY <1>6, <4>2, BomIs
    <3>2. IsPrefix(BOM, body') => IsPrefix(BOM, body)
      <4> SUFFICES ASSUME IsPrefix(BOM, body') PROVE IsPrefix(BOM, body)
        OBVIOUS
      <4>1. body'[1] = "b1" /\ body'[2] = "b2" /\ body'[3] = "b3"
        BY <1>6, BomIs
      <4>2. CASE Len(body) >= 3
        <5>1. body[1] = "b1" /\ body[2] = "b2" /\ body[3] = "b3"
          <6>1. 1 \in 1..Len(body) /\ 2 \in 1..Len(body) /\ 3 \in 1..Len(body)
            BY <1>6, <4>2
          <6> QED
            BY <1>6, <4>1, <6>1
        <5> QED
          BY <1>6, <4>2, <5>1, BomIs
      <4>3. CASE Len(body) < 3
        <5>1. \A i \in 1..Len(body) : body[i] = BOM[i]
          BY <1>6, <4>1, <4>3 DEF BOM
        <5> QED
          BY <1>6, <2>1, <4>3, <5>1, BomIs
      <4> QED
        BY <1>6, <4>2, <4>3
    <3> QED
      BY <3>1, <3>2 DEF BomLen
  <2>3. Consumed \in 0..Len(body)
    BY <1>6, <1>8
  <2>4. Consumed = 0 \/ Consumed < Len(body) \/ body[Len(body)] # "cr"
    <3>1. CASE Consumed = BomLen(body)
      BY <1>6, <2>3, <3>1, BomIs DEF BomLen
    <3>2. CASE Consumed \in Ends(body)
      BY <1>6, <2>3, <3>2 DEF Ends
    <3> QED
      BY <2>1, <3>1, <3>2 DEF LineStart
  <2>5. /\ Reading(body')[Consumed] = Reading(body)[Consumed]
        /\ \A i \in 1..Consumed : i \in Ends(body') <=> i \in Ends(body)
    <3>1. \A t : t = body \o c /\ BomLen(t) = BomLen(body) =>
            /\ Reading(t)[Consumed] = Reading(body)[Consumed]
            /\ \A i \in 1..Consumed : i \in Ends(t) <=> i \in Ends(body)
      BY <1>6, <2>3, <2>4, ReadingGrows
    <3> QED
      BY <1>2, <2>2, <3>1, Zenon
  <2>6. Consumed \in Ends(body) => Consumed \in 1..Consumed
    BY <1>6, <2>3, EndsBehindBom
  <2> QED
    BY <2>1, <2>2, <2>5, <2>6 DEF LineStart
<1>11. Reading(body')[Consumed] = Reading(body)[Consumed]
  <2>1. ~bom_checked => Consumed = 0
    BY DEF Consumed
  <2>2. Reading(body')[0] = NothingRead /\ Reading(body)[0] = NothingRead
    BY <1>6, ReadingStep
  <2> QED
    BY <1>10, <2>1, <2>2
<1>12. Buffered'
  <2>1. \A i \in 1..Len(line_buffer) : line_buffer[i] = body'[Consumed + i]
    BY <1>6, <1>8
  <2> QED
    BY <1>3, <1>4, <1>7, <1>9, <1>10, <2>1 DEF DeliveryInv, Buffered
<1>13. InStep'
  <2>1. Held' = Held
    BY <1>3, <1>5 DEF Held
  <2> QED
    BY <1>3, <1>4, <1>5, <1>7, <1>11, <2>1 DEF DeliveryInv, InStep
<1>14. OneLine'
  BY <1>3, <1>4 DEF DeliveryInv, OneLine
<1>15. AtRest'
  BY <1>3, <1>4 DEF DeliveryInv, AtRest
<1>16. InStepAtEnd' /\ Settled'
  BY <1>3, <1>4 DEF InStepAtEnd, Settled
<1> QED
  BY <1>12, <1>13, <1>14, <1>15, <1>16 DEF DeliveryInv

\* The next piece is cut, or the chunk is used up.
LEMMA NextPieceDelivers ==
  ASSUME SseInv, DeliveryInv, SseInv', NextPiece PROVE DeliveryInv'
<1>1. /\ pc = "piece" /\ frames' = <<>> /\ pc' \in {"slice", "deliver"}
      /\ pc' = "deliver" => ~(fed < Len(body))
      /\ UNCHANGED <<body, eof, fed, line_buffer, search_from, bom_checked, event_name,
                     event_data, data_lines, dispatches, error, state, yielded>>
  BY DEF NextPiece, lineVars, eventVars
<1>2. /\ state = "active" /\ ~eof /\ fed \in Nat /\ Len(body) \in Nat /\ fed <= Len(body)
  BY <1>1 DEF SseInv, Flow, TypeOK
<1>3. frames = <<>>
  BY <1>1 DEF DeliveryInv, OneLine
<1>4. Buffered'
  BY <1>1 DEF DeliveryInv, Buffered, Consumed
<1>5. OneLine'
  BY <1>1, <1>2 DEF DeliveryInv, OneLine
<1>6. AtRest'
  BY <1>1, <1>2 DEF DeliveryInv, AtRest
<1>7. InStep'
  <2>1. Held' = Held /\ Consumed' = Consumed
    BY <1>1 DEF Held, Consumed
  <2> QED
    BY <1>1, <1>2, <1>3, <2>1 DEF DeliveryInv, InStep
<1>8. InStepAtEnd' /\ Settled'
  BY <1>1, <1>2 DEF InStepAtEnd, Settled
<1> QED
  BY <1>4, <1>5, <1>6, <1>7, <1>8 DEF DeliveryInv

\* A slice is appended: the buffer still is the body from a line start on, behind
\* the byte order mark once that is decided.
LEMMA FeedNextDelivers ==
  ASSUME SseInv, DeliveryInv, SseInv', FeedNext PROVE DeliveryInv'
<1> DEFINE end == IF fed + FeedSlice < upto THEN fed + FeedSlice ELSE upto
           piece == SubSeq(body, fed + 1, end)
           b == line_buffer \o piece
           c == Consumed
<1>1. /\ pc = "slice" /\ CheckBom(b, FALSE, "limit") /\ fed' = end
      /\ UNCHANGED <<body, upto, eof, event_name, event_data, data_lines, frames,
                     dispatches, error, state, yielded>>
  BY DEF FeedNext, input, eventVars
<1>2. /\ fed \in Nat /\ upto \in Nat /\ fed < upto /\ upto <= Len(body)
      /\ end \in Nat /\ fed < end /\ end <= upto
      /\ Len(body) \in Nat /\ ~eof /\ state = "active" /\ bom_checked \in BOOLEAN
  BY <1>1 DEF SseInv, TypeOK, Flow, PieceIsLine
<1> HIDE DEF end
<1>3. /\ c \in Nat /\ c + Len(line_buffer) = fed /\ Len(line_buffer) \in Nat
      /\ body \in Seq(Bytes) /\ line_buffer \in Seq(Bytes)
      /\ \A i \in 1..Len(line_buffer) : line_buffer[i] = body[c + i]
      /\ ~bom_checked => c = 0
  BY <1>2, ConsumedOK DEF DeliveryInv, Consumed
<1> HIDE DEF c
<1>4. /\ piece \in Seq(Bytes) /\ Len(piece) = end - fed
      /\ \A i \in 1..(end - fed) : piece[i] = body[fed + i]
  BY <1>2, <1>3
<1> HIDE DEF piece
<1>5. /\ b \in Seq(Bytes) /\ Len(b) = end - c
      /\ \A i \in 1..Len(b) : b[i] = body[c + i]
  <2>1. b \in Seq(Bytes) /\ Len(b) = Len(line_buffer) + Len(piece)
    BY <1>3, <1>4, Joined
  <2>2. ASSUME NEW i \in 1..Len(b) PROVE b[i] = body[c + i]
    <3>1. CASE i <= Len(line_buffer)
      BY <1>3, <1>4, <3>1
    <3>2. CASE i > Len(line_buffer)
      <4>1. b[i] = piece[i - Len(line_buffer)]
        BY <1>3, <1>4, <2>1, <3>2
      <4>2. /\ i - Len(line_buffer) \in 1..(end - fed)
            /\ fed + (i - Len(line_buffer)) = c + i
        <5>1. Len(b) = Len(line_buffer) + (end - fed) /\ i \in Nat /\ i <= Len(b)
          BY <1>4, <2>1
        <5>2. \A l, x, k, f, e \in Nat :
                k > l /\ k <= l + (e - f) /\ x + l = f =>
                  k - l \in 1..(e - f) /\ f + (k - l) = x + k
          OBVIOUS
        <5>3. /\ Len(line_buffer) \in Nat /\ c \in Nat /\ fed \in Nat /\ end \in Nat
              /\ c + Len(line_buffer) = fed
          BY <1>2, <1>3
        <5> HIDE DEF b
        <5> QED
          BY <3>2, <5>1, <5>2, <5>3
      <4> QED
        BY <1>4, <4>1, <4>2
    <3> QED
      BY <1>3, <2>1, <3>1, <3>2
  <2> QED
    BY <1>2, <1>3, <1>4, <2>1, <2>2
<1> HIDE DEF b
<1>6. ASSUME NEW i \in 1..Len(b), b[i] \in LineEnds
      PROVE  /\ end = upto
             /\ i # Len(b) => i + 1 = Len(b) /\ b[i] = "cr"
  <2>1. CASE c + i <= fed
    <3>1. i \in 1..Len(line_buffer) /\ line_buffer[i] = b[i]
      BY <1>3, <1>5, <2>1
    <3>2. i = Len(line_buffer) /\ line_buffer[i] = "cr"
      BY <1>1, <1>2, <1>6, <3>1 DEF DeliveryInv, OneLine
    <3>3. EndsInCr
      BY <1>3, <3>1, <3>2 DEF EndsInCr, Last
    <3>4. upto = fed + 1
      BY <1>1, <3>3 DEF SseInv, PieceIsLine
    <3>5. end = upto /\ i + 1 = Len(b)
      <4>1. end = fed + 1
        BY <1>2, <3>4
      <4>2. Len(b) = end - c /\ c + i = fed /\ c \in Nat /\ i \in Nat
        BY <1>3, <1>5, <3>2
      <4> QED
        BY <3>4, <4>1, <4>2
    <3> QED
      BY <3>1, <3>2, <3>5
  <2>2. CASE c + i > fed
    <3>1. c + i \in 1..Len(body) /\ body[c + i] \in LineEnds /\ c + i <= end
      BY <1>2, <1>3, <1>5, <1>6, <2>2
    <3>2. \A k \in 1..Len(body) : fed < k /\ k < upto => body[k] \notin LineEnds
      BY <1>1, <1>2 DEF SseInv, PieceIsLine
    <3>3. c + i = upto /\ end = upto
      BY <1>2, <1>3, <2>2, <3>1, <3>2
    <3> QED
      BY <1>2, <1>3, <1>5, <3>3
  <2> QED
    BY <1>2, <1>3, <2>1, <2>2
<1>7. frames = <<>> /\ frames' = <<>> /\ eof = FALSE /\ eof' = FALSE
  BY <1>1, <1>2 DEF DeliveryInv, OneLine, SseInv, TypeOK
<1>8. /\ search_from \in Nat /\ search_from <= Len(line_buffer)
      /\ \A i \in 1..search_from : line_buffer[i] \notin LineEnds
      /\ bom_checked => /\ Len(body) >= 3 \/ ~IsPrefix(body, BOM)
                        /\ LineStart(body, c)
      /\ ~bom_checked => search_from = 0
  <2>1. search_from \in Nat /\ search_from <= Len(line_buffer)
    BY <1>3 DEF SseInv, TypeOK
  <2>2. /\ \A i \in 1..search_from : line_buffer[i] \notin LineEnds
        /\ ~bom_checked => search_from = 0
        /\ bom_checked => Len(body) >= 3 \/ ~IsPrefix(body, BOM)
        /\ bom_checked => LineStart(body, Consumed)
    BY <1>2 DEF DeliveryInv, Buffered
  <2> QED
    BY <2>1, <2>2 DEF c
<1>9. ASSUME Consumed' \in Nat, Reading(body)[Consumed'] = Reading(body)[c], Buffered',
             \/ pc' = "drain" /\ \A i \in 1..Len(line_buffer') :
                  line_buffer'[i] \in LineEnds =>
                    /\ end = upto
                    /\ i # Len(line_buffer') => i + 1 = Len(line_buffer') /\ line_buffer'[i] = "cr"
             \/ pc' = "limit" /\ \A i \in 1..Len(line_buffer') : line_buffer'[i] \notin LineEnds
      PROVE  DeliveryInv'
  <2>1. OneLine'
    BY <1>1, <1>2, <1>7, <1>9 DEF DeliveryInv, OneLine
  <2>2. AtRest'
    BY <1>1, <1>2, <1>9 DEF DeliveryInv, AtRest
  <2>3. Held' = Held
    BY <1>1 DEF Held
  <2>4. InStep'
    BY <1>1, <1>2, <1>7, <1>9, <2>3 DEF DeliveryInv, InStep, c
  <2>5. InStepAtEnd' /\ Settled'
    BY <1>1, <1>2, <1>9 DEF InStepAtEnd, Settled
  <2> QED
    BY <1>9, <2>1, <2>2, <2>4, <2>5 DEF DeliveryInv
<1>10. CASE bom_checked
  <2>1. line_buffer' = b /\ pc' = "drain" /\ bom_checked' /\ search_from' = search_from
    BY <1>1, <1>10 DEF CheckBom
  <2>2. Consumed' = c
    BY <1>1, <1>2, <1>3, <1>5, <2>1 DEF Consumed
  <2>3. Buffered'
    <3>1. \A i \in 1..search_from : b[i] \notin LineEnds
      <4>1. \A i \in 1..search_from : i \in 1..Len(line_buffer) /\ i \in 1..Len(b)
        BY <1>2, <1>3, <1>5, <1>8
      <4> QED
        BY <1>3, <1>5, <1>8, <4>1
    <3>2. Len(b) <= end
      BY <1>2, <1>3, <1>5
    <3> QED
      BY <1>1, <1>5, <1>8, <1>10, <2>1, <2>2, <3>1, <3>2 DEF Buffered
  <2> QED
    BY <1>3, <1>6, <1>9, <2>1, <2>2, <2>3
<1>11. CASE ~bom_checked /\ Len(b) < 3 /\ IsPrefix(b, BOM)
  <2>1. line_buffer' = b /\ pc' = "limit" /\ ~bom_checked' /\ search_from' = search_from
    BY <1>1, <1>11 DEF CheckBom
  <2>2. Consumed' = c /\ c = 0
    BY <1>3, <1>11, <2>1 DEF Consumed
  <2>3. \A i \in 1..Len(b) : b[i] \notin LineEnds
    <3>1. \A i \in 1..Len(b) : b[i] = BOM[i]
      BY <1>5, <1>11, BomIs
    <3>2. \A i \in 1..3 : BOM[i] \notin LineEnds
      BY DEF BOM, LineEnds
    <3>3. \A i \in 1..Len(b) : i \in 1..3
      BY <1>5, <1>11
    <3> QED
      BY <3>1, <3>2, <3>3
  <2>4. Buffered'
    <3>1. Len(b) = end
      BY <1>2, <1>5, <2>2
    <3> QED
      BY <1>1, <1>2, <1>5, <1>8, <1>11, <2>1, <2>2, <2>3, <3>1 DEF Buffered
  <2> QED
    BY <1>3, <1>9, <2>1, <2>2, <2>3, <2>4
<1>12. CASE ~bom_checked /\ ~(Len(b) < 3 /\ IsPrefix(b, BOM)) /\ IsPrefix(BOM, b)
  <2>1. /\ line_buffer' = SubSeq(b, 4, Len(b)) /\ pc' = "drain" /\ bom_checked'
        /\ search_from' = 0
    BY <1>1, <1>8, <1>12 DEF CheckBom
  <2>2. c = 0 /\ Len(b) = end /\ Len(b) \in Nat
    BY <1>2, <1>3, <1>5, <1>12
  <2>3. Len(b) >= 3 /\ b[1] = "b1" /\ b[2] = "b2" /\ b[3] = "b3"
    BY <1>5, <1>12, BomIs
  <2>4. BomLen(body) = 3 /\ Len(body) >= 3
    <3>1. 1 \in 1..Len(b) /\ 2 \in 1..Len(b) /\ 3 \in 1..Len(b)
      BY <2>2, <2>3
    <3>2. body[1] = "b1" /\ body[2] = "b2" /\ body[3] = "b3"
      BY <1>5, <2>2, <2>3, <3>1
    <3>3. Len(body) >= 3
      BY <1>2, <2>2, <2>3
    <3> QED
      BY <1>3, <3>2, <3>3, BomIs DEF BomLen
  <2>5. /\ line_buffer' \in Seq(Bytes) /\ Len(line_buffer') = Len(b) - 3
        /\ \A i \in 1..Len(line_buffer') : line_buffer'[i] = b[i + 3] /\ i + 3 \in 1..Len(b)
    <3>1. SubSeq(b, 4, Len(b)) \in Seq(Bytes) /\ Len(SubSeq(b, 4, Len(b))) = Len(b) - 3
          /\ \A i \in 1..Len(SubSeq(b, 4, Len(b))) : SubSeq(b, 4, Len(b))[i] = b[i + 3]
      BY <1>5, <2>2, <2>3
    <3> QED
      BY <2>1, <2>2, <2>3, <3>1
  <2>6. Consumed' = 3
    BY <1>1, <2>1, <2>2, <2>5 DEF Consumed
  <2>7. Reading(body)[3] = Reading(body)[0]
    <3>1. \A i \in 0 + 1..3 : i \notin Ends(body)
      BY <1>3, <2>4, EndsBehindBom
    <3>2. 0 <= 3 /\ 3 <= Len(body) /\ 0 \in Nat /\ 3 \in Nat
      BY <1>2, <2>4
    <3> QED
      BY <1>2, <3>1, <3>2, ReadingSkips
  <2>8. Buffered'
    <3>1. ASSUME NEW i \in 1..Len(line_buffer') PROVE line_buffer'[i] = body[3 + i]
      <4>1. 0 + (i + 3) = 3 + i
        BY <2>2, <2>5
      <4>2. line_buffer'[i] = b[i + 3] /\ b[i + 3] = body[c + (i + 3)]
        BY <1>5, <2>5
      <4> QED
        BY <2>2, <4>1, <4>2
    <3>2. Len(line_buffer') <= end
      BY <2>2, <2>5
    <3> QED
      BY <1>1, <2>1, <2>4, <2>6, <3>1, <3>2 DEF Buffered, LineStart
  <2>9. ASSUME NEW i \in 1..Len(line_buffer'), line_buffer'[i] \in LineEnds
        PROVE  /\ end = upto
               /\ i # Len(line_buffer') => i + 1 = Len(line_buffer') /\ line_buffer'[i] = "cr"
    <3>1. line_buffer'[i] = b[i + 3] /\ i + 3 \in 1..Len(b)
      BY <2>5
    <3>2. end = upto /\ (i + 3 # Len(b) => (i + 3) + 1 = Len(b) /\ b[i + 3] = "cr")
      BY <1>6, <2>9, <3>1
    <3> QED
      BY <2>2, <2>5, <3>1, <3>2
  <2> QED
    BY <1>9, <2>1, <2>2, <2>6, <2>7, <2>8, <2>9
<1>13. CASE ~bom_checked /\ ~(Len(b) < 3 /\ IsPrefix(b, BOM)) /\ ~IsPrefix(BOM, b)
  <2>1. line_buffer' = b /\ pc' = "drain" /\ bom_checked' /\ search_from' = search_from
    BY <1>1, <1>13 DEF CheckBom
  <2>2. c = 0 /\ Len(b) = end /\ Len(b) \in Nat /\ search_from = 0
    BY <1>2, <1>3, <1>5, <1>8, <1>13
  <2>3. Consumed' = 0
    BY <1>1, <2>1, <2>2 DEF Consumed
  <2>4. ~IsPrefix(BOM, body) /\ (Len(body) >= 3 \/ ~IsPrefix(body, BOM))
    <3>1. \A i \in 1..Len(b) : b[i] = body[i] /\ i \in 1..Len(body)
      BY <1>2, <1>5, <2>2
    <3>2. CASE Len(b) >= 3
      <4>1. 1 \in 1..Len(b) /\ 2 \in 1..Len(b) /\ 3 \in 1..Len(b) /\ Len(body) >= 3
        BY <1>2, <2>2, <3>2
      <4> QED
        BY <1>3, <1>5, <1>13, <3>1, <3>2, <4>1, BomIs
    <3>3. CASE Len(b) < 3
      <4>1. PICK i \in 1..Len(b) : b[i] # BOM[i]
        BY <1>5, <1>13, <3>3, BomIs
      <4>2. body[i] # BOM[i] /\ i \in 1..Len(body) /\ i \in 1..3
        BY <2>2, <3>1, <3>3, <4>1
      <4>3. ~IsPrefix(BOM, body)
        BY <1>3, <4>2, BomIs DEF BOM
      <4>4. Len(body) < 3 => ~IsPrefix(body, BOM)
        BY <1>3, <4>2, BomIs
      <4> QED
        BY <1>2, <4>3, <4>4
    <3> QED
      BY <2>2, <3>2, <3>3
  <2>5. Buffered'
    <3>1. BomLen(body) = 0
      BY <2>4 DEF BomLen
    <3> QED
      BY <1>1, <1>5, <2>1, <2>2, <2>3, <2>4, <3>1 DEF Buffered, LineStart
  <2> QED
    BY <1>6, <1>9, <2>1, <2>2, <2>3, <2>5
<1> QED
  BY <1>10, <1>11, <1>12, <1>13

\* A line completes one frame at most, and then no event is pending.
LEMMA ProcessLineFrames ==
  ASSUME NEW line \in Seq(Bytes), NEW e \in Pending
  PROVE  \/ ProcessLine(line, e).frames = <<>>
         \/ /\ Len(ProcessLine(line, e).frames) = 1
            /\ ProcessLine(line, e).event = NoEvent
            /\ ProcessLine(line, e).error = "none"
<1> DEFINE p == ProcessLine(line, e)
<1>1. CASE line = <<>>
  <2>1. p = TakeEvent(e)
    BY <1>1 DEF ProcessLine, ValidUtf8
  <2>2. TakeEvent(e).frames = <<>>
          \/ TakeEvent(e).frames = <<[event |-> e.name, data |-> e.data]>>
    BY DEF TakeEvent
  <2>3. TakeEvent(e).event = NoEvent /\ TakeEvent(e).error = "none"
    BY DEF TakeEvent
  <2> HIDE DEF p
  <2>4. TakeEvent(e).frames = <<>> \/ Len(TakeEvent(e).frames) = 1
    <3>1. \A x : Len(<<x>>) = 1
      OBVIOUS
    <3> QED
      BY <2>2, <3>1, Zenon
  <2>5. p.frames = <<>> \/ (Len(p.frames) = 1 /\ p.event = NoEvent /\ p.error = "none")
    BY <2>1, <2>3, <2>4, Zenon
  <2> QED
    BY <2>5 DEF p
<1>2. CASE line # <<>>
  <2>1. Len(line) \in Nat /\ Len(line) # 0
    BY <1>2
  <2>2. CASE Len(line) > MaxLine
    <3>1. p.frames = <<>>
      BY <2>2 DEF ProcessLine
    <3> QED
      BY <3>1, Zenon
  <2>3. CASE Len(line) <= MaxLine /\ ~ValidUtf8(line)
    <3>1. p.frames = <<>>
      BY <1>2, <2>3 DEF ProcessLine
    <3> QED
      BY <3>1, Zenon
  <2>4. CASE Len(line) \in 1..MaxLine /\ ValidUtf8(line) /\ line[1] = "d"
    <3> DEFINE joined == IF e.lines = 0 THEN Tail(line) ELSE e.data \o <<"nl">> \o Tail(line)
    <3>1. PushData(e, Tail(line)) =
            CASE e.lines >= MaxDataLines
                   -> [event |-> e, frames |-> <<>>, error |-> "too_many_data_lines"]
              [] e.lines < MaxDataLines /\ Len(joined) > MaxEvent
                   -> [event |-> e, frames |-> <<>>, error |-> "event_too_large"]
              [] OTHER
                   -> [event |-> Event(e.name, joined, e.lines + 1), frames |-> <<>>,
                       error |-> "none"]
      BY DEF PushData
    <3> HIDE DEF joined
    <3>2. e.lines \in Nat
      BY DEF Pending
    <3>3. PushData(e, Tail(line)).frames = <<>>
      BY <3>1, <3>2
    <3>4. p = PushData(e, Tail(line))
      BY <1>2, <2>4 DEF ProcessLine, KnownNames
    <3>5. p.frames = <<>>
      BY <3>3, <3>4, Zenon
    <3> QED
      BY <3>5, Zenon
  <2>5. CASE Len(line) \in 1..MaxLine /\ ValidUtf8(line) /\ line[1] # "d"
    <3>1. p.frames = <<>>
      BY <1>2, <2>5 DEF ProcessLine
    <3> QED
      BY <3>1, Zenon
  <2> QED
    BY <2>1, <2>2, <2>3, <2>4, <2>5
<1> QED
  BY <1>1, <1>2

\* A pending event from its parts.
LEMMA EventIs == ASSUME NEW e \in Pending PROVE Event(e.name, e.data, e.lines) = e
BY DEF Pending, Event

\* The scan finds the first line end of the buffer.
LEMMA FirstEnd ==
  ASSUME SseInv, Buffered, state = "active"
  PROVE  /\ LineEnd \in Nat /\ LineEnd <= Len(line_buffer)
         /\ LineEnd = 0 => \A i \in 1..Len(line_buffer) : line_buffer[i] \notin LineEnds
         /\ LineEnd # 0 => /\ line_buffer[LineEnd] \in LineEnds
                           /\ \A i \in 1..LineEnd - 1 : line_buffer[i] \notin LineEnds
<1> DEFINE ends == {i \in search_from + 1..Len(line_buffer) : line_buffer[i] \in LineEnds}
<1>1. /\ search_from \in Nat /\ Len(line_buffer) \in Nat /\ ends \subseteq Nat
      /\ \A i \in 1..search_from : line_buffer[i] \notin LineEnds
  BY DEF SseInv, TypeOK, Buffered
<1>2. LineEnd = IF ends = {} THEN 0 ELSE CHOOSE i \in ends : \A j \in ends : i <= j
  BY DEF LineEnd
<1>3. ends # {} => LineEnd \in ends /\ \A j \in ends : LineEnd <= j
  <2> HIDE DEF ends
  <2> QED
    BY <1>1, <1>2, Least
<1>4. CASE ends = {}
  BY <1>1, <1>2, <1>4
<1>5. CASE ends # {}
  <2>1. /\ LineEnd \in search_from + 1..Len(line_buffer) /\ line_buffer[LineEnd] \in LineEnds
        /\ \A j \in ends : LineEnd <= j
    BY <1>3, <1>5
  <2>2. ASSUME NEW i \in 1..LineEnd - 1 PROVE line_buffer[i] \notin LineEnds
    <3>1. CASE i <= search_from
      BY <1>1, <3>1
    <3>2. CASE i > search_from
      <4>1. i \in search_from + 1..Len(line_buffer) /\ ~(LineEnd <= i)
        BY <1>1, <2>1, <3>2
      <4> QED
        BY <2>1, <4>1
    <3> QED
      BY <1>1, <3>1, <3>2
  <2> QED
    BY <1>1, <2>1, <2>2
<1> QED
  BY <1>4, <1>5

\* A terminator of one or two bytes that starts at x + l.
LEMMA TerminatorAt ==
  ASSUME NEW x \in Nat, NEW l \in Nat, NEW t \in {1, 2}, NEW k \in Nat,
         k >= (x + (l - 1)) + 1, k <= x + l + t - 1
  PROVE  k = x + l \/ (k = x + l + 1 /\ t = 2)
<1>1. CASE t = 1
  BY <1>1
<1>2. CASE t = 2
  BY <1>2
<1> QED
  BY <1>1, <1>2

\* A complete line in the buffer is the next line of the body, and the only one.
LEMMA LineIn ==
  ASSUME SseInv, Buffered, OneLine, pc = "drain", ~eof, TerminatorLen # 0,
         NEW d, d = Consumed + LineEnd + TerminatorLen - 1
  PROVE  /\ d \in Ends(body) /\ Consumed < d
         /\ \A i \in Consumed + 1..d - 1 : i \notin Ends(body)
         /\ LineAt(body, d) = SubSeq(line_buffer, 1, LineEnd - 1)
         /\ fed = upto /\ Len(line_buffer) <= LineEnd + TerminatorLen
         /\ LineEnd + TerminatorLen = Len(line_buffer) =>
              line_buffer[Len(line_buffer)] # "lf"
         /\ frames = <<>>
<1> DEFINE c == Consumed
           n == Len(line_buffer)
           le == LineEnd
           tl == TerminatorLen
<1>1. state = "active" /\ bom_checked
  BY DEF SseInv, Flow, TypeOK
<1>2. /\ c \in Nat /\ c + n = fed /\ fed <= Len(body) /\ Len(body) \in Nat /\ n \in Nat
      /\ body \in Seq(Bytes) /\ line_buffer \in Seq(Bytes)
      /\ \A i \in 1..n : line_buffer[i] = body[c + i]
  BY <1>1, ConsumedOK
<1>3. /\ le \in 1..n /\ tl \in {1, 2} /\ le + tl <= n + 1
  BY LineEndOK DEF SseInv
<1>4. line_buffer[le] \in LineEnds /\ \A i \in 1..le - 1 : line_buffer[i] \notin LineEnds
  BY <1>1, <1>3, FirstEnd
<1>5. LineStart(body, c)
  BY <1>1 DEF Buffered
<1>6. tl = IF line_buffer[le] = "lf" THEN 1
           ELSE IF le < n THEN IF line_buffer[le + 1] = "lf" THEN 2 ELSE 1 ELSE 0
  BY <1>3 DEF TerminatorLen
<1>7. fed = upto /\ (le # n => le + 1 = n /\ line_buffer[le] = "cr")
  BY <1>3, <1>4 DEF OneLine
<1> HIDE DEF c, n, le, tl
<1>8. /\ d = c + le + tl - 1 /\ d \in Nat /\ d <= Len(body) /\ c < d /\ c + le <= d
  BY <1>2, <1>3 DEF c, le, tl
<1>9. /\ body[c + le] = line_buffer[le]
      /\ le < n => body[c + le + 1] = line_buffer[le + 1] /\ c + le + 1 <= Len(body)
  <2>1. le < n => le + 1 \in 1..n /\ c + (le + 1) = c + le + 1 /\ c + le + 1 <= Len(body)
    BY <1>2, <1>3
  <2> QED
    BY <1>2, <1>3, <2>1
<1>10. d \in Ends(body)
  <2>0. d \in 1..Len(body)
    BY <1>2, <1>8
  <2>1. CASE line_buffer[le] = "lf"
    <3>1. tl = 1 /\ d = c + le /\ body[d] = "lf"
      BY <1>2, <1>3, <1>6, <1>8, <1>9, <2>1
    <3> QED
      BY <1>8, <2>0, <3>1 DEF Ends
  <2>2. CASE line_buffer[le] = "cr" /\ le < n /\ line_buffer[le + 1] = "lf"
    <3>1. tl = 2 /\ d = c + le + 1 /\ body[d] = "lf"
      BY <1>2, <1>3, <1>6, <1>8, <1>9, <2>2
    <3> QED
      BY <1>8, <2>0, <3>1 DEF Ends
  <2>3. CASE line_buffer[le] = "cr" /\ le < n /\ line_buffer[le + 1] # "lf"
    <3>1. tl = 1 /\ d = c + le /\ body[d] = "cr" /\ d < Len(body) /\ body[d + 1] # "lf"
      BY <1>2, <1>3, <1>6, <1>8, <1>9, <2>3
    <3> QED
      BY <1>8, <2>0, <3>1 DEF Ends
  <2> QED
    BY <1>3, <1>4, <1>6, <2>1, <2>2, <2>3 DEF LineEnds
<1>11. \A i \in c + 1..c + (le - 1) : body[i] \notin LineEnds /\ i \notin Ends(body)
  <2>1. le - 1 \in Nat /\ le - 1 <= Len(line_buffer)
    BY <1>3 DEF n
  <2> QED
    BY <1>1, <1>4, <2>1, NoEndIn DEF c
<1>12. \A i \in c + 1..d - 1 : i \notin Ends(body)
  <2>1. TAKE i \in c + 1..d - 1
  <2>2. CASE i <= c + (le - 1)
    BY <1>2, <1>3, <1>11, <2>2
  <2>3. CASE i > c + (le - 1)
    <3>1. i = c + le /\ tl = 2
      <4>1. \A x, l, t, k \in Nat :
              t \in {1, 2} /\ l >= 1 /\ k \in x + 1..(x + l + t - 1) - 1 /\ k > x + (l - 1) =>
                k = x + l /\ t = 2
        OBVIOUS
      <4>2. i \in c + 1..(c + le + tl - 1) - 1 /\ i \in Nat
        BY <1>2, <1>8
      <4>3. le \in Nat /\ tl \in Nat /\ le >= 1
        BY <1>3
      <4> QED
        BY <1>2, <1>3, <2>3, <4>1, <4>2, <4>3
    <3>2. body[i] = "cr" /\ body[i + 1] = "lf"
      BY <1>3, <1>4, <1>6, <1>9, <3>1 DEF LineEnds
    <3> QED
      BY <3>2 DEF Ends
  <2> QED
    BY <1>2, <1>3, <2>2, <2>3
<1>13. LineAt(body, d) = SubSeq(line_buffer, 1, le - 1)
  <2> DEFINE m == c + (le - 1)
  <2>1. /\ m \in Nat /\ c <= m /\ m <= d /\ (c < m => body[m] \notin LineEnds)
    <3>1. m \in Nat /\ c <= m /\ m <= d
      BY <1>2, <1>3, <1>8
    <3>2. c < m => m \in c + 1..c + (le - 1)
      BY <1>2, <3>1
    <3> QED
      BY <1>11, <3>1, <3>2
  <2>2. ASSUME NEW j \in m + 1..d PROVE body[j] \in LineEnds
    <3>1. j = c + le \/ (j = c + le + 1 /\ tl = 2)
      <4>1. j \in Nat /\ j >= (c + (le - 1)) + 1 /\ j <= c + le + tl - 1
        BY <1>2, <1>3, <1>8
      <4>2. c \in Nat /\ le \in Nat /\ tl \in {1, 2}
        BY <1>2, <1>3
      <4> QED
        BY <4>1, <4>2, TerminatorAt, Zenon
    <3>2. tl = 2 => le < n /\ line_buffer[le + 1] = "lf"
      BY <1>3, <1>6
    <3> QED
      BY <1>4, <1>9, <3>1, <3>2 DEF LineEnds
  <2> HIDE DEF m
  <2>3. LineAt(body, d) = SubSeq(body, c + 1, m)
    <3>1. /\ body \in Seq(Bytes) /\ c \in Nat /\ m \in Nat /\ d \in Nat /\ c < d
          /\ d <= Len(body) /\ c <= m /\ m <= d
      BY <1>2, <1>8, <2>1
    <3>2. (c < m => body[m] \notin LineEnds) /\ \A j \in m + 1..d : body[j] \in LineEnds
      BY <2>1, <2>2
    <3> QED
      BY <1>5, <1>12, <3>1, <3>2, LineIs, Zenon
  <2>4. SubSeq(body, c + 1, c + (le - 1)) = SubSeq(line_buffer, 1, le - 1)
    <3>1. le - 1 \in Nat /\ le - 1 <= Len(line_buffer)
      BY <1>3 DEF n
    <3> QED
      BY <1>1, <3>1, BufferIs DEF c
  <2> QED
    BY <2>3, <2>4 DEF m
<1>14. /\ n <= le + tl
       /\ le + tl = n => line_buffer[n] # "lf"
  BY <1>3, <1>4, <1>6, <1>7 DEF LineEnds
<1>15. frames = <<>>
  <2> SUFFICES ASSUME frames # <<>> PROVE FALSE
    OBVIOUS
  <2>1. n <= 1 /\ (line_buffer # <<>> => line_buffer[1] # "lf")
    BY DEF OneLine, n
  <2>2. le = 1 /\ n = 1
    BY <1>2, <1>3, <2>1
  <2>3. line_buffer # <<>>
    <3>1. Len(line_buffer) = 1
      BY <2>2 DEF n
    <3> QED
      BY <3>1
  <2> QED
    BY <1>3, <1>6, <2>1, <2>2, <2>3
<1> QED
  BY <1>7, <1>8, <1>10, <1>12, <1>13, <1>14, <1>15 DEF c, n, le, tl

\* At the end of the body the buffer is its open line.
LEMMA LastLine ==
  ASSUME SseInv, DeliveryInv, state = "active", eof, bom_checked, line_buffer # <<>>,
         NEW m \in Nat, m <= Len(line_buffer), Len(line_buffer) <= m + 1,
         m # Len(line_buffer) => line_buffer[Len(line_buffer)] = "cr",
         \A i \in 1..m : line_buffer[i] \notin LineEnds
  PROVE  ReadOpen(body) = ReadLine(Reading(body)[Consumed], SubSeq(line_buffer, 1, m), TRUE)
<1> DEFINE c == Consumed
           n == Len(line_buffer)
<1>0. Buffered
  BY DEF DeliveryInv
<1>1. /\ c \in Nat /\ c + n = Len(body) /\ Len(body) \in Nat /\ n \in Nat /\ n # 0
      /\ body \in Seq(Bytes) /\ line_buffer \in Seq(Bytes)
      /\ \A i \in 1..n : line_buffer[i] = body[c + i]
  <2>1. fed = Len(body)
    BY DEF DeliveryInv, AtRest
  <2>2. n # 0
    BY <1>0, ConsumedOK
  <2> QED
    BY <1>0, <2>1, <2>2, ConsumedOK
<1>2. LineStart(body, c)
  BY DEF DeliveryInv, Buffered
<1>3. \A i \in c + 1..c + m : body[i] \notin LineEnds /\ i \notin Ends(body)
  BY <1>0, NoEndIn
<1>4. SubSeq(body, c + 1, c + m) = SubSeq(line_buffer, 1, m)
  BY <1>0, BufferIs
<1> HIDE DEF c
<1>5. m # n => body[Len(body)] = "cr" /\ m + 1 = n
  <2>1. n \in 1..n
    BY <1>1
  <2>2. line_buffer[n] = body[Len(body)]
    BY <1>1, <2>1
  <2> QED
    BY <1>1, <2>2
<1>6. m <= n /\ n <= m + 1
  OBVIOUS
<1> HIDE DEF n
<1>7. \A i \in c + 1..Len(body) : i \notin Ends(body)
  <2>1. TAKE i \in c + 1..Len(body)
  <2>2. CASE i <= c + m
    BY <1>1, <1>3, <2>2
  <2>3. CASE i > c + m
    <3>1. i = Len(body) /\ body[i] = "cr"
      <4>1. i \in Nat
        BY <1>1
      <4>2. m # n /\ i = Len(body)
        BY <1>1, <1>6, <2>3, <4>1
      <4> QED
        BY <1>5, <4>2
    <3> QED
      BY <1>1, <3>1 DEF Ends
  <2> QED
    BY <1>1, <2>2, <2>3
<1>8. LineAt(body, Len(body)) = SubSeq(body, c + 1, c + m)
  <2> DEFINE k == c + m
             l == Len(body)
  <2>1. /\ k \in Nat /\ c <= k /\ k <= l /\ (c < k => body[k] \notin LineEnds)
        /\ c < l /\ l <= Len(body) /\ l \in Nat
    <3>1. k \in Nat /\ c <= k /\ k <= l /\ c < l /\ l <= Len(body) /\ l \in Nat
      BY <1>1, <1>6
    <3>2. c < k => k \in c + 1..c + m
      BY <1>1, <3>1
    <3> QED
      BY <1>3, <3>1, <3>2
  <2>2. \A j \in k + 1..l : body[j] \in LineEnds
    <3>1. TAKE j \in k + 1..l
    <3>2. m # n /\ j = Len(body)
      BY <1>1, <1>6
    <3> QED
      BY <1>5, <3>2 DEF LineEnds
  <2>3. \A j \in c + 1..l - 1 : j \notin Ends(body)
    BY <1>1, <1>7
  <2> HIDE DEF k, l
  <2>4. LineAt(body, l) = SubSeq(body, c + 1, k)
    <3>1. body \in Seq(Bytes) /\ c \in Nat
      BY <1>1
    <3> QED
      BY <1>2, <2>1, <2>2, <2>3, <3>1, LineIs, Zenon
  <2> QED
    BY <2>4 DEF k, l
<1>9. ReadLines(body) = Reading(body)[c]
  <2>1. c <= Len(body) /\ Len(body) <= Len(body)
    BY <1>1
  <2> QED
    BY <1>1, <1>7, <2>1, ReadingSkips DEF ReadLines
<1>10. Len(body) > BomLen(body) /\ Len(body) \notin Ends(body)
  <2>1. BomLen(body) <= c /\ BomLen(body) \in Nat
    BY <1>1, <1>2, BomIs, EndsBehindBom DEF LineStart
  <2>2. Len(body) \in c + 1..Len(body)
    BY <1>1
  <2> QED
    BY <1>1, <1>7, <2>1, <2>2
<1> QED
  BY <1>4, <1>8, <1>9, <1>10 DEF ReadOpen, c

\* The decoder fails with the error that the body gives.
LEMMA FailDelivers ==
  ASSUME SseInv, DeliveryInv, pc # "done", NEW why \in DecodeErrors, Fail(why),
         UNCHANGED <<input, fed, dispatches, yielded>>,
         ReadBody(body) = IF Enders(dispatches, eof) = {}
                          THEN Append(yielded \o Taken(dispatches, eof), [type |-> why])
                          ELSE yielded \o Taken(dispatches, eof)
  PROVE  DeliveryInv'
<1>1. /\ line_buffer' = <<>> /\ frames' = <<>> /\ error' = why /\ state' = "failed"
      /\ pc' = "deliver" /\ UNCHANGED <<body, eof, dispatches, yielded>>
  BY DEF Fail, input
<1>2. why # "none"
  BY DEF DecodeErrors
<1>3. Buffered' /\ InStep' /\ InStepAtEnd'
  BY <1>1 DEF Buffered, InStep, InStepAtEnd
<1>4. OneLine'
  BY <1>1 DEF OneLine
<1>5. AtRest'
  BY <1>1 DEF DeliveryInv, AtRest
<1>6. Settled'
  BY <1>1, <1>2 DEF Settled
<1> QED
  BY <1>3, <1>4, <1>5, <1>6 DEF DeliveryInv

\* What is held before a line of a stream that goes on.
LEMMA BeforeLine ==
  ASSUME DeliveryInv, state = "active", pc # "done", ~eof, frames = <<>>,
         Enders(dispatches, FALSE) = {}
  PROVE  Reading(body)[Consumed] = Held
<1> DEFINE e == Event(event_name, event_data, data_lines)
           o == yielded \o Taken(dispatches, eof)
<1>1. Held = Acc(e, o, FALSE)
  BY DEF Held
<1>2. Reading(body)[Consumed] = ReadFrames(Held, <<>>, FALSE)
  BY DEF DeliveryInv, InStep
<1> HIDE DEF e, o
<1>3. ReadFrames(Acc(e, o, FALSE), <<>>, FALSE) = Acc(e, o, FALSE)
  BY ReadFramesIs
<1> QED
  BY <1>1, <1>2, <1>3

\* Nothing follows an open line that ends the stream.
LEMMA OpenEnded ==
  ASSUME NEW b, NEW e, NEW o, ReadOpen(b) = Acc(e, o, TRUE) PROVE ReadBody(b) = o
<1> DEFINE acc == Acc(e, o, TRUE)
<1>1. acc.ends /\ acc.out = o
  BY DEF Acc
<1> HIDE DEF acc
<1>2. \A f : ReadFrames(acc, f, TRUE) = acc
  BY <1>1 DEF ReadFrames
<1>3. ReadOpen(b) = acc
  BY DEF acc
<1> QED
  BY <1>1, <1>2, <1>3 DEF ReadBody

\* The pending event is one.
LEMMA PendingOK ==
  ASSUME SseInv PROVE Event(event_name, event_data, data_lines) \in Pending
BY DEF SseInv, TypeOK, Event, Pending

\* The last line is read at the end of the body.
LEMMA ConsumeAtEnd ==
  ASSUME SseInv, DeliveryInv, eof, NEW next \in {"drain", "leftover"}, pc = next,
         line_buffer # <<>>,
         NEW m \in Nat, m <= Len(line_buffer), Len(line_buffer) <= m + 1,
         m # Len(line_buffer) => line_buffer[Len(line_buffer)] = "cr",
         \A i \in 1..m : line_buffer[i] \notin LineEnds,
         Consume(SubSeq(line_buffer, 1, m), <<>>, next),
         UNCHANGED <<input, fed, dispatches, yielded>>
  PROVE  DeliveryInv'
<1> DEFINE e == Event(event_name, event_data, data_lines)
           o == yielded \o Taken(dispatches, eof)
           line == SubSeq(line_buffer, 1, m)
           p == ProcessLine(line, e)
<1>1. state = "active" /\ bom_checked /\ pc # "done" /\ pc # "classify" /\ eof = TRUE
  BY DEF SseInv, Flow, TypeOK
<1>2. dispatches = <<>> /\ frames = <<>> /\ fed = Len(body)
  BY <1>1 DEF DeliveryInv, AtRest, OneLine
<1>3. Reading(body)[Consumed] = Acc(e, o, FALSE)
  BY <1>1 DEF DeliveryInv, InStepAtEnd, Held
<1>4. ReadOpen(body) = ReadLine(Acc(e, o, FALSE), line, TRUE)
  <2>1. ReadOpen(body) = ReadLine(Reading(body)[Consumed], line, TRUE)
    BY <1>1, LastLine
  <2> QED
    BY <1>3, <2>1
<1>5. e \in Pending
  BY PendingOK
<1>6. line \in Seq(Bytes)
  <2>1. line_buffer \in Seq(Bytes) /\ Len(line_buffer) \in Nat
    BY DEF SseInv, TypeOK
  <2> QED
    BY <2>1
<1> HIDE DEF e, o, line
<1>7. /\ p.event \in Pending /\ p.frames \in Seq(Frame)
      /\ p.error \in DecodeErrors \cup {"none"}
  BY <1>5, <1>6, ProcessLineOK
<1>8. p.frames = <<>> \/ (Len(p.frames) = 1 /\ p.event = NoEvent)
  BY <1>5, <1>6, ProcessLineFrames
<1>9. ReadOpen(body) = IF p.error # "none" THEN Acc(e, Append(o, [type |-> p.error]), TRUE)
                       ELSE ReadFrames(Acc(p.event, o, FALSE), p.frames, TRUE)
  BY <1>4, ReadLineIs
<1>10. IF p.error # "none" THEN Fail(p.error)
       ELSE /\ line_buffer' = <<>> /\ search_from' = 0
            /\ event_name' = p.event.name /\ event_data' = p.event.data
            /\ data_lines' = p.event.lines
            /\ frames' = frames \o p.frames
            /\ pc' = next
            /\ UNCHANGED <<bom_checked, error, state>>
  BY DEF Consume, p, e, line
<1> HIDE DEF p
<1>11. CASE p.error # "none"
  <2>1. Fail(p.error) /\ p.error \in DecodeErrors
    BY <1>7, <1>10, <1>11
  <2>2. ReadBody(body) = Append(o, [type |-> p.error])
    BY <1>9, <1>11, OpenEnded
  <2>3. Enders(dispatches, eof) = {}
    BY <1>1, <1>2, TakenOK DEF SseInv, TypeOK
  <2> QED
    BY <1>1, <2>1, <2>2, <2>3, FailDelivers DEF o
<1>12. CASE p.error = "none"
  <2>1. /\ line_buffer' = <<>> /\ search_from' = 0
        /\ event_name' = p.event.name /\ event_data' = p.event.data
        /\ data_lines' = p.event.lines /\ frames' = <<>> \o p.frames /\ pc' = next
        /\ UNCHANGED <<bom_checked, error, state, body, upto, eof, fed, dispatches, yielded>>
    BY <1>2, <1>10, <1>12 DEF input
  <2>2. frames' = p.frames
    BY <1>7, <2>1
  <2>3. Held' = Acc(p.event, o, FALSE)
    <3>1. Event(event_name', event_data', data_lines') = p.event
      BY <1>7, <2>1, EventIs
    <3> QED
      BY <2>1, <3>1 DEF Held, o
  <2>4. Buffered'
    <3>1. Len(line_buffer') = 0 /\ fed \in Nat /\ ~(1 <= 0)
      BY <2>1 DEF SseInv, TypeOK
    <3> QED
      BY <1>1, <2>1, <3>1 DEF Buffered
  <2>5. OneLine'
    <3>1. frames' # <<>> => data_lines' = 0
      <4>1. NoEvent.lines = 0
        BY DEF NoEvent, Event
      <4> QED
        BY <1>8, <2>1, <2>2, <4>1
    <3>2. Len(frames') <= 1
      <4>1. Len(<<>>) <= 1 /\ 1 <= 1
        OBVIOUS
      <4> QED
        BY <1>8, <2>2, <4>1
    <3> QED
      BY <1>1, <2>1, <3>1, <3>2 DEF OneLine
  <2>6. AtRest'
    BY <1>1, <2>1 DEF DeliveryInv, AtRest
  <2>7. InStepAtEnd'
    <3>1. ReadOpen(body) = ReadFrames(Held', frames', TRUE)
      BY <1>9, <1>12, <2>2, <2>3
    <3> QED
      BY <1>1, <2>1, <3>1 DEF InStepAtEnd
  <2>8. InStep' /\ Settled'
    BY <1>1, <2>1 DEF InStep, Settled
  <2> QED
    BY <2>4, <2>5, <2>6, <2>7, <2>8 DEF DeliveryInv
<1> QED
  BY <1>11, <1>12

\* The unterminated line.
LEMMA LeftoverDelivers ==
  ASSUME SseInv, DeliveryInv, Leftover PROVE DeliveryInv'
<1> DEFINE n == Len(line_buffer)
<1>1. /\ pc = "leftover" /\ line_buffer # <<>> /\ Consume(line_buffer, <<>>, "leftover")
      /\ UNCHANGED <<input, fed, dispatches, yielded>>
  BY DEF Leftover
<1>2. state = "active" /\ line_buffer \in Seq(Bytes) /\ n \in Nat
  BY <1>1 DEF SseInv, Flow, TypeOK
<1>3. eof
  BY <1>1 DEF DeliveryInv, AtRest
<1>4. \A i \in 1..n : line_buffer[i] \notin LineEnds
  BY <1>1, <1>2 DEF DeliveryInv, OneLine
<1>5. SubSeq(line_buffer, 1, n) = line_buffer
  BY <1>2
<1>6. n <= Len(line_buffer) /\ Len(line_buffer) <= n + 1
  BY <1>2
<1>7. Consume(SubSeq(line_buffer, 1, n), <<>>, "leftover")
  BY <1>1, <1>5
<1> QED
  BY <1>1, <1>2, <1>3, <1>4, <1>6, <1>7, ConsumeAtEnd

\* A line before the end of the body.
LEMMA DrainsOn ==
  ASSUME SseInv, DeliveryInv, DrainLine, ~eof PROVE DeliveryInv'
<1> DEFINE c == Consumed
           d == Consumed + LineEnd + TerminatorLen - 1
           n == Len(line_buffer)
           le == LineEnd
           tl == TerminatorLen
           e == Event(event_name, event_data, data_lines)
           o == yielded \o Taken(dispatches, FALSE)
           line == SubSeq(line_buffer, 1, LineEnd - 1)
           rest == SubSeq(line_buffer, LineEnd + TerminatorLen, Len(line_buffer))
           p == ProcessLine(line, e)
<1>1. /\ pc = "drain" /\ tl # 0 /\ Consume(line, rest, "drain")
      /\ UNCHANGED <<input, fed, dispatches, yielded>>
  BY DEF DrainLine
<1>2. state = "active" /\ bom_checked /\ eof = FALSE /\ pc # "done"
  BY <1>1 DEF SseInv, Flow, TypeOK
<1>3. /\ d \in Ends(body) /\ c < d /\ \A i \in c + 1..d - 1 : i \notin Ends(body)
      /\ LineAt(body, d) = line /\ fed = upto /\ n <= le + tl
      /\ le + tl = n => line_buffer[n] # "lf"
      /\ frames = <<>>
  BY <1>1, LineIn DEF DeliveryInv
<1>4. /\ le \in 1..n /\ tl \in 1..2 /\ le + tl <= n + 1
  BY <1>1, LineEndOK DEF SseInv
<1>5. /\ c \in Nat /\ c + n = fed /\ fed <= Len(body) /\ Len(body) \in Nat /\ n \in Nat
      /\ fed \in Nat /\ body \in Seq(Bytes) /\ line_buffer \in Seq(Bytes)
      /\ \A i \in 1..n : line_buffer[i] = body[c + i]
  BY <1>2, ConsumedOK DEF DeliveryInv
<1>6. e \in Pending
  BY PendingOK
<1>7. line \in Seq(Bytes)
  BY <1>4, <1>5
<1>8. /\ rest \in Seq(Bytes) /\ Len(rest) = (n - (le + tl)) + 1
      /\ \A i \in 1..Len(rest) : rest[i] = line_buffer[(le + tl) + i - 1]
  BY <1>4, <1>5
<1>9. d = c + le + tl - 1
  OBVIOUS
<1>10. IF p.error # "none" THEN Fail(p.error)
       ELSE /\ line_buffer' = rest /\ search_from' = 0
            /\ event_name' = p.event.name /\ event_data' = p.event.data
            /\ data_lines' = p.event.lines
            /\ frames' = frames \o p.frames
            /\ pc' = "drain"
            /\ UNCHANGED <<bom_checked, error, state>>
  BY <1>1 DEF Consume
<1>11. Enders(dispatches, FALSE) = {} => Reading(body)[c] = Acc(e, o, FALSE)
  BY <1>2, <1>3, BeforeLine DEF Held
<1>12. Enders(dispatches, FALSE) # {} => Reading(body)[c].ends /\ Reading(body)[c].out = o
  BY <1>1, <1>2 DEF DeliveryInv, InStep
<1> HIDE DEF c, d, n, le, tl, e, o, line, rest
<1>13. /\ p.event \in Pending /\ p.frames \in Seq(Frame)
       /\ p.error \in DecodeErrors \cup {"none"}
  BY <1>6, <1>7, ProcessLineOK
<1>14. p.frames = <<>> \/ Len(p.frames) = 1
  BY <1>6, <1>7, ProcessLineFrames
<1> HIDE DEF p
<1>15. d \in Nat /\ d <= Len(body) /\ c + Len(rest) <= fed /\ d + Len(rest) = fed /\ Len(rest) <= 1
  BY <1>3, <1>4, <1>5, <1>8, <1>9
<1>16. Enders(dispatches, FALSE) # {} =>
         /\ Reading(body)[d].ends /\ Reading(body)[d].out = o /\ ReadBody(body) = o
  <2>1. c \in 0..Len(body) /\ d \in c..Len(body)
    BY <1>3, <1>5, <1>15
  <2>2. Len(body) \in Nat
    BY <1>5
  <2>3. Reading(body)[c].ends =>
          /\ \A i \in c..Len(body) : Reading(body)[i] = Reading(body)[c]
          /\ ReadBody(body) = Reading(body)[c].out
    BY <2>1, <2>2, ReadingEnded
  <2>4. Reading(body)[c].ends =>
          Reading(body)[d] = Reading(body)[c] /\ ReadBody(body) = Reading(body)[c].out
    BY <2>1, <2>3
  <2> QED
    BY <1>12, <2>4
<1>17. Enders(dispatches, FALSE) = {} =>
         Reading(body)[d] = ReadLine(Acc(e, o, FALSE), line, FALSE)
  <2>1. Reading(body)[d] = ReadLine(Reading(body)[c], LineAt(body, d), FALSE)
    BY <1>3, <1>5, ReadingNext
  <2> QED
    BY <1>3, <1>11, <2>1, Zenon
<1>18. CASE p.error # "none"
  <2>1. Fail(p.error) /\ p.error \in DecodeErrors
    BY <1>10, <1>13, <1>18
  <2>2. Enders(dispatches, FALSE) = {} => ReadBody(body) = Append(o, [type |-> p.error])
    <3> SUFFICES ASSUME Enders(dispatches, FALSE) = {}
                 PROVE  ReadBody(body) = Append(o, [type |-> p.error])
      OBVIOUS
    <3>1. Reading(body)[d] = Acc(e, Append(o, [type |-> p.error]), TRUE)
      BY <1>17, <1>18, ReadLineIs DEF p
    <3>2. Reading(body)[d].ends /\ Reading(body)[d].out = Append(o, [type |-> p.error])
      BY <3>1 DEF Acc
    <3>3. d \in 0..Len(body)
      BY <1>5, <1>15
    <3> QED
      BY <1>5, <3>2, <3>3, ReadingEnded
  <2>3. ReadBody(body) = IF Enders(dispatches, eof) = {}
                         THEN Append(yielded \o Taken(dispatches, eof), [type |-> p.error])
                         ELSE yielded \o Taken(dispatches, eof)
    BY <1>2, <1>16, <2>2 DEF o
  <2> QED
    BY <1>1, <1>2, <2>1, <2>3, FailDelivers
<1>19. CASE p.error = "none"
  <2>1. /\ line_buffer' = rest /\ search_from' = 0
        /\ event_name' = p.event.name /\ event_data' = p.event.data
        /\ data_lines' = p.event.lines /\ frames' = <<>> \o p.frames /\ pc' = "drain"
        /\ UNCHANGED <<bom_checked, error, state, body, upto, eof, fed, dispatches, yielded>>
    BY <1>1, <1>3, <1>10, <1>19 DEF input
  <2>2. frames' = p.frames
    BY <1>13, <2>1
  <2>3. Held' = Acc(p.event, o, FALSE)
    <3>1. Event(event_name', event_data', data_lines') = p.event
      BY <1>13, <2>1, EventIs
    <3> QED
      BY <1>2, <2>1, <3>1 DEF Held, o
  <2>4. Consumed' = d
    BY <1>2, <1>5, <1>15, <2>1 DEF Consumed
  <2>5. Buffered'
    <3>1. ASSUME NEW i \in 1..Len(rest) PROVE rest[i] = body[d + i]
      <4>1. (le + tl) + i - 1 \in 1..n /\ c + ((le + tl) + i - 1) = d + i
        BY <1>4, <1>5, <1>8, <1>9
      <4> QED
        BY <1>5, <1>8, <4>1
    <3>2. Len(rest) <= fed
      BY <1>5, <1>8, <1>15
    <3>3. Len(body) >= 3 \/ ~IsPrefix(body, BOM)
      BY <1>2 DEF DeliveryInv, Buffered
    <3> QED
      BY <1>2, <1>3, <2>1, <2>4, <3>1, <3>2, <3>3 DEF Buffered, LineStart
  <2>6. OneLine'
    <3>1. Len(frames') <= 1
      <4>1. Len(<<>>) <= 1 /\ 1 <= 1
        OBVIOUS
      <4> QED
        BY <1>14, <2>2, <4>1
    <3>2. \A i \in 1..Len(rest) : i = Len(rest)
      BY <1>8, <1>15
    <3>3. rest # <<>> => rest[1] # "lf"
      <4> SUFFICES ASSUME rest # <<>> PROVE rest[1] # "lf"
        OBVIOUS
      <4>1. Len(rest) = 1
        BY <1>8, <1>15
      <4>2. le + tl = n /\ (le + tl) + 1 - 1 = n
        <5>1. (n - (le + tl)) + 1 = 1
          BY <1>8, <4>1
        <5>2. le \in Nat /\ tl \in Nat /\ n \in Nat
          BY <1>4, <1>5
        <5> QED
          BY <5>1, <5>2
      <4>3. rest[1] = line_buffer[(le + tl) + 1 - 1]
        BY <1>8, <4>1
      <4> QED
        BY <1>3, <4>2, <4>3
    <3> QED
      BY <1>2, <1>3, <1>15, <2>1, <3>1, <3>2, <3>3 DEF OneLine
  <2>7. AtRest'
    BY <1>1, <1>2, <2>1 DEF DeliveryInv, AtRest
  <2>8. InStep'
    <3>1. CASE Enders(dispatches, FALSE) = {}
      <4>1. Reading(body)[d] = ReadFrames(Acc(p.event, o, FALSE), p.frames, FALSE)
        BY <1>17, <1>19, <3>1, ReadLineIs DEF p
      <4> QED
        BY <2>1, <2>2, <2>3, <2>4, <3>1, <4>1 DEF InStep
    <3>2. CASE Enders(dispatches, FALSE) # {}
      BY <1>16, <2>1, <2>4, <3>2 DEF InStep, o
    <3> QED
      BY <3>1, <3>2
  <2>9. InStepAtEnd' /\ Settled'
    BY <1>2, <2>1 DEF InStepAtEnd, Settled
  <2> QED
    BY <2>5, <2>6, <2>7, <2>8, <2>9 DEF DeliveryInv
<1> QED
  BY <1>18, <1>19

\* The final CR of a body ends its last line.
LEMMA DrainsLast ==
  ASSUME SseInv, DeliveryInv, DrainLine, eof PROVE DeliveryInv'
<1> DEFINE n == Len(line_buffer)
<1>1. /\ pc = "drain" /\ TerminatorLen # 0
      /\ Consume(SubSeq(line_buffer, 1, LineEnd - 1),
                 SubSeq(line_buffer, LineEnd + TerminatorLen, n), "drain")
      /\ UNCHANGED <<input, fed, dispatches, yielded>>
  BY DEF DrainLine
<1>2. state = "active" /\ line_buffer \in Seq(Bytes) /\ n \in Nat
  BY <1>1 DEF SseInv, Flow, TypeOK
<1>3. LineEnd \in 1..n /\ TerminatorLen \in 1..2 /\ LineEnd + TerminatorLen <= n + 1
  BY <1>1, LineEndOK DEF SseInv
<1>4. line_buffer[LineEnd] \in LineEnds /\ \A i \in 1..LineEnd - 1 : line_buffer[i] \notin LineEnds
  BY <1>2, <1>3, FirstEnd DEF DeliveryInv
<1>5. LineEnd = n /\ line_buffer[n] = "cr"
  BY <1>1, <1>3, <1>4 DEF DeliveryInv, OneLine
<1>6. TerminatorLen = 1 /\ n - 1 \in Nat
  BY <1>2, <1>3, <1>5
<1>7. SubSeq(line_buffer, n + 1, n) = <<>>
  BY <1>2
<1>8. Consume(SubSeq(line_buffer, 1, n - 1), <<>>, "drain")
  BY <1>1, <1>5, <1>6, <1>7
<1>9. line_buffer # <<>> /\ n - 1 <= Len(line_buffer) /\ Len(line_buffer) <= (n - 1) + 1
  BY <1>2, <1>3
<1>10. \A i \in 1..n - 1 : line_buffer[i] \notin LineEnds
  BY <1>4, <1>5
<1> QED
  BY <1>1, <1>5, <1>6, <1>8, <1>9, <1>10, ConsumeAtEnd

\* The scan stops without a line.
LEMMA NoLineDelivers ==
  ASSUME SseInv, DeliveryInv, NoLine PROVE DeliveryInv'
<1> DEFINE n == Len(line_buffer)
<1>1. /\ pc = "drain" /\ TerminatorLen = 0
      /\ search_from' = IF LineEnd = 0 THEN n ELSE LineEnd - 1
      /\ pc' = IF eof THEN "leftover" ELSE "limit"
      /\ UNCHANGED <<body, upto, eof, fed, line_buffer, bom_checked, event_name, event_data,
                     data_lines, frames, dispatches, error, state, yielded>>
  BY DEF NoLine, input, eventVars
<1>2. state = "active" /\ bom_checked /\ n \in Nat /\ eof \in BOOLEAN
  BY <1>1 DEF SseInv, Flow, TypeOK
<1>3. /\ LineEnd \in Nat /\ LineEnd <= n
      /\ LineEnd = 0 => \A i \in 1..n : line_buffer[i] \notin LineEnds
      /\ LineEnd # 0 => /\ line_buffer[LineEnd] \in LineEnds
                        /\ \A i \in 1..LineEnd - 1 : line_buffer[i] \notin LineEnds
  BY <1>2, FirstEnd DEF DeliveryInv
<1>4. LineEnd # 0 => line_buffer[LineEnd] = "cr" /\ LineEnd = n /\ ~eof
  BY <1>1, <1>2, <1>3 DEF TerminatorLen, LineEnds
<1> HIDE DEF n
<1>5. \A i \in 1..search_from' : line_buffer[i] \notin LineEnds
  BY <1>1, <1>3
<1>6. ASSUME NEW i \in 1..n, line_buffer[i] \in LineEnds
      PROVE  i = n /\ line_buffer[i] = "cr" /\ ~eof
  <2>1. LineEnd # 0
    BY <1>3, <1>6
  <2>2. i \notin 1..n - 1
    BY <1>3, <1>4, <1>6, <2>1
  <2>3. i = n
    BY <1>2, <2>2
  <2> QED
    BY <1>4, <2>1, <2>3
<1>7. Buffered'
  BY <1>1, <1>2, <1>5 DEF DeliveryInv, Buffered, Consumed
<1>8. OneLine'
  BY <1>1, <1>2, <1>6 DEF DeliveryInv, OneLine, n
<1>9. AtRest'
  BY <1>1, <1>2 DEF DeliveryInv, AtRest
<1>10. Held' = Held /\ Consumed' = Consumed
  BY <1>1 DEF Held, Consumed
<1>11. InStep'
  BY <1>1, <1>10 DEF DeliveryInv, InStep
<1>12. InStepAtEnd'
  BY <1>1, <1>10 DEF DeliveryInv, InStepAtEnd
<1>13. Settled'
  BY <1>1 DEF Settled
<1> QED
  BY <1>7, <1>8, <1>9, <1>11, <1>12, <1>13 DEF DeliveryInv

\* A line that grows too long in the buffer is too long in the body.
LEMMA CheckLimitDelivers ==
  ASSUME SseInv, DeliveryInv, CheckLimit PROVE DeliveryInv'
<1> DEFINE n == Len(line_buffer)
           content == IF line_buffer # <<>> /\ Last(line_buffer) = "cr" THEN n - 1 ELSE n
<1>1. pc = "limit" /\ UNCHANGED <<input, fed, dispatches, yielded>>
  BY DEF CheckLimit
<1>2. state = "active" /\ ~eof /\ eof = FALSE /\ pc # "done"
  BY <1>1 DEF SseInv, Flow, TypeOK
<1>3. CASE content > MaxLine /\ (bom_checked \/ ~IsPrefix(line_buffer, BOM))
  <2> DEFINE c == Consumed
             m == c + content
             e == Event(event_name, event_data, data_lines)
             o == yielded \o Taken(dispatches, FALSE)
  <2>1. Fail("line_too_large")
    BY <1>3 DEF CheckLimit
  <2>2. bom_checked
    BY <1>2, <1>3 DEF DeliveryInv, Buffered
  <2>3. /\ c \in Nat /\ c + n <= Len(body) /\ Len(body) \in Nat /\ n \in Nat
        /\ body \in Seq(Bytes) /\ line_buffer \in Seq(Bytes)
    BY <1>2, ConsumedOK DEF DeliveryInv
  <2>4. LineStart(body, c)
    BY <1>2, <2>2 DEF DeliveryInv, Buffered
  <2>5. \A i \in 1..n : line_buffer[i] \in LineEnds => i = n /\ line_buffer[i] = "cr"
    BY <1>1, <1>2 DEF DeliveryInv, OneLine
  <2>6. content \in Nat /\ content <= n /\ content > MaxLine /\ MaxLine \in Nat /\ MaxLine >= 1
    <3>1. line_buffer # <<>> => n >= 1
      BY <2>3
    <3>2. MaxLine \in Nat /\ MaxLine >= 1
      OBVIOUS
    <3> QED
      BY <1>3, <2>3, <3>1, <3>2
  <2>7. \A i \in 1..content : line_buffer[i] \notin LineEnds
    <3>1. ASSUME NEW i \in 1..content, line_buffer[i] \in LineEnds PROVE FALSE
      <4>1. i \in 1..n
        BY <2>3, <2>6
      <4>2. i = n /\ line_buffer[i] = "cr"
        BY <2>5, <3>1, <4>1
      <4>3. line_buffer # <<>> /\ Last(line_buffer) = "cr"
        BY <2>3, <4>1, <4>2 DEF Last
      <4>4. content = n - 1
        BY <4>3
      <4> QED
        BY <2>3, <4>2, <4>4
    <3> QED
      BY <3>1
  <2>8. frames = <<>>
    <3>1. n >= 2
      BY <2>3, <2>6
    <3> QED
      BY <1>1, <1>2, <2>3, <3>1 DEF DeliveryInv, OneLine
  <2>9. \A i \in c + 1..c + content : body[i] \notin LineEnds /\ i \notin Ends(body)
    BY <1>2, <2>6, <2>7, NoEndIn DEF DeliveryInv
  <2>10. Enders(dispatches, FALSE) = {} => Reading(body)[c] = Acc(e, o, FALSE)
    BY <1>2, <2>8, BeforeLine DEF Held
  <2>11. Enders(dispatches, FALSE) # {} => Reading(body)[c].ends /\ Reading(body)[c].out = o
    BY <1>1, <1>2 DEF DeliveryInv, InStep
  <2> HIDE DEF content, c, e, o, n
  <2>12. /\ m \in Nat /\ c < m /\ m <= Len(body) /\ m - c > MaxLine
         /\ body[m] \notin LineEnds /\ \A i \in c + 1..m : i \notin Ends(body)
    <3>1. m \in Nat /\ c < m /\ m <= Len(body) /\ m - c > MaxLine /\ m \in c + 1..m
      BY <2>3, <2>6
    <3> QED
      BY <2>9, <3>1
  <2>13. Enders(dispatches, FALSE) = {} =>
           ReadBody(body) = Append(o, [type |-> "line_too_large"])
    <3> HIDE DEF m
    <3>1. body \in Seq(Bytes) /\ c \in Nat
      BY <2>3
    <3>2. Reading(body)[c] = Acc(e, o, FALSE) =>
            ReadBody(body) = Append(o, [type |-> "line_too_large"])
      BY <2>4, <2>12, <3>1, LongLine
    <3> QED
      BY <2>10, <3>2
  <2>14. Enders(dispatches, FALSE) # {} => ReadBody(body) = o
    <3>1. c \in 0..Len(body) /\ Len(body) \in Nat
      BY <2>3, <2>12
    <3>2. Reading(body)[c].ends => ReadBody(body) = Reading(body)[c].out
      BY <3>1, ReadingEnded
    <3> QED
      BY <2>11, <3>2
  <2>15. "line_too_large" \in DecodeErrors
    BY DEF DecodeErrors
  <2>16. ReadBody(body) = IF Enders(dispatches, eof) = {}
                          THEN Append(yielded \o Taken(dispatches, eof),
                                      [type |-> "line_too_large"])
                          ELSE yielded \o Taken(dispatches, eof)
    BY <1>2, <2>13, <2>14 DEF o
  <2> QED
    BY <1>1, <1>2, <2>1, <2>15, <2>16, FailDelivers
<1>4. CASE ~(content > MaxLine /\ (bom_checked \/ ~IsPrefix(line_buffer, BOM)))
  <2>1. /\ pc' = IF fed < upto THEN "slice" ELSE "classify"
        /\ UNCHANGED <<body, upto, eof, fed, line_buffer, search_from, bom_checked, event_name,
                       event_data, data_lines, frames, dispatches, error, state, yielded>>
    BY <1>1, <1>4 DEF CheckLimit, input, lineVars, eventVars
  <2>2. Buffered'
    BY <2>1 DEF DeliveryInv, Buffered, Consumed
  <2>3. OneLine'
    <3>1. frames # <<>> => fed = upto
      BY <1>1, <1>2 DEF DeliveryInv, OneLine
    <3>2. frames # <<>> => pc' = "classify"
      <4>1. upto \in Nat
        BY DEF SseInv, TypeOK
      <4> QED
        BY <2>1, <3>1, <4>1
    <3> QED
      BY <1>1, <1>2, <2>1, <3>2 DEF DeliveryInv, OneLine
  <2>4. AtRest'
    BY <1>1, <1>2, <2>1 DEF DeliveryInv, AtRest
  <2>5. Held' = Held /\ Consumed' = Consumed
    BY <2>1 DEF Held, Consumed
  <2>6. InStep'
    BY <1>1, <1>2, <2>1, <2>5 DEF DeliveryInv, InStep
  <2>7. InStepAtEnd' /\ Settled'
    BY <1>2, <2>1 DEF InStepAtEnd, Settled
  <2> QED
    BY <2>2, <2>3, <2>4, <2>6, <2>7 DEF DeliveryInv
<1> QED
  BY <1>3, <1>4

\* What is dispatched of one frame.
LEMMA DispatchedIs ==
  ASSUME TypeOK
  PROVE  /\ frames = <<>> => Dispatched.kind = "event" /\ Dispatched.dispatches = <<>>
         /\ Len(frames) = 1 =>
              /\ Dispatched.kind = Classify(frames[1])
              /\ Classify(frames[1]) = "consumed" => Dispatched.dispatches = <<>>
              /\ Classify(frames[1]) # "consumed" =>
                   Dispatched.dispatches =
                     <<[type |-> Classify(frames[1]), frame |-> frames[1]]>>
<1> DEFINE ends == {i \in 1..Len(frames) : Classify(frames[i]) # "event"}
           upTo == IF ends = {} THEN Len(frames)
                   ELSE CHOOSE i \in ends : \A j \in ends : i <= j
           all == [i \in 1..upTo |-> [type |-> Classify(frames[i]), frame |-> frames[i]]]
           ds == IF ends # {} /\ Classify(frames[upTo]) = "consumed"
                 THEN SubSeq(all, 1, upTo - 1) ELSE all
<1>1. /\ Dispatched.kind = IF ends = {} THEN "event" ELSE Classify(frames[upTo])
      /\ Dispatched.dispatches = ds
  BY DEF Dispatched
<1>2. CASE frames = <<>>
  <2>1. ends = {} /\ Len(frames) = 0
    BY <1>2
  <2>2. upTo = 0
    BY <2>1
  <2>3. all = <<>>
    <3> HIDE DEF upTo
    <3>1. all = [i \in 1..0 |-> [type |-> Classify(frames[i]), frame |-> frames[i]]]
      BY <2>2
    <3> QED
      BY <3>1
  <2> QED
    BY <1>1, <1>2, <2>1, <2>3
<1>3. CASE Len(frames) = 1
  <2>1. ends \subseteq {1} /\ (ends # {} <=> Classify(frames[1]) # "event")
    BY <1>3
  <2> DEFINE pick == CHOOSE i \in ends : \A j \in ends : i <= j
  <2>2. ends # {} => pick = 1
    <3> HIDE DEF ends
    <3>1. ends # {} => 1 \in ends /\ \A j \in ends : 1 <= j
      <4>1. \A j \in ends : j = 1
        BY <2>1
      <4>2. 1 <= 1
        OBVIOUS
      <4> QED
        BY <4>1, <4>2
    <3>2. ends # {} => pick \in ends
      BY <3>1
    <3> HIDE DEF pick
    <3> QED
      BY <2>1, <3>2
  <2> HIDE DEF pick
  <2>3. upTo = 1
    BY <1>3, <2>2 DEF pick
  <2> HIDE DEF upTo
  <2> DEFINE f == [type |-> Classify(frames[1]), frame |-> frames[1]]
  <2>4. all = <<f>>
    <3>1. all = [i \in 1..1 |-> [type |-> Classify(frames[i]), frame |-> frames[i]]]
      BY <2>3
    <3> QED
      BY <3>1
  <2> HIDE DEF all, f
  <2>5. SubSeq(all, 1, upTo - 1) = <<>>
    <3>1. SubSeq(<<f>>, 1, 0) = <<>> /\ 1 - 1 = 0
      OBVIOUS
    <3> QED
      BY <2>3, <2>4, <3>1
  <2>6. Dispatched.kind = Classify(frames[1])
    BY <1>1, <2>1, <2>3
  <2>7. Classify(frames[1]) = "consumed" => Dispatched.dispatches = <<>>
    BY <1>1, <2>1, <2>3, <2>5
  <2>8. Classify(frames[1]) # "consumed" => Dispatched.dispatches = <<f>>
    BY <1>1, <2>3, <2>4
  <2>9. frames # <<>>
    BY <1>3
  <2> QED
    BY <2>6, <2>7, <2>8, <2>9 DEF f
<1> QED
  BY <1>2, <1>3

\* An element appended to the second part of a concatenation.
LEMMA AppendIs ==
  ASSUME NEW S, NEW s \in Seq(S), NEW t \in Seq(S), NEW x \in S
  PROVE  s \o Append(t, x) = Append(s \o t, x)
<1> DEFINE a == s \o Append(t, x)
           b == Append(s \o t, x)
<1>1. /\ a \in Seq(S) /\ b \in Seq(S) /\ Len(a) = Len(s) + Len(t) + 1 /\ Len(b) = Len(a)
      /\ Len(s) \in Nat /\ Len(t) \in Nat
  OBVIOUS
<1>2. ASSUME NEW i \in 1..Len(a) PROVE a[i] = b[i]
  OBVIOUS
<1> QED
  BY <1>1, <1>2, SeqEqual

\* A sequence of one element at most.
LEMMA OneAtMost ==
  ASSUME NEW S, NEW s \in Seq(S), Len(s) <= 1 PROVE s = <<>> \/ Len(s) = 1
<1>1. Len(s) \in Nat
  OBVIOUS
<1>2. Len(s) = 0 => s = <<>>
  OBVIOUS
<1>3. \A n \in Nat : n <= 1 => n = 0 \/ n = 1
  OBVIOUS
<1> QED
  BY <1>1, <1>2, <1>3, Zenon

\* The dispatches of the chunk with those of the frames behind them.
Followed == dispatches \o Dispatched.dispatches

\* What the frames of a call give is what their dispatches give.
LEMMA ClassifiedIs ==
  ASSUME SseInv, Len(frames) <= 1
  PROVE  /\ Enders(dispatches, eof) = {} =>
              /\ Enders(Followed, eof) = {} /\ Dispatched.kind = "event" =>
                   ReadFrames(Held, frames, eof) =
                     Acc(Event(event_name, event_data, data_lines),
                         yielded \o Taken(Followed, eof), FALSE)
              /\ Enders(Followed, eof) # {} \/ Dispatched.kind # "event" =>
                   ReadFrames(Held, frames, eof) =
                     Acc(Event(event_name, event_data, data_lines),
                         yielded \o Taken(Followed, eof), TRUE)
         /\ Enders(dispatches, eof) # {} =>
              Enders(Followed, eof) # {} /\ Taken(Followed, eof) = Taken(dispatches, eof)
<1> DEFINE e == Event(event_name, event_data, data_lines)
           o == yielded \o Taken(dispatches, eof)
           f == frames[1]
           d == [type |-> Classify(f), frame |-> f]
           y == Yielded(d, eof)
           ds == Followed
<1>1. /\ TypeOK /\ frames \in Seq(Frame) /\ dispatches \in Seq(Dispatch) /\ eof \in BOOLEAN
      /\ yielded \in Seq(Yields)
  BY DEF SseInv, TypeOK
<1>2. Held = Acc(e, o, FALSE)
  BY DEF Held
<1>3. ds = dispatches \o Dispatched.dispatches
  BY DEF Followed
<1>4. Taken(dispatches, eof) \in Seq(Yields)
  BY <1>1, TakenOK
<1> HIDE DEF e
<1>5. CASE frames = <<>>
  <2>1. Dispatched.kind = "event" /\ Dispatched.dispatches = <<>>
    BY <1>1, <1>5, DispatchedIs
  <2>2. ds = dispatches
    BY <1>1, <1>3, <2>1
  <2>3. ReadFrames(Acc(e, o, FALSE), frames, eof) = Acc(e, o, FALSE)
    BY <1>5, ReadFramesIs
  <2> QED
    BY <1>2, <2>1, <2>2, <2>3 DEF e
<1>6. CASE Len(frames) = 1 /\ Classify(f) = "consumed"
  <2>1. Dispatched.kind = "consumed" /\ Dispatched.dispatches = <<>>
    BY <1>1, <1>6, DispatchedIs
  <2>2. ds = dispatches
    BY <1>1, <1>3, <2>1
  <2>3. ReadFrames(Acc(e, o, FALSE), frames, eof) = Acc(e, o, TRUE)
    BY <1>1, <1>6, ReadFramesIs
  <2> QED
    BY <1>2, <2>1, <2>2, <2>3 DEF e
<1>7. CASE Len(frames) = 1 /\ Classify(f) # "consumed"
  <2>1. Dispatched.kind = Classify(f) /\ Dispatched.dispatches = <<d>>
    BY <1>1, <1>7, DispatchedIs
  <2>2. ds = dispatches \o <<d>>
    BY <1>3, <2>1
  <2>3. d \in Dispatch
    <3>1. f \in Frame
      <4>1. 1 \in 1..Len(frames)
        BY <1>7
      <4> QED
        BY <1>1, <4>1
    <3>2. Classify(f) \in {"event", "terminal", "remote_error"}
      BY <1>7 DEF Classify
    <3> QED
      BY <3>1, <3>2 DEF Dispatch
  <2>4. /\ y.ends \/ Classify(f) # "event" =>
             ReadFrames(Acc(e, o, FALSE), frames, eof) = Acc(e, Append(o, y.item), TRUE)
        /\ ~y.ends /\ Classify(f) = "event" =>
             ReadFrames(Acc(e, o, FALSE), frames, eof) = Acc(e, Append(o, y.item), FALSE)
    <3> HIDE DEF o
    <3>1. y = Sent(frames[1], eof)
      BY DEF Sent
    <3> HIDE DEF y
    <3>2. frames \in Seq(Frame) /\ Len(frames) = 1 /\ Classify(frames[1]) # "consumed"
      BY <1>1, <1>7
    <3> DEFINE z == Sent(frames[1], eof)
    <3>3. z.ends \/ Classify(frames[1]) # "event" =>
            ReadFrames(Acc(e, o, FALSE), frames, eof) = Acc(e, Append(o, z.item), TRUE)
      BY <3>2, ReadFrameEnds
    <3>4. ASSUME Classify(frames[1]) = "event", ~(z.ends)
          PROVE  ReadFrames(Acc(e, o, FALSE), frames, eof) = Acc(e, Append(o, z.item), FALSE)
      <4> DEFINE acc == Acc(e, o, FALSE)
      <4>1. acc.event = e /\ acc.out = o /\ ~acc.ends
        BY DEF Acc
      <4> HIDE DEF acc
      <4>2. frames # <<>>
        <5>1. Len(<<>>) = 0 /\ 0 # 1
          OBVIOUS
        <5> QED
          BY <3>2, <5>1, Zenon
      <4>3. ReadFrames(acc, frames, eof)
              = Acc(e, Append(o, z.item), z.ends \/ Classify(frames[1]) # "event")
        BY <3>2, <4>1, <4>2, Zenon DEF ReadFrames, Sent
      <4>4. (z.ends \/ Classify(frames[1]) # "event") = FALSE
        BY <3>4, Zenon
      <4> HIDE DEF z
      <4> QED
        BY <4>3, <4>4, Zenon DEF acc
    <3> HIDE DEF z
    <3>5. y = z
      BY <3>1 DEF z
    <3> QED
      BY <3>3, <3>4, <3>5
  <2>5. y.item \in Yields
    BY <1>1, <2>3, YieldedOK
  <2> DEFINE kind == Classify(f)
             item == y.item
             stops == y.ends
  <2>6. /\ Enders(dispatches, eof) = {} =>
             /\ Taken(ds, eof) = Append(Taken(dispatches, eof), item)
             /\ Enders(ds, eof) = {} <=> ~stops
        /\ Enders(dispatches, eof) # {} =>
             Taken(ds, eof) = Taken(dispatches, eof) /\ Enders(ds, eof) # {}
    <3> HIDE DEF d
    <3> QED
      BY <1>1, <2>2, <2>3, TakenMore
  <2>7. yielded \o Append(Taken(dispatches, eof), item) = Append(o, item)
    <3> HIDE DEF item
    <3> QED
      BY <1>1, <1>4, <2>5, AppendIs DEF item
  <2>8. Dispatched.kind = kind
    BY <2>1
  <2> HIDE DEF kind, item, stops, o, ds, f, d
  <2>9. /\ stops \/ kind # "event" => ReadFrames(Held, frames, eof) = Acc(e, Append(o, item), TRUE)
        /\ ~stops /\ kind = "event" => ReadFrames(Held, frames, eof) = Acc(e, Append(o, item), FALSE)
    BY <1>2, <2>4 DEF kind, item, stops
  <2> HIDE DEF y
  <2>10. Enders(dispatches, eof) = {} => yielded \o Taken(ds, eof) = Append(o, item)
    BY <2>6, <2>7
  <2>11. ASSUME Enders(dispatches, eof) = {}, Enders(ds, eof) = {}, Dispatched.kind = "event"
         PROVE  ReadFrames(Held, frames, eof) = Acc(e, yielded \o Taken(ds, eof), FALSE)
    <3>1. ~stops /\ kind = "event"
      BY <2>6, <2>8, <2>11
    <3> QED
      BY <2>9, <2>10, <2>11, <3>1
  <2>12. ASSUME Enders(dispatches, eof) = {}, Enders(ds, eof) # {} \/ Dispatched.kind # "event"
         PROVE  ReadFrames(Held, frames, eof) = Acc(e, yielded \o Taken(ds, eof), TRUE)
    <3>1. stops \/ kind # "event"
      BY <2>6, <2>8, <2>12
    <3> QED
      BY <2>9, <2>10, <2>12, <3>1
  <2> QED
    BY <2>6, <2>11, <2>12 DEF e, ds
<1>8. frames = <<>> \/ Len(frames) = 1
  BY <1>1, OneAtMost
<1> QED
  BY <1>5, <1>6, <1>7, <1>8

\* The frames of a call are dispatched.
LEMMA ClassifyFramesDelivers ==
  ASSUME SseInv, DeliveryInv, ClassifyFrames PROVE DeliveryInv'
<1> DEFINE e == Event(event_name, event_data, data_lines)
           kind == Dispatched.kind
           out == yielded \o Taken(Followed, eof)
           c == Consumed
<1>1. /\ pc = "classify" /\ dispatches' = Followed /\ frames' = <<>>
      /\ UNCHANGED <<body, upto, eof, fed, bom_checked, yielded>>
  BY DEF ClassifyFrames, Followed, input, lineVars
<1>2. state = "active" /\ eof \in BOOLEAN
  BY <1>1 DEF SseInv, Flow, TypeOK
<1>3. error = "none" /\ Len(frames) <= 1
  BY <1>2 DEF DeliveryInv, AtRest, OneLine
<1>4. /\ Enders(dispatches, eof) = {} =>
           /\ Enders(Followed, eof) = {} /\ kind = "event" =>
                ReadFrames(Held, frames, eof) = Acc(e, out, FALSE)
           /\ Enders(Followed, eof) # {} \/ kind # "event" =>
                ReadFrames(Held, frames, eof) = Acc(e, out, TRUE)
      /\ Enders(dispatches, eof) # {} =>
           Enders(Followed, eof) # {} /\ Taken(Followed, eof) = Taken(dispatches, eof)
  BY <1>3, ClassifiedIs
<1>5. /\ Len(body) \in Nat /\ c \in 0..Len(body) /\ Len(<<>>) = 0 /\ Len(<<>>) <= 1
      /\ (fed = Len(body) \/ ~eof)
  <2>1. /\ c \in Nat /\ c + Len(line_buffer) = fed /\ fed <= Len(body) /\ Len(body) \in Nat
        /\ Len(line_buffer) \in Nat
    BY <1>2, ConsumedOK DEF DeliveryInv
  <2>2. c <= Len(body)
    BY <2>1
  <2> QED
    BY <1>2, <2>1, <2>2 DEF DeliveryInv, AtRest
<1>6. ~eof => /\ Enders(dispatches, eof) = {} => Reading(body)[c] = ReadFrames(Held, frames, eof)
              /\ Enders(dispatches, eof) # {} =>
                   /\ Reading(body)[c].ends
                   /\ Reading(body)[c].out = yielded \o Taken(dispatches, eof)
  <2>1. ~eof => eof = FALSE
    BY <1>2
  <2> QED
    BY <1>1, <1>2, <2>1 DEF DeliveryInv, InStep
<1>7. eof => dispatches = <<>> /\ ReadBody(body) = Closed(ReadFrames(Held, frames, TRUE))
  BY <1>1, <1>2 DEF DeliveryInv, AtRest, InStepAtEnd
<1>8. \A b : Acc(e, out, b).out = out /\ Acc(e, out, b).ends = b
  BY DEF Acc
<1> HIDE DEF e, kind, out, c
<1>9. ~eof /\ (Enders(Followed, eof) # {} \/ kind # "event") =>
        Reading(body)[c].ends /\ Reading(body)[c].out = out
  <2>1. CASE Enders(dispatches, eof) = {}
    BY <1>4, <1>6, <1>8, <2>1
  <2>2. CASE Enders(dispatches, eof) # {}
    BY <1>4, <1>6, <2>2 DEF out
  <2> QED
    BY <2>1, <2>2
<1>10. CASE kind = "event" /\ ~eof
  <2>1. /\ pc' = "piece"
        /\ UNCHANGED <<line_buffer, search_from, event_name, event_data, data_lines, error, state>>
    BY <1>10 DEF ClassifyFrames, lineVars, eventVars, kind
  <2>2. Held' = Acc(e, out, FALSE) /\ Consumed' = c /\ eof = FALSE
    BY <1>1, <1>2, <1>10, <2>1 DEF Held, Consumed, e, out, c
  <2>3. Buffered'
    BY <1>1, <2>1 DEF DeliveryInv, Buffered, Consumed
  <2>4. OneLine'
    BY <1>1, <1>2, <1>5, <1>10, <2>1 DEF DeliveryInv, OneLine
  <2>5. AtRest'
    BY <1>1, <1>2, <1>10, <2>1 DEF DeliveryInv, AtRest
  <2>6. InStep'
    <3>1. CASE Enders(Followed, eof) = {}
      <4>1. Reading(body)[c] = Acc(e, out, FALSE)
        BY <1>4, <1>6, <1>10, <3>1
      <4>2. ReadFrames(Acc(e, out, FALSE), <<>>, FALSE) = Acc(e, out, FALSE)
        BY ReadFramesIs
      <4> QED
        BY <1>1, <2>2, <3>1, <4>1, <4>2 DEF InStep
    <3>2. CASE Enders(Followed, eof) # {}
      BY <1>1, <1>9, <1>10, <2>2, <3>2 DEF InStep, out
    <3> QED
      BY <3>1, <3>2
  <2>7. InStepAtEnd' /\ Settled'
    BY <1>1, <1>10, <2>1 DEF InStepAtEnd, Settled
  <2> QED
    BY <2>3, <2>4, <2>5, <2>6, <2>7 DEF DeliveryInv
<1>11. CASE ~(kind = "event" /\ ~eof)
  <2>1. /\ pc' = "deliver" /\ line_buffer' = <<>>
        /\ IF kind = "event" THEN state' = "failed" /\ error' = "unexpected_eof"
           ELSE state' = StateAfter(kind) /\ error' = "none"
    BY <1>3, <1>11 DEF ClassifyFrames, kind
  <2>2. state' # "active"
    BY <2>1 DEF StateAfter
  <2>3. Buffered' /\ InStep' /\ InStepAtEnd'
    BY <2>2 DEF Buffered, InStep, InStepAtEnd
  <2>4. OneLine'
    BY <1>1, <1>5, <2>1, <2>2 DEF OneLine
  <2>5. AtRest'
    BY <1>1, <2>1, <2>2 DEF DeliveryInv, AtRest
  <2>6. ReadBody(body) = IF Enders(Followed, eof) = {} /\ kind = "event"
                         THEN Append(out, [type |-> "unexpected_eof"]) ELSE out
    <3>1. CASE ~eof
      <4>1. kind # "event"
        BY <1>11, <3>1
      <4>2. Reading(body)[c].ends /\ Reading(body)[c].out = out
        BY <1>9, <3>1, <4>1
      <4> QED
        BY <1>5, <4>1, <4>2, ReadingEnded
    <3>2. CASE eof
      <4>1. eof = TRUE
        BY <1>2, <3>2
      <4>2. Enders(dispatches, eof) = {}
        BY <1>2, <1>7, <3>2, TakenOK DEF SseInv, TypeOK
      <4>3. CASE Enders(Followed, eof) = {} /\ kind = "event"
        <5>1. ReadBody(body) = Closed(Acc(e, out, FALSE))
          BY <1>4, <1>7, <4>1, <4>2, <4>3
        <5> QED
          BY <4>3, <5>1 DEF Closed, Acc
      <4>4. CASE ~(Enders(Followed, eof) = {} /\ kind = "event")
        <5>1. ReadBody(body) = Closed(Acc(e, out, TRUE))
          BY <1>4, <1>7, <4>1, <4>2, <4>4
        <5> QED
          BY <4>4, <5>1 DEF Closed, Acc
      <4> QED
        BY <4>3, <4>4
    <3> QED
      BY <3>1, <3>2
  <2>7. Settled'
    BY <1>1, <2>1, <2>6 DEF Settled, out
  <2> QED
    BY <2>3, <2>4, <2>5, <2>7 DEF DeliveryInv
<1> QED
  BY <1>10, <1>11

\* No dispatch yields the error of the transport.
LEMMA NotTransport ==
  ASSUME NEW d, NEW fin PROVE Yielded(d, fin).item.type # "transport"
BY DEF Yielded

\* One item more, and what the items of a stream that has stopped say.
LEMMA OneMore ==
  ASSUME NEW s \in Seq(Yields), NEW x \in Yields
  PROVE  /\ Append(s, x) \in Seq(Yields) /\ Append(s, x) # <<>> /\ Last(Append(s, x)) = x
         /\ (\A i \in 1..Len(s) : s[i].type # "transport") /\ x.type # "transport" =>
              \A i \in 1..Len(Append(s, x)) : Append(s, x)[i].type # "transport"
<1>1. /\ Append(s, x) \in Seq(Yields) /\ Len(Append(s, x)) = Len(s) + 1 /\ Len(s) \in Nat
      /\ Append(s, x)[Len(s) + 1] = x /\ \A i \in 1..Len(s) : Append(s, x)[i] = s[i]
  OBVIOUS
<1> DEFINE t == Append(s, x)
<1> HIDE DEF t
<1>2. /\ t \in Seq(Yields) /\ Len(t) = Len(s) + 1 /\ Len(s) \in Nat
      /\ t[Len(s) + 1] = x /\ \A i \in 1..Len(s) : t[i] = s[i]
  BY <1>1 DEF t
<1>3. t # <<>> /\ Last(t) = x
  BY <1>2 DEF Last
<1>4. ASSUME \A i \in 1..Len(s) : s[i].type # "transport", x.type # "transport",
             NEW i \in 1..Len(t)
      PROVE  t[i].type # "transport"
  <2>1. i \in 1..Len(s) \/ i = Len(s) + 1
    BY <1>2
  <2> QED
    BY <1>2, <1>4, <2>1
<1> QED
  BY <1>2, <1>3, <1>4 DEF t

\* What is delivered when the stream ends is what the body gives.
LEMMA EndsWith ==
  ASSUME NEW s \in Seq(Yields), s = ReadBody(body), yielded' = s, body' = body,
         \A i \in 1..Len(s) : s[i].type # "transport", pc' = "done"
  PROVE  DeliveryIgnoresChunks'
<1>1. s # <<>> => Last(s).type # "transport"
  <2>1. s # <<>> => Len(s) \in 1..Len(s)
    OBVIOUS
  <2> QED
    BY <2>1 DEF Last
<1> QED
  BY <1>1 DEF DeliveryIgnoresChunks

\* The dispatches of a chunk are delivered, then its error.
LEMMA DeliverNextDelivers ==
  ASSUME SseInv, DeliveryInv, DeliverNext PROVE DeliveryInv'
<1> DEFINE ds == dispatches
           y == Yielded(Head(ds), eof)
<1>1. /\ pc = "deliver"
      /\ UNCHANGED <<body, upto, eof, fed, line_buffer, search_from, bom_checked, event_name,
                     event_data, data_lines, frames, error, state>>
  BY DEF DeliverNext, input, lineVars, eventVars
<1>2. /\ ds \in Seq(Dispatch) /\ eof \in BOOLEAN /\ yielded \in Seq(Yields)
      /\ state = "active" => ~eof /\ eof = FALSE
      /\ error \in DecodeErrors \cup {"none"}
  BY <1>1 DEF SseInv, TypeOK, Flow
<1>3. /\ frames = <<>> /\ \A i \in 1..Len(yielded) : yielded[i].type # "transport"
      /\ state = "active" => error = "none" /\ fed = Len(body)
  BY <1>1 DEF DeliveryInv, OneLine, AtRest
<1>4. Consumed' = Consumed /\ Buffered'
  BY <1>1 DEF DeliveryInv, Buffered, Consumed
<1>5. CASE ds # <<>>
  <2>1. /\ yielded' = Append(yielded, y.item) /\ dispatches' = Tail(ds)
        /\ pc' = IF y.ends THEN "done" ELSE "deliver"
    BY <1>5 DEF DeliverNext
  <2>2. y.item \in Yields /\ y.item.type # "transport"
    <3>1. Head(ds) \in Dispatch
      BY <1>2, <1>5
    <3> QED
      BY <1>2, <3>1, YieldedOK, NotTransport
  <2>3. /\ y.ends => /\ Enders(ds, eof) # {}
                     /\ yielded \o Taken(ds, eof) = Append(yielded, y.item)
        /\ ~y.ends => /\ Enders(Tail(ds), eof) = {} <=> Enders(ds, eof) = {}
                      /\ yielded \o Taken(ds, eof) =
                           Append(yielded, y.item) \o Taken(Tail(ds), eof)
    BY <1>2, <1>5, TakenNext
  <2> DEFINE item == y.item
             stops == y.ends
  <2> HIDE DEF y, item, stops
  <2>4. /\ yielded' \in Seq(Yields) /\ yielded' # <<>>
        /\ \A i \in 1..Len(yielded') : yielded'[i].type # "transport"
    <3>1. item \in Yields /\ item.type # "transport" /\ yielded' = Append(yielded, item)
      BY <2>1, <2>2 DEF item
    <3> QED
      BY <1>2, <1>3, <3>1, OneMore
  <2>5. OneLine'
    BY <1>1, <1>3, <2>1 DEF DeliveryInv, OneLine
  <2>6. AtRest'
    BY <1>1, <1>2, <1>3, <2>1, <2>4 DEF DeliveryInv, AtRest
  <2>7. InStepAtEnd'
    BY <1>1, <1>2 DEF InStepAtEnd
  <2>8. CASE stops
    <3>1. /\ pc' = "done" /\ Enders(ds, eof) # {}
          /\ yielded \o Taken(ds, eof) = yielded'
      BY <2>1, <2>3, <2>8 DEF stops
    <3>2. ReadBody(body) = yielded'
      <4>1. CASE state # "active"
        BY <1>1, <3>1, <4>1 DEF DeliveryInv, Settled
      <4>2. CASE state = "active"
        <5>1. eof = FALSE
          BY <1>2, <4>2
        <5>2. Reading(body)[Consumed].ends /\ Reading(body)[Consumed].out = yielded'
          BY <1>1, <3>1, <4>2, <5>1 DEF DeliveryInv, InStep
        <5>3. Len(body) \in Nat /\ Consumed \in 0..Len(body)
          BY <4>2, ConsumedOK DEF DeliveryInv
        <5> QED
          BY <5>2, <5>3, ReadingEnded
      <4> QED
        BY <4>1, <4>2
    <3>3. Settled'
      <4>1. DeliveryIgnoresChunks'
        BY <1>1, <2>4, <3>1, <3>2, EndsWith
      <4> QED
        BY <3>1, <4>1 DEF Settled
    <3>4. InStep'
      BY <3>1 DEF InStep
    <3> QED
      BY <1>4, <2>5, <2>6, <2>7, <3>3, <3>4 DEF DeliveryInv
  <2>9. CASE ~stops
    <3>1. /\ pc' = "deliver" /\ (Enders(dispatches', eof) = {} <=> Enders(ds, eof) = {})
          /\ yielded' \o Taken(dispatches', eof) = yielded \o Taken(ds, eof)
      BY <2>1, <2>3, <2>9 DEF stops
    <3>2. Held' = Held
      BY <1>1, <3>1 DEF Held
    <3>3. InStep'
      <4> SUFFICES ASSUME state = "active" PROVE InStep'
        BY <1>1 DEF InStep
      <4>1. eof = FALSE
        BY <1>2
      <4> QED
        BY <1>1, <1>3, <1>4, <3>1, <3>2, <4>1 DEF DeliveryInv, InStep
    <3>4. Settled'
      BY <1>1, <3>1 DEF DeliveryInv, Settled
    <3> QED
      BY <1>4, <2>5, <2>6, <2>7, <3>3, <3>4 DEF DeliveryInv
  <2> QED
    BY <2>8, <2>9
<1>6. CASE ds = <<>>
  <2>1. /\ yielded' = IF error = "none" THEN yielded ELSE Append(yielded, [type |-> error])
        /\ pc' = IF state = "active" THEN "idle" ELSE "done"
        /\ dispatches' = dispatches
    BY <1>6 DEF DeliverNext
  <2>2. Taken(ds, eof) = <<>> /\ Enders(ds, eof) = {}
    BY <1>2, <1>6, TakenOK
  <2>3. OneLine'
    BY <1>1, <1>3, <2>1 DEF DeliveryInv, OneLine
  <2>4. InStepAtEnd'
    BY <1>1, <1>2 DEF InStepAtEnd
  <2>5. CASE state = "active"
    <3>1. yielded' = yielded /\ pc' = "idle" /\ eof = FALSE
      BY <1>2, <1>3, <2>1, <2>5
    <3>2. Held' = Held
      BY <1>1, <2>1, <3>1 DEF Held
    <3>3. InStep'
      BY <1>1, <1>3, <1>4, <2>1, <2>5, <3>1, <3>2 DEF DeliveryInv, InStep
    <3>4. AtRest'
      BY <1>1, <1>3, <1>6, <2>1, <3>1 DEF AtRest
    <3>5. Settled'
      BY <3>1 DEF Settled
    <3> QED
      BY <1>4, <2>3, <2>4, <3>3, <3>4, <3>5 DEF DeliveryInv
  <2>6. CASE state # "active"
    <3>1. pc' = "done"
      BY <2>1, <2>6
    <3>2. yielded \o <<>> = yielded
      BY <1>2
    <3>3. ReadBody(body) = yielded'
      BY <1>1, <2>1, <2>2, <2>6, <3>2 DEF DeliveryInv, Settled
    <3>4. /\ yielded' \in Seq(Yields)
          /\ \A i \in 1..Len(yielded') : yielded'[i].type # "transport"
      <4>1. CASE error = "none"
        BY <1>2, <1>3, <2>1, <4>1
      <4>2. CASE error # "none"
        <5> DEFINE x == [type |-> error]
        <5>1. x \in Yields /\ x.type # "transport"
          BY <1>2, <4>2 DEF Yields, DecodeErrors
        <5>2. yielded' = Append(yielded, x)
          BY <2>1, <4>2
        <5> HIDE DEF x
        <5> QED
          BY <1>2, <1>3, <5>1, <5>2, OneMore
      <4> QED
        BY <4>1, <4>2
    <3>5. Settled'
      <4>1. DeliveryIgnoresChunks'
        BY <1>1, <3>1, <3>3, <3>4, EndsWith
      <4> QED
        BY <3>1, <4>1 DEF Settled
    <3>6. AtRest' /\ InStep'
      BY <1>1, <2>6, <3>1 DEF AtRest, InStep
    <3> QED
      BY <1>4, <2>3, <2>4, <3>5, <3>6 DEF DeliveryInv
  <2> QED
    BY <2>5, <2>6
<1> QED
  BY <1>5, <1>6

\* The body ends: what is still in the buffer is its open line.
LEMMA FinishBodyDelivers ==
  ASSUME SseInv, DeliveryInv, FinishBody PROVE DeliveryInv'
<1> DEFINE n == Len(line_buffer)
           c == Consumed
<1>1. /\ pc = "idle" /\ eof' = TRUE /\ CheckBom(line_buffer, TRUE, "drain")
      /\ frames' = <<>> /\ dispatches' = <<>>
      /\ UNCHANGED <<body, upto, fed, event_name, event_data, data_lines, error, state, yielded>>
  BY DEF FinishBody, eventVars
<1>2. /\ state = "active" /\ ~eof /\ eof = FALSE /\ yielded \in Seq(Yields)
      /\ bom_checked \in BOOLEAN /\ (~bom_checked => n <= 2)
  BY <1>1 DEF SseInv, Flow, TypeOK
<1>3. fed = Len(body) /\ dispatches = <<>> /\ frames = <<>> /\ error = "none"
  BY <1>1, <1>2 DEF DeliveryInv, AtRest, OneLine
<1>4. ReadLines(body) = Held
  BY <1>1, <1>2, IdleIs
<1>5. Taken(<<>>, FALSE) = <<>> /\ Taken(<<>>, TRUE) = <<>> /\ Enders(<<>>, FALSE) = {}
  <2>1. <<>> \in Seq(Dispatch) /\ TRUE \in BOOLEAN /\ FALSE \in BOOLEAN
    OBVIOUS
  <2> QED
    BY <2>1, TakenOK
<1>6. Reading(body)[c] = Held
  BY <1>1, <1>2, <1>3, <1>5, BeforeLine
<1>7. Held' = Held
  BY <1>1, <1>2, <1>3, <1>5 DEF Held
<1>8. /\ c \in Nat /\ c + n = Len(body) /\ Len(body) \in Nat /\ n \in Nat
      /\ body \in Seq(Bytes) /\ line_buffer \in Seq(Bytes)
      /\ \A i \in 1..n : line_buffer[i] = body[c + i]
  BY <1>2, <1>3, ConsumedOK DEF DeliveryInv
<1>9. /\ line_buffer' = line_buffer /\ search_from' = search_from /\ bom_checked' = TRUE
      /\ pc' = "drain"
  <2>1. CASE bom_checked
    BY <1>1, <1>2, <2>1 DEF CheckBom
  <2>2. CASE ~bom_checked
    <3>1. ~(n >= 3)
      BY <1>2, <1>8, <2>2
    <3>2. ~IsPrefix(BOM, line_buffer)
      BY <1>8, <3>1, BomIs
    <3> QED
      BY <1>1, <2>2, <3>2 DEF CheckBom
  <2> QED
    BY <2>1, <2>2
<1>10. ~bom_checked => c = 0
  BY DEF Consumed
<1>11. Consumed' = c
  <2>1. Consumed' = fed - n
    BY <1>1, <1>9 DEF Consumed
  <2> QED
    BY <1>3, <1>8, <2>1
<1>12. LineStart(body, c)
  <2>1. CASE bom_checked
    BY <1>2, <2>1 DEF DeliveryInv, Buffered
  <2>2. CASE ~bom_checked
    <3>1. c = 0 /\ ~(Len(body) >= 3)
      BY <1>2, <1>8, <1>10, <2>2
    <3>2. BomLen(body) = 0
      BY <1>8, <3>1, BomIs DEF BomLen
    <3> QED
      BY <3>1, <3>2 DEF LineStart
  <2> QED
    BY <2>1, <2>2
<1>13. n = 0 => ReadOpen(body) = Held
  <2> SUFFICES ASSUME n = 0 PROVE ReadOpen(body) = Held
    OBVIOUS
  <2>1. c = Len(body)
    BY <1>8
  <2>2. ~(Len(body) > BomLen(body)) \/ Len(body) \in Ends(body)
    BY <1>8, <1>12, <2>1 DEF LineStart
  <2> QED
    BY <1>4, <2>2 DEF ReadOpen
<1>14. Buffered'
  <2>1. /\ n <= fed
        /\ \A i \in 1..search_from : line_buffer[i] \notin LineEnds
    BY <1>2 DEF DeliveryInv, Buffered
  <2> QED
    BY <1>1, <1>8, <1>9, <1>11, <1>12, <2>1 DEF Buffered
<1>15. OneLine'
  <2>1. Len(<<>>) <= 1
    OBVIOUS
  <2> QED
    BY <1>1, <1>2, <1>9, <2>1 DEF DeliveryInv, OneLine
<1>16. AtRest'
  BY <1>1, <1>3, <1>9 DEF DeliveryInv, AtRest
<1>17. InStepAtEnd'
  <2>1. ReadFrames(Held, <<>>, TRUE) = Held
    BY ReadFramesIs DEF Held
  <2>2. line_buffer = <<>> => n = 0
    OBVIOUS
  <2> QED
    BY <1>1, <1>6, <1>7, <1>9, <1>11, <1>13, <2>1, <2>2 DEF InStepAtEnd
<1>18. InStep' /\ Settled'
  BY <1>1, <1>9 DEF InStep, Settled
<1> QED
  BY <1>14, <1>15, <1>16, <1>17, <1>18 DEF DeliveryInv

\* What a frame gives does not depend on the event that is pending behind it.
LEMMA FrameGives ==
  ASSUME NEW o, NEW f \in Seq(Frame), Len(f) = 1
  PROVE  \E x : \E b \in BOOLEAN : \A e : ReadFrames(Acc(e, o, FALSE), f, TRUE) = Acc(e, x, b)
<1> DEFINE x == Append(o, Sent(f[1], TRUE).item)
<1>1. CASE Classify(f[1]) = "consumed"
  <2>1. \A e : ReadFrames(Acc(e, o, FALSE), f, TRUE) = Acc(e, o, TRUE)
    BY <1>1, ReadFramesIs
  <2> QED
    BY <2>1
<1>2. CASE Classify(f[1]) # "consumed"
  <2> DEFINE stops == Sent(f[1], TRUE).ends \/ Classify(f[1]) # "event"
  <2>1. f # <<>>
    <3>1. Len(<<>>) = 0 /\ 0 # 1
      OBVIOUS
    <3> QED
      BY <3>1, Zenon
  <2>2. ASSUME NEW e PROVE ReadFrames(Acc(e, o, FALSE), f, TRUE) = Acc(e, x, stops)
    <3> DEFINE acc == Acc(e, o, FALSE)
    <3>1. acc.event = e /\ acc.out = o /\ ~acc.ends
      BY DEF Acc
    <3> HIDE DEF acc
    <3>2. ReadFrames(acc, f, TRUE) = Acc(e, x, stops)
      BY <1>2, <2>1, <3>1, Zenon DEF ReadFrames, Sent
    <3> QED
      BY <3>2 DEF acc
  <2>3. stops \in BOOLEAN
    OBVIOUS
  <2> HIDE DEF x, stops
  <2> QED
    BY <2>2, <2>3
<1> QED
  BY <1>1, <1>2

\* Nor does what a call gives, which is one frame at most.
LEMMA FramesGive ==
  ASSUME NEW o, NEW f \in Seq(Frame), Len(f) <= 1
  PROVE  \E x : \E b \in BOOLEAN : \A e : ReadFrames(Acc(e, o, FALSE), f, TRUE) = Acc(e, x, b)
<1>1. CASE f = <<>>
  <2>1. \A e : ReadFrames(Acc(e, o, FALSE), <<>>, TRUE) = Acc(e, o, FALSE)
    BY ReadFramesIs
  <2> QED
    BY <1>1, <2>1
<1>2. CASE Len(f) = 1
  BY <1>2, FrameGives
<1>3. f = <<>> \/ Len(f) = 1
  BY OneAtMost
<1> QED
  BY <1>1, <1>2, <1>3

\* So a reading closes alike whatever that event is, and keeps it.
LEMMA ClosesAlike ==
  ASSUME NEW e1, NEW e2, NEW o, NEW f \in Seq(Frame), Len(f) <= 1
  PROVE  /\ Closed(ReadFrames(Acc(e1, o, FALSE), f, TRUE)) =
              Closed(ReadFrames(Acc(e2, o, FALSE), f, TRUE))
         /\ ReadFrames(Acc(e1, o, FALSE), f, TRUE).event = e1
<1>1. PICK x : \E b \in BOOLEAN : \A e : ReadFrames(Acc(e, o, FALSE), f, TRUE) = Acc(e, x, b)
  BY FramesGive
<1>2. PICK b \in BOOLEAN : \A e : ReadFrames(Acc(e, o, FALSE), f, TRUE) = Acc(e, x, b)
  BY <1>1
<1>3. Closed(Acc(e1, x, b)) = Closed(Acc(e2, x, b)) /\ Acc(e1, x, b).event = e1
  BY DEF Closed, Acc
<1> QED
  BY <1>2, <1>3

\* The last event of the body is given without a blank line.
LEMMA FlushEventDelivers ==
  ASSUME SseInv, DeliveryInv, FlushEvent PROVE DeliveryInv'
<1> DEFINE e == Event(event_name, event_data, data_lines)
           o == yielded \o Taken(dispatches, TRUE)
           last_frames == TakeEvent(e).frames
           read == ReadFrames(Acc(e, o, FALSE), frames, TRUE)
<1>1. /\ pc = "leftover" /\ line_buffer = <<>> /\ frames' = frames \o last_frames
      /\ event_name' = "none" /\ event_data' = <<>> /\ data_lines' = 0 /\ pc' = "classify"
      /\ UNCHANGED <<body, upto, eof, fed, line_buffer, search_from, bom_checked, dispatches,
                     error, state, yielded>>
  BY DEF FlushEvent, input, lineVars
<1>2. state = "active" /\ eof = TRUE /\ eof
  BY <1>1 DEF SseInv, Flow, TypeOK, DeliveryInv, AtRest
<1>3. frames \in Seq(Frame) /\ Len(frames) <= 1 /\ (frames # <<>> => data_lines = 0)
  BY <1>1, <1>2 DEF SseInv, TypeOK, DeliveryInv, OneLine
<1>4. ReadOpen(body) = read
  BY <1>1, <1>2 DEF DeliveryInv, InStepAtEnd, Held
<1>5. Held' = Acc(NoEvent, o, FALSE)
  BY <1>1, <1>2 DEF Held, NoEvent
<1>6. /\ last_frames \in Seq(Frame) /\ Len(last_frames) <= 1
      /\ data_lines = 0 => last_frames = <<>>
  <2>1. e.lines = data_lines /\ [event |-> e.name, data |-> e.data] \in Frame
    BY DEF Event, SseInv, TypeOK, Frame
  <2> DEFINE x == [event |-> e.name, data |-> e.data]
  <2>2. last_frames = IF data_lines = 0 THEN <<>> ELSE <<x>>
    BY <2>1 DEF TakeEvent
  <2> HIDE DEF e, x
  <2>3. /\ <<>> \in Seq(Frame) /\ <<x>> \in Seq(Frame) /\ Len(<<>>) <= 1 /\ Len(<<x>>) <= 1
    BY <2>1 DEF x
  <2> HIDE DEF last_frames
  <2> QED
    BY <2>2, <2>3
<1> HIDE DEF o
<1>7. ReadBody(body) = Closed(ReadFrames(read, TakeEvent(read.event).frames, TRUE))
  BY <1>4 DEF ReadBody, Closed
<1>8. read.event = e
  BY <1>3, ClosesAlike
<1>9. ReadBody(body) = Closed(ReadFrames(read, last_frames, TRUE))
  BY <1>7, <1>8
<1> HIDE DEF e, last_frames
<1>10. /\ frames' \in Seq(Frame) /\ Len(frames') <= 1
       /\ ReadBody(body) = Closed(ReadFrames(Acc(e, o, FALSE), frames', TRUE))
  <2>1. CASE frames = <<>>
    <3>1. frames' = last_frames
      BY <1>1, <1>6, <2>1
    <3>2. read = Acc(e, o, FALSE)
      BY <2>1, ReadFramesIs
    <3> QED
      BY <1>6, <1>9, <3>1, <3>2
  <2>2. CASE frames # <<>>
    <3>1. last_frames = <<>>
      BY <1>3, <1>6, <2>2
    <3>2. frames' = frames
      BY <1>1, <1>3, <3>1
    <3>3. ReadFrames(read, <<>>, TRUE) = read
      <4> HIDE DEF read
      <4> QED
        BY DEF ReadFrames
    <3> QED
      BY <1>3, <1>9, <3>1, <3>2, <3>3
  <2> QED
    BY <2>1, <2>2
<1>11. ReadBody(body) = Closed(ReadFrames(Held', frames', TRUE))
  BY <1>5, <1>10, ClosesAlike
<1>12. Buffered'
  BY <1>1 DEF DeliveryInv, Buffered, Consumed
<1>13. OneLine'
  BY <1>1, <1>2, <1>10 DEF OneLine
<1>14. AtRest'
  BY <1>1, <1>2 DEF DeliveryInv, AtRest
<1>15. InStepAtEnd'
  BY <1>1, <1>2, <1>11 DEF InStepAtEnd
<1>16. InStep' /\ Settled'
  BY <1>1, <1>2 DEF InStep, Settled
<1> QED
  BY <1>12, <1>13, <1>14, <1>15, <1>16 DEF DeliveryInv

\* The body fails: the error follows what has been read.
LEMMA BodyErrorDelivers ==
  ASSUME SseInv, DeliveryInv, BodyError PROVE DeliveryInv'
<1> DEFINE x == [type |-> "transport"]
<1>1. /\ pc = "idle" /\ yielded' = Append(yielded, x) /\ pc' = "done"
      /\ UNCHANGED <<body, upto, eof, fed, line_buffer, search_from, bom_checked, event_name,
                     event_data, data_lines, frames, dispatches, error, state>>
  BY DEF BodyError, input, lineVars, eventVars
<1>2. state = "active" /\ ~eof /\ yielded \in Seq(Yields)
  BY <1>1 DEF SseInv, Flow, TypeOK
<1>3. ReadLines(body).out = yielded
  BY <1>1, <1>2, IdleIs
<1>4. x \in Yields /\ x.type = "transport"
  BY DEF Yields
<1> HIDE DEF x
<1>5. yielded' # <<>> /\ Last(yielded').type = "transport"
  BY <1>1, <1>2, <1>4, OneMore
<1>6. Settled'
  BY <1>1, <1>3, <1>5 DEF Settled, DeliveryIgnoresChunks, x
<1>7. Buffered'
  BY <1>1 DEF DeliveryInv, Buffered, Consumed
<1>8. OneLine'
  BY <1>1 DEF DeliveryInv, OneLine
<1>9. AtRest'
  BY <1>1, <1>2 DEF DeliveryInv, AtRest
<1>10. InStep' /\ InStepAtEnd'
  BY <1>1 DEF InStep, InStepAtEnd
<1> QED
  BY <1>6, <1>7, <1>8, <1>9, <1>10 DEF DeliveryInv

\* A step that leaves the stream alone.
LEMMA DeliveryStutters == ASSUME DeliveryInv, UNCHANGED vars PROVE DeliveryInv'
<1>1. UNCHANGED <<body, upto, eof, fed, pc, line_buffer, search_from, bom_checked,
                  event_name, event_data, data_lines, frames, dispatches, error, state,
                  yielded>>
  BY DEF vars, input, lineVars, eventVars
<1>2. Consumed' = Consumed /\ Held' = Held
  BY <1>1 DEF Consumed, Held
<1>3. Buffered' /\ OneLine' /\ AtRest'
  BY <1>1, <1>2 DEF DeliveryInv, Buffered, OneLine, AtRest
<1>4. InStep' /\ InStepAtEnd'
  BY <1>1, <1>2 DEF DeliveryInv, InStep, InStepAtEnd
<1>5. Settled'
  BY <1>1 DEF DeliveryInv, Settled, DeliveryIgnoresChunks
<1> QED
  BY <1>3, <1>4, <1>5 DEF DeliveryInv

\* In every reachable state the buffer is the body from a line start on, and what
\* the stream has delivered and the decoder holds is the reading of the body up
\* to there.
THEOREM DeliveryInvariance == Spec => []DeliveryInv
<1>1. SseInv /\ SseInv' /\ DeliveryInv /\ [Next]_vars => DeliveryInv'
  BY ReceiveDelivers, NextPieceDelivers, FeedNextDelivers, DrainsOn, DrainsLast,
     NoLineDelivers, CheckLimitDelivers, ClassifyFramesDelivers, DeliverNextDelivers,
     FinishBodyDelivers, LeftoverDelivers, FlushEventDelivers, BodyErrorDelivers,
     DeliveryStutters DEF Next
<1> QED
  BY <1>1, DeliveryInit, SseInvariance, PTL DEF Spec

\* For every limit, every slice size and every body, and however the network cuts
\* it into chunks, the consumer of the stream gets what the body read as a whole
\* gives.
THEOREM DeliveryIsOfTheBody == Spec => []DeliveryIgnoresChunks
<1>1. SseInv /\ DeliveryInv => DeliveryIgnoresChunks
  <2> SUFFICES ASSUME SseInv, DeliveryInv PROVE DeliveryIgnoresChunks
    OBVIOUS
  <2>1. CASE pc = "idle"
    <3>1. state = "active" /\ ~eof
      BY <2>1 DEF SseInv, Flow
    <3> QED
      BY <2>1, <3>1, IdleIs DEF DeliveryIgnoresChunks
  <2>2. CASE pc = "done"
    BY <2>2 DEF DeliveryInv, Settled
  <2>3. CASE pc # "idle" /\ pc # "done"
    BY <2>3 DEF DeliveryIgnoresChunks
  <2> QED
    BY <2>1, <2>2, <2>3
<1> QED
  BY <1>1, SseInvariance, DeliveryInvariance, PTL
=============================================================================
