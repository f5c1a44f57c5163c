---------------------------- MODULE StreamProofs ----------------------------
(***************************************************************************)
(* The translated stream is a well-formed Anthropic message and the tally  *)
(* agrees with it, for every set of tool calls, every kind of frame and    *)
(* streams of any length.                                                  *)
(*                                                                         *)
(* WellFramed speaks of the events on the socket only, so it is not        *)
(* inductive: what keeps it is how the translator's fields stand to them.  *)
(* Framed says so for a translator t and the events o it has emitted:      *)
(* every index below nextIndex was started, in order, and is stopped       *)
(* exactly when no field of t holds it any more.                           *)
(***************************************************************************)
EXTENDS Stream, SumProofs

At(o, ev, i) == {k \in DOMAIN o : o[k] = sseEvent(ev, i)}

\* The events of one block: started once and first, stopped at most once and last.
Block(o, i) ==
  LET Starts == At(o, "content_block_start", i)
      Deltas == At(o, "content_block_delta", i)
      Stops  == At(o, "content_block_stop", i) IN
  /\ \E k \in Starts : Starts = {k}
  /\ \A k \in Starts, d \in Deltas \cup Stops : k < d
  /\ \A s \in Stops : Stops = {s} /\ \A d \in Deltas : d < s

Running(o, i) == Block(o, i) /\ At(o, "content_block_stop", i) = {}
Stopped(o, i) == Block(o, i) /\ At(o, "content_block_stop", i) # {}

\* The blocks the translator can still write into.
Tools(t) == {t.toolBlocks[c] : c \in ToolCalls} \ {Absent}
Open(t) == Tools(t) \cup ({t.textIndex} \ {Absent})

Apart(t) ==
  /\ t.textIndex \notin Tools(t)
  /\ \A c, d \in ToolCalls : t.toolBlocks[c] = t.toolBlocks[d] => c = d \/ t.toolBlocks[c] = Absent

InStartOrder(o) ==
  \A j, k \in DOMAIN o :
    o[j].ev = "content_block_start" /\ o[k].ev = "content_block_start" /\ o[j].idx < o[k].idx => j < k

Envelope(t, o) ==
  /\ (t.started => o # <<>>) /\ (~t.started => o = <<>>)
  /\ \A k \in DOMAIN o : /\ o[k].ev = "message_start" <=> k = 1
                         /\ o[k].ev \notin {"message_delta", "message_stop"}
                         /\ o[k].idx < t.nextIndex

Framed(t, o) ==
  /\ t \in Translator /\ o \in Seq(Event)
  /\ Envelope(t, o) /\ InStartOrder(o) /\ Apart(t)
  /\ \A i \in Open(t) : i < t.nextIndex
  /\ \A i \in 0..(t.nextIndex - 1) : IF i \in Open(t) THEN Running(o, i) ELSE Stopped(o, i)

\* The inductive invariant.
Inv ==
  /\ TypeOK /\ WellFramed /\ SameAnswer
  /\ lost => tally.dropped
  /\ ending = "open" => Framed(tr, out)
----------------------------------------------------------------------------
(* One more event.                                                         *)

\* What an event appended to the socket changes of the positions.
LEMMA AtAppend ==
  ASSUME NEW o \in Seq(Event), NEW e \in Event, NEW ev, NEW i
  PROVE  At(Append(o, e), ev, i) = IF e = sseEvent(ev, i) THEN At(o, ev, i) \cup {Len(o) + 1} ELSE At(o, ev, i)
<1>1. /\ Append(o, e) \in Seq(Event) /\ Len(o) \in Nat
      /\ DOMAIN o = 1..Len(o) /\ DOMAIN Append(o, e) = 1..(Len(o) + 1)
      /\ \A k \in 1..Len(o) : Append(o, e)[k] = o[k]
      /\ Append(o, e)[Len(o) + 1] = e
  OBVIOUS
<1> QED
  BY <1>1 DEF At

\* Positions are positions.
LEMMA AtType == ASSUME NEW o \in Seq(Event), NEW ev, NEW i PROVE At(o, ev, i) \subseteq 1..Len(o)
  BY DEF At

\* An event of another block leaves this one as it was.
LEMMA BlockKept ==
  ASSUME NEW o \in Seq(Event), NEW e \in Event, NEW i, e.idx # i
  PROVE  (Running(o, i) => Running(Append(o, e), i)) /\ (Stopped(o, i) => Stopped(Append(o, e), i))
<1>1. \A ev : At(Append(o, e), ev, i) = At(o, ev, i)
  BY AtAppend DEF sseEvent
<1> QED
  BY <1>1 DEF Running, Stopped, Block

\* A block begins with its start.
LEMMA BlockStarts ==
  ASSUME NEW o \in Seq(Event), NEW i \in Nat, \A k \in DOMAIN o : o[k].idx # i
  PROVE  Running(Append(o, sseEvent("content_block_start", i)), i)
<1> DEFINE e == sseEvent("content_block_start", i)
<1>1. e \in Event /\ e # sseEvent("content_block_delta", i) /\ e # sseEvent("content_block_stop", i)
  BY DEF Event, sseEvent
<1>2. \A ev : At(o, ev, i) = {}
  BY DEF At, sseEvent
<1>3. /\ At(Append(o, e), "content_block_start", i) = {Len(o) + 1}
      /\ At(Append(o, e), "content_block_delta", i) = {} /\ At(Append(o, e), "content_block_stop", i) = {}
  BY <1>1, <1>2, AtAppend
<1> QED
  BY <1>3 DEF Running, Block

\* A delta goes into a running block.
LEMMA BlockGoesOn ==
  ASSUME NEW o \in Seq(Event), NEW i \in Nat, Running(o, i)
  PROVE  Running(Append(o, sseEvent("content_block_delta", i)), i)
<1> DEFINE e == sseEvent("content_block_delta", i)
<1>1. e \in Event /\ e # sseEvent("content_block_start", i) /\ e # sseEvent("content_block_stop", i)
  BY DEF Event, sseEvent
<1>2. /\ At(Append(o, e), "content_block_start", i) = At(o, "content_block_start", i)
      /\ At(Append(o, e), "content_block_delta", i) = At(o, "content_block_delta", i) \cup {Len(o) + 1}
      /\ At(Append(o, e), "content_block_stop", i) = At(o, "content_block_stop", i)
  BY <1>1, AtAppend
<1>3. At(o, "content_block_start", i) \subseteq 1..Len(o) /\ Len(o) \in Nat
  BY AtType
<1> QED
  BY <1>2, <1>3 DEF Running, Block

\* A stop ends it.
LEMMA BlockStops ==
  ASSUME NEW o \in Seq(Event), NEW i \in Nat, Running(o, i)
  PROVE  Stopped(Append(o, sseEvent("content_block_stop", i)), i)
<1> DEFINE e == sseEvent("content_block_stop", i)
<1>1. e \in Event /\ e # sseEvent("content_block_start", i) /\ e # sseEvent("content_block_delta", i)
  BY DEF Event, sseEvent
<1>2. /\ At(Append(o, e), "content_block_start", i) = At(o, "content_block_start", i)
      /\ At(Append(o, e), "content_block_delta", i) = At(o, "content_block_delta", i)
      /\ At(Append(o, e), "content_block_stop", i) = At(o, "content_block_stop", i) \cup {Len(o) + 1}
  BY <1>1, AtAppend
<1>3. /\ At(o, "content_block_start", i) \subseteq 1..Len(o) /\ Len(o) \in Nat
      /\ At(o, "content_block_delta", i) \subseteq 1..Len(o)
  BY AtType
<1> QED
  BY <1>2, <1>3 DEF Running, Stopped, Block

----------------------------------------------------------------------------
(* What the translator emits keeps Framed.                                 *)

\* Only the fields that hold indices matter.
LEMMA SameBlocks ==
  ASSUME NEW t, NEW o, Framed(t, o), NEW u \in Translator,
         u.started = t.started, u.textIndex = t.textIndex, u.nextIndex = t.nextIndex, u.toolBlocks = t.toolBlocks
  PROVE  Framed(u, o) /\ Open(u) = Open(t)
<1>1. Open(u) = Open(t) /\ (Apart(t) => Apart(u)) /\ (Envelope(t, o) => Envelope(u, o))
  BY DEF Open, Tools, Apart, Envelope
<1> QED
  BY <1>1 DEF Framed

\* What appending e does to the parts of Framed that are about all events.
LEMMA EnvelopeKept ==
  ASSUME NEW t \in Translator, NEW o \in Seq(Event), Envelope(t, o), InStartOrder(o), t.started,
         NEW e \in Event, e.ev \in {"content_block_start", "content_block_delta", "content_block_stop", "error"},
         NEW u \in Translator, u.started, t.nextIndex <= u.nextIndex, e.idx < u.nextIndex,
         e.ev = "content_block_start" => e.idx = t.nextIndex
  PROVE  Append(o, e) \in Seq(Event) /\ Envelope(u, Append(o, e)) /\ InStartOrder(Append(o, e))
<1>1. /\ Append(o, e) \in Seq(Event) /\ Len(o) \in Nat
      /\ DOMAIN o = 1..Len(o) /\ DOMAIN Append(o, e) = 1..(Len(o) + 1)
      /\ \A k \in 1..Len(o) : Append(o, e)[k] = o[k] /\ o[k] \in Event
      /\ Append(o, e)[Len(o) + 1] = e
  OBVIOUS
<1>2. t.nextIndex \in Nat /\ u.nextIndex \in Nat /\ Len(o) > 0
  BY DEF Translator, Envelope
<1>3. \A k \in 1..Len(o) : o[k].idx \in Int /\ o[k].idx < t.nextIndex
  BY <1>1 DEF Envelope, Event, Absent
<1>4. Envelope(u, Append(o, e))
  BY <1>1, <1>2, <1>3 DEF Envelope, Event, Absent
<1>5. InStartOrder(Append(o, e))
  BY <1>1, <1>2, <1>3 DEF InStartOrder, Event, Absent
<1> QED
  BY <1>1, <1>4, <1>5

\* begin(): the message starts.
LEMMA FramedBegins ==
  ASSUME NEW t, NEW o, Framed(t, o), ~t.started, NEW u \in Translator, u.started,
         u.textIndex = t.textIndex, u.nextIndex = t.nextIndex, u.toolBlocks = t.toolBlocks
  PROVE  Framed(u, Append(o, sseEvent("message_start", Absent)))
<1> DEFINE e == sseEvent("message_start", Absent)
           p == Append(o, e)
<1>1. t \in Translator /\ o = <<>> /\ e \in Event /\ e.ev = "message_start" /\ e.idx = Absent
  BY DEF Framed, Envelope, Event, sseEvent
<1>2. p \in Seq(Event) /\ DOMAIN p = {1} /\ p[1] = e /\ p # <<>>
  <2>1. p = <<e>>
    BY <1>1
  <2> QED
    BY <1>1, <2>1
<1>3. t.nextIndex = 0
  <2> SUFFICES ASSUME t.nextIndex # 0 PROVE FALSE
    OBVIOUS
  <2>1. 0 \in 0..(t.nextIndex - 1)
    BY <1>1 DEF Translator
  <2>2. Block(o, 0)
    BY <2>1 DEF Framed, Running, Stopped
  <2> QED
    BY <1>1, <2>2 DEF Block, At
<1>4. Open(u) = Open(t) /\ Apart(u)
  BY DEF Open, Tools, Apart, Framed
<1>5. Envelope(u, p) /\ InStartOrder(p)
  BY <1>1, <1>2, <1>3 DEF Envelope, InStartOrder, Absent
<1> QED
  BY <1>2, <1>3, <1>4, <1>5 DEF Framed

\* A block is opened at nextIndex.
LEMMA FramedOpens ==
  ASSUME NEW t, NEW o, Framed(t, o), t.started, NEW u \in Translator, u.started,
         u.nextIndex = t.nextIndex + 1, Open(u) = Open(t) \cup {t.nextIndex}, Apart(u)
  PROVE  Framed(u, Append(o, sseEvent("content_block_start", t.nextIndex)))
<1> DEFINE n == t.nextIndex
           e == sseEvent("content_block_start", n)
           p == Append(o, e)
<1>1. t \in Translator /\ o \in Seq(Event) /\ n \in Nat
  BY DEF Framed, Translator
<1>2. e \in Event /\ e.ev = "content_block_start" /\ e.idx = n
  BY <1>1 DEF Event, sseEvent
<1>3. p \in Seq(Event) /\ Envelope(u, p) /\ InStartOrder(p)
  BY <1>1, <1>2, EnvelopeKept DEF Framed
<1>4. Running(p, n)
  <2>1. \A k \in DOMAIN o : o[k].idx # n
    BY <1>1 DEF Framed, Envelope
  <2> QED
    BY <1>1, <2>1, BlockStarts
<1>5. ASSUME NEW i \in 0..(u.nextIndex - 1) PROVE IF i \in Open(u) THEN Running(p, i) ELSE Stopped(p, i)
  <2>1. CASE i = n
    BY <1>4, <2>1
  <2>2. CASE i # n
    <3>1. i \in 0..(t.nextIndex - 1) /\ (i \in Open(u) <=> i \in Open(t))
      BY <1>1, <2>2
    <3>2. IF i \in Open(t) THEN Running(o, i) ELSE Stopped(o, i)
      BY <3>1 DEF Framed
    <3>3. (Running(o, i) => Running(p, i)) /\ (Stopped(o, i) => Stopped(p, i))
      BY <1>1, <1>2, <2>2, BlockKept
    <3> QED
      BY <3>1, <3>2, <3>3
  <2> QED
    BY <2>1, <2>2
<1>6. \A i \in Open(u) : i < u.nextIndex
  <2>1. ASSUME NEW i \in Open(t) PROVE i < t.nextIndex /\ i \in Nat
    BY <1>1 DEF Framed, Open, Tools, Translator
  <2> QED
    BY <1>1, <2>1
<1> QED
  BY <1>3, <1>5, <1>6 DEF Framed

\* A delta for a block that is open.
LEMMA FramedGoesOn ==
  ASSUME NEW t, NEW o, Framed(t, o), t.started, NEW i \in Open(t)
  PROVE  Framed(t, Append(o, sseEvent("content_block_delta", i)))
<1> DEFINE e == sseEvent("content_block_delta", i)
           p == Append(o, e)
<1>1. t \in Translator /\ o \in Seq(Event) /\ t.nextIndex \in Nat /\ i \in Nat /\ i < t.nextIndex
  BY DEF Framed, Translator, Open, Tools
<1>2. e \in Event /\ e.ev = "content_block_delta" /\ e.idx = i
  BY <1>1 DEF Event, sseEvent
<1>3. p \in Seq(Event) /\ Envelope(t, p) /\ InStartOrder(p)
  BY <1>1, <1>2, EnvelopeKept DEF Framed
<1>4. Running(p, i)
  BY <1>1, BlockGoesOn DEF Framed
<1>5. ASSUME NEW j \in 0..(t.nextIndex - 1) PROVE IF j \in Open(t) THEN Running(p, j) ELSE Stopped(p, j)
  <2>1. IF j \in Open(t) THEN Running(o, j) ELSE Stopped(o, j)
    BY DEF Framed
  <2>2. j # i => (Running(o, j) => Running(p, j)) /\ (Stopped(o, j) => Stopped(p, j))
    BY <1>1, <1>2, BlockKept
  <2> QED
    BY <1>4, <2>1, <2>2
<1> QED
  BY <1>3, <1>5 DEF Framed

\* An error event belongs to no block.
LEMMA FramedFails ==
  ASSUME NEW t, NEW o, Framed(t, o), t.started
  PROVE  Framed(t, Append(o, sseEvent("error", Absent)))
<1> DEFINE e == sseEvent("error", Absent)
           p == Append(o, e)
<1>1. t \in Translator /\ o \in Seq(Event) /\ t.nextIndex \in Nat
  BY DEF Framed, Translator
<1>2. e \in Event /\ e.ev = "error" /\ e.idx = Absent /\ Absent < t.nextIndex
  BY <1>1 DEF Event, sseEvent, Absent
<1>3. p \in Seq(Event) /\ Envelope(t, p) /\ InStartOrder(p)
  BY <1>1, <1>2, EnvelopeKept DEF Framed
<1>4. ASSUME NEW j \in 0..(t.nextIndex - 1) PROVE IF j \in Open(t) THEN Running(p, j) ELSE Stopped(p, j)
  <2>1. IF j \in Open(t) THEN Running(o, j) ELSE Stopped(o, j)
    BY DEF Framed
  <2>2. (Running(o, j) => Running(p, j)) /\ (Stopped(o, j) => Stopped(p, j))
    BY <1>1, <1>2, BlockKept DEF Absent
  <2> QED
    BY <2>1, <2>2
<1> QED
  BY <1>3, <1>4 DEF Framed

\* The text block is stopped and no longer held.
LEMMA FramedStops ==
  ASSUME NEW t, NEW o, Framed(t, o), t.started, t.textIndex # Absent, NEW u \in Translator, u.started,
         u.textIndex = Absent, u.nextIndex = t.nextIndex, u.toolBlocks = t.toolBlocks
  PROVE  Framed(u, Append(o, sseEvent("content_block_stop", t.textIndex))) /\ Open(u) = Tools(t)
<1> DEFINE i == t.textIndex
           e == sseEvent("content_block_stop", i)
           p == Append(o, e)
<1>1. /\ t \in Translator /\ o \in Seq(Event) /\ t.nextIndex \in Nat /\ i \in Nat /\ i < t.nextIndex
      /\ i \in Open(t) /\ Tools(u) = Tools(t) /\ Open(u) = Tools(t) /\ Open(t) = Tools(t) \cup {i} /\ i \notin Tools(t)
  BY DEF Framed, Translator, Open, Tools, Apart
<1>2. e \in Event /\ e.ev = "content_block_stop" /\ e.idx = i
  BY <1>1 DEF Event, sseEvent
<1>3. p \in Seq(Event) /\ Envelope(u, p) /\ InStartOrder(p)
  BY <1>1, <1>2, EnvelopeKept DEF Framed
<1>4. Stopped(p, i)
  BY <1>1, BlockStops DEF Framed
<1>5. ASSUME NEW j \in 0..(u.nextIndex - 1) PROVE IF j \in Open(u) THEN Running(p, j) ELSE Stopped(p, j)
  <2>1. IF j \in Open(t) THEN Running(o, j) ELSE Stopped(o, j)
    BY DEF Framed
  <2>2. j # i => (Running(o, j) => Running(p, j)) /\ (Stopped(o, j) => Stopped(p, j))
    BY <1>1, <1>2, BlockKept
  <2> QED
    BY <1>1, <1>4, <2>1, <2>2
<1>6. Apart(u)
  BY <1>1 DEF Framed, Apart, Tools
<1>7. \A j \in Open(u) : j < u.nextIndex
  BY <1>1 DEF Framed
<1> QED
  BY <1>1, <1>3, <1>5, <1>6, <1>7 DEF Framed

----------------------------------------------------------------------------
(* The translator's operations, one by one.                                *)

State == [t : Translator, out : Seq(Event)]

Ok(s) == s \in State /\ Framed(s.t, s.out)

\* What an operation leaves of the figures that are billed.
SameFigures(s, u) == u.t.content = s.t.content /\ u.t.usage = s.t.usage

\* Emit writes to the socket and nowhere else.
LEMMA EmitIs ==
  ASSUME NEW s, DOMAIN s = {"t", "out"}, NEW ev, NEW i
  PROVE  /\ Emit(s, ev, i) = [t |-> s.t, out |-> Append(s.out, sseEvent(ev, i))]
         /\ Emit(s, ev, i).t = s.t /\ Emit(s, ev, i).out = Append(s.out, sseEvent(ev, i))
<1>1. Emit(s, ev, i) = [s EXCEPT !.out = Append(s.out, sseEvent(ev, i))]
  BY DEF Emit
<1> QED
  BY <1>1

\* A state of the translator put together from its parts.
LEMMA OkParts ==
  ASSUME NEW t, NEW o, Framed(t, o)
  PROVE  Ok([t |-> t, out |-> o])
  BY DEF Ok, State, Framed

\* A pair of a translator and its events, and one whose translator is replaced.
LEMMA Parts == ASSUME NEW x, NEW a, NEW b, x \in [t : {a}, out : {b}] PROVE x = [t |-> a, out |-> b]
  OBVIOUS

LEMMA PutT ==
  ASSUME NEW s, DOMAIN s = {"t", "out"}, NEW u
  PROVE  [s EXCEPT !.t = u] = [t |-> u, out |-> s.out]
<1>1. [s EXCEPT !.t = u] \in [t : {u}, out : {s.out}]
  OBVIOUS
<1> QED
  BY <1>1, Parts

\* begin() starts the message once.
LEMMA BeginOk ==
  ASSUME NEW s, Ok(s)
  PROVE  Ok(begin(s)) /\ begin(s).t.started /\ SameFigures(s, begin(s))
<1>0. s \in State /\ s.t \in Translator /\ DOMAIN s = {"t", "out"}
  BY DEF Ok, State
<1>1. CASE s.t.started
  BY <1>1 DEF begin, SameFigures
<1>2. CASE ~s.t.started
  <2>1. PICK u : u = [s.t EXCEPT !.started = TRUE]
    OBVIOUS
  <2>2. /\ u \in Translator /\ u.started /\ u.textIndex = s.t.textIndex /\ u.nextIndex = s.t.nextIndex
        /\ u.toolBlocks = s.t.toolBlocks /\ u.content = s.t.content /\ u.usage = s.t.usage
    BY <1>0, <2>1 DEF Translator
  <2>3. [s EXCEPT !.t.started = TRUE] = [t |-> u, out |-> s.out]
    <3>1. [s EXCEPT !.t.started = TRUE] = [s EXCEPT !.t = u]
      BY <2>1
    <3> QED
      BY <1>0, <3>1, PutT
  <2>o. PICK o : o = Append(s.out, sseEvent("message_start", Absent))
    OBVIOUS
  <2>4. begin(s) = [t |-> u, out |-> o]
    <3>1. PICK q : q = [t |-> u, out |-> s.out]
      OBVIOUS
    <3>2. begin(s) = Emit(q, "message_start", Absent)
      BY <1>2, <2>3, <3>1 DEF begin
    <3>3. DOMAIN q = {"t", "out"} /\ q.t = u /\ q.out = s.out
      BY <3>1
    <3> QED
      BY <2>o, <3>2, <3>3, EmitIs
  <2>5. Framed(u, o)
    BY <1>2, <2>2, <2>o, FramedBegins DEF Ok
  <2>6. Ok(begin(s)) /\ begin(s).t = u
    BY <2>4, <2>5, OkParts
  <2> QED
    BY <2>2, <2>6 DEF SameFigures
<1> QED
  BY <1>1, <1>2

\* closeText() stops the open text block, if there is one.
LEMMA CloseTextOk ==
  ASSUME NEW s, Ok(s), s.t.started
  PROVE  /\ Ok(closeText(s)) /\ closeText(s).t.started /\ SameFigures(s, closeText(s))
         /\ closeText(s).t.textIndex = Absent /\ closeText(s).t.nextIndex = s.t.nextIndex
         /\ closeText(s).t.toolBlocks = s.t.toolBlocks
<1>0. s \in State /\ s.t \in Translator /\ DOMAIN s = {"t", "out"}
  BY DEF Ok, State
<1>1. CASE s.t.textIndex = Absent
  BY <1>1 DEF closeText, SameFigures
<1>2. CASE s.t.textIndex # Absent
  <2>1. PICK u : u = [s.t EXCEPT !.textIndex = Absent]
    OBVIOUS
  <2>2. /\ u \in Translator /\ u.started /\ u.textIndex = Absent /\ u.nextIndex = s.t.nextIndex
        /\ u.toolBlocks = s.t.toolBlocks /\ u.content = s.t.content /\ u.usage = s.t.usage
    BY <1>0, <2>1 DEF Translator
  <2>3. PICK o : o = Append(s.out, sseEvent("content_block_stop", s.t.textIndex))
    OBVIOUS
  <2>4. PICK e : e = Emit(s, "content_block_stop", s.t.textIndex)
    OBVIOUS
  <2>5. closeText(s) = [t |-> u, out |-> o]
    <3>1. e.t = s.t /\ e.out = o /\ DOMAIN e = {"t", "out"}
      BY <1>0, <2>3, <2>4, EmitIs
    <3>2. closeText(s) = [e EXCEPT !.t.textIndex = Absent]
      BY <1>2, <2>4 DEF closeText
    <3>3. closeText(s) = [e EXCEPT !.t = u]
      BY <2>1, <3>1, <3>2
    <3> QED
      BY <3>1, <3>3, PutT
  <2>6. Framed(u, o)
    BY <1>2, <2>2, <2>3, FramedStops DEF Ok
  <2> QED
    BY <2>2, <2>5, <2>6, OkParts DEF SameFigures
<1> QED
  BY <1>1, <1>2

\* Text goes into the open text block, or a new one.
LEMMA TextRunOk ==
  ASSUME NEW s, Ok(s), s.t.started, NEW f, f.text \in BOOLEAN
  PROVE  /\ Ok(textRun(s, f)) /\ textRun(s, f).t.started /\ textRun(s, f).t.usage = s.t.usage
         /\ textRun(s, f).t.content = IF f.text THEN s.t.content + 1 ELSE s.t.content
<1>0. s \in State /\ s.t \in Translator /\ DOMAIN s = {"t", "out"}
  BY DEF Ok, State
<1> DEFINE opened == IF s.t.textIndex # Absent THEN s
                     ELSE [Emit(s, "content_block_start", s.t.nextIndex)
                             EXCEPT !.t.textIndex = s.t.nextIndex, !.t.nextIndex = @ + 1]
<1>1. PICK q : q = opened
  OBVIOUS
<1>2. Ok(q) /\ q.t.started /\ SameFigures(s, q) /\ q.t.textIndex \in Open(q.t)
  <2>1. CASE s.t.textIndex # Absent
    BY <1>1, <2>1 DEF SameFigures, Open
  <2>2. CASE s.t.textIndex = Absent
    <3>1. PICK u : u = [s.t EXCEPT !.textIndex = s.t.nextIndex, !.nextIndex = @ + 1]
      OBVIOUS
    <3>2. /\ u \in Translator /\ u.started /\ u.textIndex = s.t.nextIndex /\ u.nextIndex = s.t.nextIndex + 1
          /\ u.toolBlocks = s.t.toolBlocks /\ u.content = s.t.content /\ u.usage = s.t.usage
          /\ s.t.nextIndex \in Nat
      <4>1. PICK v : v = [s.t EXCEPT !.textIndex = s.t.nextIndex]
        OBVIOUS
      <4>2. v \in Translator /\ s.t.nextIndex \in Nat /\ v.nextIndex = s.t.nextIndex
        BY <1>0, <4>1 DEF Translator
      <4>3. u = [v EXCEPT !.nextIndex = v.nextIndex + 1]
        BY <3>1, <4>1
      <4>4. u \in Translator
        BY <4>2, <4>3 DEF Translator
      <4> QED
        BY <1>0, <3>1, <4>2, <4>4 DEF Translator
    <3>3. PICK o : o = Append(s.out, sseEvent("content_block_start", s.t.nextIndex))
      OBVIOUS
    <3>4. PICK e : e = Emit(s, "content_block_start", s.t.nextIndex)
      OBVIOUS
    <3>5. q = [t |-> u, out |-> o]
      <4>1. e.t = s.t /\ e.out = o /\ DOMAIN e = {"t", "out"}
        BY <1>0, <3>3, <3>4, EmitIs
      <4>2. q = [e EXCEPT !.t.textIndex = s.t.nextIndex, !.t.nextIndex = @ + 1]
        BY <1>1, <2>2, <3>4
      <4>3. q = [e EXCEPT !.t = u]
        BY <3>1, <4>1, <4>2
      <4> QED
        BY <4>1, <4>3, PutT
    <3>6. Tools(u) = Tools(s.t) /\ Open(s.t) = Tools(s.t) /\ Open(u) = Tools(s.t) \cup {s.t.nextIndex}
      BY <2>2, <3>2 DEF Open, Tools, Absent
    <3>7. s.t.nextIndex \notin Tools(s.t)
      BY <3>2, <3>6 DEF Ok, Framed
    <3>8. Apart(u)
      BY <3>2, <3>6, <3>7 DEF Ok, Framed, Apart
    <3>9. Framed(u, o)
      BY <3>2, <3>3, <3>6, <3>8, FramedOpens DEF Ok
    <3> QED
      BY <3>2, <3>5, <3>6, <3>9, OkParts DEF SameFigures
  <2> QED
    BY <2>1, <2>2
<1>3. CASE ~f.text
  BY <1>3 DEF textRun
<1>4. CASE f.text
  <2>1. DOMAIN q = {"t", "out"} /\ q.t \in Translator /\ q.t.content = s.t.content /\ q.t.usage = s.t.usage
    BY <1>2 DEF Ok, State, SameFigures
  <2>2. PICK u : u = [q.t EXCEPT !.content = @ + 1]
    OBVIOUS
  <2>3. /\ u \in Translator /\ u.started = q.t.started /\ u.textIndex = q.t.textIndex /\ u.nextIndex = q.t.nextIndex
        /\ u.toolBlocks = q.t.toolBlocks /\ u.content = q.t.content + 1 /\ u.usage = q.t.usage
    BY <2>1, <2>2 DEF Translator
  <2>4. PICK o : o = Append(q.out, sseEvent("content_block_delta", q.t.textIndex))
    OBVIOUS
  <2>5. textRun(s, f) = [Emit(q, "content_block_delta", q.t.textIndex) EXCEPT !.t.content = @ + 1]
    BY <1>1, <1>4 DEF textRun
  <2>6. PICK e : e = Emit(q, "content_block_delta", q.t.textIndex)
    OBVIOUS
  <2>7. textRun(s, f) = [t |-> u, out |-> o]
    <3>1. e.t = q.t /\ e.out = o /\ DOMAIN e = {"t", "out"}
      BY <2>1, <2>4, <2>6, EmitIs
    <3>2. textRun(s, f) = [e EXCEPT !.t.content = @ + 1]
      BY <2>5, <2>6
    <3>3. textRun(s, f) = [e EXCEPT !.t = u]
      BY <2>2, <3>1, <3>2
    <3> QED
      BY <3>1, <3>3, PutT
  <2>8. Framed(q.t, o)
    BY <1>2, <2>4, FramedGoesOn DEF Ok
  <2>9. Framed(u, o)
    BY <2>3, <2>8, SameBlocks
  <2>10. Ok(textRun(s, f)) /\ textRun(s, f).t = u
    BY <2>7, <2>9, OkParts
  <2> QED
    BY <1>2, <1>4, <2>1, <2>3, <2>10
<1> QED
  BY <1>3, <1>4

\* A tool call's fragments go into the block of their index, which is opened after the open text
\* block was stopped.
LEMMA ToolCallOk ==
  ASSUME NEW s, Ok(s), s.t.started, NEW f, f.tool \in ToolCalls \cup {NoTool}, f.args \in BOOLEAN
  PROVE  Ok(toolCall(s, f)) /\ toolCall(s, f).t.started /\ SameFigures(s, toolCall(s, f))
<1>0. s \in State /\ s.t \in Translator /\ DOMAIN s = {"t", "out"}
  BY DEF Ok, State
<1>1. CASE f.tool = NoTool
  BY <1>1 DEF toolCall, SameFigures
<1>2. CASE f.tool # NoTool
  <2> DEFINE c == f.tool
             opened == IF s.t.toolBlocks[c] # Absent THEN s
                       ELSE [Emit(closeText(s), "content_block_start", s.t.nextIndex)
                               EXCEPT !.t.toolBlocks[c] = s.t.nextIndex, !.t.nextIndex = @ + 1]
  <2>0. c \in ToolCalls
    BY <1>2
  <2>1. PICK q : q = opened
    OBVIOUS
  <2>2. Ok(q) /\ q.t.started /\ SameFigures(s, q) /\ q.t.toolBlocks[c] \in Open(q.t)
    <3>1. CASE s.t.toolBlocks[c] # Absent
      BY <2>0, <2>1, <3>1 DEF SameFigures, Open, Tools
    <3>2. CASE s.t.toolBlocks[c] = Absent
      <4>1. PICK m : m = closeText(s)
        OBVIOUS
      <4>2. /\ Ok(m) /\ m.t.started /\ SameFigures(s, m)
            /\ m.t.textIndex = Absent /\ m.t.nextIndex = s.t.nextIndex /\ m.t.toolBlocks = s.t.toolBlocks
        BY <4>1, CloseTextOk
      <4>3. m \in State /\ m.t \in Translator /\ DOMAIN m = {"t", "out"} /\ Framed(m.t, m.out)
        BY <4>2 DEF Ok, State
      <4>4. PICK n, w : n = m.t.nextIndex /\ w = m.t
        OBVIOUS
      <4>5. PICK v : v = [w EXCEPT !.toolBlocks = [w.toolBlocks EXCEPT ![c] = n]]
        OBVIOUS
      <4>6. /\ v \in Translator /\ n \in Nat /\ v.nextIndex = n /\ v.toolBlocks = [w.toolBlocks EXCEPT ![c] = n]
            /\ w.toolBlocks \in [ToolCalls -> Nat \cup {Absent}]
        BY <2>0, <4>3, <4>4, <4>5 DEF Translator
      <4>7. PICK u : u = [v EXCEPT !.nextIndex = n + 1]
        OBVIOUS
      <4>8. /\ u \in Translator /\ u.started /\ u.nextIndex = n + 1 /\ u.textIndex = Absent
            /\ u.toolBlocks = [w.toolBlocks EXCEPT ![c] = n] /\ u.content = w.content /\ u.usage = w.usage
        <5>1. v.started = w.started /\ v.textIndex = w.textIndex /\ v.content = w.content /\ v.usage = w.usage
          BY <4>3, <4>4, <4>5 DEF Translator
        <5>2. /\ u \in Translator /\ u.started = v.started /\ u.nextIndex = n + 1 /\ u.textIndex = v.textIndex
              /\ u.toolBlocks = v.toolBlocks /\ u.content = v.content /\ u.usage = v.usage
          BY <4>6, <4>7 DEF Translator
        <5> QED
          BY <4>2, <4>4, <4>6, <5>1, <5>2
      <4>9. PICK o : o = Append(m.out, sseEvent("content_block_start", n))
        OBVIOUS
      <4>10. q = [t |-> u, out |-> o]
        <5>1. PICK e : e = Emit(m, "content_block_start", n)
          OBVIOUS
        <5>2. e.t = w /\ e.out = o /\ DOMAIN e = {"t", "out"}
          BY <4>3, <4>4, <4>9, <5>1, EmitIs
        <5>3. q = [e EXCEPT !.t.toolBlocks[c] = n, !.t.nextIndex = @ + 1]
          BY <2>1, <3>2, <4>1, <4>2, <4>4, <5>1
        <5>4. u = [w EXCEPT !.toolBlocks[c] = n, !.nextIndex = @ + 1]
          BY <4>4, <4>5, <4>6, <4>7
        <5>5. q = [e EXCEPT !.t = u]
          BY <5>2, <5>3, <5>4
        <5> QED
          BY <5>2, <5>5, PutT
      <4>11. Tools(u) = Tools(w) \cup {n} /\ Open(w) = Tools(w) /\ Open(u) = Tools(w) \cup {n} /\ n \notin Tools(w)
        <5>1. \A d \in ToolCalls : u.toolBlocks[d] = IF d = c THEN n ELSE w.toolBlocks[d]
          BY <2>0, <4>6, <4>8
        <5>2. w.toolBlocks[c] = Absent /\ n # Absent
          BY <3>2, <4>2, <4>4, <4>6 DEF Absent
        <5>3. Tools(u) = Tools(w) \cup {n}
          BY <2>0, <5>1, <5>2 DEF Tools
        <5>4. w.textIndex = Absent
          BY <4>2, <4>4
        <5>5. Open(w) = Tools(w) /\ Open(u) = Tools(u)
          BY <4>8, <5>4 DEF Open
        <5>6. n \notin Open(w)
          BY <4>3, <4>4, <4>6 DEF Framed
        <5> QED
          BY <5>3, <5>5, <5>6
      <4>12. Apart(u)
        <5>1. \A d \in ToolCalls : u.toolBlocks[d] = IF d = c THEN n ELSE w.toolBlocks[d]
          BY <2>0, <4>6, <4>8
        <5>2. \A d \in ToolCalls : w.toolBlocks[d] # n
          BY <4>6, <4>11 DEF Tools, Absent
        <5>3. Apart(w) /\ Absent \notin Tools(u)
          BY <4>3, <4>4 DEF Framed, Tools
        <5> QED
          BY <4>8, <5>1, <5>2, <5>3 DEF Apart
      <4>13. Framed(u, o)
        BY <4>2, <4>3, <4>4, <4>8, <4>9, <4>11, <4>12, FramedOpens
      <4>14. u.toolBlocks[c] = n
        BY <2>0, <4>6, <4>8
      <4>15. Ok(q) /\ q.t = u
        BY <4>10, <4>13, OkParts
      <4> QED
        BY <4>2, <4>4, <4>8, <4>11, <4>14, <4>15 DEF SameFigures
    <3> QED
      BY <3>1, <3>2
  <2>3. CASE ~f.args
    <3>1. toolCall(s, f) = q
      BY <1>2, <2>1, <2>3 DEF toolCall
    <3> QED
      BY <2>2, <3>1
  <2>4. CASE f.args
    <3>1. toolCall(s, f) = Emit(q, "content_block_delta", q.t.toolBlocks[c])
      BY <1>2, <2>1, <2>4 DEF toolCall
    <3>2. DOMAIN q = {"t", "out"}
      BY <2>2 DEF Ok, State
    <3>i. PICK i : i = q.t.toolBlocks[c]
      OBVIOUS
    <3>3. PICK o : o = Append(q.out, sseEvent("content_block_delta", i))
      OBVIOUS
    <3>4. Framed(q.t, o)
      BY <2>2, <3>i, <3>3, FramedGoesOn DEF Ok
    <3>5. toolCall(s, f) = [t |-> q.t, out |-> o]
      <4>1. Emit(q, "content_block_delta", i) = [t |-> q.t, out |-> Append(q.out, sseEvent("content_block_delta", i))]
        BY <3>2, EmitIs
      <4> QED
        BY <3>1, <3>i, <3>3, <4>1
    <3>6. Ok(toolCall(s, f)) /\ toolCall(s, f).t = q.t
      BY <3>4, <3>5, OkParts
    <3> QED
      BY <2>2, <3>6 DEF SameFigures
  <2> QED
    BY <2>3, <2>4
<1> QED
  BY <1>1, <1>2

----------------------------------------------------------------------------
(* The end of the stream.                                                  *)

Increasing(q, n) == \A j, k \in 1..n : j < k => q[j] < q[k]

\* A finite set of naturals can be listed in order.
LEMMA ListExists ==
  ASSUME NEW S, S \subseteq Nat, IsFiniteSet(S)
  PROVE  \E q \in [1..Cardinality(S) -> S] : Increasing(q, Cardinality(S))
<1> DEFINE Done == {n \in Nat : \A T \in SUBSET Nat :
                      IsFiniteSet(T) /\ Cardinality(T) = n => \E q \in [1..n -> T] : Increasing(q, n)}
<1>1. 0 \in Done
  <2>1. ASSUME NEW T PROVE \E q \in [1..0 -> T] : Increasing(q, 0)
    <3>1. 1..0 = {}
      OBVIOUS
    <3>2. [k \in 1..0 |-> 0] \in [1..0 -> T] /\ Increasing([k \in 1..0 |-> 0], 0)
      BY <3>1 DEF Increasing
    <3> QED
      BY <3>2
  <2> QED
    BY <2>1
<1>2. ASSUME NEW n \in Nat, n \in Done PROVE n + 1 \in Done
  <2> SUFFICES ASSUME NEW T \in SUBSET Nat, IsFiniteSet(T), Cardinality(T) = n + 1
               PROVE  \E q \in [1..(n + 1) -> T] : Increasing(q, n + 1)
    OBVIOUS
  <2>1. T # {}
    BY FS_EmptySet
  <2>2. PICK m \in T : \A x \in T : m <= x
    BY <2>1, LeastNat
  <2>3. IsFiniteSet(T \ {m}) /\ Cardinality(T \ {m}) = n /\ T \ {m} \in SUBSET Nat
    BY FS_RemoveElement
  <2>4. PICK q \in [1..n -> T \ {m}] : Increasing(q, n)
    BY <1>2, <2>3
  <2>5. PICK p : p = [k \in 1..(n + 1) |-> IF k = 1 THEN m ELSE q[k - 1]]
    OBVIOUS
  <2>6. ASSUME NEW k \in 1..(n + 1) PROVE (k = 1 => p[k] = m) /\ (k # 1 => k - 1 \in 1..n /\ p[k] = q[k - 1] /\ p[k] \in T \ {m})
    BY <2>5
  <2>7. p \in [1..(n + 1) -> T]
    BY <2>5, <2>6
  <2>8. ASSUME NEW j \in 1..(n + 1), NEW k \in 1..(n + 1), j < k PROVE p[j] < p[k]
    <3>1. k # 1
      BY <2>8
    <3>2. CASE j = 1
      <4>1. p[j] = m /\ p[k] \in T /\ p[k] # m /\ m <= p[k]
        BY <2>2, <2>6, <3>1, <3>2
      <4>2. p[k] \in Int /\ m \in Int
        <5>1. \A x \in T : x \in Int
          OBVIOUS
        <5> QED
          BY <4>1, <5>1, Zenon
      <4>3. \A a, b \in Int : a <= b /\ b # a => a < b
        OBVIOUS
      <4> QED
        BY <4>1, <4>2, <4>3, Zenon
    <3>3. CASE j # 1
      <4>1. p[j] = q[j - 1] /\ p[k] = q[k - 1] /\ j - 1 \in 1..n /\ k - 1 \in 1..n /\ j - 1 < k - 1
        BY <2>6, <2>8, <3>1, <3>3
      <4> QED
        BY <2>4, <4>1 DEF Increasing
    <3> QED
      BY <3>2, <3>3
  <2> QED
    BY <2>7, <2>8 DEF Increasing
<1>3. Nat \subseteq Done
  <2> HIDE DEF Done
  <2> QED
    BY <1>1, <1>2, SetInduction
<1>4. Cardinality(S) \in Nat
  BY FS_CardinalityType
<1> QED
  BY <1>3, <1>4

\* What the model's list of the open tool blocks is: each of them once.
LEMMA InOrderLists ==
  ASSUME NEW S, S \subseteq Nat, IsFiniteSet(S), NEW q, q = inOrder(S), NEW n, n = Cardinality(S)
  PROVE  /\ n \in Nat /\ q \in [1..n -> S]
         /\ \A j, k \in 1..n : q[j] = q[k] => j = k
         /\ \A i \in S : \E k \in 1..n : q[k] = i
<1>1. n \in Nat
  BY FS_CardinalityType
<1>2. \E p \in [1..n -> S] : \A j, k \in DOMAIN p : j < k => p[j] < p[k]
  <2>1. PICK p \in [1..n -> S] : Increasing(p, n)
    BY ListExists
  <2>2. DOMAIN p = 1..n
    OBVIOUS
  <2> QED
    BY <2>1, <2>2 DEF Increasing
<1>3. q \in [1..n -> S] /\ \A j, k \in DOMAIN q : j < k => q[j] < q[k]
  BY <1>2 DEF inOrder
<1>4. \A j, k \in 1..n : q[j] = q[k] => j = k
  <2> SUFFICES ASSUME NEW j \in 1..n, NEW k \in 1..n, q[j] = q[k], j # k PROVE FALSE
    OBVIOUS
  <2>1. q[j] \in Int
    <3>1. q[j] \in S /\ \A x \in S : x \in Int
      BY <1>3
    <3> QED
      BY <3>1, Zenon
  <2>2. j < k \/ k < j
    BY <1>1
  <2>3. q[j] < q[k] \/ q[k] < q[j]
    BY <1>3, <2>2
  <2>4. \A a \in Int : ~(a < a)
    OBVIOUS
  <2> QED
    BY <2>1, <2>3, <2>4, Zenon
<1>5. q \in Injection(1..n, S)
  BY <1>3, <1>4 DEF Injection, IsInjective
<1>6. Cardinality(1..n) = n
  BY <1>1, FS_Interval
<1>7. q \in Surjection(1..n, S)
  BY <1>5, <1>6, FS_Injection
<1> QED
  BY <1>1, <1>3, <1>4, <1>7 DEF Surjection

\* Every block below n has stopped and the terminal events have not come.
Closed(o, n) ==
  /\ o \in Seq(Event) /\ n \in Nat /\ o # <<>> /\ InStartOrder(o)
  /\ \A k \in DOMAIN o : /\ o[k].ev = "message_start" <=> k = 1
                         /\ o[k].ev \notin {"message_delta", "message_stop"}
                         /\ o[k].idx < n
  /\ \A i \in 0..(n - 1) : Stopped(o, i)

\* The stops of the tool blocks end what is still running.
LEMMA StopsClose ==
  ASSUME NEW t, NEW o, Framed(t, o), t.started, t.textIndex = Absent,
         NEW q, q = inOrder(Tools(t)),
         NEW stops, stops = [k \in DOMAIN q |-> sseEvent("content_block_stop", q[k])]
  PROVE  Closed(o \o stops, t.nextIndex)
<1> DEFINE n == t.nextIndex
           p == o \o stops
<1>1. /\ t \in Translator /\ o \in Seq(Event) /\ n \in Nat /\ Open(t) = Tools(t)
      /\ Tools(t) \subseteq Nat /\ (\A i \in Tools(t) : i < n) /\ Envelope(t, o) /\ InStartOrder(o)
  BY DEF Framed, Translator, Tools, Open
<1>2. IsFiniteSet(Tools(t))
  <2>1. \A i \in Tools(t) : i <= n
    BY <1>1
  <2> QED
    BY <1>1, <2>1, FS_BoundedSetOfNaturals
<1>3. PICK m : m = Cardinality(Tools(t))
  OBVIOUS
<1>4. /\ m \in Nat /\ q \in [1..m -> Tools(t)]
      /\ \A j, k \in 1..m : q[j] = q[k] => j = k
      /\ \A i \in Tools(t) : \E k \in 1..m : q[k] = i
  BY <1>1, <1>2, <1>3, InOrderLists
<1>5. \A k \in 1..m : q[k] \in Nat /\ q[k] < n /\ q[k] \in Tools(t)
  BY <1>1, <1>4
<1>6. /\ stops \in Seq(Event) /\ Len(stops) = m
      /\ \A k \in 1..m : stops[k] = sseEvent("content_block_stop", q[k])
  <2>1. stops = [k \in 1..m |-> sseEvent("content_block_stop", q[k])]
    BY <1>4
  <2>2. \A k \in 1..m : sseEvent("content_block_stop", q[k]) \in Event
    BY <1>5 DEF Event, sseEvent
  <2>3. stops \in [1..m -> Event]
    BY <2>1, <2>2
  <2> QED
    BY <1>4, <2>1, <2>3
<1>7. /\ p \in Seq(Event) /\ Len(o) \in Nat /\ DOMAIN o = 1..Len(o) /\ DOMAIN p = 1..(Len(o) + m)
      /\ \A k \in 1..Len(o) : p[k] = o[k]
      /\ \A k \in 1..m : p[Len(o) + k] = sseEvent("content_block_stop", q[k])
  BY <1>1, <1>4, <1>6
<1>8. \A k \in 1..(Len(o) + m) : k \in 1..Len(o) \/ \E j \in 1..m : k = Len(o) + j
  <2> SUFFICES ASSUME NEW k \in 1..(Len(o) + m), k \notin 1..Len(o) PROVE \E j \in 1..m : k = Len(o) + j
    OBVIOUS
  <2>1. k - Len(o) \in 1..m /\ k = Len(o) + (k - Len(o))
    BY <1>4, <1>7
  <2> QED
    BY <2>1
<1> HIDE DEF p
<1>9. \A k \in 1..m : p[Len(o) + k].ev = "content_block_stop" /\ p[Len(o) + k].idx = q[k]
  <2> SUFFICES ASSUME NEW k \in 1..m PROVE p[Len(o) + k].ev = "content_block_stop" /\ p[Len(o) + k].idx = q[k]
    OBVIOUS
  <2>1. PICK e : e = p[Len(o) + k]
    OBVIOUS
  <2>2. e = sseEvent("content_block_stop", q[k])
    BY <1>7, <2>1
  <2> QED
    BY <2>1, <2>2 DEF sseEvent
<1>10. o # <<>> /\ Len(o) > 0 /\ \A k \in 1..Len(o) : /\ o[k].ev = "message_start" <=> k = 1
                                                      /\ o[k].ev \notin {"message_delta", "message_stop"}
                                                      /\ o[k].idx < n
  BY <1>1, <1>7 DEF Envelope
<1>11. \A k \in DOMAIN p : /\ p[k].ev = "message_start" <=> k = 1
                           /\ p[k].ev \notin {"message_delta", "message_stop"}
                           /\ p[k].idx < n
  <2> SUFFICES ASSUME NEW k \in 1..(Len(o) + m)
               PROVE  /\ p[k].ev = "message_start" <=> k = 1
                      /\ p[k].ev \notin {"message_delta", "message_stop"}
                      /\ p[k].idx < n
    BY <1>7
  <2>1. CASE k \in 1..Len(o)
    BY <1>7, <1>10, <2>1
  <2>2. ASSUME NEW j \in 1..m, k = Len(o) + j
        PROVE  p[k].ev = "content_block_stop" /\ k # 1 /\ p[k].idx < n
    <3>1. p[Len(o) + j].ev = "content_block_stop" /\ p[Len(o) + j].idx = q[j] /\ q[j] < n
      BY <1>5, <1>9
    <3>2. Len(o) + j # 1
      BY <1>4, <1>7, <1>10
    <3> QED
      BY <2>2, <3>1, <3>2
  <2> QED
    BY <1>8, <2>1, <2>2
<1>12. InStartOrder(p)
  <2>1. \A k \in DOMAIN p : p[k].ev = "content_block_start" => k \in DOMAIN o /\ p[k] = o[k]
    BY <1>7, <1>8, <1>9
  <2> QED
    BY <1>1, <2>1 DEF InStartOrder
<1>13. ASSUME NEW i \in 0..(n - 1) PROVE Stopped(p, i)
  <2>1. \A ev : ev # "content_block_stop" => At(p, ev, i) = At(o, ev, i)
    <3> SUFFICES ASSUME NEW ev, ev # "content_block_stop" PROVE At(p, ev, i) = At(o, ev, i)
      OBVIOUS
    <3>1. \A k \in 1..m : p[Len(o) + k] # sseEvent(ev, i)
      BY <1>9 DEF sseEvent
    <3>2. \A k \in DOMAIN p : p[k] = sseEvent(ev, i) => k \in DOMAIN o /\ p[k] = o[k]
      BY <1>7, <1>8, <3>1
    <3>3. \A k \in DOMAIN o : k \in DOMAIN p /\ p[k] = o[k]
      BY <1>4, <1>7
    <3> QED
      BY <3>2, <3>3 DEF At
  <2>2. CASE i \notin Tools(t)
    <3>1. Stopped(o, i)
      BY <1>1, <2>2 DEF Framed
    <3>2. \A k \in 1..m : p[Len(o) + k] # sseEvent("content_block_stop", i)
      BY <1>5, <1>9, <2>2 DEF sseEvent
    <3>3. \A k \in DOMAIN p : p[k] = sseEvent("content_block_stop", i) => k \in DOMAIN o /\ p[k] = o[k]
      BY <1>7, <1>8, <3>2
    <3>4. \A k \in DOMAIN o : k \in DOMAIN p /\ p[k] = o[k]
      BY <1>4, <1>7
    <3>5. At(p, "content_block_stop", i) = At(o, "content_block_stop", i)
      BY <3>3, <3>4 DEF At
    <3> QED
      BY <2>1, <3>1, <3>5 DEF Stopped, Block
  <2>3. CASE i \in Tools(t)
    <3>1. Running(o, i)
      BY <1>1, <2>3 DEF Framed
    <3>2. PICK k \in 1..m : q[k] = i
      BY <1>4, <2>3
    <3>3. \A j \in 1..m : p[Len(o) + j] = sseEvent("content_block_stop", i) => j = k
      <4> SUFFICES ASSUME NEW j \in 1..m, p[Len(o) + j] = sseEvent("content_block_stop", i) PROVE j = k
        OBVIOUS
      <4>1. p[Len(o) + j].idx = i
        BY DEF sseEvent
      <4>2. q[j] = q[k]
        BY <1>9, <3>2, <4>1
      <4> QED
        BY <1>4, <4>2
    <3>4. \A j \in 1..Len(o) : p[j] # sseEvent("content_block_stop", i)
      BY <1>7, <3>1 DEF Running, At
    <3>5. p[Len(o) + k] = sseEvent("content_block_stop", i) /\ Len(o) + k \in DOMAIN p
      BY <1>7, <1>4, <3>2
    <3>6. \A j \in DOMAIN p : p[j] = sseEvent("content_block_stop", i) => j = Len(o) + k
      BY <1>7, <1>8, <3>3, <3>4
    <3>7. At(p, "content_block_stop", i) = {Len(o) + k}
      BY <3>5, <3>6 DEF At
    <3>8. \A ev : \A j \in At(o, ev, i) : j < Len(o) + k
      BY <1>1, <1>7, <3>2 DEF At
    <3> QED
      BY <2>1, <3>1, <3>7, <3>8 DEF Running, Stopped, Block
  <2> QED
    BY <2>2, <2>3
<1>14. p # <<>>
  BY <1>4, <1>7, <1>10
<1>15. Closed(p, n)
  BY <1>1, <1>7, <1>11, <1>12, <1>13, <1>14 DEF Closed
<1> QED
  BY <1>15 DEF p

\* A whole message: what WellFramed asks of a stream that has ended.
Message(o) ==
  /\ \A k \in At(o, "message_start", Absent) : k = 1
  /\ o # <<>> => o[1].ev = "message_start"
  /\ InStartOrder(o)
  /\ \A k \in DOMAIN o : o[k].idx # Absent => Stopped(o, o[k].idx)
  /\ At(o, "message_delta", Absent) = {Len(o) - 1} /\ At(o, "message_stop", Absent) = {Len(o)}

\* The terminal events make a whole message of what is closed.
LEMMA TerminalEvents ==
  ASSUME NEW o, NEW n, Closed(o, n),
         NEW p, p = Append(o, sseEvent("message_delta", Absent)),
         NEW r, r = Append(p, sseEvent("message_stop", Absent))
  PROVE  r \in Seq(Event) /\ Message(r)
<1> DEFINE d == sseEvent("message_delta", Absent)
           e == sseEvent("message_stop", Absent)
<1>1. /\ d \in Event /\ d.idx = Absent /\ d.ev = "message_delta"
      /\ e \in Event /\ e.idx = Absent /\ e.ev = "message_stop"
  BY DEF Event, sseEvent
<1>2. o \in Seq(Event) /\ n \in Nat /\ Len(o) \in Nat /\ Len(o) > 0 /\ DOMAIN o = 1..Len(o)
  BY DEF Closed
<1>3. /\ p \in Seq(Event) /\ Len(p) = Len(o) + 1 /\ DOMAIN p = 1..(Len(o) + 1)
      /\ (\A k \in 1..Len(o) : p[k] = o[k]) /\ p[Len(o) + 1] = d
  BY <1>1, <1>2
<1>4. /\ r \in Seq(Event) /\ Len(r) = Len(o) + 2 /\ DOMAIN r = 1..(Len(o) + 2)
      /\ (\A k \in 1..Len(o) : r[k] = o[k]) /\ r[Len(o) + 1] = d /\ r[Len(o) + 2] = e
  BY <1>1, <1>2, <1>3
<1>5. \A k \in DOMAIN r : k \in 1..Len(o) \/ k = Len(o) + 1 \/ k = Len(o) + 2
  BY <1>2, <1>4
<1> HIDE DEF d, e
<1>6. \A k \in 1..Len(o) : /\ o[k].ev = "message_start" <=> k = 1
                           /\ o[k].ev \notin {"message_delta", "message_stop"}
                           /\ o[k].idx < n /\ o[k] \in Event
  BY <1>2 DEF Closed
<1>7. \A k \in DOMAIN r : r[k].ev = "message_start" <=> k = 1
  BY <1>1, <1>2, <1>4, <1>5, <1>6
<1>8. (\A k \in At(r, "message_start", Absent) : k = 1) /\ r[1].ev = "message_start"
  BY <1>2, <1>4, <1>7 DEF At, sseEvent
<1>9. InStartOrder(r)
  <2>1. \A k \in DOMAIN r : r[k].ev = "content_block_start" => k \in DOMAIN o /\ r[k] = o[k]
    BY <1>1, <1>2, <1>4, <1>5
  <2> QED
    BY <2>1 DEF Closed, InStartOrder
<1>10. ASSUME NEW k \in DOMAIN r, r[k].idx # Absent PROVE Stopped(r, r[k].idx)
  <2>1. k \in 1..Len(o) /\ r[k] = o[k]
    BY <1>1, <1>4, <1>5, <1>10
  <2>2. PICK i : i = o[k].idx
    OBVIOUS
  <2>3. i \in 0..(n - 1)
    <3>1. i \in Nat \cup {Absent} /\ i < n /\ i # Absent
      BY <1>6, <1>10, <2>1, <2>2 DEF Event
    <3> QED
      BY <1>2, <3>1 DEF Absent
  <2>4. Stopped(o, i) /\ i # Absent
    BY <1>10, <2>1, <2>2, <2>3 DEF Closed
  <2>5. Stopped(p, i)
    BY <1>1, <1>2, <2>4, BlockKept DEF d
  <2>6. Stopped(r, i)
    BY <1>1, <1>3, <2>4, <2>5, BlockKept DEF e
  <2> QED
    BY <2>1, <2>2, <2>6
<1>11. At(r, "message_delta", Absent) = {Len(r) - 1}
  <2>1. \A k \in DOMAIN r : r[k] = d => k = Len(o) + 1
    BY <1>1, <1>4, <1>5, <1>6
  <2> QED
    BY <1>2, <1>4, <2>1 DEF At, d
<1>12. At(r, "message_stop", Absent) = {Len(r)}
  <2>1. \A k \in DOMAIN r : r[k] = e => k = Len(o) + 2
    BY <1>1, <1>4, <1>5, <1>6
  <2> QED
    BY <1>2, <1>4, <2>1 DEF At, e
<1> QED
  BY <1>4, <1>8, <1>9, <1>10, <1>11, <1>12 DEF Message

\* end() of a stream that has begun.
LEMMA EndBegun ==
  ASSUME NEW s, Ok(s), s.t.started
  PROVE  end(s).t \in Translator /\ SameFigures(s, end(s)) /\ end(s).out \in Seq(Event) /\ Message(end(s).out)
<1>1. PICK m : m = closeText(s)
  OBVIOUS
<1>2. /\ Ok(m) /\ m.t.started /\ SameFigures(s, m) /\ m.t.textIndex = Absent
      /\ m.t.toolBlocks = s.t.toolBlocks /\ DOMAIN m = {"t", "out"} /\ m.t \in Translator /\ Framed(m.t, m.out)
  BY <1>1, CloseTextOk DEF Ok, State
<1>3. PICK q : q = inOrder(Tools(s.t))
  OBVIOUS
<1>4. Tools(m.t) = Tools(s.t)
  BY <1>2 DEF Tools
<1>5. PICK stops : stops = [k \in DOMAIN q |-> sseEvent("content_block_stop", q[k])]
  OBVIOUS
<1>6. Closed(m.out \o stops, m.t.nextIndex)
  BY <1>2, <1>3, <1>4, <1>5, StopsClose
<1>7. PICK u : u = [m.t EXCEPT !.toolBlocks = Fresh.toolBlocks]
  OBVIOUS
<1>8. u \in Translator /\ u.content = m.t.content /\ u.usage = m.t.usage
  <2>1. Fresh.toolBlocks \in [ToolCalls -> Nat \cup {Absent}]
    BY DEF Fresh
  <2>2. PICK b \in [ToolCalls -> Nat \cup {Absent}] : b = Fresh.toolBlocks
    BY <2>1
  <2>3. u = [m.t EXCEPT !.toolBlocks = b]
    BY <1>7, <2>2
  <2> QED
    BY <1>2, <2>3 DEF Translator
<1>9. PICK c : c = [m EXCEPT !.out = @ \o stops, !.t.toolBlocks = Fresh.toolBlocks]
  OBVIOUS
<1>10. DOMAIN c = {"t", "out"} /\ c.t = u /\ c.out = m.out \o stops
  BY <1>2, <1>7, <1>9
<1>11. end(s) = Emit(Emit(c, "message_delta", Absent), "message_stop", Absent)
  BY <1>1, <1>3, <1>5, <1>9 DEF end, Tools
<1>12. PICK d : d = Emit(c, "message_delta", Absent)
  OBVIOUS
<1>o. PICK o : o = Append(c.out, sseEvent("message_delta", Absent))
  OBVIOUS
<1>w. PICK w : w = Append(o, sseEvent("message_stop", Absent))
  OBVIOUS
<1>13. d.t = u /\ DOMAIN d = {"t", "out"} /\ d.out = o
  <2>1. d = [t |-> c.t, out |-> o]
    BY <1>10, <1>12, <1>o, EmitIs
  <2> QED
    BY <1>10, <2>1
<1>14. end(s).t = u /\ end(s).out = w
  <2>1. Emit(d, "message_stop", Absent) = [t |-> d.t, out |-> w]
    BY <1>13, <1>w, EmitIs
  <2> QED
    BY <1>11, <1>12, <1>13, <2>1
<1>15. end(s).out \in Seq(Event) /\ Message(end(s).out)
  BY <1>6, <1>10, <1>o, <1>w, <1>14, TerminalEvents
<1> QED
  BY <1>2, <1>8, <1>14, <1>15 DEF SameFigures

\* end() of an empty stream.
LEMMA EndEmpty ==
  ASSUME NEW s, Ok(s), ~s.t.started
  PROVE  end(s).t \in Translator /\ SameFigures(s, end(s)) /\ end(s).out \in Seq(Event) /\ Message(end(s).out)
<1>1. PICK m : m = begin(s)
  OBVIOUS
<1>2. /\ Ok(m) /\ m.t.started /\ SameFigures(s, m) /\ DOMAIN m = {"t", "out"} /\ m.t \in Translator
      /\ Framed(m.t, m.out)
  BY <1>1, BeginOk DEF Ok, State
<1>3. /\ s.out = <<>> /\ s \in State /\ m.out = Append(s.out, sseEvent("message_start", Absent))
      /\ m.t.nextIndex = s.t.nextIndex
  <2>1. s.out = <<>> /\ s \in State /\ s.t \in Translator /\ DOMAIN s = {"t", "out"}
    BY DEF Ok, Framed, Envelope, State
  <2>2. PICK b : b = [s EXCEPT !.t.started = TRUE]
    OBVIOUS
  <2>3. DOMAIN b = {"t", "out"} /\ b.out = s.out /\ b.t.nextIndex = s.t.nextIndex
    BY <2>1, <2>2 DEF Translator
  <2>4. m = Emit(b, "message_start", Absent)
    BY <1>1, <2>2 DEF begin
  <2> QED
    BY <2>1, <2>3, <2>4, EmitIs
<1>4. m.t.nextIndex = 0
  <2> SUFFICES ASSUME m.t.nextIndex # 0 PROVE FALSE
    OBVIOUS
  <2>1. 0 \in 0..(s.t.nextIndex - 1)
    BY <1>2, <1>3 DEF Translator
  <2>2. Block(s.out, 0)
    BY <2>1 DEF Ok, Framed, Running, Stopped
  <2> QED
    BY <1>3, <2>2 DEF Block, At
<1>6. PICK o : o = Append(m.out, sseEvent("content_block_start", 0))
  OBVIOUS
<1>7. PICK w : w = Append(o, sseEvent("content_block_stop", 0))
  OBVIOUS
<1>8. Closed(w, 1)
  <2>1. Running(o, 0) /\ o \in Seq(Event)
    <3>1. \A k \in DOMAIN m.out : m.out[k].idx # 0
      BY <1>2, <1>4 DEF Framed, Envelope
    <3>2. m.out \in Seq(Event) /\ sseEvent("content_block_start", 0) \in Event
      BY <1>2 DEF Framed, sseEvent, Event
    <3> QED
      BY <1>6, <3>1, <3>2, BlockStarts
  <2>2. Stopped(w, 0)
    BY <1>7, <2>1, BlockStops
  <2>3. PICK u : u = [m.t EXCEPT !.nextIndex = 1]
    OBVIOUS
  <2>4. u \in Translator /\ u.started /\ u.nextIndex = 1
    BY <1>2, <2>3 DEF Translator
  <2>5. Envelope(u, o) /\ InStartOrder(o)
    <3>1. PICK e : e = sseEvent("content_block_start", 0)
      OBVIOUS
    <3>2. e \in Event /\ e.ev = "content_block_start" /\ e.idx = 0
      BY <3>1 DEF sseEvent, Event
    <3> QED
      BY <1>2, <1>4, <1>6, <2>4, <3>1, <3>2, EnvelopeKept DEF Framed
  <2>6. w \in Seq(Event) /\ Envelope(u, w) /\ InStartOrder(w)
    <3>1. PICK e : e = sseEvent("content_block_stop", 0)
      OBVIOUS
    <3>2. e \in Event /\ e.ev = "content_block_stop" /\ e.idx = 0
      BY <3>1 DEF sseEvent, Event
    <3> QED
      BY <1>7, <2>1, <2>4, <2>5, <3>1, <3>2, EnvelopeKept
  <2> QED
    BY <2>2, <2>4, <2>6 DEF Closed, Envelope
<1>9. PICK a : a = Emit(m, "content_block_start", 0)
  OBVIOUS
<1>10. PICK c : c = Emit(a, "content_block_stop", 0)
  OBVIOUS
<1>11. PICK d : d = Emit(c, "message_delta", Absent)
  OBVIOUS
<1>12. end(s) = Emit(d, "message_stop", Absent)
  BY <1>1, <1>9, <1>10, <1>11 DEF end
<1>13. a.t = m.t /\ DOMAIN a = {"t", "out"} /\ a.out = o
  BY <1>2, <1>6, <1>9, EmitIs
<1>14. c.t = m.t /\ DOMAIN c = {"t", "out"} /\ c.out = w
  BY <1>7, <1>10, <1>13, EmitIs
<1>x. PICK x : x = Append(w, sseEvent("message_delta", Absent))
  OBVIOUS
<1>y. PICK y : y = Append(x, sseEvent("message_stop", Absent))
  OBVIOUS
<1>15. d.t = m.t /\ DOMAIN d = {"t", "out"} /\ d.out = x
  <2>1. d = [t |-> c.t, out |-> x]
    BY <1>11, <1>14, <1>x, EmitIs
  <2> QED
    BY <1>14, <2>1
<1>16. end(s).t = m.t /\ end(s).out = y
  <2>1. Emit(d, "message_stop", Absent) = [t |-> d.t, out |-> y]
    BY <1>15, <1>y, EmitIs
  <2> QED
    BY <1>12, <1>15, <2>1
<1>17. end(s).out \in Seq(Event) /\ Message(end(s).out)
  BY <1>8, <1>x, <1>y, <1>16, TerminalEvents
<1> QED
  BY <1>2, <1>16, <1>17 DEF SameFigures

----------------------------------------------------------------------------
(* A frame read by both.                                                   *)

Readable == [text : BOOLEAN, tool : ToolCalls \cup {NoTool}, args : BOOLEAN,
             usage : Figures, finish : BOOLEAN, error : BOOLEAN]

Tallied == [content : Nat, usage : Usage, dropped : BOOLEAN]

\* The two readers of a usage object: alike on two numbers, and without one.
LEMMA UsageRead ==
  ASSUME NEW g \in Figures, NEW u \in Usage
  PROVE  /\ Merged(u, g) \in Usage /\ LastUsage(u, g) \in Usage
         /\ ~g.given => Merged(u, g) = u /\ LastUsage(u, g) = u
         /\ g.given /\ g.numbers = {"input", "output"} =>
              \A v \in Usage : Merged(v, g) = LastUsage(u, g)
<1>1. /\ g.given \in BOOLEAN /\ g.input \in Nat \cup {Absent} /\ g.output \in Nat \cup {Absent}
      /\ "input" \in g.numbers => g.input # Absent
      /\ "output" \in g.numbers => g.output # Absent
      /\ ~g.given => g.numbers = {}
  BY DEF Figures
<1>2. u.input \in Nat /\ u.output \in Nat
  BY DEF Usage
<1>3. Merged(u, g) \in Usage
  BY <1>1, <1>2 DEF Merged, Usage
<1>4. LastUsage(u, g) \in Usage
  BY <1>1, <1>2 DEF LastUsage, Usage
<1>5. ~g.given => Merged(u, g) = u /\ LastUsage(u, g) = u
  BY <1>1 DEF Merged, LastUsage
<1>6. g.given /\ g.numbers = {"input", "output"} => \A v \in Usage : Merged(v, g) = LastUsage(u, g)
  BY <1>1 DEF Merged, LastUsage
<1> QED
  BY <1>3, <1>4, <1>5, <1>6

\* consume() keeps the translator in step with its events, and takes text and usage from a frame
\* unless it has an error in it.
LEMMA ConsumeOk ==
  ASSUME NEW s, Ok(s), NEW f \in Readable
  PROVE  /\ Ok(consume(s, f))
         /\ f.error => SameFigures(s, consume(s, f))
         /\ ~f.error => /\ consume(s, f).t.content = IF f.text THEN s.t.content + 1 ELSE s.t.content
                        /\ consume(s, f).t.usage = Merged(s.t.usage, f.usage)
<1>0. /\ f.text \in BOOLEAN /\ f.tool \in ToolCalls \cup {NoTool} /\ f.args \in BOOLEAN
      /\ f.usage \in Figures /\ f.finish \in BOOLEAN /\ f.error \in BOOLEAN
  BY DEF Readable
<1>1. PICK b : b = begin(s)
  OBVIOUS
<1>2. Ok(b) /\ b.t.started /\ SameFigures(s, b) /\ DOMAIN b = {"t", "out"} /\ b.t \in Translator
  BY <1>1, BeginOk DEF Ok, State
<1>3. CASE f.error
  <2>1. PICK o : o = Append(b.out, sseEvent("error", Absent))
    OBVIOUS
  <2>2. consume(s, f) = Emit(b, "error", Absent)
    BY <1>1, <1>3 DEF consume
  <2>3. consume(s, f) = [t |-> b.t, out |-> o]
    BY <1>2, <2>1, <2>2, EmitIs
  <2>4. Framed(b.t, o)
    BY <1>2, <2>1, FramedFails DEF Ok
  <2>5. Ok(consume(s, f)) /\ consume(s, f).t = b.t
    BY <2>3, <2>4, OkParts
  <2> QED
    BY <1>2, <1>3, <2>5 DEF SameFigures
<1>4. CASE ~f.error
  <2>1. PICK g : g = [b EXCEPT !.t.usage = Merged(b.t.usage, f.usage)]
    OBVIOUS
  <2>2. /\ Ok(g) /\ g.t.started /\ g.t.content = s.t.content
        /\ g.t.usage = Merged(s.t.usage, f.usage)
    <3>1. PICK u : u = [b.t EXCEPT !.usage = Merged(b.t.usage, f.usage)]
      OBVIOUS
    <3>2. b.t.usage \in Usage
      BY <1>2 DEF Translator
    <3>3. Merged(b.t.usage, f.usage) \in Usage
      BY <1>0, <3>2, UsageRead
    <3>4. /\ u \in Translator /\ u.started = b.t.started /\ u.textIndex = b.t.textIndex
          /\ u.nextIndex = b.t.nextIndex /\ u.toolBlocks = b.t.toolBlocks /\ u.content = b.t.content
          /\ u.usage = Merged(b.t.usage, f.usage)
      BY <1>2, <3>1, <3>3 DEF Translator
    <3>5. g = [b EXCEPT !.t = u]
      BY <2>1, <3>1
    <3>6. g = [t |-> u, out |-> b.out]
      BY <1>2, <3>5, PutT
    <3>7. Framed(u, b.out)
      BY <1>2, <3>4, SameBlocks DEF Ok
    <3>8. Ok(g) /\ g.t = u
      BY <3>6, <3>7, OkParts
    <3> QED
      BY <1>2, <3>4, <3>8 DEF SameFigures
  <2>3. PICK x : x = textRun(g, f)
    OBVIOUS
  <2>4. /\ Ok(x) /\ x.t.started /\ x.t.usage = g.t.usage
        /\ x.t.content = IF f.text THEN g.t.content + 1 ELSE g.t.content
    BY <1>0, <2>2, <2>3, TextRunOk
  <2>5. PICK y : y = toolCall(x, f)
    OBVIOUS
  <2>6. Ok(y) /\ SameFigures(x, y) /\ DOMAIN y = {"t", "out"} /\ y.t \in Translator
    BY <1>0, <2>4, <2>5, ToolCallOk DEF Ok, State
  <2>7. consume(s, f) = IF f.finish THEN [y EXCEPT !.t.stopReason = TRUE] ELSE y
    BY <1>1, <1>4, <2>1, <2>3, <2>5 DEF consume
  <2>8. Ok(consume(s, f)) /\ SameFigures(y, consume(s, f))
    <3>1. CASE ~f.finish
      BY <2>6, <2>7, <3>1 DEF SameFigures
    <3>2. CASE f.finish
      <4>1. PICK u : u = [y.t EXCEPT !.stopReason = TRUE]
        OBVIOUS
      <4>2. /\ u \in Translator /\ u.started = y.t.started /\ u.textIndex = y.t.textIndex
            /\ u.nextIndex = y.t.nextIndex /\ u.toolBlocks = y.t.toolBlocks /\ u.content = y.t.content
            /\ u.usage = y.t.usage
        BY <2>6, <4>1 DEF Translator
      <4>3. consume(s, f) = [y EXCEPT !.t = u]
        BY <2>7, <3>2, <4>1
      <4>4. consume(s, f) = [t |-> u, out |-> y.out]
        BY <2>6, <4>3, PutT
      <4>5. Framed(u, y.out)
        BY <2>6, <4>2, SameBlocks DEF Ok
      <4>6. Ok(consume(s, f)) /\ consume(s, f).t = u
        BY <4>4, <4>5, OkParts
      <4> QED
        BY <4>2, <4>6 DEF SameFigures
    <3> QED
      BY <3>1, <3>2
  <2> QED
    BY <1>4, <2>2, <2>4, <2>6, <2>8 DEF SameFigures
<1> QED
  BY <1>3, <1>4

----------------------------------------------------------------------------
(* The invariant.                                                          *)

\* WellFramed, as a statement about any events o and any ending e.
WellFramedAs(o, e) ==
  LET Starts(i) == At(o, "content_block_start", i)
      Stops(i)  == At(o, "content_block_stop", i)
      Idx       == {o[k].idx : k \in DOMAIN o} \ {Absent} IN
  /\ \A k \in At(o, "message_start", Absent) : k = 1
  /\ o # <<>> => o[1].ev = "message_start"
  /\ \A i \in Idx : Block(o, i) /\ (e # "open" => Stops(i) # {})
  /\ \A i, j \in Idx : \A k \in Starts(i), l \in Starts(j) : i < j => k < l
  /\ e # "open" => /\ At(o, "message_delta", Absent) = {Len(o) - 1}
                   /\ At(o, "message_stop", Absent) = {Len(o)}

\* The two say the same.
LEMMA WellFramedNow == WellFramed <=> WellFramedAs(out, ending)
  BY DEF WellFramed, WellFramedAs, Positions, Indices, At, Block

LEMMA WellFramedNext == WellFramed' <=> WellFramedAs(out', ending')
  BY DEF WellFramed, WellFramedAs, Positions, Indices, At, Block

\* The positions of two starts are in the order of their indices.
LEMMA StartsInOrder ==
  ASSUME NEW o, InStartOrder(o), NEW i, NEW j, i < j,
         NEW k \in At(o, "content_block_start", i), NEW l \in At(o, "content_block_start", j)
  PROVE  k < l
<1>1. k \in DOMAIN o /\ l \in DOMAIN o /\ o[k] = sseEvent("content_block_start", i) /\ o[l] = sseEvent("content_block_start", j)
  BY DEF At
<1>2. o[k].ev = "content_block_start" /\ o[k].idx = i /\ o[l].ev = "content_block_start" /\ o[l].idx = j
  BY <1>1 DEF sseEvent
<1> QED
  BY <1>1, <1>2 DEF InStartOrder

\* While the stream is open, what Framed says is enough.
LEMMA OpenWellFramed == ASSUME NEW t, NEW o, Framed(t, o) PROVE WellFramedAs(o, "open")
<1>1. /\ t \in Translator /\ o \in Seq(Event) /\ Envelope(t, o) /\ InStartOrder(o) /\ t.nextIndex \in Nat
      /\ DOMAIN o = 1..Len(o) /\ Len(o) \in Nat
  BY DEF Framed, Translator
<1>2. \A k \in At(o, "message_start", Absent) : k = 1
  BY <1>1 DEF At, Envelope, sseEvent
<1>3. o # <<>> => o[1].ev = "message_start"
  BY <1>1 DEF Envelope
<1>4. ASSUME NEW k \in DOMAIN o, o[k].idx # Absent PROVE Block(o, o[k].idx)
  <2>1. o[k] \in Event
    BY <1>1
  <2>2. o[k].idx \in Nat
    BY <1>4, <2>1 DEF Event
  <2>3. o[k].idx < t.nextIndex
    BY <1>1 DEF Envelope
  <2>4. o[k].idx \in 0..(t.nextIndex - 1)
    BY <1>1, <2>2, <2>3
  <2> QED
    BY <2>4 DEF Framed, Running, Stopped
<1> QED
  BY <1>1, <1>2, <1>3, <1>4, StartsInOrder DEF WellFramedAs

\* A whole message is well framed.
LEMMA EndedWellFramed == ASSUME NEW o \in Seq(Event), Message(o), NEW e PROVE WellFramedAs(o, e)
<1>1. /\ \A k \in At(o, "message_start", Absent) : k = 1
      /\ o # <<>> => o[1].ev = "message_start"
      /\ At(o, "message_delta", Absent) = {Len(o) - 1} /\ At(o, "message_stop", Absent) = {Len(o)}
      /\ InStartOrder(o)
  BY DEF Message
<1>2. \A k \in DOMAIN o : o[k].idx # Absent => Stopped(o, o[k].idx)
  BY DEF Message
<1> QED
  BY <1>1, <1>2, StartsInOrder DEF WellFramedAs, Stopped

\* It holds at first.
LEMMA InvInit == Init => Inv
<1> SUFFICES ASSUME Init PROVE Inv
  OBVIOUS
<1>1. Fresh \in Translator /\ ~Fresh.started /\ Fresh.nextIndex = 0 /\ Fresh.textIndex = Absent
      /\ Fresh.content = 0 /\ Fresh.usage = Unreported /\ \A c \in ToolCalls : Fresh.toolBlocks[c] = Absent
  BY DEF Fresh, Translator, Absent, Unreported, Usage
<1>2. Open(Fresh) = {} /\ Tools(Fresh) = {}
  BY <1>1 DEF Open, Tools
<1>3. Framed(Fresh, <<>>)
  <2>1. <<>> \in Seq(Event) /\ DOMAIN <<>> = {}
    OBVIOUS
  <2>2. Envelope(Fresh, <<>>) /\ InStartOrder(<<>>)
    BY <1>1, <2>1 DEF Envelope, InStartOrder
  <2>3. Apart(Fresh)
    BY <1>1, <1>2 DEF Apart
  <2>4. 0..(Fresh.nextIndex - 1) = {}
    BY <1>1
  <2> QED
    BY <1>1, <1>2, <2>1, <2>2, <2>3, <2>4 DEF Framed
<1>4. WellFramed
  BY <1>3, OpenWellFramed, WellFramedNow DEF Init
<1>5. TypeOK
  <2>1. sent \in 0..MaxFrames
    BY StreamAssumption DEF Init
  <2>2. out \in Seq(Event) /\ tally \in Tallied
    BY DEF Init, Tallied, Unreported, Usage
  <2>3. tr \in Translator
    BY <1>1 DEF Init
  <2> QED
    BY <2>1, <2>2, <2>3 DEF Init, TypeOK, Tallied
<1>6. SameAnswer
  BY <1>1 DEF Init, SameAnswer
<1> QED
  BY <1>3, <1>4, <1>5, <1>6 DEF Init, Inv

\* The frames there are can be read, and so can the gateway's own.
LEMMA CanBeRead ==
  /\ Frames \cup {Blank} \subseteq Readable
  /\ [Blank EXCEPT !.error = TRUE] \in Readable /\ [Blank EXCEPT !.error = TRUE].error
<1>1. Blank \in Readable
  BY DEF Blank, Readable, NoFigures, Figures
<1> QED
  BY <1>1, StreamAssumption DEF Readable

\* What the readers have in common once the line under way is read.
Agree ==
  /\ ~tally.dropped /\ ~mixed => tally.content = tr.content
  /\ ~oddUsage => tally.usage = tr.usage

\* What the tally makes of a frame.
LEMMA ReadFrameIs ==
  ASSUME tally \in Tallied, NEW f \in Readable
  PROVE  /\ readFrame(f) \in Tallied /\ readFrame(f).dropped = tally.dropped
         /\ readFrame(f).usage = LastUsage(tally.usage, f.usage)
         /\ readFrame(f).content = IF f.text THEN tally.content + 1 ELSE tally.content
<1>1. PICK c : c = IF f.text THEN tally.content + 1 ELSE tally.content
  OBVIOUS
<1>2. PICK l : l = LastUsage(tally.usage, f.usage)
  OBVIOUS
<1>3. /\ DOMAIN tally = {"content", "usage", "dropped"} /\ tally.content \in Nat
      /\ tally.usage \in Usage /\ tally.dropped \in BOOLEAN
  BY DEF Tallied
<1>4. c \in Nat /\ l \in Usage
  BY <1>1, <1>2, <1>3, UsageRead DEF Readable
<1>5. readFrame(f) = [tally EXCEPT !.content = c, !.usage = l]
  BY <1>1, <1>2 DEF readFrame
<1> QED
  BY <1>1, <1>2, <1>3, <1>4, <1>5 DEF Tallied

\* A line that has arrived keeps the two readers together.
LEMMA ArrivedKeeps ==
  ASSUME Inv, ending = "open", NEW f \in Readable, Arrived(f)
  PROVE  /\ Framed(tr', out') /\ tally' \in Tallied
         /\ lost' = FALSE /\ mixed' \in BOOLEAN /\ oddUsage' \in BOOLEAN
         /\ Agree'
<1>1. /\ Framed(tr, out) /\ tally \in Tallied /\ lost \in BOOLEAN /\ mixed \in BOOLEAN /\ oddUsage \in BOOLEAN
      /\ f.text \in BOOLEAN /\ f.usage \in Figures /\ f.error \in BOOLEAN
      /\ tr.content \in Nat /\ tr.usage \in Usage
  BY DEF Inv, TypeOK, Readable, Tallied, Translator
<1>2. tally.content \in Nat /\ tally.usage \in Usage /\ tally.dropped \in BOOLEAN
  BY <1>1 DEF Tallied
<1>3. Ok(Client) /\ Client.t = tr /\ Client.out = out
  BY <1>1, OkParts DEF Client
<1>4. PICK s : s = consume(Client, f)
  OBVIOUS
<1>5. tr' = s.t /\ out' = s.out /\ lost' = FALSE
  BY <1>4 DEF Arrived, Translated
<1>6. /\ tally' = IF lost THEN tally ELSE readFrame(f)
      /\ mixed' = (mixed \/ (f.error /\ f.text))
      /\ oddUsage' = IF f.usage.given
                     THEN lost \/ f.error \/ f.usage.numbers # {"input", "output"} ELSE oddUsage
  BY DEF Arrived
<1>7. /\ Ok(s) /\ (f.error => SameFigures(Client, s))
      /\ ~f.error => /\ s.t.content = IF f.text THEN tr.content + 1 ELSE tr.content
                     /\ s.t.usage = Merged(tr.usage, f.usage)
  BY <1>3, <1>4, ConsumeOk
<1>8. Framed(tr', out')
  BY <1>5, <1>7 DEF Ok
<1>9. /\ f.error => tr'.content = tr.content /\ tr'.usage = tr.usage
      /\ ~f.error => /\ tr'.content = IF f.text THEN tr.content + 1 ELSE tr.content
                     /\ tr'.usage = Merged(tr.usage, f.usage)
  BY <1>3, <1>5, <1>7 DEF SameFigures
<1>10. PICK l : l = LastUsage(tally.usage, f.usage)
  OBVIOUS
<1>11. /\ l \in Usage
       /\ ~f.usage.given => l = tally.usage /\ Merged(tr.usage, f.usage) = tr.usage
       /\ f.usage.given /\ f.usage.numbers = {"input", "output"} => Merged(tr.usage, f.usage) = l
  BY <1>1, <1>2, <1>10, UsageRead
<1>12. /\ readFrame(f) \in Tallied /\ readFrame(f).usage = l /\ readFrame(f).dropped = tally.dropped
       /\ readFrame(f).content = IF f.text THEN tally.content + 1 ELSE tally.content
  BY <1>1, <1>10, ReadFrameIs
<1>13. tally' \in Tallied /\ mixed' \in BOOLEAN /\ oddUsage' \in BOOLEAN
  BY <1>1, <1>6, <1>12
<1>14. /\ ~tally.dropped /\ ~mixed => tally.content = tr.content
       /\ ~oddUsage => tally.usage = tr.usage
       /\ lost => tally.dropped
  BY DEF Inv, SameAnswer, Unterminated
<1>15. ASSUME ~tally'.dropped, ~mixed' PROVE tally'.content = tr'.content
  <2>1. ~lost /\ tally' = readFrame(f) /\ ~tally.dropped /\ ~mixed /\ ~(f.error /\ f.text)
    BY <1>6, <1>12, <1>14, <1>15
  <2> QED
    BY <1>1, <1>9, <1>12, <1>14, <2>1
<1>16. ASSUME ~oddUsage' PROVE tally'.usage = tr'.usage
  <2>1. CASE f.usage.given
    <3>1. ~lost /\ ~f.error /\ f.usage.numbers = {"input", "output"} /\ tally' = readFrame(f)
      BY <1>1, <1>6, <1>16, <2>1
    <3> QED
      BY <1>9, <1>11, <1>12, <2>1, <3>1
  <2>2. CASE ~f.usage.given
    <3>1. tally.usage = tr.usage
      BY <1>6, <1>14, <1>16, <2>2
    <3>2. tally'.usage = tally.usage
      BY <1>1, <1>6, <1>11, <1>12, <2>2
    <3>3. tr'.usage = tr.usage
      BY <1>1, <1>9, <1>11, <2>2
    <3> QED
      BY <3>1, <3>2, <3>3
  <2> QED
    BY <2>1, <2>2
<1> QED
  BY <1>5, <1>8, <1>13, <1>15, <1>16 DEF Agree

\* A line the tally forgets leaves what has been read as it was.
LEMMA PendingKeeps ==
  ASSUME Inv, ending = "open", NEW long \in BOOLEAN, Pending(long), UNCHANGED <<tr, mixed, oddUsage>>
  PROVE  tally' \in Tallied /\ lost' \in BOOLEAN /\ (lost' => tally'.dropped) /\ Agree'
<1>1. tally \in Tallied /\ lost \in BOOLEAN /\ (lost => tally.dropped) /\ Agree
  BY DEF Inv, TypeOK, SameAnswer, Unterminated, Agree, Tallied
<1>2. /\ tally' \in Tallied /\ tally'.content = tally.content /\ tally'.usage = tally.usage
      /\ tally'.dropped = (tally.dropped \/ long) /\ lost' = (lost \/ long)
  BY <1>1 DEF Pending, Tallied
<1> QED
  BY <1>1, <1>2 DEF Agree

\* Every step keeps it.
LEMMA InvStep == Inv /\ [Next]_vars => Inv'
<1> SUFFICES ASSUME Inv, [Next]_vars PROVE Inv'
  OBVIOUS
<1>1. ASSUME ending = "open", ending' = "open", Framed(tr', out') PROVE WellFramed'
  BY <1>1, OpenWellFramed, WellFramedNext
<1>2. ASSUME NEW f \in Frames, WholeEvent(f) PROVE Inv'
  <2>1. /\ ending = "open" /\ ending' = "open" /\ sent < MaxFrames /\ sent' = sent + 1 /\ Arrived(f)
        /\ gap' = gap /\ frame' = frame
    BY <1>2 DEF WholeEvent
  <2>2. /\ Framed(tr', out') /\ tally' \in Tallied /\ Agree'
        /\ lost' = FALSE /\ mixed' \in BOOLEAN /\ oddUsage' \in BOOLEAN
    BY <2>1, CanBeRead, ArrivedKeeps
  <2>3. sent' \in 0..MaxFrames
    BY <2>1, StreamAssumption DEF Inv, TypeOK
  <2>4. TypeOK'
    BY <2>1, <2>2, <2>3 DEF Inv, TypeOK, Framed, Tallied
  <2> QED
    BY <1>1, <2>1, <2>2, <2>4 DEF Inv, SameAnswer, Agree
<1>3. ASSUME NEW f \in Frames, NEW cut \in {"part", "full"}, NEW long \in BOOLEAN, FrameBegins(f, cut, long)
      PROVE  Inv'
  <2>1. /\ ending = "open" /\ ending' = "open" /\ sent < MaxFrames /\ sent' = sent + 1
        /\ gap' = cut /\ frame' = f /\ Pending(long) /\ UNCHANGED <<tr, out, mixed, oddUsage>>
    BY <1>3 DEF FrameBegins
  <2>2. sent' \in 0..MaxFrames
    BY <2>1, StreamAssumption DEF Inv, TypeOK
  <2>3. tally' \in Tallied /\ lost' \in BOOLEAN /\ (lost' => tally'.dropped) /\ Agree'
    BY <2>1, PendingKeeps
  <2>4. TypeOK'
    BY <2>1, <2>2, <2>3 DEF Inv, TypeOK, Tallied
  <2> QED
    BY <1>1, <2>1, <2>3, <2>4 DEF Inv, SameAnswer, Agree
<1>4. CASE FrameGoesOn
  <2>1. ending = "open" /\ ending' = "open" /\ sent' = sent
    BY <1>4 DEF FrameGoesOn
  <2>2. CASE gap' \in {"line", "closed"} /\ frame' = Blank /\ Arrived(frame)
    <3>1. /\ Framed(tr', out') /\ tally' \in Tallied /\ Agree'
          /\ lost' = FALSE /\ mixed' \in BOOLEAN /\ oddUsage' \in BOOLEAN
      BY <2>1, <2>2, CanBeRead, ArrivedKeeps DEF Inv, TypeOK
    <3>2. TypeOK'
      BY <2>1, <2>2, <3>1 DEF Inv, TypeOK, Framed, Tallied
    <3> QED
      BY <1>1, <2>1, <3>1, <3>2 DEF Inv, SameAnswer, Agree
  <2>3. ASSUME gap = "part", gap' = "full", NEW long \in BOOLEAN, Pending(long),
               UNCHANGED <<frame, tr, out, mixed, oddUsage>>
        PROVE  Inv'
    <3>1. tally' \in Tallied /\ lost' \in BOOLEAN /\ (lost' => tally'.dropped) /\ Agree'
      BY <2>1, <2>3, PendingKeeps
    <3>2. TypeOK'
      BY <2>1, <2>3, <3>1 DEF Inv, TypeOK, Tallied
    <3> QED
      BY <1>1, <2>1, <2>3, <3>1, <3>2 DEF Inv, SameAnswer, Agree
  <2> QED
    BY <1>4, <2>2, <2>3 DEF FrameGoesOn
<1>5. CASE EventCloses
  <2>1. /\ ending = "open" /\ ending' = "open" /\ gap' = "closed"
        /\ UNCHANGED <<sent, frame, tr, out, tally, lost, mixed, oddUsage>>
    BY <1>5 DEF EventCloses
  <2>2. TypeOK'
    BY <2>1 DEF Inv, TypeOK
  <2> QED
    BY <1>1, <2>1, <2>2 DEF Inv, SameAnswer, Unterminated
<1>6. ASSUME NEW how \in {"done", "reset", "idle", "duration", "client"}, StreamEnds(how) PROVE Inv'
  <2>1. PICK cutFrame : cutFrame = [Blank EXCEPT !.error = TRUE]
    OBVIOUS
  <2>2. PICK told : told = IF how \in {"idle", "duration"} /\ boundaryClosed THEN consume(Client, cutFrame) ELSE Client
    OBVIOUS
  <2>3. PICK e : e = end(told)
    OBVIOUS
  <2>4. /\ ending = "open" /\ ending' = how /\ UNCHANGED <<sent, gap, frame, lost, mixed, oddUsage>>
        /\ tally' = IF gap = "full" /\ ~lost THEN readFrame(frame) ELSE tally
        /\ tr' = e.t /\ out' = e.out
    BY <1>6, <2>1, <2>2, <2>3 DEF StreamEnds, Translated
  <2>5. Ok(Client) /\ Client.t = tr
    BY <2>4, OkParts DEF Client, Inv
  <2>6. Ok(told) /\ SameFigures(Client, told)
    BY <2>1, <2>2, <2>5, CanBeRead, ConsumeOk DEF SameFigures
  <2>7. e.t \in Translator /\ SameFigures(told, e) /\ e.out \in Seq(Event) /\ Message(e.out)
    BY <2>3, <2>6, EndBegun, EndEmpty
  <2>8. WellFramed'
    BY <2>4, <2>7, EndedWellFramed, WellFramedNext
  <2>9. frame \in Readable /\ tally \in Tallied
    BY CanBeRead DEF Inv, TypeOK, Tallied
  <2>10. readFrame(frame) \in Tallied /\ readFrame(frame).dropped = tally.dropped
    BY <2>9, ReadFrameIs
  <2>11. TypeOK'
    BY <2>4, <2>7, <2>9, <2>10 DEF Inv, TypeOK, Tallied
  <2>12. tr'.content = tr.content /\ tr'.usage = tr.usage
    BY <2>4, <2>5, <2>6, <2>7 DEF SameFigures
  <2>13. SameAnswer'
    BY <2>4, <2>12 DEF Inv, SameAnswer, Unterminated
  <2> QED
    BY <2>4, <2>8, <2>10, <2>11, <2>13 DEF Inv
<1>7. CASE UNCHANGED vars
  <2>1. UNCHANGED <<sent, gap, frame, tr, out, tally, lost, mixed, oddUsage, ending>>
    BY <1>7 DEF vars
  <2>2. WellFramed'
    BY <2>1, WellFramedNow, WellFramedNext DEF Inv
  <2> QED
    BY <2>1, <2>2 DEF Inv, TypeOK, SameAnswer, Unterminated
<1> QED
  BY <1>2, <1>3, <1>4, <1>5, <1>6, <1>7 DEF Next

\* Whatever frames arrive, however they are cut and however the stream ends,
\* the client's message is well formed and the tally agrees with it
\* (lib/anthropic.ts, lib/streamTally.ts).
THEOREM WellFormedMessage == Spec => [](TypeOK /\ WellFramed /\ SameAnswer)
<1>1. Inv => TypeOK /\ WellFramed /\ SameAnswer
  BY DEF Inv
<1> QED
  BY <1>1, InvInit, InvStep, PTL DEF Spec

=============================================================================
