------------------------------- MODULE Stream -------------------------------
(***************************************************************************)
(* One streamed answer on its way to an Anthropic client from a provider   *)
(* that speaks OpenAI: the relay (services/proxy/deliverStream.ts,         *)
(* services/proxy/sse.ts), the translator that opens and closes content    *)
(* blocks as the deltas arrive (lib/anthropic.ts, lib/anthropicReply.ts),  *)
(* and the tally that bills and caches what was said (lib/streamTally.ts). *)
(*                                                                         *)
(* A frame is what its JSON says, never its text: whether it carries text, *)
(* a tool-call fragment, usage, a finish reason or an error.  Several tool *)
(* calls in one frame are the loop of the code once per call, as           *)
(* consecutive frames are.  Of its usage either figure may be missing or   *)
(* be digits in quotes, which the two readers take differently.  What      *)
(* matters of the bytes is how a frame is cut: the part before its line    *)
(* end, and the blank line that closes the event, may come in later chunks *)
(* or never, and the tally forgets a line that grows beyond a million      *)
(* characters before its end has come.                                     *)
(***************************************************************************)
EXTENDS Integers, Sequences, FiniteSets

CONSTANTS
  Frames,      \* the frames a provider sends: [text, tool, args, usage, finish, error]
  ToolCalls,   \* OpenAI's tool_call indices
  NoTool,      \* no tool call in the frame
  MaxFrames    \* bound: frames in one stream

Absent == -1

\* A frame's usage object: prompt_tokens and completion_tokens, Absent where
\* there is none, and which of them are JSON numbers.
Figures == {u \in [given : BOOLEAN, input : Nat \cup {Absent}, output : Nat \cup {Absent},
                   numbers : SUBSET {"input", "output"}] :
              /\ "input" \in u.numbers => u.input # Absent
              /\ "output" \in u.numbers => u.output # Absent
              /\ ~u.given => u.numbers = {}}

NoFigures == [given |-> FALSE, input |-> Absent, output |-> Absent, numbers |-> {}]

ASSUME StreamAssumption ==
  /\ MaxFrames \in Nat /\ NoTool \notin ToolCalls
  /\ Frames \subseteq [text : BOOLEAN, tool : ToolCalls \cup {NoTool}, args : BOOLEAN,
                       usage : Figures, finish : BOOLEAN, error : BOOLEAN]

VARIABLES
  sent,       \* how many frames the provider has begun
  gap,        \* where the relayed bytes end: "closed", "part", "full" or "line"
  frame,      \* the frame that is under way, when gap is "part" or "full"
  tr,         \* the translator's fields
  out,        \* the events on the client's socket
  tally,      \* what streamTally has read: [content, usage, dropped]
  lost,       \* the tally has forgotten the beginning of the line under way
  mixed,      \* history: an error frame that also carried text was read
  oddUsage,   \* history: the last usage was not two numbers in a line both readers read
  ending      \* how the stream ended, "open" until it has

vars == <<sent, gap, frame, tr, out, tally, lost, mixed, oddUsage, ending>>

Unreported == [reported |-> FALSE, input |-> 0, output |-> 0]

\* The fields of AnthropicStreamTranslator that steer it.
Fresh == [started |-> FALSE, textIndex |-> Absent, nextIndex |-> 0,
          toolBlocks |-> [i \in ToolCalls |-> Absent], stopReason |-> FALSE,
          usage |-> Unreported, content |-> 0]

Blank == [text |-> FALSE, tool |-> NoTool, args |-> FALSE, usage |-> NoFigures,
          finish |-> FALSE, error |-> FALSE]

Init ==
  /\ sent = 0 /\ gap = "closed" /\ frame = Blank
  /\ tr = Fresh /\ out = <<>>
  /\ tally = [content |-> 0, usage |-> Unreported, dropped |-> FALSE]
  /\ lost = FALSE /\ mixed = FALSE /\ oddUsage = FALSE
  /\ ending = "open"

Usage == [reported : BOOLEAN, input : Nat, output : Nat]

Translator ==
  [started : BOOLEAN, textIndex : Nat \cup {Absent}, nextIndex : Nat,
   toolBlocks : [ToolCalls -> Nat \cup {Absent}], stopReason : BOOLEAN, usage : Usage, content : Nat]

Event ==
  [ev : {"message_start", "content_block_start", "content_block_delta", "content_block_stop",
         "error", "message_delta", "message_stop"}, idx : Nat \cup {Absent}]

TypeOK ==
  /\ sent \in 0..MaxFrames /\ gap \in {"closed", "part", "full", "line"}
  /\ frame \in Frames \cup {Blank}
  /\ tr \in Translator /\ out \in Seq(Event)
  /\ tally \in [content : Nat, usage : Usage, dropped : BOOLEAN]
  /\ lost \in BOOLEAN /\ mixed \in BOOLEAN /\ oddUsage \in BOOLEAN
  /\ ending \in {"open", "done", "reset", "idle", "duration", "client"}

---------------------------------------------------------------------------
\* The translator.  Each operator takes the translator with the events it has
\* emitted, s = [t, out], and one frame.

sseEvent(ev, idx) == [ev |-> ev, idx |-> idx]
Emit(s, ev, idx) == [s EXCEPT !.out = Append(@, sseEvent(ev, idx))]

begin(s) ==
  IF s.t.started THEN s ELSE Emit([s EXCEPT !.t.started = TRUE], "message_start", Absent)

closeTextOnce(s) == IF s.t.textIndex = Absent THEN s ELSE Emit(s, "content_block_stop", s.t.textIndex)

closeText(s) ==
  IF s.t.textIndex = Absent THEN s
  ELSE [Emit(s, "content_block_stop", s.t.textIndex) EXCEPT !.t.textIndex = Absent]

textRun(s, f) ==
  LET opened == IF s.t.textIndex # Absent THEN s
                ELSE [Emit(s, "content_block_start", s.t.nextIndex)
                        EXCEPT !.t.textIndex = s.t.nextIndex, !.t.nextIndex = @ + 1]
  IN IF f.text
     THEN [Emit(opened, "content_block_delta", opened.t.textIndex) EXCEPT !.t.content = @ + 1]
     ELSE s

toolCall(s, f) ==
  LET ended  == closeText(s)
      opened == IF s.t.toolBlocks[f.tool] # Absent THEN s
                ELSE [Emit(ended, "content_block_start", s.t.nextIndex)
                        EXCEPT !.t.toolBlocks[f.tool] = s.t.nextIndex, !.t.nextIndex = @ + 1]
  IN IF f.tool = NoTool THEN s
     ELSE IF f.args THEN Emit(opened, "content_block_delta", opened.t.toolBlocks[f.tool])
     ELSE opened

\* `Number(usage.x ?? this.x)`, figure by figure.
Merged(u, given) ==
  IF ~given.given THEN u
  ELSE [reported |-> TRUE,
        input  |-> IF given.input = Absent THEN u.input ELSE given.input,
        output |-> IF given.output = Absent THEN u.output ELSE given.output]

consume(s, f) ==
  LET begun == begin(s)
      read  == [begun EXCEPT !.t.usage = Merged(@, f.usage)]
      said  == toolCall(textRun(read, f), f)
  IN IF f.error THEN Emit(begun, "error", Absent)
     ELSE IF f.finish THEN [said EXCEPT !.t.stopReason = TRUE] ELSE said

\* The blocks of toolBlocks.values(): a Map keeps the order they were opened in.
inOrder(blocks) ==
  CHOOSE q \in [1..Cardinality(blocks) -> blocks] : \A j, k \in DOMAIN q : j < k => q[j] < q[k]

\* end(): an empty stream gets an empty text block, any other has what it
\* opened closed; the terminal events follow.
end(s) ==
  LET toolIndices == inOrder({s.t.toolBlocks[i] : i \in ToolCalls} \ {Absent})
      stops   == [k \in DOMAIN toolIndices |-> sseEvent("content_block_stop", toolIndices[k])]
      closed  == [closeText(s) EXCEPT !.out = @ \o stops, !.t.toolBlocks = Fresh.toolBlocks]
      empty   == Emit(Emit(begin(s), "content_block_start", 0), "content_block_stop", 0)
  IN Emit(Emit(IF s.t.started THEN closed ELSE empty, "message_delta", Absent), "message_stop", Absent)

Translated(s) == tr' = s.t /\ out' = s.out
Client == [t |-> tr, out |-> out]

---------------------------------------------------------------------------
\* The tally reads the same frames by itself.

\* The last usage whose prompt_tokens is a number; an output figure that is
\* not one counts as none.
LastUsage(u, given) ==
  IF "input" \in given.numbers
  THEN [reported |-> TRUE, input |-> given.input,
        output |-> IF "output" \in given.numbers THEN given.output ELSE 0]
  ELSE u

\* A reader that adds usage up instead of taking the last figure.
addUp(f) ==
  [tally EXCEPT !.content = IF f.text THEN @ + 1 ELSE @,
                !.usage = IF "input" \in f.usage.numbers
                          THEN [LastUsage(@, f.usage) EXCEPT !.input = @ + tally.usage.input] ELSE @]

readFrame(f) ==
  [tally EXCEPT !.content = IF f.text THEN @ + 1 ELSE @, !.usage = LastUsage(@, f.usage)]

\* A line that has arrived whole: the translator reads it, and the tally
\* unless it has forgotten its beginning.  Of a frame with an error in it the
\* translator reads nothing else, and the tally whatever there is.
Arrived(f) ==
  /\ Translated(consume(Client, f))
  /\ tally' = IF lost THEN tally ELSE readFrame(f)
  /\ lost' = FALSE
  /\ mixed' = (mixed \/ (f.error /\ f.text))
  /\ oddUsage' = IF f.usage.given
                 THEN lost \/ f.error \/ f.usage.numbers # {"input", "output"}
                 ELSE oddUsage

\* The line is still without its end: beyond MAX_FRAME_CHARS the tally drops
\* what it has of it.
Pending(long) ==
  /\ lost' = (lost \/ long)
  /\ tally' = [tally EXCEPT !.dropped = @ \/ long]

---------------------------------------------------------------------------
\* The relay's loop: one chunk read, tallied and written.

\* A whole event in one chunk.
WholeEvent(f) ==
  /\ ending = "open" /\ gap = "closed" /\ sent < MaxFrames
  /\ sent' = sent + 1
  /\ Arrived(f)
  /\ UNCHANGED <<gap, frame, ending>>

\* The beginning of a frame, cut inside its JSON or just before its line end.
\* The translator keeps it for later, and the tally unless it is too long.
FrameBegins(f, cut, long) ==
  /\ ending = "open" /\ gap = "closed" /\ sent < MaxFrames
  /\ sent' = sent + 1 /\ gap' = cut /\ frame' = f
  /\ Pending(long)
  /\ UNCHANGED <<tr, out, mixed, oddUsage, ending>>

\* The rest of its line, or of its JSON only.
FrameGoesOn ==
  /\ ending = "open" /\ gap \in {"part", "full"}
  /\ \/ gap' \in {"line", "closed"} /\ frame' = Blank /\ Arrived(frame)
     \/ /\ gap = "part" /\ gap' = "full"
        /\ \E long \in BOOLEAN : Pending(long)
        /\ UNCHANGED <<frame, tr, out, mixed, oddUsage>>
  /\ UNCHANGED <<sent, ending>>

\* The blank line after it.
EventCloses ==
  /\ ending = "open" /\ gap = "line"
  /\ gap' = "closed"
  /\ UNCHANGED <<sent, frame, tr, out, tally, lost, mixed, oddUsage, ending>>

\* eventBoundary: the gateway writes a frame of its own only between events.
boundaryClosed == gap = "closed"

\* The loop is left: the provider finished, its connection broke, a timer
\* cut it, or the caller hung up.  tally.end() reads a last line without a
\* line end if it has all of it; cutFrame goes out on a boundary; the reply ends,
\* and the translator with it.
StreamEnds(how) ==
  /\ ending = "open"
  /\ ending' = how
  /\ tally' = IF gap = "full" /\ ~lost THEN readFrame(frame) ELSE tally
  /\ LET cutFrame == [Blank EXCEPT !.error = TRUE]
         told == IF how \in {"idle", "duration"} /\ boundaryClosed THEN consume(Client, cutFrame) ELSE Client
     IN Translated(end(told))
  /\ UNCHANGED <<sent, gap, frame, lost, mixed, oddUsage>>

Next ==
  \/ \E f \in Frames :
       \/ WholeEvent(f)
       \/ \E cut \in {"part", "full"}, long \in BOOLEAN : FrameBegins(f, cut, long)
  \/ FrameGoesOn \/ EventCloses
  \/ \E how \in {"done", "reset", "idle", "duration", "client"} : StreamEnds(how)

Spec == Init /\ [][Next]_vars

---------------------------------------------------------------------------

Positions(ev, idx) == {k \in DOMAIN out : out[k] = sseEvent(ev, idx)}
Indices == {out[k].idx : k \in DOMAIN out} \ {Absent}

\* Whatever mix of text, tool calls, usage and errors arrives, the client
\* gets a well-formed message: message_start once and first, every content
\* block started once, in the order of the indices, and stopped at most once,
\* deltas only inside their block; and once the stream has ended every block
\* stopped, then message_delta and message_stop, once, at the very end
\* (AnthropicStreamTranslator: "always closes what it opened").
WellFramed ==
  LET Starts(i) == Positions("content_block_start", i)
      Stops(i)  == Positions("content_block_stop", i) IN
  /\ \A k \in Positions("message_start", Absent) : k = 1
  /\ out # <<>> => out[1].ev = "message_start"
  /\ \A i \in Indices :
       /\ \E k \in Starts(i) : Starts(i) = {k}
       /\ \A k \in Starts(i), d \in Positions("content_block_delta", i) \cup Stops(i) : k < d
       /\ \A s \in Stops(i) : Stops(i) = {s} /\ \A d \in Positions("content_block_delta", i) : d < s
       /\ \A j \in Indices : \A k \in Starts(i), l \in Starts(j) : i < j => k < l
       /\ ending # "open" => Stops(i) # {}
  /\ ending # "open" =>
       /\ Positions("message_delta", Absent) = {Len(out) - 1}
       /\ Positions("message_stop", Absent) = {Len(out)}

\* The provider left its last line without a line end: tally.end() reads
\* such a line, the translator's end() does not.
Unterminated == ending # "open" /\ gap = "full"

\* What is billed and cached is what the client was given: however the bytes
\* were cut, the tally and the translator, which parse the stream apart from
\* each other, have read the same text and the same usage.  The text, unless
\* the tally says it is degraded, or text came in a frame with an error; the
\* usage, unless the last usage of the stream came in a frame with an error,
\* in a line too long for the tally, or with a figure that was missing or no
\* number; and neither when the last line has no line end.
SameAnswer ==
  ~Unterminated =>
    /\ ~tally.dropped /\ ~mixed => tally.content = tr.content
    /\ ~oddUsage => tally.usage = tr.usage

\* A truncated answer never looks whole: when the provider broke off or the
\* gateway cut the stream before the finish reason came, the client is told
\* (services/proxy/sse.ts, cutFrame).
TruncationShown ==
  ending \in {"reset", "idle", "duration"} /\ ~tr.stopReason => Positions("error", Absent) # {}

=============================================================================
