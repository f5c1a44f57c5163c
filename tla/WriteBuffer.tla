---------------------------- MODULE WriteBuffer ----------------------------
(***************************************************************************)
(* The in-process buffer in front of a table: services/usagePipeline.ts    *)
(* and, with the same control, the audit writer of audit.service.ts.       *)
(* Events are numbered in the order they are emitted.                      *)
(*                                                                         *)
(* JavaScript runs one callback at a time, so what a function does between *)
(* two awaits is one step.  The only await of a flush is the insert, which *)
(* the store carries out chunk by chunk and which may fail after any of    *)
(* them.  drain() is called at shutdown and before a factory reset or a    *)
(* restore empties the table.                                              *)
(***************************************************************************)
EXTENDS Naturals, Sequences

CONSTANTS
  MaxEvents,   \* bound: how many events are emitted
  MaxBatch,    \* USAGE_FLUSH_MAX
  Cap,         \* USAGE_BUFFER_CAP
  Chunk,       \* INSERT_CHUNK
  MaxRounds    \* drain's guard against looping

ASSUME BufferConstants ==
  /\ MaxEvents \in Nat
  /\ MaxBatch \in Nat \ {0} /\ Cap \in Nat \ {0} /\ Chunk \in Nat \ {0} /\ MaxRounds \in Nat

VARIABLES
  emitted,     \* events 1..emitted have been emitted
  buffer,      \* buffered events, oldest first
  batch,       \* the batch of the flush in flight, <<>> when there is none (`flushing` is FALSE)
  sent,        \* how much of the batch the store has written in this attempt
  timer,       \* the flush interval is running
  table,       \* the events whose row is in the table
  shed,        \* history: events refused at the cap (counted in `dropped`)
  cut,         \* history: events sliced off when a failed batch was queued again (not counted)
  dbUp,        \* the database has recovered and inserts fail no more
  drain,       \* where a drain is
  rounds,      \* flushes the drain has made
  purpose,     \* what the drain is for
  old          \* history: events 1..old were emitted before the drain began

bufVars   == <<buffer, batch, sent>>
lossVars  == <<shed, cut>>
drainVars == <<drain, rounds, purpose, old>>
vars      == <<emitted, bufVars, timer, table, lossVars, dbUp, drainVars>>

Flushing == batch # <<>>
Exited   == drain = "exited"
Events(s) == {s[i] : i \in 1..Len(s)}
InMemory == Events(buffer) \cup Events(batch)
Smaller(a, b) == IF a < b THEN a ELSE b

Init ==
  /\ emitted = 0
  /\ buffer = <<>> /\ batch = <<>> /\ sent = 0
  /\ timer = FALSE
  /\ table = {} /\ shed = {} /\ cut = {}
  /\ dbUp = FALSE
  /\ drain = "off" /\ rounds = 0 /\ purpose = "none" /\ old = 0

\* flush() up to its await: the buffer becomes the batch.
StartFlush(b) == batch' = b /\ buffer' = <<>> /\ sent' = 0

EmitSheds ==
  /\ Len(buffer) >= Cap
  /\ shed' = shed \cup {emitted + 1}
  /\ UNCHANGED <<bufVars, timer>>

EmitBuffers ==
  /\ Len(buffer) < Cap
  /\ timer' = TRUE
  /\ LET b == Append(buffer, emitted + 1)
     IN  IF Len(b) >= MaxBatch /\ ~Flushing
         THEN StartFlush(b)
         ELSE buffer' = b /\ UNCHANGED <<batch, sent>>
  /\ UNCHANGED shed

\* emit(): a request that is being answered, or that was answered and is still recording.
Emit ==
  /\ ~Exited /\ emitted < MaxEvents
  /\ emitted' = emitted + 1
  /\ EmitSheds \/ EmitBuffers
  /\ UNCHANGED <<table, cut, dbUp, drainVars>>

\* The interval flushes full batches only.
TimerFlushFull ==
  /\ ~Exited /\ timer /\ ~Flushing /\ Len(buffer) >= MaxBatch
  /\ StartFlush(buffer)
  /\ UNCHANGED <<emitted, timer, table, lossVars, dbUp, drainVars>>

\* The interval fires.
TimerFlush ==
  /\ ~Exited /\ timer /\ ~Flushing /\ buffer # <<>>
  /\ StartFlush(buffer)
  /\ UNCHANGED <<emitted, timer, table, lossVars, dbUp, drainVars>>

\* A flush that drain() awaited returns how many rows it wrote.
Returned(wrote) ==
  /\ drain' = IF drain # "awaiting" THEN drain ELSE IF wrote THEN "loop" ELSE "done"
  /\ UNCHANGED <<rounds, purpose, old>>

\* insertBatch: one more chunk is in the table; duplicates by id are ignored.
InsertChunk ==
  /\ ~Exited /\ Flushing
  /\ LET upto == Smaller(sent + Chunk, Len(batch))
     IN  /\ table' = table \cup {batch[i] : i \in (sent + 1)..upto}
         /\ IF upto = Len(batch)
            THEN batch' = <<>> /\ sent' = 0 /\ Returned(TRUE)
            ELSE sent' = upto /\ UNCHANGED <<batch, drainVars>>
  /\ UNCHANGED <<emitted, buffer, timer, lossVars, dbUp>>

\* The failed batch goes behind what arrived since.
RequeueNewestFirst ==
  /\ buffer' = SubSeq(buffer \o batch, 1, Smaller(Cap, Len(buffer \o batch)))
  /\ cut' = cut \cup Events(SubSeq(buffer \o batch, Cap + 1, Len(buffer \o batch)))

\* The cap is forgotten on the way back.
RequeueUnbounded == buffer' = batch \o buffer /\ UNCHANGED cut

\* Only what was not written goes back, counted from the row after the one that failed.
RequeueUnsent ==
  LET rest == SubSeq(batch, sent + 2, Len(batch)) \o buffer
  IN  /\ buffer' = SubSeq(rest, 1, Smaller(Cap, Len(rest)))
      /\ cut' = cut \cup Events(SubSeq(rest, Cap + 1, Len(rest)))

\* The whole batch goes back in front, cut to the cap from the newest end.
Requeue ==
  /\ buffer' = SubSeq(batch \o buffer, 1, Smaller(Cap, Len(batch \o buffer)))
  /\ cut' = cut \cup Events(SubSeq(batch \o buffer, Cap + 1, Len(batch \o buffer)))

\* The insert throws, possibly after some chunks are in the table.
InsertFails ==
  /\ ~Exited /\ Flushing /\ ~dbUp
  /\ Requeue
  /\ batch' = <<>> /\ sent' = 0
  /\ Returned(FALSE)
  /\ UNCHANGED <<emitted, timer, table, shed, dbUp>>

----------------------------------------------------------------------------
(* drain(), and what it is called before.                                  *)

\* One turn of drain's loop, up to its await; flush() returns 0 at once while another flush runs.
DrainTurn ==
  IF buffer = <<>> \/ rounds >= MaxRounds \/ Flushing
  THEN drain' = "done" /\ UNCHANGED <<rounds, bufVars>>
  ELSE drain' = "awaiting" /\ rounds' = rounds + 1 /\ StartFlush(buffer)

\* drain() up to its first await: stop() the interval and enter the loop.
DrainBegins(why) ==
  /\ drain = "off"
  /\ timer' = FALSE
  /\ purpose' = why /\ old' = emitted
  /\ DrainTurn
  /\ UNCHANGED <<emitted, table, lossVars, dbUp>>

\* The awaited flush wrote its batch: the loop goes round again.
DrainLoop ==
  /\ drain = "loop"
  /\ DrainTurn
  /\ UNCHANGED <<emitted, timer, table, lossVars, dbUp, purpose, old>>

\* factoryReset: emptyEveryTable, once the drain has returned; the gateway serves on.
ResetWipes ==
  /\ drain = "done" /\ purpose = "reset"
  /\ table' = {}
  /\ drain' = "wiped"
  /\ UNCHANGED <<emitted, bufVars, timer, lossVars, dbUp, rounds, purpose, old>>

\* shutdown(): the process exits after its steps, at the deadline, or at a second signal.
Exit ==
  /\ purpose = "shutdown" /\ ~Exited
  /\ drain' = "exited"
  /\ buffer' = <<>> /\ batch' = <<>> /\ sent' = 0 /\ timer' = FALSE
  /\ UNCHANGED <<emitted, table, lossVars, dbUp, rounds, purpose, old>>

DbRecovers ==
  /\ ~dbUp
  /\ dbUp' = TRUE
  /\ UNCHANGED <<emitted, bufVars, timer, table, lossVars, drainVars>>

Next ==
  \/ Emit \/ TimerFlush \/ InsertChunk \/ InsertFails
  \/ (\E why \in {"reset", "shutdown"} : DrainBegins(why)) \/ DrainLoop \/ ResetWipes \/ Exit
  \/ DbRecovers

\* The interval fires while it is running, and an insert is answered.
Fairness == WF_vars(TimerFlush) /\ WF_vars(InsertChunk)

Spec == Init /\ [][Next]_vars /\ Fairness

----------------------------------------------------------------------------

Sorted(s) == \A i \in 1..Len(s), j \in 1..Len(s) : i < j => s[i] < s[j]

\* Types, and the bound on memory: neither the buffer nor the batch ever exceeds the cap.
TypeOK ==
  /\ emitted \in 0..MaxEvents
  /\ buffer \in Seq(1..emitted) /\ Len(buffer) <= Cap
  /\ batch \in Seq(1..emitted) /\ Len(batch) <= Cap
  /\ sent \in 0..Len(batch) /\ (Flushing => sent < Len(batch))
  /\ timer \in BOOLEAN /\ dbUp \in BOOLEAN
  /\ table \subseteq 1..emitted /\ shed \subseteq 1..emitted /\ cut \subseteq 1..emitted
  /\ drain \in {"off", "loop", "awaiting", "done", "wiped", "exited"}
  /\ rounds \in 0..MaxRounds /\ purpose \in {"none", "reset", "shutdown"}
  /\ old \in 0..emitted

\* What is in memory is in the order it was emitted, and no event is there twice, through any
\* sequence of failed inserts, retries and new events: the batch is older than the buffer.
OldestFirst == Sorted(batch \o buffer)

\* While the process lives, and until the table is emptied on purpose, every event emitted is in
\* the table or in memory, or was shed at the cap (counted) or cut at the cap on a retry.
NothingVanishes ==
  (drain \notin {"wiped", "exited"}) => 1..emitted = table \cup InMemory \cup shed \cup cut

\* An event waits in memory for ever only if its timer was stopped: once the database is up, the
\* interval empties the buffer, whatever failed before.
EventuallyFlushed ==
  \A e \in 1..MaxEvents : (dbUp /\ timer /\ e \in InMemory) ~> (e \notin InMemory \/ ~timer)

\* factoryReset (firstRun.service.ts): the pipelines are drained first, "so no buffered pre-reset
\* entry can flush after the wipe".
NoResurrection == drain = "wiped" => table \cap (1..old) = {}

=============================================================================
