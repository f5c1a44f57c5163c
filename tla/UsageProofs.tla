----------------------------- MODULE UsageProofs ----------------------------
(***************************************************************************)
(* What a served request leaves behind: its usage row on the way through   *)
(* the write buffer, and its cost in the team's budget counter.            *)
(*                                                                         *)
(* The write buffer keeps the events given to it, for every cap, batch and *)
(* chunk size and any number of events, failed inserts, drains and         *)
(* retries: first what its sequence operations do to the events in them,   *)
(* then one step per action.  The budget counter survives the loss of the  *)
(* KV entry, never shrinks and never carries spend into a new window, for  *)
(* every set of requests, cap, and number of windows and losses.           *)
(***************************************************************************)
EXTENDS WriteBuffer, Budget, SequenceTheorems, TLAPS

\* An appended event is one more event.
LEMMA AppendEvents ==
  ASSUME NEW T, NEW s \in Seq(T), NEW e \in T
  PROVE  Events(Append(s, e)) = Events(s) \cup {e}
<1>1. /\ Len(Append(s, e)) = Len(s) + 1 /\ Len(s) \in Nat
      /\ \A i \in 1..Len(s) : Append(s, e)[i] = s[i]
      /\ Append(s, e)[Len(s) + 1] = e
  BY AppendProperties, LenProperties
<1> QED
  BY <1>1 DEF Events

\* Two sequences put together hold the events of both.
LEMMA ConcatEvents ==
  ASSUME NEW T, NEW s \in Seq(T), NEW t \in Seq(T)
  PROVE  Events(s \o t) = Events(s) \cup Events(t)
<1>1. /\ Len(s \o t) = Len(s) + Len(t) /\ Len(s) \in Nat /\ Len(t) \in Nat
      /\ \A i \in 1..(Len(s) + Len(t)) : (s \o t)[i] = IF i <= Len(s) THEN s[i] ELSE t[i - Len(s)]
  BY ConcatProperties, LenProperties
<1>2. Events(s) \subseteq Events(s \o t)
  BY <1>1 DEF Events
<1>3. ASSUME NEW j \in 1..Len(t) PROVE t[j] \in Events(s \o t)
  <2>1. Len(s) + j \in 1..Len(s \o t) /\ (s \o t)[Len(s) + j] = t[j]
    BY <1>1
  <2> QED
    BY <2>1 DEF Events
<1>4. Events(s \o t) \subseteq Events(s) \cup Events(t)
  BY <1>1 DEF Events
<1> QED
  BY <1>2, <1>3, <1>4 DEF Events

\* Requeueing cuts at the cap: what is kept and what is cut off are together what was there, and
\* the kept part is in the same order.
LEMMA CutAtCap ==
  ASSUME NEW T, NEW s \in Seq(T)
  PROVE  LET kept == SubSeq(s, 1, Smaller(Cap, Len(s)))
             gone == SubSeq(s, Cap + 1, Len(s))
         IN  /\ kept \in Seq(T) /\ Len(kept) <= Cap
             /\ Events(kept) \cup Events(gone) = Events(s)
             /\ Sorted(s) => Sorted(kept)
<1> DEFINE k == Smaller(Cap, Len(s))
           kept == SubSeq(s, 1, k)
           gone == SubSeq(s, Cap + 1, Len(s))
<1>1. Len(s) \in Nat /\ Cap \in Nat /\ \A i \in 1..Len(s) : s[i] \in T
  BY LenProperties, BufferConstants
<1>2. k \in 0..Len(s) /\ k <= Cap /\ (k < Len(s) => k = Cap)
  BY <1>1 DEF Smaller
<1> HIDE DEF k
<1>3. /\ kept \in Seq(T) /\ Len(kept) = k
      /\ \A i \in 1..k : kept[i] = s[i]
  <2>1. \A i \in 1..k : s[i] \in T
    BY <1>1, <1>2
  <2>2. /\ SubSeq(s, 1, k) \in Seq(T) /\ Len(SubSeq(s, 1, k)) = IF 1 <= k THEN k - 1 + 1 ELSE 0
        /\ \A i \in 1..(k - 1 + 1) : SubSeq(s, 1, k)[i] = s[1 + i - 1]
    BY <1>2, <2>1, SubSeqProperties
  <2> QED
    BY <2>2, <1>2
<1>4. /\ Len(gone) = IF Cap + 1 <= Len(s) THEN Len(s) - Cap ELSE 0
      /\ \A i \in 1..(Len(s) - Cap) : gone[i] = s[Cap + i]
  <2>1. \A i \in (Cap + 1)..Len(s) : s[i] \in T
    BY <1>1
  <2>2. /\ Len(gone) = IF Cap + 1 <= Len(s) THEN Len(s) - (Cap + 1) + 1 ELSE 0
        /\ \A i \in 1..(Len(s) - (Cap + 1) + 1) : gone[i] = s[Cap + 1 + i - 1]
    BY <1>1, <2>1, SubSeqProperties
  <2> QED
    BY <2>2, <1>1
<1> HIDE DEF kept, gone
<1>5. Events(kept) \subseteq Events(s) /\ Events(gone) \subseteq Events(s)
  <2>1. \A i \in 1..Len(kept) : kept[i] = s[i] /\ i \in 1..Len(s)
    BY <1>1, <1>2, <1>3
  <2>2. \A i \in 1..Len(gone) : gone[i] = s[Cap + i] /\ Cap + i \in 1..Len(s)
    BY <1>1, <1>4
  <2> QED
    BY <2>1, <2>2 DEF Events
<1>6. ASSUME NEW i \in 1..Len(s) PROVE s[i] \in Events(kept) \cup Events(gone)
  <2>1. CASE i <= k
    BY <1>2, <1>3, <2>1 DEF Events
  <2>2. CASE i > k
    <3>1. i - Cap \in 1..Len(gone) /\ gone[i - Cap] = s[i]
      BY <1>1, <1>2, <1>4, <2>2
    <3> QED
      BY <3>1 DEF Events
  <2> QED
    BY <2>1, <2>2, <1>2
<1>7. Sorted(s) => Sorted(kept)
  BY <1>1, <1>2, <1>3 DEF Sorted
<1>8. Events(kept) \cup Events(gone) = Events(s)
  BY <1>5, <1>6 DEF Events
<1> QED
  BY <1>2, <1>3, <1>7, <1>8 DEF k, kept, gone

\* The newest event goes last.
LEMMA AppendSorted ==
  ASSUME NEW n \in Nat, NEW s \in Seq(1..n), Sorted(s)
  PROVE  Append(s, n + 1) \in Seq(1..(n + 1)) /\ Sorted(Append(s, n + 1))
<1>1. s \in Seq(1..(n + 1)) /\ n + 1 \in 1..(n + 1)
  BY SeqMonotonic
<1>2. /\ Append(s, n + 1) \in Seq(1..(n + 1)) /\ Len(Append(s, n + 1)) = Len(s) + 1
      /\ \A i \in 1..Len(s) : Append(s, n + 1)[i] = s[i]
      /\ Append(s, n + 1)[Len(s) + 1] = n + 1
  BY <1>1, AppendProperties
<1>3. Len(s) \in Nat /\ \A i \in 1..Len(s) : s[i] \in 1..n
  BY LenProperties
<1>4. PICK a : a = Append(s, n + 1)
  OBVIOUS
<1>5. ASSUME NEW i \in 1..Len(a), NEW j \in 1..Len(a), i < j PROVE a[i] < a[j]
  <2>1. i \in 1..Len(s) /\ a[i] = s[i] /\ s[i] \in 1..n
    BY <1>2, <1>3, <1>4, <1>5
  <2>2. CASE j = Len(s) + 1
    BY <1>2, <1>4, <2>1, <2>2
  <2>3. CASE j \in 1..Len(s)
    BY <1>2, <1>4, <1>5, <2>1, <2>3 DEF Sorted
  <2> QED
    BY <1>2, <1>3, <1>4, <2>2, <2>3
<1> QED
  BY <1>2, <1>4, <1>5 DEF Sorted

\* Of two sequences put together in order, each is in order.
LEMMA PartsSorted ==
  ASSUME NEW T, NEW s \in Seq(T), NEW t \in Seq(T), Sorted(s \o t)
  PROVE  Sorted(s) /\ Sorted(t)
<1>1. /\ Len(s \o t) = Len(s) + Len(t) /\ Len(s) \in Nat /\ Len(t) \in Nat
      /\ \A i \in 1..(Len(s) + Len(t)) : (s \o t)[i] = IF i <= Len(s) THEN s[i] ELSE t[i - Len(s)]
  BY ConcatProperties, LenProperties
<1>2. Sorted(s)
  <2>1. \A i \in 1..Len(s) : i \in 1..Len(s \o t) /\ (s \o t)[i] = s[i]
    BY <1>1
  <2> QED
    BY <2>1 DEF Sorted
<1>3. Sorted(t)
  <2>1. \A i \in 1..Len(t) : Len(s) + i \in 1..Len(s \o t) /\ (s \o t)[Len(s) + i] = t[i]
    BY <1>1
  <2>2. \A i \in 1..Len(t), j \in 1..Len(t) : i < j => Len(s) + i < Len(s) + j
    BY <1>1
  <2> QED
    BY <2>1, <2>2 DEF Sorted
<1> QED
  BY <1>2, <1>3

----------------------------------------------------------------------------

\* What a completed flush relies on: the rows of its earlier chunks are still in the table.
SentInTable ==
  (drain \notin {"wiped", "exited"}) => \A i \in 1..sent : batch[i] \in table

Inv == TypeOK /\ OldestFirst /\ SentInTable /\ NothingVanishes

\* The events in memory are those of the batch and the buffer put together.
LEMMA MemoryIsConcat == TypeOK => InMemory = Events(batch \o buffer) /\ batch \o buffer \in Seq(1..emitted)
  BY ConcatEvents, ConcatProperties DEF TypeOK, InMemory

\* The types say what a step may assume of the sequences.
LEMMA SeqTypes ==
  ASSUME TypeOK
  PROVE  /\ Len(batch) \in Nat /\ Len(buffer) \in Nat /\ emitted \in Nat
         /\ Events(batch) \subseteq 1..emitted /\ Events(buffer) \subseteq 1..emitted
         /\ (batch = <<>> => batch \o buffer = buffer /\ Events(batch) = {})
         /\ (buffer = <<>> => batch \o buffer = batch /\ Events(buffer) = {})
<1>1. batch \in Seq(1..emitted) /\ buffer \in Seq(1..emitted) /\ emitted \in Nat
  BY BufferConstants DEF TypeOK
<1>2. Len(batch) \in Nat /\ Len(buffer) \in Nat
  BY <1>1, LenProperties
<1>3. Events(batch) \subseteq 1..emitted /\ Events(buffer) \subseteq 1..emitted
  BY <1>1, ElementOfSeq DEF Events
<1>4. Events(<<>>) = {}
  <2>1. Len(<<>>) = 0
    BY EmptySeq
  <2> QED
    BY <2>1 DEF Events
<1>5. batch = <<>> => batch \o buffer = buffer
  BY <1>1, ConcatEmptySeq
<1>6. buffer = <<>> => batch \o buffer = batch
  BY <1>1, ConcatEmptySeq
<1> QED
  BY <1>1, <1>2, <1>3, <1>4, <1>5, <1>6

\* A flush takes the whole buffer, and only when none is in flight: memory holds what it held.
LEMMA FlushTakesBuffer ==
  ASSUME TypeOK, OldestFirst, ~Flushing, buffer # <<>>, StartFlush(buffer), UNCHANGED emitted
  PROVE  /\ buffer' \in Seq(1..emitted') /\ batch' \in Seq(1..emitted')
         /\ Len(buffer') <= Cap /\ Len(batch') <= Cap /\ sent' = 0 /\ 0 < Len(batch')
         /\ OldestFirst' /\ InMemory' = InMemory
<1>1. buffer \in Seq(1..emitted) /\ buffer' = <<>> /\ batch' = buffer /\ batch = <<>> /\ sent' = 0
  BY DEF TypeOK, StartFlush, Flushing
<1>2. Len(<<>>) = 0 /\ <<>> \in Seq(1..emitted) /\ Len(buffer) \in Nat \ {0}
  BY <1>1, EmptySeq
<1>3. batch' \o buffer' = batch \o buffer
  BY <1>1, ConcatEmptySeq
<1>4. InMemory' = InMemory
  BY <1>1 DEF InMemory
<1> QED
  BY <1>1, <1>2, <1>3, <1>4, BufferConstants DEF OldestFirst, TypeOK

\* A refused event is counted as shed; memory is as it was.
LEMMA ShedStep == ASSUME Inv, Emit, EmitSheds PROVE Inv'
<1>1. emitted \in Nat /\ emitted' = emitted + 1 /\ emitted' \in 0..MaxEvents
  BY BufferConstants DEF Inv, TypeOK, Emit
<1>2. buffer' = buffer /\ batch' = batch /\ sent' = sent
  BY DEF EmitSheds, bufVars
<1>3. buffer \in Seq(1..(emitted + 1)) /\ batch \in Seq(1..(emitted + 1))
  BY <1>1, SeqMonotonic DEF Inv, TypeOK
<1>4. TypeOK'
  BY <1>1, <1>2, <1>3 DEF Inv, TypeOK, Emit, EmitSheds, drainVars, Flushing
<1>5. OldestFirst' /\ SentInTable'
  BY <1>2 DEF Inv, OldestFirst, SentInTable, Emit, drainVars
<1>6. NothingVanishes'
  <2>1. 1..(emitted + 1) = (1..emitted) \cup {emitted + 1}
    BY <1>1
  <2> QED
    BY <1>1, <1>2, <2>1 DEF Inv, NothingVanishes, InMemory, Emit, EmitSheds, drainVars
<1> QED
  BY <1>4, <1>5, <1>6 DEF Inv

\* A buffered event is the newest in memory, whether it starts a flush or waits.
LEMMA BufferStep == ASSUME Inv, Emit, EmitBuffers PROVE Inv'
<1> DEFINE e == emitted + 1
           b == Append(buffer, e)
<1>1. emitted \in Nat /\ emitted' = e /\ e \in 0..MaxEvents /\ 1..e = (1..emitted) \cup {e}
  BY BufferConstants DEF Inv, TypeOK, Emit
<1>2. buffer \in Seq(1..emitted) /\ batch \in Seq(1..emitted) /\ Len(buffer) \in Nat /\ Len(batch) \in Nat
  BY SeqTypes DEF Inv, TypeOK
<1>3. buffer \in Seq(1..e) /\ batch \in Seq(1..e) /\ e \in 1..e
  BY <1>1, <1>2, SeqMonotonic
<1>4. b \in Seq(1..e) /\ b # <<>> /\ Len(b) = Len(buffer) + 1
  BY <1>3, AppendProperties
<1>5. Len(b) <= Cap
  BY <1>2, <1>4, BufferConstants DEF EmitBuffers
<1>6. Events(b) = Events(buffer) \cup {e}
  BY <1>3, AppendEvents
<1>7. Sorted(batch \o b)
  <2>1. batch \o buffer \in Seq(1..emitted)
    BY <1>2, ConcatProperties
  <2>2. Sorted(Append(batch \o buffer, e))
    BY <1>1, <2>1, AppendSorted DEF Inv, OldestFirst
  <2>3. Append(batch \o buffer, e) = batch \o b
    <3>1. <<e>> \in Seq(1..e) /\ batch \o buffer \in Seq(1..e)
      BY <1>1, <2>1, <1>3, ConcatProperties
    <3>2. Append(batch \o buffer, e) = (batch \o buffer) \o <<e>> /\ b = buffer \o <<e>>
      BY <1>3, <3>1, AppendIsConcat
    <3>3. (batch \o buffer) \o <<e>> = batch \o (buffer \o <<e>>)
      BY <1>3, <3>1, ConcatAssociative
    <3> QED
      BY <3>2, <3>3
  <2> QED
    BY <2>2, <2>3
<1> HIDE DEF e, b
<1>8. CASE Len(b) >= MaxBatch /\ ~Flushing
  <2>1. batch' = b /\ buffer' = <<>> /\ sent' = 0 /\ timer' = TRUE /\ shed' = shed /\ batch = <<>>
    BY <1>8 DEF EmitBuffers, StartFlush, Flushing, b, e
  <2>2. Len(<<>>) = 0 /\ <<>> \in Seq(1..e) /\ Events(<<>>) = {} /\ b \o <<>> = b /\ <<>> \o b = b
    <3>1. Len(<<>>) = 0
      BY EmptySeq
    <3> QED
      BY <1>4, <3>1, EmptySeq, ConcatEmptySeq DEF Events
  <2>3. TypeOK'
    BY <1>1, <1>2, <1>4, <1>5, <2>1, <2>2, BufferConstants DEF Inv, TypeOK, Emit, drainVars, Flushing
  <2>4. OldestFirst' /\ SentInTable'
    BY <1>7, <2>1, <2>2 DEF Inv, OldestFirst, SentInTable
  <2>5. NothingVanishes'
    BY <1>1, <1>6, <2>1, <2>2 DEF Inv, NothingVanishes, InMemory, Emit, drainVars
  <2> QED
    BY <2>3, <2>4, <2>5 DEF Inv
<1>9. CASE ~(Len(b) >= MaxBatch /\ ~Flushing)
  <2>1. batch' = batch /\ buffer' = b /\ sent' = sent /\ timer' = TRUE /\ shed' = shed
    BY <1>9 DEF EmitBuffers, b, e
  <2>3. TypeOK'
    BY <1>1, <1>3, <1>4, <1>5, <2>1 DEF Inv, TypeOK, Emit, drainVars, Flushing
  <2>4. OldestFirst' /\ SentInTable'
    BY <1>7, <2>1 DEF Inv, OldestFirst, SentInTable, Emit, drainVars
  <2>5. NothingVanishes'
    BY <1>1, <1>6, <2>1 DEF Inv, NothingVanishes, InMemory, Emit, drainVars
  <2> QED
    BY <2>3, <2>4, <2>5 DEF Inv
<1> QED
  BY <1>8, <1>9

\* A chunk moves from memory to the table; the last one ends the flush, whose earlier chunks are
\* in the table already.
LEMMA ChunkStep == ASSUME Inv, InsertChunk PROVE Inv'
<1> DEFINE upto == Smaller(sent + Chunk, Len(batch))
           rows == {batch[i] : i \in (sent + 1)..upto}
<1>1. /\ batch \in Seq(1..emitted) /\ buffer \in Seq(1..emitted)
      /\ Len(batch) \in Nat /\ sent \in 0..Len(batch) /\ sent < Len(batch) /\ Chunk \in Nat \ {0}
  BY SeqTypes, BufferConstants DEF Inv, TypeOK, InsertChunk
<1>2. upto \in (sent + 1)..Len(batch)
  BY <1>1 DEF Smaller
<1> HIDE DEF upto
<1>3. rows \subseteq 1..emitted
  <2>1. \A i \in (sent + 1)..upto : i \in 1..Len(batch)
    BY <1>1, <1>2
  <2>2. \A i \in 1..Len(batch) : batch[i] \in 1..emitted
    BY <1>1, ElementOfSeq
  <2> QED
    BY <2>1, <2>2
<1>4. table' = table \cup rows /\ UNCHANGED <<emitted, buffer, timer, lossVars, dbUp>>
  BY DEF InsertChunk, upto
<1>5. UNCHANGED <<rounds, purpose, old>>
  BY DEF InsertChunk, Returned, drainVars
<1>6. /\ drain' \in {"off", "loop", "awaiting", "done", "wiped", "exited"}
      /\ drain' \notin {"wiped", "exited"} => drain \notin {"wiped", "exited"}
  BY DEF InsertChunk, Returned, drainVars, Inv, TypeOK
<1>s. drain \notin {"wiped", "exited"} => \A i \in 1..upto : batch[i] \in table \cup rows
  <2>1. \A i \in 1..upto : i \in 1..sent \/ i \in (sent + 1)..upto
    BY <1>1, <1>2
  <2> QED
    BY <2>1 DEF Inv, SentInTable
<1> HIDE DEF rows
<1>7. CASE upto = Len(batch)
  <2>1. batch' = <<>> /\ sent' = 0
    BY <1>7 DEF InsertChunk, upto
  <2>2. Len(<<>>) = 0 /\ <<>> \in Seq(1..emitted) /\ <<>> \o buffer = buffer
    BY <1>1, EmptySeq, ConcatEmptySeq
  <2>3. TypeOK'
    BY <1>3, <1>4, <1>5, <1>6, <2>1, <2>2, BufferConstants DEF Inv, TypeOK, Flushing, lossVars
  <2>4. OldestFirst'
    BY <1>1, <1>4, <2>1, <2>2, PartsSorted DEF Inv, OldestFirst
  <2>5. SentInTable'
    BY <2>1 DEF SentInTable
  <2>6. NothingVanishes'
    <3>1. drain \notin {"wiped", "exited"} => Events(batch) \subseteq table'
      BY <1>s, <1>4, <1>7 DEF Events
    <3>2. Events(<<>>) = {}
      BY <2>2 DEF Events
    <3>3. table' \subseteq 1..emitted /\ table \subseteq table'
      BY <1>3, <1>4 DEF Inv, TypeOK
    <3>4. Events(buffer) \subseteq 1..emitted /\ shed \subseteq 1..emitted /\ cut \subseteq 1..emitted
      BY SeqTypes DEF Inv, TypeOK
    <3> QED
      BY <1>4, <1>6, <2>1, <3>1, <3>2, <3>3, <3>4 DEF Inv, NothingVanishes, InMemory, lossVars
  <2> QED
    BY <2>3, <2>4, <2>5, <2>6 DEF Inv
<1>8. CASE upto # Len(batch)
  <2>1. batch' = batch /\ sent' = upto /\ UNCHANGED drain
    BY <1>8 DEF InsertChunk, upto, drainVars
  <2>2. upto \in 0..Len(batch) /\ upto < Len(batch)
    BY <1>1, <1>2, <1>8
  <2>3. TypeOK'
    BY <1>3, <1>4, <1>5, <1>6, <2>1, <2>2 DEF Inv, TypeOK, Flushing, lossVars
  <2>4. OldestFirst' /\ SentInTable'
    BY <1>4, <1>s, <2>1 DEF Inv, OldestFirst, SentInTable
  <2>5. NothingVanishes'
    BY <1>3, <1>4, <2>1 DEF Inv, NothingVanishes, InMemory, lossVars
  <2> QED
    BY <2>3, <2>4, <2>5 DEF Inv
<1> QED
  BY <1>7, <1>8

\* A failed batch goes back in front of the buffer; what the cap does not take is recorded as cut.
LEMMA FailStep == ASSUME Inv, InsertFails PROVE Inv'
<1> DEFINE all  == batch \o buffer
           kept == SubSeq(all, 1, Smaller(Cap, Len(all)))
           gone == SubSeq(all, Cap + 1, Len(all))
<1>1. all \in Seq(1..emitted) /\ InMemory = Events(all) /\ InMemory \subseteq 1..emitted
  BY MemoryIsConcat, SeqTypes DEF Inv, InMemory
<1>2. /\ kept \in Seq(1..emitted) /\ Len(kept) <= Cap
      /\ Events(kept) \cup Events(gone) = Events(all) /\ Sorted(kept)
  <2> HIDE DEF all
  <2>1. Sorted(all)
    BY DEF Inv, OldestFirst, all
  <2> QED
    BY <1>1, <2>1, CutAtCap
<1>3. buffer' = kept /\ cut' = cut \cup Events(gone) /\ batch' = <<>> /\ sent' = 0
  BY DEF InsertFails, Requeue
<1>4. UNCHANGED <<emitted, timer, table, shed, dbUp>> /\ UNCHANGED <<rounds, purpose, old>>
  BY DEF InsertFails, Returned
<1>5. /\ drain' \in {"off", "loop", "awaiting", "done", "wiped", "exited"}
      /\ drain' \notin {"wiped", "exited"} => drain \notin {"wiped", "exited"}
  BY DEF InsertFails, Returned, Inv, TypeOK
<1> HIDE DEF all, kept, gone
<1>6. Len(<<>>) = 0 /\ <<>> \in Seq(1..emitted) /\ <<>> \o kept = kept /\ Events(<<>>) = {}
  <2>1. Len(<<>>) = 0 /\ <<>> \in Seq(1..emitted) /\ <<>> \o kept = kept
    BY <1>2, EmptySeq, ConcatEmptySeq
  <2> QED
    BY <2>1 DEF Events
<1>7. TypeOK'
  <2>1. buffer' \in Seq(1..emitted) /\ Len(buffer') <= Cap
    BY <1>2, <1>3
  <2>2. batch' \in Seq(1..emitted) /\ Len(batch') = 0 /\ ~Flushing'
    BY <1>3, <1>6 DEF Flushing
  <2>3. cut' \subseteq 1..emitted
    BY <1>1, <1>2, <1>3 DEF Inv, TypeOK
  <2> QED
    BY <1>3, <1>4, <1>5, <2>1, <2>2, <2>3, BufferConstants DEF Inv, TypeOK
<1>8. OldestFirst' /\ SentInTable'
  BY <1>2, <1>3, <1>6 DEF OldestFirst, SentInTable
<1>9. NothingVanishes'
  <2>1. InMemory' = Events(kept)
    BY <1>3, <1>6 DEF InMemory
  <2> QED
    BY <1>1, <1>2, <1>3, <1>4, <1>5, <2>1 DEF Inv, NothingVanishes
<1> QED
  BY <1>7, <1>8, <1>9 DEF Inv

\* A turn of drain's loop ends the drain or starts a flush of all that is buffered.
LEMMA TurnStep ==
  ASSUME Inv, DrainTurn, UNCHANGED <<emitted, table, lossVars, dbUp>>, timer' \in BOOLEAN,
         drain \notin {"wiped", "exited"}, purpose' \in {"none", "reset", "shutdown"}, old' \in 0..emitted
  PROVE  Inv'
<1>1. CASE buffer = <<>> \/ rounds >= MaxRounds \/ Flushing
  BY <1>1 DEF Inv, TypeOK, OldestFirst, SentInTable, NothingVanishes, InMemory, DrainTurn, bufVars, lossVars, Flushing
<1>2. CASE ~(buffer = <<>> \/ rounds >= MaxRounds \/ Flushing)
  <2>1. drain' = "awaiting" /\ rounds' = rounds + 1 /\ StartFlush(buffer) /\ rounds < MaxRounds
    BY <1>2, BufferConstants DEF DrainTurn, Inv, TypeOK
  <2>2. /\ buffer' \in Seq(1..emitted') /\ batch' \in Seq(1..emitted')
        /\ Len(buffer') <= Cap /\ Len(batch') <= Cap /\ sent' = 0 /\ 0 < Len(batch')
        /\ OldestFirst' /\ InMemory' = InMemory
    BY <1>2, <2>1, FlushTakesBuffer DEF Inv
  <2>3. Len(batch') \in Nat
    BY <2>2, LenProperties
  <2>4. TypeOK'
    BY <2>1, <2>2, <2>3, BufferConstants DEF Inv, TypeOK, lossVars, Flushing
  <2>5. SentInTable' /\ NothingVanishes'
    BY <2>2 DEF Inv, SentInTable, NothingVanishes, lossVars
  <2> QED
    BY <2>2, <2>4, <2>5 DEF Inv
<1> QED
  BY <1>1, <1>2

\* Every step of the writer keeps the invariant.
LEMMA InvStep == Inv /\ [Next]_vars => Inv'
<1> SUFFICES ASSUME Inv, [Next]_vars PROVE Inv'
  OBVIOUS
<1>1. CASE Emit
  BY <1>1, ShedStep, BufferStep DEF Emit
<1>2. CASE TimerFlush
  <2>1. /\ buffer' \in Seq(1..emitted') /\ batch' \in Seq(1..emitted')
        /\ Len(buffer') <= Cap /\ Len(batch') <= Cap /\ sent' = 0 /\ 0 < Len(batch')
        /\ OldestFirst' /\ InMemory' = InMemory
    BY <1>2, FlushTakesBuffer DEF Inv, TimerFlush
  <2>2. Len(batch') \in Nat
    BY <2>1, LenProperties
  <2>3. TypeOK'
    BY <1>2, <2>1, <2>2 DEF Inv, TypeOK, TimerFlush, lossVars, drainVars, Flushing
  <2>4. SentInTable' /\ NothingVanishes'
    BY <1>2, <2>1 DEF Inv, SentInTable, NothingVanishes, TimerFlush, lossVars, drainVars
  <2> QED
    BY <2>1, <2>3, <2>4 DEF Inv
<1>3. CASE InsertChunk
  BY <1>3, ChunkStep
<1>4. CASE InsertFails
  BY <1>4, FailStep
<1>5. ASSUME NEW why \in {"reset", "shutdown"}, DrainBegins(why) PROVE Inv'
  <2>1. old' \in 0..emitted
    BY <1>5, BufferConstants DEF DrainBegins, Inv, TypeOK
  <2> QED
    BY <1>5, <2>1, TurnStep DEF DrainBegins
<1>6. CASE DrainLoop
  BY <1>6, TurnStep DEF DrainLoop, Inv, TypeOK
<1>7. CASE ResetWipes
  BY <1>7 DEF ResetWipes, Inv, TypeOK, OldestFirst, SentInTable, NothingVanishes, bufVars, lossVars, Flushing
<1>8. CASE Exit
  <2>1. Len(<<>>) = 0 /\ <<>> \in Seq(1..emitted) /\ <<>> \o <<>> = <<>>
    BY EmptySeq, ConcatEmptySeq
  <2>2. OldestFirst'
    BY <1>8, <2>1 DEF Exit, OldestFirst, Sorted
  <2>3. TypeOK'
    <3>1. /\ buffer' \in Seq(1..emitted) /\ Len(buffer') = 0 /\ batch' \in Seq(1..emitted) /\ Len(batch') = 0
          /\ ~Flushing' /\ timer' \in BOOLEAN
      BY <1>8, <2>1 DEF Exit, Flushing
    <3> QED
      BY <1>8, <3>1, BufferConstants DEF Exit, Inv, TypeOK, lossVars
  <2>4. SentInTable' /\ NothingVanishes'
    BY <1>8 DEF Exit, SentInTable, NothingVanishes
  <2> QED
    BY <2>2, <2>3, <2>4 DEF Inv
<1>9. CASE DbRecovers
  BY <1>9 DEF DbRecovers, Inv, TypeOK, OldestFirst, SentInTable, NothingVanishes, InMemory,
              bufVars, lossVars, drainVars, Flushing
<1>10. CASE UNCHANGED vars
  BY <1>10 DEF vars, Inv, TypeOK, OldestFirst, SentInTable, NothingVanishes, InMemory,
               bufVars, lossVars, drainVars, Flushing
<1> QED
  BY <1>1, <1>2, <1>3, <1>4, <1>5, <1>6, <1>7, <1>8, <1>9, <1>10 DEF Next

\* The writer starts with nothing emitted and nothing in memory.
LEMMA InvInit == Init => Inv
<1> SUFFICES ASSUME Init PROVE Inv
  OBVIOUS
<1>1. Len(<<>>) = 0 /\ <<>> \in Seq(1..0) /\ <<>> \o <<>> = <<>>
  BY EmptySeq, ConcatEmptySeq
<1>2. OldestFirst
  BY <1>1 DEF Init, OldestFirst, Sorted
<1>3. TypeOK
  <2>1. buffer \in Seq(1..emitted) /\ Len(buffer) = 0 /\ batch \in Seq(1..emitted) /\ Len(batch) = 0 /\ ~Flushing
    BY <1>1 DEF Init, Flushing
  <2>2. timer \in BOOLEAN /\ dbUp \in BOOLEAN
    BY DEF Init
  <2> QED
    BY <2>1, <2>2, BufferConstants DEF Init, TypeOK
<1>4. SentInTable /\ NothingVanishes
  BY <1>1 DEF Init, SentInTable, NothingVanishes, InMemory, Events
<1> QED
  BY <1>2, <1>3, <1>4 DEF Inv

\* Memory stays within the cap and in the order of emission with no event in it twice, and no
\* event disappears without being recorded as shed or cut: for every cap, batch and chunk size,
\* whatever fails, is retried or drained.
THEOREM BufferSound == Spec => [](TypeOK /\ OldestFirst /\ NothingVanishes)
  BY InvInit, InvStep, PTL DEF Spec, Inv

----------------------------------------------------------------------------
(* A team's budget counter.                                                *)

\* A request that is not answered has recorded nothing.
NothingRecordedYet ==
  \A r \in Requests : phase[r] # "answered" => (spend[r] = "none" /\ row[r] = "none")

\* A seed holds rows of this window that are in the table, and all that were when the counter
\* was lost.
SeedsFromTable ==
  /\ durable \subseteq Written \cap current
  /\ \A r \in Requests \ late : seen[r] \subseteq Written \cap current
  /\ ~exists => \A r \in Requests \ late : phase[r] = "seeding" => durable \subseteq seen[r]
  /\ \A r \in late : phase[r] \in {"asked", "missed", "seeding"}
  /\ \A r \in Requests : phase[r] # "seeding" => seen[r] = {}

\* An addition that carries the current window's key, or is in its counter, is of a request whose
\* cost became known in this window.
KeyOfTheCall == \A r \in Requests : spend[r] \in {"sent", "added"} => r \in billed

\* A request is counted once for its row and once for its addSpend.
CountedFor ==
  \A r \in Requests : /\ (counted[r] > 0 => r \in Written \/ spend[r] = "added")
                      /\ (counted[r] > 1 => r \in Written /\ spend[r] = "added")

TeamInv == BudgetTypeOK /\ NothingRecordedYet /\ SeedsFromTable /\ KeyOfTheCall /\ CountedFor /\ SurvivesFlush /\ OnlyThisWindow

\* Every step keeps the invariant.
LEMMA TeamStep == TeamInv /\ [BudgetNext]_budgetVars => TeamInv'
<1> SUFFICES ASSUME TeamInv, [BudgetNext]_budgetVars PROVE TeamInv'
  OBVIOUS
<1>0. exists \in BOOLEAN
  BY DEF TeamInv, BudgetTypeOK
<1> USE BudgetConstants DEF TeamInv, BudgetTypeOK, Phases, NothingRecordedYet, SeedsFromTable, KeyOfTheCall, CountedFor,
        SurvivesFlush, OnlyThisWindow, Written, requestVars, clockVars
<1>a. ASSUME NEW r \in Requests, Ask(r) PROVE TeamInv'
  BY <1>a DEF Ask
<1>1. ASSUME NEW r \in Requests, CheckHit(r) PROVE TeamInv'
  <2>1. PICK spent : Verdict(r, spent)
    BY <1>1 DEF CheckHit, LateVerdict
  <2> QED
    BY <1>1, <2>1 DEF CheckHit, Verdict
<1>2. ASSUME NEW r \in Requests, CheckMiss(r) PROVE TeamInv'
  BY <1>2 DEF CheckMiss
<1>3. ASSUME NEW r \in Requests, SumRows(r) PROVE TeamInv'
  BY <1>3 DEF SumRows
<1>4. ASSUME NEW r \in Requests, Seed(r) PROVE TeamInv'
  <2>v. PICK spent : Verdict(r, spent)
    BY <1>4 DEF Seed, LateVerdict
  <2>1. exists' \in BOOLEAN
    BY <1>0, <1>4, Zenon DEF Seed, SeedCounter
  <2>2. BudgetTypeOK'
    BY <2>1, <1>4, <2>v DEF Seed, SeedCounter, CountOnce, Verdict
  <2>3. NothingRecordedYet' /\ KeyOfTheCall' /\ CountedFor'
    BY <1>4, <2>v DEF Seed, SeedCounter, CountOnce, Verdict
  <2>4. SeedsFromTable'
    BY <1>4, <2>v DEF Seed, SeedCounter, CountOnce, Verdict
  <2>5. SurvivesFlush' /\ OnlyThisWindow'
    BY <1>4, <2>v DEF Seed, SeedCounter, CountOnce, Verdict
  <2> QED
    BY <2>2, <2>3, <2>4, <2>5
<1>5. ASSUME NEW r \in Requests, Bill(r) PROVE TeamInv'
  BY <1>5 DEF Bill
<1>6. ASSUME NEW r \in Requests, NoCost(r) PROVE TeamInv'
  BY <1>6 DEF NoCost
<1>7. ASSUME NEW r \in Requests, AddSpend(r) PROVE TeamInv'
  BY <1>7 DEF AddSpend, AddToCounter, Ran
<1>8. ASSUME NEW r \in Requests, SpendFails(r) PROVE TeamInv'
  BY <1>8 DEF SpendFails, Ran
<1>9. ASSUME NEW r \in Requests, EmitRow(r) PROVE TeamInv'
  BY <1>9 DEF EmitRow
<1>10. ASSUME NEW r \in Requests, WriteRow(r) PROVE TeamInv'
  BY <1>10 DEF WriteRow
<1>11. CASE PeriodRolls
  <2>1. exists' \in BOOLEAN
    BY <1>0, <1>11, Zenon DEF PeriodRolls, Forgotten
  <2>2. BudgetTypeOK'
    BY <2>1, <1>11 DEF PeriodRolls, Forgotten
  <2>3. NothingRecordedYet' /\ KeyOfTheCall' /\ CountedFor'
    BY <1>11 DEF PeriodRolls, Forgotten
  <2>4. SeedsFromTable'
    BY <1>11 DEF PeriodRolls, Forgotten
  <2>5. SurvivesFlush' /\ OnlyThisWindow'
    BY <1>11 DEF PeriodRolls, Forgotten
  <2> QED
    BY <2>2, <2>3, <2>4, <2>5
<1>12. CASE CounterLost
  <2>1. exists' \in BOOLEAN
    BY <1>0, <1>12, Zenon DEF CounterLost, Forgotten
  <2>2. BudgetTypeOK'
    BY <2>1, <1>12 DEF CounterLost, Forgotten
  <2>3. NothingRecordedYet' /\ KeyOfTheCall' /\ CountedFor'
    BY <1>12 DEF CounterLost, Forgotten
  <2>4. SeedsFromTable'
    BY <1>12 DEF CounterLost, Forgotten
  <2>5. SurvivesFlush' /\ OnlyThisWindow'
    BY <1>12 DEF CounterLost, Forgotten
  <2> QED
    BY <2>2, <2>3, <2>4, <2>5
<1>13. CASE UNCHANGED budgetVars
  BY <1>13 DEF budgetVars
<1> QED
  BY <1>a, <1>1, <1>2, <1>3, <1>4, <1>5, <1>6, <1>7, <1>8, <1>9, <1>10, <1>11, <1>12, <1>13 DEF BudgetNext

\* It holds before the first request, when there is no counter and no row.
LEMMA TeamInit == BudgetInit => TeamInv
<1> SUFFICES ASSUME BudgetInit PROVE TeamInv
  OBVIOUS
<1>1. exists \in BOOLEAN
  BY Zenon DEF BudgetInit
<1> QED
  BY <1>1, BudgetConstants DEF BudgetInit, TeamInv, BudgetTypeOK, Phases, NothingRecordedYet, SeedsFromTable, KeyOfTheCall, CountedFor,
     SurvivesFlush, OnlyThisWindow, Written

\* The counter keeps its type, counts a cost twice only from the table, has every row that was
\* durable when it was lost, and counts nothing of another window: for any number of requests,
\* seeders, windows and losses.
THEOREM CounterSound == BudgetSpec => [](BudgetTypeOK /\ TwiceOnlyFromTable /\ SurvivesFlush /\ OnlyThisWindow)
<1>1. TeamInv => BudgetTypeOK /\ TwiceOnlyFromTable /\ SurvivesFlush /\ OnlyThisWindow
  BY DEF TeamInv, CountedFor, TwiceOnlyFromTable, Written
<1> QED
  BY <1>1, TeamInit, TeamStep, PTL DEF BudgetSpec

\* A counter that is there never goes down, however many seeders and additions race for it.
THEOREM CounterMonotone == BudgetSpec => SpendNeverShrinks
<1>1. TeamInv /\ [BudgetNext]_budgetVars =>
        [(exists /\ exists' /\ period' = period) => \A r \in Requests : counted'[r] >= counted[r]]_budgetVars
  <2> SUFFICES ASSUME TeamInv, BudgetNext, exists, exists', NEW q \in Requests, period' = period
               PROVE  counted'[q] >= counted[q]
    OBVIOUS
  <2>0. counted \in [Requests -> 0..2]
    BY DEF TeamInv, BudgetTypeOK
  <2>1. CASE UNCHANGED counted
    BY <2>0, <2>1
  <2>2. ASSUME NEW r \in Requests, AddSpend(r) PROVE counted'[q] >= counted[q]
    BY <2>0, <2>2 DEF AddSpend, AddToCounter
  <2>3. ASSUME NEW r \in Requests, Seed(r) PROVE UNCHANGED counted
    BY <2>3 DEF Seed, SeedCounter
  <2>4. ~PeriodRolls /\ ~CounterLost
    BY DEF PeriodRolls, CounterLost
  <2> QED
    BY <2>1, <2>2, <2>3, <2>4
    DEF BudgetNext, Ask, CheckHit, CheckMiss, SumRows, Bill, NoCost, SpendFails, EmitRow, WriteRow
<1> QED
  BY <1>1, TeamInit, TeamStep, PTL DEF BudgetSpec, SpendNeverShrinks

=============================================================================
