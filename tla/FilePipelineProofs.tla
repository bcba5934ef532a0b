--------------------------- MODULE FilePipelineProofs ---------------------------
(* FilePipeline for every number of files and workers: its memory bound, its *)
(* account of the files, and the order in which the analyzers see batches.   *)
EXTENDS FilePipeline, FiniteSetTheorems, SequenceTheorems, TLAPS

LEMMA Constants ==
  /\ NumFiles \in Nat /\ Workers \in Nat /\ MaxBatches \in Nat
  /\ WorkerCount \in Nat /\ WorkerCount > 0
BY PipelineAssumption DEF PipelineAssumption, WorkerCount

(* A stream holds at most one batch. *)
LEMMA OneLong ==
  ASSUME NEW S, NEW c \in Seq(S), Len(c) <= 1, c # <<>>
  PROVE  Len(c) = 1 /\ Tail(c) = <<>> /\ Head(c) \in S /\ c = <<Head(c)>>
<1>1. Len(c) \in Nat /\ Len(c) # 0
  BY EmptySeq, LenProperties
<1>2. Len(c) = 1
  BY <1>1
<1>3. Head(c) \in S /\ Tail(c) \in Seq(S) /\ Len(Tail(c)) = 0
  BY <1>2, HeadTailProperties
<1>4. Tail(c) = <<>>
  BY <1>3, EmptySeq
<1>5. Head(c) = c[1]
  OBVIOUS
<1>6. <<Head(c)>> \in Seq(S) /\ Len(<<Head(c)>>) = 1 /\ <<Head(c)>>[1] = Head(c)
  BY <1>3
<1>7. c = <<Head(c)>>
  BY <1>2, <1>5, <1>6, SeqEqual
<1> QED
  BY <1>2, <1>3, <1>4, <1>7

LEMMA Shorter ==
  ASSUME NEW S, NEW c \in Seq(S), Len(c) < 1
  PROVE  c = <<>>
<1>1. Len(c) \in Nat /\ Len(c) = 0
  BY LenProperties
<1> QED
  BY <1>1, EmptySeq

LEMMA Appended ==
  ASSUME NEW S, NEW x \in S
  PROVE  /\ Append(<<>>, x) = <<x>> /\ <<x>> \in Seq(S) /\ Len(<<x>>) = 1
         /\ Head(<<x>>) = x /\ Tail(<<x>>) = <<>>
OBVIOUS

(* A step of a goroutine touches its stream only. *)
LEMMA ProducerFrame ==
  ASSUME NEW f \in Files, Produce(f)
  PROVE  UNCHANGED <<input, ctxDone, next, current, hand, counts, stage, err>>
BY DEF Produce, FillBatch, ReachEnd, SendEvents, SendDone, GiveUp, CloseStream, Exit, counts, input, consumer

-------------------------------------------------------------------------------
LEMMA InitInductive == Init => IInv
<1> SUFFICES ASSUME Init PROVE IInv
  OBVIOUS
<1> USE DEF Init, Files
<1>1. StartedAtOnce \in 0..NumFiles /\ StartedAtOnce <= WorkerCount /\ WorkerCount \in Nat \ {0}
      /\ (NumFiles > 0 => StartedAtOnce > 0) /\ (StartedAtOnce < NumFiles => StartedAtOnce = WorkerCount)
  BY Constants DEF StartedAtOnce, WorkerCount
<1>2. TypeOK
  <2>1. <<>> \in Seq(0..MaxBatches) /\ <<>> \in Seq(Files \X (1..MaxBatches)) /\ <<>> \in Seq(Files)
        /\ Len(<<>>) = 0
    OBVIOUS
  <2>2. chan \in [Files -> Seq(0..MaxBatches)] /\ \A f \in Files : Len(chan[f]) <= Capacity
    BY Constants, <2>1 DEF Capacity
  <2>3. fed \in Seq(Files \X (1..MaxBatches)) /\ errors \in Seq(Files)
    BY <2>1
  <2>4. producer \in [Files -> {"unstarted", "parsing", "sending", "flushing", "ending",
                               "returning", "closing", "exited"}]
    BY Constants
  <2>5. /\ batches \in [Files -> 0..MaxBatches] /\ bad \subseteq Files /\ closed \subseteq Files
        /\ ctxDone \in BOOLEAN /\ err \in BOOLEAN
    OBVIOUS
  <2>6. /\ sent \in [Files -> 0..MaxBatches] /\ next \in 0..NumFiles /\ current \in 1..(NumFiles + 1)
        /\ hand \in 0..MaxBatches /\ processed \in 0..NumFiles /\ stage \in {"draining", "waiting", "returned"}
    BY Constants, <1>1 DEF NoBatch
  <2> QED
    BY <2>2, <2>3, <2>4, <2>5, <2>6 DEF TypeOK
<1>3. GoroutineInv
  BY Constants, <1>1 DEF GoroutineInv
<1>4. \A f \in Files : Buffered(f) = 0 /\ Seen(f) = 0 /\ ~EndSeen(f)
  BY Constants, <1>1, <1>2 DEF Buffered, Buffering, Seen, EndSeen, Over, TypeOK, Held
<1>5. StreamInv
  BY Constants, <1>1, <1>2, <1>4 DEF StreamInv, StreamOf, Over, TypeOK
<1>6. PositionInv
  BY Constants, <1>4 DEF PositionInv, LastFed
<1>7. CountInv
  <2>1. Len(fed) = 0 /\ Len(errors) = 0
    OBVIOUS
  <2>2. {f \in bad : EndSeen(f)} = {} /\ {f \in Files \ bad : EndSeen(f)} = {}
    BY Constants, <1>4
  <2>3. {b \in Files \X (1..MaxBatches) : b[2] <= Seen(b[1])} = {}
    BY Constants, <1>4
  <2>4. /\ 1..Len(fed) = {} /\ 1..Len(errors) = {}
        /\ {errors[i] : i \in 1..Len(errors)} = {} /\ {fed[i] : i \in 1..Len(fed)} = {}
    BY <2>1
  <2>5. Cardinality({f \in Files \ bad : EndSeen(f)}) = 0
    BY <2>2, FS_EmptySet
  <2> QED
    BY <2>2, <2>3, <2>4, <2>5 DEF CountInv
<1> QED
  BY Constants, <1>2, <1>3, <1>5, <1>6, <1>7 DEF IInv, CompleteOnSuccess

-------------------------------------------------------------------------------
(* The types hold in every step. *)
LEMMA TypeStep ==
  ASSUME TypeOK, GoroutineInv, [Next]_vars
  PROVE  TypeOK'
<1> DEFINE Places == {"unstarted", "parsing", "sending", "flushing", "ending", "returning", "closing",
                      "exited"}
           Streams == [Files -> Seq(0..MaxBatches)]
<1>t. /\ chan \in Streams /\ (\A f \in Files : Len(chan[f]) <= 1)
      /\ producer \in [Files -> Places] /\ sent \in [Files -> 0..MaxBatches]
      /\ batches \in [Files -> 0..MaxBatches]
  BY DEF TypeOK, Capacity
<1>0. CASE UNCHANGED vars
  BY <1>0 DEF vars, consumer, input, goroutines, counts, TypeOK
<1>1. CASE CancelContext
  BY <1>1 DEF CancelContext, consumer, input, goroutines, counts, TypeOK
<1>2. ASSUME NEW f \in Files, Produce(f) PROVE TypeOK'
  <2>1. /\ chan' \in Streams /\ (\A g \in Files : Len(chan'[g]) <= 1)
        /\ sent' \in [Files -> 0..MaxBatches]
    <3>1. CASE UNCHANGED <<chan, sent>>
      BY <1>t, <3>1
    <3>2. CASE SendEvents(f)
      <4>1. chan[f] = <<>>
        BY <1>t, <3>2, Shorter DEF SendEvents, HasRoom, Capacity
      <4>2. sent[f] + 1 \in 0..MaxBatches
        BY <1>t, <3>2, Constants DEF SendEvents, Move, GoroutineInv
      <4>3. chan' = [chan EXCEPT ![f] = <<sent[f] + 1>>] /\ sent' = [sent EXCEPT ![f] = sent[f] + 1]
        BY <3>2, <4>1, <4>2, Appended DEF SendEvents
      <4>4. <<sent[f] + 1>> \in Seq(0..MaxBatches) /\ Len(<<sent[f] + 1>>) = 1
        BY <4>2
      <4> HIDE DEF Places
      <4> QED
        BY <1>t, <4>2, <4>3, <4>4
    <3>3. CASE SendDone(f)
      <4>1. chan[f] = <<>> /\ DoneBatch \in 0..MaxBatches
        BY <1>t, <3>3, Shorter, Constants DEF SendDone, HasRoom, Capacity, DoneBatch
      <4>2. chan' = [chan EXCEPT ![f] = <<DoneBatch>>] /\ sent' = sent
        BY <3>3, <4>1, Appended DEF SendDone
      <4>3. <<DoneBatch>> \in Seq(0..MaxBatches) /\ Len(<<DoneBatch>>) = 1
        BY <4>1
      <4> QED
        BY <1>t, <4>2, <4>3
    <3> QED
      BY <1>2, <3>1, <3>2, <3>3 DEF Produce, FillBatch, ReachEnd, GiveUp, CloseStream, Exit
  <2>2. producer' \in [Files -> Places]
    BY <1>t, <1>2 DEF Produce, FillBatch, ReachEnd, SendEvents, SendDone, GiveUp, CloseStream, Exit, Move
  <2>3. closed' \subseteq Files
    BY <1>2 DEF Produce, FillBatch, ReachEnd, SendEvents, SendDone, GiveUp, CloseStream, Exit, TypeOK
  <2> QED
    BY <1>2, <2>1, <2>2, <2>3, ProducerFrame DEF TypeOK, Capacity, input, counts
<1>3. CASE Receive
  <2>1. /\ current \in Files /\ chan[current] # <<>> /\ Len(chan[current]) <= 1
        /\ chan[current] \in Seq(0..MaxBatches)
    BY <1>3, <1>t DEF Receive, Draining
  <2>2. Head(chan[current]) \in 0..MaxBatches /\ Tail(chan[current]) = <<>>
    BY <2>1, OneLong
  <2>3. chan' \in Streams /\ (\A f \in Files : Len(chan'[f]) <= 1)
    BY <1>t, <1>3, <2>1, <2>2, EmptySeq DEF Receive
  <2>4. processed + 1 \in 0..NumFiles
    BY <2>1, Constants DEF TypeOK, GoroutineInv, EndSeen, Files
  <2>5. hand' \in 0..MaxBatches /\ errors' \in Seq(Files) /\ processed' \in 0..NumFiles
    <3>1. CASE Head(chan[current]) # DoneBatch
      BY <1>3, <2>2, <3>1 DEF Receive, TypeOK
    <3>2. CASE Head(chan[current]) = DoneBatch
      <4>1. \/ errors' = Append(errors, current) /\ UNCHANGED <<hand, processed>>
            \/ processed' = processed + 1 /\ UNCHANGED <<hand, errors>>
        BY <1>3, <3>2 DEF Receive
      <4>2. errors \in Seq(Files) /\ Append(errors, current) \in Seq(Files)
        BY <2>1 DEF TypeOK
      <4> QED
        BY <2>4, <4>1, <4>2 DEF TypeOK
    <3> QED
      BY <3>1, <3>2
  <2> QED
    BY <1>3, <2>3, <2>5 DEF Receive, TypeOK, Capacity, input
<1>6. CASE FeedBatch
  <2>1. <<current, hand>> \in Files \X (1..MaxBatches)
    BY <1>6, Constants DEF FeedBatch, TypeOK, GoroutineInv, NoBatch
  <2>2. fed' \in Seq(Files \X (1..MaxBatches)) /\ hand' \in 0..MaxBatches
    BY <1>6, <2>1, Constants DEF FeedBatch, TypeOK, NoBatch
  <2> QED
    BY <1>6, <2>2 DEF FeedBatch, TypeOK, Capacity, input, goroutines
<1>4. CASE NextFile
  <2>1. current + 1 \in 1..(NumFiles + 1)
    BY <1>4, Constants DEF NextFile, Draining, Files
  <2>2. next' \in 0..NumFiles /\ producer' \in [Files -> Places]
    <3>1. CASE next < NumFiles
      <4>1. next' = next + 1 /\ producer' = [producer EXCEPT ![next + 1] = "parsing"]
        BY <1>4, <3>1 DEF NextFile
      <4> QED
        <5>1. next \in 0..NumFiles /\ next + 1 \in 0..NumFiles
          BY <3>1, Constants DEF TypeOK
        <5>2. producer' \in [Files -> Places]
          BY <1>t, <4>1
        <5> QED
          BY <4>1, <5>1, <5>2
    <3>2. CASE ~(next < NumFiles)
      BY <1>4, <1>t, <3>2 DEF NextFile, TypeOK
    <3> QED
      BY <3>1, <3>2
  <2> QED
    BY <1>4, <2>1, <2>2 DEF NextFile, TypeOK, input, counts
<1>5. CASE SeeCancel \/ FinishFiles \/ Return
  BY <1>5 DEF SeeCancel, FinishFiles, FinalErr, Return, input, goroutines, counts, TypeOK
<1> QED
  BY <1>0, <1>1, <1>2, <1>3, <1>4, <1>5, <1>6 DEF Next, Consume

-------------------------------------------------------------------------------
(* No goroutine outlives its place in the window of the consumer. *)
LEMMA GoroutineStep ==
  ASSUME TypeOK, GoroutineInv, [Next]_vars
  PROVE  GoroutineInv'
<1> DEFINE Places == {"unstarted", "parsing", "sending", "flushing", "ending", "returning", "closing",
                      "exited"}
           FileInv(f) ==
             /\ producer[f] = "unstarted" <=> f > next
             /\ f \in closed <=> producer[f] \in {"closing", "exited"}
             /\ f < current => f \in closed /\ chan[f] = <<>>
             /\ f > next => chan[f] = <<>> /\ sent[f] = 0
             /\ chan[f] = <<DoneBatch>> => producer[f] \in Over
             /\ sent[f] <= batches[f]
             /\ producer[f] = "sending" => sent[f] < batches[f]
             /\ producer[f] = "flushing" => sent[f] + 1 = batches[f]
           WindowInv ==
             /\ next - current < WorkerCount
             /\ current <= next + 1
             /\ next < NumFiles => current <= next
           HandInv == hand # NoBatch => current \in Files /\ stage = "draining"
           BoundInv ==
             processed < current \/ (processed = current /\ current \in Files /\ EndSeen(current))
<1>t. /\ producer \in [Files -> Places] /\ sent \in [Files -> 0..MaxBatches]
      /\ batches \in [Files -> 0..MaxBatches] /\ chan \in [Files -> Seq(0..MaxBatches)]
      /\ (\A f \in Files : Len(chan[f]) <= 1)
      /\ next \in 0..NumFiles /\ current \in 1..(NumFiles + 1) /\ processed \in 0..NumFiles
  BY DEF TypeOK, Capacity
<1>i. WindowInv /\ HandInv /\ BoundInv /\ \A f \in Files : FileInv(f)
  BY DEF GoroutineInv
<1>q. ASSUME WindowInv', HandInv', BoundInv', \A f \in Files : FileInv(f)' PROVE GoroutineInv'
  BY <1>q DEF GoroutineInv, Files, WorkerCount
<1>0. CASE UNCHANGED <<input, goroutines, next, current, hand, stage, processed>>
  BY <1>0 DEF GoroutineInv, input, goroutines, WorkerCount, Files, EndSeen
<1>2. ASSUME NEW f \in Files, Produce(f) PROVE GoroutineInv'
  <2>1. UNCHANGED <<next, current, hand, stage, processed, batches>> /\ \A g \in Files \ {f} :
          /\ producer'[g] = producer[g] /\ chan'[g] = chan[g] /\ sent'[g] = sent[g]
          /\ g \in closed' <=> g \in closed
    BY <1>2, <1>t, ProducerFrame
      DEF Produce, FillBatch, ReachEnd, SendEvents, SendDone, GiveUp, CloseStream, Exit, Move, counts, input
  <2>2. \A g \in Files \ {f} : FileInv(g)'
    BY <1>i, <2>1
  <2>3. producer[f] \notin {"unstarted", "exited"} /\ producer'[f] # "unstarted" /\ f <= next
    <3>1. \E from \in {"parsing", "sending", "flushing", "ending", "returning", "closing"} :
            \E to \in Places \ {"unstarted"} : Move(f, from, to)
      BY <1>2 DEF Produce, FillBatch, ReachEnd, SendEvents, SendDone, GiveUp, CloseStream, Exit
    <3>2. producer[f] \notin {"unstarted", "exited"} /\ producer'[f] # "unstarted"
      BY <3>1, <1>t DEF Move
    <3> QED
      BY <3>2, <1>t, <1>i DEF Files
  <2>4. current \in Files /\ EndSeen(current) => EndSeen(current)'
    <3>1. CASE f # current
      BY <2>1, <3>1, <1>t DEF EndSeen, Files
    <3>2. CASE f = current
      BY <1>2, <1>t, <2>1, <3>2 DEF EndSeen, Over,
         Produce, FillBatch, ReachEnd, SendEvents, SendDone, GiveUp, CloseStream, Exit, Move
    <3> QED
      BY <3>1, <3>2
  <2>5. WindowInv' /\ HandInv' /\ BoundInv'
    BY <1>i, <2>1, <2>4 DEF WorkerCount, Files
  <2>6. FileInv(f)'
    <3>1. CASE FillBatch(f)
      BY <3>1, <1>t, <1>i, <2>1, <2>3 DEF FillBatch, MoreToSend, Move, Over
    <3>2. CASE ReachEnd(f)
      BY <3>2, <1>t, <1>i, <2>1, <2>3 DEF ReachEnd, MoreToSend, Move, Over
    <3>3. CASE SendEvents(f)
      <4>1. chan[f] = <<>> /\ sent[f] + 1 \in 0..MaxBatches
        BY <1>t, <3>3, <1>i, Shorter, Constants DEF SendEvents, HasRoom, Capacity, Move
      <4>2. chan'[f] = <<sent[f] + 1>> /\ sent'[f] = sent[f] + 1 /\ chan'[f] # <<DoneBatch>>
        BY <1>t, <3>3, <4>1, Appended DEF SendEvents, DoneBatch
      <4> QED
        BY <3>3, <4>1, <4>2, <1>t, <1>i, <2>1, <2>3 DEF SendEvents, Move, Over
    <3>4. CASE SendDone(f)
      BY <3>4, <1>t, <1>i, <2>1, <2>3 DEF SendDone, Move, Over
    <3>5. CASE GiveUp(f)
      BY <3>5, <1>t, <1>i, <2>1, <2>3 DEF GiveUp, Move, Over
    <3>6. CASE CloseStream(f)
      BY <3>6, <1>t, <1>i, <2>1, <2>3 DEF CloseStream, Move, Over
    <3>7. CASE Exit(f)
      BY <3>7, <1>t, <1>i, <2>1, <2>3 DEF Exit, Move, Over
    <3> QED
      BY <1>2, <3>1, <3>2, <3>3, <3>4, <3>5, <3>6, <3>7 DEF Produce
  <2> HIDE DEF FileInv
  <2>7. \A g \in Files : FileInv(g)'
    BY <2>2, <2>6
  <2> QED
    BY <2>5, <2>7, <1>q
<1>3. CASE Receive
  <2>1. /\ current \in Files /\ chan[current] # <<>> /\ chan'[current] = <<>>
        /\ UNCHANGED <<batches, closed, producer, sent, next, current>>
        /\ \A g \in Files \ {current} : chan'[g] = chan[g]
    BY <1>3, <1>t, OneLong DEF Receive, Draining, input
  <2>2. \A g \in Files : FileInv(g)'
    BY <1>i, <1>t, <2>1, Appended DEF DoneBatch
  <2>3. BoundInv'
    <3>1. ~EndSeen(current) /\ processed < current
      BY <1>i, <1>t, <2>1 DEF EndSeen
    <3>2. CASE processed' = processed
      BY <3>1, <3>2, <2>1
    <3>3. CASE processed' # processed
      <4>1. Head(chan[current]) = DoneBatch /\ processed' = processed + 1
        BY <1>3, <3>3 DEF Receive
      <4>2. chan[current] = <<DoneBatch>>
        BY <4>1, <1>t, <2>1, OneLong
      <4>3. EndSeen(current)'
        BY <4>2, <1>i, <2>1 DEF EndSeen
      <4> QED
        BY <3>1, <4>1, <4>3, <2>1, <1>t DEF Files
    <3> QED
      BY <3>2, <3>3
  <2>4. HandInv'
    BY <1>3, <2>1 DEF Receive, Draining
  <2> QED
    BY <2>1, <2>2, <2>3, <2>4, <1>i, <1>q DEF WorkerCount
<1>6. CASE FeedBatch
  <2>1. UNCHANGED <<input, goroutines, next, current, processed>> /\ hand' = NoBatch
    BY <1>6 DEF FeedBatch
  <2>2. WindowInv' /\ HandInv' /\ BoundInv' /\ \A f \in Files : FileInv(f)'
    BY <1>i, <2>1 DEF input, goroutines, WorkerCount, EndSeen
  <2> QED
    BY <2>2, <1>q
<1>4. CASE NextFile
  <2>1. /\ current \in Files /\ chan[current] = <<>> /\ current \in closed /\ current' = current + 1
        /\ UNCHANGED <<batches, chan, closed, sent, processed>>
    BY <1>4 DEF NextFile, Draining, input, counts
  <2>2. \/ /\ next < NumFiles /\ next' = next + 1 /\ next + 1 \in Files
           /\ producer'[next + 1] = "parsing"
           /\ \A g \in Files \ {next + 1} : producer'[g] = producer[g]
        \/ next = NumFiles /\ UNCHANGED <<next, producer>>
    <3>1. CASE next < NumFiles
      <4>1. next + 1 \in Files
        BY <3>1, <1>t, Constants DEF Files
      <4>2. next' = next + 1 /\ producer' = [producer EXCEPT ![next + 1] = "parsing"]
        BY <1>4, <3>1 DEF NextFile
      <4> QED
        BY <3>1, <4>1, <4>2, <1>t
    <3>2. CASE ~(next < NumFiles)
      BY <1>4, <3>2, <1>t, Constants DEF NextFile
    <3> QED
      BY <3>1, <3>2
  <2>3. WindowInv'
    BY <1>i, <1>t, <2>1, <2>2, Constants DEF WorkerCount
  <2>4. BoundInv'
    BY <1>i, <1>t, <2>1
  <2>5. \A g \in Files : FileInv(g)'
    <3> SUFFICES ASSUME NEW g \in Files PROVE FileInv(g)'
      OBVIOUS
    <3>1. CASE next < NumFiles /\ g = next + 1
      <4>1. producer'[g] = "parsing" /\ next' = g /\ g > next /\ current' <= g
        BY <1>i, <1>t, <2>1, <2>2, <3>1 DEF Files
      <4>2. producer[g] = "unstarted" /\ g \notin closed /\ chan[g] = <<>> /\ sent[g] = 0
        BY <1>i, <4>1
      <4>3. <<>> # <<DoneBatch>>
        OBVIOUS
      <4> QED
        BY <1>t, <2>1, <4>1, <4>2, <4>3
    <3>2. CASE ~(next < NumFiles /\ g = next + 1)
      <4>1. producer'[g] = producer[g] /\ (g > next' <=> g > next)
        BY <2>2, <3>2, <1>t DEF Files
      <4> QED
        BY <1>i, <1>t, <2>1, <4>1 DEF Files, Over
    <3> QED
      BY <3>1, <3>2
  <2>6. HandInv'
    BY <1>4 DEF NextFile, Draining
  <2> QED
    BY <2>3, <2>4, <2>5, <2>6, <1>q
<1>5. CASE CancelContext \/ UNCHANGED vars
  BY <1>0, <1>5 DEF CancelContext, consumer, vars, counts
<1>7. CASE SeeCancel \/ FinishFiles \/ Return
  <2>1. UNCHANGED <<input, goroutines, next, current, hand, processed>> /\ hand = NoBatch
    <3>1. CASE SeeCancel
      BY <3>1 DEF SeeCancel, Draining, counts
    <3>2. CASE FinishFiles
      BY <3>2, <1>i, Constants DEF FinishFiles, counts, Files
    <3>3. CASE Return
      BY <3>3, <1>i DEF Return, counts
    <3> QED
      BY <1>7, <3>1, <3>2, <3>3
  <2>2. WindowInv' /\ HandInv' /\ BoundInv' /\ \A f \in Files : FileInv(f)'
    BY <1>i, <2>1 DEF input, goroutines, WorkerCount, EndSeen
  <2> QED
    BY <2>2, <1>q
<1> QED
  BY <1>2, <1>3, <1>4, <1>5, <1>6, <1>7 DEF Next, Consume

-------------------------------------------------------------------------------
(* Only the files from the consumer's on to the last one started hold any    *)
(* batches, and those are no more than the workers; one more is in hand.     *)
LEMMA WindowBoundsMemory ==
  ASSUME TypeOK, GoroutineInv
  PROVE  MemoryBounded
<1>1. current \in Nat /\ next \in Nat /\ next - current < WorkerCount /\ current <= next + 1
  BY Constants DEF TypeOK, GoroutineInv
<1>2. IsFiniteSet(current..next) /\ Cardinality(current..next) \in 0..WorkerCount
  <2>1. IsFiniteSet(current..next)
        /\ Cardinality(current..next) = IF current > next THEN 0 ELSE next - current + 1
    BY <1>1, FS_Interval
  <2> QED
    BY <1>1, <2>1, Constants
<1>3. Filling \subseteq current..next /\ Buffering \subseteq current..next
  BY <1>1 DEF GoroutineInv, Filling, Buffering, Files
<1>4. /\ Cardinality(Filling) \in Nat /\ Cardinality(Filling) <= WorkerCount
      /\ Cardinality(Buffering) \in Nat /\ Cardinality(Buffering) <= WorkerCount
  <2>1. ASSUME NEW S \in SUBSET (current..next) PROVE Cardinality(S) \in Nat /\ Cardinality(S) <= WorkerCount
    <3>1. IsFiniteSet(S) /\ Cardinality(S) <= Cardinality(current..next)
      BY <1>2, FS_Subset
    <3>2. Cardinality(S) \in Nat
      BY <3>1, FS_CardinalityType
    <3>3. Cardinality(current..next) \in Nat /\ Cardinality(current..next) <= WorkerCount
      BY <1>2, Constants
    <3> QED
      BY <3>1, <3>2, <3>3, Constants
  <2> QED
    BY <1>3, <2>1
<1> QED
  BY <1>4, Constants DEF MemoryBounded, Held

-------------------------------------------------------------------------------
(* One batch is buffered, or none. *)
LEMMA BufferedIs ==
  ASSUME NEW f \in Files
  PROVE  /\ chan[f] = <<>> => Buffered(f) = 0
         /\ \A n : chan[f] = <<n>> => Buffered(f) = IF n = DoneBatch THEN 0 ELSE 1
<1>1. \A n : <<n>> # <<>> /\ Head(<<n>>) = n
  OBVIOUS
<1> QED
  BY <1>1 DEF Buffered, Buffering

LEMMA BufferedIsNext ==
  ASSUME NEW f \in Files
  PROVE  /\ chan'[f] = <<>> => Buffered(f)' = 0
         /\ \A n : chan'[f] = <<n>> => Buffered(f)' = IF n = DoneBatch THEN 0 ELSE 1
<1>1. \A n : <<n>> # <<>> /\ Head(<<n>>) = n
  OBVIOUS
<1> QED
  BY <1>1 DEF Buffered, Buffering, Files

LEMMA BufferedKept ==
  ASSUME NEW f \in Files, chan'[f] = chan[f]
  PROVE  Buffered(f)' = Buffered(f)
BY DEF Buffered, Buffering, Files

(* A step of a goroutine that is not cut short carries its stream on, and    *)
(* the consumer has seen no more and no less than before.                    *)
LEMMA ProduceStream ==
  ASSUME TypeOK, GoroutineInv, StreamInv, ~ctxDone, NEW f \in Files, Produce(f)
  PROVE  /\ StreamOf(f)'
         /\ Seen(f)' = Seen(f) /\ (EndSeen(f)' <=> EndSeen(f))
         /\ \A g \in Files \ {f} : Seen(g)' = Seen(g) /\ (EndSeen(g)' <=> EndSeen(g)) /\ StreamOf(g)'
<1>t. /\ sent \in [Files -> 0..MaxBatches] /\ batches \in [Files -> 0..MaxBatches]
      /\ chan \in [Files -> Seq(0..MaxBatches)] /\ (\A g \in Files : Len(chan[g]) <= 1)
      /\ DOMAIN producer = Files
  BY DEF TypeOK, Capacity
<1>1. UNCHANGED <<batches, current, hand>> /\ Held' = Held /\ \A g \in Files \ {f} :
        producer'[g] = producer[g] /\ chan'[g] = chan[g] /\ sent'[g] = sent[g]
  BY <1>t, ProducerFrame
    DEF Produce, FillBatch, ReachEnd, SendEvents, SendDone, GiveUp, CloseStream, Exit, Move, input, Held
<1>2. \A g \in Files : StreamOf(g)
  BY DEF StreamInv
<1>3. \A g \in Files \ {f} : Seen(g)' = Seen(g) /\ (EndSeen(g)' <=> EndSeen(g)) /\ StreamOf(g)'
  BY <1>1, <1>2, BufferedKept DEF Seen, EndSeen, StreamOf
<1>4. sent[f] <= batches[f] /\ (producer[f] = "sending" => sent[f] < batches[f])
      /\ (producer[f] = "flushing" => sent[f] + 1 = batches[f])
  BY DEF GoroutineInv
<1>5. f < current => producer[f] \in {"closing", "exited"}
  BY DEF GoroutineInv
<1>6. CASE UNCHANGED <<chan, sent>>
  <2>1. Buffered(f)' = Buffered(f)
    BY <1>6, BufferedKept
  <2>2. \/ producer[f] = "parsing" /\ producer'[f] \in {"sending", "flushing"}
        \/ producer[f] = "parsing" /\ producer'[f] = "ending" /\ ~MoreToSend(f)
        \/ producer[f] \in Over /\ producer'[f] \in Over
    BY <1>6, <1>t DEF Produce, FillBatch, ReachEnd, SendEvents, SendDone, GiveUp, Abandons, CloseStream,
         Exit, Move, Over
  <2>3. producer'[f] \in {"ending"} \cup Over => sent[f] = batches[f]
    BY <2>2, <1>2, <1>4, <1>t DEF StreamOf, MoreToSend, Over
  <2>4. producer'[f] \in Over <=> producer[f] \in Over
    BY <2>2 DEF Over
  <2>5. StreamOf(f)'
    BY <1>1, <1>2, <1>6, <2>1, <2>3, <2>4 DEF StreamOf
  <2>6. Seen(f)' = Seen(f) /\ (EndSeen(f)' <=> EndSeen(f))
    BY <1>1, <1>6, <2>1, <2>4 DEF Seen, EndSeen
  <2> QED
    BY <1>3, <2>5, <2>6
<1>7. CASE SendEvents(f)
  <2>1. /\ chan[f] = <<>> /\ sent'[f] = sent[f] + 1
        /\ \/ producer[f] = "sending" /\ producer'[f] = "parsing"
           \/ producer[f] = "flushing" /\ producer'[f] = "ending"
    BY <1>7, <1>t, Shorter DEF SendEvents, HasRoom, Capacity, Move
  <2>2. chan'[f] = <<sent'[f]>> /\ sent[f] \in Nat /\ sent'[f] # DoneBatch
    BY <1>7, <1>t, <2>1, Appended, Constants DEF SendEvents, DoneBatch
  <2>3. Buffered(f) = 0 /\ Buffered(f)' = 1
    BY <2>1, <2>2, BufferedIs, BufferedIsNext
  <2>4. StreamOf(f)'
    BY <1>1, <1>2, <1>4, <2>1, <2>2, <2>3 DEF StreamOf, Over
  <2>5. Seen(f)' = Seen(f) /\ (EndSeen(f)' <=> EndSeen(f))
    BY <1>1, <1>5, <2>1, <2>2, <2>3 DEF Seen, EndSeen, Over, Held
  <2> QED
    BY <1>3, <2>4, <2>5
<1>8. CASE SendDone(f)
  <2>1. chan[f] = <<>> /\ producer[f] = "ending" /\ producer'[f] = "returning" /\ sent'[f] = sent[f]
    BY <1>8, <1>t, Shorter DEF SendDone, HasRoom, Capacity, Move
  <2>2. chan'[f] = <<DoneBatch>> /\ <<DoneBatch>> # <<>>
    BY <1>8, <1>t, <2>1, Appended DEF SendDone
  <2>3. Buffered(f) = 0 /\ Buffered(f)' = 0
    BY <2>1, <2>2, BufferedIs, BufferedIsNext
  <2>4. StreamOf(f)'
    BY <1>1, <1>2, <2>1, <2>2, <2>3 DEF StreamOf, Over
  <2>5. Seen(f)' = Seen(f) /\ (EndSeen(f)' <=> EndSeen(f))
    BY <1>1, <1>5, <2>1, <2>2, <2>3 DEF Seen, EndSeen, Over
  <2> QED
    BY <1>3, <2>4, <2>5
<1> QED
  BY <1>6, <1>7, <1>8 DEF Produce, FillBatch, ReachEnd, GiveUp, CloseStream, Exit

(* Taking a batch of events shows the consumer nothing yet; the batch that   *)
(* is done shows it the end of the file.                                     *)
LEMMA ReceiveStream ==
  ASSUME TypeOK, GoroutineInv, StreamInv, ~ctxDone, Receive
  PROVE  /\ current \in Files /\ ~EndSeen(current)
         /\ \A f \in Files : StreamOf(f)' /\ Seen(f)' = Seen(f)
         /\ \A f \in Files \ {current} : EndSeen(f)' <=> EndSeen(f)
         /\ \/ ~EndSeen(current)' /\ UNCHANGED <<processed, errors>>
            \/ /\ EndSeen(current)'
               /\ \/ current \in bad /\ errors' = Append(errors, current) /\ UNCHANGED processed
                  \/ current \notin bad /\ processed' = processed + 1 /\ UNCHANGED errors
         /\ UNCHANGED fed
<1>t. /\ sent \in [Files -> 0..MaxBatches] /\ batches \in [Files -> 0..MaxBatches]
      /\ chan \in [Files -> Seq(0..MaxBatches)] /\ (\A g \in Files : Len(chan[g]) <= 1)
      /\ current \in Nat /\ hand \in 0..MaxBatches
  BY DEF TypeOK, Capacity
<1>1. /\ current \in Files /\ chan[current] # <<>> /\ chan'[current] = <<>> /\ hand = NoBatch
      /\ UNCHANGED <<batches, closed, producer, sent, next, current, fed>>
      /\ \A g \in Files \ {current} : chan'[g] = chan[g]
      /\ Head(chan[current]) \in 0..MaxBatches /\ chan[current] = <<Head(chan[current])>>
  BY <1>t, OneLong DEF Receive, Draining, input
<1>2. \A f \in Files : StreamOf(f)
  BY DEF StreamInv
<1>3. \A f \in Files \ {current} : Buffered(f)' = Buffered(f)
  BY <1>1, BufferedKept
<1>4. \A f \in Files \ {current} : Seen(f)' = Seen(f) /\ (EndSeen(f)' <=> EndSeen(f)) /\ StreamOf(f)'
  BY <1>1, <1>2, <1>3, <1>t DEF Seen, EndSeen, StreamOf
<1>6. ~EndSeen(current) /\ Buffered(current)' = 0 /\ Seen(current)' = sent[current] - Held'
      /\ Seen(current) = sent[current] - Buffered(current)
  <2>1. ~EndSeen(current) /\ Buffered(current)' = 0
    BY <1>1, <1>t, BufferedIsNext DEF EndSeen
  <2>2. Held = 0 /\ Held' \in {0, 1} /\ Buffered(current) \in {0, 1} /\ sent[current] \in Nat
    BY <1>1, <1>t, Constants DEF Held, Buffered
  <2>3. Seen(current) = sent[current] - Buffered(current) - Held
    BY <1>1, <1>t DEF Seen
  <2>4. Seen(current)' = sent[current] - Buffered(current)' - Held'
    BY <1>1, <1>t DEF Seen
  <2> QED
    BY <2>1, <2>2, <2>3, <2>4
<1>7. CASE Head(chan[current]) # DoneBatch
  <2>1. chan[current] = <<sent[current]>> /\ Head(chan[current]) = sent[current]
    <3>1. chan[current] # <<DoneBatch>>
      BY <1>1, <1>7
    <3>2. chan[current] = <<sent[current]>>
      BY <1>1, <1>2, <3>1 DEF StreamOf
    <3> QED
      BY <3>2
  <2>2. Buffered(current) = 1 /\ sent[current] \in 1..MaxBatches
    BY <2>1, <1>1, <1>7, <1>t, BufferedIs, Constants DEF DoneBatch
  <2>3. producer[current] \notin Over
    BY <2>1, <1>1, <1>2, <1>7 DEF StreamOf
  <2>4. ~EndSeen(current)'
    BY <2>3, <1>1, <1>t DEF EndSeen, Over
  <2>5. hand' = sent[current] /\ Held' = 1 /\ UNCHANGED <<processed, errors>>
    BY <2>1, <2>2, <1>7 DEF Receive, Held, NoBatch
  <2>6. Seen(current)' = Seen(current)
    BY <1>6, <2>2, <2>5
  <2>7. StreamOf(current)'
    BY <1>1, <1>2, <1>6, <1>t, <2>3, <2>5 DEF StreamOf
  <2> QED
    BY <1>1, <1>4, <1>6, <2>4, <2>5, <2>6, <2>7
<1>8. CASE Head(chan[current]) = DoneBatch
  <2>1. Buffered(current) = 0 /\ producer[current] \in Over
    BY <1>8, <1>1, BufferedIs DEF GoroutineInv
  <2>2. EndSeen(current)'
    BY <2>1, <1>1 DEF EndSeen, Over
  <2>3. hand' = NoBatch /\ Held' = 0
    BY <1>1, <1>8 DEF Receive, Held
  <2>4. Seen(current)' = Seen(current)
    BY <1>6, <2>1, <2>3, <1>1, <1>t
  <2>5. \/ current \in bad /\ errors' = Append(errors, current) /\ UNCHANGED processed
        \/ current \notin bad /\ processed' = processed + 1 /\ UNCHANGED errors
    BY <1>8 DEF Receive
  <2>6. StreamOf(current)'
    BY <1>1, <1>2, <1>t, <2>3 DEF StreamOf
  <2> QED
    BY <1>1, <1>4, <1>6, <2>2, <2>4, <2>5, <2>6
<1> QED
  BY <1>7, <1>8

(* Going through a batch shows the consumer the next one of its file. *)
LEMMA FeedStream ==
  ASSUME TypeOK, GoroutineInv, StreamInv, ~ctxDone, FeedBatch
  PROVE  /\ current \in Files /\ UNCHANGED <<current, processed, errors>>
         /\ \A f \in Files : StreamOf(f)' /\ (EndSeen(f)' <=> EndSeen(f))
         /\ \A f \in Files \ {current} : Seen(f)' = Seen(f)
         /\ Seen(current) + 1 \in 1..MaxBatches /\ Seen(current) + 1 <= batches[current]
         /\ Seen(current)' = Seen(current) + 1
         /\ fed' = Append(fed, <<current, Seen(current) + 1>>)
<1>1. /\ hand # NoBatch /\ hand' = NoBatch /\ fed' = Append(fed, <<current, hand>>)
      /\ UNCHANGED <<batches, chan, producer, sent, current, processed, errors>>
  BY DEF FeedBatch, input, goroutines
<1>2. current \in Files /\ current \in Nat /\ hand \in 1..MaxBatches
  BY <1>1, Constants DEF GoroutineInv, TypeOK, NoBatch
<1>3. \A f \in Files : Buffered(f)' = Buffered(f)
  BY <1>1, BufferedKept
<1>4. \A f \in Files : StreamOf(f)
  BY DEF StreamInv
<1>5. \A f \in Files : StreamOf(f)' /\ (EndSeen(f)' <=> EndSeen(f))
  BY <1>1, <1>3, <1>4 DEF StreamOf, EndSeen
<1>6. Held = 1 /\ Held' = 0
  BY <1>1 DEF Held
<1>7. sent[current] \in Nat /\ sent[current] <= batches[current] /\ Buffered(current) \in {0, 1}
  BY <1>2, Constants DEF TypeOK, GoroutineInv, Buffered
<1>8. hand = sent[current] - Buffered(current)
  BY <1>1, <1>2, <1>4 DEF StreamOf
<1>9. Seen(current) = sent[current] - Buffered(current) - 1
      /\ Seen(current)' = sent[current] - Buffered(current)
  BY <1>1, <1>2, <1>3, <1>6, <1>7 DEF Seen
<1>10. Seen(current) + 1 = hand /\ Seen(current)' = Seen(current) + 1 /\ hand <= batches[current]
  <2>1. batches[current] \in Nat
    BY <1>2, Constants DEF TypeOK
  <2> QED
    BY <1>2, <1>7, <1>8, <1>9, <2>1
<1>11. \A f \in Files \ {current} : Seen(f)' = Seen(f)
  BY <1>1, <1>3 DEF Seen
<1> QED
  BY <1>1, <1>2, <1>5, <1>10, <1>11

(* Going on to the next file shows the consumer nothing new: what it leaves  *)
(* it has seen to the end, and what it comes to is untouched.                *)
LEMMA NextFileStream ==
  ASSUME TypeOK, GoroutineInv, StreamInv, ~ctxDone, NextFile, NEW f \in Files
  PROVE  StreamOf(f)' /\ Seen(f)' = Seen(f) /\ (EndSeen(f)' <=> EndSeen(f))
<1>t. /\ sent \in [Files -> 0..MaxBatches] /\ batches \in [Files -> 0..MaxBatches]
      /\ current \in Nat /\ next \in Nat /\ f \in Nat /\ current <= next + 1
      /\ DOMAIN producer = Files
  BY Constants DEF TypeOK, GoroutineInv, Files
<1>1. /\ current \in Files /\ chan[current] = <<>> /\ current \in closed /\ current' = current + 1
      /\ UNCHANGED <<batches, chan, closed, sent>>
      /\ hand = NoBatch /\ hand' = NoBatch /\ Held = 0 /\ Held' = 0
      /\ f # next + 1 => producer'[f] = producer[f]
  BY <1>t DEF NextFile, Draining, input, Held
<1>2. StreamOf(f)
  BY DEF StreamInv
<1>3. Buffered(f)' = Buffered(f)
  BY <1>1, BufferedKept
<1>4. CASE f <= current
  <2>1. producer'[f] = producer[f]
    <3>1. current <= next
      <4>1. producer[current] # "unstarted"
        BY <1>1 DEF GoroutineInv
      <4> QED
        BY <4>1, <1>1, <1>t DEF GoroutineInv
    <3> QED
      BY <1>1, <1>4, <1>t, <3>1
  <2>2. StreamOf(f)'
    BY <1>1, <1>2, <1>3, <1>4, <1>t, <2>1 DEF StreamOf
  <2>3. f = current => producer[f] \in Over /\ sent[f] = batches[f] /\ Buffered(f) = 0
    BY <1>1, <1>2, BufferedIs DEF GoroutineInv, StreamOf, Over
  <2>4. Seen(f)' = batches[f] /\ EndSeen(f)'
    BY <1>1, <1>4, <1>t DEF Seen, EndSeen
  <2>5. Seen(f) = batches[f] /\ EndSeen(f)
    BY <1>1, <1>4, <1>t, <2>3 DEF Seen, EndSeen
  <2> QED
    BY <2>2, <2>4, <2>5
<1>5. CASE f > current /\ f = next + 1
  <2>1. chan[f] = <<>> /\ sent[f] = 0 /\ producer'[f] = "parsing"
    <3>1. f > next /\ next < NumFiles
      BY <1>5, <1>t, Constants DEF Files
    <3>2. producer' = [producer EXCEPT ![next + 1] = "parsing"]
      BY <3>1 DEF NextFile
    <3> QED
      BY <3>1, <3>2, <1>5, <1>t DEF GoroutineInv
  <2>2. Buffered(f) = 0
    BY <2>1, BufferedIs
  <2>3. StreamOf(f)'
    BY <1>1, <1>3, <2>1, <2>2 DEF StreamOf, Over
  <2>4. Seen(f)' = 0 /\ ~EndSeen(f)'
    BY <1>1, <1>3, <1>5, <1>t, <2>1, <2>2 DEF Seen, EndSeen, Over
  <2>5. Seen(f) = 0 /\ ~EndSeen(f)
    BY <1>5, <1>t DEF Seen, EndSeen
  <2> QED
    BY <2>3, <2>4, <2>5
<1>6. CASE f > current /\ f # next + 1
  <2>1. StreamOf(f)'
    BY <1>1, <1>2, <1>3, <1>6, <1>t DEF StreamOf
  <2>2. Seen(f) = 0 /\ ~EndSeen(f)
    BY <1>6, <1>t DEF Seen, EndSeen
  <2>3. sent[f] = Buffered(f) /\ (producer[f] \in Over => chan[f] # <<>>)
    BY <1>2, <1>6 DEF StreamOf
  <2>4. Seen(f)' = 0 /\ ~EndSeen(f)'
    BY <1>1, <1>3, <1>6, <1>t, <2>3 DEF Seen, EndSeen, Over
  <2> QED
    BY <2>1, <2>2, <2>4
<1> QED
  BY <1>4, <1>5, <1>6, <1>t

(* Each step shows the consumer nothing, one more batch of its file, or the  *)
(* end of its file.                                                          *)
SeesNothing ==
  /\ UNCHANGED counts
  /\ \A f \in Files : Seen(f)' = Seen(f) /\ (EndSeen(f)' <=> EndSeen(f))

SeesEvents ==
  /\ current \in Files /\ UNCHANGED <<current, processed, errors>>
  /\ Seen(current) + 1 \in 1..MaxBatches /\ Seen(current) + 1 <= batches[current]
  /\ fed' = Append(fed, <<current, Seen(current) + 1>>)
  /\ Seen(current)' = Seen(current) + 1
  /\ \A f \in Files \ {current} : Seen(f)' = Seen(f)
  /\ \A f \in Files : EndSeen(f)' <=> EndSeen(f)

SeesEnd ==
  /\ current \in Files /\ UNCHANGED <<current, fed>>
  /\ \/ current \in bad /\ errors' = Append(errors, current) /\ UNCHANGED processed
     \/ current \notin bad /\ processed' = processed + 1 /\ UNCHANGED errors
  /\ ~EndSeen(current) /\ EndSeen(current)'
  /\ \A f \in Files : Seen(f)' = Seen(f)
  /\ \A f \in Files \ {current} : EndSeen(f)' <=> EndSeen(f)

LEMMA SeeingStep ==
  ASSUME TypeOK, GoroutineInv, StreamInv, ~ctxDone', [Next]_vars
  PROVE  /\ StreamInv' /\ ~ctxDone
         /\ UNCHANGED input /\ current \in Nat /\ current' \in Nat /\ current' >= current
         /\ SeesNothing \/ SeesEvents \/ SeesEnd
<1>t. current \in Nat
  BY DEF TypeOK
<1>f. Files' = Files
  BY DEF Files
<1>d. ~ctxDone /\ ~CancelContext
  BY DEF Next, CancelContext, Produce, FillBatch, ReachEnd, SendEvents, SendDone, GiveUp, CloseStream, Exit,
       Consume, Receive, FeedBatch, NextFile, SeeCancel, FinishFiles, Return, vars, TypeOK
<1>s. ASSUME \A f \in Files : StreamOf(f)' PROVE StreamInv'
  BY <1>s, <1>f DEF StreamInv
<1>i. \A f \in Files : StreamOf(f)
  BY <1>d DEF StreamInv
<1>0. CASE UNCHANGED <<input, goroutines, counts, current, hand>>
  <2>1. \A f \in Files : Seen(f)' = Seen(f) /\ (EndSeen(f)' <=> EndSeen(f)) /\ StreamOf(f)'
    BY <1>0, <1>i, BufferedKept DEF goroutines, input, Seen, EndSeen, StreamOf, Held
  <2> QED
    BY <1>0, <1>d, <1>s, <1>t, <2>1 DEF SeesNothing
<1>1. ASSUME NEW f \in Files, Produce(f)
      PROVE  StreamInv' /\ UNCHANGED <<input, current>> /\ SeesNothing
  <2>1. \A g \in Files : StreamOf(g)' /\ Seen(g)' = Seen(g) /\ (EndSeen(g)' <=> EndSeen(g))
    BY <1>1, <1>d, ProduceStream
  <2> QED
    BY <1>1, <1>s, <2>1, ProducerFrame DEF SeesNothing
<1>2. CASE Receive
  <2>1. UNCHANGED <<input, current>>
    BY <1>2 DEF Receive
  <2>2. SeesNothing \/ SeesEnd
    BY <1>2, <1>d, <2>1, ReceiveStream DEF SeesNothing, SeesEnd, counts
  <2>3. StreamInv'
    BY <1>2, <1>d, <1>s, ReceiveStream
  <2> QED
    BY <1>d, <1>t, <2>1, <2>2, <2>3
<1>5. CASE FeedBatch
  <2>1. UNCHANGED <<input, current>>
    BY <1>5 DEF FeedBatch
  <2>2. SeesEvents /\ StreamInv'
    BY <1>5, <1>d, <1>s, FeedStream DEF SeesEvents
  <2> QED
    BY <1>d, <1>t, <2>1, <2>2
<1>3. CASE NextFile
  <2>1. UNCHANGED <<input, counts>> /\ current' = current + 1
    BY <1>3 DEF NextFile
  <2>2. \A g \in Files : StreamOf(g)' /\ Seen(g)' = Seen(g) /\ (EndSeen(g)' <=> EndSeen(g))
    BY <1>3, <1>d, NextFileStream
  <2> QED
    BY <1>d, <1>s, <1>t, <2>1, <2>2 DEF SeesNothing
<1>4. CASE SeeCancel \/ FinishFiles \/ Return \/ UNCHANGED vars
  BY <1>0, <1>4 DEF SeeCancel, FinishFiles, Return, vars, consumer
<1> QED
  BY <1>d, <1>t, <1>1, <1>2, <1>3, <1>4, <1>5 DEF Next, Consume

-------------------------------------------------------------------------------
(* The values of a sequence that grows by one. *)
LEMMA RangeAppend ==
  ASSUME NEW S, NEW s \in Seq(S), NEW x \in S, NEW t, t = Append(s, x)
  PROVE  /\ {t[i] : i \in 1..Len(t)} = {s[i] : i \in 1..Len(s)} \cup {x}
         /\ Len(t) = Len(s) + 1 /\ Len(s) \in Nat /\ t[Len(s) + 1] = x /\ t # <<>>
         /\ \A i \in 1..Len(s) : t[i] = s[i] /\ s[i] \in S
<1>1. /\ Len(t) = Len(s) + 1 /\ Len(s) \in Nat /\ t[Len(s) + 1] = x
      /\ \A i \in 1..Len(s) : t[i] = s[i] /\ s[i] \in S
  OBVIOUS
<1>2. 1..Len(t) = (1..Len(s)) \cup {Len(s) + 1}
  BY <1>1
<1>3. {t[i] : i \in 1..Len(t)} = {s[i] : i \in 1..Len(s)} \cup {x}
  BY <1>1, <1>2
<1>4. t # <<>>
  BY <1>1
<1> QED
  BY <1>1, <1>3, <1>4

LEMMA PositionStep ==
  ASSUME TypeOK, GoroutineInv, StreamInv, PositionInv, [Next]_vars
  PROVE  PositionInv'
<1> SUFFICES ASSUME ~ctxDone' PROVE PositionInv'
  BY DEF PositionInv
<1>1. /\ ~ctxDone /\ current \in Nat /\ current' \in Nat /\ current' >= current
      /\ SeesNothing \/ SeesEvents \/ SeesEnd
  BY SeeingStep
<1>2. /\ LastFed[1] \in 0..NumFiles /\ LastFed[1] <= current
      /\ LastFed[1] # 0 => LastFed[2] = Seen(LastFed[1])
      /\ \A f \in Files : f > LastFed[1] => Seen(f) = 0
  BY <1>1 DEF PositionInv
<1>3. CASE SeesNothing \/ SeesEnd
  <2>1. fed' = fed /\ \A f \in Files : Seen(f)' = Seen(f)
    BY <1>3 DEF SeesNothing, SeesEnd, counts
  <2>2. LastFed' = LastFed
    BY <2>1 DEF LastFed
  <2>3. LastFed[1] # 0 => LastFed[1] \in Files
    BY <1>2, Constants DEF Files
  <2>4. LastFed'[1] # 0 => LastFed'[2] = Seen(LastFed[1])'
    BY <1>2, <2>1, <2>2, <2>3
  <2> QED
    BY <1>1, <1>2, <2>1, <2>2, <2>4, Constants DEF PositionInv, Files
<1>4. CASE SeesEvents
  <2>1. LastFed' = <<current, Seen(current) + 1>>
    <3>1. fed \in Seq(Files \X (1..MaxBatches)) /\ <<current, Seen(current) + 1>> \in Files \X (1..MaxBatches)
      BY <1>4 DEF TypeOK, SeesEvents
    <3>2. fed' = Append(fed, <<current, Seen(current) + 1>>)
      BY <1>4 DEF SeesEvents
    <3>3. fed' # <<>> /\ fed'[Len(fed')] = <<current, Seen(current) + 1>>
      BY <3>1, <3>2, RangeAppend
    <3> QED
      BY <3>3 DEF LastFed
  <2>2. current' = current /\ current \in 0..NumFiles /\ Seen(current)' = Seen(current) + 1
    BY <1>4, Constants DEF SeesEvents, Files
  <2>3. \A f \in Files : f > current => Seen(f)' = 0
    BY <2>2 DEF Seen, Files
  <2>4. LastFed'[1] = current /\ LastFed'[2] = Seen(current)'
    BY <2>1, <2>2
  <2> QED
    BY <1>1, <2>2, <2>3, <2>4 DEF PositionInv, Files
<1> QED
  BY <1>1, <1>3, <1>4

-------------------------------------------------------------------------------
LEMMA CountStep ==
  ASSUME TypeOK, GoroutineInv, StreamInv, CountInv, [Next]_vars
  PROVE  CountInv'
<1> SUFFICES ASSUME ~ctxDone' PROVE CountInv'
  BY DEF CountInv
<1>1. ~ctxDone /\ UNCHANGED input /\ current \in Nat /\ (SeesNothing \/ SeesEvents \/ SeesEnd)
  BY SeeingStep
<1>f. Files' = Files /\ bad' = bad /\ bad \subseteq Files
  BY <1>1 DEF Files, input, TypeOK
<1> DEFINE Fed == {fed[i] : i \in 1..Len(fed)}
           Failed == {errors[i] : i \in 1..Len(errors)}
           Sorted == \A i, j \in 1..Len(errors) : i < j => errors[i] < errors[j]
           AllSeen == {b \in Files \X (1..MaxBatches) : b[2] <= Seen(b[1])}
           BadEnds == {f \in bad : EndSeen(f)}
           GoodEnds == {f \in Files \ bad : EndSeen(f)}
<1>i. Failed = BadEnds /\ Sorted /\ processed = Cardinality(GoodEnds) /\ Fed = AllSeen
  BY <1>1 DEF CountInv
<1>q. ASSUME Failed' = BadEnds', Sorted', processed' = Cardinality(GoodEnds'), Fed' = AllSeen'
      PROVE  CountInv'
  BY <1>q DEF CountInv
<1>s. ASSUME \A f \in Files : Seen(f)' = Seen(f) PROVE AllSeen' = AllSeen
  BY <1>s, <1>f
<1>e. ASSUME \A f \in Files : EndSeen(f)' <=> EndSeen(f) PROVE BadEnds' = BadEnds /\ GoodEnds' = GoodEnds
  BY <1>e, <1>f
<1>2. CASE SeesNothing
  <2>1. UNCHANGED <<fed, errors, processed>>
    BY <1>2 DEF SeesNothing, counts
  <2>2. AllSeen' = AllSeen /\ BadEnds' = BadEnds /\ GoodEnds' = GoodEnds
    BY <1>2, <1>s, <1>e DEF SeesNothing
  <2>3. Fed' = Fed /\ Failed' = Failed /\ (Sorted' <=> Sorted)
    BY <2>1
  <2> QED
    BY <1>i, <1>q, <2>1, <2>2, <2>3
<1>3. CASE SeesEvents
  <2> DEFINE new == <<current, Seen(current) + 1>>
  <2>1. new \in Files \X (1..MaxBatches) /\ fed' = Append(fed, new) /\ UNCHANGED <<errors, processed>>
    BY <1>3 DEF SeesEvents
  <2>2. Fed' = Fed \cup {new}
    <3>1. fed \in Seq(Files \X (1..MaxBatches))
      BY DEF TypeOK
    <3> HIDE DEF new
    <3> QED
      BY <2>1, <3>1, RangeAppend
  <2>3. AllSeen' = AllSeen \cup {new}
    <3>1. Seen(current) + 1 \in 1..MaxBatches /\ Seen(current)' = Seen(current) + 1 /\ current \in Files
          /\ current' = current
          /\ \A f \in Files \ {current} : Seen(f)' = Seen(f)
      BY <1>3 DEF SeesEvents
    <3>2. Seen(current) \in Int
      BY <3>1 DEF Seen, TypeOK, Buffered, Held
    <3>3. ASSUME NEW b \in Files \X (1..MaxBatches)
          PROVE  b[2] <= Seen(b[1])' <=> (b[2] <= Seen(b[1]) \/ b = new)
      <4>1. b[1] \in Files /\ b[2] \in 1..MaxBatches /\ b = <<b[1], b[2]>>
        OBVIOUS
      <4>2. CASE b[1] # current
        BY <3>1, <4>1, <4>2
      <4>3. CASE b[1] = current
        <5>1. b = new <=> b[2] = Seen(current) + 1
          BY <4>1, <4>3
        <5>2. b[2] <= Seen(current) + 1 <=> (b[2] <= Seen(current) \/ b[2] = Seen(current) + 1)
          BY <4>1, <3>2, Constants
        <5> QED
          BY <3>1, <4>3, <5>1, <5>2
      <4> QED
        BY <4>2, <4>3
    <3> HIDE DEF new
    <3>4. AllSeen' = {b \in Files \X (1..MaxBatches) : b[2] <= Seen(b[1])'}
      BY <1>f
    <3> QED
      BY <2>1, <3>3, <3>4
  <2>4. BadEnds' = BadEnds /\ GoodEnds' = GoodEnds
    BY <1>3, <1>e DEF SeesEvents
  <2>5. Failed' = Failed /\ (Sorted' <=> Sorted)
    BY <2>1
  <2> QED
    BY <1>i, <1>q, <2>1, <2>2, <2>3, <2>4, <2>5
<1>4. CASE SeesEnd
  <2>1. /\ current \in Files /\ current' = current /\ ~EndSeen(current) /\ EndSeen(current)' /\ fed' = fed
        /\ \A f \in Files : Seen(f)' = Seen(f)
        /\ \A f \in Files \ {current} : EndSeen(f)' <=> EndSeen(f)
    BY <1>4 DEF SeesEnd
  <2>2. Fed' = Fed /\ AllSeen' = AllSeen
    BY <2>1, <1>s
  <2>3. CASE current \in bad
    <3>1. errors' = Append(errors, current) /\ processed' = processed /\ errors \in Seq(Files)
      BY <1>4, <2>3 DEF SeesEnd, TypeOK
    <3>2. BadEnds' = BadEnds \cup {current} /\ GoodEnds' = GoodEnds
      BY <2>1, <2>3, <1>f
    <3>3. Failed' = Failed \cup {current}
      BY <2>1, <3>1, RangeAppend
    <3>4. Sorted'
      <4>1. /\ Len(errors') = Len(errors) + 1 /\ Len(errors) \in Nat /\ errors'[Len(errors) + 1] = current
            /\ \A i \in 1..Len(errors) : errors'[i] = errors[i] /\ errors[i] \in Files
        BY <2>1, <3>1, RangeAppend
      <4>2. \A i \in 1..Len(errors) : errors[i] < current
        <5> SUFFICES ASSUME NEW i \in 1..Len(errors) PROVE errors[i] < current
          OBVIOUS
        <5>1. errors[i] \in bad /\ EndSeen(errors[i])
          BY <1>i
        <5> QED
          BY <5>1, <2>1 DEF EndSeen
      <4> SUFFICES ASSUME NEW i \in 1..Len(errors'), NEW j \in 1..Len(errors'), i < j
                   PROVE  errors'[i] < errors'[j]
        OBVIOUS
      <4>3. i \in 1..Len(errors) /\ (j \in 1..Len(errors) \/ j = Len(errors) + 1)
        BY <4>1
      <4> QED
        BY <1>i, <4>1, <4>2, <4>3
    <3> QED
      BY <1>i, <1>q, <2>2, <3>1, <3>2, <3>3, <3>4
  <2>4. CASE current \notin bad
    <3>1. errors' = errors /\ processed' = processed + 1
      BY <1>4, <2>4 DEF SeesEnd
    <3>2. BadEnds' = BadEnds /\ GoodEnds' = GoodEnds \cup {current} /\ current \notin GoodEnds
      BY <2>1, <2>4, <1>f
    <3>3. IsFiniteSet(GoodEnds)
      <4>1. IsFiniteSet(Files)
        BY Constants, FS_Interval DEF Files
      <4> QED
        BY <4>1, FS_Subset
    <3>4. Cardinality(GoodEnds') = Cardinality(GoodEnds) + 1
      <4> HIDE DEF GoodEnds
      <4>1. Cardinality(GoodEnds \cup {current}) = Cardinality(GoodEnds) + 1
        BY <3>2, <3>3, FS_AddElement
      <4> QED
        BY <3>2, <4>1
    <3>5. Failed' = Failed /\ (Sorted' <=> Sorted)
      BY <3>1
    <3> QED
      BY <1>i, <1>q, <2>2, <3>1, <3>2, <3>4, <3>5
  <2> QED
    BY <2>3, <2>4
<1> QED
  BY <1>1, <1>2, <1>3, <1>4

-------------------------------------------------------------------------------
(* A successful end: the consumer is past the last file, so it has seen all  *)
(* of every file.                                                            *)
LEMMA CompleteStep ==
  ASSUME TypeOK, GoroutineInv, StreamInv, CountInv, CompleteOnSuccess, err => ctxDone, [Next]_vars
  PROVE  CompleteOnSuccess' /\ (err => ctxDone)'
<1>f. Files' = Files
  BY DEF Files
<1>1. CASE FinishFiles /\ ~ctxDone
  <2>1. /\ current = NumFiles + 1 /\ UNCHANGED <<batches, bad, fed, errors, processed>>
        /\ ~err' /\ bad \subseteq Files
    BY <1>1 DEF FinishFiles, FinalErr, input, counts, TypeOK
  <2>2. \A f \in Files : Seen(f) = batches[f] /\ EndSeen(f)
    BY <2>1, Constants DEF Seen, EndSeen, Files
  <2>3. {f \in bad : EndSeen(f)} = bad /\ {f \in Files \ bad : EndSeen(f)} = Files \ bad
    BY <2>1, <2>2
  <2>4. {b \in Files \X (1..MaxBatches) : b[2] <= Seen(b[1])}
          = {b \in Files \X (1..MaxBatches) : b[2] <= batches[b[1]]}
    BY <2>2
  <2>5. /\ {errors[i] : i \in 1..Len(errors)} = bad
        /\ \A i, j \in 1..Len(errors) : i < j => errors[i] < errors[j]
        /\ processed = Cardinality(Files \ bad)
        /\ {fed[i] : i \in 1..Len(fed)} = {b \in Files \X (1..MaxBatches) : b[2] <= batches[b[1]]}
    BY <1>1, <2>3, <2>4 DEF CountInv
  <2> QED
    BY <1>f, <2>1, <2>5 DEF CompleteOnSuccess
<1>2. CASE (FinishFiles /\ ctxDone) \/ SeeCancel
  BY <1>2 DEF FinishFiles, FinalErr, SeeCancel, CompleteOnSuccess
<1>3. CASE Receive \/ FeedBatch \/ NextFile
  <2>1. stage = "draining" /\ UNCHANGED <<stage, err, ctxDone>>
    BY <1>3 DEF Receive, FeedBatch, NextFile, Draining, GoroutineInv
  <2> QED
    BY <2>1 DEF CompleteOnSuccess
<1>4. CASE UNCHANGED <<input, counts, err>> /\ (stage # "draining" \/ stage' = stage) /\ (ctxDone => ctxDone')
  BY <1>4, <1>f DEF CompleteOnSuccess, input, counts
<1>5. CASE Return \/ CancelContext \/ UNCHANGED vars
  BY <1>4, <1>5 DEF Return, CancelContext, vars, consumer
<1>6. ASSUME NEW f \in Files, Produce(f) PROVE CompleteOnSuccess' /\ (err => ctxDone)'
  BY <1>4, <1>6, ProducerFrame
<1> QED
  BY <1>1, <1>2, <1>3, <1>5, <1>6 DEF Next, Consume

LEMMA StreamStep ==
  ASSUME TypeOK, GoroutineInv, StreamInv, [Next]_vars
  PROVE  StreamInv'
<1>1. CASE ~ctxDone'
  BY <1>1, SeeingStep
<1>2. CASE ctxDone'
  BY <1>2 DEF StreamInv
<1> QED
  BY <1>1, <1>2

-------------------------------------------------------------------------------
(* What the goroutines and consumeFilesInOrder keep true together: which     *)
(* goroutines there are, what their streams hold, and that the counts and    *)
(* the feed are exactly what the consumer has seen of each file.             *)
THEOREM PipelineInvariant == Spec => []IInv
<1>1. Init => IInv
  BY InitInductive
<1>2. IInv /\ [Next]_vars => IInv'
  BY TypeStep, GoroutineStep, StreamStep, PositionStep, CountStep, CompleteStep DEF IInv
<1> QED
  BY <1>1, <1>2, PTL DEF Spec

(* Every variable keeps its type: no stream of parseFileBatches ever buffers *)
(* more than one batch, and no file is counted that does not exist.          *)
THEOREM PipelineTypes == Spec => []TypeOK
<1>1. IInv => TypeOK
  BY DEF IInv
<1> QED
  BY <1>1, PipelineInvariant, PTL

(* The goroutines, the streams and the loop of consumeFilesInOrder never     *)
(* have more than two batches of events per worker and one more in memory,   *)
(* however many files there are, how the goroutines interleave and when the  *)
(* context is cancelled.                                                     *)
THEOREM MemoryIsBounded == Spec => []MemoryBounded
<1>1. IInv => MemoryBounded
  BY WindowBoundsMemory DEF IInv
<1> QED
  BY <1>1, PipelineInvariant, PTL

(* A build that returns without error has given every batch of every file to *)
(* the analyzers, names each failed file once, in discovery order, and       *)
(* counts all the others as processed.                                       *)
THEOREM SuccessIsComplete == Spec => []CompleteOnSuccess
<1>1. IInv => CompleteOnSuccess
  BY DEF IInv
<1> QED
  BY <1>1, PipelineInvariant, PTL

-------------------------------------------------------------------------------
(* The refinement. *)
LEMMA PhaseIs ==
  ASSUME err => ctxDone
  PROVE  /\ stage # "draining" /\ ~err => Phase = "succeeded"
         /\ ~(stage # "draining" /\ ~err) /\ ctxDone => Phase = "aborted"
         /\ stage = "draining" /\ ~ctxDone => Phase = "scanning"
         /\ Phase = "scanning" => stage = "draining" /\ ~ctxDone
         /\ Phase \in {"succeeded", "aborted", "scanning"}
BY DEF Phase

LEMMA PhaseNextIs ==
  /\ stage' # "draining" /\ ~err' => Phase' = "succeeded"
  /\ ~(stage' # "draining" /\ ~err') /\ ctxDone' => Phase' = "aborted"
  /\ stage' = "draining" /\ ~ctxDone' => Phase' = "scanning"
BY DEF Phase

LEMMA ScanInit == Init => Scan!Init
<1> SUFFICES ASSUME Init PROVE Scan!Init
  OBVIOUS
<1>1. Phase = "scanning" /\ fed = <<>>
  BY DEF Init, Phase
<1>2. batches \in [Files -> Nat]
  BY Constants DEF Init
<1> QED
  BY <1>1, <1>2 DEF Scan!Init, Scan!Files, Files

(* A batch received next is next in the scan. *)
LEMMA FeedStep ==
  ASSUME TypeOK, PositionInv, ~ctxDone, ~ctxDone', SeesEvents, UNCHANGED batches,
         Phase = "scanning", Phase' = "scanning"
  PROVE  Scan!Next
<1> DEFINE k == Seen(current) + 1
<1>1. /\ current \in Files /\ current \in Nat /\ k \in 1..batches[current] /\ k \in Nat
      /\ fed' = Append(fed, <<current, k>>)
  <2>1. current \in Files /\ current \in Nat /\ k \in Nat /\ k >= 1 /\ k <= batches[current]
    BY Constants DEF SeesEvents, Files
  <2>2. batches[current] \in Nat
    BY <2>1, Constants DEF TypeOK
  <2> QED
    BY <2>1, <2>2 DEF SeesEvents
<1>2. Seen(current) \in Int
  BY <1>1, Constants DEF Seen, TypeOK, Buffered, Held
<1>3. /\ LastFed[1] \in 0..NumFiles /\ LastFed[1] <= current
      /\ LastFed[1] # 0 => LastFed[2] = Seen(LastFed[1])
      /\ \A f \in Files : f > LastFed[1] => Seen(f) = 0
  BY DEF PositionInv
<1>4. Scan!IsNext(current, k)
  <2>1. CASE LastFed[1] = current
    BY <1>1, <1>3, <2>1 DEF Scan!IsNext, LastFed, Files
  <2>2. CASE LastFed[1] < current
    <3>1. k = 1
      BY <1>1, <1>3, <2>2
    <3>2. LastFed[1] # 0 => LastFed[2] = batches[LastFed[1]]
      BY <1>3, <2>2 DEF Seen
    <3>3. \A g \in (LastFed[1] + 1)..(current - 1) : batches[g] = 0
      <4> SUFFICES ASSUME NEW g \in (LastFed[1] + 1)..(current - 1) PROVE batches[g] = 0
        OBVIOUS
      <4>1. g \in Files /\ g > LastFed[1] /\ g < current
        BY <1>1, <1>3, Constants DEF Files
      <4> QED
        BY <1>3, <4>1 DEF Seen
    <3> QED
      BY <2>2, <3>1, <3>2, <3>3 DEF Scan!IsNext, LastFed
  <2> QED
    BY <1>1, <1>3, <2>1, <2>2
<1> HIDE DEF k
<1>5. Scan!Feed(current, k)
  BY <1>1, <1>4 DEF Scan!Feed
<1> QED
  BY <1>1, <1>5 DEF Scan!Next, Scan!Files, Files

(* Past the last file nothing is left to feed. *)
LEMMA SucceedStep ==
  ASSUME TypeOK, PositionInv, FinishFiles, Phase = "scanning", Phase' = "succeeded", ~ctxDone
  PROVE  Scan!Succeed
<1>1. current = NumFiles + 1 /\ UNCHANGED <<batches, fed>>
  BY DEF FinishFiles, input, counts
<1>2. \A f \in Files : f \in Nat /\ batches[f] \in Nat /\ Seen(f) = batches[f]
  BY <1>1, Constants DEF Seen, Files, TypeOK
<1>3. /\ LastFed[1] \in 0..NumFiles
      /\ LastFed[1] # 0 => LastFed[2] = Seen(LastFed[1])
      /\ \A f \in Files : f > LastFed[1] => Seen(f) = 0
  BY DEF PositionInv
<1>4. ASSUME NEW f \in Files, NEW k \in 1..batches[f] PROVE ~Scan!IsNext(f, k)
  <2>1. f # 0 /\ (LastFed[1] = f => LastFed[2] = batches[f]) /\ ~(f > LastFed[1])
    BY <1>2, <1>3, <1>4 DEF Files
  <2>2. k # batches[f] + 1 /\ ~(LastFed[1] < f)
    BY <1>2, <1>3, <2>1
  <2> QED
    BY <2>1, <2>2 DEF Scan!IsNext, LastFed
<1> QED
  BY <1>1, <1>4 DEF Scan!Succeed, Scan!Files, Files

LEMMA ScanStep == IInv /\ IInv' /\ [Next]_vars => [Scan!Next]_(Scan!vars)
<1> SUFFICES ASSUME IInv, IInv', [Next]_vars PROVE [Scan!Next]_(Scan!vars)
  OBVIOUS
<1>i. TypeOK /\ GoroutineInv /\ StreamInv /\ PositionInv /\ (err => ctxDone) /\ (err' => ctxDone')
  BY DEF IInv
<1>s. ASSUME UNCHANGED batches, Phase' = Phase, Phase # "aborted" => UNCHANGED fed
      PROVE  [Scan!Next]_(Scan!vars)
  BY <1>s DEF Scan!vars
<1>1. UNCHANGED batches /\ (ctxDone => ctxDone')
  <2>1. CASE \E f \in Files : Produce(f)
    BY <2>1, ProducerFrame DEF input
  <2> QED
    BY <2>1 DEF Next, Consume, CancelContext, Receive, FeedBatch, NextFile, SeeCancel, FinishFiles, Return,
           vars, consumer, input
<1>2. CASE Phase = "succeeded"
  <2>1. stage # "draining" /\ ~err
    BY <1>i, <1>2, PhaseIs
  <2>2. stage' # "draining" /\ ~err' /\ UNCHANGED fed
    <3>1. CASE \E f \in Files : Produce(f)
      BY <2>1, <3>1, ProducerFrame DEF counts
    <3> QED
      BY <1>i, <2>1, <3>1 DEF Next, Consume, CancelContext, Receive, FeedBatch, NextFile, Draining, SeeCancel,
           FinishFiles, Return, vars, consumer, counts, GoroutineInv
  <2> QED
    BY <1>1, <1>2, <1>s, <2>2, PhaseNextIs
<1>3. CASE Phase = "aborted"
  <2>1. ~(stage # "draining" /\ ~err) /\ ctxDone
    BY <1>i, <1>3, PhaseIs
  <2>2. ~(stage' # "draining" /\ ~err')
    <3>1. CASE \E f \in Files : Produce(f)
      BY <2>1, <3>1, ProducerFrame
    <3> QED
      BY <2>1, <3>1 DEF Next, Consume, CancelContext, Receive, FeedBatch, NextFile, Draining, SeeCancel,
           FinishFiles, FinalErr, Return, vars, consumer
  <2> QED
    BY <1>1, <1>3, <1>s, <2>1, <2>2, PhaseNextIs
<1>4. CASE Phase = "scanning"
  <2>0. stage = "draining" /\ ~ctxDone /\ ~err
    BY <1>i, <1>4, PhaseIs
  <2>1. CASE CancelContext
    <3>1. Phase' = "aborted"
      BY <2>0, <2>1, PhaseNextIs DEF CancelContext, consumer
    <3> QED
      BY <1>1, <1>4, <3>1 DEF Scan!Next, Scan!Abort
  <2>2. CASE FinishFiles
    <3>1. Phase' = "succeeded"
      BY <2>0, <2>2, PhaseNextIs DEF FinishFiles, FinalErr
    <3> QED
      BY <1>i, <1>4, <2>0, <2>2, <3>1, SucceedStep DEF Scan!Next
  <2>3. CASE ~CancelContext /\ ~FinishFiles
    <3>1. UNCHANGED <<stage, ctxDone>>
      <4>1. CASE \E f \in Files : Produce(f)
        BY <4>1, ProducerFrame
      <4> QED
        BY <2>0, <2>3, <4>1 DEF Next, Consume, Receive, FeedBatch, NextFile, SeeCancel, Return, vars, consumer
    <3>2. Phase' = "scanning"
      BY <2>0, <3>1, PhaseNextIs
    <3>3. SeesNothing \/ SeesEvents \/ SeesEnd
      BY <1>i, <2>0, <3>1, SeeingStep
    <3>4. CASE SeesEvents
      BY <1>i, <1>1, <1>4, <2>0, <3>1, <3>2, <3>4, FeedStep
    <3>5. CASE SeesNothing \/ SeesEnd
      BY <1>1, <1>4, <1>s, <3>2, <3>5 DEF SeesNothing, SeesEnd, counts
    <3> QED
      BY <3>3, <3>4, <3>5
  <2> QED
    BY <2>1, <2>2, <2>3
<1> QED
  BY <1>i, <1>2, <1>3, <1>4, PhaseIs

(* However many files are parsed at once, the analyzers see the batches of   *)
(* the files one file after the other, in discovery order, each batch once;  *)
(* a build that succeeds has shown them all, and a cancelled one promises    *)
(* nothing.                                                                  *)
THEOREM PipelineScansInOrder == Spec => RefinesOrderedScan
<1>1. Init => Scan!Init
  BY ScanInit
<1>2. IInv /\ IInv' /\ [Next]_vars => [Scan!Next]_(Scan!vars)
  BY ScanStep
<1> QED
  BY <1>1, <1>2, PipelineInvariant, PTL DEF Spec, RefinesOrderedScan, Scan!Spec
===============================================================================
