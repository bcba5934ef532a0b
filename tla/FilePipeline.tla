----------------------------- MODULE FilePipeline -----------------------------
(***************************************************************************)
(* The ordered, bounded file pipeline of internal/report/overview:         *)
(* consumeFilesInOrder and one goroutine per started file running          *)
(* parseFileBatches.  Every file has a channel of capacity one; the        *)
(* consumer drains the channels in discovery order and starts one more     *)
(* file whenever it is through with one.  The context may be cancelled at  *)
(* any time, and a select with several ready cases takes any of them.      *)
(*                                                                         *)
(* An event batch is the pair of its file and its number in the file; what *)
(* the lines of a batch hold is left out.  A file whose parsing fails has  *)
(* batches before the failure, which the code still delivers.              *)
(***************************************************************************)
EXTENDS Integers, Sequences, FiniteSets

CONSTANTS NumFiles,    \* len(files)
          Workers,     \* Options.Workers
          MaxBatches   \* bound of the model: event batches of one file

ASSUME PipelineAssumption ==
  /\ NumFiles \in Nat
  /\ Workers \in Nat
  /\ MaxBatches \in Nat

VARIABLES
  batches,    \* batches[f]: event batches file f holds
  bad,        \* files whose parsing ends with an error
  ctxDone,    \* ctx.Err() # nil
  chan,       \* chan[f]: what streams[f] buffers
  closed,     \* files whose stream is closed
  producer,   \* producer[f]: where the goroutine of file f is
  sent,       \* sent[f]: event batches sent on streams[f]
  next,       \* files started so far
  current,    \* the file the consumer is draining
  hand,       \* the event batch its loop is going through, NoBatch between two
  fed,        \* the batches given to match and collector.add, in that order
  processed,  \* result.Meta.FilesProcessed
  errors,     \* the files named in result.Errors
  stage,      \* of consumeFilesInOrder: "draining", "waiting", "returned"
  err         \* it returns an error

input == <<batches, bad>>
goroutines == <<chan, closed, producer, sent>>
counts == <<fed, processed, errors>>
consumer == <<next, current, hand, counts, stage, err>>
vars == <<input, ctxDone, goroutines, consumer>>

Files == 1..NumFiles
Capacity == 1
WorkerCount == IF Workers = 0 THEN 1 ELSE Workers
DoneBatch == 0
NoBatch == 0

TypeOK ==
  /\ batches \in [Files -> 0..MaxBatches]
  /\ bad \subseteq Files
  /\ ctxDone \in BOOLEAN
  /\ chan \in [Files -> Seq(0..MaxBatches)]
  /\ \A f \in Files : Len(chan[f]) <= Capacity
  /\ closed \subseteq Files
  /\ producer \in [Files -> {"unstarted", "parsing", "sending", "flushing", "ending",
                             "returning", "closing", "exited"}]
  /\ sent \in [Files -> 0..MaxBatches]
  /\ next \in 0..NumFiles
  /\ current \in 1..(NumFiles + 1)
  /\ hand \in 0..MaxBatches
  /\ fed \in Seq(Files \X (1..MaxBatches))
  /\ processed \in 0..NumFiles
  /\ errors \in Seq(Files)
  /\ stage \in {"draining", "waiting", "returned"}
  /\ err \in BOOLEAN

-------------------------------------------------------------------------------
StartedAtOnceUnbounded == NumFiles
StartedAtOnce == IF NumFiles < WorkerCount THEN NumFiles ELSE WorkerCount

Init ==
  /\ batches \in [Files -> 0..MaxBatches]
  /\ bad \in SUBSET Files
  /\ ctxDone = FALSE
  /\ chan = [f \in Files |-> <<>>]
  /\ closed = {}
  /\ producer = [f \in Files |-> IF f <= StartedAtOnce THEN "parsing" ELSE "unstarted"]
  /\ sent = [f \in Files |-> 0]
  /\ next = StartedAtOnce
  /\ current = 1
  /\ hand = NoBatch
  /\ fed = <<>>
  /\ processed = 0
  /\ errors = <<>>
  /\ stage = "draining"
  /\ err = FALSE

CancelContext ==
  /\ ~ctxDone
  /\ ctxDone' = TRUE
  /\ UNCHANGED <<input, goroutines, consumer>>

-------------------------------------------------------------------------------
(* parseFileBatches in the goroutine of file f. *)

Move(f, from, to) ==
  /\ producer[f] = from
  /\ producer' = [producer EXCEPT ![f] = to]

MoreToSendDroppingTail(f) == sent[f] + 1 < batches[f]
MoreToSend(f) == sent[f] < batches[f]

(* A batch is full. *)
FillBatch(f) ==
  /\ MoreToSend(f)
  /\ Move(f, "parsing", "sending")
  /\ UNCHANGED <<input, ctxDone, chan, closed, sent, consumer>>

(* The parser is through with the file, and less than a batch may be left   *)
(* to flush.  After a parse error nothing is flushed, and nothing reported, *)
(* once the context is cancelled.                                           *)
ReachEnd(f) ==
  /\ f \in bad => ~ctxDone
  /\ \/ MoreToSend(f) /\ sent[f] + 1 = batches[f] /\ Move(f, "parsing", "flushing")
     \/ ~MoreToSend(f) /\ Move(f, "parsing", "ending")
  /\ UNCHANGED <<input, ctxDone, chan, closed, sent, consumer>>

HasRoom(f) == Len(chan[f]) < Capacity

(* A full batch is sent in the middle of the file, the rest at its end. *)
SendEvents(f) ==
  /\ HasRoom(f)
  /\ Move(f, "sending", "parsing") \/ Move(f, "flushing", "ending")
  /\ chan' = [chan EXCEPT ![f] = Append(@, sent[f] + 1)]
  /\ sent' = [sent EXCEPT ![f] = @ + 1]
  /\ UNCHANGED <<input, ctxDone, closed, consumer>>

SendDone(f) ==
  /\ HasRoom(f)
  /\ Move(f, "ending", "returning")
  /\ chan' = [chan EXCEPT ![f] = Append(@, DoneBatch)]
  /\ UNCHANGED <<input, ctxDone, closed, sent, consumer>>

NeverAbandons(f) == FALSE
Abandons(f) == ctxDone

(* The parser sees the cancellation between two lines, or a send is given up. *)
GiveUp(f) ==
  /\ Abandons(f)
  /\ \E from \in {"parsing", "sending", "flushing", "ending"} : Move(f, from, "returning")
  /\ UNCHANGED <<input, ctxDone, chan, closed, sent, consumer>>

(* The deferred close(output), then the deferred workersGroup.Done(). *)
CloseStream(f) ==
  /\ Move(f, "returning", "closing")
  /\ closed' = closed \cup {f}
  /\ UNCHANGED <<input, ctxDone, chan, sent, consumer>>

Exit(f) ==
  /\ Move(f, "closing", "exited")
  /\ UNCHANGED <<input, ctxDone, chan, closed, sent, consumer>>

-------------------------------------------------------------------------------
(* consumeFilesInOrder. *)

Draining == stage = "draining" /\ current \in Files /\ hand = NoBatch

(* One receive.  A batch of events is taken to be gone through; a batch that *)
(* is done carries none, and the file is counted with it.                    *)
Receive ==
  /\ Draining
  /\ chan[current] # <<>>
  /\ chan' = [chan EXCEPT ![current] = Tail(@)]
  /\ LET batch == Head(chan[current]) IN
     \/ /\ batch # DoneBatch
        /\ hand' = batch
        /\ UNCHANGED <<processed, errors>>
     \/ /\ batch = DoneBatch /\ current \in bad
        /\ errors' = Append(errors, current)
        /\ UNCHANGED <<hand, processed>>
     \/ /\ batch = DoneBatch /\ current \notin bad
        /\ processed' = processed + 1
        /\ UNCHANGED <<hand, errors>>
  /\ UNCHANGED <<input, ctxDone, closed, producer, sent, next, current, fed, stage, err>>

(* The loop over the events of a batch, which does not look at the context. *)
FeedBatch ==
  /\ hand # NoBatch
  /\ fed' = Append(fed, <<current, hand>>)
  /\ hand' = NoBatch
  /\ UNCHANGED <<input, ctxDone, goroutines, next, current, processed, errors, stage, err>>

(* The stream is closed and drained: on to the next file, and one more is   *)
(* started.  A file cut short by the cancellation looks the same here.      *)
NextFile ==
  /\ Draining
  /\ chan[current] = <<>>
  /\ current \in closed
  /\ current' = current + 1
  /\ IF next < NumFiles
     THEN /\ next' = next + 1
          /\ producer' = [producer EXCEPT ![next'] = "parsing"]
     ELSE UNCHANGED <<next, producer>>
  /\ UNCHANGED <<input, ctxDone, chan, closed, sent, hand, counts, stage, err>>

SeeCancel ==
  /\ Draining
  /\ ctxDone
  /\ stage' = "waiting"
  /\ err' = TRUE
  /\ UNCHANGED <<input, ctxDone, goroutines, next, current, hand, counts>>

FinalErrUnchecked == FALSE
FinalErr == ctxDone

FinishFiles ==
  /\ stage = "draining"
  /\ current = NumFiles + 1
  /\ stage' = "waiting"
  /\ err' = FinalErr
  /\ UNCHANGED <<input, ctxDone, goroutines, next, current, hand, counts>>

(* The deferred workersGroup.Wait(). *)
Return ==
  /\ stage = "waiting"
  /\ \A f \in Files : producer[f] \in {"unstarted", "exited"}
  /\ stage' = "returned"
  /\ UNCHANGED <<input, ctxDone, goroutines, next, current, hand, counts, err>>

-------------------------------------------------------------------------------
Produce(f) ==
  FillBatch(f) \/ ReachEnd(f) \/ SendEvents(f) \/ SendDone(f) \/ GiveUp(f)
    \/ CloseStream(f) \/ Exit(f)

Consume == Receive \/ FeedBatch \/ NextFile \/ SeeCancel \/ FinishFiles \/ Return

Next == CancelContext \/ (\E f \in Files : Produce(f)) \/ Consume

Spec == Init /\ [][Next]_vars

(* Every goroutine that can step does; nobody has to cancel. *)
Fairness == WF_vars(Consume) /\ \A f \in Files : WF_vars(Produce(f))

FairSpec == Spec /\ Fairness

-------------------------------------------------------------------------------
(* At most two batches of events per worker are in memory, the one a        *)
(* goroutine fills or tries to send and the one its channel buffers, and    *)
(* with them the one the consumer is going through.                         *)
Filling == {f \in Files : producer[f] \in {"parsing", "sending", "flushing"}}
Buffering == {f \in Files : chan[f] # <<>> /\ Head(chan[f]) # DoneBatch}
Held == IF hand = NoBatch THEN 0 ELSE 1

MemoryBounded == Cardinality(Filling) + Cardinality(Buffering) + Held <= 2 * WorkerCount + 1

(* A build without error accounts for every file: each failed file is in    *)
(* Errors, in discovery order, and all the others are counted as processed; *)
(* nothing a file delivered before its failure is dropped.                  *)
CompleteOnSuccess ==
  stage # "draining" /\ ~err =>
    /\ {errors[i] : i \in 1..Len(errors)} = bad
    /\ \A i, j \in 1..Len(errors) : i < j => errors[i] < errors[j]
    /\ processed = Cardinality(Files \ bad)
    /\ {fed[i] : i \in 1..Len(fed)} = {b \in Files \X (1..MaxBatches) : b[2] <= batches[b[1]]}

(* The build ends: no select is left without a partner, whatever the moment *)
(* of the cancellation, and the deferred Wait does not hang.                *)
Terminates == <>(stage = "returned")

Phase ==
  CASE stage # "draining" /\ ~err -> "succeeded"
    [] ~(stage # "draining" /\ ~err) /\ ctxDone -> "aborted"
    [] ~(stage # "draining" /\ ~err) /\ ~ctxDone -> "scanning"

Scan == INSTANCE OrderedScan
          WITH fed <- IF Phase = "aborted" THEN <<>> ELSE fed,
               phase <- Phase

(* The analyzers see what a sequential scan in discovery order would show.  *)
RefinesOrderedScan == Scan!Spec
-------------------------------------------------------------------------------
(* The inductive strengthening.  What the goroutine of a file sent and the  *)
(* consumer has not gone through is in the stream or in the consumer's      *)
(* hands, unless it is cut short; Seen counts what it has gone through.     *)
Over == {"returning", "closing", "exited"}
Buffered(f) == IF f \in Buffering THEN 1 ELSE 0

Seen(f) ==
  IF f < current THEN batches[f] ELSE IF f = current THEN sent[f] - Buffered(f) - Held ELSE 0

(* The consumer has received the last batch of f, which tells how it ended. *)
EndSeen(f) ==
  f < current \/ (f = current /\ producer[f] \in Over /\ chan[f] = <<>>)

(* Which goroutines there are, and what they have left behind. *)
GoroutineInv ==
  /\ next - current < WorkerCount
  /\ current <= next + 1
  /\ next < NumFiles => current <= next
  /\ \A f \in Files :
       /\ producer[f] = "unstarted" <=> f > next
       /\ f \in closed <=> producer[f] \in {"closing", "exited"}
       /\ f < current => f \in closed /\ chan[f] = <<>>
       /\ f > next => chan[f] = <<>> /\ sent[f] = 0
       /\ chan[f] = <<DoneBatch>> => producer[f] \in Over
       /\ sent[f] <= batches[f]
       /\ producer[f] = "sending" => sent[f] < batches[f]
       /\ producer[f] = "flushing" => sent[f] + 1 = batches[f]
  /\ hand # NoBatch => current \in Files /\ stage = "draining"
  /\ processed < current \/ (processed = current /\ current \in Files /\ EndSeen(current))

(* As long as nothing is cut short, a stream carries the whole file. *)
StreamOf(f) ==
  /\ chan[f] \in {<<>>, <<sent[f]>>, <<DoneBatch>>}
  /\ producer[f] \in {"ending"} \cup Over => sent[f] = batches[f]
  /\ producer[f] \in Over => chan[f] \in {<<>>, <<DoneBatch>>}
  /\ f > current => sent[f] = Buffered(f) /\ (producer[f] \in Over => chan[f] # <<>>)
  /\ f = current /\ hand # NoBatch => hand = sent[f] - Buffered(f)

StreamInv == ~ctxDone => \A f \in Files : StreamOf(f)

(* The last batch fed is the last one seen. *)
LastFed == IF fed = <<>> THEN <<0, 0>> ELSE fed[Len(fed)]

PositionInv ==
  ~ctxDone =>
    /\ LastFed[1] \in 0..NumFiles /\ LastFed[1] <= current
    /\ LastFed[1] # 0 => LastFed[2] = Seen(LastFed[1])
    /\ \A f \in Files : f > LastFed[1] => Seen(f) = 0

(* What the consumer has counted is what it has seen the end of. *)
CountInv ==
  ~ctxDone =>
    /\ {errors[i] : i \in 1..Len(errors)} = {f \in bad : EndSeen(f)}
    /\ \A i, j \in 1..Len(errors) : i < j => errors[i] < errors[j]
    /\ processed = Cardinality({f \in Files \ bad : EndSeen(f)})
    /\ {fed[i] : i \in 1..Len(fed)} = {b \in Files \X (1..MaxBatches) : b[2] <= Seen(b[1])}

IInv ==
  /\ TypeOK /\ GoroutineInv /\ StreamInv /\ PositionInv /\ CountInv /\ CompleteOnSuccess
  /\ err => ctxDone
===============================================================================
