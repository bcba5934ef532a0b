----------------------------- MODULE ErrorContext -----------------------------
(***************************************************************************)
(* The error collector of internal/analysis/errorcontext: it joins every   *)
(* EXCPCNTX record (a context) to the one nearest compatible EXCP or QERR  *)
(* record (an error) within a time window, whichever of them comes first,  *)
(* and keeps errors and contexts waiting in two bounded queues.            *)
(*                                                                         *)
(* Consume and Result run in one goroutine; `stage` is the loop they are   *)
(* in, one action is one iteration, and the next event is taken only when  *)
(* the last one is dealt with.  The timestamps of the input need not       *)
(* increase: the files of a build are consumed one after the other.        *)
(*                                                                         *)
(* process stands for the process and the thread of a record, which a      *)
(* matched context supplies to its error; anchor for the fields (Context,  *)
(* ClientID, SessionID, ...) that are compared and never supplied.  Every  *)
(* event the parser yields has a source, the file it was read from.  The   *)
(* texts that name a group are left out: every finalized error counts in   *)
(* exactly one group, and `grouped` is the sum of the groups' counts.      *)
(***************************************************************************)
EXTENDS Integers, FiniteSets, SequencesExt

CONSTANTS Sources,       \* log files
          Processes,     \* known values of process
          Anchors,       \* known values of anchor
          Unknown,       \* a field the record does not have
          Window,        \* Options.Window
          PendingLimit,  \* Options.PendingLimit
          SampleLimit,   \* Options.SampleLimit
          MaxTime,       \* bound of the model: latest timestamp
          MaxEvents      \* bound of the model: events consumed

ASSUME CollectorAssumption ==
  /\ Unknown \notin Processes \cup Anchors
  /\ Window \in Nat
  /\ PendingLimit \in Nat \ {0}
  /\ SampleLimit \in Nat \ {0}
  /\ MaxTime \in Nat
  /\ MaxEvents \in Nat

VARIABLES
  errors,    \* Collector.errors: errors that a context may still join
  pending,   \* Collector.pending: contexts that wait for their error
  grouped,   \* the sum of Count over Collector.groups
  samples,   \* len(Collector.samples)
  orphans,   \* len(Collector.orphans)
  quality,   \* Collector.quality
  stage,     \* the loop the collector is in, or "idle"
  cursor,    \* matchPending: the index it is at
  event,     \* the event Consume works on
  consumed   \* events consumed so far

queues == <<errors, pending>>
tallies == <<grouped, samples, orphans, quality>>
vars == <<queues, tallies, stage, cursor, event, consumed>>

Times == 0..MaxTime

(* What the code looks at in an event of any kind. *)
Marks == [at : Times, source : Sources, process : Processes \cup {Unknown},
          anchor : Anchors \cup {Unknown}]
Records == [at : Times, source : Sources, process : Processes \cup {Unknown},
            anchor : Anchors \cup {Unknown}, joined : SUBSET Marks]
NoEvent == [at |-> 0, source |-> Unknown, process |-> Unknown, anchor |-> Unknown]
Counters == {"ErrorEvents", "ContextEvents", "MatchedContexts", "AmbiguousContexts",
             "OrphanContexts", "DiscardedSamples"}

TypeOK ==
  /\ errors \in Seq(Records)
  /\ pending \in Seq(Marks)
  /\ grouped \in Nat
  /\ samples \in 0..SampleLimit
  /\ orphans \in 0..SampleLimit
  /\ quality \in [Counters -> Nat]
  /\ stage \in {"idle", "expire error", "expire context", "expire other", "match",
                "bound", "result"}
  /\ cursor \in Nat \ {0}
  /\ event \in Marks \cup {NoEvent}
  /\ consumed \in 0..MaxEvents

Init ==
  /\ errors = <<>>
  /\ pending = <<>>
  /\ grouped = 0
  /\ samples = 0
  /\ orphans = 0
  /\ quality = [c \in Counters |-> 0]
  /\ stage = "idle"
  /\ cursor = 1
  /\ event = NoEvent
  /\ consumed = 0

-------------------------------------------------------------------------------
(* Compatibility and distance. *)

Agree(a, b) == a = Unknown \/ b = Unknown \/ a = b

Compatible(error, context) ==
  /\ error.source = context.source
  /\ Agree(error.process, context.process)
  /\ Agree(error.anchor, context.anchor)

Distance(error, context) ==
  IF error.at < context.at THEN context.at - error.at ELSE error.at - context.at

Fits(error, context) ==
  Compatible(error, context) /\ Distance(error, context) <= Window

Candidates(context) == {i \in 1..Len(errors) : Fits(errors[i], context)}

Nearest(context) ==
  {i \in Candidates(context) : \A j \in Candidates(context) :
     Distance(errors[i], context) <= Distance(errors[j], context)}

(* enrich: what the error did not know it takes from the context. *)
EnrichedNot(error, context) == [error EXCEPT !.joined = @ \cup {context}]

Enriched(error, context) ==
  [error EXCEPT !.joined = @ \cup {context},
                !.process = IF @ = Unknown THEN context.process ELSE @]

-------------------------------------------------------------------------------
(* Bookkeeping, by the helpers that do it in the code. *)

Count(counters) == quality' = [c \in Counters |->
                                 IF c \in counters THEN quality[c] + 1 ELSE quality[c]]

CountedForgetting(retained, counters) == counters

(* A sample list that is full drops one record for each it takes. *)
Counted(retained, counters) ==
  IF retained = SampleLimit THEN counters \cup {"DiscardedSamples"} ELSE counters

More(retained) == IF retained = SampleLimit THEN retained ELSE retained + 1

(* finalize: into its group and the samples. *)
Finalize ==
  /\ grouped' = grouped + 1
  /\ samples' = More(samples)
  /\ Count(Counted(samples, {}))
  /\ UNCHANGED orphans

AddOrphan(counter) ==
  /\ orphans' = More(orphans)
  /\ Count(Counted(orphans, {counter}))
  /\ UNCHANGED <<grouped, samples>>

(* attach and what its caller counts for the outcome, beside `counters`. *)
Attached(context, counters) ==
  /\ \E i \in Nearest(context) :
       /\ Nearest(context) = {i}
       /\ errors' = [errors EXCEPT ![i] = Enriched(errors[i], context)]
  /\ Count(counters \cup {"MatchedContexts"})
  /\ UNCHANGED <<grouped, samples, orphans>>

Ambiguous(context, counters) ==
  /\ Cardinality(Nearest(context)) > 1
  /\ orphans' = More(orphans)
  /\ Count(Counted(orphans, counters \cup {"AmbiguousContexts"}))
  /\ UNCHANGED <<errors, grouped, samples>>

-------------------------------------------------------------------------------
Return == stage' = "idle" /\ cursor' = 1 /\ event' = NoEvent

(* Consume: first what the timestamp of the event expires, ... *)

Consume(e, kind) ==
  /\ stage = "idle"
  /\ consumed < MaxEvents
  /\ event' = e
  /\ consumed' = consumed + 1
  /\ stage' = kind
  /\ UNCHANGED <<queues, tallies, cursor>>

Expiring == stage \in {"expire error", "expire context", "expire other"}
ExpiredErrors == {i \in 1..Len(errors) : errors[i].at < event.at - Window}
ExpiredContexts == {i \in 1..Len(pending) : pending[i].at < event.at - Window}

ExpireError ==
  /\ Expiring
  /\ ExpiredErrors # {}
  /\ Finalize
  /\ errors' = RemoveAt(errors, Min(ExpiredErrors))
  /\ UNCHANGED <<pending, stage, cursor, event, consumed>>

ExpireContext ==
  /\ Expiring
  /\ ExpiredErrors = {} /\ ExpiredContexts # {}
  /\ AddOrphan("OrphanContexts")
  /\ pending' = RemoveAt(pending, Min(ExpiredContexts))
  /\ UNCHANGED <<errors, stage, cursor, event, consumed>>

NothingExpired == ExpiredErrors = {} /\ ExpiredContexts = {}

(* ... then the event itself. *)
NewError == [at |-> event.at, source |-> event.source, process |-> event.process,
             anchor |-> event.anchor, joined |-> {}]

AcceptErrorUnmatched ==
  /\ stage = "expire error" /\ NothingExpired
  /\ errors' = Append(errors, NewError)
  /\ Count({"ErrorEvents"})
  /\ stage' = "bound"
  /\ UNCHANGED <<pending, grouped, samples, orphans, cursor, event, consumed>>

AcceptError ==
  /\ stage = "expire error" /\ NothingExpired
  /\ errors' = Append(errors, NewError)
  /\ Count({"ErrorEvents"})
  /\ stage' = "match"
  /\ cursor' = 1
  /\ UNCHANGED <<pending, grouped, samples, orphans, event, consumed>>

AcceptContext ==
  /\ stage = "expire context" /\ NothingExpired
  /\ \/ /\ Attached(event, {"ContextEvents"}) \/ Ambiguous(event, {"ContextEvents"})
        /\ Return
        /\ UNCHANGED pending
     \/ /\ Nearest(event) = {}
        /\ Count({"ContextEvents"})
        /\ pending' = Append(pending, event)
        /\ stage' = "bound"
        /\ UNCHANGED <<errors, grouped, samples, orphans, cursor, event>>
  /\ UNCHANGED consumed

AcceptOther ==
  /\ stage = "expire other" /\ NothingExpired
  /\ Return
  /\ UNCHANGED <<queues, tallies, consumed>>

-------------------------------------------------------------------------------
(* matchPending: a new error may be what waiting contexts wait for. *)

MatchNext ==
  /\ stage = "match"
  /\ cursor <= Len(pending)
  /\ \/ /\ Attached(pending[cursor], {}) \/ Ambiguous(pending[cursor], {})
        /\ pending' = RemoveAt(pending, cursor)
        /\ UNCHANGED cursor
     \/ /\ Nearest(pending[cursor]) = {}
        /\ cursor' = cursor + 1
        /\ UNCHANGED <<queues, tallies>>
  /\ UNCHANGED <<stage, event, consumed>>

MatchOver ==
  /\ stage = "match"
  /\ cursor > Len(pending)
  /\ stage' = "bound"
  /\ UNCHANGED <<queues, tallies, cursor, event, consumed>>

(* boundErrors and boundPending: the oldest leave a queue that is too long. *)
TooLongByTwo(queue) == Len(queue) > PendingLimit + 1
TooLong(queue) == Len(queue) > PendingLimit

DropError ==
  /\ stage = "bound"
  /\ TooLong(errors)
  /\ Finalize
  /\ errors' = Tail(errors)
  /\ UNCHANGED <<pending, stage, cursor, event, consumed>>

DropContext ==
  /\ stage = "bound"
  /\ TooLong(pending)
  /\ AddOrphan("OrphanContexts")
  /\ pending' = Tail(pending)
  /\ UNCHANGED <<errors, stage, cursor, event, consumed>>

BoundOver ==
  /\ stage = "bound"
  /\ ~TooLong(errors) /\ ~TooLong(pending)
  /\ Return
  /\ UNCHANGED <<queues, tallies, consumed>>

-------------------------------------------------------------------------------
(* Result: nothing more will come, so all that waits is decided. *)

ResultBegin ==
  /\ stage = "idle"
  /\ stage' = "result"
  /\ UNCHANGED <<queues, tallies, cursor, event, consumed>>

FinalizeLeft ==
  /\ stage = "result"
  /\ errors # <<>>
  /\ Finalize
  /\ errors' = Tail(errors)
  /\ UNCHANGED <<pending, stage, cursor, event, consumed>>

OrphanLeft ==
  /\ stage = "result"
  /\ errors = <<>> /\ pending # <<>>
  /\ AddOrphan("OrphanContexts")
  /\ pending' = Tail(pending)
  /\ UNCHANGED <<errors, stage, cursor, event, consumed>>

ResultOver ==
  /\ stage = "result"
  /\ errors = <<>> /\ pending = <<>>
  /\ Return
  /\ UNCHANGED <<queues, tallies, consumed>>

-------------------------------------------------------------------------------
Kinds == {"expire error", "expire context", "expire other"}

ConsumeNext ==
  \/ \E e \in Marks, kind \in Kinds : Consume(e, kind)
  \/ ExpireError \/ ExpireContext
  \/ AcceptError \/ AcceptContext \/ AcceptOther
  \/ MatchNext \/ MatchOver
  \/ DropError \/ DropContext \/ BoundOver

ResultNext == ResultBegin \/ FinalizeLeft \/ OrphanLeft \/ ResultOver

Next == ConsumeNext \/ ResultNext

Spec == Init /\ [][Next]_vars

-------------------------------------------------------------------------------
(* Every record is accounted for exactly once, whatever path it took: an    *)
(* error is waiting or in one group; a context is waiting, matched,         *)
(* ambiguous or an orphan; and what the bounded sample lists do not show of *)
(* them is counted as discarded.                                            *)
Conserved ==
  /\ quality["ErrorEvents"] = grouped + Len(errors)
  /\ quality["ContextEvents"] = quality["MatchedContexts"] + quality["AmbiguousContexts"]
                                 + quality["OrphanContexts"] + Len(pending)
  /\ grouped + quality["AmbiguousContexts"] + quality["OrphanContexts"]
       = samples + orphans + quality["DiscardedSamples"]

(* Between two events neither queue is longer than its limit, and within    *)
(* one only the record just added goes beyond it.                           *)
QueuesBounded ==
  /\ Len(errors) + Len(pending) <= 2 * PendingLimit + 1
  /\ stage \in {"idle", "result"} => Len(errors) <= PendingLimit /\ Len(pending) <= PendingLimit

(* A context waits only while no retained error fits it: neither the order  *)
(* of arrival nor what other contexts added to the errors loses a match.    *)
NoMissedMatch ==
  \A c \in 1..Len(pending) :
    (stage = "match" => c < cursor) => Candidates(pending[c]) = {}

(* The contexts joined to one error do not contradict each other about the  *)
(* process, although the error itself may never have named it.              *)
JoinedAgree ==
  \A i \in 1..Len(errors) : \A c, d \in errors[i].joined :
    Agree(c.process, d.process) /\ Agree(c.process, errors[i].process)

(* The inductive strengthening.  Only the loops that follow an event have   *)
(* one record too many, and a match adds nothing to the queues.             *)
LimitInv ==
  /\ Len(errors) <= PendingLimit + 1 /\ Len(pending) <= PendingLimit + 1
  /\ Len(errors) + Len(pending) <= 2 * PendingLimit + 1
  /\ stage = "match" => Len(pending) <= PendingLimit
  /\ stage \notin {"match", "bound"} => Len(errors) <= PendingLimit /\ Len(pending) <= PendingLimit

EventInv == stage \notin {"idle", "result"} => event \in Marks

(* A joined context that names a process gave it to the error or found it.  *)
JoinedInv ==
  \A i \in 1..Len(errors) : \A c \in errors[i].joined :
    c.process \in {Unknown, errors[i].process}

(* All of it together: types, conservation, the queues and their limits,    *)
(* no missed match, and processes that agree, in every step of every loop.  *)
IInv ==
  /\ TypeOK
  /\ Conserved
  /\ LimitInv
  /\ EventInv
  /\ NoMissedMatch
  /\ JoinedInv

(* A context is joined only when there is exactly one nearest compatible    *)
(* error inside the window (the doc of Consume).                            *)
JoinedToNearest ==
  \A i, j \in 1..Len(errors) : \A c \in errors[i].joined :
    i # j /\ Fits(errors[j], c) => Distance(errors[i], c) < Distance(errors[j], c)
===============================================================================
