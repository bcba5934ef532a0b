--------------------------- MODULE TraceCorrelation ---------------------------
(***************************************************************************)
(* The trace collector of internal/analysis/trace: a CALL opens a trace on *)
(* its lane (source, process and thread), later records join an open trace *)
(* and an EXCPCNTX (an error context) waits until its window is over and   *)
(* then joins the one nearest error, whose trace may be closed or dropped  *)
(* by then.  Four limits bound what is kept.                               *)
(*                                                                         *)
(* Consume and Result run in one goroutine.  `stage` is the loop they are  *)
(* in; everything a record causes before the first loop that may take      *)
(* several rounds is one action.  ids stands for ClientID, CallID and      *)
(* Trans; anchor for the other fields that errors and contexts compare     *)
(* (Context, t:clientID, SessionID, ID).  Of the spans of a trace only its *)
(* errors are kept, with the contexts that joined them, and whether there  *)
(* is a Context; StartedAt and LastAt, which only order and show the       *)
(* result, are left out.                                                   *)
(***************************************************************************)
EXTENDS Integers, FiniteSets, SequencesExt

CONSTANTS Lanes,       \* values of source, process and thread together
          Complete,    \* the lanes none of whose parts is empty
          IdFields,    \* the optional identifiers of a call
          IdValues,    \* their known values
          Anchors,     \* known values of anchor
          Unknown,     \* a field the record does not have
          Window,      \* errorContextWindow
          MaxOpen,     \* Options.MaxOpenTraces
          MaxTraces,   \* Options.MaxTraces
          MaxTime,     \* bound of the model: latest timestamp
          MaxEvents    \* bound of the model: records consumed

ASSUME TraceAssumption ==
  /\ Complete \subseteq Lanes
  /\ Unknown \notin IdValues \cup Anchors
  /\ Window \in Nat
  /\ MaxOpen \in Nat \ {0}
  /\ MaxTraces \in Nat \ {0}
  /\ MaxTime \in Nat
  /\ MaxEvents \in Nat

VARIABLES
  traces,      \* every trace ever opened; the index is its sequence
  active,      \* Collector.active: the sequences of the open traces
  done,        \* Collector.done
  candidates,  \* Collector.errorCandidates: <<trace, index of the error>>
  pending,     \* Collector.pendingErrorContexts
  quality,     \* Collector.quality
  stage,       \* the loop the collector is in, or "idle"
  now,         \* timestamp of the record Consume works on
  inOrder      \* history: no timestamp went back, as in one file

vars == <<traces, active, done, candidates, pending, quality, stage, now, inOrder>>

Times == 0..MaxTime
Ids == [IdFields -> IdValues \cup {Unknown}]

(* What the code looks at in a record; only errors and contexts are asked   *)
(* for an anchor.                                                           *)
Plain == [at : Times, lane : Lanes, ids : Ids, anchor : {Unknown}]
Marks == [at : Times, lane : Lanes, ids : Ids, anchor : Anchors \cup {Unknown}]
ErrorSpans == [at : Times, ids : Ids, anchor : Anchors \cup {Unknown}, joined : SUBSET Marks]
Traces == [lane : Lanes, ids : Ids, hasContext : BOOLEAN, errors : Seq(ErrorSpans)]
Counters == {"EventsConsumed", "Calls", "VRS", "CorrelatedVRS", "AmbiguousVRS",
             "ErrorContexts", "CorrelatedErrorContexts", "AmbiguousErrorContexts",
             "ExpiredErrorContexts", "DroppedErrorContexts", "DroppedErrorCandidates",
             "CorrelatedEvents", "IgnoredEvents", "OrphanEvents", "MissingContextTraces",
             "EvictedOpenTraces", "EvictedCompletedTraces"}

TypeOK ==
  /\ traces \in Seq(Traces)
  /\ active \subseteq 1..Len(traces)
  /\ done \in Seq(1..Len(traces))
  /\ candidates \in Seq(Nat \X Nat)
  /\ \A i \in 1..Len(candidates) :
       /\ candidates[i][1] \in 1..Len(traces)
       /\ candidates[i][2] \in 1..Len(traces[candidates[i][1]].errors)
  /\ pending \in Seq(Marks)
  /\ quality \in [Counters -> Nat]
  /\ stage \in {"idle", "evict", "resolve", "prune", "result", "finished"}
  /\ now \in Times
  /\ inOrder \in BOOLEAN

Init ==
  /\ traces = <<>>
  /\ active = {}
  /\ done = <<>>
  /\ candidates = <<>>
  /\ pending = <<>>
  /\ quality = [c \in Counters |-> 0]
  /\ stage = "idle"
  /\ now = 0
  /\ inOrder = TRUE

-------------------------------------------------------------------------------
Count(counters) == quality' = [c \in Counters |->
                                 IF c \in counters THEN quality[c] + 1 ELSE quality[c]]

(* Appending to a bounded list drops its oldest element: what is left, and  *)
(* what the drop counts.  The list grows by one, so one drop is enough.     *)
Bounded(list, limit) == IF Len(list) > limit THEN Tail(list) ELSE list
IfDropped(list, limit, counters) == IF Len(list) = limit THEN counters ELSE {}

(* appendDone: the trace is closed. *)
AppendDone(trace) ==
  (IF traces[trace].hasContext THEN {} ELSE {"MissingContextTraces"})
    \cup IfDropped(done, MaxTraces, {"EvictedCompletedTraces"})

Close(trace, counters) ==
  /\ done' = Bounded(Append(done, trace), MaxTraces)
  /\ Count(counters \cup AppendDone(trace))

(* optionalMatch: what the record declares, the trace has.  The score of a  *)
(* match is the number of identifiers the record declares, the same for     *)
(* every trace, so that the newest one is the best.                         *)
OptionalMatch(trace, record) ==
  \A f \in IdFields : record.ids[f] # Unknown => traces[trace].ids[f] = record.ids[f]

Matching(record) ==
  {t \in active : traces[t].lane = record.lane /\ OptionalMatch(t, record)}

(* matchReliable: a match with a declared identifier scores above zero. *)
Reliable(record) == IF record.lane \in Complete THEN Matching(record) ELSE {}

-------------------------------------------------------------------------------
(* Consume: the record itself, ... *)

Begin(record, next) ==
  /\ stage = "idle"
  /\ quality["EventsConsumed"] < MaxEvents
  /\ now' = record.at
  /\ inOrder' = (inOrder /\ record.at >= now)
  /\ stage' = next

Consumed(counters) == Count({"EventsConsumed"} \cup counters)

SameCall(record) ==
  {t \in active : traces[t].lane = record.lane /\ traces[t].ids = record.ids}

ConsumeCall(record) ==
  /\ Begin(record, "evict")
  /\ traces' = Append(traces, [lane |-> record.lane, ids |-> record.ids,
                               hasContext |-> FALSE, errors |-> <<>>])
  /\ active' = (active \ SameCall(record)) \cup {Len(traces) + 1}
  /\ \/ SameCall(record) = {} /\ Consumed({"Calls"}) /\ UNCHANGED done
     \/ \E previous \in SameCall(record) : Close(previous, {"EventsConsumed", "Calls"})
  /\ UNCHANGED <<candidates, pending>>

(* consumeRelated, for a record that is neither a Context nor an error, ... *)
ConsumeRelated(record) ==
  /\ Begin(record, "resolve")
  /\ Consumed({IF Matching(record) = {} THEN "OrphanEvents" ELSE "CorrelatedEvents"})
  /\ UNCHANGED <<traces, active, done, candidates, pending>>

(* ... for a Context, ... *)
ConsumeContext(record) ==
  /\ Begin(record, "resolve")
  /\ \/ Matching(record) = {} /\ Consumed({"OrphanEvents"}) /\ UNCHANGED traces
     \/ /\ Matching(record) # {}
        /\ traces' = [traces EXCEPT ![Max(Matching(record))].hasContext = TRUE]
        /\ Consumed({"CorrelatedEvents"})
  /\ UNCHANGED <<active, done, candidates, pending>>

(* ... and for an EXCP or QERR: the error is the last span of its trace. *)
NewCandidate(t) == <<t, Len(traces[t].errors) + 1>>

ConsumeError(record) ==
  /\ Begin(record, "resolve")
  /\ \/ /\ Matching(record) = {}
        /\ Consumed({"OrphanEvents"})
        /\ UNCHANGED <<traces, candidates>>
     \/ /\ Matching(record) # {}
        /\ LET t == Max(Matching(record))
               error == [at |-> record.at, ids |-> record.ids, anchor |-> record.anchor,
                         joined |-> {}]
           IN  /\ traces' = [traces EXCEPT ![t].errors = Append(@, error)]
               /\ candidates' = Bounded(Append(candidates, NewCandidate(t)), MaxOpen)
        /\ Consumed({"CorrelatedEvents"}
                      \cup IfDropped(candidates, MaxOpen, {"DroppedErrorCandidates"}))
  /\ UNCHANGED <<active, done, pending>>

ConsumeVRS(record) ==
  /\ Begin(record, "resolve")
  /\ Consumed({"VRS"} \cup
       CASE Cardinality(Reliable(record)) = 0 -> {"OrphanEvents"}
         [] Cardinality(Reliable(record)) = 1 -> {"CorrelatedEvents", "CorrelatedVRS"}
         [] OTHER -> {"AmbiguousVRS", "OrphanEvents"})
  /\ UNCHANGED <<traces, active, done, candidates, pending>>

OverflowUncounted == {"DroppedErrorContexts"}
Overflow == {"DroppedErrorContexts", "OrphanEvents"}

ConsumeErrorContext(record) ==
  /\ Begin(record, "resolve")
  /\ pending' = Bounded(Append(pending, record), MaxOpen)
  /\ Consumed({"ErrorContexts"} \cup IfDropped(pending, MaxOpen, Overflow))
  /\ UNCHANGED <<traces, active, done, candidates>>

ConsumeOther(record) ==
  /\ Begin(record, "resolve")
  /\ Consumed({"IgnoredEvents"})
  /\ UNCHANGED <<traces, active, done, candidates, pending>>

-------------------------------------------------------------------------------
(* ... then evictOpenIfNeeded after a CALL, oldest first, ... *)

TooManyOpenByTwo == Cardinality(active) > MaxOpen + 1
TooManyOpen == Cardinality(active) > MaxOpen

EvictOpen ==
  /\ stage = "evict"
  /\ TooManyOpen
  /\ active' = active \ {Min(active)}
  /\ Close(Min(active), {"EvictedOpenTraces"})
  /\ UNCHANGED <<traces, candidates, pending, stage, now, inOrder>>

EvictOver ==
  /\ stage = "evict"
  /\ ~TooManyOpen
  /\ stage' = "resolve"
  /\ UNCHANGED <<traces, active, done, candidates, pending, quality, now, inOrder>>

(* ... then every error context whose window is over, ... *)

Agree(a, b) == a = Unknown \/ b = Unknown \/ a = b

(* errorContextCompatible: the context names its lane in full and agrees    *)
(* with the trace and with what the error says.                             *)
Compatible(trace, error, context) ==
  /\ context.lane \in Complete /\ traces[trace].lane = context.lane
  /\ OptionalMatch(trace, context)
  /\ \A f \in IdFields : Agree(error.ids[f], context.ids[f])
  /\ Agree(error.anchor, context.anchor)

Distance(error, context) ==
  IF error.at < context.at THEN context.at - error.at ELSE error.at - context.at

Fits(trace, error, context) ==
  Compatible(trace, error, context) /\ Distance(error, context) <= Window

ErrorOf(candidate) == traces[candidate[1]].errors[candidate[2]]

Nearest(context) ==
  LET fitting == {c \in ToSet(candidates) : Fits(c[1], ErrorOf(c), context)}
  IN  {c \in fitting : \A d \in fitting :
         Distance(ErrorOf(c), context) <= Distance(ErrorOf(d), context)}

(* mergeMissingFields, and the span of the context. *)
MergedNot(error, context) == [error EXCEPT !.joined = @ \cup {context}]

Merged(error, context) ==
  [at |-> error.at,
   ids |-> [f \in IdFields |-> IF error.ids[f] = Unknown THEN context.ids[f] ELSE error.ids[f]],
   anchor |-> IF error.anchor = Unknown THEN context.anchor ELSE error.anchor,
   joined |-> error.joined \cup {context}]

Resolve(context) ==
  \/ /\ Nearest(context) = {}
     /\ Count({"ExpiredErrorContexts", "OrphanEvents"})
     /\ UNCHANGED traces
  \/ /\ Cardinality(Nearest(context)) > 1
     /\ Count({"AmbiguousErrorContexts", "OrphanEvents"})
     /\ UNCHANGED traces
  \/ \E c \in Nearest(context) :
       /\ Nearest(context) = {c}
       /\ traces' = [traces EXCEPT ![c[1]].errors[c[2]] = Merged(@, context)]
       /\ Count({"CorrelatedEvents", "CorrelatedErrorContexts"})

OverAtOnce(context) == context.at <= now
Over(context) == context.at < now - Window
Expired == {i \in 1..Len(pending) : Over(pending[i])}

ResolveExpired ==
  /\ stage = "resolve"
  /\ Expired # {}
  /\ Resolve(pending[Min(Expired)])
  /\ pending' = RemoveAt(pending, Min(Expired))
  /\ UNCHANGED <<active, done, candidates, stage, now, inOrder>>

ResolveOver ==
  /\ stage = "resolve"
  /\ Expired = {}
  /\ stage' = "prune"
  /\ UNCHANGED <<traces, active, done, candidates, pending, quality, now, inOrder>>

(* ... and last the errors no context can be joined to any more. *)

OutdatedEarly(candidate) == ErrorOf(candidate).at < now - Window
Outdated(candidate) == ErrorOf(candidate).at < now - 2 * Window

(* What the loop has kept of the first n candidates. *)
Kept[n \in 0..Len(candidates)] ==
  IF n = 0 THEN <<>>
  ELSE IF Outdated(candidates[n]) THEN Kept[n - 1] ELSE Append(Kept[n - 1], candidates[n])

PruneErrorCandidates ==
  /\ stage = "prune"
  /\ candidates' = Kept[Len(candidates)]
  /\ stage' = "idle"
  /\ UNCHANGED <<traces, active, done, pending, quality, now, inOrder>>

-------------------------------------------------------------------------------
(* Result: the contexts that still wait are decided; it is the last call. *)

ResultBegin ==
  /\ stage = "idle"
  /\ stage' = "result"
  /\ UNCHANGED <<traces, active, done, candidates, pending, quality, now, inOrder>>

ResolveLeft ==
  /\ stage = "result"
  /\ pending # <<>>
  /\ Resolve(Head(pending))
  /\ pending' = Tail(pending)
  /\ UNCHANGED <<active, done, candidates, stage, now, inOrder>>

ResultOver ==
  /\ stage = "result"
  /\ pending = <<>>
  /\ stage' = "finished"
  /\ UNCHANGED <<traces, active, done, candidates, pending, quality, now, inOrder>>

Next ==
  \/ \E record \in Plain :
       \/ ConsumeCall(record) \/ ConsumeRelated(record) \/ ConsumeContext(record)
       \/ ConsumeVRS(record) \/ ConsumeOther(record)
  \/ \E record \in Marks : ConsumeError(record) \/ ConsumeErrorContext(record)
  \/ EvictOpen \/ EvictOver \/ ResolveExpired \/ ResolveOver \/ PruneErrorCandidates
  \/ ResultBegin \/ ResolveLeft \/ ResultOver

Spec == Init /\ [][Next]_vars

-------------------------------------------------------------------------------
(* Every record ends in one place, and so does every error context and      *)
(* every call, whatever was evicted on the way; a trace closed without a    *)
(* Context counts once, also when Result no longer has it.                  *)
Conserved ==
  /\ quality["EventsConsumed"] = quality["Calls"] + quality["CorrelatedEvents"]
       + quality["OrphanEvents"] + quality["IgnoredEvents"] + Len(pending)
  /\ quality["ErrorContexts"] = quality["CorrelatedErrorContexts"]
       + quality["AmbiguousErrorContexts"] + quality["ExpiredErrorContexts"]
       + quality["DroppedErrorContexts"] + Len(pending)
  /\ quality["Calls"] = Cardinality(active) + Len(done) + quality["EvictedCompletedTraces"]
  /\ quality["MissingContextTraces"] =
       Cardinality({t \in 1..Len(traces) : t \notin active /\ ~traces[t].hasContext})

(* The four limits hold whenever a record is dealt with. *)
LimitsKept ==
  stage # "evict" =>
    /\ Cardinality(active) <= MaxOpen /\ Len(done) <= MaxTraces
    /\ Len(candidates) <= MaxOpen /\ Len(pending) <= MaxOpen

(* The contexts joined to one error contradict neither it nor each other,   *)
(* in any field, although the error may have named none of them.            *)
JoinedAgree ==
  \A t \in 1..Len(traces) : \A i \in 1..Len(traces[t].errors) :
    LET error == traces[t].errors[i]
    IN  \A c \in error.joined :
          /\ c.anchor \in {Unknown, error.anchor}
          /\ \A f \in IdFields : c.ids[f] \in {Unknown, error.ids[f]}
                                 /\ error.ids[f] \in {Unknown, traces[t].ids[f]}

(* Pruning never takes an error away from a context that still waits for    *)
(* its window to end.                                                       *)
PruneIsSafe ==
  [][PruneErrorCandidates =>
       \A c \in ToSet(candidates) \ ToSet(candidates') :
         \A k \in 1..Len(pending) : ~Fits(c[1], ErrorOf(c), pending[k])]_vars

(* In order, with room for every candidate: a context is joined only to the *)
(* one nearest of all errors of the input, those that came later included   *)
(* (the promise of resolving only when the window is over).                 *)
JoinedToNearest ==
  inOrder /\ quality["DroppedErrorCandidates"] = 0 =>
    \A t, u \in 1..Len(traces) :
      \A i \in 1..Len(traces[t].errors), j \in 1..Len(traces[u].errors) :
        \A c \in traces[t].errors[i].joined :
          <<t, i>> # <<u, j>> /\ Fits(u, traces[u].errors[j], c)
            => Distance(traces[t].errors[i], c) < Distance(traces[u].errors[j], c)

(* In order, with room for every candidate: a context that is given up as   *)
(* expired fits no error of the input.                                      *)
ExpiredRightly ==
  [][\A context \in ToSet(pending) \ ToSet(pending') :
       /\ inOrder
       /\ quality'["ExpiredErrorContexts"] > quality["ExpiredErrorContexts"]
       /\ quality["DroppedErrorCandidates"] = 0
       => \A t \in 1..Len(traces) : \A i \in 1..Len(traces[t].errors) :
            ~Fits(t, traces[t].errors[i], context)]_vars
===============================================================================
