------------------------ MODULE TraceCorrelationProofs ------------------------
(***************************************************************************)
(* The trace collector for every window, every limit and every input.  In  *)
(* whatever order the timestamps come, records, contexts, calls and closed *)
(* traces add up, the limits hold, what is joined agrees and pruning never *)
(* takes an error from a context.  When the timestamps never go back, a    *)
(* context is joined to the one nearest error of the input, or given up    *)
(* because the input has none.                                             *)
(***************************************************************************)
EXTENDS TraceCorrelation, SequenceTheorems, WellFoundedInduction, FiniteSetTheorems, TLAPS

(* Sequences and sets of numbers. *)

(* append(s[:i], s[i+1:]...), which the loops that compact a queue amount   *)
(* to, closes the gap and keeps the rest.                                   *)
LEMMA RemoveAtProperties ==
  ASSUME NEW S, NEW seq \in Seq(S), NEW i \in 1..Len(seq)
  PROVE  /\ RemoveAt(seq, i) \in Seq(S)
         /\ Len(RemoveAt(seq, i)) = Len(seq) - 1
         /\ \A k \in 1..(Len(seq) - 1) :
              RemoveAt(seq, i)[k] = IF k < i THEN seq[k] ELSE seq[k + 1]
<1> DEFINE front == SubSeq(seq, 1, i - 1)
           back  == SubSeq(seq, i + 1, Len(seq))
<1>1. Len(seq) \in Nat /\ i \in Nat /\ i >= 1 /\ i <= Len(seq)
      /\ \A k \in 1..Len(seq) : seq[k] \in S
  BY LenProperties
<1>2. /\ front \in Seq(S) /\ Len(front) = i - 1
      /\ \A k \in 1..(i - 1) : front[k] = seq[k]
  BY <1>1, SubSeqProperties
<1>3. /\ back \in Seq(S) /\ Len(back) = Len(seq) - i
      /\ \A k \in 1..(Len(seq) - i) : back[k] = seq[k + i]
  BY <1>1, SubSeqProperties
<1>4. RemoveAt(seq, i) = front \o back
  BY DEF RemoveAt
<1> HIDE DEF front, back
<1>5. front \o back \in Seq(S) /\ Len(front \o back) = Len(seq) - 1
  <2>1. front \in Seq(S) /\ back \in Seq(S)
    BY <1>2, <1>3
  <2>2. front \o back \in Seq(S) /\ Len(front \o back) = Len(front) + Len(back)
    BY <2>1, ConcatProperties
  <2>3. QED
    BY <1>1, <1>2, <1>3, <2>2
<1>6. ASSUME NEW k \in 1..(Len(seq) - 1)
      PROVE  (front \o back)[k] = IF k < i THEN seq[k] ELSE seq[k + 1]
  <2>1. (front \o back)[k] = IF k <= i - 1 THEN front[k] ELSE back[k - (i - 1)]
    BY <1>1, <1>2, <1>3
  <2>2. CASE k < i
    BY <1>1, <1>2, <2>1, <2>2
  <2>3. CASE ~(k < i)
    <3>1. k - (i - 1) \in 1..(Len(seq) - i) /\ (k - (i - 1)) + i = k + 1
      BY <1>1, <2>3
    <3>2. back[k - (i - 1)] = seq[k + 1]
      BY <1>3, <3>1
    <3>3. QED
      BY <1>1, <2>1, <2>3, <3>2
  <2>4. QED
    BY <2>2, <2>3
<1>7. QED
  BY <1>4, <1>5, <1>6

(* A set of natural numbers that is not empty has a least member. *)
LEMMA MinimumExists ==
  ASSUME NEW S \in SUBSET Nat, S # {}
  PROVE  \E m \in S : \A k \in S : m <= k
<1> DEFINE less == OpToRel(<, Nat)
<1>1. IsWellFoundedOn(less, Nat)
  BY NatLessThanWellFounded
<1>2. \A x, y \in Nat : x < y => <<x, y>> \in less
  BY DEF OpToRel
<1> HIDE DEF less
<1>3. PICK m \in S : \A k \in S : ~(<<k, m>> \in less)
  BY <1>1, WFMin
<1>4. \A k \in S : k \in Nat /\ ~(k < m)
  BY <1>2, <1>3
<1>5. QED
  BY <1>4

(* Min of the community modules is one of them. *)
LEMMA MinIsLeast ==
  ASSUME NEW S \in SUBSET Nat, S # {}
  PROVE  Min(S) \in S
  BY MinimumExists DEF Min

(* Induction, as a fact about the set of the numbers that have a property: *)
(* the library's induction theorems take the property as an operator.      *)
LEMMA InductionOnSets ==
  ASSUME NEW S, 0 \in S, \A n \in Nat : n \in S => n + 1 \in S
  PROVE  Nat \subseteq S
<1> DEFINE Others == Nat \ S
<1>1. SUFFICES ASSUME Others # {} PROVE FALSE
  OBVIOUS
<1>2. PICK m \in Others : \A k \in Others : m <= k
  <2>1. Others \in SUBSET Nat
    OBVIOUS
  <2> HIDE DEF Others
  <2>2. QED
    BY <1>1, <2>1, MinimumExists
<1>3. m \in Nat /\ m # 0
  BY <1>2
<1>4. m - 1 \in Nat /\ m - 1 \notin Others
  BY <1>2, <1>3
<1>5. m - 1 \in S /\ (m - 1) + 1 = m
  BY <1>3, <1>4
<1>6. QED
  BY <1>2, <1>4, <1>5

-------------------------------------------------------------------------------
(* Times and limits are numbers. *)
LEMMA Numbers ==
  /\ Times \subseteq Nat /\ Window \in Nat
  /\ MaxOpen \in Nat \ {0} /\ MaxTraces \in Nat \ {0}
  /\ \A e, c : e.at \in Nat /\ c.at \in Nat => Distance(e, c) \in Nat
<1>1. \A e, c : e.at \in Nat /\ c.at \in Nat => Distance(e, c) \in Nat
  BY DEF Distance
<1>2. QED
  BY <1>1, TraceAssumption DEF Times

(* A set of sequences of traces that is not empty has a greatest member. *)
LEMMA MaxIsMember ==
  ASSUME NEW n \in Nat, NEW S \in SUBSET (1..n), S # {}
  PROVE  Max(S) \in S
<1> DEFINE D == {n - x : x \in S}
<1>0. \A x \in S : x \in Nat /\ n - x \in Nat
  OBVIOUS
<1>1. D \in SUBSET Nat /\ D # {}
  BY <1>0
<1>2. PICK d \in D : \A k \in D : d <= k
  <2> HIDE DEF D
  <2>1. QED
    BY <1>1, MinimumExists
<1>3. PICK x \in S : d = n - x
  BY <1>2
<1>4. \A y \in S : n - x <= n - y
  BY <1>2, <1>3
<1>5. \A y \in S : x >= y
  BY <1>0, <1>4
<1>6. QED
  BY <1>5 DEF Max

(* The parts of the state and their types. *)
LEMMA StateTypes ==
  ASSUME TypeOK
  PROVE  /\ traces \in Seq(Traces) /\ Len(traces) \in Nat
         /\ done \in Seq(1..Len(traces)) /\ Len(done) \in Nat
         /\ candidates \in Seq(Nat \X Nat) /\ Len(candidates) \in Nat
         /\ pending \in Seq(Marks) /\ Len(pending) \in Nat
         /\ active \in SUBSET (1..Len(traces)) /\ IsFiniteSet(active)
         /\ Cardinality(active) \in Nat
         /\ now \in Nat
<1>1. /\ traces \in Seq(Traces) /\ done \in Seq(1..Len(traces)) /\ candidates \in Seq(Nat \X Nat)
      /\ pending \in Seq(Marks) /\ active \in SUBSET (1..Len(traces)) /\ now \in Times
  BY DEF TypeOK
<1>2. Len(traces) \in Nat /\ Len(done) \in Nat /\ Len(candidates) \in Nat /\ Len(pending) \in Nat
  BY <1>1, LenProperties
<1>3. IsFiniteSet(1..Len(traces))
  BY <1>2, FS_Interval
<1>4. IsFiniteSet(active)
  BY <1>1, <1>3, FS_Subset
<1>5. Cardinality(active) \in Nat
  BY <1>4, FS_CardinalityType
<1>6. QED
  BY <1>1, <1>2, <1>4, <1>5, Numbers

(* Whether the input is in order is a truth value. *)
LEMMA BeginOrder ==
  ASSUME NEW record, NEW next, Begin(record, next)
  PROVE  inOrder' \in BOOLEAN
  BY DEF Begin

(* A trace, its errors and what they joined. *)
LEMMA TraceTypes ==
  ASSUME TypeOK, NEW t \in 1..Len(traces)
  PROVE  /\ traces[t] \in Traces
         /\ traces[t].lane \in Lanes /\ traces[t].ids \in Ids /\ traces[t].hasContext \in BOOLEAN
         /\ traces[t].errors \in Seq(ErrorSpans) /\ Len(traces[t].errors) \in Nat
         /\ \A i \in 1..Len(traces[t].errors) :
              /\ traces[t].errors[i] \in ErrorSpans
              /\ traces[t].errors[i].at \in Nat
              /\ \A c \in traces[t].errors[i].joined : c \in Marks /\ c.at \in Nat
<1>1. traces[t] \in Traces
  BY StateTypes, ElementOfSeq
<1>2. traces[t].lane \in Lanes /\ traces[t].ids \in Ids /\ traces[t].hasContext \in BOOLEAN
      /\ traces[t].errors \in Seq(ErrorSpans)
  BY <1>1 DEF Traces
<1>3. Len(traces[t].errors) \in Nat
  BY <1>2, LenProperties
<1>4. \A i \in 1..Len(traces[t].errors) : traces[t].errors[i] \in ErrorSpans
  BY <1>2, ElementOfSeq
<1>5. \A i \in 1..Len(traces[t].errors) :
        /\ traces[t].errors[i].at \in Nat
        /\ \A c \in traces[t].errors[i].joined : c \in Marks
  BY <1>4, Numbers DEF ErrorSpans
<1>6. \A c \in Marks : c.at \in Nat
  BY Numbers DEF Marks
<1>7. QED
  BY <1>1, <1>2, <1>3, <1>4, <1>5, <1>6

(* A candidate is an error of a trace. *)
LEMMA CandidateTypes ==
  ASSUME TypeOK, NEW c \in ToSet(candidates)
  PROVE  /\ c[1] \in 1..Len(traces)
         /\ c[2] \in 1..Len(traces[c[1]].errors)
         /\ c = <<c[1], c[2]>>
         /\ ErrorOf(c) \in ErrorSpans /\ ErrorOf(c).at \in Nat
<1>1. DOMAIN candidates = 1..Len(candidates)
  BY StateTypes, LenProperties
<1>2. PICK i \in 1..Len(candidates) : c = candidates[i]
  BY <1>1 DEF ToSet
<1>3. c[1] \in 1..Len(traces) /\ c[2] \in 1..Len(traces[c[1]].errors)
  BY <1>2 DEF TypeOK
<1>4. c \in Nat \X Nat
  BY <1>2, StateTypes, ElementOfSeq
<1>5. QED
  BY <1>3, <1>4, TraceTypes DEF ErrorOf

-------------------------------------------------------------------------------
(* The counters. *)

(* The sums that Conserved relates: records that went somewhere, and         *)
(* contexts that were decided.                                               *)
Placed == quality["Calls"] + quality["CorrelatedEvents"] + quality["OrphanEvents"]
            + quality["IgnoredEvents"]
Decided == quality["CorrelatedErrorContexts"] + quality["AmbiguousErrorContexts"]
             + quality["ExpiredErrorContexts"] + quality["DroppedErrorContexts"]

Bump(c, S) == IF c \in S THEN 1 ELSE 0

LEMMA CounterTypes ==
  ASSUME TypeOK
  PROVE  /\ quality \in [Counters -> Nat]
         /\ \A c \in Counters : quality[c] \in Nat
         /\ quality["EventsConsumed"] \in Nat /\ quality["Calls"] \in Nat
         /\ quality["CorrelatedEvents"] \in Nat /\ quality["OrphanEvents"] \in Nat
         /\ quality["IgnoredEvents"] \in Nat /\ quality["ErrorContexts"] \in Nat
         /\ quality["CorrelatedErrorContexts"] \in Nat /\ quality["AmbiguousErrorContexts"] \in Nat
         /\ quality["ExpiredErrorContexts"] \in Nat /\ quality["DroppedErrorContexts"] \in Nat
         /\ quality["DroppedErrorCandidates"] \in Nat /\ quality["MissingContextTraces"] \in Nat
         /\ quality["EvictedCompletedTraces"] \in Nat
         /\ Placed \in Nat /\ Decided \in Nat
<1>1. quality \in [Counters -> Nat]
  BY DEF TypeOK
<1>2. \A c \in Counters : quality[c] \in Nat
  BY <1>1
<1>3. /\ quality["EventsConsumed"] \in Nat /\ quality["Calls"] \in Nat
      /\ quality["CorrelatedEvents"] \in Nat /\ quality["OrphanEvents"] \in Nat
      /\ quality["IgnoredEvents"] \in Nat /\ quality["ErrorContexts"] \in Nat
      /\ quality["CorrelatedErrorContexts"] \in Nat /\ quality["AmbiguousErrorContexts"] \in Nat
      /\ quality["ExpiredErrorContexts"] \in Nat /\ quality["DroppedErrorContexts"] \in Nat
      /\ quality["DroppedErrorCandidates"] \in Nat /\ quality["MissingContextTraces"] \in Nat
      /\ quality["EvictedCompletedTraces"] \in Nat
  BY <1>2 DEF Counters
<1>4. QED
  BY <1>1, <1>2, <1>3 DEF Placed, Decided

(* Count adds one to each counter it is given. *)
LEMMA CountEffect ==
  ASSUME TypeOK, NEW S \in SUBSET Counters, Count(S)
  PROVE  /\ quality' \in [Counters -> Nat]
         /\ \A c \in Counters : quality'[c] = quality[c] + Bump(c, S)
         /\ Placed' = Placed + Bump("Calls", S) + Bump("CorrelatedEvents", S)
                        + Bump("OrphanEvents", S) + Bump("IgnoredEvents", S)
         /\ Decided' = Decided + Bump("CorrelatedErrorContexts", S)
                         + Bump("AmbiguousErrorContexts", S)
                         + Bump("ExpiredErrorContexts", S) + Bump("DroppedErrorContexts", S)
<1>1. \A c : Bump(c, S) \in {0, 1}
  BY DEF Bump
<1>2. \A c \in Counters : quality'[c] = quality[c] + Bump(c, S)
  BY CounterTypes DEF Count, Bump
<1>3. quality' \in [Counters -> Nat]
  BY CounterTypes DEF Count
<1>4. /\ quality'["Calls"] = quality["Calls"] + Bump("Calls", S)
      /\ quality'["CorrelatedEvents"] = quality["CorrelatedEvents"] + Bump("CorrelatedEvents", S)
      /\ quality'["OrphanEvents"] = quality["OrphanEvents"] + Bump("OrphanEvents", S)
      /\ quality'["IgnoredEvents"] = quality["IgnoredEvents"] + Bump("IgnoredEvents", S)
  BY <1>2 DEF Counters
<1>5. /\ quality'["CorrelatedErrorContexts"]
           = quality["CorrelatedErrorContexts"] + Bump("CorrelatedErrorContexts", S)
      /\ quality'["AmbiguousErrorContexts"]
           = quality["AmbiguousErrorContexts"] + Bump("AmbiguousErrorContexts", S)
      /\ quality'["ExpiredErrorContexts"]
           = quality["ExpiredErrorContexts"] + Bump("ExpiredErrorContexts", S)
      /\ quality'["DroppedErrorContexts"]
           = quality["DroppedErrorContexts"] + Bump("DroppedErrorContexts", S)
  BY <1>2 DEF Counters
<1>6. Placed' = Placed + Bump("Calls", S) + Bump("CorrelatedEvents", S)
                  + Bump("OrphanEvents", S) + Bump("IgnoredEvents", S)
  BY <1>1, <1>4, CounterTypes DEF Placed
<1>7. Decided' = Decided + Bump("CorrelatedErrorContexts", S) + Bump("AmbiguousErrorContexts", S)
                   + Bump("ExpiredErrorContexts", S) + Bump("DroppedErrorContexts", S)
  BY <1>1, <1>5, CounterTypes DEF Decided
<1>8. QED
  BY <1>2, <1>3, <1>6, <1>7

(* What a step adds to each of the sums and counters of the invariant. *)
Added(consumed, placed, contexts, decided, expired) ==
  /\ quality' \in [Counters -> Nat]
  /\ quality'["EventsConsumed"] = quality["EventsConsumed"] + consumed
  /\ Placed' = Placed + placed
  /\ quality'["ErrorContexts"] = quality["ErrorContexts"] + contexts
  /\ Decided' = Decided + decided
  /\ quality'["ExpiredErrorContexts"] = quality["ExpiredErrorContexts"] + expired

(* The counters of calls and closed traces stay. *)
TracesUncounted ==
  \A c \in {"Calls", "MissingContextTraces", "EvictedCompletedTraces"} : quality'[c] = quality[c]

LEMMA SumsEffect ==
  ASSUME TypeOK, NEW S \in SUBSET Counters, Count(S)
  PROVE  /\ \A c \in Counters : quality'[c] = quality[c] + Bump(c, S)
         /\ Added(Bump("EventsConsumed", S),
                  Bump("Calls", S) + Bump("CorrelatedEvents", S) + Bump("OrphanEvents", S)
                    + Bump("IgnoredEvents", S),
                  Bump("ErrorContexts", S),
                  Bump("CorrelatedErrorContexts", S) + Bump("AmbiguousErrorContexts", S)
                    + Bump("ExpiredErrorContexts", S) + Bump("DroppedErrorContexts", S),
                  Bump("ExpiredErrorContexts", S))
<1>1. \A c : Bump(c, S) \in {0, 1}
  BY DEF Bump
<1>2. /\ quality' \in [Counters -> Nat]
      /\ \A c \in Counters : quality'[c] = quality[c] + Bump(c, S)
  BY CountEffect
<1>3. /\ quality'["EventsConsumed"] = quality["EventsConsumed"] + Bump("EventsConsumed", S)
      /\ quality'["ErrorContexts"] = quality["ErrorContexts"] + Bump("ErrorContexts", S)
      /\ quality'["ExpiredErrorContexts"]
           = quality["ExpiredErrorContexts"] + Bump("ExpiredErrorContexts", S)
  BY <1>2 DEF Counters
<1>4. Placed' = Placed + (Bump("Calls", S) + Bump("CorrelatedEvents", S)
                            + Bump("OrphanEvents", S) + Bump("IgnoredEvents", S))
  BY <1>1, CountEffect, CounterTypes
<1>5. Decided' = Decided + (Bump("CorrelatedErrorContexts", S) + Bump("AmbiguousErrorContexts", S)
                              + Bump("ExpiredErrorContexts", S) + Bump("DroppedErrorContexts", S))
  BY <1>1, CountEffect, CounterTypes
<1>6. QED
  BY <1>2, <1>3, <1>4, <1>5 DEF Added

(* A record that is placed at once. *)
LEMMA PlacedEffect ==
  ASSUME TypeOK, NEW c \in {"CorrelatedEvents", "OrphanEvents", "IgnoredEvents"},
         NEW extra \in SUBSET {"VRS", "CorrelatedVRS", "AmbiguousVRS", "DroppedErrorCandidates"},
         Consumed({c} \cup extra)
  PROVE  /\ Added(1, 1, 0, 0, 0) /\ TracesUncounted
         /\ quality'["DroppedErrorCandidates"]
              = quality["DroppedErrorCandidates"] + Bump("DroppedErrorCandidates", extra)
<1> DEFINE S == {"EventsConsumed"} \cup ({c} \cup extra)
<1>1. S \in SUBSET Counters
  BY DEF Counters
<1>2. Count(S)
  BY DEF Consumed
<1>3. /\ Bump("EventsConsumed", S) = 1 /\ Bump("ErrorContexts", S) = 0
      /\ Bump("Calls", S) + Bump("CorrelatedEvents", S) + Bump("OrphanEvents", S)
           + Bump("IgnoredEvents", S) = 1
      /\ Bump("CorrelatedErrorContexts", S) + Bump("AmbiguousErrorContexts", S)
           + Bump("ExpiredErrorContexts", S) + Bump("DroppedErrorContexts", S) = 0
      /\ Bump("ExpiredErrorContexts", S) = 0
      /\ Bump("Calls", S) = 0 /\ Bump("MissingContextTraces", S) = 0
      /\ Bump("EvictedCompletedTraces", S) = 0
      /\ Bump("DroppedErrorCandidates", S) = Bump("DroppedErrorCandidates", extra)
  BY DEF Bump
<1> HIDE DEF S
<1>4. \A d \in Counters : quality'[d] = quality[d] + Bump(d, S)
  BY <1>1, <1>2, SumsEffect
<1>5. Added(1, 1, 0, 0, 0)
  BY <1>1, <1>2, <1>3, SumsEffect
<1>6. /\ quality'["Calls"] = quality["Calls"] + 0
      /\ quality'["MissingContextTraces"] = quality["MissingContextTraces"] + 0
      /\ quality'["EvictedCompletedTraces"] = quality["EvictedCompletedTraces"] + 0
      /\ quality'["DroppedErrorCandidates"]
           = quality["DroppedErrorCandidates"] + Bump("DroppedErrorCandidates", extra)
  BY <1>3, <1>4 DEF Counters
<1>7. QED
  BY <1>5, <1>6, CounterTypes DEF TracesUncounted

(* An error context is left to wait; a full queue drops, and so decides, the *)
(* one that waited longest.                                                  *)
LEMMA WaitingEffect ==
  ASSUME TypeOK, NEW dropped \in {0, 1}, dropped = 1 <=> Len(pending) = MaxOpen,
         Consumed({"ErrorContexts"} \cup IfDropped(pending, MaxOpen, Overflow))
  PROVE  /\ Added(1, dropped, 1, dropped, 0) /\ TracesUncounted
         /\ quality'["DroppedErrorCandidates"] = quality["DroppedErrorCandidates"]
<1> DEFINE S == {"EventsConsumed"} \cup
                  ({"ErrorContexts"} \cup (IF dropped = 1 THEN Overflow ELSE {}))
<1>1. S \in SUBSET Counters
  BY DEF Counters, Overflow
<1>2. Count(S)
  BY DEF Consumed, IfDropped
<1>3. /\ Bump("EventsConsumed", S) = 1 /\ Bump("ErrorContexts", S) = 1
      /\ Bump("Calls", S) + Bump("CorrelatedEvents", S) + Bump("OrphanEvents", S)
           + Bump("IgnoredEvents", S) = dropped
      /\ Bump("CorrelatedErrorContexts", S) + Bump("AmbiguousErrorContexts", S)
           + Bump("ExpiredErrorContexts", S) + Bump("DroppedErrorContexts", S) = dropped
      /\ Bump("ExpiredErrorContexts", S) = 0
      /\ Bump("Calls", S) = 0 /\ Bump("MissingContextTraces", S) = 0
      /\ Bump("EvictedCompletedTraces", S) = 0 /\ Bump("DroppedErrorCandidates", S) = 0
  BY DEF Bump, Overflow
<1> HIDE DEF S
<1>4. \A d \in Counters : quality'[d] = quality[d] + Bump(d, S)
  BY <1>1, <1>2, SumsEffect
<1>5. Added(1, dropped, 1, dropped, 0)
  BY <1>1, <1>2, <1>3, SumsEffect
<1>6. /\ quality'["Calls"] = quality["Calls"] + 0
      /\ quality'["MissingContextTraces"] = quality["MissingContextTraces"] + 0
      /\ quality'["EvictedCompletedTraces"] = quality["EvictedCompletedTraces"] + 0
      /\ quality'["DroppedErrorCandidates"] = quality["DroppedErrorCandidates"] + 0
  BY <1>3, <1>4 DEF Counters
<1>7. QED
  BY <1>5, <1>6, CounterTypes DEF TracesUncounted

(* A call that finds no open trace of its own to close. *)
LEMMA CallEffect ==
  ASSUME TypeOK, Consumed({"Calls"})
  PROVE  /\ Added(1, 1, 0, 0, 0)
         /\ quality'["Calls"] = quality["Calls"] + 1
         /\ \A c \in {"MissingContextTraces", "EvictedCompletedTraces",
                      "DroppedErrorCandidates"} : quality'[c] = quality[c]
<1> DEFINE S == {"EventsConsumed"} \cup {"Calls"}
<1>1. S \in SUBSET Counters
  BY DEF Counters
<1>2. Count(S)
  BY DEF Consumed
<1>3. /\ Bump("EventsConsumed", S) = 1 /\ Bump("ErrorContexts", S) = 0
      /\ Bump("Calls", S) + Bump("CorrelatedEvents", S) + Bump("OrphanEvents", S)
           + Bump("IgnoredEvents", S) = 1
      /\ Bump("CorrelatedErrorContexts", S) + Bump("AmbiguousErrorContexts", S)
           + Bump("ExpiredErrorContexts", S) + Bump("DroppedErrorContexts", S) = 0
      /\ Bump("ExpiredErrorContexts", S) = 0
      /\ Bump("Calls", S) = 1 /\ Bump("MissingContextTraces", S) = 0
      /\ Bump("EvictedCompletedTraces", S) = 0 /\ Bump("DroppedErrorCandidates", S) = 0
  BY DEF Bump
<1> HIDE DEF S
<1>4. \A d \in Counters : quality'[d] = quality[d] + Bump(d, S)
  BY <1>1, <1>2, SumsEffect
<1>5. Added(1, 1, 0, 0, 0)
  BY <1>1, <1>2, <1>3, SumsEffect
<1>6. /\ quality'["Calls"] = quality["Calls"] + 1
      /\ quality'["MissingContextTraces"] = quality["MissingContextTraces"] + 0
      /\ quality'["EvictedCompletedTraces"] = quality["EvictedCompletedTraces"] + 0
      /\ quality'["DroppedErrorCandidates"] = quality["DroppedErrorCandidates"] + 0
  BY <1>3, <1>4 DEF Counters
<1>7. QED
  BY <1>5, <1>6, CounterTypes

-------------------------------------------------------------------------------
(* The bounded lists. *)

LEMMA BoundedAppend ==
  ASSUME NEW T, NEW list \in Seq(T), NEW x \in T, NEW limit \in Nat \ {0}, Len(list) <= limit,
         NEW result, result = Bounded(Append(list, x), limit)
  PROVE  /\ result \in Seq(T)
         /\ Len(result) = IF Len(list) = limit THEN limit ELSE Len(list) + 1
         /\ \A k \in 1..Len(result) :
              result[k] = x \/ \E j \in 1..Len(list) : result[k] = list[j]
         /\ Len(list) # limit => x \in ToSet(result) /\ ToSet(list) \subseteq ToSet(result)
<1> DEFINE longer == Append(list, x)
<1>1. /\ Len(list) \in Nat /\ longer \in Seq(T) /\ Len(longer) = Len(list) + 1
      /\ DOMAIN list = 1..Len(list)
      /\ \A k \in 1..Len(list) : longer[k] = list[k]
      /\ longer[Len(list) + 1] = x
  BY AppendProperties, LenProperties
<1>2. \A k \in 1..(Len(list) + 1) : k \in 1..Len(list) \/ k = Len(list) + 1
  BY <1>1
<1> HIDE DEF longer
<1>3. CASE Len(list) = limit
  <2>1. result = Tail(longer)
    BY <1>1, <1>3 DEF Bounded, longer
  <2>2. longer # <<>>
    BY <1>1, EmptySeq
  <2>3. /\ result \in Seq(T) /\ Len(result) = Len(list)
        /\ \A k \in 1..Len(result) : result[k] = longer[k + 1]
    BY <1>1, <2>1, <2>2, HeadTailProperties
  <2>4. ASSUME NEW k \in 1..Len(result)
        PROVE  result[k] = x \/ \E j \in 1..Len(list) : result[k] = list[j]
    <3>1. k + 1 \in 1..(Len(list) + 1)
      BY <1>1, <2>3
    <3>2. QED
      BY <1>1, <1>2, <2>3, <3>1
  <2>5. QED
    BY <1>3, <2>3, <2>4
<1>4. CASE Len(list) # limit
  <2>0. ~(Len(longer) > limit)
    <3>1. Len(list) \in Nat /\ Len(longer) = Len(list) + 1
      BY <1>1
    <3>2. QED
      BY <1>4, <3>1
  <2>1. result = longer
    BY <2>0 DEF Bounded, longer
  <2>2. DOMAIN longer = 1..(Len(list) + 1)
    BY <1>1, LenProperties
  <2>3. Len(list) + 1 \in 1..(Len(list) + 1) /\ \A k \in 1..Len(list) : k \in 1..(Len(list) + 1)
    BY <1>1
  <2>4. x \in ToSet(result)
    BY <1>1, <2>1, <2>2, <2>3 DEF ToSet
  <2>5. ToSet(list) \subseteq ToSet(result)
    BY <1>1, <2>1, <2>2, <2>3 DEF ToSet
  <2>6. \A k \in 1..Len(result) : result[k] = x \/ \E j \in 1..Len(list) : result[k] = list[j]
    BY <1>1, <1>2, <2>1
  <2>7. QED
    BY <1>1, <1>4, <2>1, <2>4, <2>5, <2>6
<1>5. QED
  BY <1>3, <1>4

(* A trace is closed, by a call of its own (new) or by eviction. *)
LEMMA CloseEffect ==
  ASSUME TypeOK, Len(done) <= MaxTraces, NEW t \in 1..Len(traces), NEW new \in {0, 1},
         Close(t, IF new = 1 THEN {"EventsConsumed", "Calls"} ELSE {"EvictedOpenTraces"})
  PROVE  /\ done' \in Seq(1..Len(traces)) /\ Len(done') \in Nat /\ Len(done') <= MaxTraces
         /\ Added(new, new, 0, 0, 0)
         /\ quality'["Calls"] = quality["Calls"] + new
         /\ Len(done') + quality'["EvictedCompletedTraces"]
              = Len(done) + quality["EvictedCompletedTraces"] + 1
         /\ quality'["MissingContextTraces"]
              = quality["MissingContextTraces"] + IF traces[t].hasContext THEN 0 ELSE 1
         /\ quality'["DroppedErrorCandidates"] = quality["DroppedErrorCandidates"]
<1>0. /\ done \in Seq(1..Len(traces)) /\ Len(done) \in Nat /\ MaxTraces \in Nat \ {0}
      /\ traces[t].hasContext \in BOOLEAN
  BY StateTypes, TraceTypes, Numbers
<1>1. done' = Bounded(Append(done, t), MaxTraces)
  BY DEF Close
<1>2. /\ done' \in Seq(1..Len(traces))
      /\ Len(done') = IF Len(done) = MaxTraces THEN MaxTraces ELSE Len(done) + 1
  BY <1>0, <1>1, BoundedAppend
<1> DEFINE base == IF new = 1 THEN {"EventsConsumed", "Calls"} ELSE {"EvictedOpenTraces"}
           evicted == IF Len(done) = MaxTraces THEN 1 ELSE 0
           missing == IF traces[t].hasContext THEN 0 ELSE 1
           S == base \cup ((IF missing = 0 THEN {} ELSE {"MissingContextTraces"})
                            \cup (IF evicted = 1 THEN {"EvictedCompletedTraces"} ELSE {}))
<1>3. S \in SUBSET Counters
  BY DEF Counters
<1>4. Count(S)
  <2>1. S = base \cup AppendDone(t)
    BY <1>0 DEF AppendDone, IfDropped
  <2>2. QED
    BY <2>1 DEF Close
<1>5. evicted \in {0, 1} /\ missing \in {0, 1}
  OBVIOUS
<1>6. Len(done') + evicted = Len(done) + 1 /\ Len(done') \in Nat /\ Len(done') <= MaxTraces
  BY <1>0, <1>2
<1> HIDE DEF evicted, missing
<1>7. /\ Bump("EventsConsumed", S) = new /\ Bump("ErrorContexts", S) = 0
      /\ Bump("Calls", S) + Bump("CorrelatedEvents", S) + Bump("OrphanEvents", S)
           + Bump("IgnoredEvents", S) = new
      /\ Bump("CorrelatedErrorContexts", S) + Bump("AmbiguousErrorContexts", S)
           + Bump("ExpiredErrorContexts", S) + Bump("DroppedErrorContexts", S) = 0
      /\ Bump("ExpiredErrorContexts", S) = 0
      /\ Bump("Calls", S) = new /\ Bump("MissingContextTraces", S) = missing
      /\ Bump("EvictedCompletedTraces", S) = evicted /\ Bump("DroppedErrorCandidates", S) = 0
  BY <1>5 DEF Bump
<1> HIDE DEF S
<1>8. \A d \in Counters : quality'[d] = quality[d] + Bump(d, S)
  BY <1>3, <1>4, SumsEffect
<1>9. Added(new, new, 0, 0, 0)
  BY <1>3, <1>4, <1>7, SumsEffect
<1>10. /\ quality'["Calls"] = quality["Calls"] + new
       /\ quality'["MissingContextTraces"] = quality["MissingContextTraces"] + missing
       /\ quality'["EvictedCompletedTraces"] = quality["EvictedCompletedTraces"] + evicted
       /\ quality'["DroppedErrorCandidates"] = quality["DroppedErrorCandidates"] + 0
  BY <1>7, <1>8 DEF Counters
<1>11. Len(done') + quality'["EvictedCompletedTraces"]
         = Len(done) + quality["EvictedCompletedTraces"] + 1
  <2>1. quality["EvictedCompletedTraces"] \in Nat
    BY CounterTypes
  <2>2. quality'["EvictedCompletedTraces"] = quality["EvictedCompletedTraces"] + evicted
    BY <1>10
  <2>3. Len(done') \in Nat /\ Len(done) \in Nat /\ Len(done') + evicted = Len(done) + 1
    BY <1>0, <1>6
  <2>4. QED
    BY <1>5, <2>1, <2>2, <2>3
<1>12. quality'["DroppedErrorCandidates"] = quality["DroppedErrorCandidates"]
  BY <1>10, CounterTypes
<1>13. QED
  BY <1>2, <1>6, <1>9, <1>10, <1>11, <1>12 DEF missing

(* A context that waited is decided, whatever the decision. *)
LEMMA DecidedEffect ==
  ASSUME TypeOK, NEW context, Resolve(context)
  PROVE  /\ \E expired \in {0, 1} :
              Added(0, 1, 0, 1, expired) /\ (expired = 1 => Nearest(context) = {})
         /\ TracesUncounted
         /\ quality'["DroppedErrorCandidates"] = quality["DroppedErrorCandidates"]
<1>1. PICK S \in {{"ExpiredErrorContexts", "OrphanEvents"},
                  {"AmbiguousErrorContexts", "OrphanEvents"},
                  {"CorrelatedEvents", "CorrelatedErrorContexts"}} :
        Count(S) /\ (S = {"ExpiredErrorContexts", "OrphanEvents"} => Nearest(context) = {})
  <2>1. \/ Nearest(context) = {} /\ Count({"ExpiredErrorContexts", "OrphanEvents"})
        \/ Count({"AmbiguousErrorContexts", "OrphanEvents"})
        \/ Count({"CorrelatedEvents", "CorrelatedErrorContexts"})
    BY DEF Resolve
  <2>2. /\ {"AmbiguousErrorContexts", "OrphanEvents"} # {"ExpiredErrorContexts", "OrphanEvents"}
        /\ {"CorrelatedEvents", "CorrelatedErrorContexts"}
              # {"ExpiredErrorContexts", "OrphanEvents"}
    OBVIOUS
  <2>3. QED
    BY <2>1, <2>2, Zenon
<1>2. S \in SUBSET Counters
  BY DEF Counters
<1>3. /\ Bump("EventsConsumed", S) = 0 /\ Bump("ErrorContexts", S) = 0
      /\ Bump("Calls", S) + Bump("CorrelatedEvents", S) + Bump("OrphanEvents", S)
           + Bump("IgnoredEvents", S) = 1
      /\ Bump("CorrelatedErrorContexts", S) + Bump("AmbiguousErrorContexts", S)
           + Bump("ExpiredErrorContexts", S) + Bump("DroppedErrorContexts", S) = 1
      /\ Bump("ExpiredErrorContexts", S) \in {0, 1}
      /\ Bump("ExpiredErrorContexts", S) = 1 => S = {"ExpiredErrorContexts", "OrphanEvents"}
      /\ Bump("Calls", S) = 0 /\ Bump("MissingContextTraces", S) = 0
      /\ Bump("EvictedCompletedTraces", S) = 0 /\ Bump("DroppedErrorCandidates", S) = 0
  <2>1. CASE S = {"ExpiredErrorContexts", "OrphanEvents"}
    BY <2>1 DEF Bump
  <2>2. CASE S = {"AmbiguousErrorContexts", "OrphanEvents"}
    BY <2>2 DEF Bump
  <2>3. CASE S = {"CorrelatedEvents", "CorrelatedErrorContexts"}
    BY <2>3 DEF Bump
  <2>4. QED
    BY <2>1, <2>2, <2>3
<1>4. \A d \in Counters : quality'[d] = quality[d] + Bump(d, S)
  BY <1>1, <1>2, SumsEffect
<1>5. Added(0, 1, 0, 1, Bump("ExpiredErrorContexts", S))
  BY <1>1, <1>2, <1>3, SumsEffect
<1>6. /\ quality'["Calls"] = quality["Calls"] + 0
      /\ quality'["MissingContextTraces"] = quality["MissingContextTraces"] + 0
      /\ quality'["EvictedCompletedTraces"] = quality["EvictedCompletedTraces"] + 0
      /\ quality'["DroppedErrorCandidates"] = quality["DroppedErrorCandidates"] + 0
  BY <1>3, <1>4 DEF Counters
<1>7. QED
  BY <1>1, <1>3, <1>5, <1>6, CounterTypes DEF TracesUncounted

-------------------------------------------------------------------------------
(* What a step does to the traces. *)

SameCaller(u) == traces'[u].lane = traces[u].lane /\ traces'[u].ids = traces[u].ids
SameTrace(u) == SameCaller(u) /\ traces'[u].hasContext = traces[u].hasContext
SameErrors(u) == traces'[u].errors = traces[u].errors

(* One error is replaced. *)
LEMMA ErrorReplaced ==
  ASSUME TypeOK, NEW t \in 1..Len(traces), NEW i \in 1..Len(traces[t].errors),
         NEW e \in ErrorSpans, traces' = [traces EXCEPT ![t].errors[i] = e]
  PROVE  /\ traces' \in Seq(Traces) /\ Len(traces') = Len(traces)
         /\ \A u \in 1..Len(traces) :
              /\ SameTrace(u) /\ Len(traces'[u].errors) = Len(traces[u].errors)
              /\ \A j \in 1..Len(traces[u].errors) :
                   traces'[u].errors[j] = IF u = t /\ j = i THEN e ELSE traces[u].errors[j]
<1> DEFINE errors == [traces[t].errors EXCEPT ![i] = e]
           trace == [traces[t] EXCEPT !.errors = errors]
<1>1. /\ errors \in Seq(ErrorSpans) /\ Len(errors) = Len(traces[t].errors)
      /\ \A j \in 1..Len(traces[t].errors) :
           errors[j] = IF j = i THEN e ELSE traces[t].errors[j]
  BY TraceTypes, ExceptSeq
<1>2. traces' = [traces EXCEPT ![t] = trace]
  OBVIOUS
<1> HIDE DEF errors
<1>3. /\ trace \in Traces /\ trace.lane = traces[t].lane /\ trace.ids = traces[t].ids
      /\ trace.hasContext = traces[t].hasContext /\ trace.errors = errors
  BY <1>1, TraceTypes DEF Traces
<1> HIDE DEF trace
<1>4. /\ traces' \in Seq(Traces) /\ Len(traces') = Len(traces)
      /\ \A u \in 1..Len(traces) : traces'[u] = IF u = t THEN trace ELSE traces[u]
  <2>1. traces \in Seq(Traces) /\ trace \in Traces
    BY <1>3, StateTypes
  <2>2. /\ [traces EXCEPT ![t] = trace] \in Seq(Traces)
        /\ Len([traces EXCEPT ![t] = trace]) = Len(traces)
        /\ \A u \in 1..Len(traces) :
             [traces EXCEPT ![t] = trace][u] = IF u = t THEN trace ELSE traces[u]
    BY <2>1, ExceptSeq
  <2>3. QED
    BY <1>2, <2>2
<1>5. ASSUME NEW u \in 1..Len(traces)
      PROVE  /\ SameTrace(u) /\ Len(traces'[u].errors) = Len(traces[u].errors)
             /\ \A j \in 1..Len(traces[u].errors) :
                  traces'[u].errors[j] = IF u = t /\ j = i THEN e ELSE traces[u].errors[j]
  <2>1. CASE u = t
    <3>1. traces'[u] = trace
      BY <1>4, <2>1
    <3>2. QED
      BY <1>1, <1>3, <2>1, <3>1 DEF SameTrace, SameCaller
  <2>2. CASE u # t
    <3>1. traces'[u] = traces[u]
      BY <1>4, <2>2
    <3>2. QED
      BY <2>2, <3>1 DEF SameTrace, SameCaller
  <2>3. QED
    BY <2>1, <2>2
<1>6. QED
  BY <1>4, <1>5

(* A trace gets one more error. *)
LEMMA ErrorAppended ==
  ASSUME TypeOK, NEW t \in 1..Len(traces), NEW e \in ErrorSpans,
         traces' = [traces EXCEPT ![t].errors = Append(@, e)]
  PROVE  /\ traces' \in Seq(Traces) /\ Len(traces') = Len(traces)
         /\ \A u \in 1..Len(traces) : SameTrace(u) /\ (u # t => SameErrors(u))
         /\ Len(traces'[t].errors) = Len(traces[t].errors) + 1
         /\ \A j \in 1..Len(traces[t].errors) : traces'[t].errors[j] = traces[t].errors[j]
         /\ traces'[t].errors[Len(traces[t].errors) + 1] = e
<1> DEFINE errors == Append(traces[t].errors, e)
           trace == [traces[t] EXCEPT !.errors = errors]
<1>1. /\ errors \in Seq(ErrorSpans) /\ Len(errors) = Len(traces[t].errors) + 1
      /\ \A j \in 1..Len(traces[t].errors) : errors[j] = traces[t].errors[j]
      /\ errors[Len(traces[t].errors) + 1] = e
  BY TraceTypes, AppendProperties
<1>2. traces' = [traces EXCEPT ![t] = trace]
  OBVIOUS
<1> HIDE DEF errors
<1>3. /\ trace \in Traces /\ trace.lane = traces[t].lane /\ trace.ids = traces[t].ids
      /\ trace.hasContext = traces[t].hasContext /\ trace.errors = errors
  BY <1>1, TraceTypes DEF Traces
<1> HIDE DEF trace
<1>4. /\ traces' \in Seq(Traces) /\ Len(traces') = Len(traces)
      /\ \A u \in 1..Len(traces) : traces'[u] = IF u = t THEN trace ELSE traces[u]
  <2>1. traces \in Seq(Traces) /\ trace \in Traces
    BY <1>3, StateTypes
  <2>2. /\ [traces EXCEPT ![t] = trace] \in Seq(Traces)
        /\ Len([traces EXCEPT ![t] = trace]) = Len(traces)
        /\ \A u \in 1..Len(traces) :
             [traces EXCEPT ![t] = trace][u] = IF u = t THEN trace ELSE traces[u]
    BY <2>1, ExceptSeq
  <2>3. QED
    BY <1>2, <2>2
<1>5. \A u \in 1..Len(traces) : SameTrace(u) /\ (u # t => SameErrors(u))
  BY <1>3, <1>4 DEF SameTrace, SameCaller, SameErrors
<1>6. traces'[t].errors = errors
  BY <1>3, <1>4
<1>7. QED
  BY <1>1, <1>4, <1>5, <1>6

(* A trace gets its Context. *)
LEMMA ContextMarked ==
  ASSUME TypeOK, NEW t \in 1..Len(traces), traces' = [traces EXCEPT ![t].hasContext = TRUE]
  PROVE  /\ traces' \in Seq(Traces) /\ Len(traces') = Len(traces)
         /\ \A u \in 1..Len(traces) :
              SameCaller(u) /\ SameErrors(u) /\ (u # t => SameTrace(u))
<1> DEFINE trace == [traces[t] EXCEPT !.hasContext = TRUE]
<1>1. traces' = [traces EXCEPT ![t] = trace]
  OBVIOUS
<1>2. /\ trace \in Traces /\ trace.lane = traces[t].lane /\ trace.ids = traces[t].ids
      /\ trace.errors = traces[t].errors
  BY TraceTypes DEF Traces
<1> HIDE DEF trace
<1>3. /\ traces' \in Seq(Traces) /\ Len(traces') = Len(traces)
      /\ \A u \in 1..Len(traces) : traces'[u] = IF u = t THEN trace ELSE traces[u]
  <2>1. traces \in Seq(Traces) /\ trace \in Traces
    BY <1>2, StateTypes
  <2>2. /\ [traces EXCEPT ![t] = trace] \in Seq(Traces)
        /\ Len([traces EXCEPT ![t] = trace]) = Len(traces)
        /\ \A u \in 1..Len(traces) :
             [traces EXCEPT ![t] = trace][u] = IF u = t THEN trace ELSE traces[u]
    BY <2>1, ExceptSeq
  <2>3. QED
    BY <1>1, <2>2
<1>4. QED
  BY <1>2, <1>3 DEF SameTrace, SameCaller, SameErrors

(* A trace is opened. *)
LEMMA TraceOpened ==
  ASSUME TypeOK, NEW trace \in Traces, trace.errors = <<>>, traces' = Append(traces, trace)
  PROVE  /\ traces' \in Seq(Traces) /\ Len(traces') = Len(traces) + 1
         /\ \A u \in 1..Len(traces) : SameTrace(u) /\ SameErrors(u)
         /\ traces'[Len(traces) + 1] = trace /\ Len(traces'[Len(traces) + 1].errors) = 0
<1>1. /\ traces' \in Seq(Traces) /\ Len(traces') = Len(traces) + 1
      /\ \A u \in 1..Len(traces) : traces'[u] = traces[u]
      /\ traces'[Len(traces) + 1] = trace
  BY StateTypes, AppendProperties
<1>2. Len(traces'[Len(traces) + 1].errors) = 0
  BY <1>1, EmptySeq
<1>3. QED
  BY <1>1, <1>2 DEF SameTrace, SameCaller, SameErrors

-------------------------------------------------------------------------------
(* The invariant.  A call closes one trace because no two open traces share *)
(* their lane and identifiers; what an error says its trace says too, before *)
(* anything is joined to it; and after the loop over the expired contexts no *)
(* waiting one is over.                                                      *)

OneOpen ==
  \A t, u \in active : traces[t].lane = traces[u].lane /\ traces[t].ids = traces[u].ids => t = u

LimitInv ==
  /\ Cardinality(active) <= MaxOpen + 1
  /\ stage # "evict" => Cardinality(active) <= MaxOpen
  /\ Len(done) <= MaxTraces
  /\ Len(candidates) <= MaxOpen
  /\ Len(pending) <= MaxOpen

WindowsOpen == stage = "prune" => \A k \in 1..Len(pending) : ~Over(pending[k])

ErrorAgrees(ids, e) ==
  \A f \in IdFields :
    /\ e.ids[f] \in {Unknown, ids[f]}
    /\ \A c \in e.joined : c.ids[f] \in {Unknown, e.ids[f]}

AnchorAgrees(e) == \A c \in e.joined : c.anchor \in {Unknown, e.anchor}

JoinedInv ==
  \A t \in 1..Len(traces) : \A i \in 1..Len(traces[t].errors) :
    /\ ErrorAgrees(traces[t].ids, traces[t].errors[i])
    /\ AnchorAgrees(traces[t].errors[i])

Missing == {t \in 1..Len(traces) : t \notin active /\ ~traces[t].hasContext}

(* The parts of Conserved. *)
RecordsKept ==
  /\ quality["EventsConsumed"] = Placed + Len(pending)
  /\ quality["ErrorContexts"] = Decided + Len(pending)
CallsKept ==
  quality["Calls"] = Cardinality(active) + Len(done) + quality["EvictedCompletedTraces"]
MissingKept == quality["MissingContextTraces"] = Cardinality(Missing)

IInv ==
  /\ TypeOK /\ RecordsKept /\ CallsKept /\ MissingKept
  /\ LimitInv /\ OneOpen /\ WindowsOpen /\ JoinedInv

(* What is taken is placed or waits in the queue, whatever enters and leaves. *)
LEMMA QueueBalance ==
  ASSUME NEW placed \in Nat, NEW queued \in Nat, NEW enters \in Nat, NEW leaves \in Nat
  PROVE  (placed + queued) + enters = (placed + leaves) + (queued + (enters - leaves))
OBVIOUS

(* A context enters the queue exactly when its record is placed nowhere else *)
(* and it leaves it exactly when it is decided.                              *)
LEMMA RecordsMove ==
  ASSUME IInv, NEW c \in {0, 1}, NEW p \in {0, 1}, NEW x \in {0, 1}, NEW d \in {0, 1},
         NEW e \in {0, 1}, Added(c, p, x, d, e),
         Len(pending') = Len(pending) + (c - p), c - p = x - d
  PROVE  RecordsKept'
<1>1. TypeOK /\ RecordsKept
  BY DEF IInv
<1>2. Len(pending) \in Nat
  BY <1>1, StateTypes
<1>3. /\ c \in Nat /\ p \in Nat /\ x \in Nat /\ d \in Nat
      /\ Placed \in Nat /\ Decided \in Nat
  <2>1. c \in Nat /\ p \in Nat /\ x \in Nat /\ d \in Nat
    OBVIOUS
  <2>2. Placed \in Nat /\ Decided \in Nat
    BY <1>1, CounterTypes
  <2>3. QED
    BY <2>1, <2>2
<1> DEFINE consumed == quality["EventsConsumed"]
           contexts == quality["ErrorContexts"]
<1>4. /\ consumed = Placed + Len(pending) /\ contexts = Decided + Len(pending)
      /\ consumed' = consumed + c /\ contexts' = contexts + x
      /\ Placed' = Placed + p /\ Decided' = Decided + d
  BY <1>1 DEF RecordsKept, Added
<1> HIDE DEF consumed, contexts
<1>5. consumed' = Placed' + Len(pending') /\ contexts' = Decided' + Len(pending')
  <2>1. (Placed + Len(pending)) + c = (Placed + p) + (Len(pending) + (c - p))
    BY <1>2, <1>3, QueueBalance
  <2>2. (Decided + Len(pending)) + x = (Decided + d) + (Len(pending) + (x - d))
    BY <1>2, <1>3, QueueBalance
  <2>3. QED
    BY <1>4, <2>1, <2>2, Zenon
<1>6. QED
  BY <1>5 DEF RecordsKept, consumed, contexts

(* A step that opens and closes no trace. *)
LEMMA TracesLeft ==
  ASSUME IInv, traces' \in Seq(Traces), Len(traces') = Len(traces),
         \A u \in 1..Len(traces) : SameCaller(u) /\ (u \notin active => SameTrace(u)),
         active' = active, done' = done, TracesUncounted
  PROVE  /\ CallsKept' /\ MissingKept' /\ OneOpen'
         /\ active' \subseteq 1..Len(traces') /\ done' \in Seq(1..Len(traces'))
<1>1. TypeOK /\ CallsKept /\ MissingKept /\ OneOpen
  BY DEF IInv
<1>2. /\ active \in SUBSET (1..Len(traces)) /\ done \in Seq(1..Len(traces))
  BY <1>1, StateTypes
<1>3. CallsKept'
  BY <1>1 DEF CallsKept, TracesUncounted
<1>4. Missing' = Missing
  BY DEF Missing, SameTrace
<1>5. MissingKept'
  BY <1>1, <1>4 DEF MissingKept, TracesUncounted
<1>6. OneOpen'
  BY <1>1, <1>2 DEF OneOpen, SameCaller
<1>7. QED
  BY <1>2, <1>3, <1>5, <1>6

(* Candidates stay errors of traces while traces and their errors only grow. *)
LEMMA CandidatesStay ==
  ASSUME TypeOK, Len(traces') \in Nat, Len(traces) <= Len(traces'),
         \A u \in 1..Len(traces) : Len(traces'[u].errors) \in Nat
                                   /\ Len(traces[u].errors) <= Len(traces'[u].errors),
         NEW i \in 1..Len(candidates)
  PROVE  /\ candidates[i][1] \in 1..Len(traces')
         /\ candidates[i][2] \in 1..Len(traces'[candidates[i][1]].errors)
<1>1. /\ candidates[i][1] \in 1..Len(traces)
      /\ candidates[i][2] \in 1..Len(traces[candidates[i][1]].errors)
  BY DEF TypeOK
<1> DEFINE t == candidates[i][1]
           k == candidates[i][2]
<1>2. t \in 1..Len(traces) /\ k \in 1..Len(traces[t].errors)
  BY <1>1
<1> HIDE DEF t, k
<1>3. Len(traces) \in Nat /\ Len(traces[t].errors) \in Nat
  BY <1>2, StateTypes, TraceTypes
<1>4. t \in 1..Len(traces')
  BY <1>2, <1>3
<1>5. k \in 1..Len(traces'[t].errors)
  BY <1>2, <1>3
<1>6. QED
  BY <1>4, <1>5 DEF t, k

(* JoinedInv holds for errors that stay, and is asked of those that change. *)
LEMMA JoinedStay ==
  ASSUME IInv,
         \A u \in 1..Len(traces') : \A j \in 1..Len(traces'[u].errors) :
           \/ /\ u \in 1..Len(traces) /\ j \in 1..Len(traces[u].errors)
              /\ SameCaller(u) /\ traces'[u].errors[j] = traces[u].errors[j]
           \/ /\ ErrorAgrees(traces'[u].ids, traces'[u].errors[j])
              /\ AnchorAgrees(traces'[u].errors[j])
  PROVE  JoinedInv'
<1>1. JoinedInv
  BY DEF IInv
<1>2. ASSUME NEW u \in 1..Len(traces'), NEW j \in 1..Len(traces'[u].errors)
      PROVE  /\ ErrorAgrees(traces'[u].ids, traces'[u].errors[j])
             /\ AnchorAgrees(traces'[u].errors[j])
  <2>1. CASE /\ u \in 1..Len(traces) /\ j \in 1..Len(traces[u].errors)
             /\ SameCaller(u) /\ traces'[u].errors[j] = traces[u].errors[j]
    <3>1. /\ ErrorAgrees(traces[u].ids, traces[u].errors[j])
          /\ AnchorAgrees(traces[u].errors[j])
      BY <1>1, <2>1 DEF JoinedInv
    <3>2. traces'[u].ids = traces[u].ids /\ traces'[u].errors[j] = traces[u].errors[j]
      BY <2>1 DEF SameCaller
    <3>3. QED
      BY <3>1, <3>2
  <2>2. QED
    BY <2>1
<1>3. \A t \in 1..Len(traces') : \A i \in 1..Len(traces'[t].errors) :
        /\ ErrorAgrees(traces'[t].ids, traces'[t].errors[i])
        /\ AnchorAgrees(traces'[t].errors[i])
  BY <1>2
<1>4. QED
  BY <1>3 DEF JoinedInv, ErrorAgrees, AnchorAgrees

-------------------------------------------------------------------------------
(* The steps. *)

Stages == {"idle", "evict", "resolve", "prune", "result", "finished"}

(* The ends of the loops, and steps of other programs. *)
LEMMA ControlSteps ==
  ASSUME IInv, EvictOver \/ ResolveOver \/ ResultBegin \/ ResultOver \/ UNCHANGED vars
  PROVE  IInv'
<1>0. /\ TypeOK /\ RecordsKept /\ CallsKept /\ MissingKept
      /\ LimitInv /\ OneOpen /\ WindowsOpen /\ JoinedInv
  BY DEF IInv
<1>1. /\ UNCHANGED <<traces, active, done, candidates, pending, quality, now, inOrder>>
      /\ stage' \in Stages
  BY <1>0 DEF EvictOver, ResolveOver, ResultBegin, ResultOver, vars, TypeOK, Stages
<1>2. TypeOK'
  BY <1>0, <1>1 DEF TypeOK, Stages
<1>3. RecordsKept' /\ CallsKept' /\ MissingKept' /\ OneOpen' /\ JoinedInv'
  BY <1>0, <1>1 DEF RecordsKept, Placed, Decided, CallsKept, MissingKept, Missing, OneOpen, JoinedInv
<1>4. LimitInv'
  <2>1. stage' # "evict" => stage # "evict" \/ ~TooManyOpen
    BY DEF EvictOver, ResolveOver, ResultBegin, ResultOver, vars
  <2>2. Cardinality(active) \in Nat /\ MaxOpen \in Nat
    BY <1>0, StateTypes, Numbers
  <2>3. stage' # "evict" => Cardinality(active) <= MaxOpen
    BY <1>0, <2>1, <2>2 DEF LimitInv, TooManyOpen
  <2>4. QED
    BY <1>0, <1>1, <2>3 DEF LimitInv
<1>5. WindowsOpen'
  <2>1. CASE ResolveOver
    BY <1>1, <2>1 DEF ResolveOver, Expired, WindowsOpen, Over
  <2>2. CASE UNCHANGED vars
    BY <1>0, <1>1, <2>2 DEF vars, WindowsOpen, Over
  <2>3. CASE EvictOver \/ ResultBegin \/ ResultOver
    BY <2>3 DEF EvictOver, ResultBegin, ResultOver, WindowsOpen
  <2>4. QED
    BY <2>1, <2>2, <2>3
<1>6. QED
  BY <1>2, <1>3, <1>4, <1>5 DEF IInv

(* A record that is placed and touches at most the Context of an open trace. *)
LEMMA PlacedSteps ==
  ASSUME IInv, NEW record \in Marks, Begin(record, "resolve"),
         NEW c \in {"CorrelatedEvents", "OrphanEvents", "IgnoredEvents"},
         NEW extra \in SUBSET {"VRS", "CorrelatedVRS", "AmbiguousVRS", "DroppedErrorCandidates"},
         Consumed({c} \cup extra),
         traces = traces' \/ \E t \in active : traces' = [traces EXCEPT ![t].hasContext = TRUE],
         UNCHANGED <<active, done, candidates, pending>>
  PROVE  IInv'
<1>0. TypeOK /\ LimitInv
  BY DEF IInv
<1>1. stage = "idle" /\ stage' = "resolve" /\ now' = record.at
  BY DEF Begin
<1>2. Added(1, 1, 0, 0, 0) /\ TracesUncounted
  BY <1>0, PlacedEffect
<1>3. /\ traces' \in Seq(Traces) /\ Len(traces') = Len(traces)
      /\ \A u \in 1..Len(traces) :
           SameCaller(u) /\ SameErrors(u) /\ (u \notin active => SameTrace(u))
  <2>1. CASE traces = traces'
    BY <1>0, <2>1, StateTypes DEF SameCaller, SameErrors, SameTrace
  <2>2. CASE \E t \in active : traces' = [traces EXCEPT ![t].hasContext = TRUE]
    <3>1. PICK t \in active : traces' = [traces EXCEPT ![t].hasContext = TRUE]
      BY <2>2
    <3>2. t \in 1..Len(traces)
      BY <1>0, StateTypes
    <3>3. QED
      BY <1>0, <3>1, <3>2, ContextMarked
  <2>3. QED
    BY <2>1, <2>2
<1>4. /\ CallsKept' /\ MissingKept' /\ OneOpen'
      /\ active' \subseteq 1..Len(traces') /\ done' \in Seq(1..Len(traces'))
  <2>1. active' = active /\ done' = done
    OBVIOUS
  <2>2. QED
    BY <1>2, <1>3, <2>1, TracesLeft
<1>5. RecordsKept'
  <2>1. Len(pending') = Len(pending) + (1 - 1)
    BY <1>0, StateTypes
  <2>2. QED
    BY <1>2, <2>1, RecordsMove
<1>6. JoinedInv'
  <2>1. ASSUME NEW u \in 1..Len(traces'), NEW j \in 1..Len(traces'[u].errors)
        PROVE  /\ u \in 1..Len(traces) /\ j \in 1..Len(traces[u].errors)
               /\ SameCaller(u) /\ traces'[u].errors[j] = traces[u].errors[j]
    BY <1>3 DEF SameErrors
  <2>2. QED
    BY <2>1, JoinedStay
<1>7. \A i \in 1..Len(candidates') :
        /\ candidates'[i][1] \in 1..Len(traces')
        /\ candidates'[i][2] \in 1..Len(traces'[candidates'[i][1]].errors)
  <2>1. Len(traces') \in Nat /\ Len(traces) <= Len(traces')
    BY <1>0, <1>3, StateTypes
  <2>2. \A u \in 1..Len(traces) : Len(traces'[u].errors) \in Nat
                                  /\ Len(traces[u].errors) <= Len(traces'[u].errors)
    BY <1>0, <1>3, TraceTypes DEF SameErrors
  <2>3. QED
    BY <1>0, <2>1, <2>2, CandidatesStay
<1>8. TypeOK'
  <2>1. /\ candidates' \in Seq(Nat \X Nat) /\ pending' \in Seq(Marks)
    BY <1>0, StateTypes
  <2>2. quality' \in [Counters -> Nat]
    BY <1>2 DEF Added
  <2>3. now' \in Times /\ stage' \in Stages /\ inOrder' \in BOOLEAN
    BY <1>1, BeginOrder DEF Marks, Stages
  <2>4. QED
    BY <1>3, <1>4, <1>7, <2>1, <2>2, <2>3 DEF TypeOK, Stages
<1>9. LimitInv' /\ WindowsOpen'
  BY <1>0, <1>1 DEF LimitInv, WindowsOpen
<1>10. QED
  BY <1>4, <1>5, <1>6, <1>8, <1>9 DEF IInv

LEMMA PlainIsMark == Plain \subseteq Marks
  BY DEF Plain, Marks

(* The best match is an open trace of the record's lane and identifiers. *)
LEMMA BestMatch ==
  ASSUME TypeOK, NEW record, Matching(record) # {}
  PROVE  /\ Max(Matching(record)) \in active /\ Max(Matching(record)) \in 1..Len(traces)
         /\ traces[Max(Matching(record))].lane = record.lane
         /\ OptionalMatch(Max(Matching(record)), record)
<1>1. Matching(record) \in SUBSET (1..Len(traces)) /\ Len(traces) \in Nat
  BY StateTypes DEF Matching
<1>2. Max(Matching(record)) \in Matching(record)
  BY <1>1, MaxIsMember
<1>3. QED
  BY <1>1, <1>2 DEF Matching
(* Such a record is counted in one place, and a VRS in its own counters too. *)
LEMMA PlacedCount ==
  ASSUME NEW record \in Plain,
         ConsumeRelated(record) \/ ConsumeContext(record) \/ ConsumeVRS(record)
           \/ ConsumeOther(record)
  PROVE  \E c \in {"CorrelatedEvents", "OrphanEvents", "IgnoredEvents"},
            extra \in SUBSET {"VRS", "CorrelatedVRS", "AmbiguousVRS", "DroppedErrorCandidates"} :
              Consumed({c} \cup extra)
<1> DEFINE Places == {"CorrelatedEvents", "OrphanEvents", "IgnoredEvents"}
           Extras == {"VRS", "CorrelatedVRS", "AmbiguousVRS", "DroppedErrorCandidates"}
<1>1. CASE ConsumeRelated(record)
  <2>1. PICK c \in Places : Consumed({c})
    BY <1>1 DEF ConsumeRelated
  <2>2. {c} \cup {} = {c} /\ {} \in SUBSET Extras
    OBVIOUS
  <2>3. Consumed({c} \cup {})
    BY <2>1, <2>2
  <2>4. QED
    BY <2>2, <2>3
<1>2. CASE ConsumeContext(record)
  <2>1. PICK c \in Places : Consumed({c})
    BY <1>2 DEF ConsumeContext
  <2>2. {c} \cup {} = {c} /\ {} \in SUBSET Extras
    OBVIOUS
  <2>3. Consumed({c} \cup {})
    BY <2>1, <2>2
  <2>4. QED
    BY <2>2, <2>3
<1>3. CASE ConsumeOther(record)
  <2>1. Consumed({"IgnoredEvents"}) /\ "IgnoredEvents" \in Places
    BY <1>3 DEF ConsumeOther
  <2>2. {"IgnoredEvents"} \cup {} = {"IgnoredEvents"} /\ {} \in SUBSET Extras
    OBVIOUS
  <2>3. Consumed({"IgnoredEvents"} \cup {})
    BY <2>1, <2>2
  <2>4. QED
    BY <2>1, <2>2, <2>3
<1>4. CASE ConsumeVRS(record)
  <2>1. PICK tail \in {{"OrphanEvents"}, {"CorrelatedEvents", "CorrelatedVRS"},
                       {"AmbiguousVRS", "OrphanEvents"}} : Consumed({"VRS"} \cup tail)
    BY <1>4 DEF ConsumeVRS
  <2>2. PICK c \in Places, extra \in SUBSET Extras : {"VRS"} \cup tail = {c} \cup extra
    <3>1. CASE tail = {"OrphanEvents"}
      <4>1. {"VRS"} \cup tail = {"OrphanEvents"} \cup {"VRS"}
        BY <3>1
      <4>2. QED
        BY <4>1
    <3>2. CASE tail = {"CorrelatedEvents", "CorrelatedVRS"}
      <4>1. {"VRS"} \cup tail = {"CorrelatedEvents"} \cup {"VRS", "CorrelatedVRS"}
        BY <3>2
      <4>2. QED
        BY <4>1
    <3>3. CASE tail = {"AmbiguousVRS", "OrphanEvents"}
      <4>1. {"VRS"} \cup tail = {"OrphanEvents"} \cup {"VRS", "AmbiguousVRS"}
        BY <3>3
      <4>2. QED
        BY <4>1
    <3>4. QED
      BY <3>1, <3>2, <3>3
  <2>3. Consumed({c} \cup extra)
    BY <2>1, <2>2
  <2>4. QED
    BY <2>3
<1>5. QED
  BY <1>1, <1>2, <1>3, <1>4


LEMMA ConsumePlacedSteps ==
  ASSUME IInv, NEW record \in Plain,
         ConsumeRelated(record) \/ ConsumeContext(record) \/ ConsumeVRS(record)
           \/ ConsumeOther(record)
  PROVE  IInv'
<1>0. TypeOK /\ record \in Marks
  BY PlainIsMark DEF IInv
<1> DEFINE Places == {"CorrelatedEvents", "OrphanEvents", "IgnoredEvents"}
           Extras == {"VRS", "CorrelatedVRS", "AmbiguousVRS", "DroppedErrorCandidates"}
<1>1. /\ Begin(record, "resolve") /\ UNCHANGED <<active, done, candidates, pending>>
      /\ traces = traces' \/ \E t \in active : traces' = [traces EXCEPT ![t].hasContext = TRUE]
  <2>1. CASE ConsumeContext(record)
    BY <1>0, <2>1, BestMatch DEF ConsumeContext
  <2>2. CASE ConsumeRelated(record) \/ ConsumeVRS(record) \/ ConsumeOther(record)
    BY <2>2 DEF ConsumeRelated, ConsumeVRS, ConsumeOther
  <2>3. QED
    BY <2>1, <2>2
<1>2. \E c \in Places, extra \in SUBSET Extras : Consumed({c} \cup extra)
  BY PlacedCount
<1>3. PICK c \in Places, extra \in SUBSET Extras : Consumed({c} \cup extra)
  BY <1>2
<1>4. QED
  BY <1>0, <1>1, <1>3, PlacedSteps

(* The span of a new error. *)
Error(record) == [at |-> record.at, ids |-> record.ids, anchor |-> record.anchor, joined |-> {}]

LEMMA ErrorTypes ==
  ASSUME NEW record \in Marks
  PROVE  /\ Error(record) \in ErrorSpans /\ Error(record).at = record.at
         /\ Error(record).ids = record.ids /\ Error(record).joined = {}
  BY DEF Marks, ErrorSpans, Error

(* An error joins its trace and the candidates. *)
LEMMA MatchedErrorEffect ==
  ASSUME TypeOK, LimitInv, NEW record \in Marks, ConsumeError(record), Matching(record) # {}
  PROVE  LET t == Max(Matching(record))
         IN  /\ t \in active /\ t \in 1..Len(traces)
             /\ traces[t].lane = record.lane /\ OptionalMatch(t, record)
             /\ traces' = [traces EXCEPT ![t].errors = Append(@, Error(record))]
             /\ candidates' = Bounded(Append(candidates, NewCandidate(t)), MaxOpen)
             /\ NewCandidate(t) \in Nat \X Nat
             /\ candidates' \in Seq(Nat \X Nat)
             /\ Len(candidates') = IF Len(candidates) = MaxOpen THEN MaxOpen
                                                                ELSE Len(candidates) + 1
             /\ \A k \in 1..Len(candidates') :
                  \/ candidates'[k] = NewCandidate(t)
                  \/ \E j \in 1..Len(candidates) : candidates'[k] = candidates[j]
             /\ Len(candidates) # MaxOpen =>
                  /\ NewCandidate(t) \in ToSet(candidates')
                  /\ ToSet(candidates) \subseteq ToSet(candidates')
<1> DEFINE t == Max(Matching(record))
<1>1. /\ t \in active /\ t \in 1..Len(traces)
      /\ traces[t].lane = record.lane /\ OptionalMatch(t, record)
  BY BestMatch
<1>2. /\ traces' = [traces EXCEPT ![t].errors = Append(@, Error(record))]
      /\ candidates' = Bounded(Append(candidates, NewCandidate(t)), MaxOpen)
  BY DEF ConsumeError, Error
<1> HIDE DEF t
<1>3. t \in Nat /\ Len(traces[t].errors) + 1 \in Nat
  BY <1>1, StateTypes, TraceTypes
<1>4. NewCandidate(t) \in Nat \X Nat
  BY <1>3 DEF NewCandidate
<1>5. candidates \in Seq(Nat \X Nat) /\ Len(candidates) <= MaxOpen /\ MaxOpen \in Nat \ {0}
  BY StateTypes, Numbers DEF LimitInv
<1>6. /\ candidates' \in Seq(Nat \X Nat)
      /\ Len(candidates') = IF Len(candidates) = MaxOpen THEN MaxOpen ELSE Len(candidates) + 1
      /\ \A k \in 1..Len(candidates') :
           \/ candidates'[k] = NewCandidate(t)
           \/ \E j \in 1..Len(candidates) : candidates'[k] = candidates[j]
      /\ Len(candidates) # MaxOpen =>
           /\ NewCandidate(t) \in ToSet(candidates')
           /\ ToSet(candidates) \subseteq ToSet(candidates')
  <2> DEFINE Pairs == Nat \X Nat
             new == NewCandidate(t)
             list == candidates
             result == candidates'
  <2>1. /\ list \in Seq(Pairs) /\ new \in Pairs /\ MaxOpen \in Nat \ {0} /\ Len(list) <= MaxOpen
        /\ result = Bounded(Append(list, new), MaxOpen)
    BY <1>2, <1>4, <1>5
  <2> HIDE DEF Pairs, new, list, result
  <2>2. /\ result \in Seq(Pairs)
        /\ Len(result) = IF Len(list) = MaxOpen THEN MaxOpen ELSE Len(list) + 1
    BY <2>1, BoundedAppend
  <2>3. \A k \in 1..Len(result) :
          result[k] = new \/ \E j \in 1..Len(list) : result[k] = list[j]
    BY <2>1, BoundedAppend
  <2>4. Len(list) # MaxOpen => new \in ToSet(result) /\ ToSet(list) \subseteq ToSet(result)
    BY <2>1, BoundedAppend
  <2>5. QED
    BY <2>2, <2>3, <2>4 DEF Pairs, new, list, result
<1>7. QED
  BY <1>1, <1>2, <1>4, <1>6 DEF t

LEMMA ErrorCounted ==
  ASSUME TypeOK, NEW record, ConsumeError(record), Matching(record) # {}
  PROVE  /\ Added(1, 1, 0, 0, 0) /\ TracesUncounted
         /\ quality'["DroppedErrorCandidates"] = quality["DroppedErrorCandidates"]
              + IF Len(candidates) = MaxOpen THEN 1 ELSE 0
<1> DEFINE extra == IfDropped(candidates, MaxOpen, {"DroppedErrorCandidates"})
<1>1. extra \in SUBSET {"VRS", "CorrelatedVRS", "AmbiguousVRS", "DroppedErrorCandidates"}
  BY DEF IfDropped
<1>2. Consumed({"CorrelatedEvents"} \cup extra)
  BY DEF ConsumeError
<1>3. Bump("DroppedErrorCandidates", extra) = IF Len(candidates) = MaxOpen THEN 1 ELSE 0
  BY DEF IfDropped, Bump
<1> HIDE DEF extra
<1>4. QED
  BY <1>1, <1>2, <1>3, PlacedEffect

LEMMA ConsumeErrorStep ==
  ASSUME IInv, NEW record \in Marks, ConsumeError(record)
  PROVE  IInv'
<1>0. TypeOK /\ LimitInv
  BY DEF IInv
<1>1. CASE Matching(record) = {}
  <2>1. Consumed({"OrphanEvents"}) /\ UNCHANGED <<traces, candidates>>
    BY <1>1 DEF ConsumeError
  <2>2. Begin(record, "resolve") /\ UNCHANGED <<active, done, pending>>
    BY DEF ConsumeError
  <2>3. {"OrphanEvents"} \cup {} = {"OrphanEvents"}
    OBVIOUS
  <2>4. Consumed({"OrphanEvents"} \cup {})
    BY <2>1, <2>3
  <2>5. /\ "OrphanEvents" \in {"CorrelatedEvents", "OrphanEvents", "IgnoredEvents"}
        /\ {} \in SUBSET {"VRS", "CorrelatedVRS", "AmbiguousVRS", "DroppedErrorCandidates"}
    OBVIOUS
  <2>6. QED
    BY <2>1, <2>2, <2>4, <2>5, PlacedSteps
<1>2. CASE Matching(record) # {}
  <2> DEFINE t == Max(Matching(record))
             e == Error(record)
  <2>1. /\ t \in active /\ t \in 1..Len(traces) /\ OptionalMatch(t, record)
        /\ traces' = [traces EXCEPT ![t].errors = Append(@, e)]
        /\ candidates' \in Seq(Nat \X Nat)
        /\ Len(candidates') = IF Len(candidates) = MaxOpen THEN MaxOpen ELSE Len(candidates) + 1
        /\ \A k \in 1..Len(candidates') :
             \/ candidates'[k] = NewCandidate(t)
             \/ \E j \in 1..Len(candidates) : candidates'[k] = candidates[j]
    BY <1>0, <1>2, MatchedErrorEffect
  <2>2. /\ stage = "idle" /\ stage' = "resolve" /\ now' = record.at /\ inOrder' \in BOOLEAN
        /\ UNCHANGED <<active, done, pending>>
    BY BeginOrder DEF ConsumeError, Begin
  <2>3. Added(1, 1, 0, 0, 0) /\ TracesUncounted
    BY <1>0, <1>2, ErrorCounted
  <2>4. e \in ErrorSpans /\ e.ids = record.ids /\ e.joined = {}
    BY ErrorTypes
  <2> HIDE DEF t, e
  <2>5. /\ traces' \in Seq(Traces) /\ Len(traces') = Len(traces)
        /\ \A u \in 1..Len(traces) : SameTrace(u) /\ (u # t => SameErrors(u))
        /\ Len(traces'[t].errors) = Len(traces[t].errors) + 1
        /\ \A j \in 1..Len(traces[t].errors) : traces'[t].errors[j] = traces[t].errors[j]
        /\ traces'[t].errors[Len(traces[t].errors) + 1] = e
    BY <1>0, <2>1, <2>4, ErrorAppended
  <2>6. /\ CallsKept' /\ MissingKept' /\ OneOpen'
        /\ active' \subseteq 1..Len(traces') /\ done' \in Seq(1..Len(traces'))
    <3>1. active' = active /\ done' = done
      BY <2>2
    <3>2. \A u \in 1..Len(traces) : SameCaller(u) /\ (u \notin active => SameTrace(u))
      BY <2>5 DEF SameTrace
    <3>3. QED
      BY <2>3, <2>5, <3>1, <3>2, TracesLeft
  <2>7. RecordsKept'
    <3>1. Len(pending') = Len(pending) + (1 - 1)
      BY <1>0, <2>2, StateTypes
    <3>2. QED
      BY <2>3, <3>1, RecordsMove
  <2>8. Len(traces[t].errors) \in Nat
    BY <1>0, <2>1, TraceTypes
  <2>9. JoinedInv'
    <3>1. ASSUME NEW u \in 1..Len(traces'), NEW j \in 1..Len(traces'[u].errors)
          PROVE  \/ /\ u \in 1..Len(traces) /\ j \in 1..Len(traces[u].errors)
                    /\ SameCaller(u) /\ traces'[u].errors[j] = traces[u].errors[j]
                 \/ /\ ErrorAgrees(traces'[u].ids, traces'[u].errors[j])
                    /\ AnchorAgrees(traces'[u].errors[j])
      <4>1. u \in 1..Len(traces) /\ SameCaller(u)
        BY <2>5 DEF SameTrace
      <4>2. CASE u # t
        BY <2>5, <4>1, <4>2 DEF SameErrors
      <4>3. CASE u = t /\ j \in 1..Len(traces[t].errors)
        BY <2>5, <4>1, <4>3
      <4>4. CASE u = t /\ j \notin 1..Len(traces[t].errors)
        <5>1. j = Len(traces[t].errors) + 1
          BY <2>5, <2>8, <4>4
        <5>2. traces'[u].errors[j] = e
          BY <2>5, <4>4, <5>1
        <5>3. \A f \in IdFields : record.ids[f] \in {Unknown, traces[t].ids[f]}
          BY <2>1 DEF OptionalMatch
        <5>4. traces'[u].ids = traces[t].ids
          BY <4>1, <4>4 DEF SameCaller
        <5>5. QED
          BY <2>4, <5>2, <5>3, <5>4 DEF ErrorAgrees, AnchorAgrees
      <4>5. QED
        BY <4>2, <4>3, <4>4
    <3>2. QED
      BY <3>1, JoinedStay
  <2>10. \A i \in 1..Len(candidates') :
           /\ candidates'[i][1] \in 1..Len(traces')
           /\ candidates'[i][2] \in 1..Len(traces'[candidates'[i][1]].errors)
    <3>1. Len(traces') \in Nat /\ Len(traces) <= Len(traces')
      BY <1>0, <2>5, StateTypes
    <3>2. ASSUME NEW u \in 1..Len(traces)
          PROVE  Len(traces'[u].errors) \in Nat
                 /\ Len(traces[u].errors) <= Len(traces'[u].errors)
      <4>1. Len(traces[u].errors) \in Nat
        BY <1>0, TraceTypes
      <4>2. CASE u = t
        BY <2>5, <4>1, <4>2
      <4>3. CASE u # t
        BY <2>5, <4>1, <4>3 DEF SameErrors
      <4>4. QED
        BY <4>2, <4>3
    <3>3. ASSUME NEW i \in 1..Len(candidates'), candidates'[i] = NewCandidate(t)
          PROVE  /\ candidates'[i][1] \in 1..Len(traces')
                 /\ candidates'[i][2] \in 1..Len(traces'[candidates'[i][1]].errors)
      <4>1. candidates'[i][1] = t /\ candidates'[i][2] = Len(traces[t].errors) + 1
        BY <3>3 DEF NewCandidate
      <4>2. Len(traces[t].errors) + 1 \in 1..Len(traces'[t].errors)
        BY <2>5, <2>8
      <4>3. QED
        BY <2>1, <2>5, <4>1, <4>2
    <3>4. QED
      BY <1>0, <2>1, <3>1, <3>2, <3>3, CandidatesStay
  <2>11. TypeOK'
    <3>1. pending' \in Seq(Marks)
      BY <1>0, <2>2, StateTypes
    <3>2. quality' \in [Counters -> Nat]
      BY <2>3 DEF Added
    <3>3. now' \in Times /\ stage' \in Stages /\ inOrder' \in BOOLEAN
      BY <2>2 DEF Marks, Stages
    <3>4. QED
      BY <2>1, <2>5, <2>6, <2>10, <3>1, <3>2, <3>3 DEF TypeOK, Stages
  <2>12. LimitInv' /\ WindowsOpen'
    <3>1. Len(candidates') <= MaxOpen
      <4>1. Len(candidates) \in Nat /\ Len(candidates) <= MaxOpen /\ MaxOpen \in Nat
        BY <1>0, StateTypes, Numbers DEF LimitInv
      <4>2. QED
        BY <2>1, <4>1
    <3>2. QED
      BY <1>0, <2>2, <3>1 DEF LimitInv, WindowsOpen
  <2>13. QED
    BY <2>6, <2>7, <2>9, <2>11, <2>12 DEF IInv
<1>3. QED
  BY <1>1, <1>2

(* An error context is left to wait, and may push out the one before it. *)
LEMMA ConsumeErrorContextStep ==
  ASSUME IInv, NEW record \in Marks, ConsumeErrorContext(record)
  PROVE  IInv'
<1>0. TypeOK /\ LimitInv /\ JoinedInv
  BY DEF IInv
<1> DEFINE dropped == IF Len(pending) = MaxOpen THEN 1 ELSE 0
<1>1. /\ stage = "idle" /\ stage' = "resolve" /\ now' = record.at /\ inOrder' \in BOOLEAN
      /\ UNCHANGED <<traces, active, done, candidates>>
  BY BeginOrder DEF ConsumeErrorContext, Begin
<1>2. dropped \in {0, 1} /\ (dropped = 1 <=> Len(pending) = MaxOpen)
  OBVIOUS
<1>3. Added(1, dropped, 1, dropped, 0) /\ TracesUncounted
  <2> HIDE DEF dropped
  <2>1. Consumed({"ErrorContexts"} \cup IfDropped(pending, MaxOpen, Overflow))
    BY DEF ConsumeErrorContext
  <2>2. QED
    BY <1>0, <1>2, <2>1, WaitingEffect
<1>4. pending \in Seq(Marks) /\ Len(pending) \in Nat /\ Len(pending) <= MaxOpen
      /\ MaxOpen \in Nat \ {0}
  BY <1>0, StateTypes, Numbers DEF LimitInv
<1>5. pending' = Bounded(Append(pending, record), MaxOpen)
  BY DEF ConsumeErrorContext
<1>6. /\ pending' \in Seq(Marks)
      /\ Len(pending') = IF Len(pending) = MaxOpen THEN MaxOpen ELSE Len(pending) + 1
  BY <1>4, <1>5, BoundedAppend
<1>7. Len(pending') = Len(pending) + (1 - dropped) /\ Len(pending') <= MaxOpen
  BY <1>4, <1>6
<1> HIDE DEF dropped
<1>8. RecordsKept'
  BY <1>2, <1>3, <1>7, RecordsMove
<1>9. \A u \in 1..Len(traces) : SameTrace(u) /\ SameCaller(u)
  BY <1>1 DEF SameTrace, SameCaller
<1>10. /\ CallsKept' /\ MissingKept' /\ OneOpen'
       /\ active' \subseteq 1..Len(traces') /\ done' \in Seq(1..Len(traces'))
  <2>1. traces' \in Seq(Traces) /\ Len(traces') = Len(traces) /\ active' = active /\ done' = done
    BY <1>0, <1>1, StateTypes
  <2>2. QED
    BY <1>3, <1>9, <2>1, TracesLeft
<1>11. TypeOK'
  <2>1. quality' \in [Counters -> Nat]
    BY <1>3 DEF Added
  <2>2. now' \in Times /\ stage' \in Stages /\ inOrder' \in BOOLEAN
    BY <1>1 DEF Marks, Stages
  <2>3. QED
    BY <1>0, <1>1, <1>6, <1>10, <2>1, <2>2 DEF TypeOK, Stages
<1>12. LimitInv' /\ WindowsOpen' /\ JoinedInv'
  BY <1>0, <1>1, <1>7 DEF LimitInv, WindowsOpen, JoinedInv
<1>13. QED
  BY <1>8, <1>10, <1>11, <1>12 DEF IInv

-------------------------------------------------------------------------------
(* Calls and closed traces. *)

(* One trace joins the closed ones, and counts if it has no Context. *)
LEMMA OneMissingMore ==
  ASSUME IInv, NEW t \in active, t \in 1..Len(traces),
         Missing' = IF traces[t].hasContext THEN Missing ELSE Missing \cup {t},
         quality'["MissingContextTraces"]
           = quality["MissingContextTraces"] + IF traces[t].hasContext THEN 0 ELSE 1
  PROVE  MissingKept'
<1>1. TypeOK /\ MissingKept
  BY DEF IInv
<1>2. IsFiniteSet(1..Len(traces)) /\ Missing \in SUBSET (1..Len(traces)) /\ t \notin Missing
  BY <1>1, StateTypes, FS_Interval DEF Missing
<1>3. IsFiniteSet(Missing)
  BY <1>2, FS_Subset
<1>4. Cardinality(Missing \cup {t}) = Cardinality(Missing) + 1
  BY <1>2, <1>3, FS_AddElement
<1>5. Cardinality(Missing) \in Nat
  BY <1>3, FS_CardinalityType
<1>6. CASE traces[t].hasContext
  <2>1. Missing' = Missing /\ quality'["MissingContextTraces"] = quality["MissingContextTraces"] + 0
    BY <1>6
  <2>2. QED
    BY <1>1, <1>5, <2>1 DEF MissingKept
<1>7. CASE ~traces[t].hasContext
  <2>1. /\ Missing' = Missing \cup {t}
        /\ quality'["MissingContextTraces"] = quality["MissingContextTraces"] + 1
    BY <1>7
  <2>2. QED
    BY <1>1, <1>4, <1>5, <2>1 DEF MissingKept
<1>8. QED
  BY <1>6, <1>7

(* What a call does to the open traces; at most one of them is its own. *)
LEMMA CallTraces ==
  ASSUME IInv, NEW record \in Plain, ConsumeCall(record)
  PROVE  /\ traces' \in Seq(Traces) /\ Len(traces') = Len(traces) + 1
         /\ \A u \in 1..Len(traces) : SameTrace(u) /\ SameErrors(u)
         /\ Len(traces'[Len(traces) + 1].errors) = 0
         /\ active' = (active \ SameCall(record)) \cup {Len(traces) + 1}
         /\ active' \subseteq 1..Len(traces') /\ OneOpen'
         /\ SameCall(record) \subseteq active
         /\ \A t, u \in SameCall(record) : t = u
<1>0. TypeOK /\ OneOpen
  BY DEF IInv
<1> DEFINE trace == [lane |-> record.lane, ids |-> record.ids,
                     hasContext |-> FALSE, errors |-> <<>>]
           new == Len(traces) + 1
<1>1. traces' = Append(traces, trace) /\ active' = (active \ SameCall(record)) \cup {new}
  BY DEF ConsumeCall
<1>2. /\ trace \in Traces /\ trace.errors = <<>>
      /\ trace.lane = record.lane /\ trace.ids = record.ids
  <2>1. <<>> \in Seq(ErrorSpans) /\ record.lane \in Lanes /\ record.ids \in Ids
    BY EmptySeq DEF Plain
  <2>2. QED
    BY <2>1 DEF Traces
<1> HIDE DEF trace
<1>3. /\ traces' \in Seq(Traces) /\ Len(traces') = new
      /\ \A u \in 1..Len(traces) : SameTrace(u) /\ SameErrors(u)
      /\ traces'[new] = trace /\ Len(traces'[new].errors) = 0
  BY <1>0, <1>1, <1>2, TraceOpened
<1>4. active \subseteq 1..Len(traces) /\ Len(traces) \in Nat
  BY <1>0, StateTypes
<1>5. active' \subseteq 1..Len(traces')
  <2>1. Len(traces') = Len(traces) + 1
    BY <1>3
  <2>2. 1..Len(traces) \subseteq 1..Len(traces') /\ new \in 1..Len(traces')
    BY <1>4, <2>1
  <2>3. QED
    BY <1>1, <1>4, <2>2
<1>6. SameCall(record) \subseteq active /\ \A t, u \in SameCall(record) : t = u
  BY <1>0 DEF SameCall, OneOpen
<1>7. OneOpen'
  <2>1. \A t \in active' \ {new} : /\ t \in active /\ t \notin SameCall(record)
                                   /\ traces'[t].lane = traces[t].lane
                                   /\ traces'[t].ids = traces[t].ids
    BY <1>1, <1>3, <1>4 DEF SameTrace, SameCaller
  <2>2. traces'[new].lane = record.lane /\ traces'[new].ids = record.ids
    BY <1>2, <1>3
  <2>3. ASSUME NEW t \in active', NEW u \in active',
               traces'[t].lane = traces'[u].lane, traces'[t].ids = traces'[u].ids
        PROVE  t = u
    <3>1. CASE t # new /\ u # new
      BY <1>0, <2>1, <2>3, <3>1 DEF OneOpen
    <3>2. CASE t # new /\ u = new
      BY <2>1, <2>2, <2>3, <3>2 DEF SameCall
    <3>3. CASE t = new /\ u # new
      BY <2>1, <2>2, <2>3, <3>3 DEF SameCall
    <3>4. QED
      BY <3>1, <3>2, <3>3
  <2>4. QED
    BY <2>3 DEF OneOpen
<1>8. QED
  BY <1>1, <1>3, <1>5, <1>6, <1>7

(* The candidates, and what is joined, outlive a step that only opens or     *)
(* closes traces.                                                            *)
LEMMA ErrorsStay ==
  ASSUME IInv, Len(traces') \in Nat, Len(traces) <= Len(traces'), candidates' = candidates,
         \A u \in 1..Len(traces) : SameCaller(u) /\ SameErrors(u),
         \A u \in 1..Len(traces') : u \notin 1..Len(traces) => Len(traces'[u].errors) = 0
  PROVE  /\ JoinedInv'
         /\ candidates' \in Seq(Nat \X Nat)
         /\ \A i \in 1..Len(candidates') :
              /\ candidates'[i][1] \in 1..Len(traces')
              /\ candidates'[i][2] \in 1..Len(traces'[candidates'[i][1]].errors)
<1>0. TypeOK
  BY DEF IInv
<1>1. JoinedInv'
  <2>1. ASSUME NEW u \in 1..Len(traces'), NEW j \in 1..Len(traces'[u].errors)
        PROVE  /\ u \in 1..Len(traces) /\ j \in 1..Len(traces[u].errors)
               /\ SameCaller(u) /\ traces'[u].errors[j] = traces[u].errors[j]
    <3>1. u \in 1..Len(traces)
      BY <2>1
    <3>2. QED
      BY <2>1, <3>1 DEF SameErrors
  <2>2. QED
    BY <2>1, JoinedStay
<1>2. \A u \in 1..Len(traces) : Len(traces'[u].errors) \in Nat
                                /\ Len(traces[u].errors) <= Len(traces'[u].errors)
  BY <1>0, TraceTypes DEF SameErrors
<1>3. \A i \in 1..Len(candidates) :
        /\ candidates[i][1] \in 1..Len(traces')
        /\ candidates[i][2] \in 1..Len(traces'[candidates[i][1]].errors)
  BY <1>0, <1>2, CandidatesStay
<1>4. candidates' \in Seq(Nat \X Nat)
  BY <1>0, StateTypes
<1>5. QED
  BY <1>1, <1>3, <1>4

LEMMA ConsumeCallStep ==
  ASSUME IInv, NEW record \in Plain, ConsumeCall(record)
  PROVE  IInv'
<1>0. TypeOK /\ LimitInv /\ CallsKept /\ MissingKept
  BY DEF IInv
<1> DEFINE new == Len(traces) + 1
<1>1. /\ stage = "idle" /\ stage' = "evict" /\ now' = record.at /\ inOrder' \in BOOLEAN
      /\ UNCHANGED <<candidates, pending>>
  BY BeginOrder DEF ConsumeCall, Begin
<1>2. /\ traces' \in Seq(Traces) /\ Len(traces') = new
      /\ \A u \in 1..Len(traces) : SameTrace(u) /\ SameErrors(u)
      /\ Len(traces'[new].errors) = 0
      /\ active' = (active \ SameCall(record)) \cup {new}
      /\ active' \subseteq 1..Len(traces') /\ OneOpen'
      /\ SameCall(record) \subseteq active
      /\ \A t, u \in SameCall(record) : t = u
  BY CallTraces
<1>3. /\ Len(traces) \in Nat /\ active \in SUBSET (1..Len(traces)) /\ IsFiniteSet(active)
      /\ Cardinality(active) \in Nat /\ Len(done) \in Nat /\ new \notin active
      /\ Cardinality(active) <= MaxOpen /\ MaxOpen \in Nat /\ Len(done) <= MaxTraces
      /\ MaxTraces \in Nat /\ done \in Seq(1..Len(traces))
  BY <1>0, <1>1, StateTypes, Numbers DEF LimitInv
<1>4. /\ JoinedInv'
      /\ candidates' \in Seq(Nat \X Nat)
      /\ \A i \in 1..Len(candidates') :
           /\ candidates'[i][1] \in 1..Len(traces')
           /\ candidates'[i][2] \in 1..Len(traces'[candidates'[i][1]].errors)
  <2>1. Len(traces') \in Nat /\ Len(traces) <= Len(traces') /\ candidates' = candidates
    BY <1>1, <1>2, <1>3
  <2>2. \A u \in 1..Len(traces') : u \notin 1..Len(traces) => u = new
    BY <1>2, <1>3
  <2>3. QED
    BY <1>2, <2>1, <2>2, ErrorsStay DEF SameTrace
<1>5. \A t \in 1..Len(traces') : t \notin active' =>
        t \in 1..Len(traces) /\ (t \notin active \/ t \in SameCall(record))
  BY <1>2, <1>3
<1>6. /\ Added(1, 1, 0, 0, 0) /\ CallsKept' /\ MissingKept'
      /\ done' \in Seq(1..Len(traces)) /\ Len(done') <= MaxTraces
      /\ Cardinality(active') <= MaxOpen + 1
  <2>1. CASE SameCall(record) = {} /\ Consumed({"Calls"}) /\ UNCHANGED done
    <3>1. /\ Added(1, 1, 0, 0, 0) /\ quality'["Calls"] = quality["Calls"] + 1
          /\ \A c \in {"MissingContextTraces", "EvictedCompletedTraces",
                       "DroppedErrorCandidates"} : quality'[c] = quality[c]
      BY <1>0, <2>1, CallEffect
    <3>2. active' = active \cup {new}
      BY <1>2, <2>1
    <3>3. Cardinality(active') = Cardinality(active) + 1
      BY <1>3, <3>2, FS_AddElement
    <3>4. CallsKept'
      <4>1. quality["EvictedCompletedTraces"] \in Nat /\ done' = done
        BY <1>0, <2>1, CounterTypes
      <4>2. quality'["EvictedCompletedTraces"] = quality["EvictedCompletedTraces"]
        BY <3>1
      <4>3. quality["Calls"] = Cardinality(active) + Len(done) + quality["EvictedCompletedTraces"]
        BY <1>0 DEF CallsKept
      <4>4. quality'["Calls"]
              = Cardinality(active') + Len(done') + quality'["EvictedCompletedTraces"]
        BY <1>3, <3>1, <3>3, <4>1, <4>2, <4>3
      <4>5. QED
        BY <4>4 DEF CallsKept
    <3>5. MissingKept'
      <4>1. Missing' = Missing
        BY <1>2, <1>3, <1>5, <2>1 DEF Missing, SameTrace
      <4>2. QED
        BY <1>0, <3>1, <4>1 DEF MissingKept
    <3>6. QED
      BY <1>3, <2>1, <3>1, <3>3, <3>4, <3>5
  <2>2. CASE \E previous \in SameCall(record) : Close(previous, {"EventsConsumed", "Calls"})
    <3>1. PICK t \in SameCall(record) : Close(t, {"EventsConsumed", "Calls"})
      BY <2>2
    <3>2. t \in active /\ t \in 1..Len(traces) /\ SameCall(record) = {t}
      BY <1>2, <1>3
    <3>3. Close(t, IF 1 = 1 THEN {"EventsConsumed", "Calls"} ELSE {"EvictedOpenTraces"})
      BY <3>1
    <3>4. /\ done' \in Seq(1..Len(traces)) /\ Len(done') \in Nat /\ Len(done') <= MaxTraces
          /\ Added(1, 1, 0, 0, 0)
          /\ quality'["Calls"] = quality["Calls"] + 1
          /\ Len(done') + quality'["EvictedCompletedTraces"]
               = Len(done) + quality["EvictedCompletedTraces"] + 1
          /\ quality'["MissingContextTraces"]
               = quality["MissingContextTraces"] + IF traces[t].hasContext THEN 0 ELSE 1
      BY <1>0, <1>3, <3>2, <3>3, CloseEffect
    <3>5. Cardinality(active') = Cardinality(active)
      <4>1. /\ IsFiniteSet(active \ {t})
            /\ Cardinality(active \ {t}) = Cardinality(active) - 1
        BY <1>3, <3>2, FS_RemoveElement
      <4>2. active' = (active \ {t}) \cup {new} /\ new \notin active \ {t}
        BY <1>2, <1>3, <3>2
      <4>3. Cardinality(active') = Cardinality(active \ {t}) + 1
        BY <4>1, <4>2, FS_AddElement
      <4>4. QED
        BY <1>3, <4>1, <4>3
    <3>6. CallsKept'
      <4>1. quality["EvictedCompletedTraces"] \in Nat /\ quality'["EvictedCompletedTraces"] \in Nat
        BY <1>0, <3>4, CounterTypes DEF Added, Counters
      <4>2. quality["Calls"] = Cardinality(active) + Len(done) + quality["EvictedCompletedTraces"]
        BY <1>0 DEF CallsKept
      <4>3. quality'["Calls"]
              = Cardinality(active') + Len(done') + quality'["EvictedCompletedTraces"]
        <5>1. Len(done') \in Nat /\ Len(done) \in Nat /\ Cardinality(active) \in Nat
          BY <1>3, <3>4
        <5>2. /\ quality'["Calls"] = quality["Calls"] + 1
              /\ Len(done') + quality'["EvictedCompletedTraces"]
                   = Len(done) + quality["EvictedCompletedTraces"] + 1
          BY <3>4
        <5>3. (Cardinality(active) + Len(done) + quality["EvictedCompletedTraces"]) + 1
                = Cardinality(active) + (Len(done) + quality["EvictedCompletedTraces"] + 1)
          BY <4>1, <5>1
        <5>4. Cardinality(active) + (Len(done') + quality'["EvictedCompletedTraces"])
                = Cardinality(active) + Len(done') + quality'["EvictedCompletedTraces"]
          BY <4>1, <5>1
        <5>5. QED
          BY <3>5, <4>2, <5>2, <5>3, <5>4, Zenon
      <4>4. QED
        BY <4>3 DEF CallsKept
    <3>7. MissingKept'
      <4>1. Missing' = IF traces[t].hasContext THEN Missing ELSE Missing \cup {t}
        <5>1. t \in 1..Len(traces') /\ t \notin active'
          BY <1>2, <1>3, <3>2
        <5>2. \A u \in 1..Len(traces) : traces'[u].hasContext = traces[u].hasContext
          BY <1>2 DEF SameTrace
        <5>3. \A u \in 1..Len(traces) : u \in 1..Len(traces') /\ (u \notin active => u \notin active')
          BY <1>2, <1>3
        <5>4. QED
          BY <1>5, <3>2, <5>1, <5>2, <5>3 DEF Missing
      <4>2. QED
        BY <3>2, <3>4, <4>1, OneMissingMore
    <3>8. QED
      BY <1>3, <3>4, <3>5, <3>6, <3>7
  <2>3. QED
    BY <2>1, <2>2 DEF ConsumeCall
<1>7. RecordsKept'
  <2>1. Len(pending') = Len(pending) + (1 - 1)
    BY <1>0, <1>1, StateTypes
  <2>2. QED
    BY <1>6, <2>1, RecordsMove
<1>8. TypeOK'
  <2>1. pending' \in Seq(Marks)
    BY <1>0, <1>1, StateTypes
  <2>2. quality' \in [Counters -> Nat]
    BY <1>6 DEF Added
  <2>3. now' \in Times /\ stage' \in Stages /\ inOrder' \in BOOLEAN
    BY <1>1 DEF Plain, Stages
  <2>4. done' \in Seq(1..Len(traces'))
    <3>1. 1..Len(traces) \subseteq 1..Len(traces')
      BY <1>2, <1>3
    <3>2. QED
      BY <1>6, <3>1, SeqMonotonic
  <2>5. QED
    BY <1>2, <1>4, <2>1, <2>2, <2>3, <2>4 DEF TypeOK, Stages
<1>9. LimitInv' /\ WindowsOpen'
  BY <1>0, <1>1, <1>6 DEF LimitInv, WindowsOpen
<1>10. QED
  BY <1>2, <1>4, <1>6, <1>7, <1>8, <1>9 DEF IInv

LEMMA EvictOpenStep ==
  ASSUME IInv, EvictOpen
  PROVE  IInv'
<1>0. TypeOK /\ LimitInv /\ CallsKept /\ MissingKept /\ OneOpen
  BY DEF IInv
<1> DEFINE t == Min(active)
<1>1. /\ stage = "evict" /\ TooManyOpen /\ active' = active \ {t}
      /\ Close(t, {"EvictedOpenTraces"})
      /\ UNCHANGED <<traces, candidates, pending, stage, now, inOrder>>
  BY DEF EvictOpen
<1>2. /\ Len(traces) \in Nat /\ active \in SUBSET (1..Len(traces)) /\ IsFiniteSet(active)
      /\ Cardinality(active) \in Nat /\ Cardinality(active) <= MaxOpen + 1
      /\ Cardinality(active) > MaxOpen /\ MaxOpen \in Nat /\ Len(done) \in Nat
      /\ Len(done) <= MaxTraces
  BY <1>0, <1>1, StateTypes, Numbers DEF LimitInv, TooManyOpen
<1>3. active # {} /\ active \in SUBSET Nat
  BY <1>2, FS_EmptySet
<1>4. t \in active /\ t \in 1..Len(traces)
  BY <1>2, <1>3, MinIsLeast
<1> HIDE DEF t
<1>5. /\ done' \in Seq(1..Len(traces)) /\ Len(done') \in Nat /\ Len(done') <= MaxTraces
      /\ Added(0, 0, 0, 0, 0)
      /\ quality'["Calls"] = quality["Calls"] + 0
      /\ Len(done') + quality'["EvictedCompletedTraces"]
           = Len(done) + quality["EvictedCompletedTraces"] + 1
      /\ quality'["MissingContextTraces"]
           = quality["MissingContextTraces"] + IF traces[t].hasContext THEN 0 ELSE 1
  <2>1. Close(t, IF 0 = 1 THEN {"EventsConsumed", "Calls"} ELSE {"EvictedOpenTraces"})
    BY <1>1
  <2>2. QED
    BY <1>0, <1>2, <1>4, <2>1, CloseEffect
<1>6. Cardinality(active') = Cardinality(active) - 1
  BY <1>1, <1>2, <1>4, FS_RemoveElement
<1>7. CallsKept'
  <2>1. /\ quality["EvictedCompletedTraces"] \in Nat /\ quality'["EvictedCompletedTraces"] \in Nat
        /\ quality["Calls"] \in Nat
    BY <1>0, <1>5, CounterTypes DEF Added, Counters
  <2>2. quality["Calls"] = Cardinality(active) + Len(done) + quality["EvictedCompletedTraces"]
    BY <1>0 DEF CallsKept
  <2>3. quality'["Calls"] = Cardinality(active') + Len(done') + quality'["EvictedCompletedTraces"]
    <3>1. Len(done') \in Nat /\ Len(done) \in Nat /\ Cardinality(active) \in Nat
      BY <1>2, <1>5
    <3>2. /\ quality'["Calls"] = quality["Calls"] + 0
          /\ Len(done') + quality'["EvictedCompletedTraces"]
               = Len(done) + quality["EvictedCompletedTraces"] + 1
      BY <1>5
    <3>3. QED
      BY <1>6, <2>1, <2>2, <3>1, <3>2
  <2>4. QED
    BY <2>3 DEF CallsKept
<1>8. MissingKept'
  <2>1. Missing' = IF traces[t].hasContext THEN Missing ELSE Missing \cup {t}
    BY <1>1, <1>4 DEF Missing
  <2>2. QED
    BY <1>4, <1>5, <2>1, OneMissingMore
<1>9. RecordsKept'
  <2>1. Len(pending') = Len(pending) + (0 - 0)
    BY <1>0, <1>1, StateTypes
  <2>2. QED
    BY <1>5, <2>1, RecordsMove
<1>10. /\ JoinedInv' /\ OneOpen'
       /\ active' \subseteq 1..Len(traces')
  BY <1>0, <1>1, <1>2 DEF IInv, JoinedInv, OneOpen
<1>11. TypeOK'
  <2>1. quality' \in [Counters -> Nat]
    BY <1>5 DEF Added
  <2>2. QED
    BY <1>0, <1>1, <1>5, <1>10, <2>1 DEF TypeOK
<1>12. LimitInv' /\ WindowsOpen'
  <2>1. Cardinality(active') <= MaxOpen + 1
    BY <1>2, <1>6
  <2>2. QED
    BY <1>0, <1>1, <1>5, <2>1 DEF LimitInv, WindowsOpen
<1>13. QED
  BY <1>7, <1>8, <1>9, <1>10, <1>11, <1>12 DEF IInv

-------------------------------------------------------------------------------
(* Contexts that are decided. *)

(* What a context leaves of the error it joins: it says nothing the trace or *)
(* an earlier context denies, and fits no context that did not fit before.   *)
LEMMA MergedProperties ==
  ASSUME NEW e \in ErrorSpans, NEW context \in Marks, NEW ids,
         ErrorAgrees(ids, e), AnchorAgrees(e),
         \A f \in IdFields : context.ids[f] \in {Unknown, ids[f]},
         \A f \in IdFields : Agree(e.ids[f], context.ids[f]),
         Agree(e.anchor, context.anchor)
  PROVE  /\ Merged(e, context) \in ErrorSpans
         /\ Merged(e, context).at = e.at
         /\ Merged(e, context).joined = e.joined \cup {context}
         /\ ErrorAgrees(ids, Merged(e, context)) /\ AnchorAgrees(Merged(e, context))
         /\ \A c : Distance(Merged(e, context), c) = Distance(e, c)
         /\ \A t, c : Fits(t, Merged(e, context), c) => Fits(t, e, c)
<1> DEFINE n == Merged(e, context)
<1>1. /\ n.at = e.at /\ n.joined = e.joined \cup {context}
      /\ n.anchor = IF e.anchor = Unknown THEN context.anchor ELSE e.anchor
      /\ \A f \in IdFields : n.ids[f] = IF e.ids[f] = Unknown THEN context.ids[f] ELSE e.ids[f]
  BY DEF Merged
<1>2. n \in ErrorSpans
  <2>1. /\ context.ids \in Ids /\ context.anchor \in Anchors \cup {Unknown}
        /\ e.ids \in Ids /\ e.anchor \in Anchors \cup {Unknown} /\ e.at \in Times
        /\ e.joined \cup {context} \in SUBSET Marks
    BY DEF Marks, ErrorSpans
  <2>2. [f \in IdFields |-> IF e.ids[f] = Unknown THEN context.ids[f] ELSE e.ids[f]] \in Ids
    BY <2>1 DEF Ids
  <2>3. QED
    BY <2>1, <2>2 DEF Merged, ErrorSpans
<1> HIDE DEF n
<1>3. ErrorAgrees(ids, n)
  BY <1>1 DEF ErrorAgrees, Agree
<1>4. AnchorAgrees(n)
  BY <1>1 DEF AnchorAgrees, Agree
<1>5. \A c : Distance(n, c) = Distance(e, c)
  BY <1>1 DEF Distance
<1>6. \A t, c : Compatible(t, n, c) => Compatible(t, e, c)
  BY <1>1 DEF Compatible, Agree
<1>7. \A t, c : Fits(t, n, c) => Fits(t, e, c)
  BY <1>5, <1>6 DEF Fits
<1>8. QED
  BY <1>1, <1>2, <1>3, <1>4, <1>5, <1>7 DEF n

LEMMA FitsAgrees ==
  ASSUME NEW t, NEW e, NEW context, Fits(t, e, context)
  PROVE  /\ \A f \in IdFields : context.ids[f] \in {Unknown, traces[t].ids[f]}
         /\ \A f \in IdFields : Agree(e.ids[f], context.ids[f])
         /\ Agree(e.anchor, context.anchor)
  BY DEF Fits, Compatible, OptionalMatch

(* A decided context changes at most the one error nearest to it. *)
LEMMA ResolvedTraces ==
  ASSUME IInv, NEW context \in Marks, Resolve(context)
  PROVE  /\ traces' \in Seq(Traces) /\ Len(traces') = Len(traces)
         /\ \A u \in 1..Len(traces) :
              /\ SameTrace(u) /\ Len(traces'[u].errors) = Len(traces[u].errors)
              /\ \A j \in 1..Len(traces[u].errors) :
                   \/ traces'[u].errors[j] = traces[u].errors[j]
                   \/ /\ Nearest(context) = {<<u, j>>}
                      /\ Fits(u, traces[u].errors[j], context)
                      /\ traces'[u].errors[j] = Merged(traces[u].errors[j], context)
<1>0. TypeOK /\ JoinedInv
  BY DEF IInv
<1>1. CASE UNCHANGED traces
  BY <1>0, <1>1, StateTypes DEF SameTrace, SameCaller
<1>2. CASE \E c \in Nearest(context) :
             /\ Nearest(context) = {c}
             /\ traces' = [traces EXCEPT ![c[1]].errors[c[2]] = Merged(@, context)]
  <2>1. PICK c \in Nearest(context) :
               /\ Nearest(context) = {c}
               /\ traces' = [traces EXCEPT ![c[1]].errors[c[2]] = Merged(@, context)]
    BY <1>2
  <2>2. c \in ToSet(candidates) /\ Fits(c[1], ErrorOf(c), context)
    BY DEF Nearest
  <2> DEFINE t == c[1]
             i == c[2]
             e == traces[t].errors[i]
             n == Merged(e, context)
  <2>3. /\ t \in 1..Len(traces) /\ i \in 1..Len(traces[t].errors)
        /\ c = <<t, i>> /\ ErrorOf(c) = e /\ e \in ErrorSpans
    BY <1>0, <2>2, CandidateTypes DEF ErrorOf
  <2>4. traces' = [traces EXCEPT ![t].errors[i] = n]
    BY <2>1
  <2>5. Nearest(context) = {<<t, i>>} /\ Fits(t, e, context)
    BY <2>1, <2>2, <2>3
  <2> HIDE DEF t, i
  <2>6. ErrorAgrees(traces[t].ids, e) /\ AnchorAgrees(e)
    BY <1>0, <2>3 DEF JoinedInv
  <2>7. n \in ErrorSpans
    <3> HIDE DEF e
    <3>1. QED
      BY <2>3, <2>5, <2>6, FitsAgrees, MergedProperties
  <2> HIDE DEF n
  <2>8. /\ traces' \in Seq(Traces) /\ Len(traces') = Len(traces)
        /\ \A u \in 1..Len(traces) :
             /\ SameTrace(u) /\ Len(traces'[u].errors) = Len(traces[u].errors)
             /\ \A j \in 1..Len(traces[u].errors) :
                  traces'[u].errors[j] = IF u = t /\ j = i THEN n ELSE traces[u].errors[j]
    BY <1>0, <2>3, <2>4, <2>7, ErrorReplaced
  <2>9. ASSUME NEW u \in 1..Len(traces), NEW j \in 1..Len(traces[u].errors)
        PROVE  \/ traces'[u].errors[j] = traces[u].errors[j]
               \/ /\ Nearest(context) = {<<u, j>>}
                  /\ Fits(u, traces[u].errors[j], context)
                  /\ traces'[u].errors[j] = Merged(traces[u].errors[j], context)
    <3>1. CASE u = t /\ j = i
      <4>1. traces'[u].errors[j] = n
        BY <2>8, <3>1
      <4>2. QED
        BY <2>5, <3>1, <4>1 DEF n
    <3>2. CASE ~(u = t /\ j = i)
      BY <2>8, <3>2
    <3>3. QED
      BY <3>1, <3>2
  <2>10. QED
    BY <2>8, <2>9
<1>3. QED
  BY <1>1, <1>2 DEF Resolve

LEMMA ResolvedAgree ==
  ASSUME IInv, NEW context \in Marks, Resolve(context)
  PROVE  JoinedInv'
<1>0. TypeOK /\ JoinedInv
  BY DEF IInv
<1>1. ASSUME NEW u \in 1..Len(traces'), NEW j \in 1..Len(traces'[u].errors)
      PROVE  \/ /\ u \in 1..Len(traces) /\ j \in 1..Len(traces[u].errors)
                /\ SameCaller(u) /\ traces'[u].errors[j] = traces[u].errors[j]
             \/ /\ ErrorAgrees(traces'[u].ids, traces'[u].errors[j])
                /\ AnchorAgrees(traces'[u].errors[j])
  <2>1. /\ u \in 1..Len(traces) /\ j \in 1..Len(traces[u].errors) /\ SameCaller(u)
    BY ResolvedTraces DEF SameTrace
  <2>2. \/ traces'[u].errors[j] = traces[u].errors[j]
        \/ /\ Fits(u, traces[u].errors[j], context)
           /\ traces'[u].errors[j] = Merged(traces[u].errors[j], context)
    BY <2>1, ResolvedTraces
  <2>3. CASE /\ Fits(u, traces[u].errors[j], context)
             /\ traces'[u].errors[j] = Merged(traces[u].errors[j], context)
    <3> DEFINE e == traces[u].errors[j]
               ids == traces[u].ids
    <3>1. e \in ErrorSpans /\ ErrorAgrees(ids, e) /\ AnchorAgrees(e)
      BY <1>0, <2>1, TraceTypes DEF JoinedInv
    <3>2. /\ \A f \in IdFields : context.ids[f] \in {Unknown, ids[f]}
          /\ \A f \in IdFields : Agree(e.ids[f], context.ids[f])
          /\ Agree(e.anchor, context.anchor)
      BY <2>3, FitsAgrees
    <3> HIDE DEF e, ids
    <3>3. ErrorAgrees(ids, Merged(e, context)) /\ AnchorAgrees(Merged(e, context))
      BY <3>1, <3>2, MergedProperties
    <3>4. traces'[u].ids = ids /\ traces'[u].errors[j] = Merged(e, context)
      BY <2>1, <2>3 DEF SameCaller, e, ids
    <3>5. QED
      BY <3>3, <3>4
  <2>4. QED
    BY <2>1, <2>2, <2>3
<1>2. QED
  BY <1>1, JoinedStay

(* A decision, of an expired context or at the end of the input. *)
LEMMA DecidedSteps ==
  ASSUME IInv, NEW context \in Marks, Resolve(context), stage # "evict", stage # "prune",
         pending' \in Seq(Marks), Len(pending') = Len(pending) - 1,
         UNCHANGED <<active, done, candidates, stage, now, inOrder>>
  PROVE  IInv'
<1>0. TypeOK /\ LimitInv
  BY DEF IInv
<1>1. /\ traces' \in Seq(Traces) /\ Len(traces') = Len(traces)
      /\ \A u \in 1..Len(traces) :
           SameTrace(u) /\ Len(traces'[u].errors) = Len(traces[u].errors)
  BY ResolvedTraces
<1>2. PICK expired \in {0, 1} : Added(0, 1, 0, 1, expired)
  BY <1>0, DecidedEffect
<1>3. TracesUncounted
  BY <1>0, DecidedEffect
<1>4. /\ CallsKept' /\ MissingKept' /\ OneOpen'
      /\ active' \subseteq 1..Len(traces') /\ done' \in Seq(1..Len(traces'))
  <2>1. active' = active /\ done' = done
    OBVIOUS
  <2>2. QED
    BY <1>1, <1>3, <2>1, TracesLeft DEF SameTrace
<1>5. RecordsKept'
  <2>1. Len(pending') = Len(pending) + (0 - 1)
    BY <1>0, StateTypes
  <2>2. QED
    BY <1>2, <2>1, RecordsMove
<1>6. \A i \in 1..Len(candidates) :
        /\ candidates[i][1] \in 1..Len(traces')
        /\ candidates[i][2] \in 1..Len(traces'[candidates[i][1]].errors)
  <2>1. Len(traces') \in Nat /\ Len(traces) <= Len(traces')
    BY <1>0, <1>1, StateTypes
  <2>2. \A u \in 1..Len(traces) : Len(traces'[u].errors) \in Nat
                                  /\ Len(traces[u].errors) <= Len(traces'[u].errors)
    BY <1>0, <1>1, TraceTypes
  <2>3. QED
    BY <1>0, <2>1, <2>2, CandidatesStay
<1>7. TypeOK'
  <2>1. quality' \in [Counters -> Nat]
    BY <1>2 DEF Added
  <2>2. QED
    BY <1>0, <1>1, <1>4, <1>6, <2>1 DEF TypeOK
<1>8. LimitInv' /\ WindowsOpen'
  <2>1. Len(pending') <= MaxOpen
    BY <1>0, StateTypes, Numbers DEF LimitInv
  <2>2. QED
    BY <1>0, <2>1 DEF LimitInv, WindowsOpen
<1>9. JoinedInv'
  BY ResolvedAgree
<1>10. QED
  BY <1>4, <1>5, <1>7, <1>8, <1>9 DEF IInv

(* The context that is decided, and the queue it leaves. *)
LEMMA ResolveQueue ==
  ASSUME TypeOK, ResolveExpired \/ ResolveLeft
  PROVE  \E context \in Marks :
           /\ Resolve(context) /\ \E k \in 1..Len(pending) : context = pending[k]
           /\ stage = "resolve" => Over(context)
           /\ stage \in {"resolve", "result"}
           /\ pending' \in Seq(Marks) /\ Len(pending') = Len(pending) - 1
           /\ \A k \in 1..Len(pending') : \E j \in 1..Len(pending) : pending'[k] = pending[j]
           /\ \A k \in 1..Len(pending) : pending[k] # context => pending[k] \in ToSet(pending')
           /\ UNCHANGED <<active, done, candidates, stage, now, inOrder>>
<1>1. pending \in Seq(Marks) /\ Len(pending) \in Nat
  BY StateTypes
<1>2. CASE ResolveExpired
  <2> DEFINE i == Min(Expired)
  <2>1. /\ stage = "resolve" /\ Expired # {} /\ Resolve(pending[i])
        /\ pending' = RemoveAt(pending, i)
        /\ UNCHANGED <<active, done, candidates, stage, now, inOrder>>
    BY <1>2 DEF ResolveExpired
  <2>2. Expired \in SUBSET Nat /\ Expired \subseteq 1..Len(pending)
    BY DEF Expired
  <2>3. i \in Expired
    BY <2>1, <2>2, MinIsLeast
  <2>4. i \in 1..Len(pending) /\ Over(pending[i])
    BY <2>3 DEF Expired
  <2> HIDE DEF i
  <2>5. pending[i] \in Marks
    BY <1>1, <2>4, ElementOfSeq
  <2>6. /\ pending' \in Seq(Marks) /\ Len(pending') = Len(pending) - 1
        /\ \A k \in 1..(Len(pending) - 1) :
             pending'[k] = IF k < i THEN pending[k] ELSE pending[k + 1]
    BY <1>1, <2>1, <2>4, RemoveAtProperties
  <2>7. \A k \in 1..Len(pending') : \E j \in 1..Len(pending) : pending'[k] = pending[j]
    <3>1. \A k \in 1..(Len(pending) - 1) : k \in 1..Len(pending) /\ k + 1 \in 1..Len(pending)
      BY <1>1
    <3>2. QED
      BY <2>6, <3>1
  <2>8. ASSUME NEW k \in 1..Len(pending), pending[k] # pending[i]
        PROVE  pending[k] \in ToSet(pending')
    <3>1. DOMAIN pending' = 1..(Len(pending) - 1)
      BY <2>6, LenProperties
    <3>2. CASE k < i
      <4>1. k \in 1..(Len(pending) - 1)
        BY <1>1, <2>4, <3>2
      <4>2. pending'[k] = pending[k]
        BY <2>6, <3>2, <4>1
      <4>3. QED
        BY <3>1, <4>1, <4>2 DEF ToSet
    <3>3. CASE k > i
      <4>1. k - 1 \in 1..(Len(pending) - 1) /\ ~(k - 1 < i) /\ (k - 1) + 1 = k
        BY <1>1, <2>4, <3>3
      <4>2. pending'[k - 1] = pending[k]
        BY <2>6, <4>1
      <4>3. QED
        BY <3>1, <4>1, <4>2 DEF ToSet
    <3>4. k < i \/ k > i
      BY <1>1, <2>4, <2>8
    <3>5. QED
      BY <3>2, <3>3, <3>4
  <2>9. QED
    BY <2>1, <2>4, <2>5, <2>6, <2>7, <2>8
<1>3. CASE ResolveLeft
  <2>1. /\ stage = "result" /\ pending # <<>> /\ Resolve(Head(pending)) /\ pending' = Tail(pending)
        /\ UNCHANGED <<active, done, candidates, stage, now, inOrder>>
    BY <1>3 DEF ResolveLeft
  <2>2. /\ Head(pending) \in Marks /\ pending' \in Seq(Marks) /\ Len(pending') = Len(pending) - 1
        /\ \A k \in 1..Len(pending') : pending'[k] = pending[k + 1]
    BY <1>1, <2>1, HeadTailProperties
  <2>3. \A k \in 1..Len(pending') : k + 1 \in 1..Len(pending)
    BY <1>1, <2>2
  <2>4. ASSUME NEW k \in 1..Len(pending), pending[k] # Head(pending)
        PROVE  pending[k] \in ToSet(pending')
    <3>1. DOMAIN pending' = 1..Len(pending')
      BY <2>2, LenProperties
    <3>2. Head(pending) = pending[1]
      BY <1>1, <2>1
    <3>3. k # 1
      BY <2>4, <3>2
    <3>4. k - 1 \in 1..Len(pending') /\ (k - 1) + 1 = k
      BY <1>1, <2>2, <3>3
    <3>5. pending'[k - 1] = pending[k]
      BY <2>2, <3>4
    <3>6. QED
      BY <3>1, <3>4, <3>5 DEF ToSet
  <2>5. 1 \in 1..Len(pending) /\ Head(pending) = pending[1]
    BY <1>1, <2>1, <2>2, EmptySeq
  <2>6. QED
    BY <2>1, <2>2, <2>3, <2>4, <2>5
<1>4. QED
  BY <1>2, <1>3

LEMMA ResolveSteps ==
  ASSUME IInv, ResolveExpired \/ ResolveLeft
  PROVE  IInv'
<1>0. TypeOK
  BY DEF IInv
<1>1. PICK context \in Marks :
        /\ Resolve(context) /\ stage \in {"resolve", "result"}
        /\ pending' \in Seq(Marks) /\ Len(pending') = Len(pending) - 1
        /\ UNCHANGED <<active, done, candidates, stage, now, inOrder>>
  BY <1>0, ResolveQueue
<1>2. stage # "evict" /\ stage # "prune"
  BY <1>1
<1>3. QED
  BY <1>1, <1>2, DecidedSteps

-------------------------------------------------------------------------------
(* Pruning. *)

(* The loop as a function of how far it has come. *)
KeptAfter(f, i) ==
  IF i = 0 THEN <<>>
  ELSE IF Outdated(candidates[i]) THEN f[i - 1] ELSE Append(f[i - 1], candidates[i])

LEMMA LoopExists ==
  ASSUME NEW n \in Nat
  PROVE  \E f : f = [i \in 0..n |-> KeptAfter(f, i)]
<1> DEFINE S == {m \in Nat : \E f : f = [i \in 0..m |-> KeptAfter(f, i)]}
<1>1. 0 \in S
  <2> DEFINE f == [i \in 0..0 |-> <<>>]
  <2>1. \A i \in 0..0 : KeptAfter(f, i) = <<>>
    BY DEF KeptAfter
  <2>2. f = [i \in 0..0 |-> KeptAfter(f, i)]
    BY <2>1
  <2>3. QED
    BY <2>2
<1>2. ASSUME NEW m \in Nat, m \in S PROVE m + 1 \in S
  <2>1. PICK f : f = [i \in 0..m |-> KeptAfter(f, i)]
    BY <1>2
  <2> DEFINE g == [i \in 0..(m + 1) |-> IF i = m + 1 THEN KeptAfter(f, i) ELSE f[i]]
  <2>2. ASSUME NEW i \in 0..(m + 1) PROVE g[i] = KeptAfter(g, i)
    <3>1. CASE i = 0
      <4>1. 0 \in 0..(m + 1) /\ 0 # m + 1 /\ 0 \in 0..m
        OBVIOUS
      <4>2. g[i] = f[0] /\ f[0] = KeptAfter(f, 0)
        BY <2>1, <3>1, <4>1
      <4>3. QED
        BY <3>1, <4>2 DEF KeptAfter
    <3>2. CASE i # 0
      <4>1. i - 1 \in 0..(m + 1) /\ i - 1 # m + 1 /\ i - 1 \in 0..m
        BY <3>2
      <4>2. g[i - 1] = f[i - 1]
        BY <4>1
      <4>3. KeptAfter(g, i) = KeptAfter(f, i)
        <5> HIDE DEF g
        <5>1. QED
          BY <3>2, <4>2 DEF KeptAfter
      <4>4. g[i] = KeptAfter(f, i)
        <5>1. CASE i = m + 1
          BY <5>1
        <5>2. CASE i # m + 1
          <6>1. i \in 0..m
            BY <5>2
          <6>2. g[i] = f[i]
            BY <5>2
          <6>3. QED
            BY <2>1, <6>1, <6>2
        <5>3. QED
          BY <5>1, <5>2
      <4>5. QED
        BY <4>3, <4>4
    <3>3. QED
      BY <3>1, <3>2
  <2>3. g = [i \in 0..(m + 1) |-> g[i]]
    OBVIOUS
  <2> HIDE DEF g
  <2>4. g = [i \in 0..(m + 1) |-> KeptAfter(g, i)]
    BY <2>2, <2>3
  <2>5. QED
    BY <2>4
<1> HIDE DEF S
<1>3. Nat \subseteq S
  BY <1>1, <1>2, InductionOnSets
<1>4. QED
  BY <1>3 DEF S

LEMMA KeptIs ==
  ASSUME TypeOK, NEW i \in 0..Len(candidates)
  PROVE  Kept[i] = KeptAfter(Kept, i)
<1> DEFINE n == Len(candidates)
<1>1. n \in Nat
  BY StateTypes
<1>2. PICK f : f = [k \in 0..n |-> KeptAfter(f, k)]
  <2> HIDE DEF n
  <2>1. QED
    BY <1>1, LoopExists
<1>3. Kept = [k \in 0..n |-> KeptAfter(Kept, k)]
  BY <1>2, Zenon DEF Kept, KeptAfter
<1>4. QED
  BY <1>3

(* pruneErrorCandidates keeps exactly the errors that are not outdated. *)
LEMMA PrunedCandidates ==
  ASSUME TypeOK, PruneErrorCandidates
  PROVE  /\ candidates' \in Seq(Nat \X Nat) /\ Len(candidates') <= Len(candidates)
         /\ \A k \in 1..Len(candidates') : candidates'[k] \in ToSet(candidates)
         /\ \A c \in ToSet(candidates) : Outdated(c) \/ c \in ToSet(candidates')
<1> DEFINE n == Len(candidates)
           Pairs == Nat \X Nat
           Good(m) == /\ Kept[m] \in Seq(Pairs) /\ Len(Kept[m]) <= m
                      /\ \A k \in 1..Len(Kept[m]) : Kept[m][k] \in ToSet(candidates)
                      /\ \A k \in 1..m : Outdated(candidates[k]) \/ candidates[k] \in ToSet(Kept[m])
           S == {m \in Nat : m <= n => Good(m)}
<1>1. n \in Nat /\ candidates \in Seq(Pairs) /\ DOMAIN candidates = 1..n
  BY StateTypes, LenProperties
<1>2. 0 \in S
  <2>1. Kept[0] = <<>>
    BY <1>1, KeptIs DEF KeptAfter
  <2>2. Kept[0] \in Seq(Pairs) /\ Len(Kept[0]) = 0
    BY <2>1, EmptySeq
  <2>3. QED
    BY <2>2
<1>3. ASSUME NEW m \in Nat, m \in S PROVE m + 1 \in S
  <2> HIDE DEF Pairs
  <2>1. SUFFICES ASSUME m + 1 <= n PROVE Good(m + 1)
    OBVIOUS
  <2>2. /\ Kept[m] \in Seq(Pairs) /\ Len(Kept[m]) <= m
        /\ \A k \in 1..Len(Kept[m]) : Kept[m][k] \in ToSet(candidates)
        /\ \A k \in 1..m : Outdated(candidates[k]) \/ candidates[k] \in ToSet(Kept[m])
    BY <1>1, <1>3, <2>1
  <2> DEFINE c == candidates[m + 1]
             before == Kept[m]
             after == Kept[m + 1]
  <2>3. m + 1 \in 1..n /\ m + 1 \in 0..n /\ m + 1 # 0 /\ (m + 1) - 1 = m
    BY <1>1, <2>1
  <2>4. after = IF Outdated(c) THEN before ELSE Append(before, c)
    <3>1. Kept[m + 1] = KeptAfter(Kept, m + 1)
      BY <2>3, KeptIs
    <3>2. QED
      BY <2>3, <3>1 DEF KeptAfter
  <2>5. c \in Pairs /\ c \in ToSet(candidates)
    <3>1. c \in Pairs
      BY <1>1, <2>3, ElementOfSeq
    <3>2. QED
      BY <1>1, <2>3, <3>1 DEF ToSet
  <2>6. \A k \in 1..(m + 1) : k \in 1..m \/ k = m + 1
    OBVIOUS
  <2>7. Len(before) \in Nat /\ DOMAIN before = 1..Len(before)
    BY <2>2, LenProperties
  <2>8. CASE Outdated(c)
    <3>1. after = before
      BY <2>4, <2>8
    <3>2. QED
      BY <2>2, <2>6, <2>7, <2>8, <3>1
  <2>9. CASE ~Outdated(c)
    <3> HIDE DEF c, before, after
    <3>1. after = Append(before, c) /\ before \in Seq(Pairs)
      BY <2>2, <2>4, <2>9 DEF before
    <3>2. /\ after \in Seq(Pairs) /\ Len(after) = Len(before) + 1
          /\ \A k \in 1..Len(before) : after[k] = before[k]
          /\ after[Len(before) + 1] = c
      BY <2>5, <3>1, AppendProperties
    <3>3. \A k \in 1..Len(after) : k \in 1..Len(before) \/ k = Len(before) + 1
      BY <2>7, <3>2
    <3>4. \A k \in 1..Len(after) : after[k] \in ToSet(candidates)
      BY <2>2, <2>5, <3>2, <3>3 DEF before
    <3>5. Len(after) <= m + 1
      BY <2>2, <2>7, <3>2 DEF before
    <3>6. DOMAIN after = 1..(Len(before) + 1)
      BY <3>2, LenProperties
    <3>7. ToSet(before) \subseteq ToSet(after) /\ c \in ToSet(after)
      <4>1. Len(before) + 1 \in 1..(Len(before) + 1)
            /\ \A k \in 1..Len(before) : k \in 1..(Len(before) + 1)
        BY <2>7
      <4>2. QED
        BY <2>7, <3>2, <3>6, <4>1 DEF ToSet
    <3>8. \A k \in 1..(m + 1) : Outdated(candidates[k]) \/ candidates[k] \in ToSet(after)
      BY <2>2, <2>6, <3>7 DEF before, c
    <3>9. QED
      BY <3>2, <3>4, <3>5, <3>8 DEF after
  <2>10. QED
    BY <2>8, <2>9
<1>4. Good(n)
  <2> HIDE DEF Good
  <2>1. Nat \subseteq S
    <3> HIDE DEF S
    <3>1. QED
      BY <1>2, <1>3, InductionOnSets
  <2>2. QED
    BY <1>1, <2>1
<1>5. candidates' = Kept[n]
  BY DEF PruneErrorCandidates
<1>6. \A c \in ToSet(candidates) : \E k \in 1..n : c = candidates[k]
  BY <1>1 DEF ToSet
<1>7. QED
  BY <1>4, <1>5, <1>6

LEMMA PruneStep ==
  ASSUME IInv, PruneErrorCandidates
  PROVE  IInv'
<1>0. /\ TypeOK /\ RecordsKept /\ CallsKept /\ MissingKept /\ LimitInv /\ OneOpen /\ JoinedInv
  BY DEF IInv
<1>1. /\ stage = "prune" /\ stage' = "idle"
      /\ UNCHANGED <<traces, active, done, pending, quality, now, inOrder>>
  BY DEF PruneErrorCandidates
<1>2. /\ candidates' \in Seq(Nat \X Nat) /\ Len(candidates') <= Len(candidates)
      /\ \A k \in 1..Len(candidates') : candidates'[k] \in ToSet(candidates)
  BY <1>0, PrunedCandidates
<1>3. \A k \in 1..Len(candidates') :
        /\ candidates'[k][1] \in 1..Len(traces)
        /\ candidates'[k][2] \in 1..Len(traces[candidates'[k][1]].errors)
  BY <1>0, <1>2, CandidateTypes
<1>4. TypeOK'
  BY <1>0, <1>1, <1>2, <1>3 DEF TypeOK
<1>5. RecordsKept' /\ CallsKept' /\ MissingKept' /\ OneOpen' /\ JoinedInv'
  BY <1>0, <1>1 DEF RecordsKept, Placed, Decided, CallsKept, MissingKept, Missing, OneOpen, JoinedInv
<1>6. LimitInv' /\ WindowsOpen'
  <2>1. Len(candidates) \in Nat /\ Len(candidates') \in Nat /\ MaxOpen \in Nat
    BY <1>0, <1>2, StateTypes, LenProperties, Numbers
  <2>2. Len(candidates') <= MaxOpen
    BY <1>0, <1>2, <2>1 DEF LimitInv
  <2>3. QED
    BY <1>0, <1>1, <2>2 DEF LimitInv, WindowsOpen
<1>7. QED
  BY <1>4, <1>5, <1>6 DEF IInv

-------------------------------------------------------------------------------
LEMMA InitHasInv == Init => IInv
<1> SUFFICES ASSUME Init PROVE IInv
  OBVIOUS
<1>1. /\ traces = <<>> /\ active = {} /\ done = <<>> /\ candidates = <<>> /\ pending = <<>>
      /\ quality = [c \in Counters |-> 0] /\ stage = "idle" /\ now = 0 /\ inOrder = TRUE
  BY DEF Init
<1>2. /\ traces \in Seq(Traces) /\ Len(traces) = 0 /\ done \in Seq(1..Len(traces)) /\ Len(done) = 0
      /\ candidates \in Seq(Nat \X Nat) /\ Len(candidates) = 0
      /\ pending \in Seq(Marks) /\ Len(pending) = 0
  BY <1>1, EmptySeq
<1>3. TypeOK
  <2>1. quality \in [Counters -> Nat] /\ now \in Times
    BY <1>1, TraceAssumption DEF Times
  <2>2. QED
    BY <1>1, <1>2, <2>1 DEF TypeOK
<1>4. Cardinality(active) = 0 /\ Cardinality(Missing) = 0
  <2>1. Missing = {}
    BY <1>2 DEF Missing
  <2>2. QED
    BY <1>1, <2>1, FS_EmptySet
<1>5. \A c \in Counters : quality[c] = 0
  BY <1>1
<1>6. RecordsKept /\ CallsKept /\ MissingKept
  BY <1>2, <1>4, <1>5 DEF RecordsKept, Placed, Decided, CallsKept, MissingKept, Counters
<1>7. LimitInv
  BY <1>2, <1>4, Numbers DEF LimitInv
<1>8. OneOpen /\ WindowsOpen /\ JoinedInv
  BY <1>1, <1>2 DEF OneOpen, WindowsOpen, JoinedInv
<1>9. QED
  BY <1>3, <1>6, <1>7, <1>8 DEF IInv

LEMMA StepKeepsInv == IInv /\ [Next]_vars => IInv'
<1> SUFFICES ASSUME IInv, [Next]_vars PROVE IInv'
  OBVIOUS
<1>1. CASE \E record \in Plain : ConsumeCall(record)
  BY <1>1, ConsumeCallStep
<1>2. CASE \E record \in Plain : \/ ConsumeRelated(record) \/ ConsumeContext(record)
                                 \/ ConsumeVRS(record) \/ ConsumeOther(record)
  BY <1>2, ConsumePlacedSteps
<1>3. CASE \E record \in Marks : ConsumeError(record)
  BY <1>3, ConsumeErrorStep
<1>4. CASE \E record \in Marks : ConsumeErrorContext(record)
  BY <1>4, ConsumeErrorContextStep
<1>5. CASE EvictOpen
  BY <1>5, EvictOpenStep
<1>6. CASE ResolveExpired \/ ResolveLeft
  BY <1>6, ResolveSteps
<1>7. CASE PruneErrorCandidates
  BY <1>7, PruneStep
<1>8. CASE EvictOver \/ ResolveOver \/ ResultBegin \/ ResultOver \/ UNCHANGED vars
  BY <1>8, ControlSteps
<1>9. QED
  BY <1>1, <1>2, <1>3, <1>4, <1>5, <1>6, <1>7, <1>8 DEF Next

(* The invariant of the collector, in every step of every loop. *)
THEOREM Inductive == Spec => []IInv
  BY InitHasInv, StepKeepsInv, PTL DEF Spec

(* Consume and Result: every record, every error context, every call and    *)
(* every closed trace without a Context is counted in one place.            *)
THEOREM RecordsAreConserved == Spec => []Conserved
<1>1. IInv => Conserved
  BY DEF IInv, RecordsKept, Placed, Decided, CallsKept, MissingKept, Missing, Conserved
<1>2. QED
  BY <1>1, Inductive, PTL

(* evictOpenIfNeeded, appendDone, addErrorCandidate and addPendingErrorContext: *)
(* the four limits hold whenever a record is dealt with.                        *)
THEOREM LimitsAreKept == Spec => []LimitsKept
<1>1. IInv => LimitsKept
  BY DEF IInv, LimitInv, LimitsKept
<1>2. QED
  BY <1>1, Inductive, PTL

(* mergeMissingFields: the contexts joined to one error contradict neither  *)
(* it nor each other, although it may have named none of their fields.      *)
THEOREM JoinedContextsAgree == Spec => []JoinedAgree
<1>1. IInv => JoinedAgree
  BY DEF IInv, JoinedInv, ErrorAgrees, AnchorAgrees, JoinedAgree
<1>2. QED
  BY <1>1, Inductive, PTL

(* A context whose window is open cannot fit an error that is outdated. *)
LEMMA OutdatedFitsNoOpen ==
  ASSUME TypeOK, NEW c \in ToSet(candidates), Outdated(c),
         NEW context \in Marks, ~Over(context)
  PROVE  /\ ErrorOf(c).at < context.at - Window
         /\ ~Fits(c[1], ErrorOf(c), context)
<1>1. /\ ErrorOf(c).at \in Nat /\ context.at \in Nat /\ now \in Nat /\ Window \in Nat
  BY CandidateTypes, StateTypes, Numbers DEF Marks
<1>2. ErrorOf(c).at < now - 2 * Window /\ ~(context.at < now - Window)
  BY DEF Outdated, Over
<1> DEFINE at == ErrorOf(c).at
<1>3. at < context.at - Window
  <2> HIDE DEF at
  <2>1. at \in Nat /\ at < now - 2 * Window
    BY <1>1, <1>2 DEF at
  <2>2. QED
    BY <1>1, <1>2, <2>1
<1>4. Distance(ErrorOf(c), context) > Window
  BY <1>1, <1>3 DEF Distance
<1>5. QED
  BY <1>1, <1>3, <1>4, Numbers DEF Fits

(* pruneErrorCandidates never takes an error from a context that waits. *)
THEOREM PruningIsSafe == Spec => PruneIsSafe
<1>1. ASSUME IInv, PruneErrorCandidates, NEW c \in ToSet(candidates) \ ToSet(candidates'),
             NEW k \in 1..Len(pending)
      PROVE  ~Fits(c[1], ErrorOf(c), pending[k])
  <2>1. TypeOK /\ WindowsOpen /\ stage = "prune"
    BY <1>1 DEF IInv, PruneErrorCandidates
  <2>2. pending[k] \in Marks /\ ~Over(pending[k])
    BY <2>1, StateTypes, ElementOfSeq DEF WindowsOpen
  <2>3. c \in ToSet(candidates) /\ Outdated(c)
    BY <1>1, <2>1, PrunedCandidates
  <2>4. QED
    BY <2>1, <2>2, <2>3, OutdatedFitsNoOpen
<1>2. IInv => (PruneErrorCandidates =>
                 \A c \in ToSet(candidates) \ ToSet(candidates') :
                   \A k \in 1..Len(pending) : ~Fits(c[1], ErrorOf(c), pending[k]))
  BY <1>1
<1>3. QED
  BY <1>2, Inductive, PTL DEF PruneIsSafe

-------------------------------------------------------------------------------
(* In order.  An error that is no candidate any more lies before every open *)
(* window, those of the contexts still to come included; a context that was *)
(* joined had its window closed, so that no error still to come fits it.    *)

(* Fits, as a relation between a trace's identity, an error and a context. *)
FitsCaller(lane, ids, e, c) ==
  /\ c.lane \in Complete /\ lane = c.lane
  /\ \A f \in IdFields : c.ids[f] # Unknown => ids[f] = c.ids[f]
  /\ \A f \in IdFields : Agree(e.ids[f], c.ids[f])
  /\ Agree(e.anchor, c.anchor)
  /\ Distance(e, c) <= Window

LEMMA FitsIs ==
  \A t, e, c : Fits(t, e, c) <=> FitsCaller(traces[t].lane, traces[t].ids, e, c)
BY DEF Fits, Compatible, OptionalMatch, FitsCaller

Aside ==
  quality["DroppedErrorCandidates"] = 0 =>
    \A t \in 1..Len(traces) : \A i \in 1..Len(traces[t].errors) :
      <<t, i>> \notin ToSet(candidates) =>
        /\ traces[t].errors[i].at < now - 2 * Window
        /\ \A k \in 1..Len(pending) : traces[t].errors[i].at < pending[k].at - Window

JoinedOver ==
  stage \notin {"result", "finished"} =>
    \A t \in 1..Len(traces) : \A i \in 1..Len(traces[t].errors) :
      \A c \in traces[t].errors[i].joined : c.at < now - Window

NearestInv ==
  quality["DroppedErrorCandidates"] = 0 =>
    \A t, u \in 1..Len(traces) :
      \A i \in 1..Len(traces[t].errors), j \in 1..Len(traces[u].errors) :
        \A c \in traces[t].errors[i].joined :
          (t # u \/ i # j)
          /\ FitsCaller(traces[u].lane, traces[u].ids, traces[u].errors[j], c)
            => Distance(traces[t].errors[i], c) < Distance(traces[u].errors[j], c)

OInv == IInv /\ Aside /\ JoinedOver /\ NearestInv

(* A counter never goes back to zero. *)
LEMMA DroppedGrows ==
  ASSUME TypeOK, NEW S, Count(S), quality'["DroppedErrorCandidates"] = 0
  PROVE  quality["DroppedErrorCandidates"] = 0
<1>1. "DroppedErrorCandidates" \in Counters
  BY DEF Counters
<1>2. \/ quality'["DroppedErrorCandidates"] = quality["DroppedErrorCandidates"] + 1
      \/ quality'["DroppedErrorCandidates"] = quality["DroppedErrorCandidates"]
  BY <1>1 DEF Count
<1>3. QED
  BY <1>2, CounterTypes

LEMMA LongBefore ==
  ASSUME NEW earlier \in Nat, NEW later \in Nat, NEW window \in Nat, NEW at \in Nat,
         later >= earlier, at < earlier - 2 * window
  PROVE  at < later - 2 * window
  OBVIOUS

(* A step that leaves the errors and the candidates alone. *)
LEMMA OrderedFrame ==
  ASSUME OInv, IInv', now' >= now,
         quality'["DroppedErrorCandidates"] = 0 => quality["DroppedErrorCandidates"] = 0,
         candidates' = candidates,
         \A u \in 1..Len(traces) : SameCaller(u) /\ SameErrors(u),
         \A u \in 1..Len(traces') : u \notin 1..Len(traces) => Len(traces'[u].errors) = 0,
         \A k \in 1..Len(pending') :
           \/ \E j \in 1..Len(pending) : pending'[k] = pending[j]
           \/ pending'[k].at = now',
         stage \in {"result", "finished"} => stage' \in {"result", "finished"}
  PROVE  OInv'
<1>0. TypeOK /\ Aside /\ JoinedOver /\ NearestInv
  BY DEF OInv, IInv
<1>1. ASSUME NEW u \in 1..Len(traces'), NEW j \in 1..Len(traces'[u].errors)
      PROVE  /\ u \in 1..Len(traces) /\ j \in 1..Len(traces[u].errors)
             /\ traces'[u].lane = traces[u].lane /\ traces'[u].ids = traces[u].ids
             /\ traces'[u].errors[j] = traces[u].errors[j]
  <2>1. u \in 1..Len(traces)
    BY <1>1
  <2>2. QED
    BY <1>1, <2>1 DEF SameCaller, SameErrors
<1>2. now \in Nat /\ now' \in Nat /\ Window \in Nat
  <2>1. TypeOK'
    BY DEF IInv
  <2>2. now' \in Nat
    BY <2>1, Numbers DEF TypeOK
  <2>3. QED
    BY <1>0, <2>2, StateTypes, Numbers
<1>3. Aside'
  <2>1. ASSUME quality'["DroppedErrorCandidates"] = 0,
               NEW t \in 1..Len(traces'), NEW i \in 1..Len(traces'[t].errors),
               <<t, i>> \notin ToSet(candidates')
        PROVE  /\ traces'[t].errors[i].at < now' - 2 * Window
               /\ \A k \in 1..Len(pending') : traces'[t].errors[i].at < pending'[k].at - Window
    <3> DEFINE at == traces[t].errors[i].at
    <3>1. t \in 1..Len(traces) /\ i \in 1..Len(traces[t].errors) /\ traces'[t].errors[i].at = at
      BY <1>1, <2>1
    <3>2. /\ at < now - 2 * Window
          /\ \A k \in 1..Len(pending) : at < pending[k].at - Window
      BY <1>0, <2>1, <3>1 DEF Aside
    <3>3. at \in Nat
      BY <1>0, <3>1, TraceTypes
    <3> HIDE DEF at
    <3>4. at < now' - 2 * Window /\ at < now' - Window
      BY <1>2, <3>2, <3>3
    <3>5. \A k \in 1..Len(pending') : at < pending'[k].at - Window
      BY <3>2, <3>4
    <3>6. QED
      BY <3>1, <3>4, <3>5
  <2>2. QED
    BY <2>1 DEF Aside
<1>4. JoinedOver'
  <2>1. ASSUME stage' \notin {"result", "finished"},
               NEW t \in 1..Len(traces'), NEW i \in 1..Len(traces'[t].errors),
               NEW c \in traces'[t].errors[i].joined
        PROVE  c.at < now' - Window
    <3>1. /\ t \in 1..Len(traces) /\ i \in 1..Len(traces[t].errors)
          /\ c \in traces[t].errors[i].joined
      BY <1>1, <2>1
    <3>2. c.at < now - Window /\ c.at \in Nat
      BY <1>0, <2>1, <3>1, TraceTypes DEF JoinedOver
    <3>3. QED
      BY <1>2, <3>2
  <2>2. QED
    BY <2>1 DEF JoinedOver
<1>5. NearestInv'
  <2>1. ASSUME quality'["DroppedErrorCandidates"] = 0,
               NEW t \in 1..Len(traces'), NEW u \in 1..Len(traces'),
               NEW i \in 1..Len(traces'[t].errors), NEW j \in 1..Len(traces'[u].errors),
               NEW c \in traces'[t].errors[i].joined, t # u \/ i # j,
               FitsCaller(traces'[u].lane, traces'[u].ids, traces'[u].errors[j], c)
        PROVE  Distance(traces'[t].errors[i], c) < Distance(traces'[u].errors[j], c)
    <3>1. /\ t \in 1..Len(traces) /\ i \in 1..Len(traces[t].errors)
          /\ traces'[t].errors[i] = traces[t].errors[i]
      BY <1>1
    <3>2. /\ u \in 1..Len(traces) /\ j \in 1..Len(traces[u].errors)
          /\ traces'[u].lane = traces[u].lane /\ traces'[u].ids = traces[u].ids
          /\ traces'[u].errors[j] = traces[u].errors[j]
      BY <1>1
    <3>3. QED
      BY <1>0, <2>1, <3>1, <3>2 DEF NearestInv
  <2>2. QED
    BY <2>1 DEF NearestInv
<1>6. QED
  BY <1>3, <1>4, <1>5 DEF OInv

(* Where nothing fits there is no nearest one, and only there. *)
LEMMA NearestExists ==
  ASSUME TypeOK, NEW context \in Marks, Nearest(context) = {}, NEW c \in ToSet(candidates)
  PROVE  ~Fits(c[1], ErrorOf(c), context)
<1> DEFINE fitting == {d \in ToSet(candidates) : Fits(d[1], ErrorOf(d), context)}
           S == {Distance(ErrorOf(d), context) : d \in fitting}
<1>1. \A d \in fitting : Distance(ErrorOf(d), context) \in Nat
  <2>1. context.at \in Nat
    BY Numbers DEF Marks
  <2>2. \A d \in fitting : ErrorOf(d).at \in Nat
    BY CandidateTypes
  <2>3. QED
    BY <2>1, <2>2, Numbers
<1>2. SUFFICES ASSUME fitting # {} PROVE FALSE
  OBVIOUS
<1>3. S \in SUBSET Nat /\ S # {}
  <2> HIDE DEF fitting
  <2>1. QED
    BY <1>1, <1>2
<1>4. PICK m \in S : \A k \in S : m <= k
  <2> HIDE DEF S
  <2>1. QED
    BY <1>3, MinimumExists
<1>5. PICK d \in fitting : m = Distance(ErrorOf(d), context)
  BY <1>4
<1>6. \A e \in fitting : Distance(ErrorOf(d), context) <= Distance(ErrorOf(e), context)
  BY <1>4, <1>5
<1>7. d \in Nearest(context)
  BY <1>6 DEF Nearest
<1>8. QED
  BY <1>7

(* An error that is aside fits no context that waits. *)
LEMMA AsideFitsNone ==
  ASSUME TypeOK, Aside, quality["DroppedErrorCandidates"] = 0,
         NEW t \in 1..Len(traces), NEW i \in 1..Len(traces[t].errors),
         <<t, i>> \notin ToSet(candidates), NEW k \in 1..Len(pending)
  PROVE  Distance(traces[t].errors[i], pending[k]) > Window
<1> DEFINE e == traces[t].errors[i]
<1>1. e.at < pending[k].at - Window
  BY DEF Aside
<1>2. pending[k] \in Marks
  BY StateTypes, ElementOfSeq
<1>3. e.at \in Nat /\ pending[k].at \in Nat /\ Window \in Nat
  BY <1>2, TraceTypes, Numbers DEF Marks
<1> HIDE DEF e
<1>4. Distance(e, pending[k]) > Window
  BY <1>1, <1>3 DEF Distance
<1>5. QED
  BY <1>4 DEF e

(* The one nearest candidate is nearer than every other error of the input. *)
LEMMA NearestOfAll ==
  ASSUME TypeOK, Aside, quality["DroppedErrorCandidates"] = 0,
         NEW k \in 1..Len(pending), NEW t, NEW i, Nearest(pending[k]) = {<<t, i>>},
         NEW u \in 1..Len(traces), NEW j \in 1..Len(traces[u].errors), t # u \/ i # j,
         Fits(u, traces[u].errors[j], pending[k])
  PROVE  Distance(traces[t].errors[i], pending[k]) < Distance(traces[u].errors[j], pending[k])
<1> DEFINE context == pending[k]
           fitting == {d \in ToSet(candidates) : Fits(d[1], ErrorOf(d), context)}
           far(d) == Distance(ErrorOf(d), context)
           best == <<t, i>>
           other == <<u, j>>
<1>1. context \in Marks
  BY StateTypes, ElementOfSeq
<1>2. \A d \in fitting : far(d) \in Nat
  <2>1. context.at \in Nat
    BY <1>1, Numbers DEF Marks
  <2>2. \A d \in fitting : ErrorOf(d).at \in Nat
    BY CandidateTypes
  <2>3. QED
    BY <2>1, <2>2, Numbers
<1>3. /\ ErrorOf(best) = traces[t].errors[i] /\ ErrorOf(other) = traces[u].errors[j]
      /\ other[1] = u /\ other[2] = j /\ best # other
  BY DEF ErrorOf
<1>4. other \in ToSet(candidates)
  <2>1. Distance(traces[u].errors[j], pending[k]) <= Window
    BY DEF Fits
  <2>2. SUFFICES ASSUME <<u, j>> \notin ToSet(candidates) PROVE FALSE
    OBVIOUS
  <2>3. Distance(traces[u].errors[j], pending[k]) > Window
    BY <2>2, AsideFitsNone
  <2>4. Distance(traces[u].errors[j], pending[k]) \in Nat /\ Window \in Nat
    <3>1. traces[u].errors[j].at \in Nat /\ pending[k].at \in Nat
      BY <1>1, TraceTypes, Numbers DEF Marks
    <3>2. QED
      BY <3>1, Numbers
  <2>5. QED
    BY <2>1, <2>3, <2>4
<1>5. other \in fitting
  BY <1>3, <1>4
<1>6. best \in fitting /\ \A d \in fitting : far(best) <= far(d)
  <2>1. best \in Nearest(context)
    OBVIOUS
  <2>2. QED
    BY <2>1 DEF Nearest
<1>7. other \notin Nearest(context)
  BY <1>3
<1>8. PICK d \in fitting : ~(far(other) <= far(d))
  BY <1>5, <1>7 DEF Nearest
<1>9. far(best) <= far(d) /\ far(best) \in Nat /\ far(d) \in Nat /\ far(other) \in Nat
  BY <1>2, <1>5, <1>6
<1>10. far(best) < far(other)
  <2> HIDE DEF far
  <2>1. QED
    BY <1>8, <1>9
<1>11. QED
  BY <1>3, <1>10

(* A decision keeps the promise for what was joined before, and makes it for *)
(* what it joins now.                                                        *)
LEMMA OrderedResolve ==
  ASSUME OInv, IInv', ResolveExpired \/ ResolveLeft
  PROVE  OInv'
<1>0. IInv /\ TypeOK /\ JoinedInv /\ Aside /\ JoinedOver /\ NearestInv
  BY DEF OInv, IInv
<1>1. PICK context \in Marks :
        /\ Resolve(context) /\ \E k \in 1..Len(pending) : context = pending[k]
        /\ stage = "resolve" => Over(context)
        /\ stage \in {"resolve", "result"}
        /\ \A k \in 1..Len(pending') : \E j \in 1..Len(pending) : pending'[k] = pending[j]
        /\ UNCHANGED <<active, done, candidates, stage, now, inOrder>>
  BY <1>0, ResolveQueue
<1>2. PICK p \in 1..Len(pending) : context = pending[p]
  BY <1>1
<1>3. quality'["DroppedErrorCandidates"] = quality["DroppedErrorCandidates"]
  BY <1>0, <1>1, DecidedEffect
<1>4. /\ Len(traces') = Len(traces)
      /\ \A u \in 1..Len(traces) :
           /\ SameTrace(u) /\ Len(traces'[u].errors) = Len(traces[u].errors)
           /\ \A j \in 1..Len(traces[u].errors) :
                \/ traces'[u].errors[j] = traces[u].errors[j]
                \/ /\ Nearest(context) = {<<u, j>>}
                   /\ Fits(u, traces[u].errors[j], context)
                   /\ traces'[u].errors[j] = Merged(traces[u].errors[j], context)
  BY <1>0, <1>1, ResolvedTraces
<1>5. ASSUME NEW u \in 1..Len(traces'), NEW j \in 1..Len(traces'[u].errors)
      PROVE  /\ u \in 1..Len(traces) /\ j \in 1..Len(traces[u].errors)
             /\ traces'[u].lane = traces[u].lane /\ traces'[u].ids = traces[u].ids
             /\ traces'[u].errors[j].at = traces[u].errors[j].at
             /\ \A c : Distance(traces'[u].errors[j], c) = Distance(traces[u].errors[j], c)
             /\ \A c : FitsCaller(traces'[u].lane, traces'[u].ids, traces'[u].errors[j], c)
                         => Fits(u, traces[u].errors[j], c)
             /\ \A c \in traces'[u].errors[j].joined :
                  \/ c \in traces[u].errors[j].joined
                  \/ c = context /\ Nearest(context) = {<<u, j>>}
  <2> DEFINE e == traces[u].errors[j]
             n == traces'[u].errors[j]
  <2>1. /\ u \in 1..Len(traces) /\ j \in 1..Len(traces[u].errors)
        /\ traces'[u].lane = traces[u].lane /\ traces'[u].ids = traces[u].ids
    BY <1>4, <1>5 DEF SameTrace, SameCaller
  <2>2. \/ n = e
        \/ Nearest(context) = {<<u, j>>} /\ Fits(u, e, context) /\ n = Merged(e, context)
    BY <1>4, <2>1
  <2>3. e \in ErrorSpans /\ ErrorAgrees(traces[u].ids, e) /\ AnchorAgrees(e)
    BY <1>0, <2>1, TraceTypes DEF JoinedInv
  <2> HIDE DEF e, n
  <2>4. /\ n.at = e.at /\ \A c : Distance(n, c) = Distance(e, c)
        /\ \A c : Fits(u, n, c) => Fits(u, e, c)
        /\ \/ n.joined = e.joined
           \/ n.joined = e.joined \cup {context} /\ Nearest(context) = {<<u, j>>}
    <3>1. CASE n = e
      BY <3>1
    <3>2. CASE Nearest(context) = {<<u, j>>} /\ Fits(u, e, context) /\ n = Merged(e, context)
      <4>1. /\ \A f \in IdFields : context.ids[f] \in {Unknown, traces[u].ids[f]}
            /\ \A f \in IdFields : Agree(e.ids[f], context.ids[f])
            /\ Agree(e.anchor, context.anchor)
        BY <3>2, FitsAgrees
      <4>2. /\ Merged(e, context).at = e.at
            /\ Merged(e, context).joined = e.joined \cup {context}
            /\ \A c : Distance(Merged(e, context), c) = Distance(e, c)
            /\ \A t, c : Fits(t, Merged(e, context), c) => Fits(t, e, c)
        BY <2>3, <4>1, MergedProperties
      <4>3. QED
        BY <3>2, <4>2
    <3>3. QED
      BY <2>2, <3>1, <3>2
  <2>5. \A c : FitsCaller(traces'[u].lane, traces'[u].ids, n, c) => Fits(u, e, c)
    BY <2>1, <2>4, FitsIs
  <2>6. QED
    BY <2>1, <2>4, <2>5 DEF e, n
<1>6. Aside'
  <2>1. ASSUME quality'["DroppedErrorCandidates"] = 0,
               NEW t \in 1..Len(traces'), NEW i \in 1..Len(traces'[t].errors),
               <<t, i>> \notin ToSet(candidates')
        PROVE  /\ traces'[t].errors[i].at < now' - 2 * Window
               /\ \A k \in 1..Len(pending') : traces'[t].errors[i].at < pending'[k].at - Window
    <3>1. /\ t \in 1..Len(traces) /\ i \in 1..Len(traces[t].errors)
          /\ traces'[t].errors[i].at = traces[t].errors[i].at
      BY <1>5
    <3>2. <<t, i>> \notin ToSet(candidates) /\ quality["DroppedErrorCandidates"] = 0
      BY <1>1, <1>3, <2>1
    <3>3. /\ traces[t].errors[i].at < now - 2 * Window
          /\ \A k \in 1..Len(pending) : traces[t].errors[i].at < pending[k].at - Window
      BY <1>0, <3>1, <3>2 DEF Aside
    <3>4. QED
      BY <1>1, <3>1, <3>3
  <2>2. QED
    BY <2>1 DEF Aside
<1>7. JoinedOver'
  <2>1. ASSUME stage' \notin {"result", "finished"},
               NEW t \in 1..Len(traces'), NEW i \in 1..Len(traces'[t].errors),
               NEW c \in traces'[t].errors[i].joined
        PROVE  c.at < now' - Window
    <3>1. /\ t \in 1..Len(traces) /\ i \in 1..Len(traces[t].errors)
          /\ c \in traces[t].errors[i].joined \/ c = context
      BY <1>5
    <3>2. stage = "resolve" /\ now' = now
      BY <1>1, <2>1
    <3>3. CASE c \in traces[t].errors[i].joined
      BY <1>0, <3>1, <3>2, <3>3 DEF JoinedOver
    <3>4. CASE c = context
      BY <1>1, <3>2, <3>4 DEF Over
    <3>5. QED
      BY <3>1, <3>3, <3>4
  <2>2. QED
    BY <2>1 DEF JoinedOver
<1>8. NearestInv'
  <2>1. ASSUME quality'["DroppedErrorCandidates"] = 0,
               NEW t \in 1..Len(traces'), NEW u \in 1..Len(traces'),
               NEW i \in 1..Len(traces'[t].errors), NEW j \in 1..Len(traces'[u].errors),
               NEW c \in traces'[t].errors[i].joined, t # u \/ i # j,
               FitsCaller(traces'[u].lane, traces'[u].ids, traces'[u].errors[j], c)
        PROVE  Distance(traces'[t].errors[i], c) < Distance(traces'[u].errors[j], c)
    <3>1. /\ t \in 1..Len(traces) /\ i \in 1..Len(traces[t].errors)
          /\ Distance(traces'[t].errors[i], c) = Distance(traces[t].errors[i], c)
          /\ \/ c \in traces[t].errors[i].joined
             \/ c = context /\ Nearest(context) = {<<t, i>>}
      BY <1>5
    <3>2. /\ u \in 1..Len(traces) /\ j \in 1..Len(traces[u].errors)
          /\ Distance(traces'[u].errors[j], c) = Distance(traces[u].errors[j], c)
          /\ Fits(u, traces[u].errors[j], c)
      BY <1>5, <2>1
    <3>3. quality["DroppedErrorCandidates"] = 0
      BY <1>3, <2>1
    <3>4. CASE c \in traces[t].errors[i].joined
      <4>1. FitsCaller(traces[u].lane, traces[u].ids, traces[u].errors[j], c)
        BY <3>2, FitsIs
      <4>2. Distance(traces[t].errors[i], c) < Distance(traces[u].errors[j], c)
        BY <1>0, <2>1, <3>1, <3>2, <3>3, <3>4, <4>1 DEF NearestInv
      <4>3. QED
        BY <3>1, <3>2, <4>2
    <3>5. CASE c = context /\ Nearest(context) = {<<t, i>>}
      <4>1. Nearest(pending[p]) = {<<t, i>>} /\ Fits(u, traces[u].errors[j], pending[p])
        BY <1>2, <3>2, <3>5
      <4>2. Distance(traces[t].errors[i], pending[p]) < Distance(traces[u].errors[j], pending[p])
        BY <1>0, <2>1, <3>2, <3>3, <4>1, NearestOfAll
      <4>3. QED
        BY <1>2, <3>1, <3>2, <3>5, <4>2
    <3>6. QED
      BY <3>1, <3>4, <3>5
  <2>2. QED
    BY <2>1 DEF NearestInv
<1>9. QED
  BY <1>6, <1>7, <1>8 DEF OInv

(* Pruning sets only errors aside that no open window reaches. *)
LEMMA OrderedPrune ==
  ASSUME OInv, IInv', PruneErrorCandidates
  PROVE  OInv'
<1>0. TypeOK /\ WindowsOpen /\ Aside /\ JoinedOver /\ NearestInv
  BY DEF OInv, IInv
<1>1. /\ stage = "prune" /\ stage' = "idle"
      /\ UNCHANGED <<traces, active, done, pending, quality, now, inOrder>>
  BY DEF PruneErrorCandidates
<1>2. Aside'
  <2>1. ASSUME quality["DroppedErrorCandidates"] = 0,
               NEW t \in 1..Len(traces), NEW i \in 1..Len(traces[t].errors),
               <<t, i>> \notin ToSet(candidates')
        PROVE  /\ traces[t].errors[i].at < now - 2 * Window
               /\ \A k \in 1..Len(pending) : traces[t].errors[i].at < pending[k].at - Window
    <3>1. CASE <<t, i>> \notin ToSet(candidates)
      BY <1>0, <2>1, <3>1 DEF Aside
    <3>2. CASE <<t, i>> \in ToSet(candidates)
      <4> DEFINE c == <<t, i>>
      <4>1. ErrorOf(c) = traces[t].errors[i]
        BY DEF ErrorOf
      <4>2. Outdated(c)
        BY <1>0, <2>1, <3>2, PrunedCandidates
      <4>3. traces[t].errors[i].at < now - 2 * Window
        BY <4>1, <4>2 DEF Outdated
      <4>4. ASSUME NEW k \in 1..Len(pending)
            PROVE  traces[t].errors[i].at < pending[k].at - Window
        <5>1. pending[k] \in Marks /\ ~Over(pending[k])
          BY <1>0, <1>1, StateTypes, ElementOfSeq DEF WindowsOpen
        <5>2. ErrorOf(c).at < pending[k].at - Window
          BY <1>0, <3>2, <4>2, <5>1, OutdatedFitsNoOpen
        <5>3. QED
          BY <4>1, <5>2
      <4>5. QED
        BY <4>3, <4>4
    <3>3. QED
      BY <3>1, <3>2
  <2>2. QED
    BY <1>1, <2>1 DEF Aside
<1>3. JoinedOver'
  <2>1. stage \notin {"result", "finished"}
    BY <1>1
  <2>2. \A t \in 1..Len(traces) : \A i \in 1..Len(traces[t].errors) :
          \A c \in traces[t].errors[i].joined : c.at < now - Window
    BY <1>0, <2>1 DEF JoinedOver
  <2>3. traces' = traces /\ now' = now
    BY <1>1
  <2>4. QED
    BY <2>2, <2>3, Zenon DEF JoinedOver
<1>4. NearestInv'
  <2> DEFINE Near(list, dropped) ==
               dropped = 0 =>
                 \A t, u \in 1..Len(list) :
                   \A i \in 1..Len(list[t].errors), j \in 1..Len(list[u].errors) :
                     \A c \in list[t].errors[i].joined :
                       (t # u \/ i # j) /\ FitsCaller(list[u].lane, list[u].ids, list[u].errors[j], c)
                         => Distance(list[t].errors[i], c) < Distance(list[u].errors[j], c)
  <2>1. Near(traces, quality["DroppedErrorCandidates"])
    BY <1>0, Zenon DEF NearestInv
  <2>2. NearestInv' <=> Near(traces', quality'["DroppedErrorCandidates"])
    BY Zenon DEF NearestInv
  <2>3. traces' = traces /\ quality' = quality
    BY <1>1
  <2> HIDE DEF Near
  <2>4. QED
    BY <2>1, <2>2, <2>3
<1>5. QED
  BY <1>2, <1>3, <1>4 DEF OInv

(* A new error is a candidate, and too late for every context that was joined. *)
LEMMA OrderedError ==
  ASSUME OInv, IInv', NEW record \in Marks, ConsumeError(record), Matching(record) # {},
         now' >= now
  PROVE  OInv'
<1>0. IInv /\ TypeOK /\ LimitInv /\ Aside /\ JoinedOver /\ NearestInv
  BY DEF OInv, IInv
<1> DEFINE t0 == Max(Matching(record))
           e0 == Error(record)
           i0 == Len(traces[t0].errors) + 1
<1>1. /\ t0 \in 1..Len(traces)
      /\ traces' = [traces EXCEPT ![t0].errors = Append(@, e0)]
      /\ Len(candidates) # MaxOpen =>
           <<t0, i0>> \in ToSet(candidates') /\ ToSet(candidates) \subseteq ToSet(candidates')
  BY <1>0, MatchedErrorEffect DEF NewCandidate
<1>2. /\ stage = "idle" /\ stage' = "resolve" /\ now' = record.at /\ pending' = pending
  BY DEF ConsumeError, Begin
<1>3. e0 \in ErrorSpans /\ e0.at = now' /\ e0.joined = {}
  BY <1>2, ErrorTypes
<1>4. quality'["DroppedErrorCandidates"] = 0 =>
        quality["DroppedErrorCandidates"] = 0 /\ Len(candidates) # MaxOpen
  <2>1. quality'["DroppedErrorCandidates"] = quality["DroppedErrorCandidates"]
          + IF Len(candidates) = MaxOpen THEN 1 ELSE 0
    BY <1>0, ErrorCounted
  <2>2. quality["DroppedErrorCandidates"] \in Nat
    BY <1>0, CounterTypes
  <2>3. QED
    BY <2>1, <2>2
<1> HIDE DEF t0, e0
<1>5. Len(traces[t0].errors) \in Nat
  BY <1>0, <1>1, TraceTypes
<1>6. /\ Len(traces') = Len(traces)
      /\ \A u \in 1..Len(traces) : SameTrace(u) /\ (u # t0 => SameErrors(u))
      /\ Len(traces'[t0].errors) = i0
      /\ \A j \in 1..Len(traces[t0].errors) : traces'[t0].errors[j] = traces[t0].errors[j]
      /\ traces'[t0].errors[i0] = e0
  BY <1>0, <1>1, <1>3, ErrorAppended
<1> HIDE DEF i0
<1>7. ASSUME NEW u \in 1..Len(traces'), NEW j \in 1..Len(traces'[u].errors)
      PROVE  /\ u \in 1..Len(traces)
             /\ traces'[u].lane = traces[u].lane /\ traces'[u].ids = traces[u].ids
             /\ \/ /\ j \in 1..Len(traces[u].errors)
                   /\ traces'[u].errors[j] = traces[u].errors[j]
                \/ u = t0 /\ j = i0 /\ traces'[u].errors[j] = e0
  <2>1. u \in 1..Len(traces) /\ SameTrace(u)
    BY <1>6
  <2>2. CASE u # t0
    BY <1>6, <2>1, <2>2 DEF SameErrors, SameTrace, SameCaller
  <2>3. CASE u = t0
    <3>1. j \in 1..Len(traces[t0].errors) \/ j = i0
      BY <1>5, <1>6, <2>3 DEF i0
    <3>2. QED
      BY <1>6, <2>1, <2>3, <3>1 DEF SameTrace, SameCaller
  <2>4. QED
    BY <2>2, <2>3
<1>8. now \in Nat /\ now' \in Nat /\ Window \in Nat
  <2>1. now' \in Nat
    BY <1>2, Numbers DEF Marks
  <2>2. QED
    BY <1>0, <2>1, StateTypes, Numbers
<1>9. Aside'
  <2>1. ASSUME quality'["DroppedErrorCandidates"] = 0,
               NEW t \in 1..Len(traces'), NEW i \in 1..Len(traces'[t].errors),
               <<t, i>> \notin ToSet(candidates')
        PROVE  /\ traces'[t].errors[i].at < now' - 2 * Window
               /\ \A k \in 1..Len(pending') : traces'[t].errors[i].at < pending'[k].at - Window
    <3>1. quality["DroppedErrorCandidates"] = 0 /\ Len(candidates) # MaxOpen
      BY <1>4, <2>1
    <3>2. <<t, i>> \notin ToSet(candidates) /\ ~(t = t0 /\ i = i0)
      BY <1>1, <2>1, <3>1
    <3> DEFINE at == traces[t].errors[i].at
    <3>3. t \in 1..Len(traces) /\ i \in 1..Len(traces[t].errors) /\ traces'[t].errors[i].at = at
      BY <1>7, <3>2
    <3>4. /\ at < now - 2 * Window
          /\ \A k \in 1..Len(pending) : at < pending[k].at - Window
      BY <1>0, <3>1, <3>2, <3>3 DEF Aside
    <3>5. at \in Nat
      BY <1>0, <3>3, TraceTypes
    <3> HIDE DEF at
    <3>6. at < now' - 2 * Window
      <4>1. at < now - 2 * Window
        BY <3>4
      <4>2. QED
        BY <1>8, <3>5, <4>1, LongBefore
    <3>7. QED
      BY <1>2, <3>3, <3>4, <3>6
  <2>2. QED
    BY <2>1 DEF Aside
<1>10. ASSUME NEW t \in 1..Len(traces'), NEW i \in 1..Len(traces'[t].errors),
              NEW c \in traces'[t].errors[i].joined
       PROVE  /\ t \in 1..Len(traces) /\ i \in 1..Len(traces[t].errors)
              /\ traces'[t].errors[i] = traces[t].errors[i]
              /\ c \in traces[t].errors[i].joined
              /\ c.at < now - Window /\ c.at \in Nat
  <2>1. /\ t \in 1..Len(traces) /\ i \in 1..Len(traces[t].errors)
        /\ traces'[t].errors[i] = traces[t].errors[i]
    BY <1>3, <1>7, <1>10
  <2>2. c \in traces[t].errors[i].joined
    BY <1>10, <2>1
  <2>3. c.at < now - Window /\ c.at \in Nat
    BY <1>0, <1>2, <2>1, <2>2, TraceTypes DEF JoinedOver
  <2>4. QED
    BY <2>1, <2>2, <2>3
<1>11. JoinedOver'
  <2>1. ASSUME NEW t \in 1..Len(traces'), NEW i \in 1..Len(traces'[t].errors),
               NEW c \in traces'[t].errors[i].joined
        PROVE  c.at < now' - Window
    BY <1>8, <1>10
  <2>2. QED
    BY <2>1 DEF JoinedOver
<1>12. NearestInv'
  <2>1. ASSUME quality'["DroppedErrorCandidates"] = 0,
               NEW t \in 1..Len(traces'), NEW u \in 1..Len(traces'),
               NEW i \in 1..Len(traces'[t].errors), NEW j \in 1..Len(traces'[u].errors),
               NEW c \in traces'[t].errors[i].joined, t # u \/ i # j,
               FitsCaller(traces'[u].lane, traces'[u].ids, traces'[u].errors[j], c)
        PROVE  Distance(traces'[t].errors[i], c) < Distance(traces'[u].errors[j], c)
    <3>1. /\ t \in 1..Len(traces) /\ i \in 1..Len(traces[t].errors)
          /\ traces'[t].errors[i] = traces[t].errors[i]
          /\ c \in traces[t].errors[i].joined
          /\ c.at < now - Window /\ c.at \in Nat
      BY <1>10
    <3>2. /\ u \in 1..Len(traces)
          /\ traces'[u].lane = traces[u].lane /\ traces'[u].ids = traces[u].ids
          /\ \/ /\ j \in 1..Len(traces[u].errors)
                /\ traces'[u].errors[j] = traces[u].errors[j]
             \/ u = t0 /\ j = i0 /\ traces'[u].errors[j] = e0
      BY <1>7
    <3>3. CASE j \in 1..Len(traces[u].errors) /\ traces'[u].errors[j] = traces[u].errors[j]
      BY <1>0, <1>4, <2>1, <3>1, <3>2, <3>3 DEF NearestInv
    <3>4. CASE traces'[u].errors[j] = e0
      <4>1. Distance(e0, c) > Window
        <5>1. c.at < e0.at - Window /\ e0.at \in Nat
          BY <1>3, <1>8, <3>1
        <5>2. QED
          BY <1>8, <3>1, <5>1 DEF Distance
      <4>2. Distance(e0, c) <= Window
        BY <2>1, <3>4 DEF FitsCaller
      <4>3. Distance(e0, c) \in Nat
        BY <1>3, <1>8, <3>1, Numbers
      <4>4. QED
        BY <1>8, <4>1, <4>2, <4>3
    <3>5. QED
      BY <3>2, <3>3, <3>4
  <2>2. QED
    BY <2>1 DEF NearestInv
<1>13. QED
  BY <1>9, <1>11, <1>12 DEF OInv

(* The steps that leave errors and candidates alone. *)
LEMMA OrderedQuiet ==
  ASSUME OInv, IInv', now' >= now,
         \/ \E record \in Plain :
              \/ ConsumeCall(record) \/ ConsumeRelated(record) \/ ConsumeContext(record)
              \/ ConsumeVRS(record) \/ ConsumeOther(record)
         \/ \E record \in Marks :
              \/ ConsumeError(record) /\ Matching(record) = {}
              \/ ConsumeErrorContext(record)
         \/ EvictOpen \/ EvictOver \/ ResolveOver \/ ResultBegin \/ ResultOver
         \/ UNCHANGED vars
  PROVE  OInv'
<1>0. IInv /\ TypeOK /\ LimitInv
  BY DEF OInv, IInv
<1>1. candidates' = candidates
  BY DEF ConsumeCall, ConsumeRelated, ConsumeContext, ConsumeVRS, ConsumeOther, ConsumeError,
         ConsumeErrorContext, EvictOpen, EvictOver, ResolveOver, ResultBegin, ResultOver, vars
<1>2. quality'["DroppedErrorCandidates"] = 0 => quality["DroppedErrorCandidates"] = 0
  <2>1. (\E S : Count(S)) \/ quality' = quality
    BY Zenon DEF ConsumeCall, ConsumeRelated, ConsumeContext, ConsumeVRS, ConsumeOther, ConsumeError,
         ConsumeErrorContext, EvictOpen, EvictOver, ResolveOver, ResultBegin, ResultOver, vars,
         Consumed, Close
  <2>2. QED
    BY <1>0, <2>1, DroppedGrows
<1>3. stage \in {"result", "finished"} => stage' \in {"result", "finished"}
  BY DEF ConsumeCall, ConsumeRelated, ConsumeContext, ConsumeVRS, ConsumeOther, ConsumeError,
         ConsumeErrorContext, EvictOpen, EvictOver, ResolveOver, ResultBegin, ResultOver, vars,
         Begin
<1>4. /\ \A u \in 1..Len(traces) : SameCaller(u) /\ SameErrors(u)
      /\ \A u \in 1..Len(traces') : u \notin 1..Len(traces) => Len(traces'[u].errors) = 0
  <2>1. CASE \E record \in Plain : ConsumeCall(record)
    <3>1. PICK record \in Plain : ConsumeCall(record)
      BY <2>1
    <3>2. /\ Len(traces') = Len(traces) + 1
          /\ \A u \in 1..Len(traces) : SameTrace(u) /\ SameErrors(u)
          /\ Len(traces'[Len(traces) + 1].errors) = 0
      BY <1>0, <3>1, CallTraces
    <3>3. \A u \in 1..Len(traces') : u \notin 1..Len(traces) => u = Len(traces) + 1
      BY <1>0, <3>2, StateTypes
    <3>4. QED
      BY <3>2, <3>3 DEF SameTrace
  <2>2. CASE \E record \in Plain : ConsumeContext(record)
    <3>1. PICK record \in Plain : ConsumeContext(record)
      BY <2>2
    <3>2. CASE traces' = traces
      BY <3>2 DEF SameCaller, SameErrors
    <3>3. CASE Matching(record) # {}
      <4>1. traces' = [traces EXCEPT ![Max(Matching(record))].hasContext = TRUE]
        BY <3>1, <3>3 DEF ConsumeContext
      <4>2. Max(Matching(record)) \in 1..Len(traces)
        BY <1>0, <3>3, BestMatch
      <4>3. Len(traces') = Len(traces) /\ \A u \in 1..Len(traces) : SameCaller(u) /\ SameErrors(u)
        BY <1>0, <4>1, <4>2, ContextMarked
      <4>4. QED
        BY <4>3
    <3>4. QED
      BY <3>1, <3>2, <3>3 DEF ConsumeContext
  <2>3. CASE traces' = traces
    BY <2>3 DEF SameCaller, SameErrors
  <2>4. QED
    BY <2>1, <2>2, <2>3 DEF ConsumeRelated, ConsumeVRS, ConsumeOther, ConsumeError,
         ConsumeErrorContext, EvictOpen, EvictOver, ResolveOver, ResultBegin, ResultOver, vars
<1>5. \A k \in 1..Len(pending') :
        \/ \E j \in 1..Len(pending) : pending'[k] = pending[j]
        \/ pending'[k].at = now'
  <2>1. CASE pending' = pending
    BY <2>1
  <2>2. CASE \E record \in Marks : ConsumeErrorContext(record)
    <3>1. PICK record \in Marks : ConsumeErrorContext(record)
      BY <2>2
    <3>2. now' = record.at /\ pending' = Bounded(Append(pending, record), MaxOpen)
      BY <3>1 DEF ConsumeErrorContext, Begin
    <3>3. pending \in Seq(Marks) /\ Len(pending) <= MaxOpen /\ MaxOpen \in Nat \ {0}
      BY <1>0, StateTypes, Numbers DEF LimitInv
    <3>4. \A k \in 1..Len(pending') :
            pending'[k] = record \/ \E j \in 1..Len(pending) : pending'[k] = pending[j]
      BY <3>2, <3>3, BoundedAppend
    <3>5. QED
      BY <3>2, <3>4
  <2>3. QED
    BY <2>1, <2>2 DEF ConsumeCall, ConsumeRelated, ConsumeContext, ConsumeVRS, ConsumeOther,
         ConsumeError, EvictOpen, EvictOver, ResolveOver, ResultBegin, ResultOver, vars
<1>6. QED
  BY <1>1, <1>2, <1>3, <1>4, <1>5, OrderedFrame

LEMMA OrderedInit == Init => OInv
<1> SUFFICES ASSUME Init PROVE OInv
  OBVIOUS
<1>1. IInv
  BY InitHasInv
<1>2. Len(traces) = 0
  BY EmptySeq DEF Init
<1>3. Aside /\ JoinedOver /\ NearestInv
  BY <1>2 DEF Aside, JoinedOver, NearestInv
<1>4. QED
  BY <1>1, <1>3 DEF OInv

LEMMA OrderedKeepsInv == OInv /\ [Next /\ now' >= now]_vars => OInv'
<1> SUFFICES ASSUME OInv, [Next /\ now' >= now]_vars PROVE OInv'
  OBVIOUS
<1>1. IInv /\ TypeOK /\ [Next]_vars
  BY DEF OInv, IInv
<1>2. IInv'
  BY <1>1, StepKeepsInv
<1>3. now' >= now
  <2>1. CASE UNCHANGED vars
    <3>1. now \in Nat /\ now' = now
      BY <1>1, <2>1, StateTypes DEF vars
    <3>2. QED
      BY <3>1
  <2>2. QED
    BY <2>1
<1>4. CASE ResolveExpired \/ ResolveLeft
  BY <1>2, <1>4, OrderedResolve
<1>5. CASE PruneErrorCandidates
  BY <1>2, <1>5, OrderedPrune
<1>6. CASE \E record \in Marks : ConsumeError(record) /\ Matching(record) # {}
  BY <1>2, <1>3, <1>6, OrderedError
<1>7. CASE \/ \E record \in Plain :
                \/ ConsumeCall(record) \/ ConsumeRelated(record) \/ ConsumeContext(record)
                \/ ConsumeVRS(record) \/ ConsumeOther(record)
           \/ \E record \in Marks :
                \/ ConsumeError(record) /\ Matching(record) = {}
                \/ ConsumeErrorContext(record)
           \/ EvictOpen \/ EvictOver \/ ResolveOver \/ ResultBegin \/ ResultOver
           \/ UNCHANGED vars
  BY <1>2, <1>3, <1>7, OrderedQuiet
<1>8. QED
  BY <1>1, <1>4, <1>5, <1>6, <1>7 DEF Next

(* As long as no timestamp went back, none of the steps did. *)
LEMMA StillInOrder ==
  ASSUME TypeOK, [Next]_vars, inOrder'
  PROVE  inOrder /\ now' >= now
<1>0. now \in Nat
  BY StateTypes
<1>1. CASE UNCHANGED <<now, inOrder>>
  BY <1>0, <1>1
<1>2. ASSUME NEW record, NEW next, Begin(record, next)
      PROVE  inOrder /\ now' >= now
  BY <1>2 DEF Begin
<1>3. CASE \E record \in Plain :
             \/ ConsumeCall(record) \/ ConsumeRelated(record) \/ ConsumeContext(record)
             \/ ConsumeVRS(record) \/ ConsumeOther(record)
  <2>1. \E record, next : Begin(record, next)
    BY <1>3 DEF ConsumeCall, ConsumeRelated, ConsumeContext, ConsumeVRS, ConsumeOther
  <2>2. QED
    BY <1>2, <2>1
<1>4. CASE \E record \in Marks : ConsumeError(record) \/ ConsumeErrorContext(record)
  <2>1. \E record, next : Begin(record, next)
    BY <1>4 DEF ConsumeError, ConsumeErrorContext
  <2>2. QED
    BY <1>2, <2>1
<1>5. QED
  BY <1>1, <1>3, <1>4 DEF Next, EvictOpen, EvictOver, ResolveExpired, ResolveOver,
     PruneErrorCandidates, ResultBegin, ResolveLeft, ResultOver, vars

(* The invariant of the collector as long as no timestamp went back. *)
THEOREM OrderedInductive == Spec => [](inOrder => OInv)
<1>1. Init => OInv
  BY OrderedInit
<1>2. IInv /\ (inOrder => OInv) /\ [Next]_vars => (inOrder => OInv)'
  <2>1. ASSUME IInv, inOrder => OInv, [Next]_vars, inOrder'
        PROVE  OInv'
    <3>1. inOrder /\ now' >= now
      BY <2>1, StillInOrder DEF IInv
    <3>2. [Next /\ now' >= now]_vars
      BY <2>1, <3>1
    <3>3. QED
      BY <2>1, <3>1, <3>2, OrderedKeepsInv
  <2>2. QED
    BY <2>1
<1>3. QED
  BY <1>1, <1>2, Inductive, PTL DEF Spec

(* resolveExpiredErrorContexts waits until the window of a context is over: *)
(* in order, and with room for every candidate, a context is joined only to *)
(* the one nearest of all errors of the input.                              *)
THEOREM ContextsJoinTheNearest == Spec => []JoinedToNearest
<1>1. (inOrder => OInv) => JoinedToNearest
  <2>1. ASSUME OInv, quality["DroppedErrorCandidates"] = 0,
               NEW t \in 1..Len(traces), NEW u \in 1..Len(traces),
               NEW i \in 1..Len(traces[t].errors), NEW j \in 1..Len(traces[u].errors),
               NEW c \in traces[t].errors[i].joined,
               <<t, i>> # <<u, j>>, Fits(u, traces[u].errors[j], c)
        PROVE  Distance(traces[t].errors[i], c) < Distance(traces[u].errors[j], c)
    <3>1. t # u \/ i # j
      BY <2>1
    <3>2. FitsCaller(traces[u].lane, traces[u].ids, traces[u].errors[j], c)
      BY <2>1, FitsIs
    <3>3. QED
      BY <2>1, <3>1, <3>2 DEF OInv, NearestInv
  <2>2. QED
    BY <2>1 DEF JoinedToNearest
<1>2. QED
  BY <1>1, OrderedInductive, PTL

(* Only a decision counts a context as expired, and it decides one context. *)
LEMMA ExpiredByResolve ==
  ASSUME IInv, [Next]_vars,
         quality'["ExpiredErrorContexts"] > quality["ExpiredErrorContexts"]
  PROVE  \E context \in Marks :
           /\ Nearest(context) = {} /\ \E k \in 1..Len(pending) : context = pending[k]
           /\ \A k \in 1..Len(pending) : pending[k] # context => pending[k] \in ToSet(pending')
<1>0. TypeOK /\ quality["ExpiredErrorContexts"] \in Nat
  BY CounterTypes DEF IInv
<1>1. ASSUME NEW c, NEW p, NEW x, NEW d, Added(c, p, x, d, 0)
      PROVE  FALSE
  <2>1. quality'["ExpiredErrorContexts"] = quality["ExpiredErrorContexts"] + 0
    BY <1>1 DEF Added
  <2>2. QED
    BY <1>0, <2>1
<1>2. CASE ResolveExpired \/ ResolveLeft
  <2>1. PICK context \in Marks :
          /\ Resolve(context) /\ \E k \in 1..Len(pending) : context = pending[k]
          /\ \A k \in 1..Len(pending) : pending[k] # context => pending[k] \in ToSet(pending')
    BY <1>0, <1>2, ResolveQueue
  <2>2. PICK expired \in {0, 1} :
          Added(0, 1, 0, 1, expired) /\ (expired = 1 => Nearest(context) = {})
    BY <1>0, <2>1, DecidedEffect
  <2>3. expired = 1
    BY <1>1, <2>2
  <2>4. QED
    BY <2>1, <2>2, <2>3
<1>3. CASE UNCHANGED quality
  BY <1>0, <1>3
<1>4. CASE ~(ResolveExpired \/ ResolveLeft) /\ ~UNCHANGED quality
  <2>1. PICK S : Count(S) /\ "ExpiredErrorContexts" \notin S
    <3> DEFINE Free(S) == Count(S) /\ "ExpiredErrorContexts" \notin S
    <3>1. ASSUME NEW t, NEW new \in {0, 1},
                 Close(t, IF new = 1 THEN {"EventsConsumed", "Calls"} ELSE {"EvictedOpenTraces"})
          PROVE  \E S : Free(S)
      <4> DEFINE S == (IF new = 1 THEN {"EventsConsumed", "Calls"} ELSE {"EvictedOpenTraces"})
                        \cup AppendDone(t)
      <4>1. Count(S)
        BY <3>1 DEF Close
      <4>2. "ExpiredErrorContexts" \notin S
        BY DEF AppendDone, IfDropped
      <4>3. QED
        BY <4>1, <4>2
    <3>2. ASSUME NEW T, Consumed(T), "ExpiredErrorContexts" \notin T
          PROVE  \E S : Free(S)
      <4>1. Count({"EventsConsumed"} \cup T) /\ "ExpiredErrorContexts" \notin {"EventsConsumed"} \cup T
        BY <3>2 DEF Consumed
      <4>2. QED
        BY <4>1
    <3> HIDE DEF Free
    <3>3. CASE EvictOpen
      <4>1. Close(Min(active), IF 0 = 1 THEN {"EventsConsumed", "Calls"} ELSE {"EvictedOpenTraces"})
        BY <3>3 DEF EvictOpen
      <4>2. QED
        BY <3>1, <4>1 DEF Free
    <3>4. CASE \E record \in Plain : ConsumeCall(record)
      <4>1. PICK record \in Plain : ConsumeCall(record)
        BY <3>4
      <4>2. CASE Consumed({"Calls"})
        BY <3>2, <4>2 DEF Free
      <4>3. CASE \E t \in SameCall(record) : Close(t, {"EventsConsumed", "Calls"})
        <5>1. PICK t : Close(t, {"EventsConsumed", "Calls"})
          BY <4>3
        <5>2. Close(t, IF 1 = 1 THEN {"EventsConsumed", "Calls"} ELSE {"EvictedOpenTraces"})
          BY <5>1
        <5>3. QED
          BY <3>1, <5>2 DEF Free
      <4>4. QED
        BY <4>1, <4>2, <4>3 DEF ConsumeCall
    <3>5. CASE \/ \E record \in Plain : \/ ConsumeRelated(record) \/ ConsumeContext(record)
                                        \/ ConsumeVRS(record) \/ ConsumeOther(record)
               \/ \E record \in Marks : ConsumeError(record) \/ ConsumeErrorContext(record)
      <4>1. CASE \E record \in Plain : \/ ConsumeRelated(record) \/ ConsumeContext(record)
                                      \/ ConsumeVRS(record) \/ ConsumeOther(record)
        <5>1. PICK c \in {"CorrelatedEvents", "OrphanEvents", "IgnoredEvents"},
                   extra \in SUBSET {"VRS", "CorrelatedVRS", "AmbiguousVRS",
                                     "DroppedErrorCandidates"} : Consumed({c} \cup extra)
          BY <4>1, PlacedCount
        <5>2. "ExpiredErrorContexts" \notin {c} \cup extra
          OBVIOUS
        <5>3. QED
          BY <3>2, <5>1, <5>2 DEF Free
      <4>2. CASE \E record \in Marks : ConsumeError(record)
        <5>1. \/ Consumed({"OrphanEvents"})
              \/ Consumed({"CorrelatedEvents"}
                            \cup IfDropped(candidates, MaxOpen, {"DroppedErrorCandidates"}))
          BY <4>2 DEF ConsumeError
        <5>2. /\ "ExpiredErrorContexts" \notin {"OrphanEvents"}
              /\ "ExpiredErrorContexts" \notin {"CorrelatedEvents"}
                   \cup IfDropped(candidates, MaxOpen, {"DroppedErrorCandidates"})
          BY DEF IfDropped
        <5>3. QED
          BY <3>2, <5>1, <5>2 DEF Free
      <4>3. CASE \E record \in Marks : ConsumeErrorContext(record)
        <5>1. Consumed({"ErrorContexts"} \cup IfDropped(pending, MaxOpen, Overflow))
          BY <4>3 DEF ConsumeErrorContext
        <5>2. "ExpiredErrorContexts" \notin
                {"ErrorContexts"} \cup IfDropped(pending, MaxOpen, Overflow)
          BY DEF IfDropped, Overflow
        <5>3. QED
          BY <3>2, <5>1, <5>2 DEF Free
      <4>4. QED
        BY <3>5, <4>1, <4>2, <4>3
    <3>6. QED
      BY <1>4, <3>3, <3>4, <3>5 DEF Next, Free, EvictOver, ResolveOver, ResultBegin, ResultOver,
         PruneErrorCandidates, vars
  <2>2. quality'["ExpiredErrorContexts"] = quality["ExpiredErrorContexts"]
    BY <1>0, <2>1 DEF Count, Counters
  <2>3. QED
    BY <1>0, <2>2
<1>5. QED
  BY <1>2, <1>3, <1>4

(* resolveErrorContext: in order, and with room for every candidate, a      *)
(* context that is given up as expired fits no error of the input.          *)
THEOREM ExpiredFitNothing == Spec => ExpiredRightly
<1>1. ASSUME OInv, [Next]_vars, NEW context \in ToSet(pending) \ ToSet(pending'),
             quality'["ExpiredErrorContexts"] > quality["ExpiredErrorContexts"],
             quality["DroppedErrorCandidates"] = 0,
             NEW t \in 1..Len(traces), NEW i \in 1..Len(traces[t].errors)
      PROVE  ~Fits(t, traces[t].errors[i], context)
  <2>0. IInv /\ TypeOK /\ Aside
    BY <1>1 DEF OInv, IInv
  <2>1. PICK decided \in Marks :
          /\ Nearest(decided) = {} /\ \E k \in 1..Len(pending) : decided = pending[k]
          /\ \A k \in 1..Len(pending) : pending[k] # decided => pending[k] \in ToSet(pending')
    BY <1>1, <2>0, ExpiredByResolve
  <2>2. PICK k \in 1..Len(pending) : context = pending[k]
    <3>1. DOMAIN pending = 1..Len(pending)
      BY <2>0, StateTypes, LenProperties
    <3>2. QED
      BY <1>1, <3>1 DEF ToSet
  <2>3. context = decided
    BY <1>1, <2>1, <2>2
  <2>4. CASE <<t, i>> \in ToSet(candidates)
    <3> DEFINE c == <<t, i>>
    <3>1. c[1] = t /\ ErrorOf(c) = traces[t].errors[i]
      BY DEF ErrorOf
    <3>2. ~Fits(c[1], ErrorOf(c), decided)
      BY <2>0, <2>1, <2>4, NearestExists
    <3>3. QED
      BY <2>3, <3>1, <3>2
  <2>5. CASE <<t, i>> \notin ToSet(candidates)
    <3>1. Distance(traces[t].errors[i], context) > Window
      BY <1>1, <2>0, <2>2, <2>5, AsideFitsNone
    <3>2. Distance(traces[t].errors[i], context) \in Nat /\ Window \in Nat
      <4>1. traces[t].errors[i].at \in Nat /\ context.at \in Nat
        BY <1>1, <2>0, <2>1, <2>3, TraceTypes, Numbers DEF Marks
      <4>2. QED
        BY <4>1, Numbers
    <3>3. QED
      BY <3>1, <3>2 DEF Fits
  <2>6. QED
    BY <2>4, <2>5
<1>2. (inOrder => OInv) /\ [Next]_vars =>
        [\A context \in ToSet(pending) \ ToSet(pending') :
           /\ inOrder
           /\ quality'["ExpiredErrorContexts"] > quality["ExpiredErrorContexts"]
           /\ quality["DroppedErrorCandidates"] = 0
           => \A t \in 1..Len(traces) : \A i \in 1..Len(traces[t].errors) :
                ~Fits(t, traces[t].errors[i], context)]_vars
  BY <1>1
<1>3. QED
  BY <1>2, OrderedInductive, PTL DEF Spec, ExpiredRightly
===============================================================================
