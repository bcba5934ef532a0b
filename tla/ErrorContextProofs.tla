-------------------------- MODULE ErrorContextProofs --------------------------
(***************************************************************************)
(* The error collector for every window, every limit and every input, in   *)
(* whatever order its timestamps come: no record is lost or counted twice, *)
(* the queues keep their limits, and no context waits beside an error it   *)
(* fits.                                                                   *)
(***************************************************************************)
EXTENDS ErrorContext, SequenceTheorems, WellFoundedInduction, FiniteSetTheorems, TLAPS

(* Sequences and sets of numbers. *)

(* append(s[:i], s[i+1:]...), which the loops that compact a queue amount   *)
(* to, closes the gap and keeps the rest.                                   *)
LEMMA RemoveAtProperties ==
  ASSUME NEW S, NEW seq \in Seq(S), NEW i \in 1..Len(seq)
  PROVE  /\ RemoveAt(seq, i) \in Seq(S)
         /\ Len(RemoveAt(seq, i)) = Len(seq) - 1
         /\ \A k \in 1..(Len(seq) - 1) :
              RemoveAt(seq, i)[k] = IF k < i THEN seq[k] ELSE seq[k + 1]
<1> DEFINE front == SubSeq(seq, 1, i - 1)
           back  == SubSeq(seq, i + 1, Len(seq))
<1>1. Len(seq) \in Nat /\ i \in Nat /\ i >= 1 /\ i <= Len(seq)
      /\ \A k \in 1..Len(seq) : seq[k] \in S
  BY LenProperties
<1>2. /\ front \in Seq(S) /\ Len(front) = i - 1
      /\ \A k \in 1..(i - 1) : front[k] = seq[k]
  BY <1>1, SubSeqProperties
<1>3. /\ back \in Seq(S) /\ Len(back) = Len(seq) - i
      /\ \A k \in 1..(Len(seq) - i) : back[k] = seq[k + i]
  BY <1>1, SubSeqProperties
<1>4. RemoveAt(seq, i) = front \o back
  BY DEF RemoveAt
<1> HIDE DEF front, back
<1>5. front \o back \in Seq(S) /\ Len(front \o back) = Len(seq) - 1
  <2>1. front \in Seq(S) /\ back \in Seq(S)
    BY <1>2, <1>3
  <2>2. front \o back \in Seq(S) /\ Len(front \o back) = Len(front) + Len(back)
    BY <2>1, ConcatProperties
  <2>3. QED
    BY <1>1, <1>2, <1>3, <2>2
<1>6. ASSUME NEW k \in 1..(Len(seq) - 1)
      PROVE  (front \o back)[k] = IF k < i THEN seq[k] ELSE seq[k + 1]
  <2>1. (front \o back)[k] = IF k <= i - 1 THEN front[k] ELSE back[k - (i - 1)]
    BY <1>1, <1>2, <1>3
  <2>2. CASE k < i
    BY <1>1, <1>2, <2>1, <2>2
  <2>3. CASE ~(k < i)
    <3>1. k - (i - 1) \in 1..(Len(seq) - i) /\ (k - (i - 1)) + i = k + 1
      BY <1>1, <2>3
    <3>2. back[k - (i - 1)] = seq[k + 1]
      BY <1>3, <3>1
    <3>3. QED
      BY <1>1, <2>1, <2>3, <3>2
  <2>4. QED
    BY <2>2, <2>3
<1>7. QED
  BY <1>4, <1>5, <1>6

(* What is left of a queue after one record was taken out of it. *)
LEMMA RemovalShrinks ==
  ASSUME NEW S, NEW seq \in Seq(S), NEW rest,
         \/ \E i \in 1..Len(seq) : rest = RemoveAt(seq, i)
         \/ seq # <<>> /\ rest = Tail(seq)
  PROVE  /\ rest \in Seq(S)
         /\ Len(rest) = Len(seq) - 1
         /\ \A k \in 1..Len(rest) : \E j \in 1..Len(seq) : rest[k] = seq[j]
<1>0. Len(seq) \in Nat
  BY LenProperties
<1>1. ASSUME NEW i \in 1..Len(seq), rest = RemoveAt(seq, i)
      PROVE  /\ rest \in Seq(S)
             /\ Len(rest) = Len(seq) - 1
             /\ \A k \in 1..Len(rest) : \E j \in 1..Len(seq) : rest[k] = seq[j]
  <2>1. /\ rest \in Seq(S) /\ Len(rest) = Len(seq) - 1
        /\ \A k \in 1..(Len(seq) - 1) : rest[k] = IF k < i THEN seq[k] ELSE seq[k + 1]
    BY <1>1, RemoveAtProperties
  <2>2. \A k \in 1..(Len(seq) - 1) : k \in 1..Len(seq) /\ k + 1 \in 1..Len(seq)
    BY <1>0
  <2>3. QED
    BY <2>1, <2>2
<1>2. ASSUME seq # <<>>, rest = Tail(seq)
      PROVE  /\ rest \in Seq(S)
             /\ Len(rest) = Len(seq) - 1
             /\ \A k \in 1..Len(rest) : \E j \in 1..Len(seq) : rest[k] = seq[j]
  <2>1. /\ rest \in Seq(S) /\ Len(rest) = Len(seq) - 1
        /\ \A k \in 1..Len(rest) : rest[k] = seq[k + 1]
    BY <1>2, HeadTailProperties
  <2>2. \A k \in 1..(Len(seq) - 1) : k + 1 \in 1..Len(seq)
    BY <1>0
  <2>3. QED
    BY <2>1, <2>2
<1>3. QED
  BY <1>1, <1>2

(* A set of natural numbers that is not empty has a least member. *)
LEMMA MinimumExists ==
  ASSUME NEW S \in SUBSET Nat, S # {}
  PROVE  \E m \in S : \A k \in S : m <= k
<1> DEFINE less == OpToRel(<, Nat)
<1>1. IsWellFoundedOn(less, Nat)
  BY NatLessThanWellFounded
<1>2. \A x, y \in Nat : x < y => <<x, y>> \in less
  BY DEF OpToRel
<1> HIDE DEF less
<1>3. PICK m \in S : \A k \in S : ~(<<k, m>> \in less)
  BY <1>1, WFMin
<1>4. \A k \in S : k \in Nat /\ ~(k < m)
  BY <1>2, <1>3
<1>5. QED
  BY <1>4

(* Min of the community modules is one of them. *)
LEMMA MinIsLeast ==
  ASSUME NEW S \in SUBSET Nat, S # {}
  PROVE  Min(S) \in S
  BY MinimumExists DEF Min

-------------------------------------------------------------------------------
(* Times are numbers, and so are distances between records. *)
LEMMA Numbers ==
  /\ Times \subseteq Nat
  /\ PendingLimit \in Nat \ {0} /\ SampleLimit \in Nat \ {0} /\ Window \in Nat
  /\ \A a, b : a.at \in Nat /\ b.at \in Nat => Distance(a, b) \in Nat
<1>1. \A a, b : a.at \in Nat /\ b.at \in Nat => Distance(a, b) \in Nat
  BY DEF Distance
<1>2. QED
  BY <1>1, CollectorAssumption DEF Times

(* Count adds one to the counters it is given and leaves the others alone. *)
LEMMA CountEffect ==
  ASSUME TypeOK, NEW S \in SUBSET Counters, Count(S)
  PROVE  /\ quality' \in [Counters -> Nat]
         /\ \A c \in Counters : quality'[c] = IF c \in S THEN quality[c] + 1 ELSE quality[c]
<1>1. quality \in [Counters -> Nat]
  BY DEF TypeOK
<1>2. QED
  BY <1>1 DEF Count

(* A sample list either grows by one or counts a record as discarded. *)
LEMMA SampleAdded ==
  ASSUME NEW retained \in 0..SampleLimit, NEW counters \in SUBSET (Counters \ {"DiscardedSamples"})
  PROVE  /\ More(retained) \in 0..SampleLimit
         /\ Counted(retained, counters) \in SUBSET Counters
         /\ \A c \in Counters \ {"DiscardedSamples"} :
              c \in Counted(retained, counters) <=> c \in counters
         /\ IF "DiscardedSamples" \in Counted(retained, counters)
            THEN More(retained) = retained ELSE More(retained) = retained + 1
<1>1. SampleLimit \in Nat /\ "DiscardedSamples" \in Counters
  BY Numbers DEF Counters
<1>2. CASE retained = SampleLimit
  BY <1>1, <1>2 DEF More, Counted
<1>3. CASE retained # SampleLimit
  BY <1>1, <1>3 DEF More, Counted
<1>4. QED
  BY <1>2, <1>3

(* The sums that Conserved relates: contexts decided, records that went to *)
(* a sample list, and records a sample list shows or counts as discarded.  *)
Decided == quality["MatchedContexts"] + quality["AmbiguousContexts"] + quality["OrphanContexts"]
Listed == grouped + quality["AmbiguousContexts"] + quality["OrphanContexts"]
Shown == samples + orphans + quality["DiscardedSamples"]

TalliesTyped ==
  /\ grouped \in Nat /\ samples \in 0..SampleLimit /\ orphans \in 0..SampleLimit
  /\ quality \in [Counters -> Nat]

(* How a step moves them. *)
Moved(finalized, decided, listed) ==
  /\ TalliesTyped'
  /\ grouped' = grouped + finalized
  /\ Decided' = Decided + decided
  /\ Listed' = Listed + listed
  /\ Shown' = Shown + listed

(* The records that came in. *)
Came(newErrors, newContexts) ==
  /\ quality'["ErrorEvents"] = quality["ErrorEvents"] + newErrors
  /\ quality'["ContextEvents"] = quality["ContextEvents"] + newContexts

LEMMA TallyValues ==
  ASSUME TypeOK
  PROVE  /\ grouped \in Nat /\ samples \in 0..SampleLimit /\ orphans \in 0..SampleLimit
         /\ samples \in Nat /\ orphans \in Nat
         /\ \A c \in Counters : quality[c] \in Nat
         /\ quality["ErrorEvents"] \in Nat /\ quality["ContextEvents"] \in Nat
         /\ quality["MatchedContexts"] \in Nat /\ quality["AmbiguousContexts"] \in Nat
         /\ quality["OrphanContexts"] \in Nat /\ quality["DiscardedSamples"] \in Nat
         /\ Decided \in Nat /\ Listed \in Nat /\ Shown \in Nat
<1>1. /\ grouped \in Nat /\ samples \in 0..SampleLimit /\ orphans \in 0..SampleLimit
      /\ quality \in [Counters -> Nat]
  BY DEF TypeOK
<1>2. samples \in Nat /\ orphans \in Nat
  BY <1>1, Numbers
<1>3. \A c \in Counters : quality[c] \in Nat
  BY <1>1
<1>4. /\ quality["ErrorEvents"] \in Nat /\ quality["ContextEvents"] \in Nat
      /\ quality["MatchedContexts"] \in Nat /\ quality["AmbiguousContexts"] \in Nat
      /\ quality["OrphanContexts"] \in Nat /\ quality["DiscardedSamples"] \in Nat
  BY <1>3 DEF Counters
<1>5. QED
  BY <1>1, <1>2, <1>3, <1>4 DEF Decided, Listed, Shown

LEMMA FinalizeEffect ==
  ASSUME TypeOK, Finalize
  PROVE  Moved(1, 0, 1) /\ Came(0, 0)
<1> DEFINE S == Counted(samples, {})
<1>1. /\ More(samples) \in 0..SampleLimit /\ S \in SUBSET Counters
      /\ \A c \in Counters \ {"DiscardedSamples"} : c \notin S
      /\ IF "DiscardedSamples" \in S THEN More(samples) = samples ELSE More(samples) = samples + 1
  BY TallyValues, SampleAdded
<1>2. Count(S) /\ grouped' = grouped + 1 /\ samples' = More(samples) /\ orphans' = orphans
  BY DEF Finalize
<1> HIDE DEF S
<1>3. /\ quality' \in [Counters -> Nat]
      /\ \A c \in Counters : quality'[c] = IF c \in S THEN quality[c] + 1 ELSE quality[c]
  BY <1>1, <1>2, CountEffect
<1>4. /\ quality'["ErrorEvents"] = quality["ErrorEvents"]
      /\ quality'["ContextEvents"] = quality["ContextEvents"]
      /\ quality'["MatchedContexts"] = quality["MatchedContexts"]
      /\ quality'["AmbiguousContexts"] = quality["AmbiguousContexts"]
      /\ quality'["OrphanContexts"] = quality["OrphanContexts"]
  BY <1>1, <1>3 DEF Counters
<1>5. samples' + quality'["DiscardedSamples"] = samples + quality["DiscardedSamples"] + 1
  BY <1>1, <1>2, <1>3, TallyValues DEF Counters
<1>6. samples' \in Nat /\ quality'["DiscardedSamples"] \in Nat
  BY <1>1, <1>2, <1>3, Numbers DEF Counters
<1>7. TalliesTyped'
  BY <1>1, <1>2, <1>3, TallyValues DEF TalliesTyped
<1>8. grouped' = grouped + 1 /\ orphans' = orphans
  BY <1>2
<1>9. Decided' = Decided + 0 /\ Listed' = Listed + 1
  BY <1>4, <1>8, TallyValues DEF Decided, Listed
<1>10. Shown' = Shown + 1
  BY <1>5, <1>6, <1>8, TallyValues DEF Shown
<1>11. QED
  BY <1>4, <1>7, <1>8, <1>9, <1>10, TallyValues DEF Moved, Came

LEMMA AddOrphanEffect ==
  ASSUME TypeOK, AddOrphan("OrphanContexts")
  PROVE  Moved(0, 1, 1) /\ Came(0, 0)
<1> DEFINE S == Counted(orphans, {"OrphanContexts"})
<1>1. /\ More(orphans) \in 0..SampleLimit /\ S \in SUBSET Counters
      /\ \A c \in Counters \ {"DiscardedSamples"} : c \in S <=> c = "OrphanContexts"
      /\ IF "DiscardedSamples" \in S THEN More(orphans) = orphans ELSE More(orphans) = orphans + 1
  <2>1. {"OrphanContexts"} \in SUBSET (Counters \ {"DiscardedSamples"})
    BY DEF Counters
  <2>2. QED
    BY <2>1, TallyValues, SampleAdded
<1>2. Count(S) /\ grouped' = grouped /\ samples' = samples /\ orphans' = More(orphans)
  BY DEF AddOrphan
<1> HIDE DEF S
<1>3. /\ quality' \in [Counters -> Nat]
      /\ \A c \in Counters : quality'[c] = IF c \in S THEN quality[c] + 1 ELSE quality[c]
  BY <1>1, <1>2, CountEffect
<1>4. \A c \in Counters \ {"DiscardedSamples"} :
        quality'[c] = IF c = "OrphanContexts" THEN quality[c] + 1 ELSE quality[c]
  BY <1>1, <1>3
<1>5. /\ quality'["OrphanContexts"] = quality["OrphanContexts"] + 1
      /\ quality'["ErrorEvents"] = quality["ErrorEvents"]
      /\ quality'["ContextEvents"] = quality["ContextEvents"]
      /\ quality'["MatchedContexts"] = quality["MatchedContexts"]
      /\ quality'["AmbiguousContexts"] = quality["AmbiguousContexts"]
  BY <1>4 DEF Counters
<1>6. orphans' + quality'["DiscardedSamples"] = orphans + quality["DiscardedSamples"] + 1
  BY <1>1, <1>2, <1>3, TallyValues DEF Counters
<1>7. orphans' \in Nat /\ quality'["DiscardedSamples"] \in Nat
  BY <1>1, <1>2, <1>3, Numbers DEF Counters
<1>8. TalliesTyped'
  BY <1>1, <1>2, <1>3, TallyValues DEF TalliesTyped
<1>9. grouped' = grouped /\ samples' = samples
  BY <1>2
<1>10. Decided' = Decided + 1 /\ Listed' = Listed + 1
  BY <1>5, <1>9, TallyValues DEF Decided, Listed
<1>11. Shown' = Shown + 1
  BY <1>6, <1>7, <1>9, TallyValues DEF Shown
<1>12. QED
  BY <1>5, <1>8, <1>9, <1>10, <1>11, TallyValues DEF Moved, Came

(* A context decided by attach, new (ContextEvents counted) or waiting. *)
LEMMA AttachedEffect ==
  ASSUME TypeOK, NEW context, NEW new \in {0, 1},
         Attached(context, IF new = 1 THEN {"ContextEvents"} ELSE {})
  PROVE  Moved(0, 1, 0) /\ Came(0, new)
<1> DEFINE S == (IF new = 1 THEN {"ContextEvents"} ELSE {}) \cup {"MatchedContexts"}
<1>1. Count(S) /\ grouped' = grouped /\ samples' = samples /\ orphans' = orphans
  BY DEF Attached
<1>2. S \in SUBSET Counters
  BY DEF Counters
<1>3. /\ quality' \in [Counters -> Nat]
      /\ \A c \in Counters : quality'[c] = IF c \in S THEN quality[c] + 1 ELSE quality[c]
  <2> HIDE DEF S
  <2>1. QED
    BY <1>1, <1>2, CountEffect
<1>4. /\ quality'["MatchedContexts"] = quality["MatchedContexts"] + 1
      /\ quality'["ContextEvents"] = quality["ContextEvents"] + new
      /\ quality'["ErrorEvents"] = quality["ErrorEvents"]
      /\ quality'["AmbiguousContexts"] = quality["AmbiguousContexts"]
      /\ quality'["OrphanContexts"] = quality["OrphanContexts"]
      /\ quality'["DiscardedSamples"] = quality["DiscardedSamples"]
  BY <1>3, TallyValues DEF Counters
<1>5. TalliesTyped'
  BY <1>1, <1>3, TallyValues DEF TalliesTyped
<1>6. Decided' = Decided + 1 /\ Listed' = Listed + 0 /\ Shown' = Shown + 0
  BY <1>1, <1>4, TallyValues DEF Decided, Listed, Shown
<1>7. QED
  BY <1>1, <1>4, <1>5, <1>6, TallyValues DEF Moved, Came

LEMMA AmbiguousEffect ==
  ASSUME TypeOK, NEW context, NEW new \in {0, 1},
         Ambiguous(context, IF new = 1 THEN {"ContextEvents"} ELSE {})
  PROVE  Moved(0, 1, 1) /\ Came(0, new)
<1> DEFINE T == (IF new = 1 THEN {"ContextEvents"} ELSE {}) \cup {"AmbiguousContexts"}
           S == Counted(orphans, T)
<1>1. Count(S) /\ grouped' = grouped /\ samples' = samples /\ orphans' = More(orphans)
  BY DEF Ambiguous
<1>2. T \in SUBSET (Counters \ {"DiscardedSamples"})
  BY DEF Counters
<1>3. /\ More(orphans) \in 0..SampleLimit /\ S \in SUBSET Counters
      /\ \A c \in Counters \ {"DiscardedSamples"} : c \in S <=> c \in T
      /\ IF "DiscardedSamples" \in S THEN More(orphans) = orphans ELSE More(orphans) = orphans + 1
  <2> HIDE DEF T
  <2>1. QED
    BY <1>2, TallyValues, SampleAdded
<1> HIDE DEF S
<1>4. /\ quality' \in [Counters -> Nat]
      /\ \A c \in Counters : quality'[c] = IF c \in S THEN quality[c] + 1 ELSE quality[c]
  BY <1>1, <1>3, CountEffect
<1>5. \A c \in Counters \ {"DiscardedSamples"} :
        quality'[c] = IF c \in T THEN quality[c] + 1 ELSE quality[c]
  <2> HIDE DEF T
  <2>1. QED
    BY <1>3, <1>4
<1>6. /\ quality'["AmbiguousContexts"] = quality["AmbiguousContexts"] + 1
      /\ quality'["ContextEvents"] = quality["ContextEvents"] + new
      /\ quality'["ErrorEvents"] = quality["ErrorEvents"]
      /\ quality'["MatchedContexts"] = quality["MatchedContexts"]
      /\ quality'["OrphanContexts"] = quality["OrphanContexts"]
  BY <1>5, TallyValues DEF Counters
<1>7. orphans' + quality'["DiscardedSamples"] = orphans + quality["DiscardedSamples"] + 1
  <2> HIDE DEF T
  <2>1. QED
    BY <1>1, <1>3, <1>4, TallyValues DEF Counters
<1> HIDE DEF T
<1>8. orphans' \in Nat /\ quality'["DiscardedSamples"] \in Nat
  BY <1>1, <1>3, <1>4, Numbers DEF Counters
<1>9. TalliesTyped'
  BY <1>1, <1>3, <1>4, TallyValues DEF TalliesTyped
<1>10. grouped' = grouped /\ samples' = samples
  BY <1>1
<1>11. Decided' = Decided + 1 /\ Listed' = Listed + 1
  BY <1>6, <1>10, TallyValues DEF Decided, Listed
<1>12. Shown' = Shown + 1
  BY <1>7, <1>8, <1>10, TallyValues DEF Shown
<1>13. QED
  BY <1>6, <1>9, <1>10, <1>11, <1>12, TallyValues DEF Moved, Came

-------------------------------------------------------------------------------
(* The queues. *)

(* A context that fits no error the collector holds. *)
Lonely(context) == \A i \in 1..Len(errors) : ~Fits(errors[i], context)

LEMMA QueueTypes ==
  ASSUME TypeOK
  PROVE  /\ errors \in Seq(Records) /\ pending \in Seq(Marks)
         /\ Len(errors) \in Nat /\ Len(pending) \in Nat /\ cursor \in Nat \ {0}
         /\ \A i \in 1..Len(errors) : errors[i] \in Records
         /\ \A i \in 1..Len(pending) : pending[i] \in Marks
  BY LenProperties, ElementOfSeq DEF TypeOK

LEMMA MissedMeansFits ==
  \A c : Candidates(c) = {} <=> Lonely(c)
  BY DEF Candidates, Lonely

(* Where there is a candidate there is a nearest one. *)
LEMMA NearestExists ==
  ASSUME TypeOK, NEW context \in Marks, Nearest(context) = {}
  PROVE  Lonely(context)
<1> DEFINE S == {Distance(errors[i], context) : i \in Candidates(context)}
<1>1. S \in SUBSET Nat
  <2>1. context.at \in Nat
    BY Numbers DEF Marks
  <2>2. \A i \in Candidates(context) : errors[i] \in Records
    BY QueueTypes DEF Candidates
  <2>3. \A i \in Candidates(context) : errors[i].at \in Nat
    BY <2>2, Numbers DEF Records
  <2>4. QED
    BY <2>1, <2>3, Numbers
<1>2. SUFFICES ASSUME Candidates(context) # {} PROVE FALSE
  BY MissedMeansFits
<1>3. S # {}
  BY <1>2
<1>4. PICK m \in S : \A k \in S : m <= k
  <2> HIDE DEF S
  <2>1. QED
    BY <1>1, <1>3, MinimumExists
<1>5. PICK i \in Candidates(context) : m = Distance(errors[i], context)
  BY <1>4
<1>6. \A j \in Candidates(context) : Distance(errors[i], context) <= Distance(errors[j], context)
  BY <1>4, <1>5
<1>7. i \in Nearest(context)
  BY <1>6 DEF Nearest
<1>8. QED
  BY <1>7

(* The first record to expire is a record of its queue. *)
LEMMA FirstExpired ==
  ASSUME TypeOK
  PROVE  /\ ExpiredErrors # {} => Min(ExpiredErrors) \in 1..Len(errors)
         /\ ExpiredContexts # {} => Min(ExpiredContexts) \in 1..Len(pending)
<1>1. ExpiredErrors \in SUBSET Nat /\ ExpiredErrors \subseteq 1..Len(errors)
  BY DEF ExpiredErrors
<1>2. ExpiredContexts \in SUBSET Nat /\ ExpiredContexts \subseteq 1..Len(pending)
  BY DEF ExpiredContexts
<1>3. QED
  BY <1>1, <1>2, MinIsLeast

(* What a match leaves of an error fits no context that did not fit before, *)
(* keeps its type and names the process its contexts name.                  *)
LEMMA EnrichedProperties ==
  ASSUME NEW e \in Records, NEW context \in Marks, Fits(e, context),
         \A c \in e.joined : c.process \in {Unknown, e.process}
  PROVE  /\ Enriched(e, context) \in Records
         /\ \A c : Fits(Enriched(e, context), c) => Fits(e, c)
         /\ \A c \in Enriched(e, context).joined :
              c.process \in {Unknown, Enriched(e, context).process}
<1> DEFINE n == Enriched(e, context)
<1>1. /\ n.at = e.at /\ n.source = e.source /\ n.anchor = e.anchor
      /\ n.joined = e.joined \cup {context}
      /\ n.process = IF e.process = Unknown THEN context.process ELSE e.process
  BY DEF Enriched, Records
<1>2. n \in Records
  <2>1. context.process \in Processes \cup {Unknown}
    BY DEF Marks
  <2>2. e.joined \cup {context} \in SUBSET Marks
    BY DEF Records
  <2>3. QED
    BY <2>1, <2>2 DEF Enriched, Records
<1> HIDE DEF n
<1>3. \A c : Fits(n, c) => Fits(e, c)
  BY <1>1 DEF Fits, Compatible, Distance, Agree
<1>4. Agree(e.process, context.process)
  BY DEF Fits, Compatible
<1>5. \A c \in n.joined : c.process \in {Unknown, n.process}
  BY <1>1, <1>4 DEF Agree
<1>6. QED
  BY <1>2, <1>3, <1>5 DEF n

(* A match: the errors keep their number, and every lonely context stays so. *)
LEMMA MatchKeeps ==
  ASSUME TypeOK, JoinedInv, NEW context \in Marks, NEW counters, Attached(context, counters)
  PROVE  /\ errors' \in Seq(Records) /\ Len(errors') = Len(errors)
         /\ JoinedInv'
         /\ \A c : Lonely(c) => Lonely(c)'
<1>1. PICK i \in Nearest(context) : errors' = [errors EXCEPT ![i] = Enriched(errors[i], context)]
  BY DEF Attached
<1>2. i \in 1..Len(errors) /\ Fits(errors[i], context) /\ errors[i] \in Records
  BY QueueTypes DEF Nearest, Candidates
<1>3. /\ Enriched(errors[i], context) \in Records
      /\ \A c : Fits(Enriched(errors[i], context), c) => Fits(errors[i], c)
      /\ \A c \in Enriched(errors[i], context).joined :
           c.process \in {Unknown, Enriched(errors[i], context).process}
  BY <1>2, EnrichedProperties DEF JoinedInv
<1>4. /\ errors' \in Seq(Records) /\ Len(errors') = Len(errors)
      /\ \A k \in 1..Len(errors) :
           errors'[k] = IF k = i THEN Enriched(errors[i], context) ELSE errors[k]
  BY <1>1, <1>2, <1>3, QueueTypes, ExceptSeq
<1>5. JoinedInv'
  BY <1>3, <1>4 DEF JoinedInv
<1>6. \A c : Lonely(c) => Lonely(c)'
  BY <1>3, <1>4 DEF Lonely
<1>7. QED
  BY <1>4, <1>5, <1>6

(* An error leaves its queue. *)
LEMMA ErrorRemoved ==
  ASSUME TypeOK, JoinedInv,
         \/ \E i \in 1..Len(errors) : errors' = RemoveAt(errors, i)
         \/ errors # <<>> /\ errors' = Tail(errors)
  PROVE  /\ errors' \in Seq(Records) /\ Len(errors') = Len(errors) - 1
         /\ JoinedInv'
         /\ \A c : Lonely(c) => Lonely(c)'
<1>1. /\ errors' \in Seq(Records) /\ Len(errors') = Len(errors) - 1
      /\ \A k \in 1..Len(errors') : \E j \in 1..Len(errors) : errors'[k] = errors[j]
  BY QueueTypes, RemovalShrinks
<1>2. JoinedInv'
  BY <1>1 DEF JoinedInv
<1>3. \A c : Lonely(c) => Lonely(c)'
  BY <1>1 DEF Lonely
<1>4. QED
  BY <1>1, <1>2, <1>3

(* A context leaves its queue while no loop counts on its place. *)
LEMMA ContextRemoved ==
  ASSUME TypeOK, NoMissedMatch, stage # "match", UNCHANGED errors,
         \/ \E i \in 1..Len(pending) : pending' = RemoveAt(pending, i)
         \/ pending # <<>> /\ pending' = Tail(pending)
  PROVE  /\ pending' \in Seq(Marks) /\ Len(pending') = Len(pending) - 1
         /\ NoMissedMatch'
<1>1. /\ pending' \in Seq(Marks) /\ Len(pending') = Len(pending) - 1
      /\ \A k \in 1..Len(pending') : \E j \in 1..Len(pending) : pending'[k] = pending[j]
  <2>1. pending \in Seq(Marks)
    BY QueueTypes
  <2>2. QED
    BY <2>1, RemovalShrinks
<1>2. NoMissedMatch'
  BY <1>1 DEF NoMissedMatch, Candidates
<1>3. QED
  BY <1>1, <1>2

-------------------------------------------------------------------------------
(* The steps.  Each lemma takes the invariant over one group of actions.    *)

LEMMA ConservedSums ==
  Conserved <=> /\ quality["ErrorEvents"] = grouped + Len(errors)
                /\ quality["ContextEvents"] = Decided + Len(pending)
                /\ Listed = Shown
  BY DEF Conserved, Decided, Listed, Shown

(* Records that came in and records that were decided balance the queues. *)
LEMMA ConservedMoves ==
  ASSUME TypeOK, Conserved,
         NEW f \in {0, 1}, NEW d \in {0, 1}, NEW e \in {0, 1}, NEW c \in {0, 1}, NEW l \in {0, 1},
         Moved(f, d, l), Came(e, c),
         Len(errors') = Len(errors) + e - f, Len(pending') = Len(pending) + c - d
  PROVE  Conserved'
<1>1. /\ Len(errors) \in Nat /\ Len(pending) \in Nat /\ grouped \in Nat
      /\ quality["ErrorEvents"] \in Nat /\ quality["ContextEvents"] \in Nat
      /\ Decided \in Nat
  BY QueueTypes, TallyValues
<1>2. /\ grouped' = grouped + f /\ Decided' = Decided + d
      /\ Listed' = Listed + l /\ Shown' = Shown + l
      /\ quality'["ErrorEvents"] = quality["ErrorEvents"] + e
      /\ quality'["ContextEvents"] = quality["ContextEvents"] + c
  BY DEF Moved, Came
<1>3. /\ quality["ErrorEvents"] = grouped + Len(errors)
      /\ quality["ContextEvents"] = Decided + Len(pending)
      /\ Listed = Shown
  BY ConservedSums
<1>4. quality'["ErrorEvents"] = grouped' + Len(errors')
  BY <1>1, <1>2, <1>3
<1>5. quality'["ContextEvents"] = Decided' + Len(pending')
  BY <1>1, <1>2, <1>3
<1>6. Listed' = Shown'
  BY <1>2, <1>3
<1>7. QED
  BY <1>4, <1>5, <1>6 DEF Conserved, Decided, Listed, Shown

(* The steps that only move between loops leave records and tallies alone. *)
LEMMA RecordsKept ==
  ASSUME IInv, UNCHANGED <<queues, tallies>>
  PROVE  /\ errors' \in Seq(Records) /\ pending' \in Seq(Marks)
         /\ grouped' \in Nat /\ samples' \in 0..SampleLimit /\ orphans' \in 0..SampleLimit
         /\ quality' \in [Counters -> Nat]
         /\ Conserved' /\ JoinedInv'
  BY DEF IInv, TypeOK, Conserved, JoinedInv, queues, tallies

LEMMA ControlSteps ==
  ASSUME IInv,
         \/ \E e \in Marks, kind \in Kinds : Consume(e, kind)
         \/ AcceptOther \/ MatchOver \/ BoundOver \/ ResultBegin \/ ResultOver
  PROVE  IInv'
<1>1. UNCHANGED <<queues, tallies>>
  BY DEF Consume, AcceptOther, MatchOver, BoundOver, ResultBegin, ResultOver
<1>2. \/ /\ stage = "idle" /\ stage' \in Kinds
         /\ cursor' = cursor /\ event' \in Marks /\ consumed < MaxEvents /\ consumed' = consumed + 1
      \/ /\ stage \in {"expire other", "bound", "result"} /\ stage' = "idle"
         /\ stage = "bound" => ~TooLong(errors) /\ ~TooLong(pending)
         /\ cursor' = 1 /\ event' = NoEvent /\ consumed' = consumed
      \/ /\ stage = "match" /\ cursor > Len(pending) /\ stage' = "bound"
         /\ UNCHANGED <<cursor, event, consumed>>
      \/ stage = "idle" /\ stage' = "result" /\ UNCHANGED <<cursor, event, consumed>>
  <2>1. CASE \E e \in Marks, kind \in Kinds : Consume(e, kind)
    BY <2>1 DEF Consume
  <2>2. CASE AcceptOther \/ BoundOver \/ ResultOver
    BY <2>2 DEF AcceptOther, BoundOver, ResultOver, Return
  <2>3. CASE MatchOver \/ ResultBegin
    BY <2>3 DEF MatchOver, ResultBegin
  <2>4. QED
    BY <2>1, <2>2, <2>3
<1>3. errors' = errors /\ pending' = pending
      /\ Len(errors) \in Nat /\ Len(pending) \in Nat /\ PendingLimit \in Nat
      /\ cursor \in Nat \ {0} /\ event \in Marks \cup {NoEvent} /\ consumed \in 0..MaxEvents
      /\ MaxEvents \in Nat /\ EventInv /\ NoMissedMatch
  <2>1. TypeOK /\ EventInv /\ NoMissedMatch
    BY DEF IInv
  <2>2. cursor \in Nat \ {0} /\ event \in Marks \cup {NoEvent} /\ consumed \in 0..MaxEvents
    BY <2>1 DEF TypeOK
  <2>3. QED
    BY <1>1, <2>1, <2>2, QueueTypes, Numbers, CollectorAssumption DEF queues
<1>4. /\ stage' \in {"idle", "expire error", "expire context", "expire other", "match",
                     "bound", "result"}
      /\ cursor' \in Nat \ {0} /\ event' \in Marks \cup {NoEvent} /\ consumed' \in 0..MaxEvents
  <2>1. stage' \in {"idle", "expire error", "expire context", "expire other", "match",
                    "bound", "result"}
    BY <1>2 DEF Kinds
  <2>2. event' \in Marks \cup {NoEvent}
    BY <1>2, <1>3
  <2>3. cursor' = cursor \/ cursor' = 1
    BY <1>2
  <2>4. consumed' \in 0..MaxEvents
    <3>1. consumed' = consumed \/ (consumed < MaxEvents /\ consumed' = consumed + 1)
      BY DEF Consume, AcceptOther, MatchOver, BoundOver, ResultBegin, ResultOver
    <3>2. consumed \in 0..MaxEvents /\ MaxEvents \in Nat
      BY <1>3
    <3>3. QED
      BY <3>1, <3>2
  <2>5. cursor' \in Nat \ {0}
    BY <1>3, <2>3
  <2>6. QED
    BY <2>1, <2>2, <2>4, <2>5
<1>5. EventInv'
  BY <1>2, <1>3 DEF EventInv, Kinds
<1>6. TypeOK'
  BY <1>1, <1>4, RecordsKept DEF TypeOK
<1>7. LimitInv'
  <2>1. LimitInv
    BY DEF IInv
  <2>2. stage' # "match"
    BY <1>2 DEF Kinds
  <2>3. \/ stage = "match" /\ stage' = "bound"
        \/ ~TooLong(errors) /\ ~TooLong(pending)
        \/ stage \notin {"match", "bound"}
    BY <1>2
  <2>4. \/ stage' = "bound"
        \/ Len(errors) <= PendingLimit /\ Len(pending) <= PendingLimit
    BY <1>3, <2>1, <2>3 DEF LimitInv, TooLong
  <2>5. QED
    BY <1>3, <2>1, <2>2, <2>4 DEF LimitInv
<1>8. NoMissedMatch'
  <2>1. stage = "match" => cursor > Len(pending)
    BY <1>2 DEF Kinds
  <2>2. \A c \in 1..Len(pending) : stage = "match" => c < cursor
    BY <1>3, <2>1
  <2>3. \A c \in 1..Len(pending) : Candidates(pending[c]) = {}
    BY <1>3, <2>2 DEF NoMissedMatch
  <2>4. QED
    BY <1>3, <2>3 DEF NoMissedMatch, Candidates
<1>9. QED
  BY <1>1, <1>5, <1>6, <1>7, <1>8, RecordsKept DEF IInv

(* An error leaves its queue for its group: too old, too many, or the end. *)
LEMMA FinalizeSteps ==
  ASSUME IInv, ExpireError \/ DropError \/ FinalizeLeft
  PROVE  IInv'
<1>0. TypeOK /\ Conserved /\ LimitInv /\ EventInv /\ NoMissedMatch /\ JoinedInv
  BY DEF IInv
<1>1. Finalize /\ UNCHANGED <<pending, stage, cursor, event, consumed>> /\ stage # "match"
  BY DEF ExpireError, DropError, FinalizeLeft, Expiring
<1>2. /\ errors' \in Seq(Records) /\ Len(errors') = Len(errors) - 1 /\ JoinedInv'
      /\ \A c : Lonely(c) => Lonely(c)'
  <2>1. CASE ExpireError
    BY <1>0, <2>1, FirstExpired, ErrorRemoved DEF ExpireError
  <2>2. CASE DropError
    <3>1. errors # <<>>
      BY <1>0, <2>2, QueueTypes, Numbers, EmptySeq DEF DropError, TooLong
    <3>2. QED
      BY <1>0, <2>2, <3>1, ErrorRemoved DEF DropError
  <2>3. CASE FinalizeLeft
    BY <1>0, <2>3, ErrorRemoved DEF FinalizeLeft
  <2>4. QED
    BY <2>1, <2>2, <2>3
<1>3. Moved(1, 0, 1) /\ Came(0, 0)
  BY <1>0, <1>1, FinalizeEffect
<1>4. TypeOK'
  BY <1>0, <1>1, <1>2, <1>3 DEF TypeOK, Moved, TalliesTyped
<1>5. Conserved'
  <2>1. Len(errors') = Len(errors) + 0 - 1 /\ Len(pending') = Len(pending) + 0 - 0
    BY <1>0, <1>1, <1>2, QueueTypes
  <2>2. QED
    BY <1>0, <1>3, <2>1, ConservedMoves
<1>6. LimitInv'
  BY <1>0, <1>1, <1>2, QueueTypes, Numbers DEF LimitInv
<1>7. NoMissedMatch'
  <2>1. \A c \in 1..Len(pending) : Lonely(pending[c])
    BY <1>0, <1>1, MissedMeansFits DEF NoMissedMatch
  <2>2. \A c \in 1..Len(pending) : Lonely(pending[c])'
    BY <1>1, <1>2, <2>1 DEF Lonely
  <2>3. QED
    BY <1>1, <2>2 DEF NoMissedMatch, Candidates, Lonely
<1>8. QED
  BY <1>0, <1>1, <1>2, <1>4, <1>5, <1>6, <1>7 DEF IInv, EventInv

(* A context leaves its queue as an orphan, for the same reasons. *)
LEMMA OrphanSteps ==
  ASSUME IInv, ExpireContext \/ DropContext \/ OrphanLeft
  PROVE  IInv'
<1>0. TypeOK /\ Conserved /\ LimitInv /\ EventInv /\ NoMissedMatch /\ JoinedInv
  BY DEF IInv
<1>1. /\ AddOrphan("OrphanContexts") /\ UNCHANGED <<errors, stage, cursor, event, consumed>>
      /\ stage # "match"
  BY DEF ExpireContext, DropContext, OrphanLeft, Expiring
<1>2. pending' \in Seq(Marks) /\ Len(pending') = Len(pending) - 1 /\ NoMissedMatch'
  <2>1. CASE ExpireContext
    BY <1>0, <1>1, <2>1, FirstExpired, ContextRemoved DEF ExpireContext
  <2>2. CASE DropContext
    <3>1. pending # <<>>
      BY <1>0, <2>2, QueueTypes, Numbers, EmptySeq DEF DropContext, TooLong
    <3>2. QED
      BY <1>0, <1>1, <2>2, <3>1, ContextRemoved DEF DropContext
  <2>3. CASE OrphanLeft
    BY <1>0, <1>1, <2>3, ContextRemoved DEF OrphanLeft
  <2>4. QED
    BY <2>1, <2>2, <2>3
<1>3. Moved(0, 1, 1) /\ Came(0, 0)
  BY <1>0, <1>1, AddOrphanEffect
<1>4. TypeOK'
  BY <1>0, <1>1, <1>2, <1>3 DEF TypeOK, Moved, TalliesTyped
<1>5. Conserved'
  <2>1. Len(errors') = Len(errors) + 0 - 0 /\ Len(pending') = Len(pending) + 0 - 1
    BY <1>0, <1>1, <1>2, QueueTypes
  <2>2. QED
    BY <1>0, <1>3, <2>1, ConservedMoves
<1>6. LimitInv'
  BY <1>0, <1>1, <1>2, QueueTypes, Numbers DEF LimitInv
<1>7. JoinedInv'
  BY <1>0, <1>1 DEF JoinedInv
<1>8. QED
  BY <1>0, <1>1, <1>2, <1>4, <1>5, <1>6, <1>7 DEF IInv, EventInv

(* A step that keeps the event and counts nothing but new records. *)
LEMMA OnlyCameEffect ==
  ASSUME TypeOK, UNCHANGED <<grouped, samples, orphans>>,
         NEW new \in {0, 1},
         \/ new = 1 /\ Count({"ContextEvents"})
         \/ new = 0 /\ Count({"ErrorEvents"})
  PROVE  Moved(0, 0, 0) /\ Came(1 - new, new)
<1> DEFINE S == IF new = 1 THEN {"ContextEvents"} ELSE {"ErrorEvents"}
<1>1. S \in SUBSET Counters
  BY DEF Counters
<1>2. /\ quality' \in [Counters -> Nat]
      /\ \A c \in Counters : quality'[c] = IF c \in S THEN quality[c] + 1 ELSE quality[c]
  <2>1. Count(S)
    BY DEF Count
  <2> HIDE DEF S
  <2>2. QED
    BY <1>1, <2>1, CountEffect
<1>3. /\ quality'["MatchedContexts"] = quality["MatchedContexts"]
      /\ quality'["AmbiguousContexts"] = quality["AmbiguousContexts"]
      /\ quality'["OrphanContexts"] = quality["OrphanContexts"]
      /\ quality'["DiscardedSamples"] = quality["DiscardedSamples"]
  BY <1>2 DEF Counters
<1>4. /\ quality'["ErrorEvents"] = quality["ErrorEvents"] + (1 - new)
      /\ quality'["ContextEvents"] = quality["ContextEvents"] + new
  BY <1>2, TallyValues DEF Counters
<1>5. TalliesTyped'
  BY <1>2, TallyValues DEF TalliesTyped
<1>6. Decided' = Decided + 0 /\ Listed' = Listed + 0 /\ Shown' = Shown + 0
  BY <1>3, TallyValues DEF Decided, Listed, Shown
<1>7. QED
  BY <1>4, <1>5, <1>6, TallyValues DEF Moved, Came

(* A new error: every waiting context is about to be compared with it. *)
LEMMA AcceptErrorStep ==
  ASSUME IInv, AcceptError
  PROVE  IInv'
<1>0. TypeOK /\ Conserved /\ LimitInv /\ EventInv /\ NoMissedMatch /\ JoinedInv
  BY DEF IInv
<1>1. stage = "expire error" /\ stage' = "match" /\ cursor' = 1
  BY DEF AcceptError
<1>2. pending' = pending /\ event' = event /\ consumed' = consumed
  BY DEF AcceptError
<1>3. event \in Marks
  BY <1>0, <1>1 DEF EventInv
<1>4. NewError \in Records /\ NewError.joined = {}
  BY <1>3 DEF NewError, Marks, Records
<1>5. errors' = Append(errors, NewError)
  BY DEF AcceptError
<1>6. /\ errors \in Seq(Records) /\ Len(errors) \in Nat
      /\ pending \in Seq(Marks) /\ Len(pending) \in Nat
  BY <1>0, QueueTypes
<1>7. /\ errors' \in Seq(Records) /\ Len(errors') = Len(errors) + 1
      /\ \A i \in 1..Len(errors) : errors'[i] = errors[i]
      /\ errors'[Len(errors) + 1] = NewError
  <2> DEFINE r == NewError
  <2>1. r \in Records /\ errors' = Append(errors, r)
    BY <1>4, <1>5
  <2> HIDE DEF r
  <2>2. /\ errors' \in Seq(Records) /\ Len(errors') = Len(errors) + 1
        /\ \A i \in 1..Len(errors) : errors'[i] = errors[i]
        /\ errors'[Len(errors) + 1] = r
    BY <1>6, <2>1, AppendProperties
  <2>3. QED
    BY <2>2 DEF r
<1>8. Moved(0, 0, 0) /\ Came(1, 0)
  <2>1. UNCHANGED <<grouped, samples, orphans>> /\ Count({"ErrorEvents"})
    BY DEF AcceptError
  <2>2. Moved(0, 0, 0) /\ Came(1 - 0, 0)
    BY <1>0, <2>1, OnlyCameEffect
  <2>3. 1 - 0 = 1
    OBVIOUS
  <2>4. QED
    BY <2>2, <2>3
<1>9. TypeOK'
  <2>1. TalliesTyped'
    BY <1>8 DEF Moved
  <2>2. event' \in Marks \cup {NoEvent} /\ consumed' \in 0..MaxEvents /\ pending' \in Seq(Marks)
    BY <1>0, <1>2, <1>3, <1>6 DEF TypeOK
  <2>3. /\ stage' \in {"idle", "expire error", "expire context", "expire other", "match",
                       "bound", "result"}
        /\ cursor' \in Nat \ {0}
    <3>1. stage' = "match"
      BY <1>1
    <3>2. cursor' = 1
      BY <1>1
    <3>3. cursor' \in Nat \ {0}
      BY <3>2
    <3>4. QED
      BY <3>1, <3>3
  <2>4. errors' \in Seq(Records)
    BY <1>7
  <2>5. QED
    BY <2>1, <2>2, <2>3, <2>4 DEF TypeOK, TalliesTyped
<1>10. Conserved'
  <2>1. Len(errors') = Len(errors) + 1 - 0 /\ Len(pending') = Len(pending) + 0 - 0
    BY <1>2, <1>6, <1>7
  <2>2. QED
    BY <1>0, <1>8, <2>1, ConservedMoves
<1>11. LimitInv'
  <2>1. Len(errors) <= PendingLimit /\ Len(pending) <= PendingLimit /\ PendingLimit \in Nat
    BY <1>0, <1>1, Numbers DEF LimitInv
  <2>2. /\ Len(errors') <= PendingLimit + 1 /\ Len(pending') <= PendingLimit
        /\ Len(pending') <= PendingLimit + 1
        /\ Len(errors') + Len(pending') <= 2 * PendingLimit + 1
    BY <1>2, <1>6, <1>7, <2>1
  <2>3. QED
    BY <1>1, <2>2 DEF LimitInv
<1>12. JoinedInv'
  <2>1. \A i \in 1..Len(errors') : i \in 1..Len(errors) \/ i = Len(errors) + 1
    BY <1>6, <1>7
  <2>2. ASSUME NEW i \in 1..Len(errors'), NEW c \in errors'[i].joined
        PROVE  c.process \in {Unknown, errors'[i].process}
    <3>1. i \in 1..Len(errors) /\ errors'[i] = errors[i]
      BY <1>4, <1>7, <2>1, <2>2
    <3>2. QED
      BY <1>0, <2>2, <3>1 DEF JoinedInv
  <2>3. QED
    BY <2>2 DEF JoinedInv
<1>13. NoMissedMatch'
  <2>1. \A c \in 1..Len(pending) : ~(c < 1)
    BY <1>6
  <2>2. QED
    BY <1>1, <1>2, <2>1 DEF NoMissedMatch
<1>14. EventInv'
  BY <1>2, <1>3 DEF EventInv
<1>15. QED
  BY <1>9, <1>10, <1>11, <1>12, <1>13, <1>14 DEF IInv

(* A context that is decided changes neither queue but the error it joins. *)
LEMMA DecidedKeeps ==
  ASSUME IInv, NEW context \in Marks, NEW new \in {0, 1},
         \/ Attached(context, IF new = 1 THEN {"ContextEvents"} ELSE {})
         \/ Ambiguous(context, IF new = 1 THEN {"ContextEvents"} ELSE {})
  PROVE  /\ errors' \in Seq(Records) /\ Len(errors') = Len(errors)
         /\ JoinedInv'
         /\ \A c : Lonely(c) => Lonely(c)'
         /\ \E l \in {0, 1} : Moved(0, 1, l) /\ Came(0, new)
<1>0. TypeOK /\ JoinedInv
  BY DEF IInv
<1>1. CASE Attached(context, IF new = 1 THEN {"ContextEvents"} ELSE {})
  <2>1. Moved(0, 1, 0) /\ Came(0, new)
    BY <1>0, <1>1, AttachedEffect
  <2>2. QED
    BY <1>0, <1>1, <2>1, MatchKeeps
<1>2. CASE Ambiguous(context, IF new = 1 THEN {"ContextEvents"} ELSE {})
  <2>1. Moved(0, 1, 1) /\ Came(0, new)
    BY <1>0, <1>2, AmbiguousEffect
  <2>2. errors' = errors
    BY <1>2 DEF Ambiguous
  <2>3. QED
    BY <1>0, <2>1, <2>2, QueueTypes DEF JoinedInv, Lonely
<1>3. QED
  BY <1>1, <1>2

(* A new context: joined, given up as ambiguous, or left to wait. *)
LEMMA AcceptContextStep ==
  ASSUME IInv, AcceptContext
  PROVE  IInv'
<1>0. TypeOK /\ Conserved /\ LimitInv /\ EventInv /\ NoMissedMatch /\ JoinedInv
  BY DEF IInv
<1>1. stage = "expire context" /\ consumed' = consumed
  BY DEF AcceptContext
<1>2. event \in Marks
  BY <1>0, <1>1 DEF EventInv
<1>3. Len(errors) <= PendingLimit /\ Len(pending) <= PendingLimit
  BY <1>0, <1>1 DEF LimitInv
<1>4. \A c \in 1..Len(pending) : Lonely(pending[c])
  BY <1>0, <1>1, MissedMeansFits DEF NoMissedMatch
<1>5. CASE /\ Attached(event, {"ContextEvents"}) \/ Ambiguous(event, {"ContextEvents"})
           /\ Return /\ UNCHANGED pending
  <2>1. /\ errors' \in Seq(Records) /\ Len(errors') = Len(errors) /\ JoinedInv'
        /\ \A c : Lonely(c) => Lonely(c)'
        /\ \E l \in {0, 1} : Moved(0, 1, l) /\ Came(0, 1)
    <3>1. \/ Attached(event, IF 1 = 1 THEN {"ContextEvents"} ELSE {})
          \/ Ambiguous(event, IF 1 = 1 THEN {"ContextEvents"} ELSE {})
      BY <1>5
    <3>2. QED
      BY <1>2, <3>1, DecidedKeeps
  <2>2. PICK l \in {0, 1} : Moved(0, 1, l) /\ Came(0, 1)
    BY <2>1
  <2>3. stage' = "idle" /\ cursor' = 1 /\ event' = NoEvent /\ pending' = pending
    BY <1>5 DEF Return
  <2>4. TypeOK'
    <3>1. TalliesTyped'
      BY <2>2 DEF Moved
    <3>2. consumed' \in 0..MaxEvents /\ pending' \in Seq(Marks)
      BY <1>0, <1>1, <2>3 DEF TypeOK
    <3>3. QED
      BY <2>1, <2>3, <3>1, <3>2 DEF TypeOK, TalliesTyped
  <2>5. Conserved'
    <3>1. Len(errors') = Len(errors) + 0 - 0 /\ Len(pending') = Len(pending) + 1 - 1
      BY <1>0, <2>1, <2>3, QueueTypes
    <3>2. QED
      BY <1>0, <2>2, <3>1, ConservedMoves
  <2>6. LimitInv'
    BY <1>0, <1>3, <2>1, <2>3, QueueTypes, Numbers DEF LimitInv
  <2>7. NoMissedMatch'
    <3>1. \A c \in 1..Len(pending) : Lonely(pending[c])'
      BY <1>4, <2>1, <2>3 DEF Lonely
    <3>2. QED
      BY <2>3, <3>1 DEF NoMissedMatch, Candidates, Lonely
  <2>8. EventInv'
    BY <2>3 DEF EventInv
  <2>9. QED
    BY <2>1, <2>4, <2>5, <2>6, <2>7, <2>8 DEF IInv
<1>6. CASE /\ Nearest(event) = {} /\ Count({"ContextEvents"})
           /\ pending' = Append(pending, event) /\ stage' = "bound"
           /\ UNCHANGED <<errors, grouped, samples, orphans, cursor, event>>
  <2>1. /\ pending' \in Seq(Marks) /\ Len(pending') = Len(pending) + 1
        /\ \A i \in 1..Len(pending') : IF i = Len(pending) + 1 THEN pending'[i] = event
                                                             ELSE pending'[i] = pending[i]
    <3>1. pending \in Seq(Marks) /\ Len(pending) \in Nat
      BY <1>0, QueueTypes
    <3>2. QED
      BY <1>2, <1>6, <3>1, AppendProperties
  <2>2. Moved(0, 0, 0) /\ Came(0, 1)
    <3>1. Moved(0, 0, 0) /\ Came(1 - 1, 1)
      BY <1>0, <1>6, OnlyCameEffect
    <3>2. QED
      BY <3>1
  <2>3. TypeOK'
    BY <1>0, <1>1, <1>6, <2>1, <2>2 DEF TypeOK, Moved, TalliesTyped
  <2>4. Conserved'
    <3>1. Len(errors') = Len(errors) + 0 - 0 /\ Len(pending') = Len(pending) + 1 - 0
      BY <1>0, <1>6, <2>1, QueueTypes
    <3>2. QED
      BY <1>0, <2>2, <3>1, ConservedMoves
  <2>5. LimitInv'
    BY <1>0, <1>3, <1>6, <2>1, QueueTypes, Numbers DEF LimitInv
  <2>6. NoMissedMatch'
    <3>1. Lonely(event)
      BY <1>0, <1>2, <1>6, NearestExists
    <3>2. \A c \in 1..Len(pending') : c # Len(pending) + 1 => c \in 1..Len(pending)
      BY <1>0, <2>1, QueueTypes
    <3>3. \A c \in 1..Len(pending') : Lonely(pending'[c])
      BY <1>4, <2>1, <3>1, <3>2
    <3>4. errors' = errors
      BY <1>6
    <3>5. QED
      BY <3>3, <3>4 DEF NoMissedMatch, Candidates, Lonely
  <2>7. JoinedInv' /\ EventInv'
    BY <1>0, <1>2, <1>6 DEF JoinedInv, EventInv
  <2>8. QED
    BY <2>3, <2>4, <2>5, <2>6, <2>7 DEF IInv
<1>7. QED
  BY <1>5, <1>6 DEF AcceptContext

(* matchPending: the waiting context at the cursor leaves the queue, or      *)
(* fits nothing and is passed; those before the cursor still fit nothing.    *)
LEMMA MatchNextStep ==
  ASSUME IInv, MatchNext
  PROVE  IInv'
<1>0. TypeOK /\ Conserved /\ LimitInv /\ EventInv /\ NoMissedMatch /\ JoinedInv
  BY DEF IInv
<1>1. stage = "match" /\ cursor <= Len(pending)
  BY DEF MatchNext
<1>2. stage' = stage /\ event' = event /\ consumed' = consumed
  BY DEF MatchNext
<1>3. /\ errors \in Seq(Records) /\ Len(errors) \in Nat
      /\ pending \in Seq(Marks) /\ Len(pending) \in Nat
      /\ cursor \in Nat \ {0} /\ cursor \in 1..Len(pending) /\ pending[cursor] \in Marks
  BY <1>0, <1>1, QueueTypes
<1>4. \A c \in 1..Len(pending) : c < cursor => Lonely(pending[c])
  BY <1>0, <1>1, MissedMeansFits DEF NoMissedMatch
<1>5. Len(pending) <= PendingLimit /\ Len(errors) <= PendingLimit + 1 /\ PendingLimit \in Nat
  BY <1>0, <1>1, Numbers DEF LimitInv
<1>6. EventInv'
  BY <1>0, <1>2 DEF EventInv
<1>7. CASE /\ Attached(pending[cursor], {}) \/ Ambiguous(pending[cursor], {})
           /\ pending' = RemoveAt(pending, cursor) /\ UNCHANGED cursor
  <2>1. /\ errors' \in Seq(Records) /\ Len(errors') = Len(errors) /\ JoinedInv'
        /\ \A c : Lonely(c) => Lonely(c)'
        /\ \E l \in {0, 1} : Moved(0, 1, l) /\ Came(0, 0)
    <3>1. \/ Attached(pending[cursor], IF 0 = 1 THEN {"ContextEvents"} ELSE {})
          \/ Ambiguous(pending[cursor], IF 0 = 1 THEN {"ContextEvents"} ELSE {})
      BY <1>7
    <3>2. QED
      BY <1>3, <3>1, DecidedKeeps
  <2>2. PICK l \in {0, 1} : Moved(0, 1, l) /\ Came(0, 0)
    BY <2>1
  <2>3. /\ pending' \in Seq(Marks) /\ Len(pending') = Len(pending) - 1
        /\ \A k \in 1..(Len(pending) - 1) :
             pending'[k] = IF k < cursor THEN pending[k] ELSE pending[k + 1]
    BY <1>3, <1>7, RemoveAtProperties
  <2>4. TypeOK'
    <3>1. TalliesTyped'
      BY <2>2 DEF Moved
    <3>2. consumed' \in 0..MaxEvents /\ event' \in Marks \cup {NoEvent} /\ cursor' \in Nat \ {0}
          /\ stage' \in {"idle", "expire error", "expire context", "expire other", "match",
                         "bound", "result"}
      BY <1>0, <1>2, <1>7 DEF TypeOK
    <3>3. QED
      BY <2>1, <2>3, <3>1, <3>2 DEF TypeOK, TalliesTyped
  <2>5. Conserved'
    <3>1. Len(errors') = Len(errors) + 0 - 0 /\ Len(pending') = Len(pending) + 0 - 1
      BY <1>3, <2>1, <2>3
    <3>2. QED
      BY <1>0, <2>2, <3>1, ConservedMoves
  <2>6. LimitInv'
    <3>1. /\ Len(errors') <= PendingLimit + 1 /\ Len(pending') <= PendingLimit
          /\ Len(pending') <= PendingLimit + 1
          /\ Len(errors') + Len(pending') <= 2 * PendingLimit + 1
      BY <1>3, <1>5, <2>1, <2>3
    <3>2. QED
      BY <1>1, <1>2, <3>1 DEF LimitInv
  <2>7. NoMissedMatch'
    <3>1. cursor' = cursor
      BY <1>7
    <3>2. ASSUME NEW c \in 1..Len(pending'), c < cursor'
          PROVE  \A i \in 1..Len(errors') : ~Fits(errors'[i], pending'[c])
      <4>1. c \in 1..(Len(pending) - 1) /\ c \in 1..Len(pending) /\ c < cursor
        BY <1>3, <2>3, <3>1, <3>2
      <4>2. pending'[c] = pending[c]
        BY <2>3, <4>1
      <4>3. Lonely(pending[c])
        BY <1>4, <4>1
      <4>4. \A i \in 1..Len(errors') : ~Fits(errors'[i], pending[c])
        BY <2>1, <4>3 DEF Lonely
      <4>5. QED
        BY <4>2, <4>4
    <3>3. stage' = "match"
      BY <1>1, <1>2
    <3>4. QED
      BY <3>2, <3>3 DEF NoMissedMatch, Candidates
  <2>8. QED
    BY <1>6, <2>1, <2>4, <2>5, <2>6, <2>7 DEF IInv
<1>8. CASE Nearest(pending[cursor]) = {} /\ cursor' = cursor + 1 /\ UNCHANGED <<queues, tallies>>
  <2>1. errors' = errors /\ pending' = pending
    BY <1>8 DEF queues
  <2>2. TypeOK'
    <3>1. /\ errors' \in Seq(Records) /\ pending' \in Seq(Marks)
          /\ grouped' \in Nat /\ samples' \in 0..SampleLimit /\ orphans' \in 0..SampleLimit
          /\ quality' \in [Counters -> Nat]
      BY <1>8, RecordsKept
    <3>2. consumed' \in 0..MaxEvents /\ event' \in Marks \cup {NoEvent}
          /\ stage' \in {"idle", "expire error", "expire context", "expire other", "match",
                         "bound", "result"}
      BY <1>0, <1>2 DEF TypeOK
    <3>3. cursor' \in Nat \ {0}
      BY <1>3, <1>8
    <3>4. QED
      BY <3>1, <3>2, <3>3 DEF TypeOK
  <2>3. Conserved' /\ JoinedInv'
    BY <1>8, RecordsKept
  <2>4. LimitInv'
    BY <1>0, <1>2, <2>1 DEF LimitInv
  <2>5. NoMissedMatch'
    <3>1. Lonely(pending[cursor])
      BY <1>0, <1>3, <1>8, NearestExists
    <3>2. \A c \in 1..Len(pending) : c < cursor + 1 => c < cursor \/ c = cursor
      BY <1>3
    <3>3. \A c \in 1..Len(pending) : c < cursor + 1 =>
            \A i \in 1..Len(errors) : ~Fits(errors[i], pending[c])
      BY <1>4, <3>1, <3>2 DEF Lonely
    <3>4. stage' = "match" /\ cursor' = cursor + 1
      BY <1>1, <1>2, <1>8
    <3>5. QED
      BY <2>1, <3>3, <3>4 DEF NoMissedMatch, Candidates
  <2>6. QED
    BY <1>6, <2>2, <2>3, <2>4, <2>5 DEF IInv
<1>9. QED
  BY <1>7, <1>8 DEF MatchNext

-------------------------------------------------------------------------------
LEMMA InitHasInv == Init => IInv
<1> SUFFICES ASSUME Init PROVE IInv
  OBVIOUS
<1>1. /\ errors = <<>> /\ pending = <<>> /\ grouped = 0 /\ samples = 0 /\ orphans = 0
      /\ stage = "idle" /\ cursor = 1 /\ event = NoEvent /\ consumed = 0
      /\ quality = [c \in Counters |-> 0]
  BY DEF Init
<1>2. errors \in Seq(Records) /\ pending \in Seq(Marks) /\ Len(errors) = 0 /\ Len(pending) = 0
  BY <1>1, EmptySeq
<1>3. TypeOK
  <2>1. samples \in 0..SampleLimit /\ orphans \in 0..SampleLimit /\ consumed \in 0..MaxEvents
    BY <1>1, CollectorAssumption
  <2>2. cursor \in Nat \ {0} /\ grouped \in Nat /\ quality \in [Counters -> Nat]
    BY <1>1
  <2>3. QED
    BY <1>1, <1>2, <2>1, <2>2 DEF TypeOK
<1>4. Conserved
  <2>1. \A c \in Counters : quality[c] = 0
    BY <1>1
  <2>2. QED
    BY <1>1, <1>2, <2>1 DEF Conserved, Counters
<1>5. LimitInv
  BY <1>2, Numbers DEF LimitInv
<1>6. EventInv /\ NoMissedMatch /\ JoinedInv
  BY <1>1, <1>2 DEF EventInv, NoMissedMatch, JoinedInv
<1>7. QED
  BY <1>3, <1>4, <1>5, <1>6 DEF IInv

LEMMA StepKeepsInv == IInv /\ [Next]_vars => IInv'
<1> SUFFICES ASSUME IInv, [Next]_vars PROVE IInv'
  OBVIOUS
<1>1. CASE \/ \E e \in Marks, kind \in Kinds : Consume(e, kind)
           \/ AcceptOther \/ MatchOver \/ BoundOver \/ ResultBegin \/ ResultOver
  BY <1>1, ControlSteps
<1>2. CASE ExpireError \/ DropError \/ FinalizeLeft
  BY <1>2, FinalizeSteps
<1>3. CASE ExpireContext \/ DropContext \/ OrphanLeft
  BY <1>3, OrphanSteps
<1>4. CASE AcceptError
  BY <1>4, AcceptErrorStep
<1>5. CASE AcceptContext
  BY <1>5, AcceptContextStep
<1>6. CASE MatchNext
  BY <1>6, MatchNextStep
<1>7. CASE UNCHANGED vars
  <2>1. UNCHANGED <<queues, tallies>> /\ UNCHANGED <<stage, cursor, event, consumed>>
    BY <1>7 DEF vars
  <2>2. errors' = errors /\ pending' = pending
    BY <2>1 DEF queues
  <2>3. TypeOK' /\ EventInv' /\ LimitInv'
    BY <2>1, <2>2, RecordsKept DEF IInv, TypeOK, EventInv, LimitInv
  <2>4. NoMissedMatch'
    BY <2>1, <2>2 DEF IInv, NoMissedMatch, Candidates
  <2>5. QED
    BY <2>1, <2>3, <2>4, RecordsKept DEF IInv
<1>8. QED
  BY <1>1, <1>2, <1>3, <1>4, <1>5, <1>6, <1>7 DEF Next, ConsumeNext, ResultNext

(* The invariant of the collector, in every step of every loop. *)
THEOREM Inductive == Spec => []IInv
  BY InitHasInv, StepKeepsInv, PTL DEF Spec

(* Consume and Result: no error and no context is lost or counted twice,    *)
(* and what the bounded sample lists do not show is counted as discarded.   *)
THEOREM RecordsAreConserved == Spec => []Conserved
<1>1. IInv => Conserved
  BY DEF IInv
<1>2. QED
  BY <1>1, Inductive, PTL

(* Consume: a context never waits beside a retained error that it fits,     *)
(* although a match changes what an error is compatible with.               *)
THEOREM NoMatchIsMissed == Spec => []NoMissedMatch
<1>1. IInv => NoMissedMatch
  BY DEF IInv
<1>2. QED
  BY <1>1, Inductive, PTL

(* boundErrors and boundPending: the queues keep the retention limit. *)
THEOREM QueuesAreBounded == Spec => []QueuesBounded
<1>1. IInv => QueuesBounded
  BY DEF IInv, LimitInv, QueuesBounded
<1>2. QED
  BY <1>1, Inductive, PTL

(* enrich: the contexts joined to one error agree about the process. *)
THEOREM JoinedContextsAgree == Spec => []JoinedAgree
<1>1. IInv => JoinedAgree
  BY DEF IInv, JoinedInv, JoinedAgree, Agree
<1>2. QED
  BY <1>1, Inductive, PTL

(* Queues, counters and the event in work keep their types. *)
THEOREM CollectorTypes == Spec => []TypeOK
<1>1. IInv => TypeOK
  BY DEF IInv
<1>2. QED
  BY <1>1, Inductive, PTL
===============================================================================
