-------------------------- MODULE SessionStatsProofs --------------------------
(***************************************************************************)
(* The counters of the session collector balance for every finite set of   *)
(* identities, every limit and every input, in whatever order its          *)
(* timestamps come; and where every session lasts, the timeline counts     *)
(* exactly the sessions active at each timestamp.                          *)
(***************************************************************************)
EXTENDS SessionStats, FiniteSetTheorems, SequenceTheorems, NaturalsInduction, WellFoundedInduction,
        TLAPS

IInv == TypeOK /\ Balanced

(* The identities with an open session are finitely many. *)
LEMMA OpenKeysFinite == IsFiniteSet(OpenKeys) /\ Cardinality(OpenKeys) \in Nat
  BY SessionAssumption, FS_Subset, FS_CardinalityType DEF OpenKeys

(* Opening and closing an identity moves the number of open sessions by one. *)
LEMMA OpenKeysChange ==
  ASSUME TypeOK, NEW key \in Keys, NEW at \in Times
  PROVE  /\ open[key] = Closed /\ open' = [open EXCEPT ![key] = at]
              => Cardinality(OpenKeys') = Cardinality(OpenKeys) + 1
         /\ open[key] # Closed /\ open' = [open EXCEPT ![key] = at] => OpenKeys' = OpenKeys
         /\ open[key] # Closed /\ open' = [open EXCEPT ![key] = Closed]
              => Cardinality(OpenKeys') = Cardinality(OpenKeys) - 1
<1>1. at # Closed
  BY SessionAssumption DEF Times, Closed
<1>2. ASSUME open[key] = Closed, open' = [open EXCEPT ![key] = at]
      PROVE  Cardinality(OpenKeys') = Cardinality(OpenKeys) + 1
  <2>1. OpenKeys' = OpenKeys \cup {key} /\ key \notin OpenKeys
    BY <1>1, <1>2 DEF TypeOK, OpenKeys
  <2>2. QED
    BY <2>1, OpenKeysFinite, FS_AddElement
<1>3. ASSUME open[key] # Closed, open' = [open EXCEPT ![key] = at]
      PROVE  OpenKeys' = OpenKeys
  BY <1>1, <1>3 DEF TypeOK, OpenKeys
<1>4. ASSUME open[key] # Closed, open' = [open EXCEPT ![key] = Closed]
      PROVE  Cardinality(OpenKeys') = Cardinality(OpenKeys) - 1
  <2>1. OpenKeys' = OpenKeys \ {key} /\ key \in OpenKeys
    BY <1>4 DEF TypeOK, OpenKeys
  <2>2. QED
    BY <2>1, OpenKeysFinite, FS_RemoveElement
<1>5. QED
  BY <1>2, <1>3, <1>4

(* A change that is recorded keeps the record of changes well typed. *)
LEMMA ChangesTyped ==
  ASSUME TypeOK, NEW key \in Keys, NEW at \in Times, NEW delta \in {-1, 1}
  PROVE  /\ Change(at, delta, key) \in [at : Times, delta : {-1, 1}, key : Keys]
         /\ Append(changes, Change(at, delta, key)) \in Seq([at : Times, delta : {-1, 1}, key : Keys])
<1>1. Change(at, delta, key) \in [at : Times, delta : {-1, 1}, key : Keys]
  BY DEF Change
<1>2. QED
  BY <1>1, AppendProperties DEF TypeOK

(* Count adds one to the counters it is given and leaves the others alone. *)
LEMMA CountEffect ==
  ASSUME TypeOK, NEW S \in SUBSET Counters, Count(S)
  PROVE  /\ quality' \in [Counters -> Nat]
         /\ \A c \in Counters : quality'[c] = IF c \in S THEN quality[c] + 1 ELSE quality[c]
  BY DEF TypeOK, Count

(* A bounded list either grows by one or counts a record as dropped. *)
LEMMA BoundedAdd ==
  ASSUME NEW limit \in Nat \ {0}, NEW retained \in 0..limit, NEW counter
  PROVE  /\ More(retained, limit) \in 0..limit
         /\ \/ More(retained, limit) = retained + 1 /\ Dropped(retained, limit, counter) = {}
            \/ More(retained, limit) = retained /\ Dropped(retained, limit, counter) = {counter}
  BY DEF More, Dropped

(* Starting from balanced counters, every event is counted on both sides. *)
LEMMA StepKeepsInv == IInv /\ [Next]_vars => IInv'
<1> SUFFICES ASSUME IInv, [Next]_vars PROVE IInv'
  OBVIOUS
<1> USE DEF IInv
<1>0. /\ SessionLimit \in Nat \ {0} /\ SampleLimit \in Nat \ {0}
      /\ completed \in 0..SessionLimit /\ unclosed \in 0..SampleLimit /\ orphans \in 0..SampleLimit
      /\ \A c \in Counters : quality[c] \in Nat
  BY SessionAssumption DEF TypeOK
<1>1. CASE NoIdentity
  <2>1. OpenKeys' = OpenKeys
    BY <1>1 DEF NoIdentity, OpenKeys
  <2>2. /\ quality' \in [Counters -> Nat]
        /\ \A c \in Counters :
             quality'[c] = IF c \in {"LifecycleEvents", "MissingID"} THEN quality[c] + 1 ELSE quality[c]
    <3>1. {"LifecycleEvents", "MissingID"} \in SUBSET Counters
      BY DEF Counters
    <3>2. QED
      BY <1>1, <3>1, CountEffect DEF NoIdentity
  <2>3. TypeOK'
    BY <1>1, <2>2 DEF TypeOK, NoIdentity
  <2>4. Balanced'
    <3>1. completed' = completed /\ unclosed' = unclosed /\ orphans' = orphans
      BY <1>1 DEF NoIdentity
    <3>2. QED
      BY <1>0, <2>1, <2>2, <3>1, OpenKeysFinite DEF Balanced, Counters
  <2>5. QED
    BY <2>3, <2>4
<1>2. ASSUME NEW key \in Keys, NEW at \in Times, Start(key, at)
      PROVE  IInv'
  <2>1. Cardinality(OpenKeys') = Cardinality(OpenKeys) + 1
    BY <1>2, OpenKeysChange DEF Start
  <2>2. changes' \in Seq([at : Times, delta : {-1, 1}, key : Keys])
    BY <1>2, ChangesTyped DEF Start
  <2>3. /\ quality' \in [Counters -> Nat]
        /\ \A c \in Counters :
             quality'[c] = IF c \in {"LifecycleEvents", "StartEvents"} THEN quality[c] + 1 ELSE quality[c]
    <3>1. {"LifecycleEvents", "StartEvents"} \in SUBSET Counters
      BY DEF Counters
    <3>2. QED
      BY <1>2, <3>1, CountEffect DEF Start
  <2>4. TypeOK'
    BY <1>2, <2>2, <2>3 DEF TypeOK, Start
  <2>5. Balanced'
    <3>1. completed' = completed /\ unclosed' = unclosed /\ orphans' = orphans
      BY <1>2 DEF Start
    <3>2. QED
      BY <1>0, <2>1, <2>3, <3>1, OpenKeysFinite DEF Balanced, Counters
  <2>6. QED
    BY <2>4, <2>5
<1>3. ASSUME NEW key \in Keys, NEW at \in Times, Replace(key, at)
      PROVE  IInv'
  <2> DEFINE D == Dropped(unclosed, SampleLimit, "DiscardedSamples")
             S == {"LifecycleEvents", "StartEvents", "ReplacedOpenSessions"} \cup D
  <2>1. OpenKeys' = OpenKeys
    BY <1>3, OpenKeysChange DEF Replace
  <2>2. changes' \in Seq([at : Times, delta : {-1, 1}, key : Keys])
    <3>1. <<Change(at, -1, key), Change(at, 1, key)>> \in Seq([at : Times, delta : {-1, 1}, key : Keys])
      BY ChangesTyped
    <3>2. QED
      BY <1>3, <3>1, ConcatProperties DEF Replace, TypeOK
  <2>3. /\ unclosed' \in 0..SampleLimit
        /\ \/ unclosed' = unclosed + 1 /\ D = {}
           \/ unclosed' = unclosed /\ D = {"DiscardedSamples"}
    BY <1>0, <1>3, BoundedAdd DEF Replace
  <2>4. S \in SUBSET Counters
    BY <2>3 DEF Counters
  <2>5. Count(S)
    BY <1>3 DEF Replace
  <2>6. /\ quality' \in [Counters -> Nat]
        /\ \A c \in Counters : quality'[c] = IF c \in S THEN quality[c] + 1 ELSE quality[c]
    BY <2>4, <2>5, CountEffect
  <2>7. TypeOK'
    BY <1>3, <2>2, <2>3, <2>6 DEF TypeOK, Replace
  <2>8. Balanced'
    <3>1. completed' = completed /\ orphans' = orphans
      BY <1>3 DEF Replace
    <3>2. QED
      BY <1>0, <2>1, <2>3, <2>6, <3>1, OpenKeysFinite DEF Balanced, Counters
  <2>9. QED
    BY <2>7, <2>8
<1>4. ASSUME NEW key \in Keys, NEW at \in Times, Finish(key, at)
      PROVE  IInv'
  <2> DEFINE D == Dropped(completed, SessionLimit, "DiscardedSessions")
             S == {"LifecycleEvents", "FinishEvents", "CompletedSessions"} \cup D
  <2>1. Cardinality(OpenKeys') = Cardinality(OpenKeys) - 1
    BY <1>4, OpenKeysChange DEF Finish, MayPair
  <2>2. changes' \in Seq([at : Times, delta : {-1, 1}, key : Keys])
    BY <1>4, ChangesTyped DEF Finish
  <2>3. /\ completed' \in 0..SessionLimit
        /\ \/ completed' = completed + 1 /\ D = {}
           \/ completed' = completed /\ D = {"DiscardedSessions"}
    BY <1>0, <1>4, BoundedAdd DEF Finish
  <2>4. S \in SUBSET Counters
    BY <2>3 DEF Counters
  <2>5. Count(S)
    BY <1>4 DEF Finish
  <2>6. /\ quality' \in [Counters -> Nat]
        /\ \A c \in Counters : quality'[c] = IF c \in S THEN quality[c] + 1 ELSE quality[c]
    BY <2>4, <2>5, CountEffect
  <2>7. TypeOK'
    BY <1>4, <2>2, <2>3, <2>6 DEF TypeOK, Finish
  <2>8. Balanced'
    <3>1. unclosed' = unclosed /\ orphans' = orphans
      BY <1>4 DEF Finish
    <3>2. QED
      BY <1>0, <2>1, <2>3, <2>6, <3>1, OpenKeysFinite DEF Balanced, Counters
  <2>9. QED
    BY <2>7, <2>8
<1>5. ASSUME NEW key \in Keys, NEW at \in Times, OrphanFinish(key, at)
      PROVE  IInv'
  <2> DEFINE D == Dropped(orphans, SampleLimit, "DiscardedSamples")
             S == {"LifecycleEvents", "FinishEvents", "UnmatchedFinishes"} \cup D
  <2>1. OpenKeys' = OpenKeys
    BY <1>5 DEF OrphanFinish, OpenKeys
  <2>3. /\ orphans' \in 0..SampleLimit
        /\ \/ orphans' = orphans + 1 /\ D = {}
           \/ orphans' = orphans /\ D = {"DiscardedSamples"}
    BY <1>0, <1>5, BoundedAdd DEF OrphanFinish
  <2>4. S \in SUBSET Counters
    BY <2>3 DEF Counters
  <2>5. Count(S)
    BY <1>5 DEF OrphanFinish
  <2>6. /\ quality' \in [Counters -> Nat]
        /\ \A c \in Counters : quality'[c] = IF c \in S THEN quality[c] + 1 ELSE quality[c]
    BY <2>4, <2>5, CountEffect
  <2>7. TypeOK'
    BY <1>5, <2>3, <2>6 DEF TypeOK, OrphanFinish
  <2>8. Balanced'
    <3>1. completed' = completed /\ unclosed' = unclosed
      BY <1>5 DEF OrphanFinish
    <3>2. CASE orphans' = orphans + 1 /\ D = {}
      <4>1. \A c \in Counters :
              quality'[c] = IF c \in {"LifecycleEvents", "FinishEvents", "UnmatchedFinishes"}
                            THEN quality[c] + 1 ELSE quality[c]
        BY <2>6, <3>2
      <4>2. QED
        BY <1>0, <2>1, <3>1, <3>2, <4>1, OpenKeysFinite DEF Balanced, Counters
    <3>3. CASE orphans' = orphans /\ D = {"DiscardedSamples"}
      <4>1. \A c \in Counters :
              quality'[c] = IF c \in {"LifecycleEvents", "FinishEvents", "UnmatchedFinishes",
                                      "DiscardedSamples"}
                            THEN quality[c] + 1 ELSE quality[c]
        BY <2>6, <3>3
      <4>2. QED
        BY <1>0, <2>1, <3>1, <3>3, <4>1, OpenKeysFinite DEF Balanced, Counters
    <3>4. QED
      BY <2>3, <3>2, <3>3
  <2>9. QED
    BY <2>7, <2>8
<1>6. CASE UNCHANGED vars
  BY <1>6 DEF vars, TypeOK, Balanced, OpenKeys
<1>7. QED
  BY <1>1, <1>2, <1>3, <1>4, <1>5, <1>6 DEF Next, Consume

LEMMA InitHasInv == Init => IInv
<1> SUFFICES ASSUME Init PROVE IInv
  OBVIOUS
<1>1. OpenKeys = {}
  BY DEF Init, OpenKeys
<1>2. Cardinality(OpenKeys) = 0
  BY <1>1, FS_EmptySet
<1>3. TypeOK
  BY SessionAssumption DEF Init, TypeOK, Counters
<1>4. Balanced
  BY <1>2 DEF Init, Balanced, Counters
<1>5. QED
  BY <1>3, <1>4 DEF IInv

(* Consume loses no lifecycle record and counts none twice: starts, finishes,   *)
(* open, completed, replaced and discarded sessions balance in every state.     *)
THEOREM CountersBalance == Spec => []Balanced
<1>1. IInv => Balanced
  BY DEF IInv
<1>2. QED
  BY <1>1, InitHasInv, StepKeepsInv, PTL DEF Spec

(* Every counter is a number and no bounded list outgrows its limit. *)
THEOREM SessionTypes == Spec => []TypeOK
<1>1. IInv => TypeOK
  BY DEF IInv
<1>2. QED
  BY <1>1, InitHasInv, StepKeepsInv, PTL DEF Spec

-------------------------------------------------------------------------------
(* The changes of an identity. *)
ChangeSet == [at : Times, delta : {-1, 1}, key : Keys]

(* j is the next change of the identity of i; k is the last one of key. *)
Adjacent(c, i, j) ==
  /\ i \in 1..Len(c) /\ j \in 1..Len(c) /\ i < j /\ c[j].key = c[i].key
  /\ \A k \in (i + 1)..(j - 1) : c[k].key # c[i].key

LastOfKey(c, key, i) ==
  /\ i \in 1..Len(c) /\ c[i].key = key
  /\ \A k \in (i + 1)..Len(c) : c[k].key # key

(* The changes of an identity alternate, beginning with a session it opens. *)
Alternates(c) ==
  /\ \A i, j \in 1..Len(c) : Adjacent(c, i, j) => c[i].delta # c[j].delta
  /\ \A j \in 1..Len(c) : c[j].delta = -1 => \E i \in 1..Len(c) : Adjacent(c, i, j)

OpenIn(c, key) == \E i \in 1..Len(c) : LastOfKey(c, key, i) /\ c[i].delta = 1

OpenIsLast == \A key \in Keys : open[key] # Closed <=> OpenIn(changes, key)

(* An identity has one last change. *)
LEMMA OneLast ==
  ASSUME NEW c, Len(c) \in Nat, NEW key, NEW i, NEW j, LastOfKey(c, key, i), LastOfKey(c, key, j)
  PROVE  i = j
<1>1. i \in 1..Len(c) /\ j \in 1..Len(c) /\ c[i].key = key /\ c[j].key = key
  BY DEF LastOfKey
<1>2. ~(i < j)
  <2>1. i < j => j \in (i + 1)..Len(c)
    BY <1>1
  <2>2. QED
    BY <1>1, <2>1 DEF LastOfKey
<1>3. ~(j < i)
  <2>1. j < i => i \in (j + 1)..Len(c)
    BY <1>1
  <2>2. QED
    BY <1>1, <2>1 DEF LastOfKey
<1>4. QED
  BY <1>1, <1>2, <1>3

(* What a change appended to the changes makes of them. *)
LEMMA AppendLook ==
  ASSUME NEW c \in Seq(ChangeSet), NEW x \in ChangeSet
  PROVE  LET d == Append(c, x)
             n == Len(c)
         IN  /\ n \in Nat /\ Len(d) = n + 1 /\ d[n + 1] = x
             /\ \A i \in 1..n : d[i] = c[i]
             /\ d \in Seq(ChangeSet)
  BY AppendProperties

(* Changes keep alternating when a session is opened of an identity that has *)
(* none, and closed of one that has one.                                     *)
LEMMA AppendAlternates ==
  ASSUME NEW c \in Seq(ChangeSet), NEW x \in ChangeSet, Alternates(c),
         x.delta = 1 <=> ~OpenIn(c, x.key)
  PROVE  /\ Alternates(Append(c, x))
         /\ \A key : OpenIn(Append(c, x), key) <=> IF key = x.key THEN x.delta = 1 ELSE OpenIn(c, key)
<1> DEFINE d == Append(c, x)
           n == Len(c)
<1>0. /\ n \in Nat /\ Len(d) = n + 1 /\ d[n + 1] = x
      /\ \A i \in 1..n : d[i] = c[i]
  BY AppendLook
<1>t. x.delta \in {-1, 1} /\ \A i \in 1..n : c[i].delta \in {-1, 1}
  <2>1. \A i \in 1..n : c[i] \in ChangeSet
    BY ElementOfSeq
  <2>2. QED
    BY <2>1 DEF ChangeSet
<1> HIDE DEF d
<1>1. \A i, j \in 1..n : Adjacent(d, i, j) <=> Adjacent(c, i, j)
  <2> TAKE i, j \in 1..n
  <2>1. i \in 1..Len(d) /\ j \in 1..Len(d) /\ d[i] = c[i] /\ d[j] = c[j]
    BY <1>0
  <2>2. \A k \in (i + 1)..(j - 1) : d[k] = c[k]
    BY <1>0
  <2>3. QED
    BY <2>1, <2>2 DEF Adjacent
<1>2. \A i \in 1..n : Adjacent(d, i, n + 1) <=> LastOfKey(c, x.key, i)
  <2> TAKE i \in 1..n
  <2>1. i \in 1..Len(d) /\ n + 1 \in 1..Len(d) /\ i < n + 1 /\ d[i] = c[i] /\ d[n + 1] = x
    BY <1>0
  <2>2. (n + 1) - 1 = n /\ \A k \in (i + 1)..n : d[k] = c[k]
    BY <1>0
  <2>3. QED
    BY <2>1, <2>2 DEF Adjacent, LastOfKey
<1>3. \A i, j \in 1..(n + 1) : Adjacent(d, i, j) => i \in 1..n
  BY <1>0 DEF Adjacent
<1>4. Alternates(d)
  <2>1. ASSUME NEW i \in 1..(n + 1), NEW j \in 1..(n + 1), Adjacent(d, i, j)
        PROVE  d[i].delta # d[j].delta
    <3>1. i \in 1..n /\ d[i] = c[i]
      BY <1>0, <1>3, <2>1
    <3>2. CASE j \in 1..n
      <4>1. Adjacent(c, i, j) /\ d[j] = c[j]
        BY <1>0, <1>1, <2>1, <3>1, <3>2
      <4>2. QED
        BY <3>1, <3>2, <4>1 DEF Alternates
    <3>3. CASE j = n + 1
      <4>1. LastOfKey(c, x.key, i) /\ d[j] = x
        BY <1>0, <1>2, <2>1, <3>1, <3>3
      <4>2. CASE x.delta = 1
        <5>1. c[i].delta # 1
          BY <3>1, <4>1, <4>2 DEF OpenIn
        <5>2. QED
          BY <3>1, <4>1, <4>2, <5>1
      <4>3. CASE x.delta # 1
        <5>1. PICK k \in 1..n : LastOfKey(c, x.key, k) /\ c[k].delta = 1
          BY <4>3 DEF OpenIn
        <5>2. k = i
          BY <1>0, <4>1, <5>1, OneLast
        <5>3. QED
          BY <3>1, <4>1, <4>3, <5>1, <5>2
      <4>4. QED
        BY <4>2, <4>3
    <3>4. QED
      BY <1>0, <3>2, <3>3
  <2>2. ASSUME NEW j \in 1..(n + 1), d[j].delta = -1
        PROVE  \E i \in 1..(n + 1) : Adjacent(d, i, j)
    <3>1. CASE j \in 1..n
      <4>1. c[j].delta = -1
        BY <1>0, <2>2, <3>1
      <4>2. PICK i \in 1..n : Adjacent(c, i, j)
        BY <3>1, <4>1 DEF Alternates
      <4>3. Adjacent(d, i, j) /\ i \in 1..(n + 1)
        BY <1>0, <1>1, <3>1, <4>2
      <4>4. QED
        BY <4>3
    <3>2. CASE j = n + 1
      <4>1. x.delta = -1
        BY <1>0, <2>2, <3>2
      <4>2. PICK i \in 1..n : LastOfKey(c, x.key, i)
        BY <4>1 DEF OpenIn
      <4>3. Adjacent(d, i, j) /\ i \in 1..(n + 1)
        BY <1>0, <1>2, <3>2, <4>2
      <4>4. QED
        BY <4>3
    <3>3. QED
      BY <1>0, <3>1, <3>2
  <2>3. QED
    BY <1>0, <2>1, <2>2 DEF Alternates
<1>5. ASSUME NEW key, NEW i \in 1..n, key # x.key
      PROVE  LastOfKey(d, key, i) <=> LastOfKey(c, key, i)
  <2>1. i \in 1..Len(d) /\ d[i] = c[i] /\ d[n + 1].key # key
    BY <1>0, <1>5
  <2>2. \A k \in (i + 1)..Len(d) : k = n + 1 \/ (k \in (i + 1)..n /\ d[k] = c[k])
    BY <1>0
  <2>3. \A k \in (i + 1)..n : k \in (i + 1)..Len(d) /\ d[k] = c[k]
    BY <1>0
  <2>4. QED
    BY <2>1, <2>2, <2>3 DEF LastOfKey
<1>6. ASSUME NEW key, key # x.key
      PROVE  OpenIn(d, key) <=> OpenIn(c, key)
  <2>1. ~LastOfKey(d, key, n + 1)
    BY <1>0, <1>6 DEF LastOfKey
  <2>2. \A i \in 1..Len(d) : i \in 1..n \/ i = n + 1
    BY <1>0
  <2>3. \A i \in 1..n : i \in 1..Len(d) /\ d[i] = c[i]
    BY <1>0
  <2>4. QED
    BY <1>5, <1>6, <2>1, <2>2, <2>3 DEF OpenIn
<1>7. OpenIn(d, x.key) <=> x.delta = 1
  <2>1. LastOfKey(d, x.key, n + 1) /\ n + 1 \in 1..Len(d)
    BY <1>0 DEF LastOfKey
  <2>2. \A i : LastOfKey(d, x.key, i) => i = n + 1
    BY <1>0, <2>1, OneLast
  <2>3. QED
    BY <1>0, <2>1, <2>2 DEF OpenIn
<1>8. \A key : OpenIn(d, key) <=> IF key = x.key THEN x.delta = 1 ELSE OpenIn(c, key)
  BY <1>6, <1>7
<1>9. QED
  BY <1>4, <1>8 DEF d

(* A session that is open is one its identity opened last, and the changes   *)
(* of every identity alternate.                                              *)
SInv == IInv /\ Alternates(changes) /\ OpenIsLast

(* Recording a change of an identity, as an opening of one that is closed or *)
(* a closing of one that is open, and noting it in open.                     *)
LEMMA RecordKeeps ==
  ASSUME NEW c \in Seq(ChangeSet), Alternates(c), NEW key \in Keys, NEW at \in Times,
         NEW delta \in {-1, 1}, delta = 1 <=> ~OpenIn(c, key)
  PROVE  LET d == Append(c, Change(at, delta, key))
         IN  /\ d \in Seq(ChangeSet) /\ Alternates(d)
             /\ \A k : OpenIn(d, k) <=> IF k = key THEN delta = 1 ELSE OpenIn(c, k)
<1> DEFINE x == Change(at, delta, key)
<1>1. x \in ChangeSet /\ x.delta = delta /\ x.key = key
  BY DEF Change, ChangeSet
<1> HIDE DEF x
<1>2. Append(c, x) \in Seq(ChangeSet)
  BY <1>1, AppendProperties
<1>3. /\ Alternates(Append(c, x))
      /\ \A k : OpenIn(Append(c, x), k) <=> IF k = x.key THEN x.delta = 1 ELSE OpenIn(c, k)
  BY <1>1, AppendAlternates
<1>4. QED
  BY <1>1, <1>2, <1>3 DEF x

LEMMA StepAlternates == SInv /\ [Next]_vars => SInv'
<1> SUFFICES ASSUME SInv, [Next]_vars PROVE SInv'
  OBVIOUS
<1>1. IInv'
  BY StepKeepsInv DEF SInv
<1>2. /\ changes \in Seq(ChangeSet) /\ Alternates(changes)
      /\ open \in [Keys -> Times \cup {Closed}]
      /\ \A key \in Keys : open[key] # Closed <=> OpenIn(changes, key)
  BY DEF SInv, IInv, TypeOK, ChangeSet, OpenIsLast
<1>c. \A at \in Times : at # Closed
  BY SessionAssumption DEF Times, Closed
<1>3. CASE open' = open /\ changes' = changes
  BY <1>1, <1>2, <1>3 DEF SInv, OpenIsLast
<1>4. ASSUME NEW key \in Keys, NEW at \in Times, Start(key, at)
      PROVE  SInv'
  <2> DEFINE d == Append(changes, Change(at, 1, key))
  <2>1. ~OpenIn(changes, key)
    BY <1>2, <1>4 DEF Start
  <2>2. /\ Alternates(d)
        /\ \A k : OpenIn(d, k) <=> IF k = key THEN 1 = 1 ELSE OpenIn(changes, k)
    BY <1>2, <2>1, RecordKeeps
  <2>3. changes' = d /\ open' = [open EXCEPT ![key] = at]
    BY <1>4 DEF Start
  <2> HIDE DEF d
  <2>4. ASSUME NEW k \in Keys
        PROVE  open'[k] # Closed <=> OpenIn(changes', k)
    BY <1>2, <1>c, <2>2, <2>3
  <2>5. QED
    BY <1>1, <2>2, <2>3, <2>4 DEF SInv, OpenIsLast
<1>5. ASSUME NEW key \in Keys, NEW at \in Times, Replace(key, at)
      PROVE  SInv'
  <2> DEFINE b == Append(changes, Change(at, -1, key))
             d == Append(b, Change(at, 1, key))
  <2>1. OpenIn(changes, key)
    BY <1>2, <1>5 DEF Replace
  <2>2. /\ b \in Seq(ChangeSet) /\ Alternates(b)
        /\ \A k : OpenIn(b, k) <=> IF k = key THEN -1 = 1 ELSE OpenIn(changes, k)
    BY <1>2, <2>1, RecordKeeps
  <2>3. open' = [open EXCEPT ![key] = at] /\ changes' = d
    <3>1. \A u, v \in ChangeSet : changes \o <<u, v>> = Append(Append(changes, u), v)
      BY <1>2
    <3>2. Change(at, -1, key) \in ChangeSet /\ Change(at, 1, key) \in ChangeSet
      BY DEF Change, ChangeSet
    <3>3. QED
      BY <1>5, <3>1, <3>2 DEF Replace
  <2> HIDE DEF b
  <2>4. /\ Alternates(d)
        /\ \A k : OpenIn(d, k) <=> IF k = key THEN 1 = 1 ELSE OpenIn(b, k)
    BY <2>2, RecordKeeps
  <2> HIDE DEF d
  <2>5. ASSUME NEW k \in Keys
        PROVE  open'[k] # Closed <=> OpenIn(changes', k)
    BY <1>2, <1>c, <2>2, <2>3, <2>4
  <2>6. QED
    BY <1>1, <2>3, <2>4, <2>5 DEF SInv, OpenIsLast
<1>6. ASSUME NEW key \in Keys, NEW at \in Times, Finish(key, at)
      PROVE  SInv'
  <2> DEFINE d == Append(changes, Change(at, -1, key))
  <2>1. OpenIn(changes, key)
    BY <1>2, <1>6 DEF Finish, MayPair
  <2>2. /\ Alternates(d)
        /\ \A k : OpenIn(d, k) <=> IF k = key THEN -1 = 1 ELSE OpenIn(changes, k)
    BY <1>2, <2>1, RecordKeeps
  <2>3. changes' = d /\ open' = [open EXCEPT ![key] = Closed]
    BY <1>6 DEF Finish
  <2> HIDE DEF d
  <2>4. ASSUME NEW k \in Keys
        PROVE  open'[k] # Closed <=> OpenIn(changes', k)
    BY <1>2, <2>2, <2>3
  <2>5. QED
    BY <1>1, <2>2, <2>3, <2>4 DEF SInv, OpenIsLast
<1>7. QED
  BY <1>3, <1>4, <1>5, <1>6 DEF Next, Consume, NoIdentity, OrphanFinish, vars

LEMMA InitAlternates == Init => SInv
<1> SUFFICES ASSUME Init PROVE SInv
  OBVIOUS
<1>1. changes = <<>> /\ Len(changes) = 0 /\ 1..Len(changes) = {}
  BY DEF Init
<1>2. Alternates(changes)
  BY <1>1 DEF Alternates
<1>3. OpenIsLast
  BY <1>1 DEF OpenIsLast, OpenIn, Init
<1>4. QED
  BY <1>2, <1>3, InitHasInv DEF SInv

-------------------------------------------------------------------------------
N == Len(changes)
Places == 1..N

(* Changes have numbers for their time, their delta and their identity. *)
LEMMA ChangeNumbers ==
  ASSUME TypeOK
  PROVE  /\ N \in Nat
         /\ \A i \in Places : /\ changes[i].at \in Nat /\ changes[i].at \in Times
                              /\ changes[i].delta \in {-1, 1}
                              /\ changes[i].key \in Nat
<1>1. changes \in Seq([at : Times, delta : {-1, 1}, key : Keys]) /\ N \in Nat
  BY DEF TypeOK, N
<1>2. \A i \in Places : changes[i] \in [at : Times, delta : {-1, 1}, key : Keys]
  BY <1>1, ElementOfSeq DEF Places, N
<1>3. Keys \subseteq Nat /\ Times \subseteq Nat
  BY SessionAssumption DEF Times
<1>4. QED
  BY <1>1, <1>2, <1>3

(* The order of the timeline, the place a change has in it, and the change at *)
(* a place.                                                                  *)
Precedes(i, j) ==
  \/ Before(changes[i], changes[j])
  \/ ~Before(changes[j], changes[i]) /\ i < j

Place(i) == 1 + Cardinality({j \in Places : Precedes(j, i)})

At(place) == CHOOSE i \in Places : Place(i) = place

(* The changes are in one order: no change precedes itself, ... *)
LEMMA PrecedesIsOrder ==
  ASSUME TypeOK
  PROVE  /\ \A i \in Places : ~Precedes(i, i)
         /\ \A i, j \in Places : i # j => Precedes(i, j) \/ Precedes(j, i)
         /\ \A i, j, k \in Places : Precedes(i, j) /\ Precedes(j, k) => Precedes(i, k)
<1>1. /\ Places \subseteq Nat
      /\ \A i \in Places : /\ changes[i].at \in Int /\ changes[i].delta \in Int
                           /\ changes[i].key \in Int
  BY ChangeNumbers DEF Places
<1>2. \A i \in Places : ~Precedes(i, i)
  BY <1>1 DEF Precedes, Before
<1>3. \A i, j \in Places : i # j => Precedes(i, j) \/ Precedes(j, i)
  BY <1>1 DEF Precedes, Before
<1>4. \A i, j, k \in Places : Precedes(i, j) /\ Precedes(j, k) => Precedes(i, k)
  BY <1>1 DEF Precedes, Before
<1>5. QED
  BY <1>2, <1>3, <1>4

(* ... and each has a place of its own in it. *)
LEMMA PlaceOrders ==
  ASSUME TypeOK
  PROVE  /\ \A i \in Places : Place(i) \in Places
         /\ \A i, j \in Places : Precedes(i, j) => Place(i) < Place(j)
         /\ \A i, j \in Places : Place(i) = Place(j) => i = j
<1> DEFINE Pre(i) == {j \in Places : Precedes(j, i)}
<1>1. N \in Nat /\ IsFiniteSet(Places) /\ Cardinality(Places) = N
  <2>1. N \in Nat
    BY ChangeNumbers
  <2>2. QED
    BY <2>1, FS_Interval DEF Places
<1>2. \A i \in Places : /\ IsFiniteSet(Pre(i)) /\ Cardinality(Pre(i)) \in Nat
                        /\ Place(i) = 1 + Cardinality(Pre(i))
  <2> TAKE i \in Places
  <2>1. Pre(i) \in SUBSET Places /\ Place(i) = 1 + Cardinality(Pre(i))
    BY DEF Place
  <2> HIDE DEF Pre
  <2>2. IsFiniteSet(Pre(i))
    BY <1>1, <2>1, FS_Subset
  <2>3. QED
    BY <2>1, <2>2, FS_CardinalityType
<1>3. ASSUME NEW i \in Places
      PROVE  Place(i) \in Places
  <2>1. Pre(i) \in SUBSET Places /\ i \notin Pre(i)
    BY PrecedesIsOrder
  <2> HIDE DEF Pre
  <2>2. Cardinality(Pre(i)) <= N /\ Cardinality(Pre(i)) # N
    BY <1>1, <2>1, FS_Subset
  <2>3. QED
    BY <1>1, <1>2, <2>2 DEF Places
<1>4. ASSUME NEW i \in Places, NEW j \in Places, Precedes(i, j)
      PROVE  Place(i) < Place(j)
  <2>1. Pre(i) \in SUBSET Pre(j) /\ i \in Pre(j) /\ i \notin Pre(i)
    BY <1>4, PrecedesIsOrder
  <2> HIDE DEF Pre
  <2>2. /\ Cardinality(Pre(i)) <= Cardinality(Pre(j))
        /\ Cardinality(Pre(i)) # Cardinality(Pre(j))
    BY <1>2, <2>1, FS_Subset
  <2>3. QED
    BY <1>2, <2>2
<1>5. ASSUME NEW i \in Places, NEW j \in Places, Place(i) = Place(j)
      PROVE  i = j
  <2>1. Place(i) \in Nat /\ Place(j) \in Nat
    BY <1>1, <1>3 DEF Places
  <2>2. ~Precedes(i, j) /\ ~Precedes(j, i)
    BY <1>4, <1>5, <2>1
  <2>3. QED
    BY <2>2, PrecedesIsOrder
<1>6. QED
  BY <1>3, <1>4, <1>5

(* So every place is taken, and At finds who takes it. *)
LEMMA AtIsInverse ==
  ASSUME TypeOK
  PROVE  /\ \A n \in Places : At(n) \in Places /\ Place(At(n)) = n
         /\ \A i \in Places : At(Place(i)) = i
<1> DEFINE f == [i \in Places |-> Place(i)]
<1>1. IsFiniteSet(Places)
  BY ChangeNumbers, FS_Interval DEF Places
<1>2. f \in Injection(Places, Places)
  BY PlaceOrders DEF Injection, IsInjective
<1>3. f \in Surjection(Places, Places)
  <2> HIDE DEF f
  <2>1. QED
    BY <1>1, <1>2, FS_Injection
<1>4. \A n \in Places : \E i \in Places : Place(i) = n
  BY <1>3 DEF Surjection
<1>5. \A n \in Places : At(n) \in Places /\ Place(At(n)) = n
  BY <1>4 DEF At
<1>6. ASSUME NEW i \in Places
      PROVE  At(Place(i)) = i
  BY <1>5, PlaceOrders
<1>7. QED
  BY <1>5, <1>6

(* The sorted changes and the times of the changes in their order. *)
LEMMA SortedLook ==
  ASSUME TypeOK
  PROVE  /\ Len(Sorted) = N /\ N \in Nat
         /\ \A n \in Places : Sorted[n] = changes[At(n)]
         /\ \A i, j \in Places : Place(i) <= Place(j) => changes[i].at <= changes[j].at
         /\ \A i, j \in Places : changes[i].at < changes[j].at => Place(i) < Place(j)
         /\ \A i, j \in Places :
              changes[i].at = changes[j].at /\ changes[i].delta = -1 /\ changes[j].delta = 1
                => Place(i) < Place(j)
<1>1. N \in Nat /\ Places \subseteq Nat
  BY ChangeNumbers DEF Places
<1>2. Sorted = [m \in 1..N |-> (CHOOSE p \in {<<Place(i), changes[i]>> : i \in 1..N} : p[1] = m)[2]]
  BY DEF Sorted, StableSort, Place, Precedes, Places, N
<1>3. Len(Sorted) = N /\ \A n \in Places : Sorted[n] = changes[At(n)]
  <2>1. Len(Sorted) = N
    BY <1>1, <1>2
  <2>2. ASSUME NEW n \in Places
        PROVE  Sorted[n] = changes[At(n)]
    <3> DEFINE placed == {<<Place(i), changes[i]>> : i \in 1..N}
    <3>1. \A p \in placed : p[1] = n => p = <<n, changes[At(n)]>>
      BY AtIsInverse DEF Places
    <3>2. <<n, changes[At(n)]>> \in placed
      BY AtIsInverse DEF Places
    <3> DEFINE chosen == CHOOSE p \in placed : p[1] = n
    <3>3. chosen = <<n, changes[At(n)]>>
      BY <3>1, <3>2
    <3>4. Sorted[n] = chosen[2]
      BY <1>2 DEF Places
    <3> HIDE DEF chosen
    <3>5. QED
      BY <3>3, <3>4
  <2>3. QED
    BY <2>1, <2>2
<1>4. ASSUME NEW i \in Places, NEW j \in Places, changes[i].at < changes[j].at
      PROVE  Place(i) < Place(j)
  <2>1. Precedes(i, j)
    BY <1>4 DEF Precedes, Before
  <2>2. QED
    BY <2>1, PlaceOrders
<1>5. ASSUME NEW i \in Places, NEW j \in Places,
             changes[i].at = changes[j].at, changes[i].delta = -1, changes[j].delta = 1
      PROVE  Place(i) < Place(j)
  <2>1. changes[i].delta < changes[j].delta
    BY <1>5
  <2>2. Precedes(i, j)
    BY <1>5, <2>1 DEF Precedes, Before
  <2>3. QED
    BY <2>2, PlaceOrders
<1>6. ASSUME NEW i \in Places, NEW j \in Places, Place(i) <= Place(j)
      PROVE  changes[i].at <= changes[j].at
  <2>1. Place(i) \in Nat /\ Place(j) \in Nat
    BY <1>1, PlaceOrders
  <2>2. ~(Place(j) < Place(i))
    BY <1>6, <2>1
  <2>3. ~(changes[j].at < changes[i].at)
    BY <1>4, <2>2
  <2>4. changes[i].at \in Nat /\ changes[j].at \in Nat
    BY ChangeNumbers
  <2>5. QED
    BY <2>3, <2>4
<1>7. QED
  BY <1>1, <1>2, <1>3, <1>4, <1>5, <1>6

-------------------------------------------------------------------------------
(* A set of numbers has a least one. *)
LEMMA MinimumExists ==
  ASSUME NEW S \in SUBSET Nat, S # {}
  PROVE  \E m \in S : \A k \in S : m <= k
<1> DEFINE less == OpToRel(<, Nat)
<1>1. IsWellFoundedOn(less, Nat)
  BY NatLessThanWellFounded
<1>2. \A x, y \in Nat : x < y => <<x, y>> \in less
  BY DEF OpToRel
<1> HIDE DEF less
<1>3. PICK m \in S : \A k \in S : ~(<<k, m>> \in less)
  BY <1>1, WFMin
<1>4. \A k \in S : k \in Nat /\ ~(k < m)
  BY <1>2, <1>3
<1>5. QED
  BY <1>4

(* Induction, as a fact about the set of the numbers that have a property. *)
LEMMA InductionOnSets ==
  ASSUME NEW S, 0 \in S, \A n \in Nat : n \in S => n + 1 \in S
  PROVE  Nat \subseteq S
<1> DEFINE Others == Nat \ S
<1>1. SUFFICES ASSUME Others # {} PROVE FALSE
  OBVIOUS
<1>2. PICK m \in Others : \A k \in Others : m <= k
  <2>1. Others \in SUBSET Nat
    OBVIOUS
  <2> HIDE DEF Others
  <2>2. QED
    BY <1>1, <2>1, MinimumExists
<1>3. m \in Nat /\ m # 0
  BY <1>2
<1>4. m - 1 \in Nat /\ m - 1 \notin Others
  BY <1>2, <1>3
<1>5. m - 1 \in S /\ (m - 1) + 1 = m
  BY <1>3, <1>4
<1>6. QED
  BY <1>2, <1>4, <1>5


(* The running count of a list exists: it is zero before the first change,  *)
(* and each change moves it by a step.                                      *)
LEMMA RunningSteps ==
  ASSUME NEW s, Len(s) \in Nat
  PROVE  /\ Running(s)[0] = 0
         /\ \A m \in 1..Len(s) : Running(s)[m] = Step(Running(s)[m - 1], s[m])
<1> DEFINE n == Len(s)
           Counts(f, m) == f = [i \in 0..m |-> IF i = 0 THEN 0 ELSE Step(f[i - 1], s[i])]
           S == {m \in Nat : \E f : Counts(f, m)}
<1>1. 0 \in S
  <2> DEFINE f == [i \in 0..0 |-> 0]
  <2>1. \A i \in 0..0 : i = 0
    OBVIOUS
  <2>2. Counts(f, 0)
    BY <2>1
  <2>3. QED
    BY <2>2
<1>2. ASSUME NEW m \in Nat, m \in S
      PROVE  m + 1 \in S
  <2>1. PICK f : Counts(f, m)
    BY <1>2
  <2> DEFINE g == [i \in 0..(m + 1) |-> IF i = m + 1 THEN Step(f[m], s[m + 1]) ELSE f[i]]
  <2>2. ASSUME NEW i \in 0..(m + 1)
        PROVE  g[i] = IF i = 0 THEN 0 ELSE Step(g[i - 1], s[i])
    <3>1. CASE i = m + 1
      <4>1. i - 1 = m /\ m \in 0..(m + 1) /\ m # m + 1 /\ i # 0
        BY <3>1
      <4>2. g[m] = f[m]
        BY <4>1
      <4>3. QED
        BY <3>1, <4>1, <4>2
    <3>2. CASE i = 0
      <4>1. i # m + 1 /\ i \in 0..m
        BY <3>2
      <4>2. g[i] = f[i] /\ f[i] = 0
        BY <2>1, <3>2, <4>1
      <4>3. QED
        BY <3>2, <4>2
    <3>3. CASE i # m + 1 /\ i # 0
      <4>1. i \in 0..m /\ i - 1 \in 0..m /\ i - 1 \in 0..(m + 1) /\ i - 1 # m + 1
        BY <3>3
      <4>2. g[i] = f[i] /\ g[i - 1] = f[i - 1] /\ f[i] = Step(f[i - 1], s[i])
        BY <2>1, <3>3, <4>1
      <4>3. QED
        BY <3>3, <4>2
    <3>4. QED
      BY <3>1, <3>2, <3>3
  <2>3. Counts(g, m + 1)
    BY <2>2
  <2> HIDE DEF g, Counts
  <2>4. QED
    BY <2>3
<1>3. n \in S
  <2> HIDE DEF S
  <2>1. QED
    BY <1>1, <1>2, InductionOnSets
<1>4. \E f : Counts(f, n)
  BY <1>3
<1>5. Running(s) = CHOOSE f : Counts(f, n)
  BY Zenon DEF Running
<1>6. Counts(Running(s), n)
  <2> HIDE DEF Counts
  <2>1. QED
    BY <1>4, <1>5, Zenon
<1>7. ASSUME NEW i \in 0..n
      PROVE  Running(s)[i] = IF i = 0 THEN 0 ELSE Step(Running(s)[i - 1], s[i])
  BY <1>6
<1>8. QED
  BY <1>7

-------------------------------------------------------------------------------
(* What the alternation of the changes says of sessions that last: the end   *)
(* of a session is a closing, of no other session and later than its opening, *)
(* and every closing ends a session.                                         *)
LEMMA Sessions ==
  ASSUME SInv, SessionsLast
  PROVE  /\ \A i \in Opened : i \in Places /\ changes[i].delta = 1
         /\ \A i \in Opened : \A j \in EndOf(i) :
              /\ j \in Places /\ changes[j].delta = -1 /\ changes[i].at < changes[j].at
              /\ \A k \in Opened : j \in EndOf(k) => k = i
              /\ \A k \in EndOf(i) : k = j
         /\ \A j \in Places : changes[j].delta = -1 => \E i \in Opened : j \in EndOf(i)
<1>1. TypeOK /\ N \in Nat /\ Alternates(changes)
  BY ChangeNumbers DEF SInv, IInv
<1>2. \A i \in Opened : i \in Places /\ changes[i].delta = 1
  BY DEF Opened, Places, N
<1>3. \A i \in Places : \A j : j \in EndOf(i) <=> Adjacent(changes, i, j)
  <2>1. ASSUME NEW i \in Places, NEW j
        PROVE  j \in (i + 1)..Len(changes) <=> j \in 1..Len(changes) /\ i < j
    BY <1>1 DEF Places, N
  <2>2. QED
    BY <2>1 DEF EndOf, Adjacent, Places, N
<1>4. ASSUME NEW i \in Opened, NEW j \in EndOf(i)
      PROVE  /\ j \in Places /\ changes[j].delta = -1 /\ changes[i].at < changes[j].at
             /\ \A k \in Opened : j \in EndOf(k) => k = i
             /\ \A k \in EndOf(i) : k = j
  <2>1. Adjacent(changes, i, j) /\ i \in Places /\ j \in Places
    BY <1>2, <1>3 DEF Adjacent, Places, N
  <2>2. changes[j].delta = -1
    <3>1. changes[j].delta # 1
      BY <1>1, <1>2, <2>1 DEF Alternates, Places, N
    <3>2. QED
      BY <1>1, <2>1, <3>1, ChangeNumbers
  <2>3. changes[i].at < changes[j].at
    <3>1. changes[j].at > changes[i].at
      BY DEF SessionsLast
    <3>2. changes[j].at \in Nat /\ changes[i].at \in Nat
      BY <1>1, <2>1, ChangeNumbers
    <3>3. QED
      BY <3>1, <3>2
  <2>4. ASSUME NEW k \in Opened, j \in EndOf(k)
        PROVE  k = i
    <3>1. Adjacent(changes, k, j) /\ k \in Places
      BY <1>2, <1>3, <2>4
    <3>2. /\ i \in Int /\ j \in Int /\ k \in Int /\ i < j /\ k < j
          /\ changes[k].key = changes[i].key
      BY <2>1, <3>1 DEF Adjacent, Places
    <3>3. ~(i < k)
      <4>1. i < k => k \in (i + 1)..(j - 1)
        BY <3>2
      <4>2. QED
        BY <2>1, <3>2, <4>1 DEF Adjacent
    <3>4. ~(k < i)
      <4>1. k < i => i \in (k + 1)..(j - 1)
        BY <3>2
      <4>2. QED
        BY <3>1, <3>2, <4>1 DEF Adjacent
    <3>5. QED
      BY <3>2, <3>3, <3>4
  <2>5. ASSUME NEW k \in EndOf(i)
        PROVE  k = j
    <3>1. Adjacent(changes, i, k)
      BY <1>2, <1>3
    <3>2. /\ i \in Int /\ j \in Int /\ k \in Int /\ i < j /\ i < k
          /\ changes[k].key = changes[i].key /\ changes[j].key = changes[i].key
      BY <2>1, <3>1 DEF Adjacent, Places
    <3>3. ~(j < k)
      <4>1. j < k => j \in (i + 1)..(k - 1)
        BY <3>2
      <4>2. QED
        BY <3>1, <3>2, <4>1 DEF Adjacent
    <3>4. ~(k < j)
      <4>1. k < j => k \in (i + 1)..(j - 1)
        BY <3>2
      <4>2. QED
        BY <2>1, <3>2, <4>1 DEF Adjacent
    <3>5. QED
      BY <3>2, <3>3, <3>4
  <2>6. QED
    BY <2>1, <2>2, <2>3, <2>4, <2>5
<1>5. ASSUME NEW j \in Places, changes[j].delta = -1
      PROVE  \E i \in Opened : j \in EndOf(i)
  <2>1. PICK i \in Places : Adjacent(changes, i, j)
    BY <1>1, <1>5 DEF Alternates, Places, N
  <2>2. changes[i].delta = 1
    <3>1. changes[i].delta # changes[j].delta
      BY <1>1, <2>1 DEF Alternates, Places, N
    <3>2. QED
      BY <1>1, <1>5, <3>1, ChangeNumbers
  <2>3. i \in Opened /\ j \in EndOf(i)
    BY <1>3, <2>1, <2>2 DEF Opened, Places, N
  <2>4. QED
    BY <2>3
<1>6. QED
  BY <1>2, <1>4, <1>5

(* The sessions that have begun and not ended after the first m changes in   *)
(* the order of the timeline.                                                *)
Act(m) == {i \in Opened : Place(i) <= m /\ \A j \in EndOf(i) : Place(j) > m}

LEMMA ActFinite ==
  ASSUME TypeOK
  PROVE  \A m : IsFiniteSet(Act(m)) /\ Cardinality(Act(m)) \in Nat
<1>1. IsFiniteSet(Places)
  BY ChangeNumbers, FS_Interval DEF Places
<1>2. \A m : Act(m) \in SUBSET Places
  BY DEF Act, Opened, Places, N
<1>3. QED
  BY <1>1, <1>2, FS_Subset, FS_CardinalityType

(* An opening adds a session and a closing takes one away: as each session   *)
(* ends after it began, the count has it when it is taken away.              *)
LEMMA ActSteps ==
  ASSUME SInv, SessionsLast, NEW m \in Places
  PROVE  Cardinality(Act(m)) = Step(Cardinality(Act(m - 1)), Sorted[m])
<1> DEFINE x == At(m)
<1>1. /\ TypeOK /\ x \in Places /\ Place(x) = m /\ Sorted[m] = changes[x]
      /\ m \in Nat /\ m - 1 \in Int
      /\ changes[x].delta \in {-1, 1}
  BY AtIsInverse, SortedLook, ChangeNumbers DEF SInv, IInv, Places
<1> HIDE DEF x
<1>2. /\ \A i \in Places : Place(i) \in Int
      /\ \A i \in Places : Place(i) <= m <=> Place(i) <= m - 1 \/ i = x
      /\ \A i \in Places : Place(i) > m - 1 <=> Place(i) > m \/ i = x
  <2>1. \A i \in Places : Place(i) \in Int
    BY <1>1, PlaceOrders DEF Places
  <2>2. \A i \in Places : Place(i) = m => i = x
    BY <1>1, PlaceOrders
  <2>3. ASSUME NEW i \in Places
        PROVE  /\ Place(i) <= m <=> Place(i) <= m - 1 \/ i = x
               /\ Place(i) > m - 1 <=> Place(i) > m \/ i = x
    BY <1>1, <2>1, <2>2
  <2>4. QED
    BY <2>1, <2>3
<1>3. \A i \in Opened : \A j \in EndOf(i) : Place(i) < Place(j)
  <2> TAKE i \in Opened
  <2> TAKE j \in EndOf(i)
  <2>1. i \in Places /\ j \in Places /\ changes[i].at < changes[j].at
    BY Sessions
  <2>2. QED
    BY <1>1, <2>1, SortedLook
<1>4. CASE changes[x].delta = 1
  <2>1. x \in Opened
    BY <1>1, <1>4 DEF Opened, Places, N
  <2>2. \A i \in Opened : \A j \in EndOf(i) : j \in Places /\ j # x
    BY <1>4, Sessions
  <2>3. x \notin Act(m - 1)
    BY <1>1 DEF Act
  <2>4. \A j \in EndOf(x) : Place(j) > m
    BY <1>1, <1>2, <1>3, <2>1, <2>2
  <2>5. \A i \in Opened : i \in Act(m) <=> i \in Act(m - 1) \/ i = x
    <3> TAKE i \in Opened
    <3>1. i \in Places
      BY Sessions
    <3>2. (\A j \in EndOf(i) : Place(j) > m) <=> (\A j \in EndOf(i) : Place(j) > m - 1)
      BY <1>2, <2>2
    <3>3. CASE i = x
      BY <1>1, <2>4, <3>3 DEF Act
    <3>4. CASE i # x
      BY <1>2, <3>1, <3>2, <3>4 DEF Act
    <3>5. QED
      BY <3>3, <3>4
  <2>6. Act(m) = Act(m - 1) \cup {x}
    BY <2>1, <2>5 DEF Act
  <2>7. Cardinality(Act(m)) = Cardinality(Act(m - 1)) + 1
    BY <1>1, <2>3, <2>6, ActFinite, FS_AddElement
  <2>8. Cardinality(Act(m - 1)) \in Nat
    BY <1>1, ActFinite
  <2>9. QED
    BY <1>1, <1>4, <2>7, <2>8 DEF Step
<1>5. CASE changes[x].delta = -1
  <2>1. PICK o \in Opened : x \in EndOf(o)
    BY <1>1, <1>5, Sessions
  <2>2. /\ o \in Places /\ o # x
        /\ \A j \in EndOf(o) : j = x
        /\ \A i \in Opened : x \in EndOf(i) => i = o
    BY <1>5, <2>1, Sessions
  <2>3. o \in Act(m - 1)
    <3>1. Place(o) <= m - 1
      BY <1>1, <1>2, <1>3, <2>1, <2>2
    <3>2. \A j \in EndOf(o) : Place(j) > m - 1
      BY <1>1, <2>2
    <3>3. QED
      BY <2>1, <3>1, <3>2 DEF Act
  <2>4. o \notin Act(m)
    BY <1>1, <2>1 DEF Act
  <2>5. \A i \in Opened : i # o => (i \in Act(m) <=> i \in Act(m - 1))
    <3> TAKE i \in Opened
    <3>1. i \in Places /\ i # x /\ \A j \in EndOf(i) : j \in Places
      BY <1>5, Sessions
    <3>2. i # o => \A j \in EndOf(i) : j # x
      BY <2>2
    <3>3. i # o => ((\A j \in EndOf(i) : Place(j) > m) <=> (\A j \in EndOf(i) : Place(j) > m - 1))
      BY <1>2, <3>1, <3>2
    <3>4. QED
      BY <1>2, <3>1, <3>3 DEF Act
  <2>6. Act(m) = Act(m - 1) \ {o}
    BY <2>3, <2>4, <2>5 DEF Act
  <2>7. Cardinality(Act(m)) = Cardinality(Act(m - 1)) - 1
    <3>1. IsFiniteSet(Act(m - 1))
      BY <1>1, ActFinite
    <3>2. Cardinality(Act(m - 1) \ {o}) = Cardinality(Act(m - 1)) - 1
      BY <2>3, <3>1, FS_RemoveElement
    <3>3. QED
      BY <2>6, <3>2
  <2>8. Cardinality(Act(m - 1)) \in Nat /\ Cardinality(Act(m)) \in Nat
    BY <1>1, ActFinite
  <2>9. QED
    BY <1>1, <1>5, <2>7, <2>8 DEF Step
<1>6. QED
  BY <1>1, <1>4, <1>5

(* So the running count is the number of these sessions. *)
LEMMA RunningCounts ==
  ASSUME SInv, SessionsLast
  PROVE  \A m \in 0..N : Running(Sorted)[m] = Cardinality(Act(m))
<1>1. TypeOK /\ N \in Nat /\ Len(Sorted) = N
  BY SortedLook DEF SInv, IInv
<1> DEFINE active == Running(Sorted)
           S == {m \in Nat : m \in 0..N => active[m] = Cardinality(Act(m))}
<1>2. /\ active[0] = 0
      /\ \A m \in 1..N : active[m] = Step(active[m - 1], Sorted[m])
  BY <1>1, RunningSteps
<1> HIDE DEF active
<1>3. 0 \in S
  <2>1. \A i \in Places : Place(i) \in Nat /\ Place(i) > 0
    BY <1>1, PlaceOrders DEF Places
  <2>2. Act(0) = {}
    BY <2>1 DEF Act, Opened, Places, N
  <2>3. QED
    BY <1>2, <2>2, FS_EmptySet
<1>4. ASSUME NEW m \in Nat, m \in S
      PROVE  m + 1 \in S
  <2>1. SUFFICES ASSUME m + 1 \in 0..N PROVE active[m + 1] = Cardinality(Act(m + 1))
    OBVIOUS
  <2>2. m \in 0..N /\ m + 1 \in 1..N /\ m + 1 \in Places /\ (m + 1) - 1 = m
    BY <1>1, <2>1 DEF Places
  <2>3. active[m + 1] = Step(active[m], Sorted[m + 1])
    BY <1>2, <2>2
  <2>4. Cardinality(Act(m + 1)) = Step(Cardinality(Act(m)), Sorted[m + 1])
    BY <2>2, ActSteps
  <2>5. active[m] = Cardinality(Act(m))
    BY <1>4, <2>2
  <2>6. QED
    BY <2>3, <2>4, <2>5
<1>5. Nat \subseteq S
  <2> HIDE DEF S
  <2>1. QED
    BY <1>3, <1>4, InductionOnSets
<1>6. QED
  BY <1>1, <1>5 DEF active

-------------------------------------------------------------------------------
(* After the last change of a timestamp, those sessions are the ones active  *)
(* at it: the places up to m are those of the changes up to t.               *)
LEMMA ActIsActiveAt ==
  ASSUME SInv, SessionsLast, NEW m, NEW t \in Times,
         \A i \in Places : Place(i) <= m <=> changes[i].at <= t, m \in 0..N
  PROVE  Act(m) = ActiveAt(t)
<1>1. /\ TypeOK /\ N \in Nat /\ m \in Nat /\ t \in Nat
      /\ \A i \in Places : Place(i) \in Nat /\ changes[i].at \in Nat
  BY PlaceOrders, ChangeNumbers, SessionAssumption DEF SInv, IInv, Times, Places
<1>2. \A i \in Places : Place(i) > m <=> changes[i].at > t
  BY <1>1
<1>3. \A i \in Opened : i \in Places /\ \A j \in EndOf(i) : j \in Places
  BY Sessions
<1>4. \A i \in Opened : i \in Act(m) <=> i \in ActiveAt(t)
  BY <1>2, <1>3 DEF Act, ActiveAt
<1>5. QED
  BY <1>4 DEF Act, ActiveAt

(* Each count of the timeline is reached at some timestamp ... *)
LEMMA CountIsReached ==
  ASSUME SInv, SessionsLast, NEW m \in Places
  PROVE  \E t \in Times : Cardinality(Act(m)) <= Cardinality(ActiveAt(t))
<1> DEFINE x == At(m)
           s == changes[x].at
<1>1. /\ TypeOK /\ x \in Places /\ Place(x) = m /\ m \in Nat
      /\ s \in Nat /\ s \in Times /\ changes[x].delta \in {-1, 1}
      /\ \A i \in Places : Place(i) \in Nat /\ changes[i].at \in Nat
  BY AtIsInverse, PlaceOrders, ChangeNumbers DEF SInv, IInv, Places
<1>2. \A i \in Places : /\ Place(i) <= m => changes[i].at <= s
                        /\ Place(i) > m => changes[i].at >= s
  <2>1. \A i \in Places : /\ Place(i) <= Place(x) => changes[i].at <= changes[x].at
                          /\ Place(x) <= Place(i) => changes[x].at <= changes[i].at
    BY <1>1, SortedLook
  <2>2. QED
    BY <1>1, <2>1
<1>h. s = changes[x].at
  OBVIOUS
<1> HIDE DEF x, s
<1>3. \A i \in Opened : /\ i \in Places /\ changes[i].delta = 1
                        /\ \A j \in EndOf(i) : j \in Places /\ changes[j].delta = -1
  BY Sessions
<1>4. \A t : IsFiniteSet(ActiveAt(t))
  <2>1. IsFiniteSet(Places)
    BY <1>1, ChangeNumbers, FS_Interval DEF Places
  <2>2. \A t : ActiveAt(t) \in SUBSET Places
    BY DEF Places, ActiveAt, Opened, N
  <2>3. QED
    BY <2>1, <2>2, FS_Subset
<1>5. CASE changes[x].delta = 1
  <2>1. \A j \in Places : changes[j].delta = -1 /\ Place(j) > m => changes[j].at > s
    <3> TAKE j \in Places
    <3>1. changes[j].delta = -1 /\ changes[j].at = s => Place(j) < Place(x)
      BY <1>1, <1>5, <1>h, SortedLook
    <3>2. Place(j) \in Nat /\ changes[j].at \in Nat /\ s \in Nat /\ m \in Nat /\ Place(x) = m
      BY <1>1
    <3>3. Place(j) > m => changes[j].at >= s
      BY <1>2
    <3>4. QED
      BY <3>1, <3>2, <3>3
  <2>2. ASSUME NEW i \in Act(m)
        PROVE  i \in ActiveAt(s)
    <3>1. i \in Opened /\ Place(i) <= m /\ \A j \in EndOf(i) : Place(j) > m
      BY DEF Act
    <3>2. changes[i].at <= s /\ \A j \in EndOf(i) : changes[j].at > s
      BY <1>2, <1>3, <2>1, <3>1
    <3>3. QED
      BY <3>1, <3>2 DEF ActiveAt
  <2>3. Cardinality(Act(m)) <= Cardinality(ActiveAt(s))
    BY <1>4, <2>2, FS_Subset
  <2>4. QED
    BY <1>1, <2>3
<1>6. CASE changes[x].delta = -1
  <2>1. s - 1 \in Times
    <3>1. PICK o \in Opened : x \in EndOf(o)
      BY <1>1, <1>6, Sessions
    <3>2. o \in Places /\ changes[o].at < s
      BY <1>h, <3>1, Sessions
    <3>3. changes[o].at \in Nat /\ MaxTime \in Nat /\ s \in 0..MaxTime
      BY <1>1, <3>2, SessionAssumption DEF Times
    <3>4. QED
      BY <3>2, <3>3 DEF Times
  <2>2. \A i \in Places : changes[i].delta = 1 /\ Place(i) <= m => changes[i].at <= s - 1
    <3> TAKE i \in Places
    <3>1. changes[i].delta = 1 /\ changes[i].at = s => Place(x) < Place(i)
      BY <1>1, <1>6, <1>h, SortedLook
    <3>2. Place(i) \in Nat /\ changes[i].at \in Nat /\ s \in Nat /\ m \in Nat
      BY <1>1
    <3>3. Place(i) <= m => changes[i].at <= s
      BY <1>2
    <3>4. QED
      BY <1>1, <3>1, <3>2, <3>3
  <2>3. ASSUME NEW i \in Act(m)
        PROVE  i \in ActiveAt(s - 1)
    <3>1. i \in Opened /\ Place(i) <= m /\ \A j \in EndOf(i) : Place(j) > m
      BY DEF Act
    <3>2. \A j \in EndOf(i) : changes[j].at > s - 1
      <4> TAKE j \in EndOf(i)
      <4>1. j \in Places /\ Place(j) > m
        BY <1>3, <3>1
      <4>2. QED
        BY <1>1, <1>2, <4>1
    <3>3. changes[i].at <= s - 1
      BY <1>3, <2>2, <3>1
    <3>4. QED
      BY <3>1, <3>2, <3>3 DEF ActiveAt
  <2>4. Cardinality(Act(m)) <= Cardinality(ActiveAt(s - 1))
    BY <1>4, <2>3, FS_Subset
  <2>5. QED
    BY <2>1, <2>4
<1>7. QED
  BY <1>1, <1>5, <1>6

(* ... and the number active at each timestamp is a count of the timeline,   *)
(* that after its last change, or there is no change yet.                    *)
LEMMA ActiveIsCounted ==
  ASSUME SInv, SessionsLast, NEW t \in Times
  PROVE  \E m \in 0..N : ActiveAt(t) = Act(m)
<1>1. /\ TypeOK /\ N \in Nat /\ t \in Nat
      /\ \A i \in Places : Place(i) \in Nat /\ Place(i) \in Places /\ changes[i].at \in Nat
  BY PlaceOrders, ChangeNumbers, SessionAssumption DEF SInv, IInv, Times, Places
<1> DEFINE Upto == {i \in Places : changes[i].at <= t}
           Left == {N - Place(i) : i \in Upto}
<1>2. CASE Upto = {}
  <2>1. \A i \in Places : Place(i) <= 0 <=> changes[i].at <= t
    BY <1>1, <1>2 DEF Places
  <2>2. 0 \in 0..N
    BY <1>1
  <2>3. Act(0) = ActiveAt(t)
    BY <2>1, <2>2, ActIsActiveAt
  <2>4. QED
    BY <2>2, <2>3
<1>3. CASE Upto # {}
  <2>1. Left \in SUBSET Nat /\ Left # {}
    BY <1>1, <1>3 DEF Places
  <2>2. PICK d \in Left : \A k \in Left : d <= k
    <3> HIDE DEF Left
    <3>1. QED
      BY <2>1, MinimumExists
  <2>3. PICK i \in Upto : d = N - Place(i)
    BY <2>2
  <2>4. \A j \in Upto : Place(j) <= Place(i)
    <3> TAKE j \in Upto
    <3>1. d <= N - Place(j)
      BY <2>2
    <3>2. QED
      BY <1>1, <2>3, <3>1
  <2>5. \A j \in Places : Place(j) <= Place(i) => changes[j].at <= changes[i].at
    BY <1>1, SortedLook
  <2>6. \A j \in Places : Place(j) <= Place(i) <=> changes[j].at <= t
    <3> TAKE j \in Places
    <3>1. changes[i].at <= t /\ changes[i].at \in Nat /\ changes[j].at \in Nat
      BY <1>1
    <3>2. Place(j) <= Place(i) => changes[j].at <= t
      BY <1>1, <2>5, <3>1
    <3>3. changes[j].at <= t => Place(j) <= Place(i)
      BY <2>4
    <3>4. QED
      BY <3>2, <3>3
  <2>7. Place(i) \in 0..N
    BY <1>1 DEF Places
  <2>8. Act(Place(i)) = ActiveAt(t)
    BY <2>6, <2>7, ActIsActiveAt
  <2>9. QED
    BY <2>7, <2>8
<1>4. QED
  BY <1>2, <1>3

-------------------------------------------------------------------------------
(* The points of the timeline carry the running count of the sorted changes. *)
LEMMA TimelineLook ==
  ASSUME SInv, SessionsLast
  PROVE  /\ Len(Timeline) = N /\ N \in Nat
         /\ \A m \in Places : /\ Timeline[m].at = changes[At(m)].at
                              /\ Timeline[m].active = Cardinality(Act(m))
<1>1. TypeOK /\ N \in Nat /\ Len(Sorted) = N /\ \A m \in Places : Sorted[m] = changes[At(m)]
  BY SortedLook DEF SInv, IInv
<1>2. Timeline = [i \in 1..N |-> [at |-> Sorted[i].at, active |-> Running(Sorted)[i]]]
  BY <1>1 DEF Timeline
<1>3. Len(Timeline) = N
  BY <1>1, <1>2
<1>4. ASSUME NEW m \in Places
      PROVE  /\ Timeline[m].at = changes[At(m)].at
             /\ Timeline[m].active = Cardinality(Act(m))
  <2>1. m \in 1..N /\ m \in 0..N
    BY <1>1 DEF Places
  <2>2. Timeline[m] = [at |-> Sorted[m].at, active |-> Running(Sorted)[m]]
    BY <1>2, <2>1
  <2>3. Running(Sorted)[m] = Cardinality(Act(m))
    BY <2>1, RunningCounts
  <2>4. QED
    BY <1>1, <2>2, <2>3
<1>5. QED
  BY <1>1, <1>3, <1>4

(* The last point of a timestamp counts the sessions active at it. *)
LEMMA LastPointIsExact ==
  ASSUME SInv, SessionsLast, NEW m \in Places,
         m = N \/ Timeline[m + 1].at > Timeline[m].at
  PROVE  Timeline[m].active = Cardinality(ActiveAt(Timeline[m].at))
<1> DEFINE x == At(m)
           t == changes[x].at
<1>1. /\ TypeOK /\ x \in Places /\ Place(x) = m /\ m \in Nat /\ N \in Nat /\ m \in 0..N
      /\ t \in Nat /\ t \in Times
      /\ \A i \in Places : Place(i) \in Nat /\ Place(i) <= N /\ changes[i].at \in Nat
  BY AtIsInverse, PlaceOrders, ChangeNumbers DEF SInv, IInv, Places
<1>2. Timeline[m].at = t /\ Timeline[m].active = Cardinality(Act(m))
  BY TimelineLook
<1>3. \A i \in Places : Place(i) <= m => changes[i].at <= t
  BY <1>1, SortedLook
<1>4. ASSUME NEW i \in Places, Place(i) > m
      PROVE  changes[i].at > t
  <2>1. m # N /\ m + 1 \in Places
    BY <1>1, <1>4 DEF Places
  <2>2. Timeline[m + 1].at = changes[At(m + 1)].at /\ At(m + 1) \in Places /\ Place(At(m + 1)) = m + 1
    BY <1>1, <2>1, TimelineLook, AtIsInverse
  <2>3. changes[At(m + 1)].at > t
    BY <1>2, <2>1, <2>2
  <2>4. Place(At(m + 1)) <= Place(i)
    <3>1. Place(i) \in Nat /\ m \in Nat /\ Place(i) > m
      BY <1>1, <1>4
    <3>2. m + 1 <= Place(i)
      BY <3>1
    <3>3. QED
      BY <2>2, <3>2
  <2>5. changes[At(m + 1)].at <= changes[i].at
    BY <1>1, <2>2, <2>4, SortedLook
  <2>6. changes[At(m + 1)].at \in Nat /\ changes[i].at \in Nat
    BY <1>1, <2>2
  <2> HIDE DEF t
  <2>7. QED
    BY <1>1, <2>3, <2>5, <2>6
<1> HIDE DEF x, t
<1>5. \A i \in Places : Place(i) <= m <=> changes[i].at <= t
  <2> TAKE i \in Places
  <2>1. Place(i) \in Nat /\ changes[i].at \in Nat /\ t \in Nat /\ m \in Nat
    BY <1>1
  <2>2. QED
    BY <1>3, <1>4, <2>1
<1>6. Act(m) = ActiveAt(t)
  BY <1>1, <1>5, ActIsActiveAt
<1>7. QED
  BY <1>2, <1>6

(* Sets of numbers that bound each other have the same maximum. *)
LEMMA SameMaximum ==
  ASSUME NEW n \in Nat, NEW A \in SUBSET (0..n), NEW B \in SUBSET (0..n), A # {}, B # {},
         \A a \in A : \E b \in B : a <= b, \A b \in B : \E a \in A : b <= a
  PROVE  Max(A) = Max(B)
<1>1. ASSUME NEW S \in SUBSET (0..n), S # {}
      PROVE  Max(S) \in S /\ \A y \in S : Max(S) >= y
  <2>1. \E m \in S : \A y \in S : m >= y
    <3> DEFINE Gaps == {n - y : y \in S}
    <3>1. \A y \in S : y \in Nat /\ n - y \in Nat
      OBVIOUS
    <3>2. Gaps \in SUBSET Nat /\ Gaps # {}
      BY <1>1, <3>1
    <3>3. PICK d \in Gaps : \A k \in Gaps : d <= k
      <4> HIDE DEF Gaps
      <4>1. QED
        BY <3>2, MinimumExists
    <3>4. PICK m \in S : d = n - m
      BY <3>3
    <3>5. \A y \in S : n - m <= n - y
      BY <3>3, <3>4
    <3>6. \A y \in S : m >= y
      BY <3>1, <3>5
    <3>7. QED
      BY <3>6
  <2>2. QED
    BY <2>1, Zenon DEF Max
<1>2. /\ Max(A) \in A /\ \A y \in A : Max(A) >= y
      /\ Max(B) \in B /\ \A y \in B : Max(B) >= y
  BY <1>1
<1>n. Max(A) \in Nat /\ Max(B) \in Nat
  <2>1. \A y \in 0..n : y \in Nat
    OBVIOUS
  <2>2. QED
    BY <1>2, <2>1, Zenon
<1>3. PICK b \in B : Max(A) <= b
  BY <1>2
<1>4. PICK a \in A : Max(B) <= a
  BY <1>2
<1>5. Max(A) <= Max(B)
  <2>1. b \in Nat /\ Max(B) >= b
    BY <1>2
  <2>2. QED
    BY <1>n, <1>3, <2>1
<1>6. Max(B) <= Max(A)
  <2>1. a \in Nat /\ Max(A) >= a
    BY <1>2
  <2>2. QED
    BY <1>n, <1>4, <2>1
<1>7. QED
  BY <1>n, <1>5, <1>6

LEMMA PeakIsExact ==
  ASSUME SInv, SessionsLast
  PROVE  Peak = Max({Cardinality(ActiveAt(t)) : t \in Times})
<1> DEFINE A == {0} \cup {Timeline[i].active : i \in 1..Len(Timeline)}
           B == {Cardinality(ActiveAt(t)) : t \in Times}
<1>1. TypeOK /\ N \in Nat /\ Len(Timeline) = N /\ MaxTime \in Nat /\ 0 \in Times
  BY TimelineLook, SessionAssumption DEF SInv, IInv, Times
<1>2. \A m \in Places : Timeline[m].active = Cardinality(Act(m))
  BY TimelineLook
<1>3. \A m : IsFiniteSet(Act(m)) /\ Cardinality(Act(m)) \in Nat
  BY <1>1, ActFinite
<1>4. \A t \in Times : \E m \in 0..N : ActiveAt(t) = Act(m)
  BY ActiveIsCounted
<1>5. A = {0} \cup {Cardinality(Act(m)) : m \in Places}
  BY <1>1, <1>2 DEF Places
<1>6. Act(0) = {} /\ Cardinality(Act(0)) = 0
  <2>1. \A i \in Places : Place(i) \in Nat /\ Place(i) > 0
    BY <1>1, PlaceOrders DEF Places
  <2>2. Act(0) = {}
    BY <2>1 DEF Act, Opened, Places, N
  <2>3. QED
    BY <2>2, FS_EmptySet
<1>7. Peak = Max(A)
  BY DEF Peak
<1>8. \A m : Cardinality(Act(m)) \in 0..N
  <2>1. IsFiniteSet(Places) /\ Cardinality(Places) = N
    BY <1>1, FS_Interval DEF Places
  <2>2. ASSUME NEW m
        PROVE  Cardinality(Act(m)) \in 0..N
    <3>1. Act(m) \in SUBSET Places
      BY DEF Act, Opened, Places, N
    <3>2. Cardinality(Act(m)) <= N
      BY <2>1, <3>1, FS_Subset
    <3>3. QED
      BY <1>1, <1>3, <3>2
  <2>3. QED
    BY <2>2
<1>9. A \in SUBSET (0..N) /\ B \in SUBSET (0..N) /\ A # {} /\ B # {}
  <2>1. A \in SUBSET (0..N) /\ A # {}
    BY <1>1, <1>5, <1>8
  <2>2. B \in SUBSET (0..N) /\ B # {}
    BY <1>1, <1>4, <1>8
  <2>3. QED
    BY <2>1, <2>2
<1>10. \A a \in A : \E b \in B : a <= b
  <2>1. ASSUME NEW m \in Places
        PROVE  \E b \in B : Cardinality(Act(m)) <= b
    <3>1. PICK t \in Times : Cardinality(Act(m)) <= Cardinality(ActiveAt(t))
      BY CountIsReached
    <3>2. QED
      BY <3>1
  <2>2. \E b \in B : 0 <= b
    BY <1>9
  <2>3. QED
    BY <1>5, <2>1, <2>2
<1>11. \A b \in B : \E a \in A : b <= a
  <2>1. ASSUME NEW t \in Times
        PROVE  \E a \in A : Cardinality(ActiveAt(t)) <= a
    <3>1. PICK m \in 0..N : ActiveAt(t) = Act(m)
      BY <1>4
    <3>2. Cardinality(Act(m)) \in A
      <4>1. m = 0 \/ m \in Places
        BY <1>1 DEF Places
      <4>2. QED
        BY <1>5, <1>6, <4>1
    <3>3. Cardinality(ActiveAt(t)) <= Cardinality(Act(m))
      BY <1>3, <3>1
    <3>4. QED
      BY <3>2, <3>3
  <2>2. QED
    BY <2>1
<1>12. Max(A) = Max(B)
  <2> HIDE DEF A, B
  <2>1. QED
    BY <1>1, <1>9, <1>10, <1>11, SameMaximum
<1>13. QED
  BY <1>7, <1>12

(* The doc of Collector: timeline and Peak cover every recognized lifecycle   *)
(* change.  In whatever order the changes were recorded, when every session   *)
(* ends later than it began the last point of each timestamp counts exactly   *)
(* the sessions active at it, and the peak is the most that ever were.        *)
THEOREM TimelineIsExact == Spec => []TimelineExact
<1>1. SInv => TimelineExact
  <2>1. SUFFICES ASSUME SInv, SessionsLast
        PROVE  /\ \A i \in 1..Len(Timeline) :
                    (i = Len(Timeline) \/ Timeline[i + 1].at > Timeline[i].at)
                       => Timeline[i].active = Cardinality(ActiveAt(Timeline[i].at))
               /\ Peak = Max({Cardinality(ActiveAt(t)) : t \in Times})
    BY DEF TimelineExact
  <2>2. \A i \in 1..Len(Timeline) :
           (i = Len(Timeline) \/ Timeline[i + 1].at > Timeline[i].at)
              => Timeline[i].active = Cardinality(ActiveAt(Timeline[i].at))
    BY <2>1, TimelineLook, LastPointIsExact DEF Places
  <2>3. QED
    BY <2>1, <2>2, PeakIsExact
<1>2. QED
  BY <1>1, InitAlternates, StepAlternates, PTL DEF Spec
===============================================================================
