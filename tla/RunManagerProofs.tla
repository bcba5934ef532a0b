--------------------------- MODULE RunManagerProofs ---------------------------
(***************************************************************************)
(* Safety of the run manager for every number of clients, every retention  *)
(* and concurrency limit and every number of accepted runs.  The invariant *)
(* IInv of RunManager is inductive; the properties a reader cares about    *)
(* are its conjuncts or follow from them.                                  *)
(***************************************************************************)
EXTENDS RunManager, SequenceTheorems, FiniteSetTheorems, TLAPS

(* append(s[:i], s[i+1:]...), which removeLocked uses, closes the gap and   *)
(* keeps the rest.                                                          *)
LEMMA RemoveAtProperties ==
  ASSUME NEW S, NEW seq \in Seq(S), NEW i \in 1..Len(seq)
  PROVE  /\ RemoveAt(seq, i) \in Seq(S)
         /\ Len(RemoveAt(seq, i)) = Len(seq) - 1
         /\ \A k \in 1..(Len(seq) - 1) :
              RemoveAt(seq, i)[k] = IF k < i THEN seq[k] ELSE seq[k + 1]
<1> DEFINE front == SubSeq(seq, 1, i - 1)
           back  == SubSeq(seq, i + 1, Len(seq))
<1>1. Len(seq) \in Nat /\ i \in Nat /\ i >= 1 /\ i <= Len(seq)
      /\ \A k \in 1..Len(seq) : seq[k] \in S
  BY LenProperties
<1>2. /\ front \in Seq(S) /\ Len(front) = i - 1
      /\ \A k \in 1..(i - 1) : front[k] = seq[k]
  BY <1>1, SubSeqProperties
<1>3. /\ back \in Seq(S) /\ Len(back) = Len(seq) - i
      /\ \A k \in 1..(Len(seq) - i) : back[k] = seq[k + i]
  BY <1>1, SubSeqProperties
<1>4. RemoveAt(seq, i) = front \o back
  BY DEF RemoveAt
<1> HIDE DEF front, back
<1>5. front \o back \in Seq(S) /\ Len(front \o back) = Len(seq) - 1
  <2>1. front \in Seq(S) /\ back \in Seq(S)
    BY <1>2, <1>3
  <2>2. front \o back \in Seq(S) /\ Len(front \o back) = Len(front) + Len(back)
    BY <2>1, ConcatProperties
  <2>3. QED
    BY <1>1, <1>2, <1>3, <2>2
<1>6. ASSUME NEW k \in 1..(Len(seq) - 1)
      PROVE  (front \o back)[k] = IF k < i THEN seq[k] ELSE seq[k + 1]
  <2>1. (front \o back)[k] = IF k <= i - 1 THEN front[k] ELSE back[k - (i - 1)]
    BY <1>1, <1>2, <1>3
  <2>2. CASE k < i
    BY <1>1, <1>2, <2>1, <2>2
  <2>3. CASE ~(k < i)
    <3>1. k - (i - 1) \in 1..(Len(seq) - i) /\ (k - (i - 1)) + i = k + 1
      BY <1>1, <2>3
    <3>2. back[k - (i - 1)] = seq[k + 1]
      BY <1>3, <3>1
    <3>3. QED
      BY <1>1, <2>1, <2>3, <3>2
  <2>4. QED
    BY <2>2, <2>3
<1>7. QED
  BY <1>4, <1>5, <1>6

-------------------------------------------------------------------------------
(* Sets of run ids are finite, so len(m.runs) and the counters are numbers. *)
LEMMA IdSetsFinite ==
  ASSUME NEW S \in SUBSET Ids
  PROVE  /\ IsFiniteSet(S)
         /\ Cardinality(S) \in Nat
         /\ Cardinality(S) <= MaxIds
<1>1. MaxIds \in Nat
  BY ConstantsAssumption
<1>2. IsFiniteSet(Ids) /\ Cardinality(Ids) = MaxIds
  BY <1>1, FS_Interval DEF Ids
<1>3. QED
  BY <1>1, <1>2, FS_Subset, FS_CardinalityType

(* The position removeLocked finds exists and holds the id it looks for. *)
LEMMA UnlistedProperties ==
  ASSUME NEW id \in Ids, TypeOK,
         \E i \in 1..Len(order) : order[i] = id,
         \A i, j \in 1..Len(order) : i < j => order[i] < order[j]
  PROVE  \E i \in 1..Len(order) : order[i] = id /\ Unlisted(id) = RemoveAt(order, i)
<1> DEFINE At == {i \in 1..Len(order) : order[i] = id}
<1>1. PICK i \in 1..Len(order) : order[i] = id
  OBVIOUS
<1>2. order \in Seq(Ids) /\ Len(order) \in Nat /\ \A k \in 1..Len(order) : order[k] \in Int
  BY ConstantsAssumption, LenProperties DEF TypeOK, Ids
<1>3. At = {i}
  BY <1>1, <1>2
<1>4. Min(At) = i
  BY <1>2, <1>3 DEF Min
<1>5. SelectInSeq(order, LAMBDA v : v = id) = i
  BY <1>3, <1>4 DEF SelectInSeq
<1>6. QED
  BY <1>1, <1>5 DEF Unlisted, RemoveFirst

(* removeLocked keeps order typed, increasing and equal to the retained set. *)
LEMMA RemovalKeepsOrder ==
  ASSUME NEW id \in Retained, TypeOK, OrderMatchesRuns, RemoveLocked(id)
  PROVE  /\ order' \in Seq(Ids)
         /\ Retained' = Retained \ {id}
         /\ OrderMatchesRuns'
<1>1. id \in Ids /\ \E i \in 1..Len(order) : order[i] = id
  BY DEF Retained, OrderMatchesRuns
<1>2. PICK i \in 1..Len(order) : order[i] = id /\ order' = RemoveAt(order, i)
  BY <1>1, UnlistedProperties DEF OrderMatchesRuns, RemoveLocked
<1>3. order \in Seq(Ids) /\ Len(order) \in Nat /\ \A k \in 1..Len(order) : order[k] \in Int
  BY ConstantsAssumption, LenProperties DEF TypeOK, Ids
<1>4. /\ order' \in Seq(Ids)
      /\ Len(order') = Len(order) - 1
      /\ \A k \in 1..(Len(order) - 1) : order'[k] = IF k < i THEN order[k] ELSE order[k + 1]
  BY <1>2, <1>3, RemoveAtProperties
<1>5. Retained' = Retained \ {id}
  BY <1>1 DEF Retained, RemoveLocked, TypeOK
<1>6. \A j, k \in 1..Len(order') : j < k => order'[j] < order'[k]
  <2>1. SUFFICES ASSUME NEW j \in 1..Len(order'), NEW k \in 1..Len(order'), j < k
                 PROVE  order'[j] < order'[k]
    OBVIOUS
  <2>2. \A m, n \in 1..Len(order) : m < n => order[m] < order[n]
    BY DEF OrderMatchesRuns
  <2>3. DEFINE J == IF j < i THEN j ELSE j + 1
               K == IF k < i THEN k ELSE k + 1
  <2>4. J \in 1..Len(order) /\ K \in 1..Len(order) /\ J < K
    BY <1>3, <1>4, <2>1
  <2>5. order'[j] = order[J] /\ order'[k] = order[K]
    BY <1>3, <1>4, <2>1
  <2>6. QED
    BY <2>2, <2>4, <2>5
<1>7. {order'[k] : k \in 1..Len(order')} = Retained \ {id}
  <2>1. \A m, n \in 1..Len(order) : m < n => order[m] < order[n]
    BY DEF OrderMatchesRuns
  <2>2. \A k \in 1..Len(order) : order[k] \in Retained
    BY DEF OrderMatchesRuns
  <2>3. ASSUME NEW k \in 1..Len(order') PROVE order'[k] \in Retained \ {id}
    <3>1. CASE k < i
      BY <1>2, <1>3, <1>4, <2>1, <2>2, <3>1
    <3>2. CASE ~(k < i)
      <4>1. k + 1 \in 1..Len(order) /\ i < k + 1
        BY <1>3, <1>4, <3>2
      <4>2. QED
        BY <1>2, <1>3, <1>4, <2>1, <2>2, <3>2, <4>1
    <3>3. QED
      BY <3>1, <3>2
  <2>4. ASSUME NEW x \in Retained, x # id
        PROVE  \E k \in 1..Len(order') : order'[k] = x
    <3>1. PICK m \in 1..Len(order) : order[m] = x
      BY DEF OrderMatchesRuns
    <3>2. m # i
      BY <1>2, <2>4, <3>1
    <3>3. CASE m < i
      <4>1. m \in 1..Len(order') /\ order'[m] = x
        BY <1>3, <1>4, <3>1, <3>3
      <4>2. QED
        BY <4>1
    <3>4. CASE m > i
      <4>1. m - 1 \in 1..Len(order') /\ order'[m - 1] = x
        BY <1>3, <1>4, <3>1, <3>4
      <4>2. QED
        BY <4>1
    <3>5. QED
      BY <1>3, <3>2, <3>3, <3>4
  <2>5. QED
    BY <2>3, <2>4
<1>8. QED
  BY <1>4, <1>5, <1>6, <1>7 DEF OrderMatchesRuns

-------------------------------------------------------------------------------
LEMMA InitEstablishes == Init => IInv
<1> SUFFICES ASSUME Init PROVE IInv
  OBVIOUS
<1>1. TypeOK
  <2>1. order \in Seq(Ids)
    BY DEF Init
  <2>2. next \in 0..MaxIds /\ active \in 0..MaxActive /\ workers \in 0..MaxIds
    BY ConstantsAssumption DEF Init
  <2>3. QED
    BY <2>1, <2>2 DEF Init, TypeOK, Statuses
<1>2. Retained = {} /\ Running = {} /\ Alive = {}
  BY DEF Init, Retained, Running, Alive, Absent
<1>3. Cardinality({}) = 0
  BY FS_EmptySet
<1>4. RetentionBounded /\ SlotsMatchRuns /\ WorkersCounted
  BY ConstantsAssumption, <1>2, <1>3 DEF Init, RetentionBounded, SlotsMatchRuns, WorkersCounted
<1>5. OrderMatchesRuns
  BY <1>2 DEF Init, OrderMatchesRuns
<1>6. SectionInv /\ GoroutineInv /\ ShutdownInv
  BY DEF Init, SectionInv, GoroutineInv, ShutdownInv, Ids, Absent
<1>7. QED
  BY <1>1, <1>4, <1>5, <1>6 DEF IInv

(* A step that touches neither the table (progress aside) nor a goroutine   *)
(* of execute has only the sections and the stages of Shutdown to respect.  *)
LEMMA FrameKeeps ==
  ASSUME IInv, UNCHANGED <<status, order, next, active, cancels, workers, build>>,
         TypeOK', SectionInv', ShutdownInv'
  PROVE  IInv'
<1>1. Retained' = Retained /\ Running' = Running /\ Alive' = Alive
  BY DEF Retained, Running, Alive
<1>2. RetentionBounded' /\ SlotsMatchRuns' /\ WorkersCounted' /\ OrderMatchesRuns'
  BY <1>1 DEF IInv, RetentionBounded, SlotsMatchRuns, WorkersCounted, OrderMatchesRuns
<1>3. GoroutineInv'
  BY DEF IInv, GoroutineInv
<1>4. QED
  BY <1>2, <1>3 DEF IInv

LEMMA SectionSteps ==
  ASSUME IInv, CreateBegin \/ CreateFull
  PROVE  IInv'
<1>1. TypeOK'
  BY DEF IInv, TypeOK, CreateBegin, CreateFull, table
<1>2. SectionInv' /\ ShutdownInv'
  BY DEF IInv, SectionInv, ShutdownInv, CreateBegin, CreateFull, MayAccept, table
<1>3. QED
  BY <1>1, <1>2, FrameKeeps DEF CreateBegin, CreateFull, table

LEMMA CallerSteps ==
  ASSUME IInv, NEW g \in Callers,
         \/ \E id \in Ids : ReportProgress(id) \/ Cancel(g, id)
         \/ CancelAll(g)
         \/ CallCancel(g)
  PROVE  IInv'
<1>1. TypeOK'
  <2>1. CASE \E id \in Ids : ReportProgress(id)
    BY <2>1 DEF IInv, TypeOK, ReportProgress
  <2>2. CASE \E id \in Ids : Cancel(g, id)
    BY <2>2 DEF IInv, TypeOK, Cancel, table
  <2>3. CASE CancelAll(g)
    BY <2>3 DEF IInv, TypeOK, CancelAll, table
  <2>4. CASE CallCancel(g)
    BY <2>4 DEF IInv, TypeOK, CallCancel, CancelledBy, table
  <2>5. QED
    BY <2>1, <2>2, <2>3, <2>4
<1>2. UNCHANGED <<status, order, next, active, cancels, closing, workers, lock, build,
                  shut, waitDone>>
  BY DEF ReportProgress, Cancel, CancelAll, CallCancel, table
<1>3. SectionInv' /\ ShutdownInv'
  BY <1>2 DEF IInv, SectionInv, ShutdownInv
<1>4. QED
  BY <1>1, <1>2, <1>3, FrameKeeps

LEMMA ShutdownSteps ==
  ASSUME IInv, ShutdownNext
  PROVE  IInv'
<1>1. TypeOK'
  BY DEF IInv, TypeOK, ShutdownNext, ShutdownBegin, ShutdownWait, WaiterDone,
         ShutdownReturnsNil, ShutdownTimesOut, table, Callers
<1>2. SectionInv'
  BY DEF IInv, SectionInv, ShutdownNext, ShutdownBegin, ShutdownWait, WaiterDone,
         ShutdownReturnsNil, ShutdownTimesOut, table
<1>3. ShutdownInv'
  BY DEF IInv, TypeOK, ShutdownInv, ShutdownNext, ShutdownBegin, ShutdownWait, WaiterDone,
         ShutdownReturnsNil, ShutdownTimesOut, table
<1>4. UNCHANGED <<status, order, next, active, cancels, workers, build>>
  BY DEF ShutdownNext, ShutdownBegin, ShutdownWait, WaiterDone,
         ShutdownReturnsNil, ShutdownTimesOut, table
<1>5. QED
  BY <1>1, <1>2, <1>3, <1>4, FrameKeeps

(* The builder's return moves its goroutine, which stays counted. *)
LEMMA BuilderStep ==
  ASSUME IInv, NEW id \in Ids, NEW how \in {"ok", "error"}, BuilderReturns(id, how)
  PROVE  IInv'
<1> USE DEF BuilderReturns, table
<1>1. TypeOK'
  BY DEF IInv, TypeOK
<1>2. Retained' = Retained /\ Running' = Running
  BY DEF Retained, Running
<1>3. Alive' = Alive
  BY DEF IInv, TypeOK, Alive
<1>4. RetentionBounded' /\ SlotsMatchRuns' /\ WorkersCounted' /\ OrderMatchesRuns'
  BY <1>2, <1>3 DEF IInv, RetentionBounded, SlotsMatchRuns, WorkersCounted, OrderMatchesRuns
<1>5. SectionInv' /\ GoroutineInv' /\ ShutdownInv'
  BY DEF IInv, TypeOK, SectionInv, GoroutineInv, ShutdownInv
<1>6. QED
  BY <1>1, <1>4, <1>5 DEF IInv

(* The end of a run frees its slot and its cancel function at once. *)
LEMMA RecordStep ==
  ASSUME IInv, NEW id \in Ids, Record(id)
  PROVE  IInv'
<1>1. status[id] = "running" /\ build[id] \in {"ok", "error"} /\ lock = "free"
  BY DEF IInv, GoroutineInv, Record
<1>2. Outcome(id) \in Ended
  BY DEF Outcome, Ended
<1>3. /\ build' = [build EXCEPT ![id] = "recording"]
      /\ status' = [status EXCEPT ![id] = Outcome(id)]
      /\ progress' = [progress EXCEPT ![id] =
                        IF Outcome(id) = "succeeded" THEN "complete" ELSE @]
      /\ active' = active - 1
      /\ cancels' = cancels \ {id}
      /\ lock' = "finish"
      /\ UNCHANGED <<order, next, closing, workers, ctxDone, toCancel, shut, waitDone>>
  BY <1>1 DEF Record, Absent
<1> HIDE DEF Outcome
<1>4. status \in [Ids -> Statuses] /\ build \in [Ids -> {"none", "building", "ok", "error", "recording", "recorded", "exited"}]
  BY DEF IInv, TypeOK
<1>5. Retained' = Retained
  BY <1>1, <1>2, <1>3, <1>4 DEF Retained, Ended, Absent
<1>6. Running' = Running \ {id} /\ id \in Running
  BY <1>1, <1>2, <1>3, <1>4 DEF Running, Ended
<1>7. Alive' = Alive
  BY <1>1, <1>3, <1>4 DEF Alive
<1>8. Cardinality(Running') = Cardinality(Running) - 1 /\ Cardinality(Running') \in Nat
  <2>1. Running \in SUBSET Ids /\ Running' \in SUBSET Ids
    BY <1>6 DEF Running
  <2>2. QED
    BY <2>1, <1>6, IdSetsFinite, FS_RemoveElement
<1>9. SlotsMatchRuns'
  BY <1>3, <1>6, <1>8 DEF IInv, SlotsMatchRuns
<1>10. TypeOK'
  <2>1. active' \in 0..MaxActive
    BY <1>3, <1>8, <1>9, ConstantsAssumption DEF IInv, TypeOK, SlotsMatchRuns
  <2>2. status' \in [Ids -> Statuses]
    BY <1>2, <1>3, <1>4 DEF Statuses
  <2>3. progress' \in [Ids -> {"starting", "working", "complete"}]
    BY <1>3 DEF IInv, TypeOK
  <2>4. build' \in [Ids -> {"none", "building", "ok", "error", "recording", "recorded", "exited"}]
    BY <1>3, <1>4
  <2>5. QED
    BY <1>3, <2>1, <2>2, <2>3, <2>4 DEF IInv, TypeOK
<1>11. RetentionBounded' /\ OrderMatchesRuns' /\ WorkersCounted'
  BY <1>3, <1>5, <1>7 DEF IInv, RetentionBounded, OrderMatchesRuns, WorkersCounted
<1>12. SectionInv' /\ ShutdownInv'
  BY <1>1, <1>3, <1>4 DEF IInv, SectionInv, ShutdownInv
<1>13. GoroutineInv'
  <2>1. id <= next
    BY <1>1 DEF IInv, TypeOK, GoroutineInv, Ids, Absent
  <2>2. status'[id] # "running"
    BY <1>2, <1>3, <1>4 DEF Ended
  <2>3. QED
    BY <1>3, <1>4, <2>1, <2>2 DEF IInv, TypeOK, GoroutineInv, Ids
<1>14. QED
  BY <1>9, <1>10, <1>11, <1>12, <1>13 DEF IInv

(* Unlocking after the eviction loop: the goroutine is still counted. *)
LEMMA RecordEndStep ==
  ASSUME IInv, NEW id \in Ids, RecordEnd(id)
  PROVE  IInv'
<1> USE DEF RecordEnd, table
<1>1. TypeOK'
  BY DEF IInv, TypeOK
<1>2. Retained' = Retained /\ Running' = Running
  BY DEF Retained, Running
<1>3. Alive' = Alive
  BY DEF IInv, TypeOK, Alive
<1>4. RetentionBounded' /\ SlotsMatchRuns' /\ WorkersCounted' /\ OrderMatchesRuns'
  BY <1>2, <1>3 DEF IInv, RetentionBounded, SlotsMatchRuns, WorkersCounted, OrderMatchesRuns
<1>5. SectionInv' /\ GoroutineInv' /\ ShutdownInv'
  BY DEF IInv, TypeOK, SectionInv, GoroutineInv, ShutdownInv
<1>6. QED
  BY <1>1, <1>4, <1>5 DEF IInv

(* workers.Done() takes exactly one goroutine out of the WaitGroup. *)
LEMMA WorkerExitStep ==
  ASSUME IInv, NEW id \in Ids, WorkerExit(id)
  PROVE  IInv'
<1> USE DEF WorkerExit, table
<1>1. id \in Alive /\ Alive' = Alive \ {id}
  BY DEF IInv, TypeOK, Alive
<1>2. Cardinality(Alive') = Cardinality(Alive) - 1 /\ Cardinality(Alive') \in 0..MaxIds
  <2>1. Alive \in SUBSET Ids /\ Alive' \in SUBSET Ids
    BY <1>1 DEF Alive
  <2>2. Cardinality(Alive') = Cardinality(Alive) - 1
    BY <1>1, <2>1, IdSetsFinite, FS_RemoveElement
  <2>3. Cardinality(Alive') \in Nat /\ Cardinality(Alive') <= MaxIds
    BY <2>1, IdSetsFinite
  <2>4. QED
    BY <2>2, <2>3, ConstantsAssumption
<1>3. WorkersCounted'
  BY <1>2 DEF IInv, WorkersCounted
<1>4. TypeOK'
  BY <1>2, <1>3 DEF IInv, TypeOK, WorkersCounted
<1>5. Retained' = Retained /\ Running' = Running
  BY DEF Retained, Running
<1>6. RetentionBounded' /\ SlotsMatchRuns' /\ OrderMatchesRuns'
  BY <1>5 DEF IInv, RetentionBounded, SlotsMatchRuns, OrderMatchesRuns
<1>7. SectionInv' /\ GoroutineInv'
  BY DEF IInv, TypeOK, SectionInv, GoroutineInv
<1>8. ShutdownInv'
  <2>1. workers # 0
    BY <1>2 DEF IInv, WorkersCounted
  <2>2. QED
    BY <2>1 DEF IInv, ShutdownInv
<1>9. QED
  BY <1>3, <1>4, <1>6, <1>7, <1>8 DEF IInv

(* Removing a terminal run, by eviction or deletion. *)
LEMMA RemovalStep ==
  ASSUME IInv, NEW id \in Ids, Terminal(id), RemoveLocked(id),
         UNCHANGED <<next, active, cancels, closing, workers, lock, build, ctxDone,
                     toCancel, shut, waitDone>>
  PROVE  IInv'
<1>1. id \in Retained /\ id \notin Running
  BY DEF Terminal, Ended, Retained, Running, Absent
<1>2. /\ order' \in Seq(Ids)
      /\ Retained' = Retained \ {id}
      /\ OrderMatchesRuns'
  BY <1>1, RemovalKeepsOrder DEF IInv
<1>3. /\ status' = [status EXCEPT ![id] = Absent]
      /\ progress' = [progress EXCEPT ![id] = "starting"]
  BY DEF RemoveLocked
<1>4. TypeOK'
  <2>1. status' \in [Ids -> Statuses] /\ progress' \in [Ids -> {"starting", "working", "complete"}]
    BY <1>3 DEF IInv, TypeOK, Statuses
  <2>2. QED
    BY <1>2, <2>1 DEF IInv, TypeOK
<1>5. Running' = Running /\ Alive' = Alive
  BY <1>1, <1>3 DEF IInv, TypeOK, Running, Alive, Absent
<1>6. SlotsMatchRuns' /\ WorkersCounted'
  BY <1>5 DEF IInv, SlotsMatchRuns, WorkersCounted
<1>7. RetentionBounded'
  <2>1. Retained \in SUBSET Ids /\ Retained' \in SUBSET Retained
    BY <1>2 DEF Retained
  <2>2. IsFiniteSet(Retained) /\ Cardinality(Retained) \in Nat /\ Cardinality(Retained') \in Nat
    BY <2>1, IdSetsFinite
  <2>3. Cardinality(Retained') <= Cardinality(Retained)
    BY <2>1, <2>2, FS_Subset
  <2>4. QED
    BY <2>2, <2>3, ConstantsAssumption DEF IInv, RetentionBounded
<1>8. SectionInv' /\ ShutdownInv'
  BY DEF IInv, SectionInv, ShutdownInv
<1>9. GoroutineInv'
  BY <1>1, <1>3 DEF IInv, TypeOK, GoroutineInv, Running, Absent
<1>10. QED
  BY <1>2, <1>4, <1>6, <1>7, <1>8, <1>9 DEF IInv

LEMMA EvictOrDeleteStep ==
  ASSUME IInv, EvictOldest \/ \E id \in Ids : Delete(id)
  PROVE  IInv'
<1>1. CASE EvictOldest
  <2>1. PICK id \in Ids : Oldest(id) /\ RemoveLocked(id)
    BY <1>1 DEF EvictOldest
  <2>2. Terminal(id)
    BY <2>1 DEF Oldest
  <2>3. QED
    BY <1>1, <2>1, <2>2, RemovalStep DEF EvictOldest
<1>2. CASE \E id \in Ids : Delete(id)
  BY <1>2, RemovalStep DEF Delete, Deletable
<1>3. QED
  BY <1>1, <1>2

(* The new id is fresh: it extends order at its end, adds one record, one   *)
(* active slot, one cancel function and one counted goroutine.              *)
LEMMA InsertStep ==
  ASSUME IInv, CreateInsert
  PROVE  IInv'
<1> DEFINE id == next + 1
<1>1. /\ lock = "create" /\ ~closing /\ active < MaxActive /\ next < MaxIds
      /\ id \in Ids /\ next \in Nat /\ active \in Nat
  BY ConstantsAssumption DEF CreateInsert, IInv, TypeOK, SectionInv, Ids
<1>2. /\ next' = id
      /\ status' = [status EXCEPT ![id] = "running"]
      /\ progress' = [progress EXCEPT ![id] = "starting"]
      /\ order' = Append(order, id)
      /\ active' = active + 1
      /\ cancels' = cancels \cup {id}
      /\ workers' = workers + 1
      /\ build' = [build EXCEPT ![id] = "building"]
      /\ lock' = "free"
      /\ UNCHANGED <<closing, ctxDone, toCancel, shut, waitDone>>
  BY DEF CreateInsert
<1>3. Cardinality(Retained) < MaxRuns
  BY DEF CreateInsert, HasRoom
<1>4. status[id] = Absent /\ build[id] = "none"
  BY <1>1 DEF IInv, GoroutineInv
<1>5. /\ id \notin Retained /\ Retained' = Retained \cup {id}
      /\ id \notin Running /\ Running' = Running \cup {id}
      /\ id \notin Alive /\ Alive' = Alive \cup {id}
  BY <1>1, <1>2, <1>4 DEF IInv, TypeOK, Retained, Running, Alive, Absent
<1> HIDE DEF id
<1>6. /\ Cardinality(Retained') = Cardinality(Retained) + 1
      /\ Cardinality(Running') = Cardinality(Running) + 1
      /\ Cardinality(Alive') = Cardinality(Alive) + 1
      /\ Cardinality(Retained) \in Nat /\ Cardinality(Alive') \in 0..MaxIds
  <2>1. Retained \in SUBSET Ids /\ Running \in SUBSET Ids /\ Alive \in SUBSET Ids
        /\ Alive' \in SUBSET Ids
    BY <1>1, <1>5 DEF Retained, Running, Alive
  <2>2. IsFiniteSet(Retained) /\ IsFiniteSet(Running) /\ IsFiniteSet(Alive)
        /\ Cardinality(Retained) \in Nat
        /\ Cardinality(Alive') \in Nat /\ Cardinality(Alive') <= MaxIds
    BY <2>1, IdSetsFinite
  <2>3. Cardinality(Retained') = Cardinality(Retained) + 1
    BY <1>5, <2>2, FS_AddElement
  <2>4. Cardinality(Running') = Cardinality(Running) + 1
    BY <1>5, <2>2, FS_AddElement
  <2>5. Cardinality(Alive') = Cardinality(Alive) + 1
    BY <1>5, <2>2, FS_AddElement
  <2>6. QED
    BY <2>2, <2>3, <2>4, <2>5, ConstantsAssumption
<1>7. RetentionBounded'
  BY <1>3, <1>6, ConstantsAssumption DEF RetentionBounded
<1>8. SlotsMatchRuns' /\ WorkersCounted'
  BY <1>2, <1>5, <1>6 DEF IInv, SlotsMatchRuns, WorkersCounted
<1>9. TypeOK'
  <2>1. order' \in Seq(Ids)
    BY <1>1, <1>2, AppendProperties DEF IInv, TypeOK
  <2>2. active' \in 0..MaxActive /\ next' \in 0..MaxIds /\ workers' \in 0..MaxIds
    BY <1>1, <1>2, <1>6, <1>8, ConstantsAssumption DEF WorkersCounted, Ids
  <2>3. status' \in [Ids -> Statuses] /\ progress' \in [Ids -> {"starting", "working", "complete"}]
    BY <1>2 DEF IInv, TypeOK, Statuses
  <2>4. build' \in [Ids -> {"none", "building", "ok", "error", "recording", "recorded", "exited"}]
    BY <1>2 DEF IInv, TypeOK
  <2>5. cancels' \subseteq Ids
    BY <1>1, <1>2 DEF IInv, TypeOK
  <2>6. QED
    BY <1>2, <2>1, <2>2, <2>3, <2>4, <2>5 DEF IInv, TypeOK
<1>10. OrderMatchesRuns'
  <2>1. order \in Seq(Ids) /\ Len(order) \in Nat /\ \A k \in 1..Len(order) : order[k] \in Int
    BY ConstantsAssumption, LenProperties DEF IInv, TypeOK, Ids
  <2>2. /\ Len(order') = Len(order) + 1
        /\ \A k \in 1..Len(order) : order'[k] = order[k]
        /\ order'[Len(order) + 1] = id
    BY <1>1, <1>2, <2>1, AppendProperties
  <2>3. \A k \in 1..Len(order) : order[k] \in Retained /\ order[k] < id
    <3>1. \A k \in 1..Len(order) : order[k] \in Retained
      BY DEF IInv, OrderMatchesRuns
    <3>2. \A x \in Retained : x <= next /\ x \in Int
      BY <1>1, ConstantsAssumption DEF IInv, GoroutineInv, Retained, Ids
    <3>3. QED
      BY <1>1, <3>1, <3>2 DEF id
  <2>4. \A j, k \in 1..Len(order') : j < k => order'[j] < order'[k]
    BY <2>1, <2>2, <2>3 DEF IInv, OrderMatchesRuns
  <2>5. {order'[k] : k \in 1..Len(order')} = Retained'
    <3>1. ASSUME NEW k \in 1..Len(order') PROVE order'[k] \in Retained'
      BY <1>5, <2>1, <2>2, <2>3
    <3>2. ASSUME NEW x \in Retained' PROVE \E k \in 1..Len(order') : order'[k] = x
      <4>1. CASE x = id
        BY <2>1, <2>2, <4>1
      <4>2. CASE x # id
        <5>1. PICK k \in 1..Len(order) : order[k] = x
          BY <1>5, <3>2, <4>2 DEF IInv, OrderMatchesRuns
        <5>2. k \in 1..Len(order') /\ order'[k] = x
          BY <2>1, <2>2, <5>1
        <5>3. QED
          BY <5>2
      <4>3. QED
        BY <4>1, <4>2
    <3>3. QED
      BY <3>1, <3>2
  <2>6. QED
    BY <2>4, <2>5 DEF OrderMatchesRuns
<1>11. SectionInv'
  BY <1>1, <1>2, <1>4 DEF IInv, TypeOK, SectionInv
<1>12. GoroutineInv'
  BY <1>1, <1>2, ConstantsAssumption DEF IInv, TypeOK, GoroutineInv, Ids, id
<1>13. ShutdownInv'
  BY <1>1, <1>2 DEF IInv, ShutdownInv
<1>14. QED
  BY <1>7, <1>8, <1>9, <1>10, <1>11, <1>12, <1>13 DEF IInv

-------------------------------------------------------------------------------
LEMMA StepKeeps == IInv /\ [Next]_vars => IInv'
<1> SUFFICES ASSUME IInv, [Next]_vars PROVE IInv'
  OBVIOUS
<1>1. CASE CreateNext
  BY <1>1, SectionSteps, EvictOrDeleteStep, InsertStep DEF CreateNext
<1>2. CASE \E id \in Ids : Execute(id)
  <2>1. PICK id \in Ids : Execute(id)
    BY <1>2
  <2>2. Closer \in Callers
    BY DEF Callers
  <2>3. CASE ReportProgress(id)
    BY <2>2, <2>3, CallerSteps
  <2>4. CASE \E how \in {"ok", "error"} : BuilderReturns(id, how)
    BY <2>4, BuilderStep
  <2>5. CASE Record(id)
    BY <2>5, RecordStep
  <2>6. CASE RecordEnd(id)
    BY <2>6, RecordEndStep
  <2>7. CASE WorkerExit(id)
    BY <2>7, WorkerExitStep
  <2>8. QED
    BY <2>1, <2>3, <2>4, <2>5, <2>6, <2>7 DEF Execute
<1>3. CASE CallerNext
  <2>1. CASE \E c \in Clients : CancelAll(c) \/ \E id \in Ids : Cancel(c, id)
    BY <2>1, CallerSteps DEF Callers
  <2>2. CASE \E g \in Callers : CallCancel(g)
    BY <2>2, CallerSteps
  <2>3. CASE \E id \in Ids : Delete(id)
    BY <2>3, EvictOrDeleteStep
  <2>4. QED
    BY <1>3, <2>1, <2>2, <2>3 DEF CallerNext
<1>4. CASE ShutdownNext
  BY <1>4, ShutdownSteps
<1>5. CASE UNCHANGED vars
  <2>1. TypeOK' /\ SectionInv' /\ ShutdownInv'
    BY <1>5 DEF IInv, TypeOK, SectionInv, ShutdownInv, vars, table
  <2>2. QED
    BY <1>5, <2>1, FrameKeeps DEF vars, table
<1>6. QED
  BY <1>1, <1>2, <1>3, <1>4, <1>5 DEF Next

(* The inductive invariant of the manager, for every instance. *)
THEOREM Inductive == Spec => []IInv
<1>1. QED
  BY InitEstablishes, StepKeeps, PTL DEF Spec

(* Every variable of the manager keeps its type; in particular the WaitGroup *)
(* counter never goes below zero and `active` never exceeds maxActive.       *)
THEOREM TypeCorrect == Spec => []TypeOK
<1>1. IInv => TypeOK
  BY DEF IInv
<1>2. QED
  BY <1>1, Inductive, PTL

(* The table never holds more than maxRuns runs. *)
THEOREM RetentionIsBounded == Spec => []RetentionBounded
<1>1. IInv => RetentionBounded
  BY DEF IInv
<1>2. QED
  BY <1>1, Inductive, PTL

(* `active` counts the running runs and `cancels` holds exactly their ids. *)
THEOREM SlotsAreAccounted == Spec => []SlotsMatchRuns
<1>1. IInv => SlotsMatchRuns
  BY DEF IInv
<1>2. QED
  BY <1>1, Inductive, PTL

(* order lists every retained run once, oldest first. *)
THEOREM OrderIsTheTable == Spec => []OrderMatchesRuns
<1>1. IInv => OrderMatchesRuns
  BY DEF IInv
<1>2. QED
  BY <1>1, Inductive, PTL

(* Once the WaitGroup is down to zero no run is left. *)
LEMMA NoWorkerNoRun ==
  ASSUME IInv, workers = 0
  PROVE  Alive = {} /\ Running = {}
<1>1. IsFiniteSet(Alive) /\ Cardinality(Alive) = 0
  BY IdSetsFinite DEF IInv, WorkersCounted, Alive
<1>2. Alive = {}
  BY <1>1, FS_EmptySet
<1>3. Running = {}
  BY <1>2 DEF IInv, GoroutineInv, Alive, Running
<1>4. QED
  BY <1>2, <1>3

(* When Shutdown has returned nil nothing runs, now or later. *)
THEOREM ShutdownLeavesNothing == Spec => []ShutdownIsQuiet
<1>1. IInv => ShutdownIsQuiet
  <2>1. IInv /\ shut = "nil" => workers = 0
    BY DEF IInv, ShutdownInv
  <2>2. QED
    BY <2>1, NoWorkerNoRun DEF ShutdownIsQuiet
<1>2. QED
  BY <1>1, Inductive, PTL

-------------------------------------------------------------------------------
(* The refinement of RunLifecycle. *)

LEMMA IssuedInitially == Init => IssuedOnly
BY DEF Init, IssuedOnly

(* cancels holds running runs, hence accepted ones, whenever it is copied. *)
LEMMA IssuedStep == IInv /\ IssuedOnly /\ [Next]_vars => IssuedOnly'
<1> SUFFICES ASSUME IInv, IssuedOnly, [Next]_vars PROVE IssuedOnly'
  OBVIOUS
<1>1. next \in Nat /\ toCancel \in [Callers -> SUBSET Ids] /\ Closer \in Callers /\ Clients \subseteq Callers
  BY ConstantsAssumption DEF IInv, TypeOK, Callers
<1>2. cancels \subseteq 1..next
  BY <1>1, ConstantsAssumption DEF IInv, SlotsMatchRuns, GoroutineInv, Running, Ids, Absent
<1>3. CASE UNCHANGED <<next, ctxDone, toCancel>>
  BY <1>3 DEF IssuedOnly
<1>4. CASE CreateInsert
  <2>1. next' = next + 1 /\ UNCHANGED <<ctxDone, toCancel>>
    BY <1>4 DEF CreateInsert
  <2>2. 1..next \subseteq 1..next'
    BY <1>1, <2>1
  <2> QED
    BY <2>1, <2>2 DEF IssuedOnly
<1>5. ASSUME NEW c \in Clients, CancelAll(c) \/ \E id \in Ids : Cancel(c, id) PROVE IssuedOnly'
  BY <1>1, <1>2, <1>5 DEF CancelAll, Cancel, IssuedOnly, table
<1>6. ASSUME NEW g \in Callers, CallCancel(g) PROVE IssuedOnly'
  <2>1. PICK id \in toCancel[g] : ctxDone' = ctxDone \cup {id} /\ toCancel' = [toCancel EXCEPT ![g] = @ \ {id}]
    BY <1>6 DEF CallCancel, CancelledBy
  <2>2. next' = next
    BY <1>6 DEF CallCancel, table
  <2> QED
    BY <1>1, <2>1, <2>2 DEF IssuedOnly
<1>7. CASE ShutdownBegin
  BY <1>1, <1>2, <1>7 DEF ShutdownBegin, IssuedOnly, table
<1>8. CASE ShutdownWait \/ WaiterDone \/ ShutdownReturnsNil \/ ShutdownTimesOut \/ UNCHANGED vars
  BY <1>3, <1>8 DEF ShutdownWait, WaiterDone, ShutdownReturnsNil, ShutdownTimesOut, table, vars
<1>9. CASE CreateBegin \/ EvictOldest \/ CreateFull \/ \E id \in Ids : Delete(id)
  BY <1>3, <1>9 DEF CreateBegin, EvictOldest, CreateFull, Delete, table
<1>10. CASE \E id \in Ids : Execute(id)
  BY <1>3, <1>10 DEF Execute, ReportProgress, BuilderReturns, Record, RecordEnd, WorkerExit, table
<1> QED
  BY <1>4, <1>5, <1>6, <1>7, <1>8, <1>9, <1>10 DEF Next, CreateNext, CallerNext, ShutdownNext

(* What the abstract life of a run is, and which runs are in which stage. *)
LEMMA LifeIs ==
  ASSUME IInv
  PROVE  /\ \A id \in Ids : Life[id] = IF id > next THEN "new"
                                     ELSE IF status[id] = Absent THEN "gone" ELSE status[id]
         /\ Lifecycle!InLife({"running"}) = Running
         /\ Lifecycle!InLife({"running"} \cup Ended) = Retained
         /\ DOMAIN Life = Ids
<1>1. \A id \in Ids : Life[id] = IF id > next THEN "new"
                               ELSE IF status[id] = Absent THEN "gone" ELSE status[id]
  BY ConstantsAssumption DEF Life, IInv, TypeOK, Ids
<1>2. \A id \in Ids : id > next => status[id] = Absent
  BY DEF IInv, GoroutineInv
<1>3. \A id \in Ids : status[id] \in Statuses
  BY DEF IInv, TypeOK
<1>4. Lifecycle!InLife({"running"}) = Running
  BY <1>1, <1>2 DEF Lifecycle!InLife, Lifecycle!Ids, Ids, Running, Absent
<1>5. Lifecycle!InLife({"running"} \cup Ended) = Retained
  BY <1>1, <1>2, <1>3 DEF Lifecycle!InLife, Lifecycle!Ids, Ids, Retained, Absent, Statuses, Ended
<1> QED
  BY <1>1, <1>4, <1>5 DEF Life

(* The instance has its own copy of the library's operator. *)
LEMMA SameCardinality == \A S : Lifecycle!Cardinality(S) = Cardinality(S)
BY DEF Lifecycle!Cardinality, Cardinality

LEMMA LifecycleInit == Init => Lifecycle!Init
<1> SUFFICES ASSUME Init PROVE Lifecycle!Init
  OBVIOUS
<1>1. Life = [id \in Ids |-> "new"]
  <2>1. \A id \in Ids : id > next
    BY ConstantsAssumption DEF Init, Ids
  <2>2. \A id \in Ids : Life[id] = "new"
    BY <2>1, InitEstablishes, LifeIs
  <2> QED
    BY <2>2 DEF Life
<1> QED
  BY <1>1 DEF Init, Lifecycle!Init, Lifecycle!Ids, Ids

(* A step that leaves what callers see of the runs alone is a stutter. *)
LEMMA LifecycleStutters ==
  ASSUME IInv, UNCHANGED <<status, next, closing>>, ctxDone' \cap Running = ctxDone \cap Running,
         shut' = "nil" <=> shut = "nil"
  PROVE  UNCHANGED Lifecycle!vars
<1>1. Life' = Life /\ Running' = Running
  BY DEF Life, Running, Ids
<1> QED
  BY <1>1 DEF Lifecycle!vars

(* What an eviction or a deletion takes away had ended. *)
LEMMA DiscardStep ==
  ASSUME IInv, NEW id \in Ids, Terminal(id), RemoveLocked(id),
         UNCHANGED <<next, closing, ctxDone, shut>>
  PROVE  Lifecycle!Discard(id)
<1>1. status' = [status EXCEPT ![id] = Absent] /\ status \in [Ids -> Statuses]
  BY DEF RemoveLocked, IInv, TypeOK
<1>2. status[id] \in Ended /\ status[id] # Absent /\ ~(id > next)
  BY DEF Terminal, Ended, Absent, IInv, GoroutineInv
<1>3. Life[id] \in Ended
  BY <1>2, LifeIs DEF Ended
<1>4. Life' = [Life EXCEPT ![id] = "gone"]
  <2>1. \A k \in Ids \ {id} : status'[k] = status[k]
    BY <1>1
  <2>2. id <= next /\ status'[id] = Absent
    BY <1>1, <1>2, ConstantsAssumption DEF IInv, TypeOK, Ids
  <2>3. UNCHANGED next
    OBVIOUS
  <2> QED
    BY <1>2, <2>1, <2>2, <2>3, LifeIs DEF Life, Absent
<1>5. Running' = Running
  BY <1>1, <1>2 DEF Running, Ended, Absent
<1> QED
  BY <1>3, <1>4, <1>5 DEF Lifecycle!Discard, Lifecycle!Ended, Ended

(* An insertion starts a run with the next id, within both limits. *)
LEMMA StartStep ==
  ASSUME IInv, IssuedOnly, CreateInsert
  PROVE  Lifecycle!Next
<1> DEFINE id == next + 1
<1>1. /\ ~closing /\ active < MaxActive /\ id \in Ids /\ next \in Nat
      /\ status' = [status EXCEPT ![id] = "running"] /\ next' = id
      /\ UNCHANGED <<closing, ctxDone, shut>> /\ status \in [Ids -> Statuses]
  BY ConstantsAssumption DEF CreateInsert, IInv, TypeOK, SectionInv, Ids
<1>2. Life[id] = "new" /\ \A older \in 1..(id - 1) : Life[older] # "new"
  <2>1. \A older \in 1..(id - 1) : older \in Ids /\ ~(older > next)
    BY <1>1, ConstantsAssumption DEF Ids
  <2>2. \A older \in Ids : status[older] # "new"
    BY <1>1 DEF Statuses, Absent, Ended
  <2> QED
    BY <1>1, <2>1, <2>2, LifeIs
<1>3. Lifecycle!Cardinality(Lifecycle!InLife({"running"})) < MaxActive
  BY <1>1, LifeIs, SameCardinality DEF IInv, SlotsMatchRuns
<1>4. Lifecycle!Cardinality(Lifecycle!InLife({"running"} \cup Lifecycle!Ended)) < MaxRuns
  BY LifeIs, SameCardinality DEF CreateInsert, HasRoom, Lifecycle!Ended, Ended
<1>5. Life' = [Life EXCEPT ![id] = "running"]
  <2>1. \A k \in Ids \ {id} : status'[k] = status[k] /\ (k > next' <=> k > next)
    BY <1>1, ConstantsAssumption DEF Ids
  <2>2. status'[id] = "running" /\ ~(id > next') /\ id <= next'
    BY <1>1
  <2>3. \A k \in Ids : k <= next <=> ~(k > next)
    BY <1>1, ConstantsAssumption DEF Ids
  <2>4. \A k \in Ids : k <= next' <=> ~(k > next')
    BY <1>1, ConstantsAssumption DEF Ids
  <2>5. \A k \in Ids \ {id} : (k <= next' <=> k <= next) /\ (k > next' <=> k > next)
    BY <2>1, <2>3, <2>4
  <2> HIDE DEF id
  <2>6. id \in Ids /\ id <= next'
    BY <1>1, <2>2
  <2>7. \A k \in Ids \ {id} : Life'[k] = Life[k]
    <3> SUFFICES ASSUME NEW k \in Ids \ {id} PROVE Life'[k] = Life[k]
      OBVIOUS
    <3>1. status'[k] = status[k] /\ (k <= next' <=> k <= next) /\ (k > next' <=> k > next)
      BY <2>1, <2>5
    <3>2. Life[k] = CASE k > next -> "new"
                      [] k <= next /\ status[k] = Absent -> "gone"
                      [] k <= next /\ status[k] # Absent -> status[k]
      BY DEF Life
    <3>3. Life'[k] = CASE k > next' -> "new"
                       [] k <= next' /\ status'[k] = Absent -> "gone"
                       [] k <= next' /\ status'[k] # Absent -> status'[k]
      BY DEF Life, Absent, Ids
    <3>4. CASE k > next
      BY <3>1, <3>2, <3>3, <3>4
    <3>5. CASE ~(k > next) /\ status[k] = Absent
      BY <2>3, <3>1, <3>2, <3>3, <3>5 DEF Absent
    <3>6. CASE ~(k > next) /\ status[k] # Absent
      BY <2>3, <3>1, <3>2, <3>3, <3>6 DEF Absent
    <3> QED
      BY <3>4, <3>5, <3>6
  <2>8. Life'[id] = "running"
    BY <2>2, <2>6 DEF Life, Absent, Ids
  <2> DEFINE L == Life
  <2>9. L \in [Ids -> {L[k] : k \in Ids}] /\ L' \in [Ids -> {L'[k] : k \in Ids}]
    BY DEF Life, Ids
  <2> HIDE DEF L
  <2>10. L' = [L EXCEPT ![id] = "running"]
    BY <2>6, <2>7, <2>8, <2>9 DEF L
  <2> QED
    BY <2>10 DEF L
<1>6. (ctxDone \cap Running)' = ctxDone \cap Running
  <2>1. id \notin ctxDone
    BY <1>1 DEF IssuedOnly
  <2>2. Running' \ {id} = Running \ {id}
    BY <1>1 DEF Running
  <2> QED
    BY <1>1, <2>1, <2>2
<1> HIDE DEF id
<1>7. Lifecycle!Start(id)
  BY <1>1, <1>2, <1>3, <1>4, <1>5, <1>6 DEF Lifecycle!Start
<1> QED
  BY <1>1, <1>7 DEF Lifecycle!Next, Lifecycle!Ids, Ids

(* A run ends once, as canceled iff it was cancelled by then. *)
LEMMA EndStep ==
  ASSUME IInv, NEW id \in Ids, Record(id)
  PROVE  Lifecycle!End(id, Outcome(id)) /\ Outcome(id) \in Ended
<1>1. status[id] = "running" /\ build[id] \in {"ok", "error"} /\ status \in [Ids -> Statuses]
  BY DEF IInv, TypeOK, GoroutineInv, Record
<1>2. status' = [status EXCEPT ![id] = Outcome(id)] /\ UNCHANGED <<next, closing, ctxDone, shut>>
  BY <1>1 DEF Record, Absent
<1>3. /\ Outcome(id) \in Ended /\ (Outcome(id) = "canceled" <=> id \in ctxDone)
  BY DEF Outcome, Ended
<1> HIDE DEF Outcome
<1>4. ~(id > next)
  BY <1>1 DEF IInv, GoroutineInv, Absent
<1>5. id \in Running /\ Running' = Running \ {id}
  BY <1>1, <1>2, <1>3 DEF Running, Ended
<1>6. Life[id] = "running" /\ Life' = [Life EXCEPT ![id] = Outcome(id)]
  <2>1. id <= next
    BY <1>4, ConstantsAssumption DEF IInv, TypeOK, Ids
  <2>2. Outcome(id) # Absent
    BY <1>3 DEF Ended, Absent
  <2>3. \A k \in Ids \ {id} : status'[k] = status[k]
    BY <1>1, <1>2
  <2>4. status'[id] = Outcome(id)
    BY <1>1, <1>2
  <2>5. Life[id] = "running"
    BY <1>1, <1>4, LifeIs DEF Absent
  <2>6. next' = next /\ Ids' = Ids /\ Absent' = Absent
    BY <1>2 DEF Ids, Absent
  <2>7. \A k \in Ids \ {id} : Life'[k] = Life[k]
    <3> TAKE k \in Ids \ {id}
    <3>1. Life[k] = CASE k > next -> "new"
                      [] k <= next /\ status[k] = Absent -> "gone"
                      [] k <= next /\ status[k] # Absent -> status[k]
      BY DEF Life
    <3>2. Life'[k] = CASE k > next' -> "new"
                       [] k <= next' /\ status'[k] = Absent -> "gone"
                       [] k <= next' /\ status'[k] # Absent -> status'[k]
      BY DEF Life, Absent, Ids
    <3> QED
      BY <2>3, <2>6, <3>1, <3>2
  <2>8. Life'[id] = Outcome(id)
    BY <1>4, <2>1, <2>2, <2>4, <2>6 DEF Life, Absent, Ids
  <2> DEFINE L == Life
  <2>9. L \in [Ids -> {L[k] : k \in Ids}] /\ L' \in [Ids -> {L'[k] : k \in Ids}]
    BY DEF Life, Ids
  <2> HIDE DEF L
  <2>10. L' = [L EXCEPT ![id] = Outcome(id)]
    BY <2>7, <2>8, <2>9 DEF L
  <2> QED
    BY <2>5, <2>10 DEF L
<1> QED
  BY <1>2, <1>3, <1>5, <1>6 DEF Lifecycle!End

LEMMA LifecycleStep == IInv /\ IInv' /\ IssuedOnly /\ [Next]_vars => [Lifecycle!Next]_(Lifecycle!vars)
<1> SUFFICES ASSUME IInv, IInv', IssuedOnly, [Next]_vars PROVE [Lifecycle!Next]_(Lifecycle!vars)
  OBVIOUS
<1>i. Lifecycle!Ids = Ids /\ Lifecycle!Ended = Ended
  BY DEF Lifecycle!Ids, Ids, Lifecycle!Ended, Ended
<1>1. CASE CreateInsert
  BY <1>1, StartStep
<1>2. CASE EvictOldest \/ \E id \in Ids : Delete(id)
  <2>1. PICK id \in Ids : Terminal(id) /\ RemoveLocked(id)
    BY <1>2 DEF EvictOldest, Delete, Deletable, Oldest
  <2>2. UNCHANGED <<next, closing, ctxDone, shut>>
    BY <1>2 DEF EvictOldest, Delete
  <2> QED
    BY <1>i, <2>1, <2>2, DiscardStep DEF Lifecycle!Next
<1>3. ASSUME NEW id \in Ids, Record(id) PROVE Lifecycle!Next
  BY <1>i, <1>3, EndStep DEF Lifecycle!Next
<1>4. ASSUME NEW g \in Callers, CallCancel(g) PROVE [Lifecycle!Next]_(Lifecycle!vars)
  <2>1. PICK id \in toCancel[g] : ctxDone' = ctxDone \cup {id}
    BY <1>4 DEF CallCancel, CancelledBy
  <2>2. UNCHANGED <<status, next, closing, shut>> /\ id \in Ids
    BY <1>4, <2>1 DEF CallCancel, table, IInv, TypeOK
  <2>3. CASE id \in Running
    <3>1. Life[id] = "running"
      BY <2>3, LifeIs DEF Running, Absent, IInv, GoroutineInv
    <3>2. Life' = Life /\ Running' = Running
      BY <2>2 DEF Life, Running, Ids
    <3>3. (ctxDone \cap Running)' = (ctxDone \cap Running) \cup {id}
      BY <2>1, <2>3, <3>2
    <3>4. Lifecycle!RequestCancel(id)
      BY <2>2, <3>1, <3>2, <3>3 DEF Lifecycle!RequestCancel
    <3> QED
      BY <1>i, <2>2, <3>4 DEF Lifecycle!Next
  <2>4. CASE id \notin Running
    BY <2>1, <2>2, <2>4, LifecycleStutters
  <2> QED
    BY <2>3, <2>4
<1>5. CASE ShutdownBegin
  <2>1. ~closing /\ closing' /\ UNCHANGED <<status, next, ctxDone>> /\ shut # "nil" /\ shut' # "nil"
    BY <1>5 DEF ShutdownBegin, table, IInv, ShutdownInv
  <2>2. Life' = Life /\ Running' = Running
    BY <2>1 DEF Life, Running, Ids
  <2> QED
    BY <2>1, <2>2 DEF Lifecycle!Next, Lifecycle!Close
<1>6. CASE ShutdownReturnsNil
  <2>1. closing /\ shut' = "nil" /\ UNCHANGED <<status, next, closing, ctxDone>>
    BY <1>6 DEF ShutdownReturnsNil, table, IInv, ShutdownInv
  <2>2. Life' = Life /\ Running' = Running
    BY <2>1 DEF Life, Running, Ids
  <2>3. Running = {}
    <3>1. workers = 0
      BY <1>6 DEF ShutdownReturnsNil, IInv, ShutdownInv
    <3> QED
      BY <3>1, NoWorkerNoRun
  <2> QED
    BY <2>1, <2>2, <2>3, LifeIs DEF Lifecycle!Next, Lifecycle!Stop
<1>7. CASE ShutdownWait \/ WaiterDone \/ ShutdownTimesOut \/ UNCHANGED vars
  BY <1>7, LifecycleStutters DEF ShutdownWait, WaiterDone, ShutdownTimesOut, table, vars
<1>8. CASE CreateBegin \/ CreateFull \/ \E c \in Clients : CancelAll(c) \/ \E id \in Ids : Cancel(c, id)
  BY <1>8, LifecycleStutters DEF CreateBegin, CreateFull, CancelAll, Cancel, table
<1>9. ASSUME NEW id \in Ids,
             \/ ReportProgress(id) \/ RecordEnd(id) \/ WorkerExit(id)
             \/ \E how \in {"ok", "error"} : BuilderReturns(id, how)
      PROVE  UNCHANGED Lifecycle!vars
  BY <1>9, LifecycleStutters DEF ReportProgress, BuilderReturns, RecordEnd, WorkerExit, table
<1> QED
  BY <1>1, <1>2, <1>3, <1>4, <1>5, <1>6, <1>7, <1>8, <1>9
    DEF Next, CreateNext, Execute, CallerNext, ShutdownNext

(* The manager implements the abstract life of a run, for every number of    *)
(* clients and every limit: ids are issued in order and never again, a run   *)
(* ends once, as canceled iff it was cancelled while it ran, only ended runs *)
(* are discarded, nothing starts after closing, and Shutdown's nil means     *)
(* that nothing runs.                                                        *)
THEOREM ManagerImplementsLifecycle == Spec => RefinesLifecycle
<1>1. Spec => []IssuedOnly
  <2>1. IInv /\ IssuedOnly /\ [Next]_vars => IssuedOnly'
    BY IssuedStep
  <2> QED
    BY <2>1, IssuedInitially, Inductive, PTL DEF Spec
<1>2. IInv /\ IInv' /\ IssuedOnly /\ [Next]_vars => [Lifecycle!Next]_(Lifecycle!vars)
  BY LifecycleStep
<1> QED
  BY <1>1, <1>2, LifecycleInit, Inductive, PTL DEF Spec, RefinesLifecycle, Lifecycle!Spec
===============================================================================
