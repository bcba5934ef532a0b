---------------------------- MODULE ReportPoolProofs ----------------------------
(***************************************************************************)
(* The reports, for any files, any number of workers and any limit.        *)
(*                                                                         *)
(* First the pool: no file's result is lost, received twice or received    *)
(* after Build has returned, whatever files fail and in whatever order the *)
(* results arrive.                                                         *)
(*                                                                         *)
(* Then what is in a report.  A file is read line by line, its events one  *)
(* by one and their rows one by one; each of these folds is a walk whose   *)
(* steps keep what was read so far in agreement with what the file holds,  *)
(* said without reading it in order (FileEvents, OwnRowsTaken,             *)
(* PairedRowsTaken).  Of rows taken from disjoint sets, groups add up      *)
(* (GroupsMerged) and the first rows of each hour are the first of both    *)
(* (HoursMerged), so that what Build has merged is what the files received *)
(* hold (ReportIsExact), and the report ranks it (ReportIsRanked).         *)
(***************************************************************************)
EXTENDS ReportPool, FiniteSetTheorems, SequenceTheorems, WellFoundedInduction, TLAPS

(* A value is in a sequence when it is at one of its indices. *)
LEMMA Elements == \A s : \A y : y \in ToSet(s) <=> \E i \in DOMAIN s : s[i] = y
  BY Zenon DEF ToSet

(* What a channel holds after a send. *)
LEMMA AppendOnce ==
  ASSUME NEW s \in Seq(Nat), NEW x \in Nat
  PROVE  /\ Append(s, x) \in Seq(Nat) /\ Append(s, x) # <<>>
         /\ ToSet(Append(s, x)) = ToSet(s) \cup {x}
         /\ IsInjective(s) /\ x \notin ToSet(s) => IsInjective(Append(s, x))
<1> DEFINE t == Append(s, x)
<1>1. /\ t \in Seq(Nat) /\ Len(t) = Len(s) + 1 /\ Len(s) \in Nat
      /\ \A i \in 1..Len(s) : t[i] = s[i]
      /\ t[Len(s) + 1] = x
  BY AppendProperties, LenProperties
<1>2. DOMAIN s = 1..Len(s) /\ DOMAIN t = 1..(Len(s) + 1)
  BY <1>1, LenProperties
<1> HIDE DEF t
<1>3. DOMAIN t = DOMAIN s \cup {Len(s) + 1} /\ Len(s) + 1 \notin DOMAIN s
  BY <1>1, <1>2
<1>4. ToSet(t) = ToSet(s) \cup {x}
  <2>1. \A i \in DOMAIN s : i \in DOMAIN t /\ t[i] = s[i]
    BY <1>1, <1>2, <1>3
  <2>2. \A i \in DOMAIN t : i \in DOMAIN s \/ t[i] = x
    BY <1>1, <1>3
  <2>3. \A y : y \in ToSet(t) <=> y \in ToSet(s) \/ y = x
    BY <1>1, <1>3, <2>1, <2>2, Elements
  <2> QED
    BY <2>3
<1>5. ASSUME IsInjective(s), x \notin ToSet(s) PROVE IsInjective(t)
  <2> SUFFICES ASSUME NEW a \in DOMAIN t, NEW b \in DOMAIN t, t[a] = t[b] PROVE a = b
    BY DEF IsInjective
  <2>1. \A i \in DOMAIN s : s[i] # x /\ t[i] = s[i]
    BY <1>1, <1>2, <1>5 DEF ToSet
  <2> QED
    BY <1>1, <1>3, <1>5, <2>1 DEF IsInjective
<1>6. t # <<>>
  BY <1>1
<1> QED
  BY <1>1, <1>4, <1>5, <1>6 DEF t

(* What it holds after a receive. *)
LEMMA TakeOnce ==
  ASSUME NEW s \in Seq(Nat), s # <<>>, IsInjective(s)
  PROVE  /\ Tail(s) \in Seq(Nat) /\ Head(s) \in Nat
         /\ ToSet(s) = ToSet(Tail(s)) \cup {Head(s)}
         /\ Head(s) \notin ToSet(Tail(s))
         /\ IsInjective(Tail(s))
<1> DEFINE t == Tail(s)
<1>1. /\ t \in Seq(Nat) /\ Len(t) = Len(s) - 1 /\ Head(s) \in Nat /\ Head(s) = s[1]
      /\ \A i \in 1..Len(t) : t[i] = s[i + 1]
  BY HeadTailProperties
<1>2. /\ Len(s) \in Nat /\ Len(s) > 0
      /\ DOMAIN s = 1..Len(s) /\ DOMAIN t = 1..(Len(s) - 1)
  BY <1>1, LenProperties, EmptySeq
<1> HIDE DEF t
<1>3. \A i \in DOMAIN t : i \in Nat /\ i + 1 \in DOMAIN s /\ i + 1 # 1 /\ t[i] = s[i + 1]
  <2> TAKE i \in DOMAIN t
  <2>1. i \in 1..(Len(s) - 1)
    BY <1>2
  <2>2. i \in Nat /\ i + 1 \in 1..Len(s) /\ i + 1 # 1 /\ i \in 1..Len(t)
    BY <1>1, <1>2, <2>1
  <2>3. QED
    BY <1>1, <1>2, <2>2
<1>4. \A i \in DOMAIN s : i = 1 \/ (i - 1 \in DOMAIN t /\ t[i - 1] = s[i])
  <2> TAKE i \in DOMAIN s
  <2>1. i \in 1..Len(s)
    BY <1>2
  <2>2. i = 1 \/ (i - 1 \in 1..(Len(s) - 1) /\ i - 1 \in 1..Len(t) /\ (i - 1) + 1 = i)
    BY <1>1, <1>2, <2>1
  <2>3. QED
    BY <1>1, <1>2, <2>2
<1>5. 1 \in DOMAIN s
  BY <1>2
<1>6. ToSet(s) = ToSet(t) \cup {Head(s)}
  <2>1. ASSUME NEW y, y \in ToSet(s) PROVE y \in ToSet(t) \/ y = Head(s)
    <3>1. PICK i \in DOMAIN s : s[i] = y
      BY <2>1, Elements
    <3> QED
      BY <1>1, <1>4, <3>1, Elements
  <2>2. ASSUME NEW y, y \in ToSet(t) PROVE y \in ToSet(s)
    <3>1. PICK i \in DOMAIN t : t[i] = y
      BY <2>2, Elements
    <3> QED
      BY <1>3, <3>1, Elements
  <2>3. Head(s) \in ToSet(s)
    BY <1>1, <1>5, Elements
  <2> QED
    BY <2>1, <2>2, <2>3
<1>7. Head(s) \notin ToSet(t)
  <2> SUFFICES ASSUME Head(s) \in ToSet(t) PROVE FALSE
    OBVIOUS
  <2>1. PICK i \in DOMAIN t : t[i] = Head(s)
    BY Elements
  <2>2. i + 1 \in DOMAIN s /\ i + 1 # 1 /\ s[i + 1] = s[1]
    BY <1>1, <1>3, <2>1
  <2> QED
    BY <1>5, <2>2 DEF IsInjective
<1>8. IsInjective(t)
  BY <1>3 DEF IsInjective
<1> QED
  BY <1>1, <1>6, <1>7, <1>8 DEF t

(* Of the strengthening, what does not depend on where the files are. *)
Places ==
  /\ Len(files) \in Nat /\ handed \in 0..Len(files)
  /\ feeder \in {"feeding", "waiting", "done"}
  /\ worker \in [Workers -> [does : {"waiting", "reading", "sending", "gone"}, file : Nat]]
  /\ results \in Seq(Nat) /\ received \in Seq(Nat)
  /\ \A w \in Workers : worker[w].does \in {"reading", "sending"} <=> worker[w].file # 0
  /\ stage \in {"starting", "collecting", "returned", "failed"}
  /\ feeder # "feeding" => handed = Len(files)
  /\ feeder = "done" => AllGone
  /\ stage \in {"starting", "failed"} => handed = 0 /\ feeder = "feeding"
  /\ stage = "returned" => results = <<>> /\ (feeder = "done" \/ files = <<>>)
  /\ files = <<>> => stage # "collecting"

(* The strengthening, and that of the next state, as its two halves. *)
LEMMA Split == PoolInv <=> Places /\ EachFileOnce
  BY DEF PoolInv, Places

(* ... and primed. *)
LEMMA SplitNext == PoolInv' <=> Places' /\ EachFileOnce'
  BY DEF PoolInv, Places

(* Two workers hold different files. *)
Apart == \A v, w \in Workers : worker[v].file = worker[w].file => v = w \/ worker[v].file = 0

(* The set of files the workers hold, when one of them changes. *)
LEMMA HeldAfter ==
  ASSUME NEW w \in Workers, NEW r \in [does : {"waiting", "reading", "sending", "gone"}, file : Nat],
         Places, Apart, worker' = [worker EXCEPT ![w] = r],
         r.file = 0 \/ r.file = worker[w].file \/ r.file \notin Held
  PROVE  /\ worker' \in [Workers -> [does : {"waiting", "reading", "sending", "gone"}, file : Nat]]
         /\ Held' = (Held \ {worker[w].file}) \cup ({r.file} \ {0})
         /\ Apart'
<1>1. \A v \in Workers : worker'[v] = IF v = w THEN r ELSE worker[v]
  BY DEF Places
<1>2. worker' \in [Workers -> [does : {"waiting", "reading", "sending", "gone"}, file : Nat]]
  BY DEF Places
<1>3. ASSUME NEW v \in Workers, v # w, worker[v].file # 0
      PROVE  worker[v].file \in Held \ {worker[w].file} /\ worker[v].file # r.file
  BY <1>3 DEF Held, Apart
<1>4. Apart'
  BY <1>1, <1>3 DEF Apart
<1>5. Held' = (Held \ {worker[w].file}) \cup ({r.file} \ {0})
  BY <1>1, <1>3 DEF Held
<1> QED
  BY <1>2, <1>4, <1>5

(* Steps that move no file. *)
LEMMA SameFiles ==
  ASSUME EachFileOnce, UNCHANGED <<files, handed, results, received>>,
         Held' = Held, Apart', stage' = "returned" => stage = "returned"
  PROVE  EachFileOnce'
  BY DEF EachFileOnce, Apart, Queued, Received, FileIds

(* When no worker moves, they hold what they held. *)
LEMMA NoWorker ==
  ASSUME worker' = worker
  PROVE  /\ Held' = Held /\ AllGone' = AllGone /\ Apart' = Apart
  BY DEF Held, AllGone, Apart

(* The pool starts with no file handed out. *)
LEMMA PoolInitially == Init => PoolInv
<1> SUFFICES ASSUME Init PROVE PoolInv
  OBVIOUS
<1>1. PICK in \in Inputs : files = in[2]
  BY DEF Init
<1>2. Len(files) \in Nat
  BY <1>1, PoolAssumption, LenProperties
<1>3. worker \in [Workers -> [does : {"waiting", "reading", "sending", "gone"}, file : Nat]]
      /\ \A w \in Workers : worker[w].does = "waiting" /\ worker[w].file = 0
  BY DEF Init, Idle
<1>4. Places
  BY <1>2, <1>3 DEF Init, Places
<1>5. Held = {} /\ Queued = {} /\ Received = {} /\ IsInjective(results) /\ IsInjective(received)
  <2>1. DOMAIN results = {} /\ DOMAIN received = {}
    BY DEF Init
  <2>2. ToSet(results) = {} /\ ToSet(received) = {}
    BY <2>1, Elements
  <2> QED
    BY <1>3, <2>1, <2>2 DEF Held, Queued, Received, IsInjective
<1>6. 1..handed = {} /\ stage # "returned"
  BY DEF Init
<1>7. EachFileOnce
  BY <1>3, <1>5, <1>6 DEF EachFileOnce
<1> QED
  BY <1>4, <1>7, Split

(* Every step of the pool keeps the strengthening. *)
LEMMA PoolStep == PoolInv /\ [Next]_vars => PoolInv'
<1> SUFFICES ASSUME PoolInv, [Next]_vars PROVE PoolInv'
  OBVIOUS
<1>0. Places /\ EachFileOnce /\ Apart
  BY Split DEF EachFileOnce, Apart
<1>a. /\ Held \cup Queued \cup Received = 1..handed
      /\ Held \cap Queued = {} /\ Held \cap Received = {} /\ Queued \cap Received = {}
      /\ IsInjective(results) /\ IsInjective(received)
  BY <1>0 DEF EachFileOnce
<1>1. CASE Start
  <2>1. UNCHANGED <<files, handed, feeder, worker, results, received>>
    BY <1>1 DEF Start, input, pool
  <2>2. /\ stage = "starting"
        /\ stage' \in {"returned", "failed", "collecting"}
        /\ (stage' = "returned" => files = <<>>)
        /\ (files = <<>> => stage' # "collecting")
    BY <1>1 DEF Start
  <2>3. handed = 0 /\ feeder = "feeding" /\ results \in Seq(Nat)
    BY <1>0, <2>2 DEF Places
  <2>4. Queued = {} /\ Received = {}
    BY <1>a, <2>3
  <2>5. results = <<>>
    <3>1. DOMAIN results = {}
      BY <2>4, Elements DEF Queued
    <3>2. Len(results) \in Nat /\ DOMAIN results = 1..Len(results)
      BY <2>3, LenProperties
    <3>3. Len(results) = 0
      BY <3>1, <3>2
    <3> QED
      BY <2>3, <3>3, EmptySeq
  <2>6. Places'
    BY <1>0, <2>1, <2>2, <2>3, <2>5, NoWorker DEF Places
  <2>7. stage' = "returned" => Received' = FileIds'
    <3>1. files = <<>> => FileIds = {}
      BY DEF FileIds
    <3> QED
      BY <2>1, <2>2, <2>4, <3>1 DEF Received, FileIds
  <2>8. EachFileOnce'
    BY <1>0, <1>a, <2>1, <2>7, NoWorker DEF EachFileOnce, Apart, Queued, Received
  <2> QED
    BY <2>6, <2>8, SplitNext
<1>2. ASSUME NEW w \in Workers, TakeJob(w) PROVE PoolInv'
  <2> DEFINE r == [does |-> "reading", file |-> handed + 1]
  <2>1. /\ UNCHANGED <<files, feeder, results, received, stage>>
        /\ stage = "collecting" /\ feeder = "feeding" /\ worker[w].file = 0
        /\ handed' = handed + 1 /\ handed < Len(files) /\ handed' \in 1..Len(files)
        /\ worker' = [worker EXCEPT ![w] = r]
        /\ r \in [does : {"waiting", "reading", "sending", "gone"}, file : Nat]
    BY <1>0, <1>2 DEF TakeJob, input, build, Idle, Places
  <2>2. handed + 1 \notin 1..handed /\ 1..handed' = (1..handed) \cup {handed + 1}
    BY <1>0, <2>1 DEF Places
  <2>3. r.file \notin Held
    BY <1>a, <2>2
  <2>4. /\ worker' \in [Workers -> [does : {"waiting", "reading", "sending", "gone"}, file : Nat]]
        /\ Held' = (Held \ {worker[w].file}) \cup ({r.file} \ {0})
        /\ Apart'
    BY <1>0, <2>1, <2>3, HeldAfter
  <2>5. Held' = Held \cup {handed + 1}
    BY <1>0, <2>1, <2>4 DEF Held, Places
  <2>6. Places'
    <3>1. \A v \in Workers : worker'[v].does \in {"reading", "sending"} <=> worker'[v].file # 0
      BY <1>0, <2>1 DEF Places
    <3>2. handed' \in 0..Len(files)
      BY <1>0, <2>1 DEF Places
    <3> QED
      BY <1>0, <2>1, <2>4, <3>1, <3>2 DEF Places
  <2>7. EachFileOnce'
    <3>1. handed + 1 \notin Queued /\ handed + 1 \notin Received
      BY <1>a, <2>2
    <3>2. Held' \cup Queued \cup Received = 1..handed'
      BY <1>a, <2>2, <2>5
    <3>3. Held' \cap Queued = {} /\ Held' \cap Received = {}
      BY <1>a, <2>5, <3>1
    <3> QED
      BY <1>a, <2>1, <2>4, <3>2, <3>3 DEF EachFileOnce, Apart, Queued, Received
  <2> QED
    BY <2>6, <2>7, SplitNext
<1>3. ASSUME NEW w \in Workers, ReadFile(w) PROVE PoolInv'
  <2> DEFINE r == [worker[w] EXCEPT !.does = "sending"]
  <2>1. /\ UNCHANGED <<files, handed, feeder, results, received, stage>>
        /\ worker' = [worker EXCEPT ![w] = r]
        /\ worker[w].does = "reading" /\ worker[w].file # 0
        /\ r \in [does : {"waiting", "reading", "sending", "gone"}, file : Nat]
        /\ r.file = worker[w].file /\ r.does = "sending"
    BY <1>0, <1>3 DEF ReadFile, input, build, Places
  <2>2. /\ worker' \in [Workers -> [does : {"waiting", "reading", "sending", "gone"}, file : Nat]]
        /\ Held' = (Held \ {worker[w].file}) \cup ({r.file} \ {0})
        /\ Apart'
    BY <1>0, <2>1, HeldAfter
  <2>3. Held' = Held
    BY <2>1, <2>2 DEF Held
  <2>4. feeder # "done"
    BY <1>0, <2>1 DEF Places, AllGone
  <2>5. Places'
    BY <1>0, <2>1, <2>2, <2>4 DEF Places
  <2> QED
    BY <1>0, <2>1, <2>2, <2>3, <2>5, SameFiles, SplitNext
<1>4. ASSUME NEW w \in Workers, SendResult(w) PROVE PoolInv'
  <2> DEFINE x == worker[w].file
  <2>1. /\ UNCHANGED <<files, handed, feeder, received, stage>>
        /\ worker' = [worker EXCEPT ![w] = Idle]
        /\ results' = Append(results, x)
        /\ worker[w].does = "sending" /\ x # 0 /\ x \in Nat
        /\ Idle \in [does : {"waiting", "reading", "sending", "gone"}, file : Nat]
        /\ Idle.file = 0 /\ Idle.does = "waiting"
        /\ results \in Seq(Nat)
    BY <1>0, <1>4 DEF SendResult, AfterSend, input, build, Places, Idle
  <2>2. /\ worker' \in [Workers -> [does : {"waiting", "reading", "sending", "gone"}, file : Nat]]
        /\ Held' = (Held \ {x}) \cup ({Idle.file} \ {0})
        /\ Apart'
    BY <1>0, <2>1, HeldAfter
  <2>3. Held' = Held \ {x} /\ x \in Held
    BY <2>1, <2>2 DEF Held
  <2>4. /\ results' \in Seq(Nat) /\ Queued' = Queued \cup {x} /\ IsInjective(results')
    BY <1>a, <2>1, <2>3, AppendOnce DEF Queued
  <2>5. feeder # "done" /\ stage = "collecting"
    <3>1. handed # 0
      BY <1>a, <2>3
    <3>2. feeder # "done"
      BY <1>0, <2>1 DEF Places, AllGone
    <3> QED
      BY <1>0, <3>1, <3>2 DEF Places
  <2>6. Places'
    BY <1>0, <2>1, <2>2, <2>4, <2>5 DEF Places
  <2>7. EachFileOnce'
    BY <1>a, <2>1, <2>2, <2>3, <2>4, <2>5 DEF EachFileOnce, Apart, Received
  <2> QED
    BY <2>6, <2>7, SplitNext
<1>5. ASSUME NEW w \in Workers, LeaveJobs(w) PROVE PoolInv'
  <2> DEFINE r == [does |-> "gone", file |-> 0]
  <2>1. /\ UNCHANGED <<files, handed, feeder, results, received, stage>>
        /\ feeder = "waiting"
        /\ worker' = [worker EXCEPT ![w] = r]
        /\ worker[w].file = 0
        /\ r \in [does : {"waiting", "reading", "sending", "gone"}, file : Nat]
        /\ r.file = 0
    BY <1>5 DEF LeaveJobs, input, build, Idle
  <2>2. /\ worker' \in [Workers -> [does : {"waiting", "reading", "sending", "gone"}, file : Nat]]
        /\ Held' = (Held \ {worker[w].file}) \cup ({r.file} \ {0})
        /\ Apart'
    BY <1>0, <2>1, HeldAfter
  <2>3. Held' = Held
    BY <2>1, <2>2 DEF Held
  <2>4. Places'
    BY <1>0, <2>1, <2>2 DEF Places
  <2> QED
    BY <1>0, <2>1, <2>2, <2>3, <2>4, SameFiles, SplitNext
<1>6. CASE CloseJobs
  <2>1. /\ UNCHANGED <<files, handed, worker, results, received, stage>>
        /\ stage = "collecting" /\ feeder' = "waiting" /\ handed = Len(files)
    BY <1>6 DEF CloseJobs, input, build
  <2>2. Places'
    BY <1>0, <2>1, NoWorker DEF Places
  <2> QED
    BY <1>0, <2>1, <2>2, NoWorker, SameFiles, SplitNext
<1>7. CASE CloseResults
  <2>1. /\ UNCHANGED <<files, handed, worker, results, received, stage>>
        /\ feeder = "waiting" /\ feeder' = "done" /\ AllGone
    BY <1>7 DEF CloseResults, input, build
  <2>2. Places'
    BY <1>0, <2>1, NoWorker DEF Places
  <2> QED
    BY <1>0, <2>1, <2>2, NoWorker, SameFiles, SplitNext
<1>8. CASE Receive
  <2> DEFINE x == Head(results)
  <2>1. /\ UNCHANGED <<files, handed, feeder, worker, stage>>
        /\ stage = "collecting"
        /\ results # <<>> /\ results' = Tail(results)
        /\ received' = Append(received, x)
        /\ results \in Seq(Nat) /\ received \in Seq(Nat)
    BY <1>0, <1>8 DEF Receive, TakeResult, input, Places
  <2>2. /\ results' \in Seq(Nat) /\ x \in Nat /\ Queued = Queued' \cup {x} /\ x \notin Queued'
        /\ IsInjective(results')
    BY <1>a, <2>1, TakeOnce DEF Queued
  <2>3. x \notin Received
    BY <1>a, <2>2
  <2>4. /\ received' \in Seq(Nat) /\ Received' = Received \cup {x} /\ IsInjective(received')
    BY <1>a, <2>1, <2>2, <2>3, AppendOnce DEF Received
  <2>5. Places'
    BY <1>0, <2>1, <2>2, <2>4, NoWorker DEF Places
  <2>6. EachFileOnce'
    BY <1>0, <1>a, <2>1, <2>2, <2>3, <2>4, NoWorker DEF EachFileOnce, Apart
  <2> QED
    BY <2>5, <2>6, SplitNext
<1>9. CASE Return
  <2>1. /\ UNCHANGED <<files, handed, feeder, worker, results, received>>
        /\ stage = "collecting" /\ stage' = "returned" /\ results = <<>> /\ feeder = "done"
    BY <1>9 DEF Return, LeaveLoop, input, pool
  <2>2. Places'
    BY <1>0, <2>1, NoWorker DEF Places
  <2>3. Held = {} /\ Queued = {} /\ handed = Len(files)
    <3>1. \A w \in Workers : worker[w].file = 0
      BY <1>0, <2>1 DEF Places, AllGone
    <3>2. Held = {}
      BY <3>1 DEF Held
    <3>3. DOMAIN results = {}
      BY <2>1
    <3>4. Queued = {}
      BY <3>3, Elements DEF Queued
    <3> QED
      BY <1>0, <2>1, <3>2, <3>4 DEF Places
  <2>4. Received = FileIds
    BY <1>a, <2>3 DEF FileIds
  <2>5. EachFileOnce'
    BY <1>0, <2>1, <2>4, NoWorker DEF EachFileOnce, Queued, Received, FileIds
  <2> QED
    BY <2>2, <2>5, SplitNext
<1>10. CASE Over \/ UNCHANGED vars
  <2>1. UNCHANGED <<files, handed, feeder, worker, results, received, stage>>
    BY <1>10 DEF Over, vars, input, pool, build
  <2>2. Places'
    BY <1>0, <2>1, NoWorker DEF Places
  <2> QED
    BY <1>0, <2>1, <2>2, NoWorker, SameFiles, SplitNext
<1> QED
  BY <1>1, <1>2, <1>3, <1>4, <1>5, <1>6, <1>7, <1>8, <1>9, <1>10 DEF Next, WorkerNext

(* PoolInv is an invariant of the reports' worker pool. *)
THEOREM PoolInvariant == Spec => []PoolInv
<1>1. Init => PoolInv
  BY PoolInitially
<1>2. PoolInv /\ [Next]_vars => PoolInv'
  BY PoolStep
<1> QED
  BY <1>1, <1>2, PTL DEF Spec

(* At every moment each file handed to a worker is with that worker, in the *)
(* channel or received, and Build returns with the results of all files     *)
(* (Build and BuildRaw of contextreport and errorreport).                   *)
THEOREM NoResultLost == Spec => []EachFileOnce
<1>1. PoolInv => EachFileOnce
  BY DEF PoolInv
<1> QED
  BY <1>1, PoolInvariant, PTL

-------------------------------------------------------------------------------
(* A set of natural numbers that is not empty has a least member. *)
LEMMA LeastExists ==
  ASSUME NEW S \in SUBSET Nat, S # {}
  PROVE  \E m \in S : \A k \in S : m <= k
<1> DEFINE less == OpToRel(<, Nat)
<1>1. IsWellFoundedOn(less, Nat)
  BY NatLessThanWellFounded
<1>2. \A x, y \in Nat : x < y => <<x, y>> \in less
  BY DEF OpToRel
<1> HIDE DEF less
<1>3. PICK m \in S : \A k \in S : ~(<<k, m>> \in less)
  BY <1>1, WFMin
<1>4. \A k \in S : k \in Nat /\ ~(k < m)
  BY <1>2, <1>3
<1>5. QED
  BY <1>4

(* Induction over the subsets of a finite set, as a fact about the set of   *)
(* those that have a property: the library's theorem takes an operator.     *)
LEMMA SubsetsByRemoval ==
  ASSUME NEW S, IsFiniteSet(S), NEW C,
         {} \in C,
         \A s \in SUBSET S : s # {} /\ (\A x \in s : s \ {x} \in C) => s \in C
  PROVE  SUBSET S \subseteq C
<1> DEFINE bad == (SUBSET S) \ C
           sizes == {Cardinality(s) : s \in bad}
<1>1. \A s \in SUBSET S : IsFiniteSet(s) /\ Cardinality(s) \in Nat
  BY FS_Subset, FS_CardinalityType
<1>2. sizes \in SUBSET Nat
  BY <1>1
<1>3. SUFFICES ASSUME bad # {} PROVE FALSE
  OBVIOUS
<1>4. sizes # {}
  BY <1>3
<1>5. PICK m \in sizes : \A k \in sizes : m <= k
  <2> HIDE DEF sizes
  <2>1. QED
    BY <1>2, <1>4, LeastExists
<1>6. PICK s \in bad : Cardinality(s) = m
  BY <1>5
<1>7. s \in SUBSET S /\ s \notin C
  BY <1>6
<1>8. s # {}
  BY <1>7, Zenon
<1>9. PICK x \in s : s \ {x} \notin C
  BY <1>7, <1>8
<1>10. s \ {x} \in bad
  BY <1>7, <1>9
<1>11. /\ Cardinality(s \ {x}) = Cardinality(s) - 1
       /\ Cardinality(s) \in Nat /\ Cardinality(s \ {x}) \in Nat
  BY <1>1, <1>7, <1>9, <1>10, FS_RemoveElement
<1>12. Cardinality(s \ {x}) \in sizes
  BY <1>10
<1> DEFINE a == Cardinality(s)
           b == Cardinality(s \ {x})
<1>13. a = m /\ b = a - 1 /\ a \in Nat /\ b \in Nat /\ m <= b
  BY <1>5, <1>6, <1>11, <1>12
<1> HIDE DEF a, b
<1>14. QED
  BY <1>13

(* Induction over the natural numbers, likewise. *)
LEMMA NumbersByStep ==
  ASSUME NEW S, 0 \in S, \A n \in Nat : n \in S => n + 1 \in S
  PROVE  Nat \subseteq S
<1> DEFINE others == Nat \ S
<1>1. SUFFICES ASSUME others # {} PROVE FALSE
  OBVIOUS
<1>2. PICK m \in others : \A k \in others : m <= k
  <2>1. others \in SUBSET Nat
    OBVIOUS
  <2> HIDE DEF others
  <2>2. QED
    BY <1>1, <2>1, LeastExists
<1>3. m \in Nat /\ m # 0
  BY <1>2
<1>4. m - 1 \in Nat /\ m - 1 \notin others
  BY <1>2, <1>3
<1>5. m - 1 \in S /\ (m - 1) + 1 = m
  BY <1>3, <1>4
<1>6. QED
  BY <1>2, <1>4, <1>5

-------------------------------------------------------------------------------
(* Folding a sequence from the left takes the greatest index out of a set of *)
(* indices after the other.                                                   *)
LEMMA GreatestIndex ==
  ASSUME NEW n \in Nat
  PROVE  /\ \A T \in SUBSET (1..n) : T # {} => Max(T) \in T /\ T \ {Max(T)} \in SUBSET (1..(n - 1))
         /\ n > 0 => Max(1..n) = n /\ (1..n) \ {n} = 1..(n - 1)
<1>1. ASSUME NEW T \in SUBSET (1..n), T # {}
      PROVE  Max(T) \in T /\ \A y \in T : y <= Max(T)
  <2> DEFINE S == {n - t : t \in T}
  <2>1. S \in SUBSET Nat /\ S # {}
    <3>1. \A t \in T : t \in 1..n
      OBVIOUS
    <3>2. \A t \in T : n - t \in Nat
      BY <3>1
    <3>3. PICK t \in T : TRUE
      BY <1>1
    <3> QED
      BY <3>2, <3>3
  <2>2. PICK m \in S : \A k \in S : m <= k
    <3> HIDE DEF S
    <3> QED
      BY <2>1, LeastExists
  <2>3. PICK t \in T : m = n - t
    BY <2>2
  <2>4. \A y \in T : t >= y
    <3> TAKE y \in T
    <3>1. n - t <= n - y /\ t \in Int /\ y \in Int
      BY <2>2, <2>3
    <3> QED
      BY <3>1
  <2>5. \A y \in T : Max(T) >= y
    BY <2>4 DEF Max
  <2>6. Max(T) \in T
    BY <2>4 DEF Max
  <2> QED
    BY <2>5, <2>6
<1>2. ASSUME NEW T \in SUBSET (1..n), T # {}
      PROVE  T \ {Max(T)} \in SUBSET (1..(n - 1))
  <2> SUFFICES ASSUME NEW y \in T, y # Max(T) PROVE y \in 1..(n - 1)
    OBVIOUS
  <2> DEFINE m == Max(T)
  <2>1. m \in 1..n /\ y \in 1..n /\ y <= m /\ y # m
    BY <1>1, <1>2
  <2> HIDE DEF m
  <2> QED
    BY <2>1
<1>3. n > 0 => Max(1..n) = n /\ (1..n) \ {n} = 1..(n - 1)
  <2> SUFFICES ASSUME n > 0 PROVE Max(1..n) = n /\ (1..n) \ {n} = 1..(n - 1)
    OBVIOUS
  <2> DEFINE m == Max(1..n)
  <2>1. n \in 1..n
    OBVIOUS
  <2>2. m \in 1..n /\ n <= m
    BY <1>1, <2>1
  <2> HIDE DEF m
  <2>3. m = n
    BY <2>2
  <2> QED
    BY <2>3 DEF m
<1> QED
  BY <1>1, <1>2, <1>3

(* What the folds of the reports do with one element: a line of an event, a *)
(* line of a file, an event of a file, a row of it.                         *)
Step(fold, of, p, x) ==
  CASE fold = "text" -> p \o x.words
    [] fold = "lines" -> ReadLine(p, x, of)
    [] fold = "events" -> EmitWanted(of, p, x)
    [] fold = "calls" -> PairCall(p, x)
    [] fold = "groups" -> AddRow(of, p, x)
    [] fold = "hours" -> Collect(p, x)

(* What a step is, fold by fold. *)
LEMMA Steps ==
  \A of, p, x : /\ Step("text", of, p, x) = p \o x.words
                /\ Step("lines", of, p, x) = ReadLine(p, x, of)
                /\ Step("events", of, p, x) = EmitWanted(of, p, x)
                /\ Step("calls", of, p, x) = PairCall(p, x)
                /\ Step("groups", of, p, x) = AddRow(of, p, x)
                /\ Step("hours", of, p, x) = Collect(p, x)
  BY DEF Step

(* There is a function that folds, ... *)
IsFold(h, fold, of, base, s, N) ==
  h = [T \in SUBSET (1..N) |->
         IF T = {} THEN base ELSE Step(fold, of, h[T \ {Max(T)}], s[Max(T)])]

(* ... for every sequence, by induction over its length ... *)
LEMMA FoldExists ==
  ASSUME NEW fold, NEW of, NEW base, NEW s, NEW N \in Nat
  PROVE  \E h : IsFold(h, fold, of, base, s, N)
<1> DEFINE E(h, T) == IF T = {} THEN base ELSE Step(fold, of, h[T \ {Max(T)}], s[Max(T)])
           K == {n \in Nat : \E h : h = [T \in SUBSET (1..n) |-> E(h, T)]}
<1>1. 0 \in K
  <2> DEFINE h == [T \in SUBSET (1..0) |-> base]
  <2>1. \A T \in SUBSET (1..0) : E(h, T) = base
    OBVIOUS
  <2>2. h = [T \in SUBSET (1..0) |-> E(h, T)]
    BY <2>1
  <2> QED
    BY <2>2
<1>2. ASSUME NEW n \in Nat, n \in K PROVE n + 1 \in K
  <2>1. PICK h : h = [T \in SUBSET (1..n) |-> E(h, T)]
    BY <1>2
  <2> DEFINE g == [T \in SUBSET (1..(n + 1)) |-> E(h, T)]
             F(T) == E(g, T)
             G(T) == E(h, T)
  <2>2. \A T \in SUBSET (1..n) : T \in SUBSET (1..(n + 1))
    OBVIOUS
  <2>3. \A T \in SUBSET (1..n) : g[T] = h[T]
    BY <2>1, <2>2
  <2>4. \A T \in SUBSET (1..(n + 1)) : T # {} => T \ {Max(T)} \in SUBSET (1..n)
    <3>1. (n + 1) - 1 = n /\ n + 1 \in Nat
      OBVIOUS
    <3> QED
      BY <3>1, GreatestIndex
  <2>5. \A T \in SUBSET (1..(n + 1)) : F(T) = G(T)
    <3> HIDE DEF g
    <3> QED
      BY <2>3, <2>4
  <2>6. g = [T \in SUBSET (1..(n + 1)) |-> G(T)]
    OBVIOUS
  <2>7. g = [T \in SUBSET (1..(n + 1)) |-> F(T)]
    <3> HIDE DEF F, G, g
    <3> QED
      BY <2>5, <2>6
  <2> HIDE DEF g, E
  <2> QED
    BY <2>7
<1>3. N \in K
  <2> HIDE DEF K
  <2> QED
    BY <1>1, <1>2, NumbersByStep
<1>4. PICK h : h = [T \in SUBSET (1..N) |-> E(h, T)]
  BY <1>3
<1> QED
  BY <1>4 DEF IsFold

(* ... and it takes one element after the other. *)
Folds(w, fold, of, base, s, N) ==
  w[0] = base /\ \A n \in 1..N : w[n] = Step(fold, of, w[n - 1], s[n])

(* ... and its value on the first n indices is the n-th stop of a walk. *)
LEMMA FoldGoes ==
  ASSUME NEW fold, NEW of, NEW base, NEW s, NEW N \in Nat, NEW h,
         IsFold(h, fold, of, base, s, N)
  PROVE  \E w : Folds(w, fold, of, base, s, N) /\ w[N] = h[1..N]
<1> DEFINE w == [n \in 0..N |-> h[1..n]]
<1>0. \A T \in SUBSET (1..N) :
        h[T] = IF T = {} THEN base ELSE Step(fold, of, h[T \ {Max(T)}], s[Max(T)])
  BY DEF IsFold
<1>1. w[0] = base
  <2>1. 1..0 = {} /\ 1..0 \in SUBSET (1..N) /\ 0 \in 0..N
    OBVIOUS
  <2>2. h[{}] = base
    BY <1>0
  <2> QED
    BY <2>1, <2>2
<1>2. ASSUME NEW n \in 1..N PROVE w[n] = Step(fold, of, w[n - 1], s[n])
  <2>1. Max(1..n) = n /\ (1..n) \ {n} = 1..(n - 1) /\ n \in Nat /\ n > 0
    BY GreatestIndex
  <2>2. 1..n # {} /\ 1..n \in SUBSET (1..N) /\ n - 1 \in 0..N /\ n \in 0..N
    OBVIOUS
  <2>3. h[1..n] = Step(fold, of, h[1..(n - 1)], s[n])
    BY <1>0, <2>1, <2>2
  <2> QED
    BY <2>2, <2>3
<1>3. w[N] = h[1..N]
  OBVIOUS
<1> HIDE DEF w
<1> QED
  BY <1>1, <1>2, <1>3 DEF Folds

(* The fold over the lines of a file, ... *)
ReadAll(file, s) == FoldLeft(LAMBDA p, line : ReadLine(p, line, file), NothingRead, s)

(* Reading a file is a walk over its lines. *)
LEMMA ReadSteps ==
  ASSUME NEW file, NEW s, NEW N \in Nat, DOMAIN s = 1..N
  PROVE  \E w : Folds(w, "lines", file, NothingRead, s, N) /\ ReadAll(file, s) = w[N]
<1> DEFINE E(h, T) == IF T = {} THEN NothingRead ELSE ReadLine(h[T \ {Max(T)}], s[Max(T)], file)
           S(h, T) == IF T = {} THEN NothingRead ELSE Step("lines", file, h[T \ {Max(T)}], s[Max(T)])
           all == CHOOSE h : h = [T \in SUBSET (1..N) |-> E(h, T)]
<1>1. ReadAll(file, s) = all[1..N]
  BY DEF ReadAll, FoldLeft, MapThenFoldSet
<1>2. \A h : IsFold(h, "lines", file, NothingRead, s, N) <=> h = [T \in SUBSET (1..N) |-> E(h, T)]
  <2>1. \A h, T : E(h, T) = S(h, T)
    BY Steps
  <2>2. \A h : IsFold(h, "lines", file, NothingRead, s, N) <=> h = [T \in SUBSET (1..N) |-> S(h, T)]
    BY DEF IsFold
  <2> HIDE DEF E, S
  <2> QED
    BY <2>1, <2>2
<1>3. IsFold(all, "lines", file, NothingRead, s, N)
  <2> HIDE DEF E
  <2> QED
    BY <1>2, FoldExists
<1> HIDE DEF all
<1>4. PICK w : Folds(w, "lines", file, NothingRead, s, N) /\ w[N] = all[1..N]
  BY <1>3, FoldGoes
<1>5. ReadAll(file, s) = w[N]
  BY <1>1, <1>4
<1> QED
  BY <1>4, <1>5

(* ... over the lines of an event, ... *)
TextOfAll(base, s) == FoldLeft(LAMBDA text, line : text \o line.words, base, s)

(* So is joining the text of an event, line after line, ... *)
LEMMA TextSteps ==
  ASSUME NEW base, NEW s, NEW N \in Nat, DOMAIN s = 1..N
  PROVE  \E w : Folds(w, "text", 0, base, s, N) /\ TextOfAll(base, s) = w[N]
<1> DEFINE E(h, T) == IF T = {} THEN base ELSE h[T \ {Max(T)}] \o s[Max(T)].words
           S(h, T) == IF T = {} THEN base ELSE Step("text", 0, h[T \ {Max(T)}], s[Max(T)])
           all == CHOOSE h : h = [T \in SUBSET (1..N) |-> E(h, T)]
<1>1. TextOfAll(base, s) = all[1..N]
  BY DEF TextOfAll, FoldLeft, MapThenFoldSet
<1>2. \A h : IsFold(h, "text", 0, base, s, N) <=> h = [T \in SUBSET (1..N) |-> E(h, T)]
  <2>1. \A h, T : E(h, T) = S(h, T)
    BY Steps
  <2>2. \A h : IsFold(h, "text", 0, base, s, N) <=> h = [T \in SUBSET (1..N) |-> S(h, T)]
    BY DEF IsFold
  <2> HIDE DEF E, S
  <2> QED
    BY <2>1, <2>2
<1>3. IsFold(all, "text", 0, base, s, N)
  <2> HIDE DEF E
  <2> QED
    BY <1>2, FoldExists
<1> HIDE DEF all
<1>4. PICK w : Folds(w, "text", 0, base, s, N) /\ w[N] = all[1..N]
  BY <1>3, FoldGoes
<1>5. TextOfAll(base, s) = w[N]
  BY <1>1, <1>4
<1> QED
  BY <1>4, <1>5

(* ... over the events of a file, ... *)
RowsOfAll(k, s) == FoldLeft(LAMBDA rows, e : EmitWanted(k, rows, e), <<>>, s)

(* ... taking rows from one event after the other, ... *)
LEMMA RowSteps ==
  ASSUME NEW k, NEW s, NEW N \in Nat, DOMAIN s = 1..N
  PROVE  \E w : Folds(w, "events", k, <<>>, s, N) /\ RowsOfAll(k, s) = w[N]
<1> DEFINE E(h, T) == IF T = {} THEN <<>> ELSE EmitWanted(k, h[T \ {Max(T)}], s[Max(T)])
           S(h, T) == IF T = {} THEN <<>> ELSE Step("events", k, h[T \ {Max(T)}], s[Max(T)])
           all == CHOOSE h : h = [T \in SUBSET (1..N) |-> E(h, T)]
<1>1. RowsOfAll(k, s) = all[1..N]
  BY DEF RowsOfAll, FoldLeft, MapThenFoldSet
<1>2. \A h : IsFold(h, "events", k, <<>>, s, N) <=> h = [T \in SUBSET (1..N) |-> E(h, T)]
  <2>1. \A h, T : E(h, T) = S(h, T)
    BY Steps
  <2>2. \A h : IsFold(h, "events", k, <<>>, s, N) <=> h = [T \in SUBSET (1..N) |-> S(h, T)]
    BY DEF IsFold
  <2> HIDE DEF E, S
  <2> QED
    BY <2>1, <2>2
<1>3. IsFold(all, "events", k, <<>>, s, N)
  <2> HIDE DEF E
  <2> QED
    BY <1>2, FoldExists
<1> HIDE DEF all
<1>4. PICK w : Folds(w, "events", k, <<>>, s, N) /\ w[N] = all[1..N]
  BY <1>3, FoldGoes
<1>5. RowsOfAll(k, s) = w[N]
  BY <1>1, <1>4
<1> QED
  BY <1>4, <1>5

(* ... over the same, pairing calls, ... *)
CallsOfAll(base, s) == FoldLeft(PairCall, base, s)

(* ... pairing its calls, ... *)
LEMMA CallSteps ==
  ASSUME NEW base, NEW s, NEW N \in Nat, DOMAIN s = 1..N
  PROVE  \E w : Folds(w, "calls", 0, base, s, N) /\ CallsOfAll(base, s) = w[N]
<1> DEFINE E(h, T) == IF T = {} THEN base ELSE PairCall(h[T \ {Max(T)}], s[Max(T)])
           S(h, T) == IF T = {} THEN base ELSE Step("calls", 0, h[T \ {Max(T)}], s[Max(T)])
           all == CHOOSE h : h = [T \in SUBSET (1..N) |-> E(h, T)]
<1>1. CallsOfAll(base, s) = all[1..N]
  BY DEF CallsOfAll, FoldLeft, MapThenFoldSet
<1>2. \A h : IsFold(h, "calls", 0, base, s, N) <=> h = [T \in SUBSET (1..N) |-> E(h, T)]
  <2>1. \A h, T : E(h, T) = S(h, T)
    BY Steps
  <2>2. \A h : IsFold(h, "calls", 0, base, s, N) <=> h = [T \in SUBSET (1..N) |-> S(h, T)]
    BY DEF IsFold
  <2> HIDE DEF E, S
  <2> QED
    BY <2>1, <2>2
<1>3. IsFold(all, "calls", 0, base, s, N)
  <2> HIDE DEF E
  <2> QED
    BY <1>2, FoldExists
<1> HIDE DEF all
<1>4. PICK w : Folds(w, "calls", 0, base, s, N) /\ w[N] = all[1..N]
  BY <1>3, FoldGoes
<1>5. CallsOfAll(base, s) = w[N]
  BY <1>1, <1>4
<1> QED
  BY <1>4, <1>5

(* ... over its rows, into groups, ... *)
GroupsOfAll(k, s) == FoldLeft(LAMBDA groups, row : AddRow(k, groups, row), NoGroups, s)

(* ... adding one row after the other to groups ... *)
LEMMA GroupSteps ==
  ASSUME NEW k, NEW s, NEW N \in Nat, DOMAIN s = 1..N
  PROVE  \E w : Folds(w, "groups", k, NoGroups, s, N) /\ GroupsOfAll(k, s) = w[N]
<1> DEFINE E(h, T) == IF T = {} THEN NoGroups ELSE AddRow(k, h[T \ {Max(T)}], s[Max(T)])
           S(h, T) == IF T = {} THEN NoGroups ELSE Step("groups", k, h[T \ {Max(T)}], s[Max(T)])
           all == CHOOSE h : h = [T \in SUBSET (1..N) |-> E(h, T)]
<1>1. GroupsOfAll(k, s) = all[1..N]
  BY DEF GroupsOfAll, FoldLeft, MapThenFoldSet
<1>2. \A h : IsFold(h, "groups", k, NoGroups, s, N) <=> h = [T \in SUBSET (1..N) |-> E(h, T)]
  <2>1. \A h, T : E(h, T) = S(h, T)
    BY Steps
  <2>2. \A h : IsFold(h, "groups", k, NoGroups, s, N) <=> h = [T \in SUBSET (1..N) |-> S(h, T)]
    BY DEF IsFold
  <2> HIDE DEF E, S
  <2> QED
    BY <2>1, <2>2
<1>3. IsFold(all, "groups", k, NoGroups, s, N)
  <2> HIDE DEF E
  <2> QED
    BY <1>2, FoldExists
<1> HIDE DEF all
<1>4. PICK w : Folds(w, "groups", k, NoGroups, s, N) /\ w[N] = all[1..N]
  BY <1>3, FoldGoes
<1>5. GroupsOfAll(k, s) = w[N]
  BY <1>1, <1>4
<1> QED
  BY <1>4, <1>5

(* ... and over its rows, into hours. *)
HoursOfAll(s) == FoldLeft(Collect, NoGroups, s)

(* ... and to hours. *)
LEMMA HourSteps ==
  ASSUME NEW s, NEW N \in Nat, DOMAIN s = 1..N
  PROVE  \E w : Folds(w, "hours", 0, NoGroups, s, N) /\ HoursOfAll(s) = w[N]
<1> DEFINE E(h, T) == IF T = {} THEN NoGroups ELSE Collect(h[T \ {Max(T)}], s[Max(T)])
           S(h, T) == IF T = {} THEN NoGroups ELSE Step("hours", 0, h[T \ {Max(T)}], s[Max(T)])
           all == CHOOSE h : h = [T \in SUBSET (1..N) |-> E(h, T)]
<1>1. HoursOfAll(s) = all[1..N]
  BY DEF HoursOfAll, FoldLeft, MapThenFoldSet
<1>2. \A h : IsFold(h, "hours", 0, NoGroups, s, N) <=> h = [T \in SUBSET (1..N) |-> E(h, T)]
  <2>1. \A h, T : E(h, T) = S(h, T)
    BY Steps
  <2>2. \A h : IsFold(h, "hours", 0, NoGroups, s, N) <=> h = [T \in SUBSET (1..N) |-> S(h, T)]
    BY DEF IsFold
  <2> HIDE DEF E, S
  <2> QED
    BY <2>1, <2>2
<1>3. IsFold(all, "hours", 0, NoGroups, s, N)
  <2> HIDE DEF E
  <2> QED
    BY <1>2, FoldExists
<1> HIDE DEF all
<1>4. PICK w : Folds(w, "hours", 0, NoGroups, s, N) /\ w[N] = all[1..N]
  BY <1>3, FoldGoes
<1>5. HoursOfAll(s) = w[N]
  BY <1>1, <1>4
<1> QED
  BY <1>4, <1>5

-------------------------------------------------------------------------------
(* What the reports use of an event. *)
IsEvent(e) ==
  /\ e.at \in Int /\ e.micros \in Int /\ e.file \in Int
  /\ \A f \in DOMAIN e.fields : e.fields[f] \in Seq(Int)

(* Texts joined are a text. *)
LEMMA TextJoined ==
  ASSUME NEW base \in Seq(Int), NEW s, NEW N \in Nat, DOMAIN s = 1..N,
         \A n \in 1..N : s[n].words \in Seq(Int)
  PROVE  TextOfAll(base, s) \in Seq(Int)
<1>1. PICK w : /\ Folds(w, "text", 0, base, s, N)
               /\ TextOfAll(base, s) = w[N]
  BY TextSteps
<1> DEFINE K == {n \in Nat : n <= N => w[n] \in Seq(Int)}
<1>2. 0 \in K
  BY <1>1 DEF Folds
<1>3. ASSUME NEW n \in Nat, n \in K PROVE n + 1 \in K
  <2> SUFFICES ASSUME n + 1 <= N PROVE w[n + 1] \in Seq(Int)
    OBVIOUS
  <2>1. n + 1 \in 1..N /\ (n + 1) - 1 = n /\ w[n] \in Seq(Int)
    BY <1>3
  <2>2. w[n + 1] = Step("text", 0, w[n], s[n + 1])
    BY <1>1, <2>1 DEF Folds
  <2>3. w[n + 1] = w[n] \o s[n + 1].words
    BY <2>2 DEF Step
  <2> QED
    BY <2>1, <2>3, ConcatProperties
<1>4. N \in K
  <2> HIDE DEF K
  <2> QED
    BY <1>2, <1>3, NumbersByStep
<1>5. w[N] \in Seq(Int)
  BY <1>4
<1> QED
  BY <1>1, <1>5

(* The lines of a file, one by one. *)
LEMMA FileLines ==
  ASSUME NEW file, IsFile(file)
  PROVE  /\ Len(file.lines) \in Nat /\ DOMAIN file.lines = 1..Len(file.lines)
         /\ \A n \in 1..Len(file.lines) : IsLine(file.lines[n])
         /\ Headers(file) \in SUBSET (1..Len(file.lines))
<1>1. Len(file.lines) \in Nat /\ DOMAIN file.lines = 1..Len(file.lines)
  BY LenProperties DEF IsFile
<1>2. ASSUME NEW n \in 1..Len(file.lines) PROVE IsLine(file.lines[n])
  <2>1. file.lines[n] \in ToSet(file.lines)
    BY <1>1 DEF ToSet
  <2> QED
    BY <2>1 DEF IsFile
<1>3. Headers(file) \in SUBSET (1..Len(file.lines))
  BY <1>1 DEF Headers
<1> QED
  BY <1>1, <1>2, <1>3

(* The line at which the event with the header at i ends. *)
IsEnd(file, i, n) ==
  /\ n \in i..Len(file.lines)
  /\ (i + 1)..n \cap Headers(file) = {}
  /\ n = Len(file.lines) \/ n + 1 \in Headers(file)

(* Every header has a last line before the next one or the end of the file   *)
(* ...                                                                       *)
LEMMA EndExists ==
  ASSUME NEW file, IsFile(file), NEW i \in Headers(file)
  PROVE  \E n : IsEnd(file, i, n)
<1> DEFINE N == Len(file.lines)
           later == {h \in Headers(file) : h > i}
<1>1. N \in Nat /\ Headers(file) \in SUBSET (1..N)
  BY FileLines
<1>2. CASE later = {}
  <2>1. N \in i..N /\ (i + 1)..N \cap Headers(file) = {}
    BY <1>1, <1>2
  <2> QED
    BY <2>1 DEF IsEnd
<1>3. CASE later # {}
  <2>1. later \in SUBSET Nat
    BY <1>1
  <2>2. PICK m \in later : \A k \in later : m <= k
    <3> HIDE DEF later
    <3> QED
      BY <1>3, <2>1, LeastExists
  <2>3. m \in 1..N /\ i \in 1..N /\ m > i /\ m \in Headers(file)
    BY <1>1, <2>2
  <2>4. m - 1 \in i..N /\ (m - 1) + 1 = m
    BY <1>1, <2>3
  <2>5. (i + 1)..(m - 1) \cap Headers(file) = {}
    BY <1>1, <2>2, <2>3
  <2> QED
    BY <2>3, <2>4, <2>5 DEF IsEnd
<1> QED
  BY <1>2, <1>3

(* ... and its event is parsed from the lines up to there. *)
LEMMA EventIs ==
  ASSUME NEW file, IsFile(file), NEW i \in Headers(file), NEW n, IsEnd(file, i, n)
  PROVE  EventAt(file, i) = ParseEvent(SubSeq(file.lines, i, n), file)
<1> DEFINE N == Len(file.lines)
           Ends(m) == (i + 1)..m \cap Headers(file) = {} /\ (m = N \/ m + 1 \in Headers(file))
<1>1. N \in Nat /\ i \in 1..N
  BY FileLines
<1>2. ASSUME NEW m \in i..N, Ends(m) PROVE m = n
  <2>1. n \in i..N /\ n \in Int /\ m \in Int
    BY <1>1 DEF IsEnd
  <2>2. ~(m < n)
    <3> SUFFICES ASSUME m < n PROVE FALSE
      OBVIOUS
    <3>1. m + 1 \in (i + 1)..n /\ m # N
      BY <1>1, <2>1
    <3> QED
      BY <1>2, <3>1 DEF IsEnd
  <2>3. ~(n < m)
    <3> SUFFICES ASSUME n < m PROVE FALSE
      OBVIOUS
    <3>1. n + 1 \in (i + 1)..m /\ n # N
      BY <1>1, <2>1
    <3> QED
      BY <1>2, <3>1 DEF IsEnd
  <2> QED
    BY <2>1, <2>2, <2>3
<1>3. n \in i..N /\ Ends(n)
  BY DEF IsEnd
<1>4. EventAt(file, i) = ParseEvent(SubSeq(file.lines, i, CHOOSE m \in i..N : Ends(m)), file)
  BY DEF EventAt
<1>5. (CHOOSE m \in i..N : Ends(m)) = n
  <2> HIDE DEF Ends
  <2> QED
    BY <1>2, <1>3
<1> QED
  BY <1>4, <1>5

(* An event has the name of its header and texts for its fields. *)
LEMMA EventTyped ==
  ASSUME NEW file, IsFile(file), NEW i \in Headers(file)
  PROVE  IsEvent(EventAt(file, i)) /\ EventAt(file, i).name = file.lines[i].name
<1> DEFINE L == file.lines
           h == L[i]
           T == ToSet(L)
<1>1. PICK n : IsEnd(file, i, n)
  BY EndExists
<1>2. /\ Len(L) \in Nat /\ i \in 1..Len(L) /\ n \in i..Len(L) /\ L \in Seq(T)
      /\ \A m \in 1..Len(L) : IsLine(L[m])
  BY <1>1, FileLines DEF IsEnd, IsFile
<1> DEFINE s == SubSeq(L, i, n)
           rest == SubSeq(L, i + 1, n)
<1>3. Head(s) = h /\ Tail(s) = rest
  BY <1>2, HeadTailOfSubSeq
<1>4. IsLine(h) /\ h.header = TRUE
  BY <1>2 DEF Headers, IsEventStart, IsLine
<1>5. \A m \in (i + 1)..n : L[m].words \in Seq(Int)
  <2> TAKE m \in (i + 1)..n
  <2>1. m \in 1..Len(L) /\ m \notin Headers(file)
    BY <1>1, <1>2 DEF IsEnd
  <2>2. ~L[m].header
    BY <1>2, <2>1, FileLines DEF Headers, IsEventStart
  <2> QED
    BY <1>2, <2>1, <2>2 DEF IsLine
<1>6. \E N \in Nat : DOMAIN rest = 1..N /\ \A k \in 1..N : rest[k].words \in Seq(Int)
  <2>1. i + 1 \in Int /\ n \in Int /\ \A m \in (i + 1)..n : L[m] \in {L[k] : k \in (i + 1)..n}
    BY <1>2
  <2>2. /\ rest \in Seq({L[k] : k \in (i + 1)..n})
        /\ Len(rest) = IF i + 1 <= n THEN n - (i + 1) + 1 ELSE 0
        /\ \A k \in 1..(n - (i + 1) + 1) : rest[k] = L[(i + 1) + k - 1]
    BY <2>1, SubSeqProperties
  <2> HIDE DEF rest
  <2>3. Len(rest) \in Nat /\ DOMAIN rest = 1..Len(rest)
    BY <2>2, LenProperties
  <2>4. \A k \in 1..Len(rest) : k \in 1..(n - (i + 1) + 1) /\ (i + 1) + k - 1 \in (i + 1)..n
    BY <1>2, <2>2
  <2>5. \A k \in 1..Len(rest) : rest[k].words \in Seq(Int)
    BY <1>5, <2>2, <2>4
  <2> QED
    BY <2>3, <2>5
<1> DEFINE Text(base) == TextOfAll(base, rest)
           fields == IF h.open \in DOMAIN h.fields
                     THEN [h.fields EXCEPT ![h.open] = Text(h.fields[h.open])]
                     ELSE h.fields
<1>7. \A base \in Seq(Int) : Text(base) \in Seq(Int)
  BY <1>6, TextJoined
<1>8. ParseEvent(s, file) =
        [name |-> h.name, at |-> 60 * file.hour + h.minute, micros |-> h.micros, file |-> file.path,
         fields |-> fields, mentions |-> h.mentions]
  BY <1>3, Zenon DEF ParseEvent, TextOfAll
<1>9. \A f \in DOMAIN h.fields : h.fields[f] \in Seq(Int)
  BY <1>4 DEF IsLine
<1>10. \A f \in DOMAIN fields : fields[f] \in Seq(Int)
  <2> HIDE DEF Text
  <2> QED
    BY <1>7, <1>9
<1>11. h.minute \in Int /\ h.micros \in Int /\ file.hour \in Int /\ file.path \in Int
  BY <1>4 DEF IsLine, IsFile
<1>12. EventAt(file, i) = ParseEvent(s, file)
  BY <1>1, EventIs
<1> HIDE DEF fields, s, h
<1>13. 60 * file.hour + h.minute \in Int
  BY <1>11
<1> QED
  BY <1>8, <1>10, <1>11, <1>12, <1>13 DEF IsEvent, h

-------------------------------------------------------------------------------
(* The events are those with their headers in S, in the order of the file; *)
(* at tells the header of each.                                            *)
ListsAt(at, events, file, S) ==
  /\ events \in Seq({EventAt(file, h) : h \in Headers(file)})
  /\ S \in SUBSET Headers(file)
  /\ \A i \in 1..Len(events) : at[i] \in S /\ events[i] = EventAt(file, at[i])
  /\ \A i, j \in 1..Len(events) : i < j => at[i] < at[j]
  /\ \A h \in S : \E i \in 1..Len(events) : at[i] = h

Lists(events, file, S) == \E at : ListsAt(at, events, file, S)

(* No events list no headers ... *)
LEMMA ListsNone ==
  ASSUME NEW file
  PROVE  Lists(<<>>, file, {})
<1>1. Len(<<>>) = 0 /\ 1..0 = {}
  OBVIOUS
<1>2. ListsAt(<<>>, <<>>, file, {})
  BY <1>1 DEF ListsAt
<1> QED
  BY <1>2 DEF Lists

(* ... and one more event lists the header it starts at. *)
LEMMA ListsMore ==
  ASSUME NEW file, IsFile(file), NEW events, NEW S, Lists(events, file, S),
         NEW h \in Headers(file), \A g \in S : g < h
  PROVE  Lists(Append(events, EventAt(file, h)), file, S \cup {h})
<1> DEFINE E == {EventAt(file, g) : g \in Headers(file)}
           new == Append(events, EventAt(file, h))
           n == Len(events)
<1>1. PICK at : ListsAt(at, events, file, S)
  BY DEF Lists
<1>2. /\ events \in Seq(E) /\ S \in SUBSET Headers(file)
      /\ \A i \in 1..n : at[i] \in S /\ events[i] = EventAt(file, at[i])
      /\ \A i, j \in 1..n : i < j => at[i] < at[j]
      /\ \A g \in S : \E i \in 1..n : at[i] = g
  BY <1>1 DEF ListsAt
<1>3. EventAt(file, h) \in E
  OBVIOUS
<1>4. /\ new \in Seq(E) /\ Len(new) = n + 1 /\ n \in Nat
      /\ \A i \in 1..n : new[i] = events[i]
      /\ new[n + 1] = EventAt(file, h)
  <2> HIDE DEF E
  <2> QED
    BY <1>2, <1>3, AppendProperties, LenProperties
<1> DEFINE to == [i \in 1..(n + 1) |-> IF i = n + 1 THEN h ELSE at[i]]
<1>5. to[n + 1] = h /\ \A i \in 1..n : to[i] = at[i]
  BY <1>4
<1>6. \A i \in 1..(n + 1) : i = n + 1 \/ i \in 1..n
  BY <1>4
<1> HIDE DEF new, n, to, E
<1>7. \A i \in 1..(n + 1) : to[i] \in S \cup {h} /\ new[i] = EventAt(file, to[i])
  BY <1>2, <1>4, <1>5, <1>6
<1>8. \A i, j \in 1..(n + 1) : i < j => to[i] < to[j]
  <2> TAKE i, j \in 1..(n + 1)
  <2> HAVE i < j
  <2>1. i \in 1..n
    BY <1>4
  <2>2. j = n + 1 \/ j \in 1..n
    BY <1>6
  <2> QED
    BY <1>2, <1>5, <2>1, <2>2
<1>9. \A g \in S \cup {h} : \E i \in 1..(n + 1) : to[i] = g
  <2> TAKE g \in S \cup {h}
  <2>1. n + 1 \in 1..(n + 1) /\ \A i \in 1..n : i \in 1..(n + 1)
    BY <1>4
  <2> QED
    BY <1>2, <1>5, <2>1
<1>10. ListsAt(to, new, file, S \cup {h})
  BY <1>2, <1>4, <1>7, <1>8, <1>9 DEF ListsAt, E
<1> QED
  BY <1>10 DEF Lists, new

(* The headers whose event is finished when n lines are read. *)
Done(file, n) ==
  {h \in Headers(file) : WellFormed(file.lines[h]) /\ \E j \in Headers(file) : h < j /\ j <= n}

Read(file, n) == {h \in Headers(file) : h <= n}

Fields == {"read", "events", "malformed", "orphans", "current"}

(* The header of the event that is not finished. *)
Open(file, n, h) == h \in Read(file, n) /\ \A j \in Read(file, n) : j <= h

ReadSoFar(file, n, p) ==
  /\ DOMAIN p = Fields
  /\ Lists(p.events, file, Done(file, n))
  /\ Read(file, n) = {} => p.current = <<>>
  /\ Read(file, n) # {} => \E h : Open(file, n, h) /\ p.current = SubSeq(file.lines, h, n)

(* The lines of an event, when one more is read. *)
LEMMA OneMoreLine ==
  ASSUME NEW file, IsFile(file), NEW n \in 1..Len(file.lines)
  PROVE  /\ SubSeq(file.lines, n, n) = <<file.lines[n]>>
         /\ \A h \in 1..(n - 1) : Append(SubSeq(file.lines, h, n - 1), file.lines[n]) = SubSeq(file.lines, h, n)
         /\ \A h \in 1..n : SubSeq(file.lines, h, n) # <<>> /\ Head(SubSeq(file.lines, h, n)) = file.lines[h]
<1> DEFINE L == file.lines
           T == ToSet(L)
<1>1. L \in Seq(T) /\ Len(L) \in Nat /\ n \in Nat
  BY FileLines DEF IsFile
<1> HIDE DEF L, T
<1>2. ASSUME NEW h \in 1..n
      PROVE  /\ SubSeq(L, h, n) = SubSeq(L, h, n - 1) \o <<L[n]>>
             /\ SubSeq(L, h, n) \in Seq(T) /\ Len(SubSeq(L, h, n)) = n - h + 1
             /\ SubSeq(L, h, n - 1) \in Seq(T)
             /\ Head(SubSeq(L, h, n)) = L[h]
  <2>1. h \in 1..Len(L) /\ n \in h..Len(L) /\ h \in Int /\ n \in Int /\ n - 1 \in Int
    BY <1>1 DEF L
  <2>2. \A m \in h..n : L[m] \in T
    BY <1>1, <2>1
  <2>3. \A m \in h..(n - 1) : L[m] \in T
    BY <2>1, <2>2
  <2>4. SubSeq(L, h, n) \in Seq(T) /\ Len(SubSeq(L, h, n)) = n - h + 1
    BY <2>1, <2>2, SubSeqProperties
  <2>5. SubSeq(L, h, n - 1) \in Seq(T)
    BY <2>1, <2>3, SubSeqProperties
  <2>6. SubSeq(L, h, n) = SubSeq(L, h, n - 1) \o <<L[n]>>
    BY <1>1, <2>1, SubSeqRecursiveSecond
  <2>7. Head(SubSeq(L, h, n)) = L[h]
    BY <1>1, <2>1, HeadTailOfSubSeq
  <2> QED
    BY <2>4, <2>5, <2>6, <2>7
<1>3. L[n] \in T
  BY <1>1 DEF L
<1>4. \A s \in Seq(T) : Append(s, L[n]) = s \o <<L[n]>>
  BY <1>3, AppendIsConcat
<1>5. SubSeq(L, n, n) = <<L[n]>>
  <2>1. n \in 1..n /\ n - 1 < n /\ n \in Int /\ n - 1 \in Int
    BY <1>1
  <2>2. SubSeq(L, n, n - 1) = <<>>
    BY <2>1, SubSeqEmpty
  <2>3. <<>> \o <<L[n]>> = <<L[n]>>
    BY <1>3
  <2> QED
    BY <1>2, <2>1, <2>2, <2>3
<1>6. \A h \in 1..n : SubSeq(L, h, n) # <<>>
  <2> TAKE h \in 1..n
  <2>1. Len(SubSeq(L, h, n)) = n - h + 1 /\ n - h + 1 # 0 /\ SubSeq(L, h, n) \in Seq(T)
    BY <1>1, <1>2
  <2> QED
    BY <2>1, EmptySeq
<1>7. \A h \in 1..(n - 1) : h \in 1..n
  BY <1>1
<1> QED
  BY <1>2, <1>4, <1>5, <1>6, <1>7 DEF L

(* A line that is no header finishes nothing ... *)
LEMMA NoHeader ==
  ASSUME NEW file, IsFile(file), NEW n \in 1..Len(file.lines), n \notin Headers(file)
  PROVE  /\ Read(file, n) = Read(file, n - 1) /\ Done(file, n) = Done(file, n - 1)
         /\ \A h : Open(file, n, h) <=> Open(file, n - 1, h)
<1>1. Headers(file) \in SUBSET (1..Len(file.lines)) /\ Len(file.lines) \in Nat
  BY FileLines
<1>2. \A h \in Headers(file) : h <= n <=> h <= n - 1
  BY <1>1
<1> QED
  BY <1>2 DEF Read, Done, Open

(* ... and a header the event before it. *)
LEMMA NextHeader ==
  ASSUME NEW file, IsFile(file), NEW n \in 1..Len(file.lines), n \in Headers(file)
  PROVE  /\ Open(file, n, n)
         /\ Read(file, n - 1) = {} => Done(file, n) = {} /\ Done(file, n - 1) = {}
         /\ \A h : Open(file, n - 1, h) =>
              /\ IsEnd(file, h, n - 1)
              /\ Done(file, n) = Done(file, n - 1) \cup (IF WellFormed(file.lines[h]) THEN {h} ELSE {})
              /\ \A g \in Done(file, n - 1) : g < h
<1>1. Headers(file) \in SUBSET (1..Len(file.lines)) /\ Len(file.lines) \in Nat
  BY FileLines
<1>2. \A h \in Headers(file) : h <= n <=> h <= n - 1 \/ h = n
  BY <1>1
<1>3. Open(file, n, n)
  BY <1>1 DEF Open, Read
<1>4. Read(file, n - 1) = {} => Done(file, n) = {} /\ Done(file, n - 1) = {}
  <2> SUFFICES ASSUME Read(file, n - 1) = {} PROVE Done(file, n) = {} /\ Done(file, n - 1) = {}
    OBVIOUS
  <2>1. \A h \in Headers(file) : ~(h <= n - 1) /\ h \in Int
    BY <1>1 DEF Read
  <2>2. \A h, j \in Headers(file) : ~(h < j /\ j <= n) /\ ~(h < j /\ j <= n - 1)
    BY <1>1, <1>2, <2>1
  <2> QED
    BY <2>2 DEF Done
<1>5. ASSUME NEW h, Open(file, n - 1, h)
      PROVE  /\ IsEnd(file, h, n - 1)
             /\ Done(file, n) = Done(file, n - 1) \cup (IF WellFormed(file.lines[h]) THEN {h} ELSE {})
             /\ \A g \in Done(file, n - 1) : g < h
  <2>1. h \in Headers(file) /\ h <= n - 1 /\ h \in Nat /\ \A j \in Headers(file) : j <= n - 1 => j <= h
    BY <1>1, <1>5 DEF Open, Read
  <2>2. IsEnd(file, h, n - 1)
    <3>1. n - 1 \in h..Len(file.lines) /\ (n - 1) + 1 = n
      BY <1>1, <2>1
    <3>2. (h + 1)..(n - 1) \cap Headers(file) = {}
      BY <1>1, <2>1
    <3> QED
      BY <3>1, <3>2 DEF IsEnd
  <2>3. \A g, j \in Headers(file) : g < j /\ j <= n - 1 => g < h /\ g < n
    BY <1>1, <2>1
  <2>4. \A g, j \in Headers(file) : g < j /\ j <= n => g = h \/ (g < h /\ h <= n - 1)
    <3> TAKE g, j \in Headers(file)
    <3> HAVE g < j /\ j <= n
    <3>1. g \in Int /\ j \in Int /\ g <= n - 1
      BY <1>1
    <3> QED
      BY <2>1, <3>1
  <2>5. h < n
    BY <2>1
  <2>6. \A g \in Headers(file) : (\E j \in Headers(file) : g < j /\ j <= n)
                                   <=> g = h \/ \E j \in Headers(file) : g < j /\ j <= n - 1
    <3> TAKE g \in Headers(file)
    <3>1. ASSUME NEW j \in Headers(file), g < j, j <= n
          PROVE  g = h \/ \E i \in Headers(file) : g < i /\ i <= n - 1
      BY <2>1, <2>4, <3>1
    <3>2. ASSUME NEW j \in Headers(file), g < j, j <= n - 1
          PROVE  \E i \in Headers(file) : g < i /\ i <= n
      BY <1>1, <3>2
    <3>3. g = h => n \in Headers(file) /\ g < n /\ n <= n
      BY <2>5
    <3> QED
      BY <3>1, <3>2, <3>3
  <2>7. \A g \in Done(file, n - 1) : g < h
    BY <2>3 DEF Done
  <2>8. Done(file, n) = Done(file, n - 1) \cup (IF WellFormed(file.lines[h]) THEN {h} ELSE {})
    BY <2>1, <2>6 DEF Done
  <2> QED
    BY <2>2, <2>7, <2>8
<1> QED
  BY <1>3, <1>4, <1>5

-------------------------------------------------------------------------------
(* What finishing an event and reading a line do with what was read. *)
LEMMA FinishDoes ==
  ASSUME NEW p, DOMAIN p = Fields, NEW file
  PROVE  /\ DOMAIN Finish(p, file) = Fields
         /\ Finish(p, file).events =
              IF p.current # <<>> /\ WellFormed(Head(p.current))
              THEN Append(p.events, ParseEvent(p.current, file)) ELSE p.events
<1>1. CASE p.current = <<>>
  BY <1>1 DEF Finish
<1>2. CASE p.current # <<>> /\ ~WellFormed(Head(p.current))
  <2>1. Finish(p, file) = [p EXCEPT !.current = <<>>, !.malformed = @ + 1]
    BY <1>2 DEF Finish
  <2> QED
    BY <1>2, <2>1 DEF Fields
<1>3. CASE p.current # <<>> /\ WellFormed(Head(p.current))
  <2>1. Finish(p, file) = [p EXCEPT !.current = <<>>, !.events = Append(@, ParseEvent(p.current, file))]
    BY <1>3 DEF Finish
  <2> QED
    BY <1>3, <2>1 DEF Fields
<1> QED
  BY <1>1, <1>2, <1>3

(* Reading a line: a header finishes the event before it, another line joins *)
(* the event that is open (Parser.readEvents).                               *)
LEMMA ReadLineDoes ==
  ASSUME NEW p, DOMAIN p = Fields, NEW line, NEW file
  PROVE  LET q == ReadLine(p, line, file)
         IN  /\ DOMAIN q = Fields
             /\ line.header => /\ q.current = <<line>>
                               /\ q.events = IF p.current # <<>> /\ WellFormed(Head(p.current))
                                             THEN Append(p.events, ParseEvent(p.current, file))
                                             ELSE p.events
             /\ ~line.header => /\ q.current = IF p.current = <<>> THEN <<>> ELSE Append(p.current, line)
                                /\ q.events = p.events
<1> DEFINE r == [p EXCEPT !.read = @ + 1]
           q == ReadLine(p, line, file)
           f == Finish(r, file)
<1>1. DOMAIN r = Fields /\ r.events = p.events /\ r.current = p.current
  BY DEF Fields
<1> HIDE DEF r
<1>2. /\ DOMAIN f = Fields
      /\ f.events = IF p.current # <<>> /\ WellFormed(Head(p.current))
                    THEN Append(p.events, ParseEvent(p.current, file)) ELSE p.events
  BY <1>1, FinishDoes
<1> HIDE DEF f
<1>3. CASE line.header
  <2>1. q = [f EXCEPT !.current = <<line>>]
    BY <1>3 DEF ReadLine, IsEventStart, r, f
  <2> QED
    BY <1>2, <1>3, <2>1 DEF Fields
<1>4. CASE ~line.header /\ p.current # <<>>
  <2>1. q = [r EXCEPT !.current = Append(@, line)]
    BY <1>1, <1>4 DEF ReadLine, IsEventStart, r
  <2> QED
    BY <1>1, <1>4, <2>1 DEF Fields
<1>5. CASE ~line.header /\ p.current = <<>>
  <2>1. q = [r EXCEPT !.orphans = @ + (IF line.words = Blank THEN 0 ELSE 1)]
    BY <1>1, <1>5 DEF ReadLine, IsEventStart, r
  <2> QED
    BY <1>1, <1>5, <2>1 DEF Fields
<1> QED
  BY <1>3, <1>4, <1>5

(* Reading one line more. *)
LEMMA ReadOn ==
  ASSUME NEW file, IsFile(file), NEW n \in 1..Len(file.lines), NEW p, ReadSoFar(file, n - 1, p)
  PROVE  ReadSoFar(file, n, ReadLine(p, file.lines[n], file))
<1> DEFINE L == file.lines
           line == L[n]
           q == ReadLine(p, line, file)
<1>1. /\ DOMAIN p = Fields
      /\ Lists(p.events, file, Done(file, n - 1))
      /\ Read(file, n - 1) = {} => p.current = <<>>
  BY DEF ReadSoFar
<1>2. \A h : Open(file, n - 1, h) => h \in 1..(n - 1) /\ n - 1 \in 1..Len(L) /\ h \in Headers(file)
  <2>1. Headers(file) \in SUBSET (1..Len(L)) /\ Len(L) \in Nat
    BY FileLines
  <2> QED
    BY <2>1 DEF Open, Read
<1>3. n \in Headers(file) <=> line.header
  BY FileLines DEF Headers, IsEventStart
<1>4. /\ DOMAIN q = Fields
      /\ line.header => /\ q.current = <<line>>
                        /\ q.events = IF p.current # <<>> /\ WellFormed(Head(p.current))
                                      THEN Append(p.events, ParseEvent(p.current, file))
                                      ELSE p.events
      /\ ~line.header => /\ q.current = IF p.current = <<>> THEN <<>> ELSE Append(p.current, line)
                         /\ q.events = p.events
  BY <1>1, ReadLineDoes
<1> HIDE DEF q
<1>5. CASE line.header /\ Read(file, n - 1) = {}
  <2>1. q.current = SubSeq(L, n, n) /\ q.events = p.events
    BY <1>1, <1>4, <1>5, OneMoreLine
  <2>0. n \in Headers(file) /\ Read(file, n - 1) = {}
    BY <1>3, <1>5
  <2>2. Open(file, n, n) /\ Done(file, n) = Done(file, n - 1)
    <3>1. Open(file, n, n)
      BY <2>0, NextHeader
    <3>2. Done(file, n) = {} /\ Done(file, n - 1) = {}
      BY <2>0, NextHeader
    <3> QED
      BY <3>1, <3>2
  <2>3. n \in Read(file, n)
    BY <2>2 DEF Open
  <2> QED
    BY <1>1, <1>4, <2>1, <2>2, <2>3 DEF ReadSoFar, q
<1>6. CASE line.header /\ Read(file, n - 1) # {}
  <2>1. PICK h : Open(file, n - 1, h) /\ p.current = SubSeq(L, h, n - 1)
    BY <1>6 DEF ReadSoFar
  <2>2. p.current # <<>> /\ Head(p.current) = L[h]
    BY <1>2, <2>1, OneMoreLine
  <2>3. /\ IsEnd(file, h, n - 1)
        /\ Done(file, n) = Done(file, n - 1) \cup (IF WellFormed(L[h]) THEN {h} ELSE {})
        /\ \A g \in Done(file, n - 1) : g < h
    BY <1>3, <1>6, <2>1, NextHeader
  <2>4. ParseEvent(p.current, file) = EventAt(file, h) /\ h \in Headers(file)
    BY <1>2, <2>1, <2>3, EventIs
  <2>5. Lists(q.events, file, Done(file, n))
    <3>1. CASE WellFormed(L[h])
      <4>1. q.events = Append(p.events, EventAt(file, h))
        BY <1>4, <1>6, <2>2, <2>4, <3>1
      <4>2. Lists(Append(p.events, EventAt(file, h)), file, Done(file, n - 1) \cup {h})
        BY <1>1, <2>3, <2>4, ListsMore
      <4> QED
        BY <2>3, <3>1, <4>1, <4>2
    <3>2. CASE ~WellFormed(L[h])
      <4>1. q.events = p.events /\ Done(file, n) = Done(file, n - 1)
        BY <1>4, <1>6, <2>2, <2>3, <3>2
      <4> QED
        BY <1>1, <4>1
    <3> QED
      BY <3>1, <3>2
  <2>6. q.current = SubSeq(L, n, n)
    BY <1>4, <1>6, OneMoreLine
  <2>7. Open(file, n, n) /\ n \in Read(file, n)
    BY <1>3, <1>6, NextHeader DEF Open
  <2> QED
    BY <1>4, <2>5, <2>6, <2>7 DEF ReadSoFar, q
<1>7. CASE ~line.header
  <2>1. /\ Read(file, n) = Read(file, n - 1) /\ Done(file, n) = Done(file, n - 1)
        /\ \A h : Open(file, n, h) <=> Open(file, n - 1, h)
    BY <1>3, <1>7, NoHeader
  <2>2. CASE Read(file, n - 1) = {}
    BY <1>1, <1>4, <1>7, <2>1, <2>2 DEF ReadSoFar, q
  <2>3. CASE Read(file, n - 1) # {}
    <3>1. PICK h : Open(file, n - 1, h) /\ p.current = SubSeq(L, h, n - 1)
      BY <2>3 DEF ReadSoFar
    <3>2. p.current # <<>>
      BY <1>2, <3>1, OneMoreLine
    <3>3. q.current = SubSeq(L, h, n)
      <4>1. q.current = Append(p.current, line)
        BY <1>4, <1>7, <3>2
      <4>2. h \in 1..(n - 1)
        BY <1>2, <3>1
      <4>3. Append(SubSeq(L, h, n - 1), line) = SubSeq(L, h, n)
        BY <4>2, OneMoreLine
      <4> QED
        BY <3>1, <4>1, <4>3
    <3> QED
      BY <1>1, <1>4, <1>7, <2>1, <2>3, <3>1, <3>3 DEF ReadSoFar, q
  <2> QED
    BY <2>2, <2>3
<1> QED
  BY <1>5, <1>6, <1>7

(* ParseFile emits, in their order, the events of a file that does not fail *)
(* whose header is well formed.                                             *)
LEMMA FileEvents ==
  ASSUME NEW file, IsFile(file), ~Fails(file)
  PROVE  Lists(ParseFile(file).events, file, Complete(file))
<1> DEFINE N == Len(file.lines)
           read == ReadAll(file, file.lines)
<1>1. N \in Nat /\ DOMAIN file.lines = 1..N /\ Headers(file) \in SUBSET (1..N)
  BY FileLines
<1>2. PICK w : Folds(w, "lines", file, NothingRead, file.lines, N) /\ read = w[N]
  <2> HIDE DEF N
  <2> QED
    BY <1>1, ReadSteps
<1> DEFINE K == {n \in Nat : n <= N => ReadSoFar(file, n, w[n])}
<1>3. 0 \in K
  <2>1. w[0] = NothingRead
    BY <1>2 DEF Folds
  <2>2. Read(file, 0) = {} /\ Done(file, 0) = {}
    BY <1>1 DEF Read, Done
  <2>3. DOMAIN NothingRead = Fields /\ NothingRead.events = <<>> /\ NothingRead.current = <<>>
    BY DEF NothingRead, Fields
  <2>4. ReadSoFar(file, 0, NothingRead)
    BY <2>2, <2>3, ListsNone DEF ReadSoFar
  <2> QED
    BY <2>1, <2>4
<1>4. ASSUME NEW n \in Nat, n \in K PROVE n + 1 \in K
  <2> SUFFICES ASSUME n + 1 <= N PROVE ReadSoFar(file, n + 1, w[n + 1])
    OBVIOUS
  <2>1. n + 1 \in 1..N /\ (n + 1) - 1 = n /\ ReadSoFar(file, n, w[n])
    BY <1>1, <1>4
  <2>2. w[n + 1] = Step("lines", file, w[n], file.lines[n + 1])
    BY <1>2, <2>1 DEF Folds
  <2>3. w[n + 1] = ReadLine(w[n], file.lines[n + 1], file)
    BY <2>2 DEF Step
  <2> QED
    BY <2>1, <2>3, ReadOn
<1>5. ReadSoFar(file, N, read)
  <2>1. N \in K
    <3> HIDE DEF K
    <3> QED
      BY <1>1, <1>3, <1>4, NumbersByStep
  <2>2. ReadSoFar(file, N, w[N])
    BY <1>1, <2>1
  <2> HIDE DEF read
  <2> QED
    BY <1>2, <2>2
<1>6. ParseFile(file).events = Finish(read, file).events
  <2>1. ParseFile(file) = Finish(read, file)
    BY DEF ParseFile, Fails, ReadAll
  <2> QED
    BY <2>1
<1> HIDE DEF read
<1>7. DOMAIN read = Fields /\ Lists(read.events, file, Done(file, N))
  BY <1>5 DEF ReadSoFar
<1>8. Finish(read, file).events =
        IF read.current # <<>> /\ WellFormed(Head(read.current))
        THEN Append(read.events, ParseEvent(read.current, file)) ELSE read.events
  BY <1>7, FinishDoes
<1>9. Complete(file) = {h \in Headers(file) : WellFormed(file.lines[h])}
  <2>1. file.breaks = FALSE
    BY DEF Fails, IsFile
  <2> QED
    BY <2>1 DEF Complete
<1>10. CASE Read(file, N) = {}
  <2>1. Headers(file) = {}
    BY <1>1, <1>10 DEF Read
  <2>2. Complete(file) = {} /\ Done(file, N) = {}
    BY <1>9, <2>1 DEF Done
  <2>3. read.current = <<>>
    BY <1>5, <1>10 DEF ReadSoFar
  <2> QED
    BY <1>6, <1>7, <1>8, <2>2, <2>3
<1>11. CASE Read(file, N) # {}
  <2>1. PICK h : Open(file, N, h) /\ read.current = SubSeq(file.lines, h, N)
    BY <1>5, <1>11 DEF ReadSoFar
  <2>2. h \in Headers(file) /\ h \in 1..N /\ N \in 1..N /\ \A j \in Headers(file) : j <= h
    BY <1>1, <2>1 DEF Open, Read
  <2>3. read.current # <<>> /\ Head(read.current) = file.lines[h]
    BY <2>1, <2>2, OneMoreLine
  <2>4. IsEnd(file, h, N)
    BY <1>1, <2>2 DEF IsEnd
  <2>5. ParseEvent(read.current, file) = EventAt(file, h)
    BY <2>1, <2>2, <2>4, EventIs
  <2>6. \A g \in Done(file, N) : g < h
    BY <1>1, <2>2 DEF Done
  <2>7. Complete(file) = Done(file, N) \cup (IF WellFormed(file.lines[h]) THEN {h} ELSE {})
    <3>1. \A g \in Headers(file) : (\E j \in Headers(file) : g < j /\ j <= N) \/ g = h
      <4> TAKE g \in Headers(file)
      <4>1. g <= h /\ g \in Int /\ h \in Int /\ h <= N
        BY <1>1, <2>2
      <4>2. g < h \/ g = h
        BY <4>1
      <4> QED
        BY <2>2, <4>1, <4>2
    <3> QED
      BY <1>9, <2>2, <3>1 DEF Done
  <2>8. CASE WellFormed(file.lines[h])
    <3>1. Lists(Append(read.events, EventAt(file, h)), file, Done(file, N) \cup {h})
      BY <1>7, <2>2, <2>6, ListsMore
    <3> QED
      BY <1>6, <1>8, <2>3, <2>5, <2>7, <2>8, <3>1
  <2>9. CASE ~WellFormed(file.lines[h])
    BY <1>6, <1>7, <1>8, <2>3, <2>7, <2>9
  <2> QED
    BY <2>8, <2>9
<1> QED
  BY <1>10, <1>11

-------------------------------------------------------------------------------
(* The rows of the report k. *)
RowSet(k) ==
  [event : EventNames(k), at : Int, hour : Int, file : Int, micros : Int, text : Seq(Int)]

(* Hours are told by the minute they begin at. *)
LEMMA HourTyped == \A k : \A at \in Int : HourOf(k, at) \in Int
  BY PoolAssumption DEF HourOf

(* The rows are those of the pairs R, each once; of tells the pair of each. *)
RowsAre(of, rows, k, R) ==
  /\ rows \in Seq(RowSet(k))
  /\ \A i \in 1..Len(rows) : of[i] \in R /\ rows[i] = of[i][2]
  /\ \A i, j \in 1..Len(rows) : of[i] = of[j] => i = j
  /\ \A r \in R : \E i \in 1..Len(rows) : of[i] = r

RowsList(rows, k, R) == \E of : RowsAre(of, rows, k, R)

(* No rows list no pairs ... *)
LEMMA RowsNone ==
  ASSUME NEW k
  PROVE  RowsList(<<>>, k, {})
<1>1. Len(<<>>) = 0 /\ 1..0 = {}
  OBVIOUS
<1>2. RowsAre(<<>>, <<>>, k, {})
  BY <1>1 DEF RowsAre
<1> QED
  BY <1>2 DEF RowsList

(* ... and one more row lists the pair it comes from. *)
LEMMA RowsMore ==
  ASSUME NEW rows, NEW k, NEW R, RowsList(rows, k, R), NEW p, p \notin R, p[2] \in RowSet(k)
  PROVE  RowsList(Append(rows, p[2]), k, R \cup {p})
<1> DEFINE new == Append(rows, p[2])
           n == Len(rows)
           S == RowSet(k)
<1>1. PICK of : RowsAre(of, rows, k, R)
  BY DEF RowsList
<1>2. /\ rows \in Seq(S)
      /\ \A i \in 1..n : of[i] \in R /\ rows[i] = of[i][2]
      /\ \A i, j \in 1..n : of[i] = of[j] => i = j
      /\ \A r \in R : \E i \in 1..n : of[i] = r
  BY <1>1 DEF RowsAre
<1>3. p[2] \in S
  OBVIOUS
<1> HIDE DEF S
<1>4. /\ new \in Seq(S) /\ Len(new) = n + 1 /\ n \in Nat
      /\ \A i \in 1..n : new[i] = rows[i]
      /\ new[n + 1] = p[2]
  BY <1>2, <1>3, AppendProperties, LenProperties
<1> DEFINE to == [i \in 1..(n + 1) |-> IF i = n + 1 THEN p ELSE of[i]]
<1>5. to[n + 1] = p /\ \A i \in 1..n : to[i] = of[i]
  BY <1>4
<1>6. /\ \A i \in 1..(n + 1) : i = n + 1 \/ i \in 1..n
      /\ n + 1 \in 1..(n + 1) /\ \A i \in 1..n : i \in 1..(n + 1)
  BY <1>4
<1> HIDE DEF new, n, to
<1>7. \A i \in 1..(n + 1) : to[i] \in R \cup {p} /\ new[i] = to[i][2]
  BY <1>2, <1>4, <1>5, <1>6
<1>8. \A i, j \in 1..(n + 1) : to[i] = to[j] => i = j
  BY <1>2, <1>5, <1>6
<1>9. \A r \in R \cup {p} : \E i \in 1..(n + 1) : to[i] = r
  BY <1>2, <1>5, <1>6
<1>10. RowsAre(to, new, k, R \cup {p})
  BY <1>4, <1>7, <1>8, <1>9 DEF RowsAre, S
<1> QED
  BY <1>10 DEF RowsList, new

(* The text that a report takes of an event is a text. *)
LEMMA TextTyped ==
  ASSUME NEW e, IsEvent(e)
  PROVE  /\ \A f : TextOf(e, f) \in Seq(Int)
         /\ \A k : TextFor(k, e) \in Seq(Int)
<1>1. \A f : TextOf(e, f) \in Seq(Int)
  BY DEF IsEvent, TextOf, Blank
<1>2. Description(e) \in Seq(Int)
  <2> DEFINE text == IF TextOf(e, "Descr") # Blank THEN TextOf(e, "Descr") ELSE TextOf(e, "Description")
  <2>1. text \in Seq(Int)
    BY <1>1
  <2>2. Description(e) = [i \in DOMAIN text |-> Masked(text[i])]
    BY DEF Description
  <2> HIDE DEF text
  <2>3. Len(text) \in Nat /\ DOMAIN text = 1..Len(text) /\ \A i \in 1..Len(text) : text[i] \in Int
    BY <2>1, LenProperties, ElementOfSeq
  <2>4. \A i \in 1..Len(text) : Masked(text[i]) \in Int
    BY <2>3, PoolAssumption DEF Masked
  <2>5. Description(e) \in [1..Len(text) -> Int]
    BY <2>2, <2>3, <2>4
  <2> QED
    BY <2>3, <2>5, SeqDef
<1> QED
  BY <1>1, <1>2 DEF TextFor

(* The row of an event, if the report k takes it. *)
OwnPair(k, file, j) == <<j, Row(k, EventAt(file, j), TextFor(k, EventAt(file, j)))>>
Takes(k, file, j) == Wanted(k, EventAt(file, j)) /\ TextFor(k, EventAt(file, j)) # Blank
OwnTold(k, file, T) == {OwnPair(k, file, j) : j \in {i \in T : Takes(k, file, i)}}

(* The events told before the next one. *)
Before(file, T, h) ==
  /\ h \in Complete(file) /\ T \in SUBSET Complete(file)
  /\ \A j \in Complete(file) : j \in T <=> j < h

(* The headers with a well-formed event are line numbers, and their events   *)
(* are events.                                                               *)
LEMMA CompleteTyped ==
  ASSUME NEW file, IsFile(file)
  PROVE  /\ \A h \in Complete(file) : h \in Int /\ h \in Headers(file) /\ IsEvent(EventAt(file, h))
         /\ Complete(file) \in SUBSET Int
<1>1. Headers(file) \in SUBSET (1..Len(file.lines)) /\ Len(file.lines) \in Nat
  BY FileLines
<1>2. \A h \in Complete(file) : h \in Headers(file)
  BY DEF Complete
<1>3. \A h \in Headers(file) : h \in Int
  BY <1>1
<1> QED
  BY <1>2, <1>3, EventTyped

(* An event more adds its row, if the report takes it (emitWanted). *)
LEMMA EmitOne ==
  ASSUME NEW k, NEW file, IsFile(file), NEW T, NEW h, Before(file, T, h),
         NEW rows, RowsList(rows, k, OwnTold(k, file, T))
  PROVE  RowsList(EmitWanted(k, rows, EventAt(file, h)), k, OwnTold(k, file, T \cup {h}))
<1> DEFINE e == EventAt(file, h)
           p == OwnPair(k, file, h)
<1>1. IsEvent(e)
  BY CompleteTyped DEF Before
<1>2. CASE Takes(k, file, h)
  <2>1. EmitWanted(k, rows, e) = Append(rows, p[2])
    BY <1>2 DEF EmitWanted, Takes, OwnPair
  <2>2. OwnTold(k, file, T \cup {h}) = OwnTold(k, file, T) \cup {p}
    BY <1>2 DEF OwnTold
  <2>3. p \notin OwnTold(k, file, T)
    <3>1. h \notin T
      <4>1. h \in Int /\ h \in Complete(file)
        BY CompleteTyped DEF Before
      <4> QED
        BY <4>1 DEF Before
    <3>2. \A j \in T : OwnPair(k, file, j) # p
      BY <3>1 DEF OwnPair
    <3> QED
      BY <3>2 DEF OwnTold
  <2>4. p[2] \in RowSet(k)
    <3>1. e.name \in EventNames(k)
      BY <1>2 DEF Takes, Wanted
    <3>2. TextFor(k, e) \in Seq(Int)
      BY <1>1, TextTyped
    <3>3. p[2] = [event |-> e.name, at |-> e.at, hour |-> HourOf(k, e.at), file |-> e.file,
                    micros |-> e.micros, text |-> TextFor(k, e)]
      BY DEF OwnPair, Row
    <3>4. HourOf(k, e.at) \in Int
      BY <1>1, HourTyped DEF IsEvent
    <3> HIDE DEF p, e
    <3> QED
      BY <1>1, <3>1, <3>2, <3>3, <3>4 DEF IsEvent, RowSet
  <2> QED
    <3> DEFINE R == OwnTold(k, file, T)
    <3> HIDE DEF p, R
    <3>1. RowsList(rows, k, R) /\ p \notin R
      BY <2>3 DEF R
    <3>2. RowsList(Append(rows, p[2]), k, R \cup {p})
      BY <2>4, <3>1, RowsMore
    <3> QED
      BY <2>1, <2>2, <3>2 DEF R
<1>3. CASE ~Takes(k, file, h)
  <2>1. EmitWanted(k, rows, e) = rows
    BY <1>3 DEF EmitWanted, Takes
  <2>2. OwnTold(k, file, T \cup {h}) = OwnTold(k, file, T)
    BY <1>3 DEF OwnTold
  <2> QED
    BY <2>1, <2>2
<1> QED
  BY <1>2, <1>3

(* The events of a file, one by one, each with its header. *)
Told(at, n) == {at[i] : i \in 1..n}

InTurn(at, events, file, N) ==
  /\ \A n \in 1..N :
       /\ events[n] = EventAt(file, at[n])
       /\ Before(file, Told(at, n - 1), at[n])
       /\ Told(at, n) = Told(at, n - 1) \cup {at[n]}
  /\ Told(at, 0) = {} /\ Told(at, N) = Complete(file)

(* The events of a file come in the order of their headers. *)
LEMMA EventByEvent ==
  ASSUME NEW file, IsFile(file), NEW events, Lists(events, file, Complete(file))
  PROVE  /\ Len(events) \in Nat /\ DOMAIN events = 1..Len(events)
         /\ \E at : InTurn(at, events, file, Len(events))
<1> DEFINE N == Len(events)
<1>1. PICK at : ListsAt(at, events, file, Complete(file))
  BY DEF Lists
<1>2. N \in Nat /\ DOMAIN events = 1..N
  BY <1>1, LenProperties DEF ListsAt
<1>3. /\ \A i \in 1..N : at[i] \in Complete(file) /\ events[i] = EventAt(file, at[i])
      /\ \A i, j \in 1..N : i < j => at[i] < at[j]
      /\ \A h \in Complete(file) : \E i \in 1..N : at[i] = h
  BY <1>1 DEF ListsAt
<1>4. Complete(file) \in SUBSET Int
  BY CompleteTyped
<1> HIDE DEF N
<1>5. ASSUME NEW n \in 1..N
      PROVE  /\ Before(file, Told(at, n - 1), at[n])
             /\ Told(at, n) = Told(at, n - 1) \cup {at[n]}
  <2> DEFINE T == Told(at, n - 1)
  <2>1. /\ \A i \in 1..n : i = n \/ i \in 1..(n - 1)
        /\ n \in 1..n /\ \A i \in 1..(n - 1) : i \in 1..n /\ i \in 1..N /\ i < n
    BY <1>2
  <2>2. Told(at, n) = T \cup {at[n]}
    BY <2>1 DEF Told
  <2>3. ASSUME NEW j \in Complete(file), j < at[n] PROVE j \in T
    <3>1. PICK i \in 1..N : at[i] = j
      BY <1>3
    <3>2. ~(n < i) /\ n # i
      BY <1>3, <1>4, <2>3, <3>1
    <3>3. i \in 1..(n - 1)
      BY <1>2, <3>2
    <3> QED
      BY <3>1, <3>3 DEF Told
  <2>4. T \in SUBSET Complete(file) /\ \A j \in T : j < at[n]
    BY <1>3, <2>1 DEF Told
  <2> QED
    BY <1>3, <2>2, <2>3, <2>4 DEF Before
<1>6. Told(at, N) = Complete(file)
  BY <1>3 DEF Told
<1>7. Told(at, 0) = {}
  BY DEF Told
<1>8. InTurn(at, events, file, N)
  BY <1>3, <1>5, <1>6, <1>7 DEF InTurn
<1> QED
  BY <1>2, <1>8 DEF N

(* The reports but that of the calls take the rows that they should. *)
LEMMA OwnRowsTaken ==
  ASSUME NEW k, k # "call", NEW file, IsFile(file), ~Fails(file)
  PROVE  RowsList(ProcessFile(k, file), k, RowsOf(k, file))
<1> DEFINE events == ParseFile(file).events
           N == Len(events)
<1>1. Lists(events, file, Complete(file))
  BY FileEvents
<1> HIDE DEF events
<1>2. N \in Nat /\ DOMAIN events = 1..N
  BY <1>1, EventByEvent
<1>9. PICK at : InTurn(at, events, file, N)
  BY <1>1, EventByEvent
<1> HIDE DEF N
<1>3. PICK w : Folds(w, "events", k, <<>>, events, N) /\ RowsOfAll(k, events) = w[N]
  BY <1>2, RowSteps
<1> DEFINE K == {n \in Nat : n <= N => RowsList(w[n], k, OwnTold(k, file, Told(at, n)))}
<1>4. 0 \in K
  <2>1. OwnTold(k, file, Told(at, 0)) = {} /\ w[0] = <<>>
    BY <1>3, <1>9 DEF OwnTold, Folds, InTurn
  <2> QED
    BY <2>1, RowsNone
<1>5. ASSUME NEW n \in Nat, n \in K PROVE n + 1 \in K
  <2> SUFFICES ASSUME n + 1 <= N PROVE RowsList(w[n + 1], k, OwnTold(k, file, Told(at, n + 1)))
    OBVIOUS
  <2>1. n + 1 \in 1..N /\ (n + 1) - 1 = n /\ RowsList(w[n], k, OwnTold(k, file, Told(at, n)))
    BY <1>2, <1>5
  <2>2. w[n + 1] = Step("events", k, w[n], events[n + 1])
    BY <1>3, <2>1 DEF Folds
  <2>3. /\ events[n + 1] = EventAt(file, at[n + 1])
        /\ Before(file, Told(at, n), at[n + 1])
        /\ Told(at, n + 1) = Told(at, n) \cup {at[n + 1]}
    BY <1>9, <2>1 DEF InTurn
  <2>4. w[n + 1] = EmitWanted(k, w[n], EventAt(file, at[n + 1]))
    BY <2>2, <2>3 DEF Step
  <2> QED
    BY <2>1, <2>3, <2>4, EmitOne
<1>6. RowsList(w[N], k, OwnTold(k, file, Told(at, N)))
  <2>1. N \in K
    <3> HIDE DEF K
    <3> QED
      BY <1>2, <1>4, <1>5, NumbersByStep
  <2> QED
    BY <1>2, <2>1
<1>7. OwnTold(k, file, Complete(file)) = RowsOf(k, file)
  BY DEF OwnTold, OwnPair, Takes, RowsOf, OwnRows
<1>8. ProcessFile(k, file) = RowsOfAll(k, events)
  BY DEF ProcessFile, RowsOfAll, events
<1> QED
  BY <1>3, <1>6, <1>7, <1>8, <1>9 DEF InTurn

-------------------------------------------------------------------------------
(* The report of the calls: PairedRows, part by part. *)
ThreadOf(file, i) == TextOf(EventAt(file, i), "OSThread")
CallsIn(file) == {i \in Complete(file) : Wanted("call", EventAt(file, i)) /\ ThreadOf(file, i) # Blank}
ContextsIn(file) ==
  {i \in Complete(file) : EventAt(file, i).name = "Context" /\ TextOf(EventAt(file, i), "Context") # Blank}
PairsIn(file) ==
  {p \in CallsIn(file) \X ContextsIn(file) :
     /\ p[1] < p[2] /\ ThreadOf(file, p[1]) = ThreadOf(file, p[2])
     /\ {j \in CallsIn(file) \cup ContextsIn(file) :
           p[1] < j /\ j < p[2] /\ ThreadOf(file, j) = ThreadOf(file, p[2])} = {}}
CallPair(file, p) == <<p[2], Row("call", EventAt(file, p[1]), TextOf(EventAt(file, p[2]), "Context"))>>
CallsTold(file, T) == {CallPair(file, p) : p \in {q \in PairsIn(file) : q[2] \in T}}

(* The rows of CALLs as the pairs of a CALL and the Context that follows it. *)
LEMMA PairedRowsAre == \A file : PairedRows(file) = {CallPair(file, p) : p \in PairsIn(file)}
  BY DEF PairedRows, CallPair, PairsIn, CallsIn, ContextsIn, ThreadOf

(* The CALL at c waits for the Context of its thread. *)
Waits(file, T, c, t) ==
  /\ c \in CallsIn(file) \cap T /\ ThreadOf(file, c) = t
  /\ \A j \in (CallsIn(file) \cup ContextsIn(file)) \cap T : ThreadOf(file, j) = t => j <= c

CallsSoFar(file, T, s) ==
  /\ DOMAIN s = {"calls", "rows"}
  /\ RowsList(s.rows, "call", CallsTold(file, T))
  /\ \A t : t \in DOMAIN s.calls <=> \E c : Waits(file, T, c, t)
  /\ \A c, t : Waits(file, T, c, t) => s.calls[t] = EventAt(file, c)

(* What PairCall does. *)
LEMMA PairCallDoes ==
  ASSUME NEW s, DOMAIN s = {"calls", "rows"}, NEW e
  PROVE  LET thread == TextOf(e, "OSThread")
             text == TextOf(e, "Context")
             calls == e.name = "CALL" /\ Matches(e)
             pairs == e.name = "Context" /\ thread \in DOMAIN s.calls /\ text # Blank
             q == PairCall(s, e)
         IN  /\ DOMAIN q = {"calls", "rows"}
             /\ thread # Blank /\ calls =>
                  /\ q.rows = s.rows
                  /\ q.calls = [t \in DOMAIN s.calls \cup {thread} |-> IF t = thread THEN e ELSE s.calls[t]]
             /\ thread # Blank /\ pairs =>
                  /\ q.rows = Append(s.rows, Row("call", s.calls[thread], text))
                  /\ q.calls = [t \in DOMAIN s.calls \ {thread} |-> s.calls[t]]
             /\ thread = Blank \/ (~calls /\ ~pairs) => q = s
<1> DEFINE thread == TextOf(e, "OSThread")
           text == TextOf(e, "Context")
           calls == e.name = "CALL" /\ Matches(e)
           pairs == e.name = "Context" /\ thread \in DOMAIN s.calls /\ text # Blank
           q == PairCall(s, e)
<1>1. \A n : n \in EventNames("call") <=> n = "CALL"
  BY DEF EventNames
<1>2. CASE thread # Blank /\ calls
  <2>1. q = [s EXCEPT !.calls = [t \in DOMAIN @ \cup {thread} |-> IF t = thread THEN e ELSE @[t]]]
    BY <1>1, <1>2 DEF PairCall
  <2>2. ~pairs
    BY <1>2
  <2> HIDE DEF thread
  <2> QED
    BY <1>2, <2>1, <2>2 DEF thread
<1>3. CASE thread # Blank /\ pairs
  <2>1. q = [calls |-> [t \in DOMAIN s.calls \ {thread} |-> s.calls[t]],
             rows |-> Append(s.rows, Row("call", s.calls[thread], text))]
    BY <1>1, <1>3 DEF PairCall
  <2>2. ~calls
    BY <1>3
  <2> HIDE DEF thread, text
  <2>3. /\ DOMAIN q = {"calls", "rows"}
        /\ q.calls = [t \in DOMAIN s.calls \ {thread} |-> s.calls[t]]
        /\ q.rows = Append(s.rows, Row("call", s.calls[thread], text))
    BY <2>1
  <2> QED
    BY <1>3, <2>2, <2>3 DEF thread, text
<1>4. CASE thread = Blank \/ (~calls /\ ~pairs)
  <2>1. q = s
    BY <1>1, <1>4 DEF PairCall
  <2> HIDE DEF q
  <2> QED
    BY <1>4, <2>1 DEF q
<1> QED
  BY <1>2, <1>3, <1>4

(* An event of another thread, or that neither is a CALL nor a Context,     *)
(* leaves who waits.                                                        *)
LEMMA OthersWait ==
  ASSUME NEW file, IsFile(file), NEW T, NEW h, Before(file, T, h), NEW t,
         h \notin CallsIn(file) \cup ContextsIn(file) \/ ThreadOf(file, h) # t
  PROVE  \A c : Waits(file, T \cup {h}, c, t) <=> Waits(file, T, c, t)
  BY DEF Waits

(* An event more: a CALL waits for its Context, a Context takes the CALL of  *)
(* its thread and ends the wait (PairCall).                                  *)
LEMMA CallOne ==
  ASSUME NEW file, IsFile(file), NEW T, NEW h, Before(file, T, h), NEW s, CallsSoFar(file, T, s)
  PROVE  CallsSoFar(file, T \cup {h}, PairCall(s, EventAt(file, h)))
<1> DEFINE e == EventAt(file, h)
           thread == ThreadOf(file, h)
           text == TextOf(e, "Context")
           calls == e.name = "CALL" /\ Matches(e)
           pairs == e.name = "Context" /\ thread \in DOMAIN s.calls /\ text # Blank
           q == PairCall(s, e)
           U == T \cup {h}
<1>1. /\ DOMAIN s = {"calls", "rows"}
      /\ RowsList(s.rows, "call", CallsTold(file, T))
      /\ \A t : t \in DOMAIN s.calls <=> \E c : Waits(file, T, c, t)
      /\ \A c, t : Waits(file, T, c, t) => s.calls[t] = EventAt(file, c)
  BY DEF CallsSoFar
<1>2. /\ DOMAIN q = {"calls", "rows"}
      /\ thread # Blank /\ calls =>
           /\ q.rows = s.rows
           /\ q.calls = [t \in DOMAIN s.calls \cup {thread} |-> IF t = thread THEN e ELSE s.calls[t]]
      /\ thread # Blank /\ pairs =>
           /\ q.rows = Append(s.rows, Row("call", s.calls[thread], text))
           /\ q.calls = [t \in DOMAIN s.calls \ {thread} |-> s.calls[t]]
      /\ thread = Blank \/ (~calls /\ ~pairs) => q = s
  BY <1>1, PairCallDoes DEF ThreadOf
<1>3. /\ h \in Complete(file) /\ T \in SUBSET Complete(file) /\ h \in Int
      /\ \A j \in Complete(file) : j \in Int /\ (j \in T <=> j < h)
  BY CompleteTyped DEF Before
<1>4. /\ h \in CallsIn(file) <=> calls /\ thread # Blank
      /\ h \in ContextsIn(file) <=> e.name = "Context" /\ text # Blank
      /\ h \in CallsIn(file) => h \notin ContextsIn(file)
      /\ CallsIn(file) \in SUBSET Complete(file) /\ ContextsIn(file) \in SUBSET Complete(file)
  <2>1. \A n : n \in EventNames("call") <=> n = "CALL"
    BY DEF EventNames
  <2> QED
    BY <1>3, <2>1 DEF CallsIn, ContextsIn, Wanted
<1>5. h \notin T
  BY <1>3
<1> HIDE DEF q, e, thread, text
<1>6. ASSUME \A p \in PairsIn(file) : p[2] # h
      PROVE  CallsTold(file, U) = CallsTold(file, T)
  <2>1. \A p \in PairsIn(file) : p[2] \in U <=> p[2] \in T
    BY <1>6
  <2> QED
    BY <2>1 DEF CallsTold
<1>7. ASSUME NEW p \in PairsIn(file), p[2] = h
      PROVE  Waits(file, T, p[1], thread) /\ h \in ContextsIn(file)
  <2>1. /\ p[1] \in CallsIn(file) /\ p[2] \in ContextsIn(file) /\ p[1] < h /\ ThreadOf(file, p[1]) = thread
        /\ \A j \in CallsIn(file) \cup ContextsIn(file) : ~(p[1] < j /\ j < h /\ ThreadOf(file, j) = thread)
    BY <1>7 DEF PairsIn, thread
  <2>2. \A j \in (CallsIn(file) \cup ContextsIn(file)) \cap T : j \in Int /\ j < h
    BY <1>3, <1>4
  <2>3. p[1] \in T /\ p[1] \in Int
    BY <1>3, <1>4, <2>1
  <2> QED
    BY <1>7, <2>1, <2>2, <2>3 DEF Waits
<1>8. CASE calls /\ thread # Blank
  <2>1. /\ q.rows = s.rows
        /\ q.calls = [t \in DOMAIN s.calls \cup {thread} |-> IF t = thread THEN e ELSE s.calls[t]]
    BY <1>2, <1>8
  <2>2. h \in CallsIn(file) /\ h \notin ContextsIn(file)
    BY <1>4, <1>8
  <2>3. CallsTold(file, U) = CallsTold(file, T)
    BY <1>6, <1>7, <2>2
  <2>4. \A c : Waits(file, U, c, thread) <=> c = h
    <3>0. h \in Int /\ \A j \in T : j < h /\ j \in Int
      <4>1. \A j \in T : j \in Complete(file)
        BY <1>3
      <4> QED
        BY <1>3, <4>1
    <3>a. \A j \in U : j \in Int /\ (j = h \/ j < h)
      BY <3>0
    <3>1. \A j \in (CallsIn(file) \cup ContextsIn(file)) \cap U : j <= h
      BY <3>0, <3>a
    <3>2. \A c \in CallsIn(file) \cap U : h <= c => c = h
      BY <3>0, <3>a
    <3> QED
      BY <2>2, <3>1, <3>2 DEF Waits, thread
  <2>5. \A c, t : t # thread => (Waits(file, U, c, t) <=> Waits(file, T, c, t))
    BY OthersWait DEF thread
  <2>6. \A t : t \in DOMAIN q.calls <=> \E c : Waits(file, U, c, t)
    <3> TAKE t
    <3>1. DOMAIN q.calls = DOMAIN s.calls \cup {thread}
      BY <2>1
    <3>2. CASE t = thread
      BY <2>4, <3>1, <3>2
    <3>3. CASE t # thread
      BY <1>1, <2>5, <3>1, <3>3
    <3> QED
      BY <3>2, <3>3
  <2>7. \A c, t : Waits(file, U, c, t) => q.calls[t] = EventAt(file, c)
    <3> TAKE c, t
    <3> HAVE Waits(file, U, c, t)
    <3>1. CASE t = thread
      BY <2>1, <2>4, <3>1 DEF e
    <3>2. CASE t # thread
      <4>1. Waits(file, T, c, t)
        BY <2>5, <3>2
      <4>2. t \in DOMAIN s.calls /\ s.calls[t] = EventAt(file, c)
        BY <1>1, <4>1
      <4> QED
        BY <2>1, <3>2, <4>2
    <3> QED
      BY <3>1, <3>2
  <2> QED
    BY <1>1, <1>2, <2>1, <2>3, <2>6, <2>7 DEF CallsSoFar, q, e
<1>9. CASE thread # Blank /\ pairs
  <2>1. /\ q.rows = Append(s.rows, Row("call", s.calls[thread], text))
        /\ q.calls = [t \in DOMAIN s.calls \ {thread} |-> s.calls[t]]
    BY <1>2, <1>9
  <2>2. h \notin CallsIn(file) /\ h \in ContextsIn(file)
    BY <1>4, <1>9
  <2>3. PICK c : Waits(file, T, c, thread)
    BY <1>1, <1>9
  <2>4. /\ c \in CallsIn(file) /\ c \in T /\ c < h /\ ThreadOf(file, c) = thread
        /\ \A j \in (CallsIn(file) \cup ContextsIn(file)) \cap T : ThreadOf(file, j) = thread => j <= c
        /\ s.calls[thread] = EventAt(file, c)
    BY <1>1, <1>3, <1>4, <2>3 DEF Waits
  <2> DEFINE p == <<c, h>>
  <2>5. p \in PairsIn(file)
    <3>1. \A j \in CallsIn(file) \cup ContextsIn(file) : ~(c < j /\ j < h /\ ThreadOf(file, j) = thread)
      <4> SUFFICES ASSUME NEW j \in CallsIn(file) \cup ContextsIn(file), c < j, j < h, ThreadOf(file, j) = thread
                   PROVE  FALSE
        OBVIOUS
      <4>1. j \in T /\ j \in Int /\ c \in Int
        BY <1>3, <1>4, <2>4
      <4>2. j <= c
        BY <2>4, <4>1
      <4> QED
        BY <4>1, <4>2
    <3> QED
      BY <2>2, <2>4, <3>1 DEF PairsIn, thread
  <2>6. \A r \in PairsIn(file) : r[2] = h => r = p
    <3> TAKE r \in PairsIn(file)
    <3> HAVE r[2] = h
    <3>1. Waits(file, T, r[1], thread)
      BY <1>7
    <3>2. r[1] <= c /\ c <= r[1] /\ r[1] \in Int /\ c \in Int
      BY <1>3, <2>4, <3>1 DEF Waits
    <3>3. r = <<r[1], r[2]>>
      BY DEF PairsIn
    <3> QED
      BY <3>2, <3>3
  <2>7. CallsTold(file, U) = CallsTold(file, T) \cup {CallPair(file, p)}
    <3>1. \A r \in PairsIn(file) : r[2] \in U <=> r[2] \in T \/ r = p
      BY <1>5, <2>6
    <3> QED
      BY <2>5, <3>1 DEF CallsTold
  <2>8. CallPair(file, p) = <<h, Row("call", s.calls[thread], text)>>
    BY <2>4 DEF CallPair, e, text
  <2>9. CallPair(file, p) \notin CallsTold(file, T)
    <3>1. \A r : r[2] \in T => CallPair(file, r) # CallPair(file, p)
      BY <1>5, <2>8 DEF CallPair
    <3> QED
      BY <3>1 DEF CallsTold
  <2>10. Row("call", s.calls[thread], text) \in RowSet("call")
    <3> DEFINE d == EventAt(file, c)
    <3>1. IsEvent(e) /\ IsEvent(d)
      BY <1>3, <1>4, <2>4, CompleteTyped DEF e
    <3>2. text \in Seq(Int)
      BY <3>1, TextTyped DEF text
    <3>3. d.name \in EventNames("call")
      BY <2>4 DEF CallsIn, Wanted
    <3>4. HourOf("call", d.at) \in Int
      BY <3>1, HourTyped DEF IsEvent
    <3> HIDE DEF d
    <3>5. Row("call", d, text) \in RowSet("call")
      BY <3>1, <3>2, <3>3, <3>4 DEF Row, RowSet, IsEvent
    <3> QED
      BY <2>4, <3>5 DEF d
  <2>11. RowsList(q.rows, "call", CallsTold(file, U))
    <3> DEFINE x == CallPair(file, p)
               R == CallsTold(file, T)
    <3>1. x \notin R /\ x[2] = Row("call", s.calls[thread], text) /\ x[2] \in RowSet("call") /\ RowsList(s.rows, "call", R)
      BY <1>1, <2>8, <2>9, <2>10
    <3>2. q.rows = Append(s.rows, x[2])
      BY <2>1, <3>1
    <3>3. CallsTold(file, U) = R \cup {x}
      BY <2>7
    <3> HIDE DEF x, R, U
    <3>4. RowsList(Append(s.rows, x[2]), "call", R \cup {x})
      BY <3>1, RowsMore
    <3> QED
      BY <3>2, <3>3, <3>4
  <2>12. \A d : ~Waits(file, U, d, thread)
    <3> SUFFICES ASSUME NEW d, Waits(file, U, d, thread) PROVE FALSE
      OBVIOUS
    <3>1. d \in CallsIn(file) \cap U /\ h <= d
      BY <2>2 DEF Waits, thread
    <3>2. d \in T
      BY <2>2, <3>1
    <3> QED
      BY <1>3, <1>4, <3>1, <3>2
  <2>13. \A d, t : t # thread => (Waits(file, U, d, t) <=> Waits(file, T, d, t))
    BY OthersWait DEF thread
  <2>14. DOMAIN q.calls = DOMAIN s.calls \ {thread} /\ \A t \in DOMAIN q.calls : q.calls[t] = s.calls[t]
    BY <2>1
  <2>15. \A t : t \in DOMAIN q.calls <=> \E d : Waits(file, U, d, t)
    BY <1>1, <2>12, <2>13, <2>14
  <2>16. \A d, t : Waits(file, U, d, t) => q.calls[t] = EventAt(file, d)
    BY <1>1, <2>12, <2>13, <2>14
  <2> QED
    BY <1>2, <2>11, <2>15, <2>16 DEF CallsSoFar, q, e
<1>10. CASE thread = Blank \/ (~calls /\ ~pairs)
  <2>1. q = s
    BY <1>2, <1>10
  <2>2. h \notin CallsIn(file)
    BY <1>4, <1>10
  <2>3. \A c : ~Waits(file, T, c, thread) \/ h \notin ContextsIn(file)
    <3> SUFFICES ASSUME NEW c, Waits(file, T, c, thread), h \in ContextsIn(file) PROVE FALSE
      OBVIOUS
    <3>1. thread \in DOMAIN s.calls /\ thread # Blank
      BY <1>1 DEF Waits, CallsIn
    <3> QED
      BY <1>4, <1>10, <3>1
  <2>4. CallsTold(file, U) = CallsTold(file, T)
    BY <1>6, <1>7, <2>3
  <2>5. \A c, t : Waits(file, U, c, t) <=> Waits(file, T, c, t)
    <3> TAKE c, t
    <3>1. CASE h \notin ContextsIn(file) \/ t # thread
      <4>1. h \notin CallsIn(file) \cup ContextsIn(file) \/ ThreadOf(file, h) # t
        BY <2>2, <3>1 DEF thread
      <4> QED
        BY <4>1, OthersWait
    <3>2. CASE h \in ContextsIn(file) /\ t = thread
      <4>1. ~Waits(file, T, c, t)
        BY <2>3, <3>2
      <4>2. ~Waits(file, U, c, t)
        <5> SUFFICES ASSUME Waits(file, U, c, t) PROVE FALSE
          OBVIOUS
        <5>1. c \in CallsIn(file) \cap U /\ h <= c
          BY <3>2 DEF Waits, thread
        <5>2. c \in T
          BY <2>2, <5>1
        <5> QED
          BY <1>3, <1>4, <5>1, <5>2
      <4> QED
        BY <4>1, <4>2
    <3> QED
      BY <3>1, <3>2
  <2> QED
    BY <1>1, <2>1, <2>4, <2>5 DEF CallsSoFar, q, e
<1> QED
  BY <1>8, <1>9, <1>10

(* The report of the calls takes the rows that it should. *)
LEMMA PairedRowsTaken ==
  ASSUME NEW file, IsFile(file), ~Fails(file)
  PROVE  RowsList(ProcessFile("call", file), "call", RowsOf("call", file))
<1> DEFINE events == ParseFile(file).events
           N == Len(events)
           base == [calls |-> [t \in {} |-> 0], rows |-> <<>>]
<1>1. Lists(events, file, Complete(file))
  BY FileEvents
<1> HIDE DEF events
<1>2. N \in Nat /\ DOMAIN events = 1..N
  BY <1>1, EventByEvent
<1>9. PICK at : InTurn(at, events, file, N)
  BY <1>1, EventByEvent
<1> HIDE DEF N
<1>3. PICK w : Folds(w, "calls", 0, base, events, N) /\ CallsOfAll(base, events) = w[N]
  <2> HIDE DEF base
  <2> QED
    BY <1>2, CallSteps
<1> DEFINE K == {n \in Nat : n <= N => CallsSoFar(file, Told(at, n), w[n])}
<1>4. 0 \in K
  <2>1. CallsTold(file, Told(at, 0)) = {} /\ Told(at, 0) = {} /\ w[0] = base
    BY <1>3, <1>9 DEF CallsTold, Folds, InTurn
  <2>2. DOMAIN base = {"calls", "rows"} /\ base.rows = <<>> /\ DOMAIN base.calls = {}
    OBVIOUS
  <2>3. \A c, t : ~Waits(file, {}, c, t)
    BY DEF Waits
  <2>4. CallsSoFar(file, {}, base)
    <3> HIDE DEF base
    <3> QED
      BY <2>1, <2>2, <2>3, RowsNone DEF CallsSoFar
  <2> QED
    BY <2>1, <2>4
<1>5. ASSUME NEW n \in Nat, n \in K PROVE n + 1 \in K
  <2> SUFFICES ASSUME n + 1 <= N PROVE CallsSoFar(file, Told(at, n + 1), w[n + 1])
    OBVIOUS
  <2>1. n + 1 \in 1..N /\ (n + 1) - 1 = n /\ CallsSoFar(file, Told(at, n), w[n])
    BY <1>2, <1>5
  <2>2. w[n + 1] = Step("calls", 0, w[n], events[n + 1])
    BY <1>3, <2>1 DEF Folds
  <2>3. /\ events[n + 1] = EventAt(file, at[n + 1])
        /\ Before(file, Told(at, n), at[n + 1])
        /\ Told(at, n + 1) = Told(at, n) \cup {at[n + 1]}
    BY <1>9, <2>1 DEF InTurn
  <2>4. w[n + 1] = PairCall(w[n], EventAt(file, at[n + 1]))
    BY <2>2, <2>3 DEF Step
  <2> QED
    BY <2>1, <2>3, <2>4, CallOne
<1>6. CallsSoFar(file, Told(at, N), w[N])
  <2>1. N \in K
    <3> HIDE DEF K
    <3> QED
      BY <1>2, <1>4, <1>5, NumbersByStep
  <2> QED
    BY <1>2, <2>1
<1>7. CallsTold(file, Complete(file)) = RowsOf("call", file)
  <2>1. \A p \in PairsIn(file) : p[2] \in Complete(file)
    BY DEF PairsIn, ContextsIn
  <2> QED
    BY <2>1, PairedRowsAre DEF CallsTold, RowsOf
<1>8. ProcessFile("call", file) = CallsOfAll(base, events).rows
  BY DEF ProcessFile, CallsOfAll, events
<1> HIDE DEF base
<1>10. RowsList(w[N].rows, "call", CallsTold(file, Complete(file)))
  BY <1>6, <1>9 DEF CallsSoFar, InTurn
<1> QED
  BY <1>3, <1>7, <1>8, <1>10

(* Of a file that does not fail, every report takes the rows that it should. *)
LEMMA RowsTaken ==
  ASSUME NEW k, NEW file, IsFile(file), ~Fails(file)
  PROVE  RowsList(ProcessFile(k, file), k, RowsOf(k, file))
  BY OwnRowsTaken, PairedRowsTaken

-------------------------------------------------------------------------------
(* A sum over a set is built by one element after another. *)
One(s) == CHOOSE x \in s : TRUE

Builds(h, f, S) ==
  \A s \in SUBSET S : h[s] = IF s = {} THEN 0 ELSE f[One(s)] + h[s \ {One(s)}]

Recurses(h, f, S) ==
  h = [s \in SUBSET S |-> IF s = {} THEN 0 ELSE f[One(s)] + h[s \ {One(s)}]]

(* There is such a sum. *)
LEMMA SumExists ==
  ASSUME NEW S, IsFiniteSet(S), NEW f
  PROVE  \E h : Recurses(h, f, S)
<1> DEFINE E(h, s) == IF s = {} THEN 0 ELSE f[One(s)] + h[s \ {One(s)}]
           Below(k) == {s \in SUBSET S : Cardinality(s) <= k}
           K == {k \in Nat : \E h : h = [s \in Below(k) |-> E(h, s)]}
<1>1. \A s \in SUBSET S : IsFiniteSet(s) /\ Cardinality(s) \in Nat
  BY FS_Subset, FS_CardinalityType
<1>2. \A s \in SUBSET S : s # {} =>
        One(s) \in s /\ s \ {One(s)} \in SUBSET S /\ Cardinality(s \ {One(s)}) = Cardinality(s) - 1
  BY <1>1, FS_RemoveElement DEF One
<1>3. 0 \in K
  <2>1. Below(0) \subseteq {{}}
    BY <1>1, FS_EmptySet
  <2> DEFINE h == [s \in Below(0) |-> 0]
  <2>2. \A s \in Below(0) : E(h, s) = 0
    BY <2>1
  <2>3. h = [s \in Below(0) |-> E(h, s)]
    BY <2>2
  <2>4. QED
    BY <2>3
<1>4. ASSUME NEW k \in Nat, k \in K
      PROVE  k + 1 \in K
  <2>1. PICK h : h = [s \in Below(k) |-> E(h, s)]
    BY <1>4
  <2> DEFINE g == [s \in Below(k + 1) |-> E(h, s)]
  <2>2. \A s \in Below(k) : s \in Below(k + 1)
    BY <1>1
  <2>3. \A s \in Below(k) : g[s] = h[s]
    BY <2>1, <2>2
  <2>4. \A s \in Below(k + 1) : s # {} => s \ {One(s)} \in Below(k)
    BY <1>1, <1>2
  <2>5. \A s \in Below(k + 1) : E(g, s) = E(h, s)
    <3> HIDE DEF g, Below
    <3>1. QED
      BY <2>3, <2>4
  <2>6. g = [s \in Below(k + 1) |-> E(g, s)]
    <3> DEFINE F(s) == E(g, s)
               G(s) == E(h, s)
    <3>1. \A s \in Below(k + 1) : F(s) = G(s)
      BY <2>5
    <3>2. g = [s \in Below(k + 1) |-> G(s)]
      OBVIOUS
    <3> HIDE DEF F, G, Below, g
    <3>3. g = [s \in Below(k + 1) |-> F(s)]
      BY <3>1, <3>2
    <3>4. QED
      BY <3>3 DEF F
  <2> HIDE DEF g, E, Below
  <2>7. QED
    BY <2>6
<1>5. Cardinality(S) \in Nat
  BY <1>1
<1>6. Cardinality(S) \in K
  <2> HIDE DEF K
  <2>1. QED
    BY <1>3, <1>4, <1>5, NumbersByStep
<1>7. Below(Cardinality(S)) = SUBSET S
  BY FS_Subset
<1>8. \E h : h = [s \in SUBSET S |-> E(h, s)]
  <2> HIDE DEF E, Below
  <2>1. QED
    BY <1>6, <1>7
<1>9. QED
  BY <1>8 DEF Recurses

(* Sums that are built alike over the same elements are the same. *)
LEMMA SumUnique ==
  ASSUME NEW h, NEW f, NEW S, NEW k, NEW g, NEW T,
         Builds(h, f, S), Builds(k, g, T), IsFiniteSet(S), T \in SUBSET S,
         \A x \in T : f[x] = g[x]
  PROVE  \A s \in SUBSET T : h[s] = k[s]
<1> DEFINE C == {s \in SUBSET T : h[s] = k[s]}
<1>1. IsFiniteSet(T)
  BY FS_Subset
<1>2. {} \in C
  BY DEF Builds
<1>3. ASSUME NEW s \in SUBSET T, s # {}, \A x \in s : s \ {x} \in C
      PROVE  s \in C
  <2>1. One(s) \in s
    BY <1>3 DEF One
  <2>2. h[s \ {One(s)}] = k[s \ {One(s)}] /\ f[One(s)] = g[One(s)]
    BY <1>3, <2>1
  <2>3. /\ h[s] = f[One(s)] + h[s \ {One(s)}]
        /\ k[s] = g[One(s)] + k[s \ {One(s)}]
    BY <1>3 DEF Builds
  <2>4. QED
    BY <2>2, <2>3
<1>4. SUBSET T \subseteq C
  <2> HIDE DEF C
  <2>1. QED
    BY <1>1, <1>2, <1>3, SubsetsByRemoval
<1>5. QED
  BY <1>4

(* SumFunctionOnSet of the community modules is built so. *)
LEMMA SumIsBuilt ==
  ASSUME NEW S, IsFiniteSet(S), NEW f
  PROVE  \E h : Builds(h, f, S) /\ SumFunctionOnSet(f, S) = h[S]
<1> DEFINE h == CHOOSE h : Recurses(h, f, S)
<1>1. Recurses(h, f, S)
  BY SumExists, Zenon
<1>2. SumFunctionOnSet(f, S) = h[S]
  BY DEF SumFunctionOnSet, FoldFunctionOnSet, MapThenFoldSet, One, Recurses
<1> HIDE DEF h
<1>3. Builds(h, f, S)
  BY <1>1 DEF Recurses, Builds
<1>4. QED
  BY <1>2, <1>3

(* A sum depends on the summands only ... *)
LEMMA SumAlike ==
  ASSUME NEW S, IsFiniteSet(S), NEW f, NEW g, \A x \in S : f[x] = g[x]
  PROVE  SumFunctionOnSet(f, S) = SumFunctionOnSet(g, S)
<1>1. PICK h : Builds(h, f, S) /\ SumFunctionOnSet(f, S) = h[S]
  BY SumIsBuilt
<1>2. PICK k : Builds(k, g, S) /\ SumFunctionOnSet(g, S) = k[S]
  BY SumIsBuilt
<1>3. S \in SUBSET S
  OBVIOUS
<1>4. \A s \in SUBSET S : h[s] = k[s]
  <2> HIDE DEF Builds
  <2>1. QED
    BY <1>1, <1>2, <1>3, SumUnique
<1>5. QED
  BY <1>1, <1>2, <1>3, <1>4

(* ... and any of them can be taken out. *)
LEMMA SumSteps ==
  ASSUME NEW S, IsFiniteSet(S), NEW f, \A x \in S : f[x] \in Int
  PROVE  /\ SumFunctionOnSet(f, {}) = 0
         /\ SumFunctionOnSet(f, S) \in Int
         /\ \A x \in S : SumFunctionOnSet(f, S) = f[x] + SumFunctionOnSet(f, S \ {x})
<1>1. PICK h : Builds(h, f, S) /\ SumFunctionOnSet(f, S) = h[S]
  BY SumIsBuilt
<1>2. \A T \in SUBSET S : SumFunctionOnSet(f, T) = h[T]
  <2> TAKE T \in SUBSET S
  <2>1. IsFiniteSet(T)
    BY FS_Subset
  <2>2. PICK k : Builds(k, f, T) /\ SumFunctionOnSet(f, T) = k[T]
    BY <2>1, SumIsBuilt
  <2>3. \A s \in SUBSET T : h[s] = k[s]
    <3>1. \A x \in T : f[x] = f[x]
      OBVIOUS
    <3>2. QED
      BY <1>1, <2>2, <3>1, SumUnique
  <2>4. QED
    BY <2>2, <2>3
<1>3. h[{}] = 0
  BY <1>1 DEF Builds
<1> DEFINE I == {s \in SUBSET S : h[s] \in Int}
           C == {s \in SUBSET S : \A x \in s : h[s] = f[x] + h[s \ {x}]}
<1>8. \A s \in SUBSET S : h[s] \in Int
  <2>1. {} \in I
    BY <1>3
  <2>2. ASSUME NEW s \in SUBSET S, s # {}, \A x \in s : s \ {x} \in I
        PROVE  s \in I
    <3>1. One(s) \in s
      BY <2>2 DEF One
    <3>2. h[s] = f[One(s)] + h[s \ {One(s)}] /\ f[One(s)] \in Int /\ h[s \ {One(s)}] \in Int
      BY <1>1, <2>2, <3>1 DEF Builds
    <3>3. QED
      BY <3>2
  <2>3. SUBSET S \subseteq I
    <3> HIDE DEF I
    <3>1. QED
      BY <2>1, <2>2, SubsetsByRemoval
  <2>4. QED
    BY <2>3
<1>4. {} \in C
  OBVIOUS
<1>5. ASSUME NEW s \in SUBSET S, s # {}, \A x \in s : s \ {x} \in C
      PROVE  s \in C
  <2> DEFINE o == One(s)
  <2>1. o \in s
    BY <1>5 DEF One
  <2>2. h[s] = f[o] + h[s \ {o}]
    BY <1>1, <1>5 DEF Builds
  <2> HIDE DEF o
  <2>3. h[s \ {o}] \in Int /\ f[o] \in Int
    BY <1>8, <2>1
  <2>5. ASSUME NEW x \in s, x # o
        PROVE  h[s] = f[x] + h[s \ {x}]
    <3> DEFINE r == (s \ {o}) \ {x}
    <3>1. r = (s \ {x}) \ {o}
      OBVIOUS
    <3>2. h[s \ {o}] = f[x] + h[r]
      BY <1>5, <2>1, <2>5
    <3>3. h[s \ {x}] = f[o] + h[r]
      <4>1. s \ {x} \in C /\ o \in s \ {x}
        BY <1>5, <2>1, <2>5
      <4>2. h[s \ {x}] = f[o] + h[(s \ {x}) \ {o}]
        BY <4>1
      <4>3. QED
        BY <3>1, <4>2
    <3>4. h[r] \in Int /\ f[x] \in Int
      BY <1>8
    <3> HIDE DEF r
    <3>5. QED
      BY <2>2, <2>3, <3>2, <3>3, <3>4
  <2>6. QED
    BY <2>2, <2>5
<1>6. SUBSET S \subseteq C
  <2> HIDE DEF C
  <2>1. QED
    BY <1>4, <1>5, SubsetsByRemoval
<1>7. \A x \in S : h[S] = f[x] + h[S \ {x}]
  <2>1. S \in C
    BY <1>6
  <2>2. QED
    BY <2>1
<1>9. \A x \in S : S \ {x} \in SUBSET S
  OBVIOUS
<1> HIDE DEF I, C
<1>10. S \in SUBSET S /\ {} \in SUBSET S
  OBVIOUS
<1>11. QED
  BY <1>2, <1>3, <1>7, <1>8, <1>9, <1>10

(* The durations of a set of rows, each with its file and its header. *)
Micros(set) == SumFunction([d \in set |-> d[3].micros])

RowsDue(D, k) == IsFiniteSet(D) /\ \A d \in D : d[3] \in RowSet(k)

(* The time of some of the rows is a sum over the function of all of them    *)
(* ...                                                                       *)
LEMMA MicrosOn ==
  ASSUME NEW D, NEW k, RowsDue(D, k), NEW S \in SUBSET D
  PROVE  /\ IsFiniteSet(S)
         /\ Micros(S) = SumFunctionOnSet([d \in D |-> d[3].micros], S)
<1> DEFINE f == [d \in D |-> d[3].micros]
           g == [d \in S |-> d[3].micros]
<1>1. IsFiniteSet(S)
  BY FS_Subset DEF RowsDue
<1>2. Micros(S) = SumFunctionOnSet(g, S)
  BY DEF Micros, SumFunction
<1>3. \A d \in S : g[d] = f[d]
  OBVIOUS
<1> HIDE DEF f, g
<1>4. SumFunctionOnSet(g, S) = SumFunctionOnSet(f, S)
  BY <1>1, <1>3, SumAlike
<1> QED
  BY <1>1, <1>2, <1>4 DEF f

(* ... so that it grows by the time of each row. *)
LEMMA MicrosSteps ==
  ASSUME NEW D, NEW k, RowsDue(D, k)
  PROVE  /\ Micros({}) = 0
         /\ \A S \in SUBSET D : /\ Micros(S) \in Int
                                /\ \A d \in S : Micros(S) = d[3].micros + Micros(S \ {d})
         /\ \A d \in D : d[3].micros \in Int
<1> DEFINE f == [d \in D |-> d[3].micros]
<1>1. \A d \in D : f[d] = d[3].micros /\ d[3].micros \in Int
  BY DEF RowsDue, RowSet
<1> HIDE DEF f
<1>2. \A S \in SUBSET D : IsFiniteSet(S) /\ Micros(S) = SumFunctionOnSet(f, S)
  BY MicrosOn DEF f
<1>3. \A S \in SUBSET D :
        /\ SumFunctionOnSet(f, {}) = 0
        /\ SumFunctionOnSet(f, S) \in Int
        /\ \A x \in S : SumFunctionOnSet(f, S) = f[x] + SumFunctionOnSet(f, S \ {x})
  <2> TAKE S \in SUBSET D
  <2>1. IsFiniteSet(S) /\ \A x \in S : f[x] \in Int
    BY <1>1, <1>2
  <2> QED
    BY <2>1, SumSteps
<1>4. {} \in SUBSET D
  OBVIOUS
<1>5. Micros({}) = 0
  BY <1>2, <1>3, <1>4
<1>6. ASSUME NEW S \in SUBSET D
      PROVE  Micros(S) \in Int /\ \A d \in S : Micros(S) = d[3].micros + Micros(S \ {d})
  <2>1. Micros(S) \in Int
    BY <1>2, <1>3
  <2>2. ASSUME NEW d \in S PROVE Micros(S) = d[3].micros + Micros(S \ {d})
    <3>1. S \ {d} \in SUBSET D /\ f[d] = d[3].micros
      BY <1>1
    <3>2. SumFunctionOnSet(f, S) = f[d] + SumFunctionOnSet(f, S \ {d})
      BY <1>3
    <3> QED
      BY <1>2, <3>1, <3>2
  <2> QED
    BY <2>1, <2>2
<1> QED
  BY <1>1, <1>5, <1>6

(* The durations of two sets of rows, together. *)
LEMMA MicrosTogether ==
  ASSUME NEW D, NEW k, RowsDue(D, k), NEW A \in SUBSET D, NEW B \in SUBSET D, A \cap B = {}
  PROVE  Micros(A \cup B) = Micros(A) + Micros(B)
<1> DEFINE C == {S \in SUBSET B : Micros(A \cup S) = Micros(A) + Micros(S)}
<1>1. IsFiniteSet(B)
  BY MicrosOn
<1>2. Micros({}) = 0 /\ Micros(A) \in Int
  BY MicrosSteps
<1>3. {} \in C
  <2>1. A \cup {} = A /\ {} \in SUBSET B
    OBVIOUS
  <2> QED
    BY <1>2, <2>1
<1>4. ASSUME NEW S \in SUBSET B, S # {}, \A x \in S : S \ {x} \in C
      PROVE  S \in C
  <2>1. PICK x \in S : TRUE
    BY <1>4
  <2> DEFINE a == Micros(A)
             s == Micros(S)
             r == Micros(S \ {x})
             all == Micros(A \cup S)
             rest == Micros(A \cup (S \ {x}))
             m == x[3].micros
  <2>2. A \cup S \in SUBSET D /\ S \in SUBSET D /\ S \ {x} \in SUBSET D /\ A \cup (S \ {x}) \in SUBSET D
    OBVIOUS
  <2>3. (A \cup S) \ {x} = A \cup (S \ {x})
    BY <2>1
  <2>4. s = m + r /\ all = m + rest /\ m \in Int
    BY <2>1, <2>2, <2>3, MicrosSteps
  <2>5. s \in Int /\ r \in Int /\ rest \in Int /\ a \in Int
    BY <2>2, MicrosSteps
  <2>6. rest = a + r
    BY <1>4, <2>1
  <2> HIDE DEF a, s, r, all, rest, m
  <2>7. all = a + s
    BY <2>4, <2>5, <2>6
  <2> QED
    BY <2>7 DEF all, a, s
<1>5. SUBSET B \subseteq C
  <2> HIDE DEF C
  <2> QED
    BY <1>1, <1>3, <1>4, SubsetsByRemoval
<1>6. B \in SUBSET B
  OBVIOUS
<1> QED
  BY <1>5, <1>6

-------------------------------------------------------------------------------
(* The groups are those of the rows D. *)
OfKey(D, k, key) == {d \in D : KeyOf(k, d[3]) = key}
StatFor(D, k, key) == [total |-> Micros(OfKey(D, k, key)), count |-> Cardinality(OfKey(D, k, key))]

GroupsOf(groups, k, D) ==
  /\ DOMAIN groups = {KeyOf(k, d[3]) : d \in D}
  /\ \A key \in DOMAIN groups : groups[key] = StatFor(D, k, key)

(* The group of a key, which has no rows when the key is not there. *)
LEMMA StatIs ==
  ASSUME NEW D, NEW k, RowsDue(D, k), NEW groups, GroupsOf(groups, k, D), NEW key
  PROVE  StatOf(groups, key) = StatFor(D, k, key)
<1>1. CASE key \in DOMAIN groups
  BY <1>1 DEF StatOf, GroupsOf
<1>2. CASE key \notin DOMAIN groups
  <2>1. OfKey(D, k, key) = {}
    BY <1>2 DEF GroupsOf, OfKey
  <2>2. Micros({}) = 0 /\ Cardinality({}) = 0
    BY MicrosSteps, FS_EmptySet
  <2> QED
    BY <1>2, <2>1, <2>2 DEF StatOf, StatFor, ZeroStat
<1> QED
  BY <1>1, <1>2

(* No rows, no groups. *)
LEMMA NoGroupsYet ==
  ASSUME NEW k
  PROVE  GroupsOf(NoGroups, k, {})
  BY DEF GroupsOf, NoGroups

(* A row more ... *)
LEMMA RowAdded ==
  ASSUME NEW D, NEW k, NEW d, d \notin D, RowsDue(D \cup {d}, k), NEW groups, GroupsOf(groups, k, D)
  PROVE  GroupsOf(AddRow(k, groups, d[3]), k, D \cup {d})
<1> DEFINE U == D \cup {d}
           key == KeyOf(k, d[3])
           new == AddRow(k, groups, d[3])
<1>1. RowsDue(D, k)
  <2>1. D \in SUBSET U
    OBVIOUS
  <2> QED
    BY <2>1, FS_Subset DEF RowsDue
<1>2. OfKey(U, k, key) = OfKey(D, k, key) \cup {d} /\ d \notin OfKey(D, k, key)
  BY DEF OfKey
<1>3. \A g : g # key => OfKey(U, k, g) = OfKey(D, k, g)
  BY DEF OfKey
<1> DEFINE S == OfKey(D, k, key)
           V == OfKey(U, k, key)
<1>4. V \in SUBSET U /\ S \in SUBSET U /\ d \in V /\ V \ {d} = S
  BY <1>2 DEF OfKey
<1>5. Micros(V) = d[3].micros + Micros(S) /\ Micros(S) \in Int /\ d[3].micros \in Int
  <2> HIDE DEF S, V, U
  <2>1. d \in U
    BY DEF U
  <2> QED
    BY <1>4, <2>1, MicrosSteps DEF U
<1>6. Cardinality(V) = Cardinality(S) + 1
  <2>1. IsFiniteSet(S)
    BY <1>4, MicrosOn
  <2> QED
    BY <1>2, <2>1, FS_AddElement
<1>7. StatOf(groups, key) = [total |-> Micros(S), count |-> Cardinality(S)]
  BY <1>1, StatIs DEF StatFor
<1>8. DOMAIN new = DOMAIN groups \cup {key}
  BY DEF AddRow
<1>9. new[key] = StatFor(U, k, key)
  <2>1. new[key] = [total |-> StatOf(groups, key).total + d[3].micros, count |-> StatOf(groups, key).count + 1]
    BY DEF AddRow
  <2> HIDE DEF new, S, V, key
  <2>2. new[key] = [total |-> Micros(S) + d[3].micros, count |-> Cardinality(S) + 1]
    BY <1>7, <2>1
  <2>3. Micros(S) + d[3].micros = Micros(V)
    BY <1>5
  <2>4. StatFor(U, k, key) = [total |-> Micros(V), count |-> Cardinality(V)]
    BY DEF StatFor, V
  <2> QED
    BY <1>6, <2>2, <2>3, <2>4
<1>10. ASSUME NEW g \in DOMAIN groups, g # key
       PROVE  new[g] = StatFor(U, k, g)
  <2>1. new[g] = groups[g]
    BY <1>10 DEF AddRow
  <2>2. groups[g] = StatFor(D, k, g)
    BY DEF GroupsOf
  <2> QED
    BY <1>3, <1>10, <2>1, <2>2 DEF StatFor
<1>11. DOMAIN new = {KeyOf(k, x[3]) : x \in U}
  BY <1>8 DEF GroupsOf
<1> HIDE DEF new, key
<1>12. \A g \in DOMAIN new : new[g] = StatFor(U, k, g)
  BY <1>8, <1>9, <1>10
<1> QED
  BY <1>11, <1>12 DEF GroupsOf, new

(* ... and two sets of rows together. *)
LEMMA GroupsMerged ==
  ASSUME NEW A, NEW B, NEW k, A \cap B = {}, RowsDue(A, k), RowsDue(B, k),
         NEW a, GroupsOf(a, k, A), NEW b, GroupsOf(b, k, B)
  PROVE  GroupsOf(MergeGroups(a, b), k, A \cup B)
<1> DEFINE U == A \cup B
           m == MergeGroups(a, b)
<1>1. RowsDue(U, k)
  BY FS_Union DEF RowsDue
<1>2. DOMAIN m = DOMAIN a \cup DOMAIN b
  BY DEF MergeGroups
<1>3. DOMAIN m = {KeyOf(k, d[3]) : d \in U}
  BY <1>2 DEF GroupsOf
<1>4. ASSUME NEW g \in DOMAIN m PROVE m[g] = StatFor(U, k, g)
  <2> DEFINE S == OfKey(A, k, g)
             T == OfKey(B, k, g)
             V == OfKey(U, k, g)
  <2>1. V = S \cup T /\ S \cap T = {} /\ S \in SUBSET U /\ T \in SUBSET U
    BY DEF OfKey
  <2>2. StatOf(a, g) = [total |-> Micros(S), count |-> Cardinality(S)]
        /\ StatOf(b, g) = [total |-> Micros(T), count |-> Cardinality(T)]
    BY StatIs DEF StatFor
  <2>3. m[g] = [total |-> StatOf(a, g).total + StatOf(b, g).total,
                count |-> StatOf(a, g).count + StatOf(b, g).count]
    BY <1>2 DEF MergeGroups
  <2>4. StatFor(U, k, g) = [total |-> Micros(V), count |-> Cardinality(V)]
    BY DEF StatFor
  <2> HIDE DEF m, S, T, V, U
  <2>5. Micros(V) = Micros(S) + Micros(T)
    BY <1>1, <2>1, MicrosTogether
  <2>6. Cardinality(V) = Cardinality(S) + Cardinality(T)
    <3>1. IsFiniteSet(S) /\ IsFiniteSet(T)
      BY <1>1, <2>1, MicrosOn
    <3>2. Cardinality(S) \in Nat /\ Cardinality(T) \in Nat
      BY <3>1, FS_CardinalityType
    <3>3. Cardinality(V) = Cardinality(S) + Cardinality(T) - Cardinality(S \cap T)
      BY <2>1, <3>1, FS_Union
    <3>4. Cardinality(S \cap T) = 0
      BY <2>1, FS_EmptySet
    <3> DEFINE x == Cardinality(S)
               y == Cardinality(T)
               z == Cardinality(S \cap T)
               v == Cardinality(V)
    <3>5. x \in Nat /\ y \in Nat /\ z = 0 /\ v = x + y - z
      BY <3>2, <3>3, <3>4
    <3> HIDE DEF x, y, z, v
    <3>6. v = x + y
      BY <3>5
    <3> QED
      BY <3>6 DEF v, x, y
  <2>7. m[g] = [total |-> Micros(S) + Micros(T), count |-> Cardinality(S) + Cardinality(T)]
    BY <2>2, <2>3
  <2> QED
    BY <2>4, <2>5, <2>6, <2>7
<1> HIDE DEF m
<1> QED
  BY <1>3, <1>4 DEF GroupsOf, m

-------------------------------------------------------------------------------
(* A sorting by the pairs R puts in order: which of two entries of a list    *)
(* comes first, the place an entry has, and the list in order.               *)
Ahead(list, R, j, i) == <<list[j], list[i]>> \in R \/ (<<list[i], list[j]>> \notin R /\ j < i)

PlaceOf(list, R, i) == 1 + Cardinality({j \in 1..Len(list) : Ahead(list, R, j, i)})

SortBy(list, R) == [m \in 1..Len(list) |-> list[CHOOSE i \in 1..Len(list) : PlaceOf(list, R, i) = m]]

(* R orders E but for ties: what is before one of two values that tie is     *)
(* before the other.                                                         *)
Orders(R, E) ==
  /\ \A a \in E : <<a, a>> \notin R
  /\ \A a, b, c \in E : <<a, b>> \in R /\ <<b, c>> \in R => <<a, c>> \in R
  /\ \A a, b, c \in E : <<a, c>> \in R => <<a, b>> \in R \/ <<b, c>> \in R

(* The entries of a list stand in one line, ... *)
LEMMA AheadIsOrder ==
  ASSUME NEW E, NEW R, Orders(R, E), NEW L \in Seq(E)
  PROVE  /\ \A i \in 1..Len(L) : ~Ahead(L, R, i, i)
         /\ \A i, j \in 1..Len(L) : i # j => Ahead(L, R, i, j) \/ Ahead(L, R, j, i)
         /\ \A i, j, k \in 1..Len(L) : Ahead(L, R, i, j) /\ Ahead(L, R, j, k) => Ahead(L, R, i, k)
<1>1. Len(L) \in Nat /\ \A i \in 1..Len(L) : L[i] \in E
  BY ElementOfSeq
<1>2. \A i \in 1..Len(L) : ~Ahead(L, R, i, i)
  BY <1>1 DEF Ahead, Orders
<1>3. \A i, j \in 1..Len(L) : i # j => Ahead(L, R, i, j) \/ Ahead(L, R, j, i)
  BY <1>1 DEF Ahead, Orders
<1>4. ASSUME NEW i \in 1..Len(L), NEW j \in 1..Len(L), NEW k \in 1..Len(L),
             Ahead(L, R, i, j), Ahead(L, R, j, k)
      PROVE  Ahead(L, R, i, k)
  <2>1. /\ \A a, b, c \in {L[i], L[j], L[k]} : <<a, b>> \in R /\ <<b, c>> \in R => <<a, c>> \in R
        /\ \A a, b, c \in {L[i], L[j], L[k]} : <<a, c>> \in R => <<a, b>> \in R \/ <<b, c>> \in R
    BY <1>1 DEF Orders
  <2>2. CASE <<L[i], L[j]>> \in R
    <3>1. CASE <<L[j], L[k]>> \in R
      BY <2>1, <2>2, <3>1 DEF Ahead
    <3>2. CASE <<L[j], L[k]>> \notin R
      BY <1>4, <2>1, <2>2, <3>2 DEF Ahead
    <3>3. QED
      BY <3>1, <3>2
  <2>3. CASE <<L[i], L[j]>> \notin R
    <3>1. <<L[j], L[i]>> \notin R /\ i < j
      BY <1>4, <2>3 DEF Ahead
    <3>2. CASE <<L[j], L[k]>> \in R
      BY <2>1, <3>1, <3>2 DEF Ahead
    <3>3. CASE <<L[j], L[k]>> \notin R
      <4>1. <<L[k], L[j]>> \notin R /\ j < k
        BY <1>4, <3>3 DEF Ahead
      <4>2. i < k
        BY <3>1, <4>1
      <4>3. <<L[k], L[i]>> \notin R
        BY <2>1, <3>1, <4>1
      <4>4. QED
        BY <4>2, <4>3 DEF Ahead
    <3>4. QED
      BY <3>2, <3>3
  <2>4. QED
    BY <2>2, <2>3
<1>5. QED
  BY <1>2, <1>3, <1>4

(* ... each at a place of its own, in the order of the places. *)
LEMMA PlacesInOrder ==
  ASSUME NEW E, NEW R, Orders(R, E), NEW L \in Seq(E)
  PROVE  /\ \A i \in 1..Len(L) : PlaceOf(L, R, i) \in 1..Len(L)
         /\ \A i, j \in 1..Len(L) : Ahead(L, R, i, j) <=> PlaceOf(L, R, i) < PlaceOf(L, R, j)
         /\ \A i, j \in 1..Len(L) : PlaceOf(L, R, i) = PlaceOf(L, R, j) => i = j
         /\ \A m \in 1..Len(L) : \E i \in 1..Len(L) : PlaceOf(L, R, i) = m
<1> DEFINE n == Len(L)
           D == 1..n
           Pre(i) == {j \in D : Ahead(L, R, j, i)}
<1>1. n \in Nat /\ IsFiniteSet(D) /\ Cardinality(D) = n
  <2>1. n \in Nat
    OBVIOUS
  <2>2. QED
    BY <2>1, FS_Interval
<1>2. \A i : PlaceOf(L, R, i) = 1 + Cardinality(Pre(i)) /\ Pre(i) \in SUBSET D
  BY DEF PlaceOf
<1>o. /\ \A i \in D : i \notin Pre(i)
      /\ \A i, j \in D : i # j => i \in Pre(j) \/ j \in Pre(i)
      /\ \A i, j \in D : i \in Pre(j) => Pre(i) \in SUBSET Pre(j)
      /\ \A i, j \in D : i \in Pre(j) <=> Ahead(L, R, i, j)
  BY AheadIsOrder
<1> HIDE DEF D, Pre
<1>3. \A i : IsFiniteSet(Pre(i)) /\ Cardinality(Pre(i)) \in Nat
  BY <1>1, <1>2, FS_Subset, FS_CardinalityType
<1>4. ASSUME NEW i \in D
      PROVE  PlaceOf(L, R, i) \in D
  <2>1. Cardinality(Pre(i)) <= n /\ Cardinality(Pre(i)) # n
    BY <1>1, <1>2, <1>o, FS_Subset
  <2>2. QED
    BY <1>1, <1>2, <1>3, <2>1 DEF D
<1>5. ASSUME NEW i \in D, NEW j \in D, i \in Pre(j)
      PROVE  PlaceOf(L, R, i) < PlaceOf(L, R, j)
  <2>1. /\ Cardinality(Pre(i)) <= Cardinality(Pre(j))
        /\ Cardinality(Pre(i)) # Cardinality(Pre(j))
    BY <1>3, <1>5, <1>o, FS_Subset
  <2>2. QED
    BY <1>2, <1>3, <2>1
<1>6. \A i, j \in D : i \in Pre(j) <=> PlaceOf(L, R, i) < PlaceOf(L, R, j)
  <2> TAKE i, j \in D
  <2>1. PlaceOf(L, R, i) \in Nat /\ PlaceOf(L, R, j) \in Nat
    BY <1>2, <1>3
  <2>2. i \notin Pre(j) => j \in Pre(i) \/ i = j
    BY <1>o
  <2>3. QED
    BY <1>5, <2>1, <2>2
<1>7. \A i, j \in D : PlaceOf(L, R, i) = PlaceOf(L, R, j) => i = j
  <2> TAKE i, j \in D
  <2>1. PlaceOf(L, R, i) \in Nat /\ PlaceOf(L, R, j) \in Nat
    BY <1>2, <1>3
  <2>2. QED
    BY <1>5, <1>o, <2>1
<1>8. \A m \in D : \E i \in D : PlaceOf(L, R, i) = m
  <2> DEFINE f == [i \in D |-> PlaceOf(L, R, i)]
  <2>1. f \in Injection(D, D)
    BY <1>4, <1>7 DEF Injection, IsInjective
  <2>2. f \in Surjection(D, D)
    <3> HIDE DEF f
    <3>1. QED
      BY <1>1, <2>1, FS_Injection
  <2>3. QED
    BY <2>2 DEF Surjection
<1>9. QED
  BY <1>4, <1>6, <1>7, <1>8, <1>o DEF D

(* The sorted list has every entry, at its place. *)
LEMMA SortByLook ==
  ASSUME NEW E, NEW R, Orders(R, E), NEW L \in Seq(E)
  PROVE  /\ Len(SortBy(L, R)) = Len(L) /\ SortBy(L, R) \in Seq(E)
         /\ \A i \in 1..Len(L) : SortBy(L, R)[PlaceOf(L, R, i)] = L[i]
<1> DEFINE n == Len(L)
           At(m) == CHOOSE i \in 1..n : PlaceOf(L, R, i) = m
<1>1. n \in Nat /\ \A i \in 1..n : L[i] \in E
  BY ElementOfSeq
<1>2. \A m \in 1..n : At(m) \in 1..n /\ PlaceOf(L, R, At(m)) = m
  BY PlacesInOrder
<1>3. \A i \in 1..n : At(PlaceOf(L, R, i)) = i
  BY <1>2, PlacesInOrder
<1>4. SortBy(L, R) = [m \in 1..n |-> L[At(m)]]
  BY DEF SortBy
<1> HIDE DEF At
<1>5. SortBy(L, R) \in [1..n -> E]
  BY <1>1, <1>2, <1>4
<1>6. SortBy(L, R) \in Seq(E) /\ Len(SortBy(L, R)) = n
  BY <1>1, <1>5
<1>7. \A i \in 1..n : SortBy(L, R)[PlaceOf(L, R, i)] = L[i]
  BY <1>3, <1>4, PlacesInOrder
<1>8. QED
  BY <1>6, <1>7

(* StableSort, written with R. *)
LEMMA PlacedIsSorted ==
  ASSUME NEW E, NEW R, Orders(R, E), NEW L \in Seq(E)
  PROVE  [m \in 1..Len(L) |-> (CHOOSE p \in {<<PlaceOf(L, R, i), L[i]>> : i \in 1..Len(L)} : p[1] = m)[2]]
           = SortBy(L, R)
<1> DEFINE n == Len(L)
           placed == {<<PlaceOf(L, R, i), L[i]>> : i \in 1..n}
<1>1. ASSUME NEW m \in 1..n
      PROVE  (CHOOSE p \in placed : p[1] = m)[2] = SortBy(L, R)[m]
  <2> DEFINE chosen == CHOOSE p \in placed : p[1] = m
  <2>1. PICK i \in 1..n : PlaceOf(L, R, i) = m
    BY PlacesInOrder
  <2>2. ASSUME NEW p \in placed, p[1] = m
        PROVE  p = <<m, L[i]>>
    <3>1. PICK j \in 1..n : p = <<PlaceOf(L, R, j), L[j]>>
      OBVIOUS
    <3>2. PlaceOf(L, R, j) = m
      BY <2>2, <3>1
    <3>3. j = i
      BY <2>1, <3>2, PlacesInOrder
    <3>4. QED
      BY <3>1, <3>2, <3>3
  <2>3. <<m, L[i]>> \in placed
    BY <2>1
  <2>4. chosen = <<m, L[i]>>
    BY <2>2, <2>3
  <2>5. SortBy(L, R)[m] = L[i]
    BY <2>1, SortByLook
  <2> HIDE DEF chosen
  <2>6. chosen[2] = SortBy(L, R)[m]
    BY <2>4, <2>5
  <2>7. QED
    BY <2>6 DEF chosen
<1>2. SortBy(L, R) = [m \in 1..n |-> SortBy(L, R)[m]]
  BY DEF SortBy
<1> HIDE DEF placed
<1>3. [m \in 1..n |-> (CHOOSE p \in placed : p[1] = m)[2]] = [m \in 1..n |-> SortBy(L, R)[m]]
  BY <1>1
<1>4. QED
  BY <1>2, <1>3 DEF placed

(* A sorted list is in order. *)
LEMMA SortByInOrder ==
  ASSUME NEW E, NEW R, Orders(R, E), NEW L \in Seq(E)
  PROVE  \A k, m \in 1..Len(L) : k < m => <<SortBy(L, R)[m], SortBy(L, R)[k]>> \notin R
<1> TAKE k, m \in 1..Len(L)
<1> HAVE k < m
<1>1. PICK i \in 1..Len(L) : PlaceOf(L, R, i) = k
  BY PlacesInOrder
<1>2. PICK j \in 1..Len(L) : PlaceOf(L, R, j) = m
  BY PlacesInOrder
<1>3. Ahead(L, R, i, j)
  BY <1>1, <1>2, PlacesInOrder
<1>4. SortBy(L, R)[k] = L[i] /\ SortBy(L, R)[m] = L[j]
  BY <1>1, <1>2, SortByLook
<1>5. ~Ahead(L, R, j, i)
  BY <1>1, <1>2, PlacesInOrder
<1>6. QED
  BY <1>4, <1>5 DEF Ahead

(* The first place at which two texts differ. *)
DifferAt(a, b, i) ==
  /\ i \in 1..Len(b) /\ i <= Len(a) + 1
  /\ \A j \in 1..(i - 1) : a[j] = b[j]
  /\ i <= Len(a) => a[i] < b[i]

(* A text is before another by the first place where they differ. *)
LEMMA TextBeforeAt ==
  ASSUME NEW a \in Seq(Int), NEW b \in Seq(Int)
  PROVE  TextBefore(a, b) <=> \E i : DifferAt(a, b, i)
<1>1. Len(a) \in Nat /\ Len(b) \in Nat
  BY LenProperties
<1>2. ASSUME NEW i \in 1..Len(b), i <= Len(a) + 1
      PROVE  SubSeq(a, 1, i - 1) = SubSeq(b, 1, i - 1) <=> \A j \in 1..(i - 1) : a[j] = b[j]
  <2>1. /\ 1 \in Int /\ i - 1 \in Int
        /\ \A j \in 1..(i - 1) : j \in 1..Len(a) /\ j \in 1..Len(b)
        /\ (i - 1) - 1 + 1 = i - 1
    BY <1>1, <1>2
  <2>2. \A j \in 1..(i - 1) : a[j] \in Int /\ b[j] \in Int
    BY <2>1, ElementOfSeq
  <2>3. /\ SubSeq(a, 1, i - 1) \in Seq(Int)
        /\ Len(SubSeq(a, 1, i - 1)) = IF 1 <= i - 1 THEN (i - 1) - 1 + 1 ELSE 0
        /\ \A j \in 1..((i - 1) - 1 + 1) : SubSeq(a, 1, i - 1)[j] = a[1 + j - 1]
    BY <2>1, <2>2, SubSeqProperties
  <2>4. /\ SubSeq(b, 1, i - 1) \in Seq(Int)
        /\ Len(SubSeq(b, 1, i - 1)) = IF 1 <= i - 1 THEN (i - 1) - 1 + 1 ELSE 0
        /\ \A j \in 1..((i - 1) - 1 + 1) : SubSeq(b, 1, i - 1)[j] = b[1 + j - 1]
    BY <2>1, <2>2, SubSeqProperties
  <2> DEFINE s == SubSeq(a, 1, i - 1)
             t == SubSeq(b, 1, i - 1)
  <2>5. /\ Len(s) = i - 1 /\ Len(t) = i - 1 /\ s \in Seq(Int) /\ t \in Seq(Int)
    BY <2>1, <2>3, <2>4
  <2>6. \A j \in 1..(i - 1) : s[j] = a[j] /\ t[j] = b[j]
    <3> TAKE j \in 1..(i - 1)
    <3>1. j \in 1..((i - 1) - 1 + 1) /\ 1 + j - 1 = j
      BY <2>1
    <3>2. s[j] = a[1 + j - 1]
      BY <2>3, <3>1
    <3>3. t[j] = b[1 + j - 1]
      BY <2>4, <3>1
    <3> QED
      BY <3>1, <3>2, <3>3
  <2> HIDE DEF s, t
  <2>7. s = t <=> \A j \in 1..(i - 1) : s[j] = t[j]
    BY <2>5, SeqEqual
  <2> QED
    BY <2>6, <2>7 DEF s, t
<1> QED
  BY <1>2 DEF TextBefore, DifferAt

(* Texts are in one line. *)
LEMMA TextsInLine ==
  /\ \A a \in Seq(Int) : ~TextBefore(a, a)
  /\ \A a, b, c \in Seq(Int) : TextBefore(a, b) /\ TextBefore(b, c) => TextBefore(a, c)
  /\ \A a, b \in Seq(Int) : a = b \/ TextBefore(a, b) \/ TextBefore(b, a)
<1>1. \A a \in Seq(Int) : Len(a) \in Nat /\ \A i \in 1..Len(a) : a[i] \in Int
  BY LenProperties, ElementOfSeq
<1>2. ASSUME NEW a \in Seq(Int) PROVE ~TextBefore(a, a)
  <2> SUFFICES ASSUME NEW i, DifferAt(a, a, i) PROVE FALSE
    BY TextBeforeAt
  <2>1. i \in 1..Len(a) /\ i <= Len(a) /\ a[i] < a[i]
    BY <1>1 DEF DifferAt
  <2> QED
    BY <1>1, <2>1
<1>3. ASSUME NEW a \in Seq(Int), NEW b \in Seq(Int), NEW c \in Seq(Int), TextBefore(a, b), TextBefore(b, c)
      PROVE  TextBefore(a, c)
  <2>1. PICK i : DifferAt(a, b, i)
    BY <1>3, TextBeforeAt
  <2>2. PICK j : DifferAt(b, c, j)
    BY <1>3, TextBeforeAt
  <2> DEFINE la == Len(a)
             lb == Len(b)
             lc == Len(c)
  <2>3. /\ la \in Nat /\ lb \in Nat /\ lc \in Nat
        /\ i \in 1..lb /\ i <= la + 1 /\ j \in 1..lc /\ j <= lb + 1
    BY <1>1, <2>1, <2>2 DEF DifferAt
  <2>4. /\ \A m \in 1..(i - 1) : a[m] = b[m]
        /\ \A m \in 1..(j - 1) : b[m] = c[m]
        /\ i <= la => a[i] < b[i]
        /\ j <= lb => b[j] < c[j]
    BY <2>1, <2>2 DEF DifferAt
  <2>5. CASE i < j
    <3>1. i \in 1..lc /\ i \in 1..(j - 1) /\ \A m \in 1..(i - 1) : m \in 1..(j - 1)
      BY <2>3, <2>5
    <3>2. DifferAt(a, c, i)
      BY <2>3, <2>4, <3>1 DEF DifferAt
    <3> QED
      BY <3>2, TextBeforeAt
  <2>6. CASE i = j
    <3>1. i <= la => a[i] < c[i]
      <4> SUFFICES ASSUME i <= la PROVE a[i] < c[i]
        OBVIOUS
      <4>1. i \in 1..la /\ i \in 1..lb /\ i \in 1..lc
        BY <2>3, <2>6
      <4>2. a[i] \in Int /\ b[i] \in Int /\ c[i] \in Int /\ a[i] < b[i] /\ b[i] < c[i]
        BY <1>1, <2>3, <2>4, <2>6, <4>1
      <4> QED
        BY <4>2
    <3>2. DifferAt(a, c, i)
      BY <2>3, <2>4, <2>6, <3>1 DEF DifferAt
    <3> QED
      BY <3>2, TextBeforeAt
  <2>7. CASE j < i
    <3>1. j <= la /\ j <= lb /\ j \in 1..(i - 1) /\ \A m \in 1..(j - 1) : m \in 1..(i - 1)
      BY <2>3, <2>7
    <3>2. a[j] = b[j] /\ b[j] < c[j]
      BY <2>4, <3>1
    <3>4. \A m \in 1..(j - 1) : a[m] = c[m]
      BY <2>4, <3>1
    <3>5. a[j] < c[j] /\ j \in 1..lc /\ j <= la + 1
      BY <2>3, <3>1, <3>2
    <3>3. DifferAt(a, c, j)
      BY <3>4, <3>5 DEF DifferAt
    <3> QED
      BY <3>3, TextBeforeAt
  <2>8. i < j \/ i = j \/ j < i
    BY <2>3
  <2> QED
    BY <2>5, <2>6, <2>7, <2>8
<1>4. ASSUME NEW a \in Seq(Int), NEW b \in Seq(Int), a # b
      PROVE  TextBefore(a, b) \/ TextBefore(b, a)
  <2> DEFINE la == Len(a)
             lb == Len(b)
             S == {i \in Nat : i >= 1 /\ (i > la \/ i > lb \/ a[i] # b[i])}
  <2>1. la \in Nat /\ lb \in Nat
    BY <1>1
  <2> HIDE DEF la, lb
  <2>2. S \in SUBSET Nat /\ la + 1 \in S
    BY <2>1
  <2>3. PICK i \in S : \A j \in S : i <= j
    <3> HIDE DEF S
    <3> QED
      BY <2>2, LeastExists
  <2>4. i \in Nat /\ i >= 1 /\ (i > la \/ i > lb \/ a[i] # b[i])
    BY <2>3
  <2>5. \A j \in 1..(i - 1) : j <= la /\ j <= lb /\ a[j] = b[j]
    <3> TAKE j \in 1..(i - 1)
    <3>1. j \notin S /\ j \in Nat /\ j >= 1
      BY <2>3, <2>4
    <3> QED
      BY <2>1, <3>1
  <2>6. i <= la + 1 /\ i <= lb + 1
    <3>1. CASE i = 1
      BY <2>1, <3>1
    <3>2. CASE i # 1
      <4>1. i - 1 \in 1..(i - 1)
        BY <2>4, <3>2
      <4>2. i - 1 <= la /\ i - 1 <= lb
        BY <2>5, <4>1
      <4> QED
        BY <2>1, <2>4, <4>2
    <3> QED
      BY <3>1, <3>2
  <2>7. CASE i <= la /\ i <= lb
    <3>1. i \in 1..la /\ i \in 1..lb /\ a[i] # b[i]
      BY <2>1, <2>4, <2>7
    <3>2. a[i] < b[i] \/ b[i] < a[i]
      BY <1>1, <3>1 DEF la, lb
    <3>3. DifferAt(a, b, i) \/ DifferAt(b, a, i)
      BY <2>5, <2>6, <3>1, <3>2 DEF DifferAt, la, lb
    <3> QED
      BY <3>3, TextBeforeAt
  <2>8. CASE i > la /\ i <= lb
    <3>1. i \in 1..lb /\ ~(i <= la)
      BY <2>1, <2>4, <2>8
    <3>2. DifferAt(a, b, i)
      BY <2>5, <2>6, <3>1 DEF DifferAt, la, lb
    <3> QED
      BY <3>2, TextBeforeAt
  <2>9. CASE i > lb /\ i <= la
    <3>1. i \in 1..la /\ ~(i <= lb)
      BY <2>1, <2>4, <2>9
    <3>2. DifferAt(b, a, i)
      BY <2>5, <2>6, <3>1 DEF DifferAt, la, lb
    <3> QED
      BY <3>2, TextBeforeAt
  <2>10. CASE i > la /\ i > lb
    <3>1. la = i - 1 /\ lb = i - 1
      BY <2>1, <2>4, <2>6, <2>10
    <3>2. Len(a) = Len(b) /\ \A j \in 1..Len(a) : a[j] = b[j]
      BY <2>5, <3>1 DEF la, lb
    <3>3. a = b
      BY <3>2, SeqEqual
    <3> QED
      BY <1>4, <3>3
  <2>11. (i <= la \/ i > la) /\ (i <= lb \/ i > lb)
    BY <2>1, <2>4
  <2> QED
    BY <2>7, <2>8, <2>9, <2>10, <2>11
<1> QED
  BY <1>2, <1>3, <1>4

-------------------------------------------------------------------------------
(* RowBefore orders the rows of a report. *)
RowOrder(k) == {p \in RowSet(k) \X RowSet(k) : RowBefore(p[1], p[2])}

(* The order of rows as a relation, to sort by it ... *)
LEMMA RowOrderIs ==
  ASSUME NEW k
  PROVE  \A a, b \in RowSet(k) : <<a, b>> \in RowOrder(k) <=> RowBefore(a, b)
  BY DEF RowOrder

(* ... which is a strict weak order. *)
LEMMA RowsInLine ==
  ASSUME NEW k
  PROVE  Orders(RowOrder(k), RowSet(k))
<1> DEFINE S == RowSet(k)
<1>1. \A a \in S : a.micros \in Int /\ a.at \in Int /\ a.file \in Int /\ a.text \in Seq(Int)
  BY DEF RowSet
<1> HIDE DEF S
<1>2. ASSUME NEW a \in S PROVE ~RowBefore(a, a)
  <2>1. ~TextBefore(a.text, a.text)
    BY <1>1, TextsInLine
  <2> QED
    BY <1>1, <2>1 DEF RowBefore
<1>3. ASSUME NEW a \in S, NEW b \in S, NEW c \in S
      PROVE  /\ TextBefore(a.text, b.text) /\ TextBefore(b.text, c.text) => TextBefore(a.text, c.text)
             /\ a.text = b.text \/ TextBefore(a.text, b.text) \/ TextBefore(b.text, a.text)
             /\ b.text = c.text \/ TextBefore(b.text, c.text) \/ TextBefore(c.text, b.text)
             /\ TextBefore(b.text, a.text) /\ TextBefore(a.text, c.text) => TextBefore(b.text, c.text)
  BY <1>1, TextsInLine
<1>4. ASSUME NEW a \in S, NEW b \in S, NEW c \in S, RowBefore(a, b), RowBefore(b, c)
      PROVE  RowBefore(a, c)
  BY <1>1, <1>3, <1>4 DEF RowBefore
<1>5. ASSUME NEW a \in S, NEW b \in S, NEW c \in S, RowBefore(a, c)
      PROVE  RowBefore(a, b) \/ RowBefore(b, c)
  BY <1>1, <1>3, <1>5 DEF RowBefore
<1> QED
  BY <1>2, <1>4, <1>5, RowOrderIs DEF Orders, S

(* Sorting rows is sorting by their pairs. *)
LEMMA RowSort ==
  ASSUME NEW k, NEW L \in Seq(RowSet(k))
  PROVE  StableSort(L, RowBefore) = SortBy(L, RowOrder(k))
<1> DEFINE n == Len(L)
           R == RowOrder(k)
           Place(i) == 1 + Cardinality({j \in 1..n :
                         RowBefore(L[j], L[i]) \/ (~RowBefore(L[i], L[j]) /\ j < i)})
           placed == {<<Place(i), L[i]>> : i \in 1..n}
<1>0. \A i, j \in 1..n : RowBefore(L[i], L[j]) <=> <<L[i], L[j]>> \in R
  BY ElementOfSeq, RowOrderIs
<1> DEFINE S == RowSet(k)
<1>a. Orders(R, S) /\ L \in Seq(S)
  BY RowsInLine
<1> HIDE DEF R, S
<1>1. ASSUME NEW i \in 1..n
      PROVE  Place(i) = PlaceOf(L, R, i)
  <2>1. \A j \in 1..n : Ahead(L, R, j, i) <=> RowBefore(L[j], L[i]) \/ (~RowBefore(L[i], L[j]) /\ j < i)
    BY <1>0 DEF Ahead
  <2> QED
    BY <2>1, Zenon DEF PlaceOf
<1>2. StableSort(L, RowBefore) = [m \in 1..n |-> (CHOOSE p \in placed : p[1] = m)[2]]
  BY DEF StableSort
<1> HIDE DEF Place
<1>3. placed = {<<PlaceOf(L, R, i), L[i]>> : i \in 1..n}
  BY <1>1
<1> HIDE DEF placed
<1>4. [m \in 1..Len(L) |-> (CHOOSE p \in {<<PlaceOf(L, R, i), L[i]>> : i \in 1..Len(L)} : p[1] = m)[2]]
        = SortBy(L, R)
  BY <1>a, PlacedIsSorted, Zenon
<1>5. StableSort(L, RowBefore) = SortBy(L, R)
  BY <1>2, <1>3, <1>4
<1> QED
  BY <1>5 DEF R

(* The first entries of a sorted list; to tells which they were. *)
Firsts(L, R, N) == IF N > 0 THEN Cut(SortBy(L, R), N) ELSE SortBy(L, R)

FirstOf(to, s, L, R) ==
  /\ \A i \in 1..Len(s) : to[i] \in 1..Len(L) /\ s[i] = L[to[i]]
  /\ \A i, j \in 1..Len(s) : to[i] = to[j] => i = j
  /\ \A i \in 1..Len(s), j \in 1..Len(L) : <<L[j], s[i]>> \in R => \E p \in 1..(i - 1) : to[p] = j

(* The first N of a sorted sequence are in order, and each element left out  *)
(* comes after none of those kept that it would be before.                   *)
LEMMA SortedCut ==
  ASSUME NEW E, NEW R, Orders(R, E), NEW L \in Seq(E), NEW N \in Nat
  PROVE  /\ Firsts(L, R, N) \in Seq(E)
         /\ Len(Firsts(L, R, N)) = IF N = 0 \/ N > Len(L) THEN Len(L) ELSE N
         /\ \E to : FirstOf(to, Firsts(L, R, N), L, R)
<1> DEFINE s == Firsts(L, R, N)
           n == Len(L)
           all == SortBy(L, R)
           to == [q \in 1..n |-> CHOOSE i \in 1..n : PlaceOf(L, R, i) = q]
<1>1. n \in Nat /\ \A i \in 1..n : L[i] \in E
  BY ElementOfSeq, LenProperties
<1>2. /\ Len(all) = n /\ all \in Seq(E)
      /\ \A i \in 1..n : all[PlaceOf(L, R, i)] = L[i]
  BY SortByLook
<1>3. /\ \A i \in 1..n : PlaceOf(L, R, i) \in 1..n
      /\ \A i, j \in 1..n : Ahead(L, R, i, j) <=> PlaceOf(L, R, i) < PlaceOf(L, R, j)
      /\ \A q \in 1..n : \E i \in 1..n : PlaceOf(L, R, i) = q
  BY PlacesInOrder
<1>4. \A i, j \in 1..n : PlaceOf(L, R, i) = PlaceOf(L, R, j) => i = j
  BY PlacesInOrder
<1>5. \A q \in 1..n : to[q] \in 1..n /\ PlaceOf(L, R, to[q]) = q /\ all[q] = L[to[q]]
  <2> TAKE q \in 1..n
  <2>1. to[q] = CHOOSE i \in 1..n : PlaceOf(L, R, i) = q
    OBVIOUS
  <2>2. to[q] \in 1..n /\ PlaceOf(L, R, to[q]) = q
    <3> HIDE DEF to
    <3> QED
      BY <1>3, <2>1
  <2> HIDE DEF to, all
  <2> QED
    BY <1>2, <2>2
<1>6. s = IF N > 0 THEN Cut(all, N) ELSE all
  BY DEF Firsts
<1> HIDE DEF to, all, s
<1>7. /\ s \in Seq(E) /\ Len(s) = IF N = 0 \/ N > n THEN n ELSE N
      /\ \A q \in 1..Len(s) : s[q] = all[q]
  <2>1. CASE N = 0 \/ N >= n
    <3>1. s = all
      BY <1>1, <1>2, <1>6, <2>1 DEF Cut
    <3>2. N = 0 \/ N > n \/ N = n
      BY <1>1, <2>1
    <3> QED
      BY <1>2, <3>1, <3>2
  <2>2. CASE ~(N = 0 \/ N >= n)
    <3>1. s = SubSeq(all, 1, N)
      BY <1>1, <1>2, <1>6, <2>2 DEF Cut
    <3>2. 1 \in Int /\ N \in Int /\ 1 <= N /\ N - 1 + 1 = N /\ ~(N > n) /\ N # 0
      BY <1>1, <2>2
    <3>3. \A i \in 1..N : i \in 1..n /\ 1 + i - 1 = i
      BY <1>1, <2>2
    <3>4. \A i \in 1..N : all[i] \in E
      BY <1>2, <3>3, ElementOfSeq
    <3>5. /\ SubSeq(all, 1, N) \in Seq(E)
          /\ Len(SubSeq(all, 1, N)) = N - 1 + 1
          /\ \A i \in 1..(N - 1 + 1) : SubSeq(all, 1, N)[i] = all[1 + i - 1]
      BY <3>2, <3>4, SubSeqProperties
    <3>6. s \in Seq(E) /\ Len(s) = N /\ \A i \in 1..N : s[i] = all[i]
      BY <3>1, <3>2, <3>3, <3>5
    <3> QED
      BY <3>2, <3>6
  <2> QED
    BY <2>1, <2>2
<1>8. \A q \in 1..Len(s) : q \in 1..n /\ q \in Nat
  <2>1. Len(s) \in Nat /\ Len(s) <= n
    BY <1>1, <1>7
  <2> QED
    BY <1>1, <2>1
<1>9. FirstOf(to, s, L, R)
  <2>1. \A i \in 1..Len(s) : to[i] \in 1..n /\ s[i] = L[to[i]]
    BY <1>5, <1>7, <1>8
  <2>2. \A i, j \in 1..Len(s) : to[i] = to[j] => i = j
    <3> TAKE i, j \in 1..Len(s)
    <3>1. PlaceOf(L, R, to[i]) = i /\ PlaceOf(L, R, to[j]) = j
      BY <1>5, <1>8
    <3> QED
      BY <3>1
  <2>3. ASSUME NEW i \in 1..Len(s), NEW j \in 1..n, <<L[j], s[i]>> \in R
        PROVE  \E p \in 1..(i - 1) : to[p] = j
    <3> DEFINE p == PlaceOf(L, R, j)
    <3>1. to[i] \in 1..n /\ s[i] = L[to[i]] /\ PlaceOf(L, R, to[i]) = i
      BY <1>5, <1>8, <2>1
    <3>2. Ahead(L, R, j, to[i])
      BY <2>3, <3>1 DEF Ahead
    <3>3. p \in 1..n /\ p < i
      BY <1>3, <3>1, <3>2
    <3>4. p \in 1..(i - 1)
      BY <1>8, <3>3
    <3>5. to[p] = j
      BY <1>4, <1>5, <3>3
    <3> QED
      BY <3>4, <3>5
  <2> QED
    BY <2>1, <2>2, <2>3 DEF FirstOf
<1> QED
  BY <1>7, <1>9 DEF s

(* The rows that Best keeps are the first ones. *)
KeptFrom(to, s, L) ==
  /\ \A i \in 1..Len(s) : to[i] \in 1..Len(L) /\ s[i] = L[to[i]]
  /\ \A i, j \in 1..Len(s) : to[i] = to[j] => i = j
  /\ \A i \in 1..Len(s), j \in 1..Len(L) : RowBefore(L[j], s[i]) => \E p \in 1..(i - 1) : to[p] = j

(* So are the rows that Best keeps. *)
LEMMA BestIs ==
  ASSUME NEW k, NEW L \in Seq(RowSet(k))
  PROVE  /\ Best(L) \in Seq(RowSet(k))
         /\ Len(Best(L)) = IF TopN = 0 \/ TopN > Len(L) THEN Len(L) ELSE TopN
         /\ \E to : KeptFrom(to, Best(L), L)
<1> DEFINE R == RowOrder(k)
           S == RowSet(k)
           s == Best(L)
<1>1. Orders(R, S) /\ L \in Seq(S) /\ TopN \in Nat
  BY RowsInLine, PoolAssumption
<1>2. \A a, b \in S : <<a, b>> \in R <=> RowBefore(a, b)
  BY RowOrderIs
<1>3. s = Firsts(L, R, TopN)
  BY RowSort DEF Best, Firsts
<1> HIDE DEF R, S, s
<1>4. /\ s \in Seq(S)
      /\ Len(s) = IF TopN = 0 \/ TopN > Len(L) THEN Len(L) ELSE TopN
      /\ \E to : FirstOf(to, s, L, R)
  BY <1>1, <1>3, SortedCut
<1>5. PICK to : FirstOf(to, s, L, R)
  BY <1>4
<1>6. KeptFrom(to, s, L)
  <2>1. (\A i \in 1..Len(s) : s[i] \in S) /\ \A j \in 1..Len(L) : L[j] \in S
    BY <1>1, <1>4, ElementOfSeq
  <2> QED
    BY <1>2, <1>5, <2>1 DEF FirstOf, KeptFrom
<1> QED
  BY <1>4, <1>6 DEF s, S

-------------------------------------------------------------------------------
(* The numbers from 1 to n. *)
LEMMA OneTo == \A n \in Nat : IsFiniteSet(1..n) /\ Cardinality(1..n) = n
<1> TAKE n \in Nat
<1>1. 1 \in Int /\ n \in Int
  OBVIOUS
<1>2. IsFiniteSet(1..n) /\ Cardinality(1..n) = IF 1 > n THEN 0 ELSE n - 1 + 1
  BY <1>1, FS_Interval
<1> DEFINE c == Cardinality(1..n)
<1> HIDE DEF c
<1>3. c = IF 1 > n THEN 0 ELSE n - 1 + 1
  BY <1>2 DEF c
<1>4. c = n
  BY <1>3
<1> QED
  BY <1>2, <1>4 DEF c

(* The rows kept of the set D: as many as TopN allows, each once, and what   *)
(* comes before one of them is kept before it; pick tells which they are.    *)
Limit(n) == IF TopN = 0 \/ TopN > n THEN n ELSE TopN

Picks(pick, kept, k, D) ==
  /\ kept \in Seq(RowSet(k))
  /\ Len(kept) = Limit(Cardinality(D))
  /\ \A i \in 1..Len(kept) : pick[i] \in D /\ kept[i] = pick[i][3]
  /\ \A i, j \in 1..Len(kept) : pick[i] = pick[j] => i = j
  /\ \A i \in 1..Len(kept), d \in D : RowBefore(d[3], kept[i]) => \E p \in 1..(i - 1) : pick[p] = d

Top(kept, k, D) == \E pick : Picks(pick, kept, k, D)

(* How many rows are kept of n. *)
LEMMA LimitIs ==
  ASSUME NEW n \in Nat
  PROVE  Limit(n) \in Nat /\ Limit(n) <= n /\ (TopN > 0 => Limit(n) <= TopN) /\ TopN \in Nat
  BY PoolAssumption DEF Limit

(* Of no rows none are kept. *)
LEMMA TopNone ==
  ASSUME NEW k
  PROVE  Top(<<>>, k, {})
<1>1. Len(<<>>) = 0 /\ Cardinality({}) = 0 /\ 1..0 = {} /\ <<>> \in Seq(RowSet(k))
  BY FS_EmptySet
<1>2. Limit(0) = 0
  BY LimitIs
<1>3. Picks(<<>>, <<>>, k, {})
  BY <1>1, <1>2 DEF Picks
<1> QED
  BY <1>3 DEF Top

(* A row is left out only where the list is full of rows that it is not     *)
(* before.                                                                  *)
LEMMA LeftOut ==
  ASSUME NEW k, NEW D, IsFiniteSet(D), NEW kept, NEW pick, Picks(pick, kept, k, D),
         NEW d \in D, \A i \in 1..Len(kept) : pick[i] # d
  PROVE  TopN > 0 /\ Len(kept) = TopN /\ \A i \in 1..Len(kept) : ~RowBefore(d[3], kept[i])
<1> DEFINE n == Len(kept)
           c == Cardinality(D)
           f == [i \in 1..n |-> pick[i]]
<1>1. n \in Nat /\ c \in Nat /\ n = Limit(c)
  BY FS_CardinalityType, LenProperties DEF Picks
<1>2. f \in Injection(1..n, D)
  BY DEF Picks, Injection, IsInjective
<1>3. f \notin Surjection(1..n, D)
  <2>1. \A i \in 1..n : f[i] # d
    OBVIOUS
  <2> HIDE DEF f
  <2> QED
    BY <2>1 DEF Surjection
<1>4. Cardinality(1..n) # c
  <2> HIDE DEF f
  <2> QED
    BY <1>2, <1>3, FS_Injection
<1>5. Cardinality(1..n) = n
  <2> HIDE DEF n
  <2> QED
    BY <1>1, OneTo
<1>6. n # c
  BY <1>4, <1>5
<1>7. TopN > 0 /\ n = TopN
  <2> HIDE DEF n, c
  <2> QED
    BY <1>1, <1>6, PoolAssumption DEF Limit
<1>8. ASSUME NEW i \in 1..n, RowBefore(d[3], kept[i]) PROVE FALSE
  <2>1. PICK p \in 1..(i - 1) : pick[p] = d
    BY <1>8 DEF Picks
  <2>2. p \in 1..n
    BY <1>1
  <2> QED
    BY <2>1, <2>2
<1> QED
  BY <1>7, <1>8

(* What Best keeps of a list of rows of D, where the list is full for the   *)
(* rows of D that it has not.                                               *)
LEMMA BestOf ==
  ASSUME NEW k, NEW D, RowsDue(D, k), NEW a \in Seq(RowSet(k)), NEW src,
         \A i \in 1..Len(a) : src[i] \in D /\ a[i] = src[i][3],
         \A i, j \in 1..Len(a) : src[i] = src[j] => i = j,
         \A d \in D : \/ \E i \in 1..Len(a) : src[i] = d
                      \/ /\ TopN > 0
                         /\ \E J \in SUBSET (1..Len(a)) :
                              Cardinality(J) = TopN /\ \A j \in J : ~RowBefore(d[3], a[j])
  PROVE  Top(Best(a), k, D)
<1> DEFINE n == Len(a)
           s == Best(a)
           m == Len(s)
           c == Cardinality(D)
<1>1. n \in Nat /\ c \in Nat /\ TopN \in Nat /\ IsFiniteSet(1..n) /\ Cardinality(1..n) = n
  <2>1. n \in Nat
    BY LenProperties
  <2>2. IsFiniteSet(1..n) /\ Cardinality(1..n) = n
    <3> HIDE DEF n
    <3> QED
      BY <2>1, OneTo
  <2> QED
    BY <2>1, <2>2, FS_CardinalityType, PoolAssumption DEF RowsDue
<1>2. PICK to : KeptFrom(to, s, a)
  BY BestIs
<1>3. s \in Seq(RowSet(k)) /\ m = Limit(n) /\ m \in Nat
  BY BestIs, LenProperties DEF Limit
<1> HIDE DEF n, s, m, c
<1>4. /\ \A i \in 1..m : to[i] \in 1..n /\ s[i] = a[to[i]]
      /\ \A i, j \in 1..m : to[i] = to[j] => i = j
      /\ \A i \in 1..m, j \in 1..n : RowBefore(a[j], s[i]) => \E p \in 1..(i - 1) : to[p] = j
  BY <1>2 DEF KeptFrom, n, m
<1>5. /\ \A i \in 1..n : src[i] \in D /\ a[i] = src[i][3] /\ a[i] \in RowSet(k)
      /\ \A i, j \in 1..n : src[i] = src[j] => i = j
  BY ElementOfSeq DEF n
<1>6. \A d \in D : \/ \E i \in 1..n : src[i] = d
                   \/ /\ TopN > 0
                      /\ \E J \in SUBSET (1..n) :
                           Cardinality(J) = TopN /\ \A j \in J : ~RowBefore(d[3], a[j])
  BY DEF n
<1> DEFINE f == [i \in 1..n |-> src[i]]
<1>7. f \in Injection(1..n, D) /\ \A i \in 1..n : f[i] = src[i]
  BY <1>5 DEF Injection, IsInjective
<1> HIDE DEF f
<1>8. n <= c /\ (n = c <=> f \in Surjection(1..n, D))
  BY <1>1, <1>7, FS_Injection DEF RowsDue, c
<1>9. n = c \/ (TopN > 0 /\ TopN <= n)
  <2>1. CASE \A d \in D : \E i \in 1..n : src[i] = d
    <3>1. f \in [1..n -> D]
      BY <1>7 DEF Injection
    <3>2. f \in Surjection(1..n, D)
      BY <1>7, <2>1, <3>1 DEF Surjection
    <3> QED
      BY <1>8, <3>2
  <2>2. CASE ~\A d \in D : \E i \in 1..n : src[i] = d
    <3>1. PICK J \in SUBSET (1..n) : Cardinality(J) = TopN /\ TopN > 0
      BY <1>6, <2>2
    <3>2. Cardinality(J) <= Cardinality(1..n)
      BY <1>1, FS_Subset
    <3> QED
      BY <1>1, <3>1, <3>2
  <2> QED
    BY <2>1, <2>2
<1>10. m = Limit(c)
  BY <1>1, <1>3, <1>8, <1>9 DEF Limit
<1> DEFINE pick == [i \in 1..m |-> src[to[i]]]
<1>11. \A i \in 1..m : pick[i] = src[to[i]] /\ pick[i] \in D /\ s[i] = pick[i][3] /\ s[i] \in RowSet(k)
  BY <1>4, <1>5
<1>12. \A i, j \in 1..m : pick[i] = pick[j] => i = j
  BY <1>4, <1>5
<1> HIDE DEF pick
<1>13. ASSUME NEW i \in 1..m, NEW d \in D, RowBefore(d[3], s[i])
       PROVE  \E p \in 1..(i - 1) : pick[p] = d
  <2>1. \A p \in 1..(i - 1) : p \in 1..m
    BY <1>3
  <2>2. CASE \E j \in 1..n : src[j] = d
    <3>1. PICK j \in 1..n : src[j] = d
      BY <2>2
    <3>2. RowBefore(a[j], s[i])
      BY <1>5, <1>13, <3>1
    <3>3. PICK p \in 1..(i - 1) : to[p] = j
      BY <1>4, <3>2
    <3>4. pick[p] = d
      BY <1>11, <2>1, <3>1, <3>3
    <3> QED
      BY <3>4
  <2>3. CASE ~\E j \in 1..n : src[j] = d
    <3>1. TopN > 0
      BY <1>6, <2>3
    <3>2. PICK J \in SUBSET (1..n) : Cardinality(J) = TopN /\ \A j \in J : ~RowBefore(d[3], a[j])
      BY <1>6, <2>3
    <3>3. ASSUME NEW j \in J PROVE \E p \in 1..(i - 1) : to[p] = j
      <4>1. j \in 1..n /\ ~RowBefore(d[3], a[j])
        BY <3>2
      <4>2. d[3] \in RowSet(k) /\ a[j] \in RowSet(k) /\ s[i] \in RowSet(k)
        BY <1>5, <1>11, <4>1 DEF RowsDue
      <4>3. RowBefore(a[j], s[i])
        <5> DEFINE x == d[3]
                   y == a[j]
                   z == s[i]
                   R == RowOrder(k)
                   S == RowSet(k)
        <5>1. x \in S /\ y \in S /\ z \in S /\ <<x, z>> \in R /\ <<x, y>> \notin R
          BY <1>13, <4>1, <4>2, RowOrderIs
        <5>2. Orders(R, S)
          BY RowsInLine
        <5> HIDE DEF x, y, z, R, S
        <5>3. <<y, z>> \in R
          BY <5>1, <5>2 DEF Orders
        <5> QED
          BY <4>2, <5>3, RowOrderIs DEF y, z, R
      <4> QED
        BY <1>4, <4>1, <4>3
    <3> DEFINE g == [j \in J |-> CHOOSE p \in 1..(i - 1) : to[p] = j]
    <3>4. \A j \in J : g[j] \in 1..(i - 1) /\ to[g[j]] = j
      BY <3>3
    <3>5. g \in Injection(J, 1..(i - 1))
      <4>1. g \in [J -> 1..(i - 1)]
        BY <3>4
      <4> HIDE DEF g
      <4> QED
        BY <3>4, <4>1 DEF Injection, IsInjective
    <3> HIDE DEF g
    <3>6. i - 1 \in Nat /\ IsFiniteSet(1..(i - 1)) /\ Cardinality(1..(i - 1)) = i - 1
      <4>1. i - 1 \in Nat
        BY <1>3
      <4> DEFINE q == i - 1
      <4> HIDE DEF q
      <4>2. IsFiniteSet(1..q) /\ Cardinality(1..q) = q
        BY <4>1, FS_Interval DEF q
      <4> QED
        BY <4>1, <4>2 DEF q
    <3>7. Cardinality(J) <= Cardinality(1..(i - 1))
      BY <3>5, <3>6, FS_Injection
    <3>8. m <= TopN
      BY <1>1, <1>3, <3>1, LimitIs
    <3>9. i <= m /\ m \in Nat /\ i \in Nat
      BY <1>3
    <3> QED
      BY <1>1, <3>2, <3>6, <3>7, <3>8, <3>9
  <2> QED
    BY <2>2, <2>3
<1>14. Picks(pick, s, k, D)
  BY <1>3, <1>10, <1>11, <1>12, <1>13 DEF Picks, m, c
<1> QED
  BY <1>14 DEF Top, s

(* A row more ... *)
LEMMA TopMore ==
  ASSUME NEW k, NEW D, NEW d, d \notin D, RowsDue(D \cup {d}, k), NEW kept, Top(kept, k, D)
  PROVE  Top(Best(Append(kept, d[3])), k, D \cup {d})
<1> DEFINE U == D \cup {d}
           n == Len(kept)
           a == Append(kept, d[3])
           S == RowSet(k)
<1>1. PICK pick : Picks(pick, kept, k, D)
  BY DEF Top
<1>2. /\ kept \in Seq(S) /\ n \in Nat
      /\ \A i \in 1..n : pick[i] \in D /\ kept[i] = pick[i][3]
      /\ \A i, j \in 1..n : pick[i] = pick[j] => i = j
  BY <1>1, LenProperties DEF Picks
<1>3. d[3] \in S /\ IsFiniteSet(D)
  <2>1. D \in SUBSET U /\ IsFiniteSet(U)
    BY DEF RowsDue
  <2> HIDE DEF U
  <2>2. IsFiniteSet(D)
    BY <2>1, FS_Subset
  <2> QED
    BY <2>2 DEF RowsDue
<1> HIDE DEF S
<1>4. a \in Seq(S) /\ Len(a) = n + 1 /\ (\A i \in 1..n : a[i] = kept[i]) /\ a[n + 1] = d[3]
  BY <1>2, <1>3, AppendProperties
<1> DEFINE src == [i \in 1..(n + 1) |-> IF i = n + 1 THEN d ELSE pick[i]]
<1>5. src[n + 1] = d /\ \A i \in 1..n : src[i] = pick[i]
  BY <1>2
<1>6. /\ \A i \in 1..(n + 1) : i = n + 1 \/ i \in 1..n
      /\ n + 1 \in 1..(n + 1) /\ \A i \in 1..n : i \in 1..(n + 1)
  BY <1>2
<1> HIDE DEF a, n, src
<1>7. \A i \in 1..Len(a) : src[i] \in U /\ a[i] = src[i][3]
  BY <1>2, <1>4, <1>5, <1>6
<1>8. \A i, j \in 1..Len(a) : src[i] = src[j] => i = j
  BY <1>2, <1>4, <1>5, <1>6
<1>9. ASSUME NEW x \in U, ~\E i \in 1..Len(a) : src[i] = x
      PROVE  /\ TopN > 0
             /\ \E J \in SUBSET (1..Len(a)) : Cardinality(J) = TopN /\ \A j \in J : ~RowBefore(x[3], a[j])
  <2>1. x \in D /\ \A i \in 1..Len(kept) : pick[i] # x
    BY <1>4, <1>5, <1>6, <1>9 DEF n
  <2>2. TopN > 0 /\ n = TopN /\ \A i \in 1..n : ~RowBefore(x[3], kept[i])
    BY <1>1, <1>3, <2>1, LeftOut DEF n
  <2>3. 1..n \in SUBSET (1..Len(a)) /\ Cardinality(1..n) = n
    BY <1>2, <1>4, <1>6, OneTo
  <2>4. \A j \in 1..n : ~RowBefore(x[3], a[j])
    BY <1>4, <2>2
  <2> QED
    BY <2>2, <2>3, <2>4
<1>10. Top(Best(a), k, U)
  BY <1>4, <1>7, <1>8, <1>9, BestOf DEF S
<1> QED
  BY <1>10 DEF a

(* ... and two sets of rows together. *)
LEMMA TopMerged ==
  ASSUME NEW k, NEW A, NEW B, A \cap B = {}, RowsDue(A, k), RowsDue(B, k),
         NEW u, Top(u, k, A), NEW v, Top(v, k, B)
  PROVE  Top(Best(u \o v), k, A \cup B)
<1> DEFINE U == A \cup B
           a == u \o v
           l == Len(u)
           m == Len(v)
           S == RowSet(k)
<1>1. PICK p : Picks(p, u, k, A)
  BY DEF Top
<1>2. PICK q : Picks(q, v, k, B)
  BY DEF Top
<1>3. /\ u \in Seq(S) /\ l \in Nat
      /\ \A i \in 1..l : p[i] \in A /\ u[i] = p[i][3]
      /\ \A i, j \in 1..l : p[i] = p[j] => i = j
  BY <1>1, LenProperties DEF Picks
<1>4. /\ v \in Seq(S) /\ m \in Nat
      /\ \A i \in 1..m : q[i] \in B /\ v[i] = q[i][3]
      /\ \A i, j \in 1..m : q[i] = q[j] => i = j
  BY <1>2, LenProperties DEF Picks
<1>5. RowsDue(U, k)
  BY FS_Union DEF RowsDue
<1> HIDE DEF S
<1>6. /\ a \in Seq(S) /\ Len(a) = l + m
      /\ \A i \in 1..(l + m) : a[i] = IF i <= l THEN u[i] ELSE v[i - l]
  BY <1>3, <1>4, ConcatProperties
<1> DEFINE src == [i \in 1..(l + m) |-> IF i <= l THEN p[i] ELSE q[i - l]]
<1> HIDE DEF a
<1>7. /\ \A i \in 1..l : i \in 1..(l + m) /\ src[i] = p[i] /\ a[i] = u[i]
      /\ \A i \in 1..m : l + i \in 1..(l + m) /\ src[l + i] = q[i] /\ a[l + i] = v[i]
      /\ \A i \in 1..(l + m) : i \in 1..l \/ \E j \in 1..m : i = l + j
  <2> HIDE DEF l, m
  <2>1. \A i \in 1..l : i \in 1..(l + m) /\ src[i] = p[i] /\ a[i] = u[i]
    <3> TAKE i \in 1..l
    <3>1. i \in 1..(l + m) /\ i <= l
      BY <1>3, <1>4
    <3> QED
      BY <1>6, <3>1
  <2>2. \A i \in 1..m : l + i \in 1..(l + m) /\ src[l + i] = q[i] /\ a[l + i] = v[i]
    <3> TAKE i \in 1..m
    <3>1. l + i \in 1..(l + m) /\ ~(l + i <= l) /\ (l + i) - l = i
      BY <1>3, <1>4
    <3> QED
      BY <1>6, <3>1
  <2>3. \A i \in 1..(l + m) : i \in 1..l \/ \E j \in 1..m : i = l + j
    <3> TAKE i \in 1..(l + m)
    <3>1. i \in 1..l \/ (i - l \in 1..m /\ i = l + (i - l))
      BY <1>3, <1>4
    <3> QED
      BY <3>1
  <2> QED
    BY <2>1, <2>2, <2>3
<1> HIDE DEF l, m, src
<1>8. \A i \in 1..Len(a) : src[i] \in U /\ a[i] = src[i][3]
  <2> TAKE i \in 1..Len(a)
  <2>1. CASE i \in 1..l
    BY <1>3, <1>7, <2>1
  <2>2. CASE \E j \in 1..m : i = l + j
    <3>1. PICK j \in 1..m : i = l + j
      BY <2>2
    <3>2. src[i] = q[j] /\ a[i] = v[j]
      BY <1>7, <3>1
    <3> QED
      BY <1>4, <3>2
  <2> QED
    BY <1>6, <1>7, <2>1, <2>2
<1>9. \A i, j \in 1..Len(a) : src[i] = src[j] => i = j
  <2> TAKE i, j \in 1..Len(a)
  <2> HAVE src[i] = src[j]
  <2>1. CASE i \in 1..l /\ j \in 1..l
    BY <1>3, <1>7, <2>1
  <2>2. CASE i \in 1..l /\ \E h \in 1..m : j = l + h
    <3>1. PICK h \in 1..m : j = l + h
      BY <2>2
    <3>2. src[i] \in A /\ src[j] \in B
      BY <1>3, <1>4, <1>7, <2>2, <3>1
    <3> QED
      BY <3>2
  <2>3. CASE (\E h \in 1..m : i = l + h) /\ j \in 1..l
    <3>1. PICK h \in 1..m : i = l + h
      BY <2>3
    <3>2. src[j] \in A /\ src[i] \in B
      BY <1>3, <1>4, <1>7, <2>3, <3>1
    <3> QED
      BY <3>2
  <2>4. CASE (\E h \in 1..m : i = l + h) /\ \E h \in 1..m : j = l + h
    <3>1. PICK h \in 1..m : i = l + h
      BY <2>4
    <3>2. PICK g \in 1..m : j = l + g
      BY <2>4
    <3>3. q[h] = q[g]
      BY <1>7, <3>1, <3>2
    <3> QED
      BY <1>4, <3>1, <3>2, <3>3
  <2> QED
    BY <1>6, <1>7, <2>1, <2>2, <2>3, <2>4
<1>10. ASSUME NEW x \in U, ~\E i \in 1..Len(a) : src[i] = x
       PROVE  /\ TopN > 0
              /\ \E J \in SUBSET (1..Len(a)) : Cardinality(J) = TopN /\ \A j \in J : ~RowBefore(x[3], a[j])
  <2>1. CASE x \in A
    <3>1. \A i \in 1..Len(u) : p[i] # x
      BY <1>6, <1>7, <1>10 DEF l
    <3>2. TopN > 0 /\ l = TopN /\ \A i \in 1..l : ~RowBefore(x[3], u[i])
      BY <1>1, <2>1, <3>1, LeftOut DEF l, RowsDue
    <3>3. 1..l \in SUBSET (1..Len(a)) /\ Cardinality(1..l) = l
      BY <1>3, <1>6, <1>7, OneTo
    <3>4. \A j \in 1..l : ~RowBefore(x[3], a[j])
      BY <1>7, <3>2
    <3> QED
      BY <3>2, <3>3, <3>4
  <2>2. CASE x \in B
    <3>1. \A i \in 1..Len(v) : q[i] # x
      BY <1>6, <1>7, <1>10 DEF m
    <3>2. TopN > 0 /\ m = TopN /\ \A i \in 1..m : ~RowBefore(x[3], v[i])
      BY <1>2, <2>2, <3>1, LeftOut DEF m, RowsDue
    <3> DEFINE J == (l + 1)..(l + m)
    <3>3. J \in SUBSET (1..Len(a)) /\ Cardinality(J) = m
      <4>1. l + 1 \in Int /\ l + m \in Int /\ J \in SUBSET (1..(l + m))
        BY <1>3, <1>4
      <4>2. Cardinality(J) = IF l + 1 > l + m THEN 0 ELSE (l + m) - (l + 1) + 1
        BY <4>1, FS_Interval
      <4> DEFINE c == Cardinality(J)
      <4> HIDE DEF c
      <4>3. c = IF l + 1 > l + m THEN 0 ELSE (l + m) - (l + 1) + 1
        BY <4>2 DEF c
      <4>4. c = m
        BY <1>3, <1>4, <4>3
      <4> QED
        BY <1>6, <4>1, <4>4 DEF c
    <3>4. \A j \in J : ~RowBefore(x[3], a[j])
      <4> TAKE j \in J
      <4>1. j - l \in 1..m /\ l + (j - l) = j
        BY <1>3, <1>4
      <4>2. a[j] = v[j - l]
        BY <1>7, <4>1
      <4> QED
        BY <3>2, <4>1, <4>2
    <3> HIDE DEF J
    <3> QED
      BY <3>2, <3>3, <3>4
  <2> QED
    BY <2>1, <2>2
<1>11. Top(Best(a), k, U)
  BY <1>5, <1>6, <1>8, <1>9, <1>10, BestOf DEF S
<1> QED
  BY <1>11 DEF a

-------------------------------------------------------------------------------
(* The hours are those of the rows D. *)
InHour(D, h) == {d \in D : d[3].hour = h}

HoursOf(hours, k, D) ==
  /\ DOMAIN hours = {d[3].hour : d \in D}
  /\ \A h \in DOMAIN hours : Top(hours[h], k, InHour(D, h))

(* The rows kept of an hour, none of one without rows. *)
LEMMA HourIs ==
  ASSUME NEW D, NEW k, NEW hours, HoursOf(hours, k, D), NEW h
  PROVE  Top(RowsIn(hours, h), k, InHour(D, h))
<1>1. CASE h \in DOMAIN hours
  BY <1>1 DEF RowsIn, HoursOf
<1>2. CASE h \notin DOMAIN hours
  <2>1. InHour(D, h) = {}
    BY <1>2 DEF HoursOf, InHour
  <2> QED
    BY <1>2, <2>1, TopNone DEF RowsIn
<1> QED
  BY <1>1, <1>2

(* Rows due remain rows due when some are left out. *)
LEMMA DueSubset ==
  ASSUME NEW D, NEW k, RowsDue(D, k), NEW S \in SUBSET D
  PROVE  RowsDue(S, k)
  BY FS_Subset DEF RowsDue

(* A row more ... *)
LEMMA RowCollected ==
  ASSUME NEW D, NEW k, NEW d, d \notin D, RowsDue(D \cup {d}, k), NEW hours, HoursOf(hours, k, D)
  PROVE  HoursOf(Collect(hours, d[3]), k, D \cup {d})
<1> DEFINE U == D \cup {d}
           g == d[3].hour
           new == Collect(hours, d[3])
<1>1. InHour(U, g) = InHour(D, g) \cup {d} /\ d \notin InHour(D, g) /\ InHour(U, g) \in SUBSET U
  BY DEF InHour
<1>2. \A h : h # g => InHour(U, h) = InHour(D, h)
  BY DEF InHour
<1>3. Top(Best(Append(RowsIn(hours, g), d[3])), k, InHour(U, g))
  <2> DEFINE S == InHour(D, g)
             kept == RowsIn(hours, g)
  <2>1. Top(kept, k, S)
    BY HourIs
  <2>2. RowsDue(InHour(U, g), k)
    BY <1>1, DueSubset
  <2>3. RowsDue(S \cup {d}, k) /\ d \notin S
    BY <1>1, <2>2
  <2> HIDE DEF S, kept
  <2>4. Top(Best(Append(kept, d[3])), k, S \cup {d})
    BY <2>1, <2>3, TopMore
  <2> QED
    BY <1>1, <2>4 DEF S, kept
<1>4. DOMAIN new = DOMAIN hours \cup {g}
  BY DEF Collect
<1>5. new[g] = Best(Append(RowsIn(hours, g), d[3])) /\ \A h \in DOMAIN hours : h # g => new[h] = hours[h]
  BY DEF Collect
<1>6. DOMAIN new = {x[3].hour : x \in U}
  BY <1>4 DEF HoursOf
<1> HIDE DEF new, g, U
<1>7. ASSUME NEW h \in DOMAIN new PROVE Top(new[h], k, InHour(U, h))
  <2>1. CASE h = g
    BY <1>3, <1>5, <2>1
  <2>2. CASE h # g
    <3>1. h \in DOMAIN hours /\ new[h] = hours[h] /\ InHour(U, h) = InHour(D, h)
      BY <1>2, <1>4, <1>5, <2>2
    <3>2. Top(hours[h], k, InHour(D, h))
      BY <3>1 DEF HoursOf
    <3> QED
      BY <3>1, <3>2
  <2> QED
    BY <2>1, <2>2
<1> QED
  BY <1>6, <1>7 DEF HoursOf, new, U

(* ... and two sets of rows together. *)
LEMMA HoursMerged ==
  ASSUME NEW A, NEW B, NEW k, A \cap B = {}, RowsDue(A, k), RowsDue(B, k),
         NEW a, HoursOf(a, k, A), NEW b, HoursOf(b, k, B)
  PROVE  HoursOf(MergeHours(a, b), k, A \cup B)
<1> DEFINE U == A \cup B
           m == MergeHours(a, b)
<1>1. DOMAIN m = DOMAIN a \cup DOMAIN b
  BY DEF MergeHours
<1>2. DOMAIN m = {d[3].hour : d \in U}
  BY <1>1 DEF HoursOf
<1>3. ASSUME NEW h \in DOMAIN m PROVE Top(m[h], k, InHour(U, h))
  <2> DEFINE S == InHour(A, h)
             T == InHour(B, h)
  <2>1. InHour(U, h) = S \cup T /\ S \cap T = {} /\ S \in SUBSET A /\ T \in SUBSET B
    BY DEF InHour
  <2>2. CASE h \in DOMAIN b
    <3> DEFINE u == RowsIn(a, h)
               v == b[h]
    <3>1. m[h] = Best(u \o v)
      BY <1>1, <2>2 DEF MergeHours
    <3>2. Top(u, k, S) /\ Top(v, k, T)
      BY <2>2, HourIs DEF HoursOf
    <3>3. RowsDue(S, k) /\ RowsDue(T, k)
      BY <2>1, DueSubset
    <3> HIDE DEF m, S, T, U, u, v
    <3>4. Top(Best(u \o v), k, S \cup T)
      BY <2>1, <3>2, <3>3, TopMerged
    <3> QED
      BY <2>1, <3>1, <3>4
  <2>3. CASE h \notin DOMAIN b
    <3>1. m[h] = a[h] /\ h \in DOMAIN a
      BY <1>1, <2>3 DEF MergeHours
    <3>2. T = {}
      BY <2>3 DEF HoursOf, InHour
    <3>3. Top(a[h], k, S)
      BY <3>1 DEF HoursOf
    <3>4. InHour(U, h) = S
      BY <2>1, <3>2
    <3> HIDE DEF m, S, T, U
    <3> QED
      BY <3>1, <3>3, <3>4
  <2> QED
    BY <2>2, <2>3
<1> HIDE DEF m
<1> QED
  BY <1>2, <1>3 DEF HoursOf, m

-------------------------------------------------------------------------------
(* In both modes: what was gathered is what the rows D say. *)
Gathers(m, k, got, D) == IF m = "raw" THEN HoursOf(got, k, D) ELSE GroupsOf(got, k, D)

(* Before a file is read nothing is gathered ... *)
LEMMA GathersNone ==
  ASSUME NEW m, NEW k
  PROVE  Gathers(m, k, NoGroups, {}) /\ RowsDue({}, k)
<1>1. HoursOf(NoGroups, k, {})
  BY DEF HoursOf, NoGroups
<1>2. RowsDue({}, k)
  BY FS_EmptySet DEF RowsDue
<1> QED
  BY <1>1, <1>2, NoGroupsYet DEF Gathers

(* ... and what two sets of files hold is merged into what both hold. *)
LEMMA GathersMerged ==
  ASSUME NEW A, NEW B, NEW k, NEW m, A \cap B = {}, RowsDue(A, k), RowsDue(B, k),
         NEW a, Gathers(m, k, a, A), NEW b, Gathers(m, k, b, B)
  PROVE  Gathers(m, k, Merge(m, a, b), A \cup B) /\ RowsDue(A \cup B, k)
<1>1. RowsDue(A \cup B, k)
  BY FS_Union DEF RowsDue
<1>2. CASE m = "raw"
  <2>1. HoursOf(MergeHours(a, b), k, A \cup B)
    BY <1>2, HoursMerged DEF Gathers
  <2> QED
    BY <1>1, <1>2, <2>1 DEF Gathers, Merge
<1>3. CASE m # "raw"
  <2>1. GroupsOf(MergeGroups(a, b), k, A \cup B)
    BY <1>3, GroupsMerged DEF Gathers
  <2> QED
    BY <1>1, <1>3, <2>1 DEF Gathers, Merge
<1> QED
  BY <1>2, <1>3

(* What a worker has collected of a file after each of its rows. *)
CollectsBy(w, k, m, file, rows, N) ==
  /\ w[0] = NoGroups /\ Collected(k, m, file) = w[N]
  /\ \A n \in 1..N : w[n] = IF m = "raw" THEN Collect(w[n - 1], rows[n])
                            ELSE AddRow(k, w[n - 1], rows[n])

(* Collecting one row after the other. *)
LEMMA CollectSteps ==
  ASSUME NEW k, NEW m, NEW file, NEW rows, rows = ProcessFile(k, file), NEW N \in Nat, DOMAIN rows = 1..N
  PROVE  \E w : CollectsBy(w, k, m, file, rows, N)
<1>1. CASE m = "raw"
  <2>1. PICK w : Folds(w, "hours", 0, NoGroups, rows, N) /\ HoursOfAll(rows) = w[N]
    BY HourSteps
  <2>2. \A n \in 1..N : w[n] = Collect(w[n - 1], rows[n])
    BY <2>1, Steps DEF Folds
  <2>3. Collected(k, m, file) = HoursOfAll(rows)
    BY <1>1 DEF Collected, HoursOfAll
  <2> QED
    BY <1>1, <2>1, <2>2, <2>3 DEF Folds, CollectsBy
<1>2. CASE m # "raw"
  <2>1. PICK w : Folds(w, "groups", k, NoGroups, rows, N) /\ GroupsOfAll(k, rows) = w[N]
    BY GroupSteps
  <2>2. \A n \in 1..N : w[n] = AddRow(k, w[n - 1], rows[n])
    BY <2>1, Steps DEF Folds
  <2>3. Collected(k, m, file) = GroupsOfAll(k, rows)
    BY <1>2 DEF Collected, GroupsOfAll
  <2> QED
    BY <1>2, <2>1, <2>2, <2>3 DEF Folds, CollectsBy
<1> QED
  BY <1>1, <1>2

(* The rows of one file, with its number. *)
FileDue(k, f, file) == {<<f, r[1], r[2]>> : r \in RowsOf(k, file)}

(* The rows of a file are pairs of a place and a row. *)
LEMMA RowsOfPairs ==
  \A k, file : \A r \in RowsOf(k, file) : r = <<r[1], r[2]>>
<1> TAKE k, file
<1>1. \A r \in OwnRows(k, file) : r = <<r[1], r[2]>>
  BY DEF OwnRows
<1>2. \A r \in PairedRows(file) : r = <<r[1], r[2]>>
  BY PairedRowsAre DEF CallPair
<1> QED
  BY <1>1, <1>2 DEF RowsOf

(* What a worker collects of a file that does not fail. *)
LEMMA CollectedIs ==
  ASSUME NEW k, NEW m, NEW f, NEW file, IsFile(file), ~Fails(file)
  PROVE  /\ Gathers(m, k, Collected(k, m, file), FileDue(k, f, file))
         /\ RowsDue(FileDue(k, f, file), k)
<1> DEFINE rows == ProcessFile(k, file)
           R == RowsOf(k, file)
           N == Len(rows)
<1>1. PICK of : RowsAre(of, rows, k, R)
  BY RowsTaken DEF RowsList
<1>2. /\ N \in Nat /\ DOMAIN rows = 1..N
      /\ \A i \in 1..N : of[i] \in R /\ rows[i] = of[i][2] /\ rows[i] \in RowSet(k)
      /\ \A i, j \in 1..N : of[i] = of[j] => i = j
      /\ \A r \in R : \E i \in 1..N : of[i] = r
  BY <1>1, LenProperties, ElementOfSeq DEF RowsAre
<1>3. \A r \in R : r = <<r[1], r[2]>>
  BY RowsOfPairs
<1>4. PICK w : CollectsBy(w, k, m, file, rows, N)
  <2>1. rows = ProcessFile(k, file) /\ N \in Nat /\ DOMAIN rows = 1..N
    BY <1>2
  <2> HIDE DEF rows, N, R
  <2> QED
    BY <2>1, CollectSteps
<1>5. FileDue(k, f, file) = {<<f, r[1], r[2]>> : r \in R}
  BY DEF FileDue
<1> HIDE DEF rows, R, N
<1> DEFINE d(i) == <<f, of[i][1], of[i][2]>>
           D(n) == {d(i) : i \in 1..n}
           K == {n \in Nat : n <= N => Gathers(m, k, w[n], D(n)) /\ RowsDue(D(n), k)}
<1>6. 0 \in K
  <2>1. D(0) = {}
    OBVIOUS
  <2> HIDE DEF D
  <2> QED
    BY <1>4, <2>1, GathersNone DEF CollectsBy
<1>7. ASSUME NEW n \in Nat, n \in K PROVE n + 1 \in K
  <2> SUFFICES ASSUME n + 1 <= N
               PROVE  Gathers(m, k, w[n + 1], D(n + 1)) /\ RowsDue(D(n + 1), k)
    OBVIOUS
  <2> DEFINE x == d(n + 1)
             old == D(n)
  <2>1. n + 1 \in 1..N /\ (n + 1) - 1 = n /\ Gathers(m, k, w[n], old) /\ RowsDue(old, k)
    BY <1>2, <1>7
  <2>2. /\ \A i \in 1..(n + 1) : i = n + 1 \/ i \in 1..n
        /\ n + 1 \in 1..(n + 1) /\ \A i \in 1..n : i \in 1..(n + 1) /\ i \in 1..N /\ i # n + 1
    BY <1>2, <2>1
  <2>3. D(n + 1) = old \cup {x}
    BY <2>2
  <2>4. x \notin old
    <3>1. ASSUME NEW i \in 1..n, d(i) = x PROVE FALSE
      <4>1. of[i][1] = of[n + 1][1] /\ of[i][2] = of[n + 1][2]
        BY <3>1
      <4>2. of[i] = of[n + 1]
        BY <1>2, <1>3, <2>1, <2>2, <4>1
      <4> QED
        BY <1>2, <2>1, <2>2, <4>2
    <3> QED
      BY <3>1
  <2>5. x[3] = rows[n + 1] /\ x[3] \in RowSet(k)
    BY <1>2, <2>1
  <2> HIDE DEF D, d, x, old
  <2>6. RowsDue(old \cup {x}, k)
    BY <2>1, <2>5, FS_AddElement DEF RowsDue
  <2>7. Gathers(m, k, w[n + 1], old \cup {x})
    <3>1. CASE m = "raw"
      <4>1. w[n + 1] = Collect(w[n], x[3])
        BY <1>4, <2>1, <2>5, <3>1 DEF CollectsBy
      <4>2. HoursOf(Collect(w[n], x[3]), k, old \cup {x})
        BY <2>1, <2>4, <2>6, <3>1, RowCollected DEF Gathers
      <4> QED
        BY <3>1, <4>1, <4>2 DEF Gathers
    <3>2. CASE m # "raw"
      <4>1. w[n + 1] = AddRow(k, w[n], x[3])
        BY <1>4, <2>1, <2>5, <3>2 DEF CollectsBy
      <4>2. GroupsOf(AddRow(k, w[n], x[3]), k, old \cup {x})
        BY <2>1, <2>4, <2>6, <3>2, RowAdded DEF Gathers
      <4> QED
        BY <3>2, <4>1, <4>2 DEF Gathers
    <3> QED
      BY <3>1, <3>2
  <2> QED
    BY <2>3, <2>6, <2>7
<1>8. Gathers(m, k, w[N], D(N)) /\ RowsDue(D(N), k)
  <2>1. N \in K
    <3> HIDE DEF K
    <3> QED
      BY <1>2, <1>6, <1>7, NumbersByStep
  <2> HIDE DEF D
  <2> QED
    BY <1>2, <2>1
<1>9. FileDue(k, f, file) = D(N)
  BY <1>2, <1>5
<1> HIDE DEF D
<1> QED
  BY <1>4, <1>8, <1>9 DEF CollectsBy

-------------------------------------------------------------------------------
(* What Build has merged are the rows of the files it received, and it      *)
(* counts each of them as processed or as an error.                         *)
Collecting ==
  /\ \A f \in FileIds : IsFile(files[f])
  /\ Gathers(mode, kind, merged, Due) /\ RowsDue(Due, kind)
  /\ errors \in Seq(Nat) /\ processed \in Nat
  /\ \/ processed + Len(errors) = Len(received)
     \/ stage = "returned" /\ errors = <<NoFiles>>

(* Of the files received, those that did not fail. *)
Whole == {f \in FileIds : f \in Received /\ ~Fails(files[f])}

(* The rows due are those of the files received whole ... *)
LEMMA DueOfWhole == Due = UNION {FileDue(kind, f, files[f]) : f \in Whole}
  BY Zenon DEF Due, FileDue, Whole, Received

(* ... which are told apart by their file. *)
LEMMA DueOfFile ==
  \A k, f, file : \A d \in FileDue(k, f, file) : d[1] = f
  BY DEF FileDue

(* Nothing has been merged at first ... *)
LEMMA CollectingInitially == Init => Collecting
<1> SUFFICES ASSUME Init PROVE Collecting
  OBVIOUS
<1>1. PICK in \in Inputs : kind = in[1] /\ files = in[2]
  BY DEF Init
<1>2. \A f \in FileIds : IsFile(files[f])
  <2>1. files \in Seq(ToSet(files)) /\ \A file \in ToSet(files) : IsFile(file)
    BY <1>1, PoolAssumption
  <2>2. FileIds = DOMAIN files
    BY <2>1, LenProperties DEF FileIds
  <2> QED
    BY <2>1, <2>2, Elements
<1>3. Due = {}
  <2>1. DOMAIN received = {}
    BY DEF Init
  <2>2. Received = {}
    BY <2>1, Elements DEF Received
  <2>3. Whole = {}
    BY <2>2 DEF Whole
  <2> QED
    BY <2>3, DueOfWhole
<1>4. Gathers(mode, kind, merged, Due) /\ RowsDue(Due, kind)
  BY <1>3, GathersNone DEF Init
<1>5. /\ errors = <<>> /\ received = <<>> /\ processed = 0
      /\ Len(<<>>) = 0 /\ <<>> \in Seq(Nat)
  BY DEF Init
<1> QED
  BY <1>2, <1>4, <1>5 DEF Collecting

(* The rows of the file received, which are no others'. *)
LEMMA DueGrows ==
  ASSUME PoolInv, PoolInv', UNCHANGED <<files, kind>>, NEW x \in FileIds, x \notin Received,
         Received' = Received \cup {x}
  PROVE  /\ Fails(files[x]) => Due' = Due
         /\ ~Fails(files[x]) => Due' = Due \cup FileDue(kind, x, files[x])
         /\ Due \cap FileDue(kind, x, files[x]) = {}
<1>1. FileIds' = FileIds
  BY DEF FileIds
<1>2. Due' = UNION {FileDue(kind, f, files[f]) : f \in Whole'}
  <2>1. Due' = UNION {FileDue(kind', f, files'[f]) : f \in Whole'}
    BY Zenon DEF Due, FileDue, Whole, Received
  <2> QED
    BY <2>1
<1>3. /\ Fails(files[x]) => Whole' = Whole
      /\ ~Fails(files[x]) => Whole' = Whole \cup {x}
  BY <1>1 DEF Whole
<1>4. Due \cap FileDue(kind, x, files[x]) = {}
  <2> SUFFICES ASSUME NEW d \in Due, d \in FileDue(kind, x, files[x]) PROVE FALSE
    OBVIOUS
  <2>1. PICK f \in Whole : d \in FileDue(kind, f, files[f])
    BY DueOfWhole
  <2>2. d[1] = f /\ d[1] = x
    BY <2>1, DueOfFile
  <2> QED
    BY <2>2 DEF Whole
<1>5. Fails(files[x]) => Due' = Due
  BY <1>2, <1>3, DueOfWhole
<1>6. ~Fails(files[x]) => Due' = Due \cup FileDue(kind, x, files[x])
  BY <1>2, <1>3, DueOfWhole
<1> QED
  BY <1>4, <1>5, <1>6

(* ... and every step that merges a result merges all of it. *)
LEMMA CollectingStep == PoolInv /\ PoolInv' /\ Collecting /\ [Next]_vars => Collecting'
<1> SUFFICES ASSUME PoolInv, PoolInv', Collecting, [Next]_vars PROVE Collecting'
  OBVIOUS
<1>0. UNCHANGED <<kind, mode, files>>
  BY DEF Next, Start, WorkerNext, TakeJob, ReadFile, SendResult, LeaveJobs, CloseJobs, CloseResults,
         Receive, Return, Over, vars, input
<1>f. \A f \in FileIds' : IsFile(files'[f])
  BY <1>0 DEF Collecting, FileIds
<1>1. CASE Receive
  <2> DEFINE x == Head(results)
             file == files[x]
             own == FileDue(kind, x, file)
  <2>1. /\ stage = "collecting" /\ stage' = stage /\ results # <<>>
        /\ errors' = IF Fails(file) THEN Append(errors, x) ELSE errors
        /\ processed' = IF Fails(file) THEN processed ELSE processed + 1
        /\ merged' = IF Fails(file) THEN merged ELSE Merge(mode, merged, Collected(kind, mode, file))
        /\ received' = Append(received, x)
    BY <1>1 DEF Receive, TakeResult
  <2>2. /\ results \in Seq(Nat) /\ received \in Seq(Nat) /\ handed \in 0..Len(files) /\ Len(files) \in Nat
        /\ Held \cup Queued \cup Received = 1..handed /\ Queued \cap Received = {}
        /\ IsInjective(results)
    BY DEF PoolInv, EachFileOnce
  <2>3. x \in Nat /\ x \in Queued
    BY <2>1, <2>2, TakeOnce DEF Queued
  <2>4. x \in FileIds /\ x \notin Received
    BY <2>2, <2>3 DEF FileIds
  <2>5. Received' = Received \cup {x} /\ Len(received') = Len(received) + 1 /\ Len(received) \in Nat
    BY <2>1, <2>2, <2>3, AppendOnce, AppendProperties, LenProperties DEF Received
  <2>6. IsFile(file)
    BY <2>4 DEF Collecting
  <2> HIDE DEF x
  <2>7. /\ Fails(file) => Due' = Due
        /\ ~Fails(file) => Due' = Due \cup own
        /\ Due \cap own = {}
    BY <1>0, <2>4, <2>5, DueGrows
  <2>8. processed + Len(errors) = Len(received) /\ errors \in Seq(Nat) /\ processed \in Nat
    BY <2>1 DEF Collecting
  <2>9. /\ errors' \in Seq(Nat) /\ processed' \in Nat
        /\ processed' + Len(errors') = Len(received')
    <3>1. CASE Fails(file)
      <4>1. errors' = Append(errors, x) /\ processed' = processed
        BY <2>1, <3>1
      <4>2. errors' \in Seq(Nat) /\ Len(errors') = Len(errors) + 1 /\ Len(errors) \in Nat
        BY <2>3, <2>8, <4>1, AppendProperties, LenProperties
      <4> DEFINE e == Len(errors)
                 f == Len(errors')
                 n == Len(received)
                 m == Len(received')
      <4>3. f = e + 1 /\ e \in Nat /\ m = n + 1 /\ n \in Nat /\ processed + e = n /\ processed \in Nat
        BY <2>5, <2>8, <4>2
      <4> HIDE DEF e, f, n, m
      <4>4. processed + f = m
        BY <4>3
      <4> QED
        BY <2>8, <4>1, <4>2, <4>4 DEF f, m
    <3>2. CASE ~Fails(file)
      <4>1. errors' = errors /\ processed' = processed + 1 /\ Len(errors) \in Nat
        BY <2>1, <2>8, <3>2, LenProperties
      <4> QED
        BY <2>5, <2>8, <4>1
    <3> QED
      BY <3>1, <3>2
  <2>10. Gathers(mode', kind', merged', Due') /\ RowsDue(Due', kind')
    <3>1. CASE Fails(file)
      BY <1>0, <2>1, <2>7, <3>1 DEF Collecting
    <3>2. CASE ~Fails(file)
      <4>1. Gathers(mode, kind, Collected(kind, mode, file), own) /\ RowsDue(own, kind)
        BY <2>6, <3>2, CollectedIs
      <4>2. Gathers(mode, kind, merged, Due) /\ RowsDue(Due, kind)
        BY DEF Collecting
      <4> HIDE DEF own, file
      <4>3. /\ Gathers(mode, kind, Merge(mode, merged, Collected(kind, mode, file)), Due \cup own)
            /\ RowsDue(Due \cup own, kind)
        BY <2>7, <4>1, <4>2, GathersMerged
      <4> QED
        BY <1>0, <2>1, <2>7, <3>2, <4>3
    <3> QED
      BY <3>1, <3>2
  <2> QED
    BY <1>f, <2>9, <2>10 DEF Collecting
<1>2. CASE ~Receive
  <2>1. UNCHANGED <<received, processed, merged>>
    BY <1>2 DEF Next, Start, WorkerNext, TakeJob, ReadFile, SendResult, LeaveJobs, CloseJobs, CloseResults,
                Return, Over, vars, build
  <2>2. Due' = Due
    BY <1>0, <2>1 DEF Due, FileIds
  <2>3. /\ errors' \in Seq(Nat)
        /\ \/ errors' = errors /\ (stage = "returned" => stage' = "returned")
           \/ stage' = "returned" /\ errors' = <<NoFiles>>
    <3>1. CASE Start
      <4>1. stage = "starting" /\ (errors' = errors \/ (stage' = "returned" /\ errors' = <<NoFiles>>))
        BY <3>1 DEF Start
      <4>2. errors \in Seq(Nat) /\ <<NoFiles>> \in Seq(Nat)
        BY DEF Collecting, NoFiles
      <4> QED
        BY <4>1, <4>2
    <3>2. CASE ~Start
      <4>1. errors' = errors /\ (stage = "returned" => stage' = "returned")
        BY <1>2, <3>2 DEF Next, WorkerNext, TakeJob, ReadFile, SendResult, LeaveJobs, CloseJobs, CloseResults,
                          Return, LeaveLoop, Over, vars, build
      <4> QED
        BY <4>1 DEF Collecting
    <3> QED
      BY <3>1, <3>2
  <2>4. Gathers(mode', kind', merged', Due') /\ RowsDue(Due', kind')
    BY <1>0, <2>1, <2>2 DEF Collecting
  <2>5. /\ processed' \in Nat
        /\ \/ processed' + Len(errors') = Len(received')
           \/ stage' = "returned" /\ errors' = <<NoFiles>>
    BY <2>1, <2>3 DEF Collecting
  <2> QED
    BY <1>f, <2>3, <2>4, <2>5 DEF Collecting
<1> QED
  BY <1>1, <1>2

(* Collecting is an invariant of the reports. *)
THEOREM CollectingInvariant == Spec => []Collecting
<1>1. Init => Collecting
  BY CollectingInitially
<1>2. PoolInv /\ PoolInv' /\ Collecting /\ [Next]_vars => Collecting'
  BY CollectingStep
<1> QED
  BY <1>1, <1>2, PoolInvariant, PTL DEF Spec

-------------------------------------------------------------------------------
(* The rows kept of the set D, as HoursExact says it. *)
KeptIsExact(kept, D) ==
  LET Copies(row) == Cardinality({d \in D : d[3] = row})
      CopiesKept(row) == Cardinality({i \in DOMAIN kept : kept[i] = row})
  IN  /\ Len(kept) = IF TopN = 0 \/ TopN > Cardinality(D) THEN Cardinality(D) ELSE TopN
      /\ \A i \in 2..Len(kept) : ~RowBefore(kept[i], kept[i - 1])
      /\ \A i \in DOMAIN kept : CopiesKept(kept[i]) <= Copies(kept[i])
      /\ \A d \in D : Copies(d[3]) > CopiesKept(d[3]) => ~RowBefore(d[3], Last(kept))

(* The first rows of a set, counted: of every row as many copies are kept as *)
(* there is room for.                                                        *)
LEMMA TopIsExact ==
  ASSUME NEW k, NEW D, RowsDue(D, k), D # {}, NEW kept, Top(kept, k, D)
  PROVE  KeptIsExact(kept, D)
<1> DEFINE n == Len(kept)
           c == Cardinality(D)
           C(row) == {d \in D : d[3] = row}
           CK(row) == {i \in DOMAIN kept : kept[i] = row}
<1>1. PICK pick : Picks(pick, kept, k, D)
  BY DEF Top
<1>2. /\ kept \in Seq(RowSet(k)) /\ n \in Nat /\ DOMAIN kept = 1..n /\ n = Limit(c)
      /\ \A i \in 1..n : pick[i] \in D /\ kept[i] = pick[i][3]
      /\ \A i, j \in 1..n : pick[i] = pick[j] => i = j
      /\ \A i \in 1..n, d \in D : RowBefore(d[3], kept[i]) => \E p \in 1..(i - 1) : pick[p] = d
  BY <1>1, LenProperties DEF Picks
<1>3. c \in Nat /\ c # 0 /\ IsFiniteSet(D) /\ TopN \in Nat
  BY FS_CardinalityType, FS_EmptySet, PoolAssumption DEF RowsDue
<1>4. n >= 1
  <2> HIDE DEF n, c
  <2> QED
    BY <1>2, <1>3 DEF Limit
<1>5. \A row : IsFiniteSet(C(row)) /\ Cardinality(C(row)) \in Nat
  BY <1>3, FS_Subset, FS_CardinalityType
<1>6. \A row : IsFiniteSet(CK(row)) /\ Cardinality(CK(row)) \in Nat
  <2>1. IsFiniteSet(1..n)
    BY <1>2, OneTo
  <2> QED
    BY <1>2, <2>1, FS_Subset, FS_CardinalityType
<1>7. Len(kept) = IF TopN = 0 \/ TopN > Cardinality(D) THEN Cardinality(D) ELSE TopN
  BY <1>2 DEF Limit
<1>a. Last(kept) = kept[n]
  BY DEF Last
<1> HIDE DEF n, c
<1>8. ASSUME NEW i \in 2..n, RowBefore(kept[i], kept[i - 1]) PROVE FALSE
  <2>1. i \in 1..n /\ i - 1 \in 1..n
    BY <1>2
  <2>2. pick[i] \in D /\ RowBefore(pick[i][3], kept[i - 1])
    BY <1>2, <1>8, <2>1
  <2>3. PICK p \in 1..((i - 1) - 1) : pick[p] = pick[i]
    BY <1>2, <2>1, <2>2
  <2>4. p \in 1..n /\ p # i
    BY <1>2, <2>1
  <2> QED
    BY <1>2, <2>1, <2>3, <2>4
<1>9. ASSUME NEW row PROVE Cardinality(CK(row)) <= Cardinality(C(row))
  <2> DEFINE f == [i \in CK(row) |-> pick[i]]
  <2>1. f \in Injection(CK(row), C(row))
    <3>1. \A i \in CK(row) : f[i] = pick[i] /\ f[i] \in C(row)
      BY <1>2
    <3>2. f \in [CK(row) -> C(row)]
      BY <3>1
    <3>3. \A i, j \in CK(row) : f[i] = f[j] => i = j
      BY <1>2, <3>1
    <3> HIDE DEF f, CK, C
    <3> QED
      BY <3>2, <3>3 DEF Injection, IsInjective
  <2> HIDE DEF f, CK, C
  <2> QED
    BY <1>5, <1>6, <2>1, FS_Injection
<1>10. ASSUME NEW d \in D, Cardinality(C(d[3])) > Cardinality(CK(d[3])), RowBefore(d[3], kept[n])
       PROVE  FALSE
  <2> DEFINE row == d[3]
             g == [e \in C(row) |-> CHOOSE p \in 1..n : pick[p] = e]
  <2>1. \A e \in C(row) : \E p \in 1..n : pick[p] = e
    <3> TAKE e \in C(row)
    <3>1. n \in 1..n /\ e \in D /\ RowBefore(e[3], kept[n])
      BY <1>2, <1>4, <1>10
    <3>2. PICK p \in 1..(n - 1) : pick[p] = e
      BY <1>2, <3>1
    <3>3. p \in 1..n
      BY <1>2
    <3> QED
      BY <3>2, <3>3
  <2>2. \A e \in C(row) : g[e] \in 1..n /\ pick[g[e]] = e
    BY <2>1
  <2>3. \A e \in C(row) : g[e] \in CK(row)
    <3> HIDE DEF g
    <3> QED
      BY <1>2, <2>2
  <2>4. g \in Injection(C(row), CK(row))
    <3>1. g \in [C(row) -> CK(row)]
      BY <2>3
    <3> HIDE DEF g, C, CK
    <3> QED
      BY <2>2, <3>1 DEF Injection, IsInjective
  <2>5. Cardinality(C(row)) <= Cardinality(CK(row))
    <3> HIDE DEF g, C, CK
    <3> QED
      BY <1>5, <1>6, <2>4, FS_Injection
  <2> HIDE DEF C, CK
  <2> QED
    BY <1>5, <1>6, <1>10, <2>5
<1>11. /\ \A i \in 2..Len(kept) : ~RowBefore(kept[i], kept[i - 1])
       /\ \A i \in DOMAIN kept : Cardinality(CK(kept[i])) <= Cardinality(C(kept[i]))
       /\ \A d \in D : Cardinality(C(d[3])) > Cardinality(CK(d[3])) => ~RowBefore(d[3], Last(kept))
  BY <1>8, <1>9, <1>10, <1>a DEF n
<1> QED
  BY <1>7, <1>11 DEF KeptIsExact

(* So the hours are those of the rows due ... *)
LEMMA HoursAreExact ==
  ASSUME HoursOf(merged, kind, Due), RowsDue(Due, kind)
  PROVE  HoursExact
<1>1. DOMAIN merged = {d[3].hour : d \in Due}
  BY DEF HoursOf
<1>2. ASSUME NEW h \in DOMAIN merged
      PROVE  KeptIsExact(merged[h], {d \in Due : d[3].hour = h})
  <2> DEFINE D == InHour(Due, h)
  <2>1. D \in SUBSET Due /\ D # {}
    BY <1>1 DEF InHour
  <2>2. RowsDue(D, kind) /\ Top(merged[h], kind, D)
    BY <2>1, DueSubset DEF HoursOf
  <2> HIDE DEF D
  <2>3. KeptIsExact(merged[h], D)
    BY <2>1, <2>2, TopIsExact
  <2> QED
    BY <2>3 DEF D, InHour
<1> QED
  BY <1>1, <1>2, Zenon DEF HoursExact, KeptIsExact

(* ... and the groups theirs. *)
LEMMA GroupsAreExact ==
  ASSUME GroupsOf(merged, kind, Due)
  PROVE  GroupsExact
  BY Zenon DEF GroupsOf, GroupsExact, StatFor, OfKey, Micros

(* Whatever files there are, however many workers read them and in whatever *)
(* order their results arrive, a report holds the rows of the files that    *)
(* were received and did not fail, and nothing else: in groups, each with   *)
(* the sum and the number of its rows, or by hour, the TopN first of each   *)
(* (Build and BuildRaw of contextreport and errorreport).                   *)
THEOREM ReportIsExact == Spec => []MergedIsExact
<1>1. Collecting => MergedIsExact
  <2> SUFFICES ASSUME Collecting PROVE MergedIsExact
    OBVIOUS
  <2>1. CASE mode = "raw"
    <3>1. HoursExact
      BY <2>1, HoursAreExact DEF Collecting, Gathers
    <3> QED
      BY <2>1, <3>1 DEF Collecting, MergedIsExact
  <2>2. CASE mode # "raw"
    <3>1. GroupsExact
      BY <2>2, GroupsAreExact DEF Collecting, Gathers
    <3> QED
      BY <2>2, <3>1 DEF Collecting, MergedIsExact
  <2> QED
    BY <2>1, <2>2
<1> QED
  BY <1>1, CollectingInvariant, PTL

-------------------------------------------------------------------------------
(* The entries of a set, each once. *)
LEMMA InSomeOrder ==
  ASSUME NEW S, IsFiniteSet(S)
  PROVE  /\ SetToSeq(S) \in Seq(S) /\ Len(SetToSeq(S)) = Cardinality(S) /\ Cardinality(S) \in Nat
         /\ \A i, j \in 1..Len(SetToSeq(S)) : SetToSeq(S)[i] = SetToSeq(S)[j] => i = j
         /\ \A x \in S : \E i \in 1..Len(SetToSeq(S)) : SetToSeq(S)[i] = x
<1> DEFINE n == Cardinality(S)
           s == SetToSeq(S)
<1>1. n \in Nat /\ ExistsBijection(1..n, S)
  BY FS_CardinalityType
<1>2. \E f \in [1..n -> S] : IsInjective(f)
  BY <1>1 DEF ExistsBijection, Bijection, Injection
<1>3. s \in [1..n -> S] /\ IsInjective(s)
  <2>1. s = CHOOSE f \in [1..n -> S] : IsInjective(f)
    BY DEF SetToSeq
  <2> HIDE DEF s, n
  <2> QED
    BY <1>2, <2>1
<1> HIDE DEF s
<1>4. s \in Seq(S) /\ Len(s) = n /\ DOMAIN s = 1..n
  BY <1>1, <1>3
<1>5. s \in Injection(1..n, S)
  BY <1>3 DEF Injection
<1>6. IsFiniteSet(1..n) /\ Cardinality(1..n) = n
  <2> HIDE DEF n
  <2> QED
    BY <1>1, OneTo
<1>7. s \in Surjection(1..n, S)
  BY <1>5, <1>6, FS_Injection
<1> HIDE DEF n
<1>8. \A x \in S : \E i \in 1..n : s[i] = x
  BY <1>7 DEF Surjection
<1>9. \A i, j \in 1..n : s[i] = s[j] => i = j
  BY <1>3, <1>4 DEF IsInjective
<1> QED
  BY <1>1, <1>4, <1>8, <1>9 DEF s, n

(* The numbers of a set in their order. *)
Less(S) == {p \in S \X S : p[1] < p[2]}
Numbers(S) == StableSort(SetToSeq(S), <)

(* The numbers are in strict order ... *)
LEMMA LessOrders ==
  ASSUME NEW S \in SUBSET Int
  PROVE  Orders(Less(S), S) /\ \A a, b \in S : <<a, b>> \in Less(S) <=> a < b
<1>1. \A a, b \in S : <<a, b>> \in Less(S) <=> a < b
  BY DEF Less
<1>2. \A a \in S : a \in Int
  OBVIOUS
<1> QED
  BY <1>1, <1>2 DEF Orders

(* ... sorting them is sorting by it ... *)
LEMMA NumberSort ==
  ASSUME NEW S \in SUBSET Int, NEW L \in Seq(S)
  PROVE  StableSort(L, <) = SortBy(L, Less(S))
<1> DEFINE n == Len(L)
           R == Less(S)
           Place(i) == 1 + Cardinality({j \in 1..n : L[j] < L[i] \/ (~(L[i] < L[j]) /\ j < i)})
           placed == {<<Place(i), L[i]>> : i \in 1..n}
           sorted == StableSort(L, <)
<1>0. \A i, j \in 1..n : L[i] < L[j] <=> <<L[i], L[j]>> \in R
  BY ElementOfSeq, LessOrders
<1>a. Orders(R, S) /\ L \in Seq(S)
  BY LessOrders
<1> HIDE DEF R
<1>1. ASSUME NEW i \in 1..n
      PROVE  Place(i) = PlaceOf(L, R, i)
  <2>1. \A j \in 1..n : Ahead(L, R, j, i) <=> L[j] < L[i] \/ (~(L[i] < L[j]) /\ j < i)
    BY <1>0 DEF Ahead
  <2> QED
    BY <2>1, Zenon DEF PlaceOf
<1>2. sorted = [m \in 1..n |-> (CHOOSE p \in placed : p[1] = m)[2]]
  BY DEF StableSort
<1> HIDE DEF Place, sorted
<1>3. placed = {<<PlaceOf(L, R, i), L[i]>> : i \in 1..n}
  BY <1>1
<1> HIDE DEF placed
<1>4. [m \in 1..Len(L) |-> (CHOOSE p \in {<<PlaceOf(L, R, i), L[i]>> : i \in 1..Len(L)} : p[1] = m)[2]]
        = SortBy(L, R)
  BY <1>a, PlacedIsSorted, Zenon
<1>5. sorted = SortBy(L, R)
  BY <1>2, <1>3, <1>4
<1> QED
  BY <1>5 DEF R, sorted

(* ... and lists each number once, ascending. *)
LEMMA NumbersInOrder ==
  ASSUME NEW S \in SUBSET Int, IsFiniteSet(S)
  PROVE  /\ Numbers(S) \in Seq(S) /\ Len(Numbers(S)) \in Nat /\ DOMAIN Numbers(S) = 1..Len(Numbers(S))
         /\ \A i \in 1..Len(Numbers(S)) : Numbers(S)[i] \in S
         /\ \A x \in S : \E i \in 1..Len(Numbers(S)) : Numbers(S)[i] = x
         /\ \A i, j \in 1..Len(Numbers(S)) : i < j => Numbers(S)[i] < Numbers(S)[j]
<1> DEFINE L == SetToSeq(S)
           R == Less(S)
           s == Numbers(S)
           n == Len(L)
<1>1. /\ L \in Seq(S) /\ \A i, j \in 1..n : L[i] = L[j] => i = j
      /\ \A x \in S : \E i \in 1..n : L[i] = x
  BY InSomeOrder
<1>2. Orders(R, S) /\ \A a, b \in S : <<a, b>> \in R <=> a < b
  BY LessOrders
<1>3. s = SortBy(L, R)
  <2> HIDE DEF L
  <2> QED
    BY <1>1, NumberSort DEF Numbers, L
<1> HIDE DEF L, R, s
<1>4. n \in Nat /\ \A i \in 1..n : L[i] \in S
  BY <1>1, LenProperties, ElementOfSeq
<1>5. /\ Len(s) = n /\ s \in Seq(S)
      /\ \A i \in 1..n : s[PlaceOf(L, R, i)] = L[i]
  BY <1>1, <1>2, <1>3, SortByLook
<1>6. /\ \A i \in 1..n : PlaceOf(L, R, i) \in 1..n
      /\ \A q \in 1..n : \E i \in 1..n : PlaceOf(L, R, i) = q
  BY <1>1, <1>2, PlacesInOrder
<1>7. \A x \in S : \E i \in 1..n : s[i] = x
  BY <1>1, <1>5, <1>6
<1>8. \A i, j \in 1..n : s[i] = s[j] => i = j
  <2> TAKE i, j \in 1..n
  <2> HAVE s[i] = s[j]
  <2>1. PICK a \in 1..n : PlaceOf(L, R, a) = i
    BY <1>6
  <2>2. PICK b \in 1..n : PlaceOf(L, R, b) = j
    BY <1>6
  <2>3. a = b
    BY <1>1, <1>5, <2>1, <2>2
  <2> QED
    BY <2>1, <2>2, <2>3
<1>9. \A i \in 1..n : s[i] \in S
  BY <1>5, ElementOfSeq
<1>10. ASSUME NEW i \in 1..n, NEW j \in 1..n, i < j PROVE s[i] < s[j]
  <2>1. <<s[j], s[i]>> \notin R
    BY <1>1, <1>2, <1>3, <1>10, SortByInOrder DEF n
  <2>2. ~(s[j] < s[i]) /\ s[i] \in Int /\ s[j] \in Int
    BY <1>2, <1>9, <2>1
  <2>3. s[i] # s[j]
    BY <1>4, <1>8, <1>10
  <2> QED
    BY <2>2, <2>3
<1> HIDE DEF n
<1> QED
  BY <1>4, <1>5, <1>7, <1>9, <1>10, LenProperties DEF s

-------------------------------------------------------------------------------
(* GroupBefore orders the rows of groups. *)
Names(k) == IF k = "error" THEN {"EXCP", "QERR"} ELSE {""}
GroupRows(k) == [key : Names(k) \X Seq(Int), total : Int, count : Nat]
GroupOrder(k) == {p \in GroupRows(k) \X GroupRows(k) : GroupBefore(k, p[1], p[2])}

(* The order of groups as a relation, ... *)
LEMMA GroupOrderIs ==
  ASSUME NEW k
  PROVE  \A a, b \in GroupRows(k) : <<a, b>> \in GroupOrder(k) <=> GroupBefore(k, a, b)
  BY DEF GroupOrder

(* Of two rows, the one whose key comes first. *)
KeyBefore(a, b) ==
  \/ NameBefore(a.key[1], b.key[1])
  \/ a.key[1] = b.key[1] /\ TextBefore(a.key[2], b.key[2])

(* ... where keys that differ are in order ... *)
LEMMA KeysInLine ==
  ASSUME NEW k
  PROVE  /\ \A a \in GroupRows(k) : ~KeyBefore(a, a)
         /\ \A a, b, c \in GroupRows(k) : KeyBefore(a, b) /\ KeyBefore(b, c) => KeyBefore(a, c)
         /\ \A a, b, c \in GroupRows(k) : KeyBefore(a, c) => KeyBefore(a, b) \/ KeyBefore(b, c)
<1> DEFINE S == GroupRows(k)
           T == Seq(Int)
<1>1. \A a \in S : a.key[1] \in Names(k) /\ a.key[2] \in T
  BY DEF GroupRows
<1>2. \/ \A x, y \in Names(k) : x = y /\ ~NameBefore(x, y)
      \/ Names(k) = {"EXCP", "QERR"}
  <2>1. CASE k = "error"
    BY <2>1 DEF Names
  <2>2. CASE k # "error"
    <3>1. Names(k) = {""}
      BY <2>2 DEF Names
    <3>2. "" # "EXCP"
      OBVIOUS
    <3> QED
      BY <3>1, <3>2 DEF NameBefore
  <2> QED
    BY <2>1, <2>2
<1>3. /\ \A x \in Names(k) : ~NameBefore(x, x)
      /\ \A x, y, z \in Names(k) : ~(NameBefore(x, y) /\ NameBefore(y, z))
      /\ \A x, y \in Names(k) : x = y \/ NameBefore(x, y) \/ NameBefore(y, x)
  BY <1>2 DEF NameBefore
<1>4. /\ \A s \in T : ~TextBefore(s, s)
      /\ \A r, s, t \in T : TextBefore(r, s) /\ TextBefore(s, t) => TextBefore(r, t)
      /\ \A r, s \in T : r = s \/ TextBefore(r, s) \/ TextBefore(s, r)
  BY TextsInLine
<1> HIDE DEF S, T
<1>5. ASSUME NEW a \in S PROVE ~KeyBefore(a, a)
  BY <1>1, <1>3, <1>4 DEF KeyBefore
<1>6. ASSUME NEW a \in S, NEW b \in S, NEW c \in S, KeyBefore(a, b), KeyBefore(b, c)
      PROVE  KeyBefore(a, c)
  <2> DEFINE x == a.key[1]
             y == b.key[1]
             z == c.key[1]
             r == a.key[2]
             s == b.key[2]
             t == c.key[2]
  <2>1. x \in Names(k) /\ y \in Names(k) /\ z \in Names(k) /\ r \in T /\ s \in T /\ t \in T
    BY <1>1
  <2>2. NameBefore(x, y) \/ (x = y /\ TextBefore(r, s))
    BY <1>6 DEF KeyBefore
  <2>3. NameBefore(y, z) \/ (y = z /\ TextBefore(s, t))
    BY <1>6 DEF KeyBefore
  <2> HIDE DEF x, y, z, r, s, t
  <2>4. NameBefore(x, z) \/ (x = z /\ TextBefore(r, t))
    BY <1>3, <1>4, <2>1, <2>2, <2>3
  <2> QED
    BY <2>4 DEF KeyBefore, x, z, r, t
<1>7. ASSUME NEW a \in S, NEW b \in S, NEW c \in S, KeyBefore(a, c)
      PROVE  KeyBefore(a, b) \/ KeyBefore(b, c)
  <2> DEFINE x == a.key[1]
             y == b.key[1]
             z == c.key[1]
             r == a.key[2]
             s == b.key[2]
             t == c.key[2]
  <2>1. x \in Names(k) /\ y \in Names(k) /\ z \in Names(k) /\ r \in T /\ s \in T /\ t \in T
    BY <1>1
  <2>2. NameBefore(x, z) \/ (x = z /\ TextBefore(r, t))
    BY <1>7 DEF KeyBefore
  <2> HIDE DEF x, y, z, r, s, t
  <2>3. \/ NameBefore(x, y) \/ (x = y /\ TextBefore(r, s))
        \/ NameBefore(y, z) \/ (y = z /\ TextBefore(s, t))
    BY <1>3, <1>4, <2>1, <2>2
  <2> QED
    BY <2>3 DEF KeyBefore, x, y, z, r, s, t
<1> QED
  BY <1>5, <1>6, <1>7 DEF S

(* ... and so are the groups. *)
LEMMA GroupsInLine ==
  ASSUME NEW k
  PROVE  Orders(GroupOrder(k), GroupRows(k))
<1> DEFINE S == GroupRows(k)
           TotalBefore(a, b) == a.total > b.total \/ (a.total = b.total /\ KeyBefore(a, b))
           CountBefore(a, b) == a.count > b.count \/ (a.count = b.count /\ TotalBefore(a, b))
<1>1. \A a \in S : a.total \in Int /\ a.count \in Nat
  BY DEF GroupRows
<1>2. /\ \A a \in S : ~KeyBefore(a, a)
      /\ \A a, b, c \in S : KeyBefore(a, b) /\ KeyBefore(b, c) => KeyBefore(a, c)
      /\ \A a, b, c \in S : KeyBefore(a, c) => KeyBefore(a, b) \/ KeyBefore(b, c)
  BY KeysInLine
<1>3. \A a, b : GroupBefore(k, a, b) <=> IF k = "error" THEN CountBefore(a, b) ELSE TotalBefore(a, b)
  BY Zenon DEF GroupBefore, KeyBefore
<1> HIDE DEF S
<1>4. /\ \A a \in S : ~TotalBefore(a, a)
      /\ \A a, b, c \in S : TotalBefore(a, b) /\ TotalBefore(b, c) => TotalBefore(a, c)
      /\ \A a, b, c \in S : TotalBefore(a, c) => TotalBefore(a, b) \/ TotalBefore(b, c)
  BY <1>1, <1>2
<1> HIDE DEF TotalBefore
<1>5. /\ \A a \in S : ~CountBefore(a, a)
      /\ \A a, b, c \in S : CountBefore(a, b) /\ CountBefore(b, c) => CountBefore(a, c)
      /\ \A a, b, c \in S : CountBefore(a, c) => CountBefore(a, b) \/ CountBefore(b, c)
  BY <1>1, <1>4
<1> HIDE DEF CountBefore
<1>6. \A a, b \in S : <<a, b>> \in GroupOrder(k) <=> GroupBefore(k, a, b)
  BY GroupOrderIs DEF S
<1> QED
  BY <1>3, <1>4, <1>5, <1>6 DEF Orders, S

(* Sorting the rows of groups is sorting by their pairs. *)
GroupsSorted(k, L) ==
  LET BeforeOf(a, b) == GroupBefore(k, a, b)
  IN  StableSort(L, BeforeOf)

(* The rows of a report are the groups, sorted by it. *)
LEMMA GroupSort ==
  ASSUME NEW k, NEW L \in Seq(GroupRows(k))
  PROVE  GroupsSorted(k, L) = SortBy(L, GroupOrder(k))
<1> DEFINE n == Len(L)
           R == GroupOrder(k)
           S == GroupRows(k)
           Place(i) == 1 + Cardinality({j \in 1..n :
                         GroupBefore(k, L[j], L[i]) \/ (~GroupBefore(k, L[i], L[j]) /\ j < i)})
           placed == {<<Place(i), L[i]>> : i \in 1..n}
           sorted == GroupsSorted(k, L)
<1>1. \A i, j \in 1..n : GroupBefore(k, L[i], L[j]) <=> <<L[i], L[j]>> \in R
  BY ElementOfSeq, GroupOrderIs
<1>2. Orders(R, S) /\ L \in Seq(S)
  BY GroupsInLine
<1> HIDE DEF R, S
<1>3. ASSUME NEW i \in 1..n
      PROVE  Place(i) = PlaceOf(L, R, i)
  <2>1. \A j \in 1..n : Ahead(L, R, j, i) <=>
          GroupBefore(k, L[j], L[i]) \/ (~GroupBefore(k, L[i], L[j]) /\ j < i)
    BY <1>1 DEF Ahead
  <2> QED
    BY <2>1, Zenon DEF PlaceOf
<1>4. sorted = [m \in 1..n |-> (CHOOSE p \in placed : p[1] = m)[2]]
  BY DEF GroupsSorted, StableSort
<1> HIDE DEF Place, sorted
<1>5. placed = {<<PlaceOf(L, R, i), L[i]>> : i \in 1..n}
  BY <1>3
<1> HIDE DEF placed
<1>6. [m \in 1..Len(L) |-> (CHOOSE p \in {<<PlaceOf(L, R, i), L[i]>> : i \in 1..Len(L)} : p[1] = m)[2]]
        = SortBy(L, R)
  BY <1>2, PlacedIsSorted, Zenon
<1>7. sorted = SortBy(L, R)
  BY <1>4, <1>5, <1>6
<1> QED
  BY <1>7 DEF R, sorted

-------------------------------------------------------------------------------
(* The rows of a report are groups in this order, and those left out come   *)
(* after them.                                                              *)
GroupRow(groups, key) == [key |-> key, total |-> groups[key].total, count |-> groups[key].count]

RowsRank(rows, k, groups) ==
  /\ ToSet(rows) \subseteq DOMAIN groups
  /\ Cardinality(ToSet(rows)) = Len(rows)
  /\ Len(rows) = TopN \/ ToSet(rows) = DOMAIN groups
  /\ \A i \in DOMAIN rows : \A g \in DOMAIN groups \ {rows[j] : j \in 1..i} :
       ~GroupBefore(k, GroupRow(groups, g), GroupRow(groups, rows[i]))

(* A list of different values has as many as it has places. *)
LEMMA DifferentValues ==
  ASSUME NEW n \in Nat, NEW s, DOMAIN s = 1..n, \A i, j \in 1..n : s[i] = s[j] => i = j
  PROVE  IsFiniteSet(ToSet(s)) /\ Cardinality(ToSet(s)) = n
<1> DEFINE f == [i \in 1..n |-> s[i]]
           T == ToSet(s)
<1>1. \A y : y \in T <=> \E i \in 1..n : s[i] = y
  BY Elements
<1> HIDE DEF T
<1>2. f \in [1..n -> T] /\ \A i \in 1..n : f[i] = s[i]
  BY <1>1
<1> HIDE DEF f
<1>3. f \in Injection(1..n, T) /\ f \in Surjection(1..n, T)
  BY <1>1, <1>2 DEF Injection, Surjection, IsInjective
<1>4. IsFiniteSet(1..n) /\ Cardinality(1..n) = n
  BY OneTo
<1> QED
  BY <1>3, <1>4, FS_Surjection DEF T

(* So the rows of a report are ranked, and there is one for each group. *)
LEMMA RowsAreRanked ==
  ASSUME NEW k, NEW groups, IsFiniteSet(DOMAIN groups), RowsOfGroups(groups) \in SUBSET GroupRows(k)
  PROVE  LET built == BuildRows(k, groups)
         IN  /\ Len(built) \in Nat /\ DOMAIN built = 1..Len(built)
             /\ RowsRank([i \in DOMAIN built |-> built[i].key], k, groups)
<1> DEFINE G == RowsOfGroups(groups)
           L == SetToSeq(G)
           R == GroupOrder(k)
           S == GroupRows(k)
           s == BuildRows(k, groups)
           n == Len(L)
           m == Len(s)
           rows == [i \in DOMAIN s |-> s[i].key]
<1>1. /\ \A g \in DOMAIN groups : GroupRow(groups, g) \in G
      /\ \A x \in G : x.key \in DOMAIN groups /\ x = GroupRow(groups, x.key)
  BY DEF RowsOfGroups, GroupRow
<1>2. \A g : GroupRow(groups, g).key = g
  BY DEF GroupRow
<1>3. IsFiniteSet(G)
  <2> DEFINE f == [g \in DOMAIN groups |-> GroupRow(groups, g)]
  <2>1. \A g \in DOMAIN groups : f[g] = GroupRow(groups, g)
    OBVIOUS
  <2>2. f \in [DOMAIN groups -> G]
    BY <1>1
  <2> HIDE DEF G, f
  <2>3. f \in Surjection(DOMAIN groups, G)
    BY <1>1, <2>1, <2>2 DEF Surjection
  <2> QED
    BY <2>3, FS_Surjection
<1>4. /\ L \in Seq(G) /\ \A i, j \in 1..n : L[i] = L[j] => i = j
      /\ \A x \in G : \E i \in 1..n : L[i] = x
  <2> HIDE DEF G
  <2> QED
    BY <1>3, InSomeOrder
<1>5. L \in Seq(S) /\ \A i \in 1..n : L[i] \in G
  <2> HIDE DEF L, S, G
  <2>1. G \in SUBSET S
    BY DEF G, S
  <2> QED
    BY <1>4, <2>1, ElementOfSeq
<1>6. Orders(R, S) /\ TopN \in Nat /\ \A a, b \in S : <<a, b>> \in R <=> GroupBefore(k, a, b)
  BY GroupsInLine, PoolAssumption, GroupOrderIs
<1>7. s = Firsts(L, R, TopN)
  <2>1. s = IF TopN > 0 THEN Cut(GroupsSorted(k, L), TopN) ELSE GroupsSorted(k, L)
    BY DEF BuildRows, GroupsSorted
  <2> HIDE DEF s, L
  <2>2. GroupsSorted(k, L) = SortBy(L, R)
    BY <1>5, GroupSort
  <2> QED
    BY <2>1, <2>2 DEF Firsts
<1> HIDE DEF R, S, s, L, G
<1>8. /\ s \in Seq(S) /\ m = IF TopN = 0 \/ TopN > n THEN n ELSE TopN
      /\ \E to : FirstOf(to, s, L, R)
  BY <1>5, <1>6, <1>7, SortedCut
<1>9. PICK to : FirstOf(to, s, L, R)
  BY <1>8
<1>10. n \in Nat /\ m \in Nat /\ DOMAIN s = 1..m
  BY <1>5, <1>8, LenProperties
<1>11. /\ \A i \in 1..m : to[i] \in 1..n /\ s[i] = L[to[i]]
       /\ \A i, j \in 1..m : to[i] = to[j] => i = j
       /\ \A i \in 1..m, j \in 1..n : <<L[j], s[i]>> \in R => \E p \in 1..(i - 1) : to[p] = j
  BY <1>9 DEF FirstOf
<1>12. \A i \in 1..m : s[i] \in G /\ s[i].key \in DOMAIN groups /\ s[i] = GroupRow(groups, s[i].key)
  BY <1>1, <1>5, <1>11
<1> HIDE DEF n, m
<1>13. DOMAIN rows = 1..m /\ Len(rows) = m /\ \A i \in 1..m : rows[i] = s[i].key
  BY <1>10
<1> HIDE DEF rows
<1>14. \A i, j \in 1..m : rows[i] = rows[j] => i = j
  <2> TAKE i, j \in 1..m
  <2> HAVE rows[i] = rows[j]
  <2>1. s[i] = s[j]
    BY <1>12, <1>13
  <2>2. L[to[i]] = L[to[j]] /\ to[i] \in 1..n /\ to[j] \in 1..n
    BY <1>11, <2>1
  <2> QED
    BY <1>4, <1>11, <2>2 DEF n
<1>15. ToSet(rows) \subseteq DOMAIN groups
  BY <1>12, <1>13, Elements
<1>16. Cardinality(ToSet(rows)) = Len(rows)
  BY <1>10, <1>13, <1>14, DifferentValues
<1>17. Len(rows) = TopN \/ ToSet(rows) = DOMAIN groups
  <2> SUFFICES ASSUME m # TopN, NEW g \in DOMAIN groups PROVE g \in ToSet(rows)
    BY <1>13, <1>15
  <2>1. m = n
    BY <1>8
  <2>2. PICK j \in 1..n : L[j] = GroupRow(groups, g)
    BY <1>1, <1>4 DEF n
  <2> DEFINE f == [i \in 1..n |-> to[i]]
  <2>3. f \in [1..n -> 1..n] /\ \A i \in 1..n : f[i] = to[i]
    BY <1>11, <2>1
  <2> HIDE DEF f
  <2>4. f \in Injection(1..n, 1..n)
    BY <1>11, <2>1, <2>3 DEF Injection, IsInjective
  <2>5. IsFiniteSet(1..n)
    BY <1>10, OneTo
  <2>6. f \in Surjection(1..n, 1..n)
    BY <2>4, <2>5, FS_Injection
  <2>7. PICK i \in 1..n : f[i] = j
    BY <2>6 DEF Surjection
  <2>8. s[i] = GroupRow(groups, g) /\ i \in 1..m
    BY <1>11, <2>1, <2>2, <2>3, <2>7
  <2>9. rows[i] = g
    BY <1>2, <1>13, <2>8
  <2> QED
    BY <1>13, <2>8, <2>9, Elements
<1>18. ASSUME NEW i \in DOMAIN rows, NEW g \in DOMAIN groups \ {rows[j] : j \in 1..i},
              GroupBefore(k, GroupRow(groups, g), GroupRow(groups, rows[i]))
       PROVE  FALSE
  <2>1. i \in 1..m /\ GroupRow(groups, rows[i]) = s[i]
    BY <1>12, <1>13
  <2>2. PICK j \in 1..n : L[j] = GroupRow(groups, g)
    BY <1>1, <1>4 DEF n
  <2>3. L[j] \in S /\ s[i] \in S
    BY <1>5, <1>8, <2>1, ElementOfSeq DEF n, m
  <2>4. <<L[j], s[i]>> \in R
    BY <1>6, <1>18, <2>1, <2>2, <2>3
  <2>5. PICK p \in 1..(i - 1) : to[p] = j
    BY <1>11, <2>1, <2>4
  <2>6. p \in 1..m /\ p \in 1..i
    BY <1>10, <2>1
  <2>7. s[p] = GroupRow(groups, g)
    BY <1>11, <2>2, <2>5, <2>6
  <2>8. rows[p] = g
    BY <1>2, <1>13, <2>6, <2>7
  <2> QED
    BY <2>6, <2>8
<1>19. RowsRank(rows, k, groups)
  BY <1>15, <1>16, <1>17, <1>18 DEF RowsRank
<1> QED
  BY <1>10, <1>19 DEF rows, s, m

-------------------------------------------------------------------------------
(* FlattenSeq of the community modules puts one list after the other. *)
Flattens(f, s) == f = [i \in 1..Len(s) |-> IF i = 1 THEN s[i] ELSE f[i - 1] \o s[i]]

(* Lists are joined by a function that exists, ... *)
LEMMA FlattenExists ==
  ASSUME NEW s, Len(s) \in Nat
  PROVE  \E f : Flattens(f, s)
<1> DEFINE E(f, i) == IF i = 1 THEN s[i] ELSE f[i - 1] \o s[i]
           K == {m \in Nat : \E f : f = [i \in 1..m |-> E(f, i)]}
<1>1. 0 \in K
  <2> DEFINE f == [i \in 1..0 |-> s[i]]
  <2>1. \A i \in 1..0 : E(f, i) = s[i]
    OBVIOUS
  <2>2. f = [i \in 1..0 |-> E(f, i)]
    BY <2>1
  <2> QED
    BY <2>2
<1>2. ASSUME NEW m \in Nat, m \in K PROVE m + 1 \in K
  <2>1. PICK f : f = [i \in 1..m |-> E(f, i)]
    BY <1>2
  <2> DEFINE g == [i \in 1..(m + 1) |-> E(f, i)]
             F(i) == E(g, i)
             G(i) == E(f, i)
  <2>2. \A i \in 1..m : g[i] = f[i]
    <3>1. \A i \in 1..m : i \in 1..(m + 1)
      OBVIOUS
    <3> QED
      BY <2>1, <3>1
  <2>3. \A i \in 1..(m + 1) : i = 1 \/ i - 1 \in 1..m
    OBVIOUS
  <2>4. \A i \in 1..(m + 1) : F(i) = G(i)
    <3> HIDE DEF g
    <3> QED
      BY <2>2, <2>3
  <2>5. g = [i \in 1..(m + 1) |-> G(i)]
    OBVIOUS
  <2> HIDE DEF F, G, g
  <2>6. g = [i \in 1..(m + 1) |-> F(i)]
    BY <2>4, <2>5
  <2>7. \E h : h = [i \in 1..(m + 1) |-> E(h, i)]
    <3> HIDE DEF E
    <3> QED
      BY <2>6 DEF F
  <2> HIDE DEF E
  <2> QED
    BY <2>7
<1>3. Len(s) \in K
  <2> HIDE DEF K
  <2> QED
    BY <1>1, <1>2, NumbersByStep
<1> QED
  BY <1>3 DEF Flattens

(* ... one list after the other. *)
LEMMA FlattenSteps ==
  ASSUME NEW s, Len(s) \in Nat, Len(s) # 0
  PROVE  \E f : /\ FlattenSeq(s) = f[Len(s)] /\ f[1] = s[1]
                /\ \A i \in 1..Len(s) : i # 1 => f[i] = f[i - 1] \o s[i]
<1> DEFINE f == CHOOSE f : Flattens(f, s)
<1>1. Flattens(f, s)
  BY FlattenExists, Zenon
<1>2. FlattenSeq(s) = f[Len(s)]
  BY DEF FlattenSeq, Flattens
<1> HIDE DEF f
<1>3. \A i \in 1..Len(s) : f[i] = IF i = 1 THEN s[i] ELSE f[i - 1] \o s[i]
  BY <1>1 DEF Flattens
<1>4. 1 \in 1..Len(s)
  OBVIOUS
<1> QED
  BY <1>2, <1>3, <1>4

-------------------------------------------------------------------------------
(* The list has the hours of the set S in their order, each with its rows. *)
HourRow(hours, h) == [hour |-> h, events |-> hours[h]]
HourRows(hours, S) == {HourRow(hours, h) : h \in S}

HoursListed(list, hours, S) ==
  /\ list \in Seq(HourRows(hours, S))
  /\ \A h \in S : \E i \in 1..Len(list) : list[i] = HourRow(hours, h)
  /\ \A i, j \in 1..Len(list) : i < j => list[i].hour < list[j].hour

(* The rows listed of an hour are those kept of it ... *)
LEMMA HourRowsAre ==
  ASSUME NEW list, NEW hours, NEW S, list \in Seq(HourRows(hours, S))
  PROVE  /\ Len(list) \in Nat /\ DOMAIN list = 1..Len(list)
         /\ \A i \in 1..Len(list) : list[i].hour \in S /\ list[i] = HourRow(hours, list[i].hour)
<1> DEFINE R == HourRows(hours, S)
<1>1. \A r \in R : r.hour \in S /\ r = HourRow(hours, r.hour)
  BY DEF HourRows, HourRow
<1> HIDE DEF R
<1>2. list \in Seq(R)
  BY DEF R
<1> QED
  BY <1>1, <1>2, LenProperties, ElementOfSeq

(* ... and those of a day the rows of its hours, in turn. *)
LEMMA ListsJoined ==
  ASSUME NEW hours, NEW A \in SUBSET Int, NEW B \in SUBSET Int, \A x \in A, y \in B : x < y,
         NEW a, HoursListed(a, hours, A), NEW b, HoursListed(b, hours, B)
  PROVE  HoursListed(a \o b, hours, A \cup B)
<1> DEFINE U == A \cup B
           R == HourRows(hours, U)
           l == Len(a)
           m == Len(b)
           c == a \o b
<1>1. /\ l \in Nat /\ \A i \in 1..l : a[i].hour \in A
      /\ \A h \in A : \E i \in 1..l : a[i] = HourRow(hours, h)
      /\ \A i, j \in 1..l : i < j => a[i].hour < a[j].hour
  BY HourRowsAre DEF HoursListed
<1>2. /\ m \in Nat /\ \A i \in 1..m : b[i].hour \in B
      /\ \A h \in B : \E i \in 1..m : b[i] = HourRow(hours, h)
      /\ \A i, j \in 1..m : i < j => b[i].hour < b[j].hour
  BY HourRowsAre DEF HoursListed
<1>3. a \in Seq(R) /\ b \in Seq(R)
  <2>1. HourRows(hours, A) \in SUBSET R /\ HourRows(hours, B) \in SUBSET R
    BY DEF HourRows
  <2>2. a \in Seq(HourRows(hours, A)) /\ b \in Seq(HourRows(hours, B))
    BY DEF HoursListed
  <2> DEFINE X == HourRows(hours, A)
             Y == HourRows(hours, B)
  <2> HIDE DEF R, X, Y
  <2>3. Len(a) \in Nat /\ Len(b) \in Nat /\ a \in [1..Len(a) -> X] /\ b \in [1..Len(b) -> Y]
    BY <2>2, LenProperties DEF X, Y
  <2>4. a \in [1..Len(a) -> R] /\ b \in [1..Len(b) -> R]
    BY <2>1, <2>3 DEF X, Y
  <2> QED
    BY <2>3, <2>4
<1> HIDE DEF R
<1>4. /\ c \in Seq(R) /\ Len(c) = l + m
      /\ \A i \in 1..(l + m) : c[i] = IF i <= l THEN a[i] ELSE b[i - l]
  BY <1>3, ConcatProperties
<1> HIDE DEF l, m, c
<1>5. /\ \A i \in 1..l : i \in 1..(l + m) /\ c[i] = a[i]
      /\ \A i \in 1..m : l + i \in 1..(l + m) /\ c[l + i] = b[i]
  <2>1. \A i \in 1..l : i \in 1..(l + m) /\ c[i] = a[i]
    BY <1>1, <1>2, <1>4
  <2>2. ASSUME NEW i \in 1..m PROVE l + i \in 1..(l + m) /\ c[l + i] = b[i]
    <3>1. l + i \in 1..(l + m) /\ ~(l + i <= l) /\ (l + i) - l = i
      BY <1>1, <1>2
    <3> QED
      BY <1>4, <3>1
  <2> QED
    BY <2>1, <2>2
<1>6. \A h \in U : \E i \in 1..(l + m) : c[i] = HourRow(hours, h)
  BY <1>1, <1>2, <1>5
<1>7. ASSUME NEW i \in 1..(l + m), NEW j \in 1..(l + m), i < j
      PROVE  c[i].hour < c[j].hour
  <2>1. CASE j <= l
    <3>1. i \in 1..l /\ j \in 1..l
      BY <1>1, <1>2, <1>7, <2>1
    <3> QED
      BY <1>1, <1>5, <1>7, <3>1
  <2>2. CASE i <= l /\ ~(j <= l)
    <3>1. i \in 1..l /\ j - l \in 1..m /\ l + (j - l) = j
      BY <1>1, <1>2, <2>2
    <3>2. c[i] = a[i] /\ c[j] = b[j - l]
      BY <1>5, <3>1
    <3> QED
      BY <1>1, <1>2, <3>1, <3>2
  <2>3. CASE ~(i <= l)
    <3>1. /\ i - l \in 1..m /\ j - l \in 1..m /\ l + (j - l) = j /\ l + (i - l) = i
          /\ i - l < j - l
      BY <1>1, <1>2, <1>7, <2>3
    <3>2. c[i] = b[i - l] /\ c[j] = b[j - l]
      BY <1>5, <3>1
    <3> QED
      BY <1>2, <3>1, <3>2
  <2>4. j <= l \/ (i <= l /\ ~(j <= l)) \/ ~(i <= l)
    OBVIOUS
  <2> QED
    BY <2>1, <2>2, <2>3, <2>4
<1> QED
  BY <1>4, <1>6, <1>7 DEF HoursListed, R, c

-------------------------------------------------------------------------------
(* The days of a report. *)
OfDay(hours, date) == {h \in DOMAIN hours : h \div DayMinutes = date}
Dates(hours) == Numbers({h \div DayMinutes : h \in DOMAIN hours})

DayHours(hours, date) ==
  [i \in DOMAIN Numbers(OfDay(hours, date)) |-> HourRow(hours, Numbers(OfDay(hours, date))[i])]

(* The days of a report, in order of their date, each with the rows of its   *)
(* hours.                                                                    *)
LEMMA DaysAre ==
  ASSUME NEW hours
  PROVE  BuildDays(hours) = [d \in DOMAIN Dates(hours) |->
                               [date |-> Dates(hours)[d], hours |-> DayHours(hours, Dates(hours)[d])]]
  BY Zenon DEF BuildDays, Dates, Numbers, DayHours, OfDay, HourRow

(* Each day with rows is listed once. *)
LEMMA DayIsListed ==
  ASSUME NEW hours, DOMAIN hours \in SUBSET Int, IsFiniteSet(DOMAIN hours), NEW date
  PROVE  HoursListed(DayHours(hours, date), hours, OfDay(hours, date))
<1> DEFINE S == OfDay(hours, date)
           s == Numbers(S)
           n == Len(s)
           R == HourRows(hours, S)
           list == DayHours(hours, date)
<1>1. S \in SUBSET Int /\ IsFiniteSet(S)
  BY FS_Subset DEF OfDay
<1> HIDE DEF S
<1>2. /\ n \in Nat /\ DOMAIN s = 1..n /\ \A i \in 1..n : s[i] \in S
      /\ \A x \in S : \E i \in 1..n : s[i] = x
      /\ \A i, j \in 1..n : i < j => s[i] < s[j]
  BY <1>1, NumbersInOrder
<1>3. list = [i \in DOMAIN s |-> HourRow(hours, s[i])]
  BY DEF DayHours, S
<1> HIDE DEF s, n, list, R
<1>4. /\ list = [i \in 1..n |-> HourRow(hours, s[i])]
      /\ \A i \in 1..n : list[i] = HourRow(hours, s[i])
  BY <1>2, <1>3
<1>5. \A i \in 1..n : HourRow(hours, s[i]) \in R
  BY <1>2 DEF HourRows, R
<1>6. list \in [1..n -> R]
  BY <1>4, <1>5
<1>7. list \in Seq(R) /\ Len(list) = n
  BY <1>2, <1>6
<1>8. \A i \in 1..n : list[i].hour = s[i]
  BY <1>4 DEF HourRow
<1> QED
  BY <1>2, <1>4, <1>7, <1>8 DEF HoursListed, R, S, list

DaysRank(days, hours) ==
  LET all == FlattenSeq([d \in DOMAIN days |-> days[d].hours])
  IN  /\ {<<all[i].hour, all[i].events>> : i \in DOMAIN all} = {<<h, hours[h]>> : h \in DOMAIN hours}
      /\ \A i \in 2..Len(all) : all[i - 1].hour < all[i].hour
      /\ \A d \in DOMAIN days : \A i \in DOMAIN days[d].hours : days[d].hours[i].hour \div DayMinutes = days[d].date
      /\ \A d \in 2..Len(days) : days[d - 1].date < days[d].date

(* A later day has later hours. *)
LEMMA LaterDay == \A x, y \in Int : x \div DayMinutes < y \div DayMinutes => x < y
  BY DEF DayMinutes

(* So the days, and the rows in each hour of them, are ranked. *)
LEMMA DaysAreRanked ==
  ASSUME NEW hours, DOMAIN hours \in SUBSET Int, IsFiniteSet(DOMAIN hours)
  PROVE  DaysRank(BuildDays(hours), hours)
<1> DEFINE H == DOMAIN hours
           T == {h \div DayMinutes : h \in H}
           dates == Dates(hours)
           n == Len(dates)
           days == BuildDays(hours)
           lists == [d \in DOMAIN days |-> days[d].hours]
           all == FlattenSeq(lists)
           Upto(m) == {h \in H : \E d \in 1..m : h \div DayMinutes = dates[d]}
<1>1. IsFiniteSet(T) /\ T \in SUBSET Int
  <2> DEFINE f == [h \in H |-> h \div DayMinutes]
  <2>1. \A h \in H : h \div DayMinutes \in Int
    BY DEF DayMinutes
  <2>2. f \in Surjection(H, T)
    BY DEF Surjection
  <2>3. IsFiniteSet(T)
    <3> HIDE DEF f, T
    <3> QED
      BY <2>2, FS_Surjection
  <2> QED
    BY <2>1, <2>3
<1>2. /\ n \in Nat /\ DOMAIN dates = 1..n /\ \A d \in 1..n : dates[d] \in T
      /\ \A t \in T : \E d \in 1..n : dates[d] = t
      /\ \A d, e \in 1..n : d < e => dates[d] < dates[e]
  <2> HIDE DEF T
  <2>1. dates = Numbers(T)
    BY DEF Dates, T
  <2> QED
    BY <1>1, <2>1, NumbersInOrder
<1>3. days = [d \in 1..n |-> [date |-> dates[d], hours |-> DayHours(hours, dates[d])]]
  <2>1. days = [d \in DOMAIN dates |-> [date |-> dates[d], hours |-> DayHours(hours, dates[d])]]
    BY DaysAre
  <2> HIDE DEF days, dates
  <2> QED
    BY <1>2, <2>1
<1> HIDE DEF dates, n, days
<1>4. /\ DOMAIN days = 1..n /\ Len(days) = n
      /\ \A d \in 1..n : days[d].date = dates[d] /\ days[d].hours = DayHours(hours, dates[d])
  BY <1>2, <1>3
<1>5. DOMAIN lists = 1..n /\ Len(lists) = n /\ \A d \in 1..n : lists[d] = DayHours(hours, dates[d])
  BY <1>2, <1>4
<1> HIDE DEF lists
<1>6. \A d \in 1..n : HoursListed(lists[d], hours, OfDay(hours, dates[d]))
  BY <1>5, DayIsListed
<1>7. \A d \in 1..n : OfDay(hours, dates[d]) \in SUBSET H
  BY DEF OfDay
<1>8. Upto(n) = H
  BY <1>2
<1>9. HoursListed(all, hours, H)
  <2>1. CASE n = 0
    <3>1. H = {}
      <4>1. \A h \in H : h \div DayMinutes \in T
        OBVIOUS
      <4> HIDE DEF H, T
      <4> QED
        BY <1>2, <2>1, <4>1
    <3>2. all = lists
      BY <1>5, <2>1 DEF FlattenSeq
    <3>3. lists = <<>>
      BY <1>5, <2>1
    <3>4. <<>> \in Seq(HourRows(hours, H)) /\ Len(<<>>) = 0
      OBVIOUS
    <3> QED
      BY <3>1, <3>2, <3>3, <3>4 DEF HoursListed
  <2>2. CASE n # 0
    <3>1. PICK f : /\ all = f[n] /\ f[1] = lists[1]
                   /\ \A i \in 1..n : i # 1 => f[i] = f[i - 1] \o lists[i]
      <4>1. Len(lists) \in Nat /\ Len(lists) # 0 /\ Len(lists) = n
        BY <1>2, <1>5, <2>2
      <4> HIDE DEF n
      <4>2. \E f : /\ FlattenSeq(lists) = f[Len(lists)] /\ f[1] = lists[1]
                   /\ \A i \in 1..Len(lists) : i # 1 => f[i] = f[i - 1] \o lists[i]
        BY <4>1, FlattenSteps
      <4> QED
        BY <4>1, <4>2
    <3> DEFINE K == {m \in Nat : m \in 1..n => HoursListed(f[m], hours, Upto(m))}
    <3>2. 0 \in K
      OBVIOUS
    <3>3. ASSUME NEW m \in Nat, m \in K PROVE m + 1 \in K
      <4> SUFFICES ASSUME m + 1 \in 1..n PROVE HoursListed(f[m + 1], hours, Upto(m + 1))
        OBVIOUS
      <4>1. CASE m = 0
        <5>1. Upto(1) = OfDay(hours, dates[1])
          BY DEF OfDay
        <5> HIDE DEF Upto
        <5>2. HoursListed(f[1], hours, Upto(1))
          BY <1>6, <3>1, <4>1, <5>1
        <5> QED
          BY <4>1, <5>2
      <4>2. CASE m # 0
        <5> DEFINE A == Upto(m)
                   B == OfDay(hours, dates[m + 1])
        <5>1. m \in 1..n /\ m + 1 # 1 /\ (m + 1) - 1 = m
          BY <1>2, <4>2
        <5>2. f[m + 1] = f[m] \o lists[m + 1]
          BY <3>1, <5>1
        <5>3. HoursListed(f[m], hours, A) /\ HoursListed(lists[m + 1], hours, B)
          BY <1>6, <3>3, <5>1
        <5>4. Upto(m + 1) = A \cup B
          <6>1. /\ \A d \in 1..m : d \in 1..(m + 1)
                /\ \A d \in 1..(m + 1) : d \in 1..m \/ d = m + 1
                /\ m + 1 \in 1..(m + 1)
            OBVIOUS
          <6> QED
            BY <6>1, Zenon DEF OfDay
        <5>5. A \in SUBSET Int /\ B \in SUBSET Int
          BY <1>7
        <5>6. ASSUME NEW x \in A, NEW y \in B PROVE x < y
          <6>1. PICK d \in 1..m : x \div DayMinutes = dates[d]
            OBVIOUS
          <6>2. y \div DayMinutes = dates[m + 1]
            BY DEF OfDay
          <6>3. d \in 1..n /\ m + 1 \in 1..n /\ d < m + 1
            BY <1>2, <5>1
          <6>4. dates[d] < dates[m + 1]
            BY <1>2, <6>3
          <6>5. x \in Int /\ y \in Int /\ x \div DayMinutes < y \div DayMinutes
            BY <5>5, <6>1, <6>2, <6>4
          <6> QED
            BY <6>5, LaterDay
        <5> HIDE DEF A, B, Upto
        <5>7. HoursListed(f[m] \o lists[m + 1], hours, A \cup B)
          BY <5>3, <5>5, <5>6, ListsJoined
        <5> QED
          BY <5>2, <5>4, <5>7
      <4> QED
        BY <4>1, <4>2
    <3>4. n \in K
      <4> HIDE DEF K
      <4> QED
        BY <1>2, <3>2, <3>3, NumbersByStep
    <3>5. HoursListed(f[n], hours, Upto(n))
      BY <1>2, <2>2, <3>4
    <3> HIDE DEF Upto, all
    <3> QED
      BY <1>8, <3>1, <3>5
  <2> QED
    BY <2>1, <2>2
<1> HIDE DEF all, Upto
<1>10. /\ Len(all) \in Nat /\ DOMAIN all = 1..Len(all)
       /\ \A i \in 1..Len(all) : all[i].hour \in H /\ all[i] = HourRow(hours, all[i].hour)
       /\ \A h \in H : \E i \in 1..Len(all) : all[i] = HourRow(hours, h)
       /\ \A i, j \in 1..Len(all) : i < j => all[i].hour < all[j].hour
  BY <1>9, HourRowsAre DEF HoursListed
<1>11. {<<all[i].hour, all[i].events>> : i \in DOMAIN all} = {<<h, hours[h]>> : h \in H}
  <2>1. \A h : HourRow(hours, h).hour = h /\ HourRow(hours, h).events = hours[h]
    BY DEF HourRow
  <2>2. \A i \in 1..Len(all) : all[i].hour \in H /\ all[i].events = hours[all[i].hour]
    BY <1>10, <2>1
  <2>3. \A h \in H : \E i \in 1..Len(all) : all[i].hour = h /\ all[i].events = hours[h]
    BY <1>10, <2>1
  <2> DEFINE P(i) == <<all[i].hour, all[i].events>>
             Q(h) == <<h, hours[h]>>
  <2>4. (\A i \in DOMAIN all : P(i) = Q(all[i].hour)) /\ \A h \in H : \E i \in DOMAIN all : P(i) = Q(h)
    BY <1>10, <2>2, <2>3
  <2>5. \A i \in DOMAIN all : all[i].hour \in H
    BY <1>10
  <2> HIDE DEF P, Q, H
  <2>6. {P(i) : i \in DOMAIN all} = {Q(h) : h \in H}
    BY <2>4, <2>5
  <2> QED
    BY <2>6 DEF P, Q
<1>12. \A i \in 2..Len(all) : all[i - 1].hour < all[i].hour
  <2> TAKE i \in 2..Len(all)
  <2>1. i - 1 \in 1..Len(all) /\ i \in 1..Len(all) /\ i - 1 < i
    BY <1>10
  <2> QED
    BY <1>10, <2>1
<1>13. \A d \in DOMAIN days : \A i \in DOMAIN days[d].hours : days[d].hours[i].hour \div DayMinutes = days[d].date
  <2> TAKE d \in DOMAIN days
  <2> DEFINE list == days[d].hours
             S == OfDay(hours, dates[d])
  <2>1. HoursListed(list, hours, S) /\ days[d].date = dates[d]
    BY <1>4, <1>5, <1>6
  <2>2. \A x \in S : x \div DayMinutes = dates[d]
    BY DEF OfDay
  <2> HIDE DEF list, S
  <2>3. \A i \in DOMAIN list : list[i].hour \in S
    BY <2>1, HourRowsAre DEF HoursListed
  <2>4. \A i \in DOMAIN list : list[i].hour \div DayMinutes = days[d].date
    BY <2>1, <2>2, <2>3
  <2> QED
    BY <2>4 DEF list
<1>14. \A d \in 2..Len(days) : days[d - 1].date < days[d].date
  <2> TAKE d \in 2..Len(days)
  <2>1. d - 1 \in 1..n /\ d \in 1..n /\ d - 1 < d
    BY <1>2, <1>4
  <2> QED
    BY <1>2, <1>4, <2>1
<1> HIDE DEF H
<1>15. DaysRank(days, hours)
  BY <1>11, <1>12, <1>13, <1>14, Zenon DEF DaysRank, all, lists, H
<1> QED
  BY <1>15 DEF days

-------------------------------------------------------------------------------
(* What was gathered can be ranked: there are finitely many groups or hours *)
(* and the groups have the keys of the report.                              *)
LEMMA GatheredTyped ==
  ASSUME NEW m, NEW k, NEW got, NEW D, Gathers(m, k, got, D), RowsDue(D, k)
  PROVE  /\ IsFiniteSet(DOMAIN got)
         /\ m = "raw" => DOMAIN got \in SUBSET Int
         /\ m # "raw" => RowsOfGroups(got) \in SUBSET GroupRows(k)
<1>1. IsFiniteSet(D) /\ \A d \in D : d[3] \in RowSet(k)
  BY DEF RowsDue
<1>2. CASE m = "raw"
  <2>1. DOMAIN got = {d[3].hour : d \in D}
    BY <1>2 DEF Gathers, HoursOf
  <2>2. IsFiniteSet(DOMAIN got)
    <3> DEFINE f == [d \in D |-> d[3].hour]
    <3>1. f \in Surjection(D, DOMAIN got)
      BY <2>1 DEF Surjection
    <3> HIDE DEF f
    <3> QED
      BY <1>1, <3>1, FS_Surjection
  <2>3. \A d \in D : d[3].hour \in Int
    BY <1>1 DEF RowSet
  <2> QED
    BY <1>2, <2>1, <2>2, <2>3
<1>3. CASE m # "raw"
  <2>1. GroupsOf(got, k, D)
    BY <1>3 DEF Gathers
  <2>2. DOMAIN got = {KeyOf(k, d[3]) : d \in D} /\ \A g \in DOMAIN got : got[g] = StatFor(D, k, g)
    BY <2>1 DEF GroupsOf
  <2>3. IsFiniteSet(DOMAIN got)
    <3> DEFINE f == [d \in D |-> KeyOf(k, d[3])]
    <3>1. f \in Surjection(D, DOMAIN got)
      BY <2>2 DEF Surjection
    <3> HIDE DEF f
    <3> QED
      BY <1>1, <3>1, FS_Surjection
  <2>4. \A d \in D : KeyOf(k, d[3]) \in Names(k) \X Seq(Int)
    <3> TAKE d \in D
    <3>1. d[3].event \in EventNames(k) /\ d[3].text \in Seq(Int)
      BY <1>1 DEF RowSet
    <3>2. CASE k = "error"
      <4>1. EventNames(k) = {"EXCP", "QERR"}
        BY <3>2 DEF EventNames
      <4> QED
        BY <3>1, <3>2, <4>1 DEF KeyOf, Names
    <3>3. CASE k # "error"
      BY <3>1, <3>3 DEF KeyOf, Names
    <3> QED
      BY <3>2, <3>3
  <2>5. \A g \in DOMAIN got : got[g].total \in Int /\ got[g].count \in Nat
    <3> TAKE g \in DOMAIN got
    <3> DEFINE S == OfKey(D, k, g)
    <3>1. S \in SUBSET D
      BY DEF OfKey
    <3>2. got[g] = [total |-> Micros(S), count |-> Cardinality(S)]
      BY <2>2 DEF StatFor
    <3> HIDE DEF S
    <3>3. Micros(S) \in Int /\ IsFiniteSet(S)
      BY <3>1, MicrosSteps, MicrosOn
    <3>4. Cardinality(S) \in Nat
      BY <3>3, FS_CardinalityType
    <3> QED
      BY <3>2, <3>3, <3>4
  <2>6. RowsOfGroups(got) \in SUBSET GroupRows(k)
    <3>1. \A g \in DOMAIN got : g \in Names(k) \X Seq(Int)
      BY <2>2, <2>4
    <3>2. \A g \in DOMAIN got : [key |-> g, total |-> got[g].total, count |-> got[g].count] \in GroupRows(k)
      BY <2>5, <3>1 DEF GroupRows
    <3> QED
      BY <3>2 DEF RowsOfGroups
  <2> QED
    BY <1>3, <2>3, <2>6
<1> QED
  BY <1>2, <1>3

(* What Build returns once it has received a result is built from what it   *)
(* has merged.                                                              *)
Reported ==
  /\ stage = "starting" => received = <<>>
  /\ stage = "returned" /\ received # <<>> =>
       report = IF mode = "raw" THEN BuildDays(merged) ELSE BuildRows(kind, merged)

(* At first there is no report ... *)
LEMMA ReportedInitially == Init => Reported
  BY DEF Init, Reported

(* ... and Return writes it from what has been merged. *)
LEMMA ReportedStep == Reported /\ [Next]_vars => Reported'
<1> SUFFICES ASSUME Reported, [Next]_vars PROVE Reported'
  OBVIOUS
<1>1. CASE Start
  BY <1>1 DEF Start, Reported
<1>2. ASSUME NEW w \in Workers, WorkerNext(w) PROVE Reported'
  BY <1>2 DEF WorkerNext, TakeJob, ReadFile, SendResult, LeaveJobs, Reported, input, build
<1>3. CASE CloseJobs \/ CloseResults
  BY <1>3 DEF CloseJobs, CloseResults, Reported, input, build
<1>4. CASE Receive
  BY <1>4 DEF Receive, TakeResult, Reported
<1>5. CASE Return
  <2>1. /\ stage' = "returned" /\ UNCHANGED <<mode, kind, merged>>
        /\ report' = IF mode = "raw" THEN BuildDays(merged) ELSE BuildRows(kind, merged)
    BY <1>5 DEF Return, LeaveLoop, input
  <2> QED
    BY <2>1, Zenon DEF Reported
<1>6. CASE Over \/ UNCHANGED vars
  BY <1>6 DEF Over, Reported, vars, input, build
<1> QED
  BY <1>1, <1>2, <1>3, <1>4, <1>5, <1>6 DEF Next

(* Reported is an invariant of the reports. *)
THEOREM ReportedInvariant == Spec => []Reported
<1>1. Init => Reported
  BY ReportedInitially
<1>2. Reported /\ [Next]_vars => Reported'
  BY ReportedStep
<1> QED
  BY <1>1, <1>2, PTL DEF Spec

(* A report written from exact groups or hours is ranked. *)
LEMMA RankedReport == Collecting /\ Reported => ReportRanks
<1> SUFFICES ASSUME Collecting, Reported, stage = "returned", received # <<>>
             PROVE  IF mode = "raw" THEN DaysRank(report, merged)
                    ELSE RowsRank([i \in DOMAIN report |-> report[i].key], kind, merged)
  BY Zenon DEF ReportRanks, DaysRank, RowsRank, GroupRow
<1>1. /\ IsFiniteSet(DOMAIN merged)
      /\ mode = "raw" => DOMAIN merged \in SUBSET Int
      /\ mode # "raw" => RowsOfGroups(merged) \in SUBSET GroupRows(kind)
  BY GatheredTyped DEF Collecting
<1>2. CASE mode = "raw"
  <2>1. report = BuildDays(merged)
    BY <1>2 DEF Reported
  <2>2. DaysRank(BuildDays(merged), merged)
    BY <1>1, <1>2, DaysAreRanked
  <2> QED
    BY <1>2, <2>1, <2>2
<1>3. CASE mode # "raw"
  <2>1. report = BuildRows(kind, merged)
    BY <1>3 DEF Reported
  <2> DEFINE built == BuildRows(kind, merged)
  <2>2. RowsRank([i \in DOMAIN built |-> built[i].key], kind, merged)
    BY <1>1, <1>3, RowsAreRanked
  <2> QED
    BY <1>3, <2>1, <2>2
<1> QED
  BY <1>2, <1>3

(* For any files and any limit, the report that Build returns lists the     *)
(* first groups of what was merged, in order, each once, and as many as     *)
(* the limit allows; BuildRaw's days list every hour once, in order, below  *)
(* its date (buildRows, buildRawContextDays, buildRawErrorDays).            *)
THEOREM ReportIsRanked == Spec => []ReportRanks
<1>1. Collecting /\ Reported => ReportRanks
  BY RankedReport
<1> QED
  BY <1>1, CollectingInvariant, ReportedInvariant, PTL
===============================================================================
