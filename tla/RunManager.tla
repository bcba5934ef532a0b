------------------------------ MODULE RunManager ------------------------------
(***************************************************************************)
(* The run manager of internal/webserver/manager.go: a bounded table of    *)
(* analysis runs, one builder goroutine per run, a mutex, one context      *)
(* cancel function per active run and a WaitGroup.  HTTP handlers          *)
(* (Clients) create, cancel and delete runs concurrently; Closer is the    *)
(* goroutine of runServe that calls Shutdown.                              *)
(*                                                                         *)
(* A critical section is one action, except the two that loop (eviction in *)
(* Create and at the end of execute): they hold `lock` over several steps, *)
(* so what needs no mutex (calling a cancel function, a builder returning, *)
(* workers.Done, the WaitGroup waiter) interleaves with the loop as it     *)
(* does in the program.                                                    *)
(***************************************************************************)
EXTENDS Integers, FiniteSets, SequencesExt

CONSTANTS Clients,    \* goroutines that call Create, Cancel, CancelAll, Delete
          Closer,     \* the goroutine that calls Shutdown
          MaxRuns,    \* Manager.maxRuns
          MaxActive,  \* Manager.maxActive
          MaxIds      \* bound of the model: Create calls that can succeed

ASSUME ConstantsAssumption ==
  /\ Closer \notin Clients
  /\ MaxRuns \in Nat \ {0}
  /\ MaxActive \in Nat \ {0}
  /\ MaxIds \in Nat

VARIABLES
  status,    \* status[id]: Manager.runs[id].Status; Absent when id is no key of runs
  progress,  \* progress[id]: the phase of Manager.runs[id].Progress
  order,     \* Manager.order: ids, oldest first
  next,      \* Manager.next
  active,    \* Manager.active
  cancels,   \* the keys of Manager.cancels
  closing,   \* Manager.closing
  workers,   \* the counter of Manager.workers
  lock,      \* Manager.mu: "free", or the looping section that holds it
  build,     \* build[id]: what the goroutine of execute(id) is doing
  ctxDone,   \* ids whose context is cancelled (ctx.Err() # nil)
  toCancel,  \* toCancel[g]: cancel functions goroutine g has copied and not yet called
  shut,      \* the stage of the call of Shutdown
  waitDone   \* the channel `done` that Shutdown's waiter goroutine closes

table  == <<status, progress, order, next, active, cancels>>
vars == <<table, closing, workers, lock, build, ctxDone, toCancel, shut, waitDone>>

Ids == 1..MaxIds
Callers == Clients \cup {Closer}
Absent == "absent"
Ended == {"succeeded", "failed", "canceled"}
Statuses == {Absent, "running"} \cup Ended

Terminal(id) == status[id] \in Ended
Running == {id \in Ids : status[id] = "running"}
Retained == {id \in Ids : status[id] # Absent}
(* Goroutines of execute between workers.Add(1) and workers.Done(). *)
Alive == {id \in Ids : build[id] \in {"building", "ok", "error", "recording", "recorded"}}

TypeOK ==
  /\ status \in [Ids -> Statuses]
  /\ progress \in [Ids -> {"starting", "working", "complete"}]
  /\ order \in Seq(Ids)
  /\ next \in 0..MaxIds
  /\ active \in 0..MaxActive
  /\ cancels \subseteq Ids
  /\ closing \in BOOLEAN
  /\ workers \in 0..MaxIds
  /\ lock \in {"free", "create", "finish"}
  /\ build \in [Ids -> {"none", "building", "ok", "error", "recording", "recorded", "exited"}]
  /\ ctxDone \subseteq Ids
  /\ toCancel \in [Callers -> SUBSET Ids]
  /\ shut \in {"idle", "cancelling", "waiting", "nil", "timeout"}
  /\ waitDone \in BOOLEAN

Init ==
  /\ status = [id \in Ids |-> Absent]
  /\ progress = [id \in Ids |-> "starting"]
  /\ order = <<>>
  /\ next = 0
  /\ active = 0
  /\ cancels = {}
  /\ closing = FALSE
  /\ workers = 0
  /\ lock = "free"
  /\ build = [id \in Ids |-> "none"]
  /\ ctxDone = {}
  /\ toCancel = [g \in Callers |-> {}]
  /\ shut = "idle"
  /\ waitDone = FALSE

-------------------------------------------------------------------------------
(* removeLocked: the record goes, and its first occurrence in order. *)

UnlistedNothing(id) == order
Unlisted(id) == RemoveFirst(order, id)

RemoveLocked(id) ==
  /\ status' = [status EXCEPT ![id] = Absent]
  /\ progress' = [progress EXCEPT ![id] = "starting"]
  /\ order' = Unlisted(id)

-------------------------------------------------------------------------------
(* Create: checks, the eviction loop, insertion, all in one critical section. *)

MayAcceptWhileClosing == active < MaxActive
MayAccept == ~closing /\ active < MaxActive

CreateBegin ==
  /\ lock = "free"
  /\ MayAccept
  /\ next < MaxIds
  /\ lock' = "create"
  /\ UNCHANGED <<table, closing, workers, build, ctxDone, toCancel, shut, waitDone>>

(* The loop test of evictForNewRunLocked (Create) or evictLocked (execute). *)
OverLimit == Cardinality(Retained) > (IF lock = "create" THEN MaxRuns - 1 ELSE MaxRuns)

Oldest(id) ==
  \E i \in 1..Len(order) :
    /\ order[i] = id
    /\ Terminal(id)
    /\ \A j \in 1..(i - 1) : ~Terminal(order[j])

(* One iteration: the oldest terminal run leaves the table. *)
EvictOldest ==
  /\ lock \in {"create", "finish"}
  /\ OverLimit
  /\ \E id \in Ids : Oldest(id) /\ RemoveLocked(id)
  /\ UNCHANGED <<next, active, cancels, closing, workers, lock, build, ctxDone,
                 toCancel, shut, waitDone>>

EvictionOver == ~OverLimit \/ ~\E i \in 1..Len(order) : Terminal(order[i])

HasRoomForOneMore == Cardinality(Retained) <= MaxRuns
HasRoom == Cardinality(Retained) < MaxRuns

CreateInsert ==
  /\ lock = "create"
  /\ EvictionOver
  /\ HasRoom
  /\ next' = next + 1
  /\ status' = [status EXCEPT ![next'] = "running"]
  /\ progress' = [progress EXCEPT ![next'] = "starting"]
  /\ order' = Append(order, next')
  /\ active' = active + 1
  /\ cancels' = cancels \cup {next'}
  /\ workers' = workers + 1
  /\ build' = [build EXCEPT ![next'] = "building"]
  /\ lock' = "free"
  /\ UNCHANGED <<closing, ctxDone, toCancel, shut, waitDone>>

CreateFull ==
  /\ lock = "create"
  /\ EvictionOver
  /\ ~HasRoom
  /\ lock' = "free"
  /\ UNCHANGED <<table, closing, workers, build, ctxDone, toCancel, shut, waitDone>>

-------------------------------------------------------------------------------
(* execute: the goroutine of one run. *)

(* The progress callback locks the manager and drops updates of ended runs. *)
ReportProgress(id) ==
  /\ lock = "free"
  /\ build[id] = "building"
  /\ status[id] = "running"
  /\ progress' = [progress EXCEPT ![id] = "working"]
  /\ UNCHANGED <<status, order, next, active, cancels, closing, workers, lock, build,
                 ctxDone, toCancel, shut, waitDone>>

(* The builder may still succeed after its context is cancelled: the last   *)
(* look BuildContext takes at ctx.Err() comes before its return.            *)
BuilderReturns(id, how) ==
  /\ build[id] = "building"
  /\ build' = [build EXCEPT ![id] = how]
  /\ UNCHANGED <<table, closing, workers, lock, ctxDone, toCancel, shut, waitDone>>

OutcomeOfBuilder(id) == IF build[id] = "error" THEN "failed" ELSE "succeeded"

Outcome(id) ==
  CASE id \in ctxDone -> "canceled"
    [] id \notin ctxDone /\ build[id] = "error" -> "failed"
    [] id \notin ctxDone /\ build[id] # "error" -> "succeeded"

(* The last critical section of execute up to the eviction loop; it returns *)
(* at once, and leaves active alone, when the record is gone.               *)
Record(id) ==
  /\ lock = "free"
  /\ build[id] \in {"ok", "error"}
  /\ IF status[id] = Absent
     THEN /\ build' = [build EXCEPT ![id] = "recorded"]
          /\ UNCHANGED <<status, progress, active, cancels, lock>>
     ELSE /\ build' = [build EXCEPT ![id] = "recording"]
          /\ status' = [status EXCEPT ![id] = Outcome(id)]
          /\ progress' = [progress EXCEPT ![id] =
                            IF Outcome(id) = "succeeded" THEN "complete" ELSE @]
          /\ active' = active - 1
          /\ cancels' = cancels \ {id}
          /\ lock' = "finish"
  /\ UNCHANGED <<order, next, closing, workers, ctxDone, toCancel, shut, waitDone>>

(* evictLocked is over: the deferred Unlock. *)
RecordEnd(id) ==
  /\ lock = "finish"
  /\ build[id] = "recording"
  /\ EvictionOver
  /\ lock' = "free"
  /\ build' = [build EXCEPT ![id] = "recorded"]
  /\ UNCHANGED <<table, closing, workers, ctxDone, toCancel, shut, waitDone>>

(* The deferred workers.Done(), after the Unlock. *)
WorkerExit(id) ==
  /\ build[id] = "recorded"
  /\ build' = [build EXCEPT ![id] = "exited"]
  /\ workers' = workers - 1
  /\ UNCHANGED <<table, closing, lock, ctxDone, toCancel, shut, waitDone>>

-------------------------------------------------------------------------------
(* Cancel, CancelAll and Shutdown copy cancel functions under the mutex and *)
(* call them after it is released: the run may end in between.              *)

Cancel(c, id) ==
  /\ lock = "free"
  /\ toCancel[c] = {}
  /\ status[id] = "running"
  /\ toCancel' = [toCancel EXCEPT ![c] = {id} \cap cancels]
  /\ UNCHANGED <<table, closing, workers, lock, build, ctxDone, shut, waitDone>>

CancelAll(c) ==
  /\ lock = "free"
  /\ toCancel[c] = {}
  /\ toCancel' = [toCancel EXCEPT ![c] = cancels]
  /\ UNCHANGED <<table, closing, workers, lock, build, ctxDone, shut, waitDone>>

CancelledByNone(g, id) == ctxDone
CancelledBy(g, id) == ctxDone \cup {id}

CallCancel(g) ==
  /\ \E id \in toCancel[g] :
       /\ ctxDone' = CancelledBy(g, id)
       /\ toCancel' = [toCancel EXCEPT ![g] = @ \ {id}]
  /\ UNCHANGED <<table, closing, workers, lock, build, shut, waitDone>>

DeletableAnyway(id) == status[id] # Absent
Deletable(id) == Terminal(id)

Delete(id) ==
  /\ lock = "free"
  /\ Deletable(id)
  /\ RemoveLocked(id)
  /\ UNCHANGED <<next, active, cancels, closing, workers, lock, build, ctxDone,
                 toCancel, shut, waitDone>>

-------------------------------------------------------------------------------
(* Shutdown. *)

ShutdownForgettingCancels ==
  /\ lock = "free"
  /\ shut = "idle"
  /\ closing' = TRUE
  /\ shut' = "cancelling"
  /\ UNCHANGED <<table, workers, lock, build, ctxDone, toCancel, waitDone>>

ShutdownBegin ==
  /\ lock = "free"
  /\ shut = "idle"
  /\ closing' = TRUE
  /\ toCancel' = [toCancel EXCEPT ![Closer] = cancels]
  /\ shut' = "cancelling"
  /\ UNCHANGED <<table, workers, lock, build, ctxDone, waitDone>>

ShutdownWait ==
  /\ shut = "cancelling"
  /\ toCancel[Closer] = {}
  /\ shut' = "waiting"
  /\ UNCHANGED <<table, closing, workers, lock, build, ctxDone, toCancel, waitDone>>

(* The waiter goroutine outlives a Shutdown that timed out. *)
WaiterDone ==
  /\ shut \in {"waiting", "timeout"}
  /\ ~waitDone
  /\ workers = 0
  /\ waitDone' = TRUE
  /\ UNCHANGED <<table, closing, workers, lock, build, ctxDone, toCancel, shut>>

ShutdownReturnsNil ==
  /\ shut = "waiting"
  /\ waitDone
  /\ shut' = "nil"
  /\ UNCHANGED <<table, closing, workers, lock, build, ctxDone, toCancel, waitDone>>

(* The caller's context may expire at any time, also when done is closed. *)
ShutdownTimesOut ==
  /\ shut = "waiting"
  /\ shut' = "timeout"
  /\ UNCHANGED <<table, closing, workers, lock, build, ctxDone, toCancel, waitDone>>

-------------------------------------------------------------------------------
CreateNext == CreateBegin \/ EvictOldest \/ CreateInsert \/ CreateFull

Execute(id) ==
  \/ ReportProgress(id)
  \/ \E how \in {"ok", "error"} : BuilderReturns(id, how)
  \/ Record(id)
  \/ RecordEnd(id)
  \/ WorkerExit(id)

CallerNext ==
  \/ \E c \in Clients :
       \/ \E id \in Ids : Cancel(c, id)
       \/ CancelAll(c)
  \/ \E g \in Callers : CallCancel(g)
  \/ \E id \in Ids : Delete(id)

ShutdownNext ==
  ShutdownBegin \/ ShutdownWait \/ WaiterDone \/ ShutdownReturnsNil \/ ShutdownTimesOut

Next ==
  \/ CreateNext
  \/ \E id \in Ids : Execute(id)
  \/ CallerNext
  \/ ShutdownNext

Spec == Init /\ [][Next]_vars

(* Goroutines that can run do run: sections end, copied cancel functions are *)
(* called, workers record and exit, Shutdown proceeds and its deadline       *)
(* expires.  A builder must return only once its context is cancelled; no    *)
(* request, and no Shutdown, ever has to arrive.                             *)
Fairness ==
  /\ WF_vars(EvictOldest \/ CreateInsert \/ CreateFull)
  /\ \A id \in Ids :
       /\ WF_vars(id \in ctxDone /\ \E how \in {"ok", "error"} : BuilderReturns(id, how))
       /\ SF_vars(Record(id))
       /\ WF_vars(RecordEnd(id))
       /\ WF_vars(WorkerExit(id))
  /\ \A g \in Callers : WF_vars(CallCancel(g))
  /\ WF_vars(ShutdownWait)
  /\ WF_vars(WaiterDone)
  /\ WF_vars(ShutdownReturnsNil \/ ShutdownTimesOut)

FairSpec == Spec /\ Fairness

-------------------------------------------------------------------------------
(* Retention: the table never holds more than maxRuns runs, whatever order  *)
(* creations, completions, deletions and evictions come in.                 *)
RetentionBounded == Cardinality(Retained) <= MaxRuns

(* The counter that admits new runs, the keys of the cancel functions and   *)
(* the records agree: a run removed while it runs would hold a slot of      *)
(* `active` forever, and one that ended would keep a cancel function.       *)
SlotsMatchRuns ==
  /\ active = Cardinality(Running)
  /\ cancels = Running

(* order lists exactly the retained runs, each once, oldest first: a run    *)
(* missing from it is never listed and never evicted.                       *)
OrderMatchesRuns ==
  /\ {order[i] : i \in 1..Len(order)} = Retained
  /\ \A i, j \in 1..Len(order) : i < j => order[i] < order[j]

(* Shutdown returns nil only when every builder goroutine has exited and    *)
(* every run has ended, and that stays so: no Create slips in afterwards.   *)
ShutdownIsQuiet == shut = "nil" => workers = 0 /\ Alive = {} /\ Running = {}

(* The inductive strengthening: the parts above and what relates the        *)
(* goroutines, the critical sections and the stages of Shutdown to them.    *)
WorkersCounted == workers = Cardinality(Alive)

SectionInv ==
  /\ lock = "create" => ~closing /\ active < MaxActive /\ next < MaxIds
  /\ \A id \in Ids : build[id] = "recording" => lock = "finish"
  /\ \A id, other \in Ids : build[id] = "recording" /\ build[other] = "recording" => id = other

GoroutineInv ==
  \A id \in Ids :
    /\ status[id] = "running" <=> build[id] \in {"building", "ok", "error"}
    /\ id > next => status[id] = Absent /\ build[id] = "none"

ShutdownInv ==
  /\ closing <=> shut # "idle"
  /\ waitDone => closing /\ workers = 0
  /\ shut = "nil" => waitDone

(* Every goroutine of execute is counted once by the WaitGroup, a run is    *)
(* running exactly while its builder has not been recorded, only Create can *)
(* be between its checks and its insertion, and a closed `done` stays true. *)
IInv ==
  /\ TypeOK
  /\ RetentionBounded
  /\ SlotsMatchRuns
  /\ OrderMatchesRuns
  /\ WorkersCounted
  /\ SectionInv
  /\ GoroutineInv
  /\ ShutdownInv

(* Only runs that were accepted have been cancelled or are about to be: a   *)
(* new run starts with a live context.                                      *)
IssuedOnly ==
  /\ ctxDone \subseteq 1..next
  /\ \A g \in Callers : toCancel[g] \subseteq 1..next

(* A run whose cancel function was copied while it ran leaves the running   *)
(* state, although its builder alone might never return.                    *)
CancelTakesEffect ==
  \A id \in Ids :
    (\E g \in Callers : id \in toCancel[g]) ~> status[id] # "running"

(* After Shutdown began, the call returns and all builder goroutines exit,  *)
(* also those that were started by a Create that was ahead of it.           *)
ShutdownSettles == closing ~> shut \in {"nil", "timeout"} /\ workers = 0

(* The manager implements the abstract life of a run. *)
Life == [id \in Ids |->
           CASE id > next -> "new"
             [] id <= next /\ status[id] = Absent -> "gone"
             [] id <= next /\ status[id] # Absent -> status[id]]

Lifecycle == INSTANCE RunLifecycle
               WITH life <- Life,
                    requested <- ctxDone \cap Running,
                    accepting <- ~closing,
                    stopped <- (shut = "nil")

(* Every behaviour of the manager is one RunLifecycle allows: ids are never *)
(* reused, a run ends once, as canceled iff it was cancelled while running, *)
(* only ended runs are discarded, and Shutdown's nil is a true "stopped".   *)
RefinesLifecycle == Lifecycle!Spec
===============================================================================
