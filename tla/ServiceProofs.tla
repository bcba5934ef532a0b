------------------------------ MODULE ServiceProofs ------------------------------
(***************************************************************************)
(* For any number of connections and runs, whatever is asked and whatever  *)
(* fails or takes too long: what runServe returns; what the answer to a    *)
(* comparison says of runs that end and are discarded meanwhile, and what  *)
(* it claims of their results; and what a page of events holds of log      *)
(* files that grow while they are read.                                    *)
(***************************************************************************)
EXTENDS Service, FiniteSetTheorems, SequenceTheorems, WellFoundedInduction, TLAPS

Closing == {"closing", "canceling", "waiting"}

(* What the goroutine of runServe knows at each of its stages: of the       *)
(* server, of the requests in progress and of the error it has received.    *)
StageInv ==
  /\ main = "returned" <=> exit # "none"
  /\ main \in {"canceling", "waiting", "returned"} => ~accepting
  /\ errs \in {"empty", "closed", "failed"}
  /\ server \in {"starting", "serving", "failed", "closed", "drained"}
  /\ errs = "closed" => server \in {"closed", "drained"}
  /\ errs = "failed" => server \in {"failed", "drained"}
  /\ server \in {"closed", "drained"} => signalled /\ main \notin {"starting", "selecting"}
  /\ server = "drained" => main # "draining" /\ InProgress = {}
  /\ main = "starting" => server = "starting"
  /\ main = "selecting" => server \in {"serving", "failed"}
  /\ server = "serving" => main = "selecting"
  /\ main = "draining" => signalled /\ server \in {"closed", "failed"}
  /\ main = "receiving" => signalled /\ server = "drained"
  /\ main \in Closing /\ ~serveErr => server = "drained" /\ errs = "closed"

Tables ==
  /\ asked = [s \in Slots |-> asked[s]]
  /\ answer = [s \in Slots |-> answer[s]]

ServeInv == StageInv /\ Tables

(* Before it listens, the command knows nothing else. *)
LEMMA ServeInitially == Init => ServeInv
  BY DEF Init, ServeInv, StageInv, Tables, Closing

(* A handler touches neither the goroutine of runServe nor whether runs are *)
(* accepted; it answers its own request, or frees its own connection.       *)
LEMMA HandlerShape ==
  ASSUME NEW s \in Slots, Handler(s) \/ ReplySent(s)
  PROVE  /\ UNCHANGED <<command, accepting>>
         /\ \/ UNCHANGED <<asked, answer>>
            \/ Free(s)
            \/ /\ s \in InProgress /\ asked' = asked
               /\ \E r : answer' = [answer EXCEPT ![s] = r]
<1> USE DEF manager
<1>1. ASSUME NEW r, AnswerWith(s, r), Handling(s), UNCHANGED accepting
      PROVE  /\ UNCHANGED <<command, accepting>>
             /\ s \in InProgress /\ asked' = asked
             /\ \E x : answer' = [answer EXCEPT ![s] = x]
  BY <1>1 DEF AnswerWith, Handling
<1>2. CASE Misrouted(s)
  BY <1>1, <1>2 DEF Misrouted
<1>3. CASE Status(s)
  BY <1>1, <1>3 DEF Status, HandledBy
<1>4. CASE CreateRun(s)
  BY <1>1, <1>4 DEF CreateRun, HandledBy
<1>5. CASE CancelRun(s)
  BY <1>1, <1>5 DEF CancelRun, HandledBy
<1>6. CASE DeleteRun(s)
  BY <1>1, <1>6 DEF DeleteRun, HandledBy
<1>7. CASE ShowResult(s)
  <2>1. Handling(s) /\ UNCHANGED accepting /\ \E r : AnswerWith(s, r)
    BY <1>7 DEF ShowResult
  <2> QED
    BY <1>1, <2>1
<1>8. CASE CompareBase(s)
  BY <1>1, <1>8 DEF CompareBase, HandledBy
<1>9. CASE CompareCurrent(s)
  <2>1. Handling(s) /\ UNCHANGED accepting /\ \E r : AnswerWith(s, r)
    BY <1>9 DEF CompareCurrent
  <2> QED
    BY <1>1, <2>1
<1>10. CASE SourceBegins(s)
  BY <1>1, <1>10 DEF SourceBegins, HandledBy
<1>11. CASE ReadsFile(s)
  BY <1>1, <1>11 DEF ReadsFile, Reading
<1>12. CASE SourceEnds(s)
  BY <1>1, <1>12 DEF SourceEnds, Reading
<1>13. CASE SourceAbandoned(s) \/ ReplySent(s)
  BY <1>13 DEF SourceAbandoned, ReplySent
<1> QED
  BY <1>2, <1>3, <1>4, <1>5, <1>6, <1>7, <1>8, <1>9, <1>10, <1>11, <1>12, <1>13 DEF Handler

(* So no request becomes one in progress but by coming. *)
LEMMA HandlersOnlyFinish ==
  ASSUME Tables, NEW s \in Slots, Handler(s) \/ ReplySent(s)
  PROVE  InProgress' \subseteq InProgress /\ Tables'
<1>1. CASE UNCHANGED <<asked, answer>>
  BY <1>1 DEF InProgress, Tables
<1>2. CASE Free(s)
  <2>1. asked' = [asked EXCEPT ![s] = NoRequest] /\ answer' = [answer EXCEPT ![s] = NoReply]
    BY <1>2 DEF Free
  <2>2. Tables'
    BY <2>1 DEF Tables
  <2>3. \A t \in Slots : t # s => asked'[t] = asked[t] /\ answer'[t] = answer[t]
    BY <2>1 DEF Tables
  <2>4. asked'[s] = NoRequest
    BY <2>1 DEF Tables
  <2> QED
    BY <2>2, <2>3, <2>4 DEF InProgress
<1>3. ASSUME s \in InProgress, asked' = asked, NEW r, answer' = [answer EXCEPT ![s] = r]
      PROVE  InProgress' \subseteq InProgress /\ Tables'
  <2>1. Tables'
    BY <1>3 DEF Tables
  <2>2. \A t \in Slots : t # s => answer'[t] = answer[t]
    BY <1>3 DEF Tables
  <2> QED
    BY <1>3, <2>1, <2>2 DEF InProgress
<1> QED
  BY <1>1, <1>2, <1>3, HandlerShape

(* Every step keeps what runServe knows, and returns what it should. *)
ExitIsClean ==
  exit' # exit => /\ ~accepting
                  /\ exit' = "ok" => /\ signalled /\ errs = "closed" /\ ~Connected
                                     /\ RunningRuns = {} /\ InProgress = {}

(* Every step keeps what runServe knows, and ends it as it should. *)
LEMMA ServeStep == ServeInv /\ [Next]_vars => ServeInv' /\ ExitIsClean
<1> SUFFICES ASSUME ServeInv, [Next]_vars PROVE ServeInv' /\ ExitIsClean
  OBVIOUS
<1> USE DEF ServeInv, StageInv, Closing
<1>1. ASSUME NEW s \in Slots, NEW q \in Asks[s], RequestComes(s, q) PROVE ServeInv' /\ ExitIsClean
  <2>1. UNCHANGED <<command, accepting, answer>> /\ server \in {"serving", "failed", "closed"}
        /\ asked' = [asked EXCEPT ![s] = q]
    BY <1>1 DEF RequestComes, manager, Connected
  <2>2. Tables'
    BY <2>1 DEF Tables
  <2> QED
    BY <2>1, <2>2 DEF command, ExitIsClean
<1>2. ASSUME NEW s \in Slots, Handler(s) \/ ReplySent(s) PROVE ServeInv' /\ ExitIsClean
  <2>1. UNCHANGED <<command, accepting>>
    BY <1>2, HandlerShape
  <2>2. InProgress' \subseteq InProgress /\ Tables'
    BY <1>2, HandlersOnlyFinish
  <2>3. InProgress = {} => InProgress' = {}
    BY <2>2
  <2> QED
    BY <2>1, <2>2, <2>3 DEF command, ExitIsClean
<1>3. CASE BuildEnds \/ FilesChange \/ Returned \/ UNCHANGED vars
  <2>1. UNCHANGED <<command, accepting, requests>>
    BY <1>3 DEF BuildEnds, FilesChange, Returned, vars, manager, M!End
  <2>2. InProgress' = InProgress /\ Tables'
    BY <2>1 DEF requests, InProgress, Tables
  <2> QED
    BY <2>1, <2>2 DEF command, ExitIsClean
<1>4. ASSUME UNCHANGED <<accepting, exit, requests>>,
             Signal \/ Listen \/ AcceptFails \/ ServeReturns \/ ReceiveError \/ SeeSignal
               \/ Drained \/ DrainDeadline
      PROVE  ServeInv' /\ ExitIsClean
  <2>1. InProgress' = InProgress /\ Tables' /\ ExitIsClean
    BY <1>4 DEF requests, InProgress, Tables, ExitIsClean
  <2>2. CASE Signal
    BY <1>4, <2>1, <2>2 DEF Signal
  <2>3. CASE Listen
    BY <1>4, <2>1, <2>3 DEF Listen
  <2>4. CASE AcceptFails
    <3>1. /\ server = "serving" /\ server' = "failed" /\ errs' = "failed"
          /\ UNCHANGED <<signalled, main, serveErr, exit, accepting>>
      BY <1>4, <2>4 DEF AcceptFails, manager
    <3>2. main = "selecting"
      BY <3>1
    <3> QED
      BY <2>1, <3>1, <3>2
  <2>5. CASE ServeReturns
    BY <1>4, <2>1, <2>5 DEF ServeReturns
  <2>6. CASE ReceiveError
    <3>1. CASE errs = "failed"
      <4>1. serveErr' = TRUE /\ main' = "closing"
            /\ UNCHANGED <<signalled, server, errs, exit, accepting>>
        BY <1>4, <2>6, <3>1 DEF ReceiveError, manager
      <4> QED
        BY <1>4, <2>1, <2>6, <3>1, <4>1 DEF ReceiveError
    <3>2. CASE errs = "closed"
      <4>1. main = "receiving" /\ server = "drained"
        BY <2>6, <3>2 DEF ReceiveError
      <4> QED
        BY <1>4, <2>1, <2>6, <3>2, <4>1 DEF ReceiveError, manager
    <3> QED
      BY <2>6, <3>1, <3>2 DEF ReceiveError
  <2>7. CASE SeeSignal
    BY <1>4, <2>1, <2>7 DEF SeeSignal
  <2>8. CASE Drained
    BY <1>4, <2>1, <2>8 DEF Drained, AllIdle
  <2>9. CASE DrainDeadline
    BY <1>4, <2>1, <2>9 DEF DrainDeadline
  <2> QED
    BY <1>4, <2>2, <2>3, <2>4, <2>5, <2>6, <2>7, <2>8, <2>9
<1>5. CASE CloseManager \/ CancelBuilds
  <2>1. /\ UNCHANGED <<signalled, server, errs, serveErr, exit, requests>>
        /\ \/ main = "closing" /\ main' = "canceling" /\ accepting' = FALSE
           \/ main = "canceling" /\ main' = "waiting" /\ UNCHANGED accepting
    BY <1>5 DEF CloseManager, CancelBuilds
  <2>2. InProgress' = InProgress /\ Tables'
    BY <2>1 DEF requests, InProgress, Tables
  <2> QED
    BY <2>1, <2>2 DEF ExitIsClean
<1>6. CASE ManagerStopped \/ ManagerDeadline
  <2>1. /\ UNCHANGED <<signalled, server, errs, serveErr, accepting>>
        /\ main = "waiting" /\ main' = "returned"
        /\ asked' = [s \in Slots |-> NoRequest] /\ answer' = [s \in Slots |-> NoReply]
    BY <1>6 DEF ManagerStopped, ManagerDeadline, ProcessEnds, manager, M!Stop
  <2>2. /\ exit' # "none"
        /\ exit' = "ok" => /\ signalled /\ errs = "closed" /\ ~Connected
                           /\ RunningRuns = {} /\ InProgress = {}
    BY <1>6 DEF ManagerStopped, ManagerDeadline, ProcessEnds, ExitCode, M!Stop, M!InLife,
                RunningRuns, Ids, Connected
  <2>3. Tables'
    BY <2>1 DEF Tables
  <2>4. InProgress' = {}
    BY <2>1 DEF InProgress
  <2>5. ServeInv'
    BY <2>1, <2>2, <2>3, <2>4
  <2> QED
    BY <2>1, <2>2, <2>5 DEF ExitIsClean
<1>7. Signal \/ Listen \/ AcceptFails \/ ServeReturns \/ ReceiveError \/ SeeSignal
        \/ Drained \/ DrainDeadline => UNCHANGED <<accepting, exit, requests>>
  BY DEF Signal, Listen, AcceptFails, ServeReturns, ReceiveError, SeeSignal, Drained,
         DrainDeadline, manager
<1> QED
  BY <1>1, <1>2, <1>3, <1>4, <1>5, <1>6, <1>7 DEF Next, Main

(* The process returns nil only after a signal and with nothing left, and   *)
(* never while runs are accepted (runServe, Serve and Manager.Shutdown).    *)
THEOREM ExitsClean == Spec => CleanExit
<1>1. Init => ServeInv
  BY ServeInitially
<1>2. ServeInv /\ [Next]_vars => ServeInv'
  BY ServeStep
<1>3. ServeInv /\ [Next]_vars => [ExitIsClean]_vars
  BY ServeStep
<1>4. Spec => [][ExitIsClean]_vars
  BY <1>1, <1>2, <1>3, PTL DEF Spec
<1> QED
  BY <1>4, PTL DEF CleanExit, ExitIsClean
-------------------------------------------------------------------------------
(* Where a run may have come from: runs end and are discarded, and no way   *)
(* leads back.                                                              *)
Stages == {"new", "running", "gone"} \cup M!Ended
Progress(earlier, later) ==
  /\ later = "new" => earlier = "new"
  /\ later = "running" => earlier \in {"new", "running"}
  /\ later \in M!Ended => earlier \in {"new", "running", later}

(* What a handler of a comparison knows: the runs have only gone on since   *)
(* the request came, and what it has found of the first was true in between.*)
CompareInv(s) ==
  LET q == asked[s]
  IN  /\ \A id \in {q.baseline, q.current} \cap Ids : Progress(seen[s].life[id], life[id])
      /\ work[s].step = "base read" =>
           /\ work[s].base = q.baseline
           /\ work[s].found => SomeTimeAvailable(s, q.baseline)
           /\ ~work[s].found => ~AlwaysAvailable(s, q.baseline)

(* A handler is where its request was routed to. *)
StepInv(s) ==
  /\ "step" \in DOMAIN work[s]
  /\ \/ work[s].step \in {"none", HandlerOf(asked[s])}
     \/ work[s].step = "base read" /\ HandlerOf(asked[s]) = "compare"
     \/ work[s].step = "reading" /\ HandlerOf(asked[s]) = "source"
  /\ HandlerOf(asked[s]) = "compare" /\ work[s].step # "none" => CompareInv(s)

AllTables ==
  /\ Tables
  /\ seen = [s \in Slots |-> seen[s]]
  /\ work = [s \in Slots |-> work[s]]

LookupInv ==
  /\ life \in [Ids -> Stages]
  /\ AllTables
  /\ \A s \in Slots : StepInv(s)

(* Min is the least number of a set: the oldest of the runs that have ended.*)
LEMMA OldestEnded ==
  ASSUME Ended # {}
  PROVE  Min(Ended) \in Ended
<1> DEFINE less == OpToRel(<, Nat)
<1>1. Ended \in SUBSET Nat
  BY ServiceAssumption DEF Ended, Ids, M!Ids
<1>2. IsWellFoundedOn(less, Nat)
  BY NatLessThanWellFounded
<1>3. \A x, y \in Nat : x < y => <<x, y>> \in less
  BY DEF OpToRel
<1> HIDE DEF less
<1>4. PICK m \in Ended : \A k \in Ended : ~(<<k, m>> \in less)
  BY <1>1, <1>2, WFMin
<1>5. \A k \in Ended : k \in Nat /\ m \in Nat /\ ~(k < m)
  BY <1>1, <1>3, <1>4
<1>6. \A k \in Ended : m <= k
  BY <1>5
<1>7. QED
  BY <1>6 DEF Min

(* The manager only moves a run on. *)
LEMMA RunsGoOn ==
  ASSUME life \in [Ids -> Stages], [Next]_vars
  PROVE  /\ life' \in [Ids -> Stages]
         /\ \A id \in Ids : Progress(life[id], life'[id])
<1> DEFINE On == /\ life' \in [Ids -> Stages]
                 /\ \A id \in Ids : Progress(life[id], life'[id])
<1> USE DEF Stages, Progress, M!Ended
<1>1. CASE life' = life
  BY <1>1
<1>2. ASSUME NEW s \in Slots, CreateRun(s) PROVE On
  <2>1. CASE UNCHANGED life
    BY <1>1, <2>1
  <2>2. ASSUME NEW new \in Ids, life[new] = "new",
               life' = [run \in Ids |-> CASE run = new -> "running"
                                          [] run \in Evicted -> "gone"
                                          [] run \notin Evicted \cup {new} -> life[run]]
        PROVE  On
    <3>1. \A run \in Evicted : run \in Ids /\ life[run] \in M!Ended
      BY OldestEnded DEF Evicted, Ended
    <3>2. new \notin Evicted
      BY <2>2, <3>1
    <3>3. life'[new] = "running"
      BY <2>2, <3>2
    <3>4. \A run \in Evicted : life'[run] = "gone"
      BY <2>2, <3>1, <3>2
    <3>5. \A run \in Ids : run \notin Evicted /\ run # new => life'[run] = life[run]
      BY <2>2
    <3>6. DOMAIN life' = Ids /\ life' = [run \in Ids |-> life'[run]]
      BY <2>2
    <3>7. \A id \in Ids : life'[id] \in Stages /\ Progress(life[id], life'[id])
      BY <2>2, <3>1, <3>3, <3>4, <3>5
    <3>8. QED
      BY <3>6, <3>7
  <2>3. QED
    BY <1>2, <2>1, <2>2 DEF CreateRun
<1>3. ASSUME NEW s \in Slots, DeleteRun(s) PROVE On
  <2>1. life' = [run \in Ids |-> IF run = asked[s].id /\ asked[s].id \in Ended
                                 THEN "gone" ELSE life[run]]
    BY <1>3 DEF DeleteRun
  <2>2. \A id \in Ids : \/ life'[id] = life[id]
                        \/ life[id] \in M!Ended /\ life'[id] = "gone"
    BY <2>1 DEF Ended
  <2>3. QED
    BY <2>1, <2>2
<1>4. CASE BuildEnds
  <2>1. PICK id \in Ids, outcome \in M!Ended :
          life[id] = "running" /\ life' = [life EXCEPT ![id] = outcome]
    BY <1>4 DEF BuildEnds, M!End
  <2>2. QED
    BY <2>1
<1>5. ASSUME NEW s \in Slots, NEW q \in Asks[s], RequestComes(s, q) PROVE On
  BY <1>1, <1>5 DEF RequestComes, manager
<1>6. ASSUME NEW s \in Slots, ReplySent(s) PROVE On
  BY <1>1, <1>6 DEF ReplySent, manager
<1>7. ASSUME NEW s \in Slots, Handler(s) PROVE On
  <2>1. CASE CreateRun(s) \/ DeleteRun(s)
    BY <1>2, <1>3, <2>1
  <2>2. CASE CancelRun(s)
    BY <1>1, <2>2 DEF CancelRun
  <2>3. CASE ~(CreateRun(s) \/ DeleteRun(s) \/ CancelRun(s))
    BY <1>1, <1>7, <2>3 DEF Handler, Misrouted, Status, ShowResult, CompareBase, CompareCurrent,
       SourceBegins, ReadsFile, SourceEnds, SourceAbandoned, manager
  <2>4. QED
    BY <2>1, <2>2, <2>3
<1>8. CASE FilesChange \/ Signal \/ AcceptFails \/ ServeReturns \/ Main \/ Returned \/ UNCHANGED vars
  BY <1>1, <1>8 DEF FilesChange, Signal, AcceptFails, ServeReturns, Main, Returned, Listen,
     ReceiveError, SeeSignal, Drained, DrainDeadline, CloseManager, CancelBuilds, ManagerStopped,
     ManagerDeadline, M!Stop, manager, vars
<1>9. QED
  BY <1>4, <1>5, <1>6, <1>7, <1>8 DEF Next

(* What a run went through in two parts it went through in all. *)
LEMMA ProgressComposes ==
  ASSUME NEW a, NEW b \in Stages, NEW c, Progress(a, b), Progress(b, c)
  PROVE  Progress(a, c)
  BY DEF Progress, Stages, M!Ended

Same(s) == /\ asked'[s] = asked[s] /\ seen'[s] = seen[s]
           /\ work'[s] = work[s] /\ answer'[s] = answer[s]

(* What a handler knows stays true while it waits for its turn. *)
LEMMA Waits ==
  ASSUME LookupInv, [Next]_vars, NEW s \in Slots, Same(s)
  PROVE  StepInv(s)'
<1>1. StepInv(s)
  BY DEF LookupInv
<1>2. \A id \in Ids : /\ life[id] \in Stages /\ life'[id] \in Stages
                      /\ Progress(life[id], life'[id])
  BY RunsGoOn DEF LookupInv
<1>3. ASSUME HandlerOf(asked[s]) = "compare", work[s].step # "none", CompareInv(s)
      PROVE  CompareInv(s)'
  <2> DEFINE q == asked[s]
  <2>1. \A id \in {q.baseline, q.current} \cap Ids :
          Progress(seen[s].life[id], life[id]) /\ Progress(seen[s].life[id], life'[id])
    <3>1. ASSUME NEW id \in {q.baseline, q.current} \cap Ids
          PROVE  Progress(seen[s].life[id], life[id]) /\ Progress(seen[s].life[id], life'[id])
      <4>1. Progress(seen[s].life[id], life[id])
        BY <1>3 DEF CompareInv
      <4>2. QED
        BY <1>2, <3>1, <4>1, ProgressComposes
    <3>2. QED
      BY <3>1
  <2>2. ASSUME work[s].step = "base read", work[s].found PROVE SomeTimeAvailable(s, q.baseline)'
    <3>1. SomeTimeAvailable(s, q.baseline)
      BY <1>3, <2>2 DEF CompareInv
    <3>2. q.baseline \in Ids /\ life[q.baseline] \in {"succeeded", "gone"}
      BY <3>1 DEF SomeTimeAvailable
    <3>3. life'[q.baseline] \in {"succeeded", "gone"}
      BY <1>2, <3>2 DEF Progress, Stages, M!Ended
    <3>4. QED
      BY <3>1, <3>3 DEF SomeTimeAvailable, Same
  <2>3. ASSUME work[s].step = "base read", ~work[s].found PROVE ~AlwaysAvailable(s, q.baseline)'
    <3>1. ~AlwaysAvailable(s, q.baseline)
      BY <1>3, <2>3 DEF CompareInv
    <3>2. CASE q.baseline \in Ids /\ seen[s].life[q.baseline] = "succeeded"
      <4>1. life[q.baseline] # "succeeded"
        BY <3>1, <3>2 DEF AlwaysAvailable
      <4>2. life[q.baseline] = "gone"
        BY <1>2, <2>1, <3>2, <4>1 DEF Progress, Stages, M!Ended
      <4>3. life'[q.baseline] # "succeeded"
        BY <1>2, <3>2, <4>2 DEF Progress, M!Ended
      <4>4. QED
        BY <4>3 DEF AlwaysAvailable, Same
    <3>3. CASE ~(q.baseline \in Ids /\ seen[s].life[q.baseline] = "succeeded")
      BY <3>3 DEF AlwaysAvailable, Same
    <3>4. QED
      BY <3>2, <3>3
  <2>4. QED
    BY <1>3, <2>1, <2>2, <2>3 DEF CompareInv, Same
<1>4. QED
  BY <1>1, <1>3 DEF StepInv, Same

(* A request changes nothing for the others. *)
LEMMA OthersWait ==
  ASSUME AllTables, NEW s \in Slots, NEW a, NEW b, NEW c, NEW d,
         asked' = asked \/ asked' = [asked EXCEPT ![s] = a],
         seen' = seen \/ seen' = [seen EXCEPT ![s] = b],
         work' = work \/ work' = [work EXCEPT ![s] = c],
         answer' = answer \/ answer' = [answer EXCEPT ![s] = d]
  PROVE  AllTables' /\ \A u \in Slots : u # s => Same(u)
  BY DEF AllTables, Tables, Same

(* One that is answered is with no handler any more. *)
LEMMA Leaves ==
  ASSUME AllTables, NEW s \in Slots,
         \/ Free(s)
         \/ \E reply : AnswerWith(s, reply)
  PROVE  /\ AllTables' /\ \A u \in Slots : u # s => Same(u)
         /\ StepInv(s)'
<1>1. AllTables' /\ \A u \in Slots : u # s => Same(u)
  <2>1. CASE Free(s)
    BY <2>1, OthersWait DEF Free
  <2>2. ASSUME NEW reply, AnswerWith(s, reply)
        PROVE  AllTables' /\ \A u \in Slots : u # s => Same(u)
    BY <2>2, OthersWait DEF AnswerWith
  <2>3. QED
    BY <2>1, <2>2
<1>2. work' = [work EXCEPT ![s] = NoWork]
  BY DEF Free, AnswerWith
<1>3. work'[s] = NoWork
  BY <1>2 DEF AllTables
<1>4. QED
  BY <1>1, <1>3 DEF StepInv, NoWork

(* A handler answers, gives up, or goes on to its second step. *)
ReadsBase(s) ==
  /\ work[s].step = "compare"
  /\ work' = [work EXCEPT ![s] = [step |-> "base read", found |-> Available(asked[s].baseline),
                                  base |-> asked[s].baseline]]
  /\ UNCHANGED <<asked, seen, answer, life>>

ReadsOn(s) ==
  /\ work[s].step \in {"source", "reading"}
  /\ \E w : /\ work' = [work EXCEPT ![s] = w]
            /\ "step" \in DOMAIN w /\ w.step = "reading"
  /\ UNCHANGED <<asked, seen, answer>>

(* There is nothing else a handler does. *)
LEMMA HandlerMoves ==
  ASSUME AllTables, NEW s \in Slots, StepInv(s), Handler(s)
  PROVE  Free(s) \/ (\E reply : AnswerWith(s, reply)) \/ ReadsBase(s) \/ ReadsOn(s)
<1>1. CASE Misrouted(s)
  BY <1>1 DEF Misrouted
<1>2. CASE Status(s) \/ CreateRun(s) \/ CancelRun(s) \/ DeleteRun(s) \/ ShowResult(s)
  BY <1>2 DEF Status, CreateRun, CancelRun, DeleteRun, ShowResult
<1>3. CASE CompareBase(s)
  <2>1. CASE \E reply : AnswerWith(s, reply)
    BY <2>1
  <2>2. CASE ~\E reply : AnswerWith(s, reply)
    BY <1>3, <2>2 DEF CompareBase, HandledBy, ReadsBase, manager
  <2>3. QED
    BY <2>1, <2>2
<1>4. CASE CompareCurrent(s) \/ SourceEnds(s) \/ SourceAbandoned(s)
  BY <1>4 DEF CompareCurrent, SourceEnds, SourceAbandoned
<1>5. CASE SourceBegins(s)
  <2>1. CASE \E reply : AnswerWith(s, reply)
    BY <2>1
  <2>2. CASE ~\E reply : AnswerWith(s, reply)
    <3> DEFINE w == [step |-> "reading", files |-> 0, page |-> NoPage]
    <3>1. work[s].step = "source" /\ work' = [work EXCEPT ![s] = w] /\ UNCHANGED <<asked, seen, answer>>
      BY <1>5, <2>2 DEF SourceBegins, HandledBy
    <3>2. "step" \in DOMAIN w /\ w.step = "reading"
      OBVIOUS
    <3>3. QED
      BY <3>1, <3>2 DEF ReadsOn
  <2>3. QED
    BY <2>1, <2>2
<1>6. CASE ReadsFile(s)
  <2>1. CASE \E reply : AnswerWith(s, reply)
    BY <2>1
  <2>2. CASE ~\E reply : AnswerWith(s, reply)
    <3> DEFINE file == Disk[disk][asked[s].id][work[s].files + 1]
               n == work[s].files + 1
               p == FindInFile(work[s].page, file, asked[s])
               w == [[work[s] EXCEPT !.files = n] EXCEPT !.page = p]
    <3>1. /\ work[s].step = "reading" /\ UNCHANGED <<asked, seen, answer>>
          /\ work' = [work EXCEPT ![s].files = @ + 1, ![s].page = FindInFile(@, file, asked[s])]
      BY <1>6, <2>2 DEF ReadsFile, Reading
    <3>2. s \in DOMAIN work
      BY DEF AllTables
    <3>3. work' = [work EXCEPT ![s] = w]
      BY <3>1, <3>2
    <3>4. "step" \in DOMAIN w /\ w.step = "reading"
      BY <3>1 DEF StepInv
    <3>5. QED
      BY <3>1, <3>3, <3>4 DEF ReadsOn
  <2>3. QED
    BY <2>1, <2>2
<1>7. QED
  BY <1>1, <1>2, <1>3, <1>4, <1>5, <1>6 DEF Handler

(* No connection has a request at first. *)
LEMMA LookupInitially == Init => LookupInv
<1> SUFFICES ASSUME Init PROVE LookupInv
  OBVIOUS
<1>1. life \in [Ids -> Stages]
  BY DEF Init, Stages
<1>2. AllTables
  BY DEF Init, AllTables, Tables
<1>3. \A s \in Slots : StepInv(s)
  BY DEF Init, StepInv, NoWork
<1>4. QED
  BY <1>1, <1>2, <1>3 DEF LookupInv

(* What a comparison finds of its first run was true when it looked. *)
LEMMA BaseIsRead ==
  ASSUME LookupInv, NEW s \in Slots, ReadsBase(s)
  PROVE  AllTables' /\ (\A u \in Slots : u # s => Same(u)) /\ StepInv(s)'
<1> DEFINE q == asked[s]
           w == [step |-> "base read", found |-> Available(q.baseline), base |-> q.baseline]
<1>1. AllTables /\ StepInv(s)
  BY DEF LookupInv
<1>2. /\ work[s].step = "compare" /\ work' = [work EXCEPT ![s] = w]
      /\ UNCHANGED <<asked, seen, answer, life>>
  BY DEF ReadsBase
<1>3. AllTables' /\ \A u \in Slots : u # s => Same(u)
  BY <1>1, <1>2, OthersWait
<1>4. work'[s] = w
  BY <1>1, <1>2 DEF AllTables
<1>5. HandlerOf(q) = "compare" /\ CompareInv(s)
  BY <1>1, <1>2 DEF StepInv
<1>6. Available(q.baseline) => SomeTimeAvailable(s, q.baseline)
  BY <1>5 DEF CompareInv, Available, SomeTimeAvailable, Progress, M!Ended
<1>7. ~Available(q.baseline) => ~AlwaysAvailable(s, q.baseline)
  BY DEF Available, AlwaysAvailable
<1>8. CompareInv(s)'
  <2>1. \A id \in {q.baseline, q.current} \cap Ids : Progress(seen[s].life[id], life[id])
    BY <1>5 DEF CompareInv
  <2>2. w.found = Available(q.baseline) /\ w.base = q.baseline
    OBVIOUS
  <2>3. SomeTimeAvailable(s, q.baseline)' <=> SomeTimeAvailable(s, q.baseline)
    BY <1>2 DEF SomeTimeAvailable
  <2>4. AlwaysAvailable(s, q.baseline)' <=> AlwaysAvailable(s, q.baseline)
    BY <1>2 DEF AlwaysAvailable
  <2> HIDE DEF w
  <2>5. QED
    BY <1>2, <1>4, <1>6, <1>7, <2>1, <2>2, <2>3, <2>4 DEF CompareInv
<1>9. StepInv(s)'
  <2>1. "step" \in DOMAIN w /\ w.step = "base read"
    OBVIOUS
  <2>2. asked'[s] = q
    BY <1>2
  <2> HIDE DEF w, q
  <2>3. QED
    BY <1>4, <1>5, <1>8, <2>1, <2>2 DEF StepInv
<1>10. QED
  BY <1>3, <1>9

(* A comparison begins to watch its runs when it comes. *)
LEMMA RequestIsSeen ==
  ASSUME LookupInv, NEW s \in Slots, NEW q \in Asks[s], RequestComes(s, q)
  PROVE  AllTables' /\ (\A u \in Slots : u # s => Same(u)) /\ StepInv(s)'
<1> DEFINE handler == HandlerOf(q)
           v == SeenBy(q, handler)
           w == [step |-> handler]
<1>1. AllTables /\ life \in [Ids -> Stages]
  BY DEF LookupInv
<1>2. /\ asked' = [asked EXCEPT ![s] = q] /\ seen' = [seen EXCEPT ![s] = v]
      /\ work' = [work EXCEPT ![s] = w] /\ answer' = answer /\ life' = life
  BY DEF RequestComes, manager
<1>3. AllTables' /\ \A u \in Slots : u # s => Same(u)
  <2> HIDE DEF v, w, handler
  <2>1. QED
    BY <1>1, <1>2, OthersWait
<1>4. asked'[s] = q /\ seen'[s] = v /\ work'[s] = w
  <2> HIDE DEF v, w, handler
  <2>1. QED
    BY <1>1, <1>2 DEF AllTables, Tables
<1>5. "step" \in DOMAIN w /\ w.step = handler
  OBVIOUS
<1>6. ASSUME handler = "compare" PROVE CompareInv(s)'
  <2>1. v = [life |-> [id \in {q.baseline, q.current} \cap Ids |-> life[id]]]
    BY <1>6 DEF SeenBy
  <2>2. \A id \in {q.baseline, q.current} \cap Ids : v.life[id] = life[id]
    BY <2>1
  <2>3. \A id \in Ids : Progress(life[id], life[id])
    BY <1>1 DEF Progress, Stages, M!Ended
  <2>4. w.step # "base read"
    BY <1>5, <1>6
  <2> HIDE DEF v, w, handler
  <2>5. QED
    BY <1>2, <1>4, <2>2, <2>3, <2>4 DEF CompareInv
<1>7. StepInv(s)'
  <2>1. HandlerOf(q) = handler
    OBVIOUS
  <2> HIDE DEF v, w, handler
  <2>2. QED
    BY <1>4, <1>5, <1>6, <2>1 DEF StepInv
<1>8. QED
  BY <1>3, <1>7

(* A handler that reads log files is none of a comparison. *)
LEMMA ReadsOnStep ==
  ASSUME LookupInv, NEW s \in Slots, ReadsOn(s)
  PROVE  AllTables' /\ (\A u \in Slots : u # s => Same(u)) /\ StepInv(s)'
<1>1. AllTables /\ StepInv(s)
  BY DEF LookupInv
<1>2. PICK w : /\ work' = [work EXCEPT ![s] = w]
               /\ "step" \in DOMAIN w /\ w.step = "reading"
  BY DEF ReadsOn
<1>3. work[s].step \in {"source", "reading"} /\ UNCHANGED <<asked, seen, answer>>
  BY DEF ReadsOn
<1>4. AllTables' /\ \A u \in Slots : u # s => Same(u)
  BY <1>1, <1>2, <1>3, OthersWait
<1>5. work'[s] = w
  BY <1>1, <1>2 DEF AllTables
<1>6. HandlerOf(asked[s]) # "compare"
  BY <1>1, <1>3 DEF StepInv
<1>7. HandlerOf(asked[s]) \in {"source", "reading"}
  BY <1>1, <1>3 DEF StepInv
<1>8. StepInv(s)'
  BY <1>2, <1>3, <1>5, <1>6, <1>7 DEF StepInv
<1>9. QED
  BY <1>4, <1>8

(* Every step keeps what the handlers of comparisons know. *)
LEMMA LookupStep == LookupInv /\ [Next]_vars => LookupInv'
<1> SUFFICES ASSUME LookupInv, [Next]_vars PROVE LookupInv'
  OBVIOUS
<1>0. AllTables /\ \A s \in Slots : StepInv(s)
  BY DEF LookupInv
<1>1. life' \in [Ids -> Stages]
  BY RunsGoOn DEF LookupInv
<1>2. ASSUME NEW s \in Slots,
             AllTables' /\ (\A u \in Slots : u # s => Same(u)) /\ StepInv(s)'
      PROVE  LookupInv'
  <2>1. \A u \in Slots : u # s => StepInv(u)'
    BY <1>2, Waits
  <2>2. QED
    BY <1>1, <1>2, <2>1 DEF LookupInv
<1>3. ASSUME NEW s \in Slots, NEW q \in Asks[s], RequestComes(s, q) PROVE LookupInv'
  BY <1>2, <1>3, RequestIsSeen
<1>4. ASSUME NEW s \in Slots, ReplySent(s) PROVE LookupInv'
  <2>1. Free(s)
    BY <1>4 DEF ReplySent
  <2>2. QED
    BY <1>0, <1>2, <2>1, Leaves
<1>5. ASSUME NEW s \in Slots, Handler(s) PROVE LookupInv'
  <2>1. CASE Free(s) \/ \E reply : AnswerWith(s, reply)
    BY <1>0, <1>2, <2>1, Leaves
  <2>2. CASE ReadsBase(s)
    BY <1>2, <2>2, BaseIsRead
  <2>3. CASE ReadsOn(s)
    BY <1>2, <2>3, ReadsOnStep
  <2>4. QED
    BY <1>0, <1>5, <2>1, <2>2, <2>3, HandlerMoves
<1>6. CASE UNCHANGED requests
  <2>1. AllTables' /\ \A u \in Slots : Same(u)
    BY <1>0, <1>6 DEF AllTables, Tables, Same, requests
  <2>2. QED
    BY <1>1, <2>1, Waits DEF LookupInv
<1>7. ASSUME NEW code, ProcessEnds(code) PROVE LookupInv'
  <2>1. AllTables' /\ \A u \in Slots : work'[u] = NoWork
    BY <1>7 DEF ProcessEnds, AllTables, Tables
  <2>2. ASSUME NEW u \in Slots PROVE StepInv(u)'
    <3>1. work'[u] = NoWork
      BY <2>1
    <3>2. QED
      BY <3>1 DEF StepInv, NoWork
  <2>3. QED
    BY <1>1, <2>1, <2>2 DEF LookupInv
<1>8. CASE ManagerStopped \/ ManagerDeadline
  BY <1>7, <1>8 DEF ManagerStopped, ManagerDeadline
<1>9. CASE \/ BuildEnds \/ FilesChange \/ Signal \/ AcceptFails \/ ServeReturns \/ Returned
           \/ Listen \/ ReceiveError \/ SeeSignal \/ Drained \/ DrainDeadline \/ CloseManager
           \/ CancelBuilds \/ UNCHANGED vars
  BY <1>6, <1>9 DEF BuildEnds, FilesChange, Signal, AcceptFails, ServeReturns, Returned, Listen,
     ReceiveError, SeeSignal, Drained, DrainDeadline, CloseManager, CancelBuilds, requests, vars
<1>10. QED
  BY <1>3, <1>4, <1>5, <1>8, <1>9 DEF Next, Main

(* Only a handler answers. *)
LEMMA OnlyHandlersAnswer ==
  ASSUME LookupInv, [Next]_vars, NEW s \in Slots, Answered(s)
  PROVE  Handler(s) /\ \E reply : AnswerWith(s, reply)
<1>0. AllTables /\ StepInv(s)
  BY DEF LookupInv
<1>1. ASSUME answer'[s] = answer[s] \/ answer'[s] = NoReply PROVE FALSE
  BY <1>1 DEF Answered, NoReply, Bare, Reply
<1>2. ASSUME NEW u \in Slots, Free(u) PROVE FALSE
  <2>1. answer' = [answer EXCEPT ![u] = NoReply]
    BY <1>2 DEF Free
  <2>2. answer'[s] = answer[s] \/ answer'[s] = NoReply
    BY <1>0, <2>1 DEF AllTables, Tables
  <2>3. QED
    BY <1>1, <2>2
<1>3. ASSUME NEW u \in Slots, NEW q \in Asks[u], RequestComes(u, q) PROVE FALSE
  BY <1>1, <1>3 DEF RequestComes
<1>4. ASSUME NEW u \in Slots, Handler(u), u # s PROVE FALSE
  <2>1. StepInv(u)
    BY DEF LookupInv
  <2>2. Same(s) \/ ReadsBase(u) \/ ReadsOn(u)
    BY <1>0, <1>4, <2>1, HandlerMoves, Leaves
  <2>3. answer'[s] = answer[s]
    BY <2>2 DEF Same, ReadsBase, ReadsOn
  <2>4. QED
    BY <1>1, <2>3
<1>5. ASSUME NEW code, ProcessEnds(code) PROVE FALSE
  <2>1. answer'[s] = NoReply
    BY <1>5 DEF ProcessEnds
  <2>2. QED
    BY <1>1, <2>1
<1>6. ~UNCHANGED answer
  BY <1>1
<1>7. \E u \in Slots : Handler(u)
  <2>1. CASE \E u \in Slots : ReplySent(u) \/ \E q \in Asks[u] : RequestComes(u, q)
    BY <1>2, <1>3, <2>1 DEF ReplySent
  <2>2. CASE ManagerStopped \/ ManagerDeadline
    BY <1>5, <2>2 DEF ManagerStopped, ManagerDeadline
  <2>3. CASE \/ BuildEnds \/ FilesChange \/ Signal \/ AcceptFails \/ ServeReturns \/ Returned
             \/ Listen \/ ReceiveError \/ SeeSignal \/ Drained \/ DrainDeadline \/ CloseManager
             \/ CancelBuilds \/ UNCHANGED vars
    BY <1>6, <2>3 DEF BuildEnds, FilesChange, Signal, AcceptFails, ServeReturns, Returned, Listen,
       ReceiveError, SeeSignal, Drained, DrainDeadline, CloseManager, CancelBuilds, requests, vars
  <2>4. QED
    BY <2>1, <2>2, <2>3 DEF Next, Main
<1>8. Handler(s)
  BY <1>4, <1>7
<1>9. ~ReadsBase(s) /\ ~ReadsOn(s)
  BY <1>6 DEF ReadsBase, ReadsOn
<1>10. QED
  BY <1>0, <1>2, <1>8, <1>9, HandlerMoves

(* What the answer to a comparison says of the time of its request. *)
OfItsTime(s) ==
  LET q == asked[s]
      status == answer'[s].status
  IN  /\ HandlerOf(q) = "compare" /\ status = 200 =>
           /\ \A id \in {q.baseline, q.current} : SomeTimeAvailable(s, id)
           /\ answer'[s].body = <<q.baseline, q.current, OptionsOf(q)>>
      /\ HandlerOf(q) = "compare" /\ status = 409 =>
           \E id \in {q.baseline, q.current} : ~AlwaysAvailable(s, id)

(* The second lookup answers, and what it says was so. *)
LEMMA ComparisonAnswered ==
  ASSUME LookupInv, NEW s \in Slots, CompareCurrent(s), HandlerOf(asked[s]) = "compare"
  PROVE  OfItsTime(s)
<1> DEFINE q == asked[s]
           full == Reply(200, <<work[s].base, q.current, OptionsOf(q)>>)
<1>1. StepInv(s) /\ s \in DOMAIN answer
  BY DEF LookupInv, AllTables, Tables
<1>2. work[s].step = "base read"
  BY DEF CompareCurrent
<1>3. CompareInv(s)
  BY <1>1, <1>2 DEF StepInv
<1>4. CASE ~(work[s].found /\ Available(q.current))
  <2>1. AnswerWith(s, Bare(409)) \/ AnswerWith(s, Bare(400))
    BY <1>4 DEF CompareCurrent, BothFound, Decoded
  <2>2. answer'[s] = Bare(409) \/ answer'[s] = Bare(400)
    BY <1>1, <2>1 DEF AnswerWith
  <2>3. answer'[s].status \in {400, 409}
    BY <2>2 DEF Bare, Reply
  <2>4. CASE ~work[s].found
    <3>1. ~AlwaysAvailable(s, q.baseline)
      BY <1>2, <1>3, <2>4 DEF CompareInv
    <3>2. QED
      BY <2>3, <3>1 DEF OfItsTime
  <2>5. CASE ~Available(q.current)
    <3>1. ~AlwaysAvailable(s, q.current)
      BY <2>5 DEF Available, AlwaysAvailable
    <3>2. QED
      BY <2>3, <3>1 DEF OfItsTime
  <2>6. QED
    BY <1>4, <2>4, <2>5
<1>5. CASE work[s].found /\ Available(q.current)
  <2>1. AnswerWith(s, full) \/ AnswerWith(s, Bare(400))
    BY <1>5 DEF CompareCurrent, BothFound, Decoded
  <2>2. answer'[s] = full \/ answer'[s] = Bare(400)
    BY <1>1, <2>1 DEF AnswerWith
  <2>3. \/ answer'[s].status = 200 /\ answer'[s].body = <<q.baseline, q.current, OptionsOf(q)>>
        \/ answer'[s].status = 400
    <3>1. work[s].base = q.baseline
      BY <1>2, <1>3 DEF CompareInv
    <3>2. QED
      BY <2>2, <3>1 DEF Reply, Bare
  <2>4. SomeTimeAvailable(s, q.baseline)
    BY <1>2, <1>3, <1>5 DEF CompareInv
  <2>5. SomeTimeAvailable(s, q.current)
    <3>1. q.current \in Ids /\ life[q.current] = "succeeded"
      BY <1>5 DEF Available
    <3>2. Progress(seen[s].life[q.current], life[q.current])
      BY <1>3, <3>1 DEF CompareInv
    <3>3. QED
      BY <3>1, <3>2 DEF SomeTimeAvailable, Progress, M!Ended
  <2>6. QED
    BY <2>3, <2>4, <2>5 DEF OfItsTime
<1>6. QED
  BY <1>4, <1>5

(* So does any answer to a comparison. *)
LEMMA AnswerStep ==
  ASSUME LookupInv, [Next]_vars, NEW s \in Slots, Answered(s)
  PROVE  OfItsTime(s)
<1>1. Handler(s) /\ \E reply : AnswerWith(s, reply)
  BY OnlyHandlersAnswer
<1>2. StepInv(s) /\ s \in DOMAIN answer
  BY DEF LookupInv, AllTables, Tables
<1>3. SUFFICES ASSUME HandlerOf(asked[s]) = "compare" PROVE OfItsTime(s)
  BY DEF OfItsTime
<1>4. work[s].step \in {"none", "compare", "base read"}
  BY <1>2, <1>3 DEF StepInv
<1>5. CASE CompareBase(s)
  <2>1. UNCHANGED answer \/ AnswerWith(s, Bare(400))
    BY <1>5 DEF CompareBase
  <2>2. ~UNCHANGED answer
    BY DEF Answered
  <2>3. answer'[s] = Bare(400)
    BY <1>2, <2>1, <2>2 DEF AnswerWith
  <2>4. answer'[s].status = 400
    BY <2>3 DEF Bare, Reply
  <2>5. QED
    BY <2>4 DEF OfItsTime
<1>6. CASE CompareCurrent(s)
  BY <1>3, <1>6, ComparisonAnswered
<1>7. CompareBase(s) \/ CompareCurrent(s)
  BY <1>1, <1>4 DEF Handler, HandledBy, Misrouted, Status, CreateRun, CancelRun, DeleteRun, ShowResult,
     SourceBegins, Reading, ReadsFile, SourceEnds, SourceAbandoned
<1>8. QED
  BY <1>5, <1>6, <1>7

(* Manager.Result, called twice by the handler of a comparison with other   *)
(* requests and the builds in between: what the answer says of either run   *)
(* was so at some moment of the request.                                    *)
THEOREM AnswersKeepTheirTime == Spec => AnswersAreOfTheirTime
<1> DEFINE Answers == \A s \in Slots : Answered(s) => OfItsTime(s)
<1>1. Init => LookupInv
  BY LookupInitially
<1>2. LookupInv /\ [Next]_vars => LookupInv'
  BY LookupStep
<1>3. LookupInv /\ [Next]_vars => [Answers]_vars
  BY AnswerStep
<1>4. Spec => [][Answers]_vars
  BY <1>1, <1>2, <1>3, PTL DEF Spec
<1>5. QED
  BY <1>4, PTL DEF AnswersAreOfTheirTime, OfItsTime

-------------------------------------------------------------------------------
(* A set of natural numbers that is not empty has a least member. *)
LEMMA LeastExists ==
  ASSUME NEW S \in SUBSET Nat, S # {}
  PROVE  \E m \in S : \A k \in S : m <= k
<1> DEFINE less == OpToRel(<, Nat)
<1>1. IsWellFoundedOn(less, Nat)
  BY NatLessThanWellFounded
<1>2. \A x, y \in Nat : x < y => <<x, y>> \in less
  BY DEF OpToRel
<1> HIDE DEF less
<1>3. PICK m \in S : \A k \in S : ~(<<k, m>> \in less)
  BY <1>1, WFMin
<1>4. \A k \in S : k \in Nat /\ ~(k < m)
  BY <1>2, <1>3
<1>5. QED
  BY <1>4

(* Induction over the natural numbers, likewise. *)
LEMMA NumbersByStep ==
  ASSUME NEW S, 0 \in S, \A n \in Nat : n \in S => n + 1 \in S
  PROVE  Nat \subseteq S
<1> DEFINE others == Nat \ S
<1>1. SUFFICES ASSUME others # {} PROVE FALSE
  OBVIOUS
<1>2. PICK m \in others : \A k \in others : m <= k
  <2>1. others \in SUBSET Nat
    OBVIOUS
  <2> HIDE DEF others
  <2>2. QED
    BY <1>1, <2>1, LeastExists
<1>3. m \in Nat /\ m # 0
  BY <1>2
<1>4. m - 1 \in Nat /\ m - 1 \notin others
  BY <1>2, <1>3
<1>5. m - 1 \in S /\ (m - 1) + 1 = m
  BY <1>3, <1>4
<1>6. QED
  BY <1>2, <1>4, <1>5

(* Folding a sequence from the left takes the greatest index out of a set of *)
(* indices after the other.                                                   *)
LEMMA GreatestIndex ==
  ASSUME NEW n \in Nat
  PROVE  /\ \A T \in SUBSET (1..n) : T # {} => Max(T) \in T /\ T \ {Max(T)} \in SUBSET (1..(n - 1))
         /\ n > 0 => Max(1..n) = n /\ (1..n) \ {n} = 1..(n - 1)
<1>1. ASSUME NEW T \in SUBSET (1..n), T # {}
      PROVE  Max(T) \in T /\ \A y \in T : y <= Max(T)
  <2> DEFINE S == {n - t : t \in T}
  <2>1. S \in SUBSET Nat /\ S # {}
    <3>1. \A t \in T : t \in 1..n
      OBVIOUS
    <3>2. \A t \in T : n - t \in Nat
      BY <3>1
    <3>3. PICK t \in T : TRUE
      BY <1>1
    <3> QED
      BY <3>2, <3>3
  <2>2. PICK m \in S : \A k \in S : m <= k
    <3> HIDE DEF S
    <3> QED
      BY <2>1, LeastExists
  <2>3. PICK t \in T : m = n - t
    BY <2>2
  <2>4. \A y \in T : t >= y
    <3> TAKE y \in T
    <3>1. n - t <= n - y /\ t \in Int /\ y \in Int
      BY <2>2, <2>3
    <3> QED
      BY <3>1
  <2>5. \A y \in T : Max(T) >= y
    BY <2>4 DEF Max
  <2>6. Max(T) \in T
    BY <2>4 DEF Max
  <2> QED
    BY <2>5, <2>6
<1>2. ASSUME NEW T \in SUBSET (1..n), T # {}
      PROVE  T \ {Max(T)} \in SUBSET (1..(n - 1))
  <2> SUFFICES ASSUME NEW y \in T, y # Max(T) PROVE y \in 1..(n - 1)
    OBVIOUS
  <2> DEFINE m == Max(T)
  <2>1. m \in 1..n /\ y \in 1..n /\ y <= m /\ y # m
    BY <1>1, <1>2
  <2> HIDE DEF m
  <2> QED
    BY <2>1
<1>3. n > 0 => Max(1..n) = n /\ (1..n) \ {n} = 1..(n - 1)
  <2> SUFFICES ASSUME n > 0 PROVE Max(1..n) = n /\ (1..n) \ {n} = 1..(n - 1)
    OBVIOUS
  <2> DEFINE m == Max(1..n)
  <2>1. n \in 1..n
    OBVIOUS
  <2>2. m \in 1..n /\ n <= m
    BY <1>1, <2>1
  <2> HIDE DEF m
  <2>3. m = n
    BY <2>2
  <2> QED
    BY <2>3 DEF m
<1> QED
  BY <1>1, <1>2, <1>3

-------------------------------------------------------------------------------
(* What the folds of the handlers do with one element. *)
Step(fold, of, p, x) ==
  CASE fold = "lines" -> ReadLine(p, x, of)
    [] fold = "fill" -> IF QueryMatches(of.query, x) THEN FillPage(p, x, LimitOf(of), OffsetOf(of)) ELSE p
    [] fold = "events" -> IF QueryMatches(of.query, x) THEN Append(p, x) ELSE p
    [] fold = "rows" -> IF of.filter = None \/ x.key = of.filter THEN Append(p, x) ELSE p
    [] fold = "reasons" -> AppendReason(p, x)

(* There is a function that folds, ... *)
IsFold(h, fold, of, base, s, N) ==
  h = [T \in SUBSET (1..N) |->
         IF T = {} THEN base ELSE Step(fold, of, h[T \ {Max(T)}], s[Max(T)])]

(* ... for every sequence, by induction over its length ... *)
LEMMA FoldExists ==
  ASSUME NEW fold, NEW of, NEW base, NEW s, NEW N \in Nat
  PROVE  \E h : IsFold(h, fold, of, base, s, N)
<1> DEFINE E(h, T) == IF T = {} THEN base ELSE Step(fold, of, h[T \ {Max(T)}], s[Max(T)])
           K == {n \in Nat : \E h : h = [T \in SUBSET (1..n) |-> E(h, T)]}
<1>1. 0 \in K
  <2> DEFINE h == [T \in SUBSET (1..0) |-> base]
  <2>1. \A T \in SUBSET (1..0) : E(h, T) = base
    OBVIOUS
  <2>2. h = [T \in SUBSET (1..0) |-> E(h, T)]
    BY <2>1
  <2> QED
    BY <2>2
<1>2. ASSUME NEW n \in Nat, n \in K PROVE n + 1 \in K
  <2>1. PICK h : h = [T \in SUBSET (1..n) |-> E(h, T)]
    BY <1>2
  <2> DEFINE g == [T \in SUBSET (1..(n + 1)) |-> E(h, T)]
             F(T) == E(g, T)
             G(T) == E(h, T)
  <2>2. \A T \in SUBSET (1..n) : T \in SUBSET (1..(n + 1))
    OBVIOUS
  <2>3. \A T \in SUBSET (1..n) : g[T] = h[T]
    BY <2>1, <2>2
  <2>4. \A T \in SUBSET (1..(n + 1)) : T # {} => T \ {Max(T)} \in SUBSET (1..n)
    <3>1. (n + 1) - 1 = n /\ n + 1 \in Nat
      OBVIOUS
    <3> QED
      BY <3>1, GreatestIndex
  <2>5. \A T \in SUBSET (1..(n + 1)) : F(T) = G(T)
    <3> HIDE DEF g
    <3> QED
      BY <2>3, <2>4
  <2>6. g = [T \in SUBSET (1..(n + 1)) |-> G(T)]
    OBVIOUS
  <2>7. g = [T \in SUBSET (1..(n + 1)) |-> F(T)]
    <3> HIDE DEF F, G, g
    <3> QED
      BY <2>5, <2>6
  <2> HIDE DEF g, E
  <2> QED
    BY <2>7
<1>3. N \in K
  <2> HIDE DEF K
  <2> QED
    BY <1>1, <1>2, NumbersByStep
<1>4. PICK h : h = [T \in SUBSET (1..N) |-> E(h, T)]
  BY <1>3
<1> QED
  BY <1>4 DEF IsFold

(* ... and it takes one element after the other. *)
Folds(w, fold, of, base, s, N) ==
  w[0] = base /\ \A n \in 1..N : w[n] = Step(fold, of, w[n - 1], s[n])

(* ... and its value on the first n indices is the n-th stop of a walk. *)
LEMMA FoldGoes ==
  ASSUME NEW fold, NEW of, NEW base, NEW s, NEW N \in Nat, NEW h,
         IsFold(h, fold, of, base, s, N)
  PROVE  \E w : Folds(w, fold, of, base, s, N) /\ w[N] = h[1..N]
<1> DEFINE w == [n \in 0..N |-> h[1..n]]
<1>0. \A T \in SUBSET (1..N) :
        h[T] = IF T = {} THEN base ELSE Step(fold, of, h[T \ {Max(T)}], s[Max(T)])
  BY DEF IsFold
<1>1. w[0] = base
  <2>1. 1..0 = {} /\ 1..0 \in SUBSET (1..N) /\ 0 \in 0..N
    OBVIOUS
  <2>2. h[{}] = base
    BY <1>0
  <2> QED
    BY <2>1, <2>2
<1>2. ASSUME NEW n \in 1..N PROVE w[n] = Step(fold, of, w[n - 1], s[n])
  <2>1. Max(1..n) = n /\ (1..n) \ {n} = 1..(n - 1) /\ n \in Nat /\ n > 0
    BY GreatestIndex
  <2>2. 1..n # {} /\ 1..n \in SUBSET (1..N) /\ n - 1 \in 0..N /\ n \in 0..N
    OBVIOUS
  <2>3. h[1..n] = Step(fold, of, h[1..(n - 1)], s[n])
    BY <1>0, <2>1, <2>2
  <2> QED
    BY <2>2, <2>3
<1>3. w[N] = h[1..N]
  OBVIOUS
<1> HIDE DEF w
<1> QED
  BY <1>1, <1>2, <1>3 DEF Folds

-------------------------------------------------------------------------------
(* A sorting by the pairs R puts in order: which of two entries of a list    *)
(* comes first, the place an entry has, and the list in order.               *)
Ahead(list, R, j, i) == <<list[j], list[i]>> \in R \/ (<<list[i], list[j]>> \notin R /\ j < i)

PlaceOf(list, R, i) == 1 + Cardinality({j \in 1..Len(list) : Ahead(list, R, j, i)})

SortBy(list, R) == [m \in 1..Len(list) |-> list[CHOOSE i \in 1..Len(list) : PlaceOf(list, R, i) = m]]

(* R orders E but for ties: what is before one of two values that tie is     *)
(* before the other.                                                         *)
Orders(R, E) ==
  /\ \A a \in E : <<a, a>> \notin R
  /\ \A a, b, c \in E : <<a, b>> \in R /\ <<b, c>> \in R => <<a, c>> \in R
  /\ \A a, b, c \in E : <<a, c>> \in R => <<a, b>> \in R \/ <<b, c>> \in R

(* The entries of a list stand in one line, ... *)
LEMMA AheadIsOrder ==
  ASSUME NEW E, NEW R, Orders(R, E), NEW L \in Seq(E)
  PROVE  /\ \A i \in 1..Len(L) : ~Ahead(L, R, i, i)
         /\ \A i, j \in 1..Len(L) : i # j => Ahead(L, R, i, j) \/ Ahead(L, R, j, i)
         /\ \A i, j, k \in 1..Len(L) : Ahead(L, R, i, j) /\ Ahead(L, R, j, k) => Ahead(L, R, i, k)
<1>1. Len(L) \in Nat /\ \A i \in 1..Len(L) : L[i] \in E
  BY ElementOfSeq
<1>2. \A i \in 1..Len(L) : ~Ahead(L, R, i, i)
  BY <1>1 DEF Ahead, Orders
<1>3. \A i, j \in 1..Len(L) : i # j => Ahead(L, R, i, j) \/ Ahead(L, R, j, i)
  BY <1>1 DEF Ahead, Orders
<1>4. ASSUME NEW i \in 1..Len(L), NEW j \in 1..Len(L), NEW k \in 1..Len(L),
             Ahead(L, R, i, j), Ahead(L, R, j, k)
      PROVE  Ahead(L, R, i, k)
  <2>1. /\ \A a, b, c \in {L[i], L[j], L[k]} : <<a, b>> \in R /\ <<b, c>> \in R => <<a, c>> \in R
        /\ \A a, b, c \in {L[i], L[j], L[k]} : <<a, c>> \in R => <<a, b>> \in R \/ <<b, c>> \in R
    BY <1>1 DEF Orders
  <2>2. CASE <<L[i], L[j]>> \in R
    <3>1. CASE <<L[j], L[k]>> \in R
      BY <2>1, <2>2, <3>1 DEF Ahead
    <3>2. CASE <<L[j], L[k]>> \notin R
      BY <1>4, <2>1, <2>2, <3>2 DEF Ahead
    <3>3. QED
      BY <3>1, <3>2
  <2>3. CASE <<L[i], L[j]>> \notin R
    <3>1. <<L[j], L[i]>> \notin R /\ i < j
      BY <1>4, <2>3 DEF Ahead
    <3>2. CASE <<L[j], L[k]>> \in R
      BY <2>1, <3>1, <3>2 DEF Ahead
    <3>3. CASE <<L[j], L[k]>> \notin R
      <4>1. <<L[k], L[j]>> \notin R /\ j < k
        BY <1>4, <3>3 DEF Ahead
      <4>2. i < k
        BY <3>1, <4>1
      <4>3. <<L[k], L[i]>> \notin R
        BY <2>1, <3>1, <4>1
      <4>4. QED
        BY <4>2, <4>3 DEF Ahead
    <3>4. QED
      BY <3>2, <3>3
  <2>4. QED
    BY <2>2, <2>3
<1>5. QED
  BY <1>2, <1>3, <1>4

(* ... each at a place of its own, in the order of the places. *)
LEMMA PlacesInOrder ==
  ASSUME NEW E, NEW R, Orders(R, E), NEW L \in Seq(E)
  PROVE  /\ \A i \in 1..Len(L) : PlaceOf(L, R, i) \in 1..Len(L)
         /\ \A i, j \in 1..Len(L) : Ahead(L, R, i, j) <=> PlaceOf(L, R, i) < PlaceOf(L, R, j)
         /\ \A i, j \in 1..Len(L) : PlaceOf(L, R, i) = PlaceOf(L, R, j) => i = j
         /\ \A m \in 1..Len(L) : \E i \in 1..Len(L) : PlaceOf(L, R, i) = m
<1> DEFINE n == Len(L)
           D == 1..n
           Pre(i) == {j \in D : Ahead(L, R, j, i)}
<1>1. n \in Nat /\ IsFiniteSet(D) /\ Cardinality(D) = n
  <2>1. n \in Nat
    OBVIOUS
  <2>2. QED
    BY <2>1, FS_Interval
<1>2. \A i : PlaceOf(L, R, i) = 1 + Cardinality(Pre(i)) /\ Pre(i) \in SUBSET D
  BY DEF PlaceOf
<1>o. /\ \A i \in D : i \notin Pre(i)
      /\ \A i, j \in D : i # j => i \in Pre(j) \/ j \in Pre(i)
      /\ \A i, j \in D : i \in Pre(j) => Pre(i) \in SUBSET Pre(j)
      /\ \A i, j \in D : i \in Pre(j) <=> Ahead(L, R, i, j)
  BY AheadIsOrder
<1> HIDE DEF D, Pre
<1>3. \A i : IsFiniteSet(Pre(i)) /\ Cardinality(Pre(i)) \in Nat
  BY <1>1, <1>2, FS_Subset, FS_CardinalityType
<1>4. ASSUME NEW i \in D
      PROVE  PlaceOf(L, R, i) \in D
  <2>1. Cardinality(Pre(i)) <= n /\ Cardinality(Pre(i)) # n
    BY <1>1, <1>2, <1>o, FS_Subset
  <2>2. QED
    BY <1>1, <1>2, <1>3, <2>1 DEF D
<1>5. ASSUME NEW i \in D, NEW j \in D, i \in Pre(j)
      PROVE  PlaceOf(L, R, i) < PlaceOf(L, R, j)
  <2>1. /\ Cardinality(Pre(i)) <= Cardinality(Pre(j))
        /\ Cardinality(Pre(i)) # Cardinality(Pre(j))
    BY <1>3, <1>5, <1>o, FS_Subset
  <2>2. QED
    BY <1>2, <1>3, <2>1
<1>6. \A i, j \in D : i \in Pre(j) <=> PlaceOf(L, R, i) < PlaceOf(L, R, j)
  <2> TAKE i, j \in D
  <2>1. PlaceOf(L, R, i) \in Nat /\ PlaceOf(L, R, j) \in Nat
    BY <1>2, <1>3
  <2>2. i \notin Pre(j) => j \in Pre(i) \/ i = j
    BY <1>o
  <2>3. QED
    BY <1>5, <2>1, <2>2
<1>7. \A i, j \in D : PlaceOf(L, R, i) = PlaceOf(L, R, j) => i = j
  <2> TAKE i, j \in D
  <2>1. PlaceOf(L, R, i) \in Nat /\ PlaceOf(L, R, j) \in Nat
    BY <1>2, <1>3
  <2>2. QED
    BY <1>5, <1>o, <2>1
<1>8. \A m \in D : \E i \in D : PlaceOf(L, R, i) = m
  <2> DEFINE f == [i \in D |-> PlaceOf(L, R, i)]
  <2>1. f \in Injection(D, D)
    BY <1>4, <1>7 DEF Injection, IsInjective
  <2>2. f \in Surjection(D, D)
    <3> HIDE DEF f
    <3>1. QED
      BY <1>1, <2>1, FS_Injection
  <2>3. QED
    BY <2>2 DEF Surjection
<1>9. QED
  BY <1>4, <1>6, <1>7, <1>8, <1>o DEF D

(* The sorted list has every entry, at its place. *)
LEMMA SortByLook ==
  ASSUME NEW E, NEW R, Orders(R, E), NEW L \in Seq(E)
  PROVE  /\ Len(SortBy(L, R)) = Len(L) /\ SortBy(L, R) \in Seq(E)
         /\ \A i \in 1..Len(L) : SortBy(L, R)[PlaceOf(L, R, i)] = L[i]
<1> DEFINE n == Len(L)
           At(m) == CHOOSE i \in 1..n : PlaceOf(L, R, i) = m
<1>1. n \in Nat /\ \A i \in 1..n : L[i] \in E
  BY ElementOfSeq
<1>2. \A m \in 1..n : At(m) \in 1..n /\ PlaceOf(L, R, At(m)) = m
  BY PlacesInOrder
<1>3. \A i \in 1..n : At(PlaceOf(L, R, i)) = i
  BY <1>2, PlacesInOrder
<1>4. SortBy(L, R) = [m \in 1..n |-> L[At(m)]]
  BY DEF SortBy
<1> HIDE DEF At
<1>5. SortBy(L, R) \in [1..n -> E]
  BY <1>1, <1>2, <1>4
<1>6. SortBy(L, R) \in Seq(E) /\ Len(SortBy(L, R)) = n
  BY <1>1, <1>5
<1>7. \A i \in 1..n : SortBy(L, R)[PlaceOf(L, R, i)] = L[i]
  BY <1>3, <1>4, PlacesInOrder
<1>8. QED
  BY <1>6, <1>7

(* StableSort, written with R. *)
LEMMA PlacedIsSorted ==
  ASSUME NEW E, NEW R, Orders(R, E), NEW L \in Seq(E)
  PROVE  [m \in 1..Len(L) |-> (CHOOSE p \in {<<PlaceOf(L, R, i), L[i]>> : i \in 1..Len(L)} : p[1] = m)[2]]
           = SortBy(L, R)
<1> DEFINE n == Len(L)
           placed == {<<PlaceOf(L, R, i), L[i]>> : i \in 1..n}
<1>1. ASSUME NEW m \in 1..n
      PROVE  (CHOOSE p \in placed : p[1] = m)[2] = SortBy(L, R)[m]
  <2> DEFINE chosen == CHOOSE p \in placed : p[1] = m
  <2>1. PICK i \in 1..n : PlaceOf(L, R, i) = m
    BY PlacesInOrder
  <2>2. ASSUME NEW p \in placed, p[1] = m
        PROVE  p = <<m, L[i]>>
    <3>1. PICK j \in 1..n : p = <<PlaceOf(L, R, j), L[j]>>
      OBVIOUS
    <3>2. PlaceOf(L, R, j) = m
      BY <2>2, <3>1
    <3>3. j = i
      BY <2>1, <3>2, PlacesInOrder
    <3>4. QED
      BY <3>1, <3>2, <3>3
  <2>3. <<m, L[i]>> \in placed
    BY <2>1
  <2>4. chosen = <<m, L[i]>>
    BY <2>2, <2>3
  <2>5. SortBy(L, R)[m] = L[i]
    BY <2>1, SortByLook
  <2> HIDE DEF chosen
  <2>6. chosen[2] = SortBy(L, R)[m]
    BY <2>4, <2>5
  <2>7. QED
    BY <2>6 DEF chosen
<1>2. SortBy(L, R) = [m \in 1..n |-> SortBy(L, R)[m]]
  BY DEF SortBy
<1> HIDE DEF placed
<1>3. [m \in 1..n |-> (CHOOSE p \in placed : p[1] = m)[2]] = [m \in 1..n |-> SortBy(L, R)[m]]
  BY <1>1
<1>4. QED
  BY <1>2, <1>3 DEF placed

(* A sorted list is in order. *)
LEMMA SortByInOrder ==
  ASSUME NEW E, NEW R, Orders(R, E), NEW L \in Seq(E)
  PROVE  \A k, m \in 1..Len(L) : k < m => <<SortBy(L, R)[m], SortBy(L, R)[k]>> \notin R
<1> TAKE k, m \in 1..Len(L)
<1> HAVE k < m
<1>1. PICK i \in 1..Len(L) : PlaceOf(L, R, i) = k
  BY PlacesInOrder
<1>2. PICK j \in 1..Len(L) : PlaceOf(L, R, j) = m
  BY PlacesInOrder
<1>3. Ahead(L, R, i, j)
  BY <1>1, <1>2, PlacesInOrder
<1>4. SortBy(L, R)[k] = L[i] /\ SortBy(L, R)[m] = L[j]
  BY <1>1, <1>2, SortByLook
<1>5. ~Ahead(L, R, j, i)
  BY <1>1, <1>2, PlacesInOrder
<1>6. QED
  BY <1>4, <1>5 DEF Ahead

-------------------------------------------------------------------------------
(* The thresholds in force. *)
PercentOf(q) == IF q.percent = 0 THEN 5 ELSE q.percent
InForce(o, q) ==
  /\ o.minAbsolute = q.minAbsolute
  /\ \A t \in Thresholds : o[t] = PercentOf(q)

(* The thresholds in force are those asked for, or 5 percent for 0. *)
LEMMA OptionsInForce ==
  ASSUME NEW q, q.percent \in Int, q.minAbsolute \in Int, ValidateOptions(OptionsOf(q))
  PROVE  InForce(Effective(OptionsOf(q)), q) /\ q.minAbsolute \in Nat /\ PercentOf(q) \in Nat
<1> DEFINE o == OptionsOf(q)
<1>1. Effective(o) = NormalizeOptions(o)
  BY DEF Effective
<1>2. /\ o.regression = q.percent /\ o.improvement = q.percent /\ o.minAbsolute = q.minAbsolute
      /\ o.p95Regression = 0 /\ o.p95Improvement = 0
      /\ o.countRegression = 0 /\ o.countImprovement = 0
      /\ o = [regression |-> q.percent, improvement |-> q.percent, p95Regression |-> 0,
              p95Improvement |-> 0, countRegression |-> 0, countImprovement |-> 0,
              minAbsolute |-> q.minAbsolute]
  BY DEF OptionsOf, OptionsWith
<1>3. q.minAbsolute >= 0 /\ q.percent >= 0
  <2>1. o.minAbsolute >= 0 /\ o["regression"] >= 0
    BY DEF ValidateOptions, Thresholds
  <2> QED
    BY <1>2, <2>1
<1>4. OrElse(q.percent, 5) = PercentOf(q) /\ OrElse(0, PercentOf(q)) = PercentOf(q)
  BY DEF OrElse, PercentOf
<1>5. NormalizeOptions(o) =
        [regression |-> PercentOf(q), improvement |-> PercentOf(q), p95Regression |-> PercentOf(q),
         p95Improvement |-> PercentOf(q), countRegression |-> PercentOf(q),
         countImprovement |-> PercentOf(q), minAbsolute |-> q.minAbsolute]
  <2> HIDE DEF o
  <2>1. NormalizeOptions(o) =
          [regression |-> OrElse(q.percent, 5), improvement |-> OrElse(q.percent, 5),
           p95Regression |-> OrElse(0, OrElse(q.percent, 5)),
           p95Improvement |-> OrElse(0, OrElse(q.percent, 5)),
           countRegression |-> OrElse(0, OrElse(q.percent, 5)),
           countImprovement |-> OrElse(0, OrElse(q.percent, 5)), minAbsolute |-> q.minAbsolute]
    BY <1>2 DEF NormalizeOptions, DefaultThresholdPercent
  <2> QED
    BY <1>4, <2>1
<1>6. InForce(NormalizeOptions(o), q)
  BY <1>5 DEF InForce, Thresholds
<1>7. PercentOf(q) \in Nat
  BY <1>3 DEF PercentOf
<1> QED
  BY <1>1, <1>3, <1>6, <1>7

(* A measure that got worse, or better, by at least a percentage. *)
WorseBy(base, current, percent) == current > base /\ 100 * current >= (100 + percent) * base
BetterBy(base, current, percent) == current < base /\ 100 * current <= (100 - percent) * base

(* A metric is marked only for a change of at least the percentage, whatever *)
(* RoundedDown holds, and always regresses when it grew by more.             *)
LEMMA Metric ==
  ASSUME NEW base \in Nat, NEW current \in Nat, NEW up \in Nat, NEW down \in Nat, NEW least \in Nat
  PROVE  LET class == ClassifyMetric(base, current, up, down, least)
         IN  /\ class \in {"unchanged", "regressed", "improved"}
             /\ class = "regressed" => WorseBy(base, current, up)
             /\ class = "improved" => BetterBy(base, current, down)
             /\ (/\ current > base /\ current - base >= least
                 /\ 100 * current > (100 + up) * base) => class = "regressed"
<1> DEFINE class == ClassifyMetric(base, current, up, down, least)
           m == up * base
           n == down * base
           worse == (100 + up) * base
           better == (100 - down) * base
<1>1. m \in Int /\ n \in Int /\ worse = 100 * base + m /\ better = 100 * base - n
  OBVIOUS
<1>2. base = 0 => m = 0
  OBVIOUS
<1>3. CASE current = base
  <2>1. class = "unchanged"
    BY <1>3 DEF ClassifyMetric
  <2> QED
    BY <1>3, <2>1
<1>4. CASE current > base
  <2> DEFINE d == current - base
             up100 == Reaches(d, base, up)
  <2>1. class = CASE d < least -> "unchanged"
        [] d >= least /\ base = 0 -> "regressed"
        [] d >= least /\ base > 0 -> IF up100 THEN "regressed" ELSE "unchanged"
    BY <1>4 DEF ClassifyMetric
  <2>2. /\ up100 => d * 100 >= m
        /\ d * 100 > m => up100
    <3>1. up100 <=> d * 100 > m \/ (d * 100 = m /\ <<d, base>> \notin RoundedDown)
      BY DEF Reaches
    <3>2. d * 100 \in Int /\ m \in Int
      BY <1>1
    <3> HIDE DEF up100, m, d
    <3> QED
      BY <3>1, <3>2
  <2> HIDE DEF m, class, worse, up100
  <2>3. /\ class \in {"unchanged", "regressed"}
        /\ class = "regressed" => 100 * current >= worse
        /\ d >= least /\ 100 * current > worse => class = "regressed"
    BY <1>1, <1>2, <1>4, <2>1, <2>2
  <2> QED
    BY <1>4, <2>3 DEF class, worse, WorseBy
<1>5. CASE current < base
  <2> DEFINE d == base - current
             down100 == Reaches(d, base, down)
  <2>1. class = CASE d < least -> "unchanged"
        [] d >= least -> IF down100 THEN "improved" ELSE "unchanged"
    BY <1>5 DEF ClassifyMetric
  <2>2. down100 => d * 100 >= n
    <3>1. down100 <=> d * 100 > n \/ (d * 100 = n /\ <<d, base>> \notin RoundedDown)
      BY DEF Reaches
    <3>2. d * 100 \in Int /\ n \in Int
      BY <1>1
    <3> HIDE DEF down100, n, d
    <3> QED
      BY <3>1, <3>2
  <2> HIDE DEF n, class, better, down100
  <2>3. /\ class \in {"unchanged", "improved"}
        /\ class = "improved" => 100 * current <= better
    BY <1>1, <1>5, <2>1, <2>2
  <2> QED
    BY <1>5, <2>3 DEF class, better, BetterBy
<1>6. QED
  BY <1>3, <1>4, <1>5

(* The reasons are a walk over the metrics, ... *)
LEMMA ReasonSteps ==
  ASSUME NEW s, NEW N \in Nat, DOMAIN s = 1..N
  PROVE  \E w : Folds(w, "reasons", 0, <<>>, s, N) /\ Reasons(s) = w[N]
<1> DEFINE E(h, T) == IF T = {} THEN <<>> ELSE AppendReason(h[T \ {Max(T)}], s[Max(T)])
           S(h, T) == IF T = {} THEN <<>> ELSE Step("reasons", 0, h[T \ {Max(T)}], s[Max(T)])
           all == CHOOSE h : h = [T \in SUBSET (1..N) |-> E(h, T)]
<1>1. Reasons(s) = all[1..N]
  BY DEF Reasons, FoldLeft, MapThenFoldSet
<1>2. \A h : IsFold(h, "reasons", 0, <<>>, s, N) <=> h = [T \in SUBSET (1..N) |-> E(h, T)]
  <2>1. \A h, T : E(h, T) = S(h, T)
    BY DEF Step
  <2>2. \A h : IsFold(h, "reasons", 0, <<>>, s, N) <=> h = [T \in SUBSET (1..N) |-> S(h, T)]
    BY DEF IsFold
  <2> HIDE DEF E, S
  <2> QED
    BY <2>1, <2>2
<1>3. IsFold(all, "reasons", 0, <<>>, s, N)
  <2> HIDE DEF E
  <2> QED
    BY <1>2, FoldExists
<1> HIDE DEF all
<1>4. PICK w : Folds(w, "reasons", 0, <<>>, s, N) /\ w[N] = all[1..N]
  BY <1>3, FoldGoes
<1> QED
  BY <1>1, <1>4

(* ... of which there are three. *)
LEMMA ReasonsAre ==
  ASSUME NEW a, NEW b, NEW c
  PROVE  Reasons(<<a, b, c>>) = AppendReason(AppendReason(AppendReason(<<>>, a), b), c)
<1> DEFINE s == <<a, b, c>>
<1>1. /\ s[1] = a /\ s[2] = b /\ s[3] = c /\ 1 \in 1..3 /\ 2 \in 1..3 /\ 3 \in 1..3
      /\ DOMAIN s = 1..3 /\ 3 \in Nat
  OBVIOUS
<1> HIDE DEF s
<1>2. PICK w : Folds(w, "reasons", 0, <<>>, s, 3) /\ Reasons(s) = w[3]
  BY <1>1, ReasonSteps
<1>3. w[0] = <<>> /\ \A n \in 1..3 : w[n] = AppendReason(w[n - 1], s[n])
  BY <1>2 DEF Folds, Step
<1>4. /\ w[1] = AppendReason(w[1 - 1], s[1]) /\ w[2] = AppendReason(w[2 - 1], s[2])
      /\ w[3] = AppendReason(w[3 - 1], s[3])
  BY <1>1, <1>3
<1>5. Reasons(s) = AppendReason(AppendReason(AppendReason(<<>>, a), b), c)
  BY <1>1, <1>2, <1>3, <1>4
<1> QED
  BY <1>5 DEF s

Measures == [count : Nat, total : Nat, p95 : Nat]
Classes == {"new", "regressed", "removed", "improved", "unchanged"}
ReasonOf(metric, class) == [metric |-> metric, class |-> class]

(* A tuple grows at its end. *)
LEMMA TuplesGrow ==
  ASSUME NEW x, NEW y, NEW z
  PROVE  /\ Append(<<>>, x) = <<x>>
         /\ Append(<<x>>, y) = <<x, y>>
         /\ Append(<<x, y>>, z) = <<x, y, z>>
<1> DEFINE E == {x, y, z}
           two == Append(<<x>>, y)
           three == Append(<<x, y>>, z)
<1>0. x \in E /\ y \in E /\ z \in E
  OBVIOUS
<1>1. <<x>> \in Seq(E) /\ <<x, y>> \in Seq(E) /\ Len(<<x>>) = 1 /\ Len(<<x, y>>) = 2
  BY <1>0
<1>2. two \in Seq(E) /\ Len(two) = 2 /\ two[1] = x /\ two[2] = y
  BY <1>0, <1>1, AppendProperties
<1>3. three \in Seq(E) /\ Len(three) = 3 /\ three[1] = x /\ three[2] = y /\ three[3] = z
  BY <1>0, <1>1, AppendProperties
<1> HIDE DEF two, three, E
<1>4. two = <<x, y>>
  BY <1>2
<1>5. three = <<x, y, z>>
  BY <1>3
<1> QED
  BY <1>4, <1>5 DEF two, three

(* A reason that is no count has the class of what is marked. *)
LEMMA MarksHaveReasons ==
  ASSUME NEW t \in {"unchanged", "regressed", "improved"}, NEW p \in {"unchanged", "regressed", "improved"},
         NEW n
  PROVE  LET class == PerformanceClassification(t, p)
             r == Reasons(<<ReasonOf("duration_total", t), ReasonOf("p95", p), ReasonOf("count", n)>>)
         IN  /\ class \in {"unchanged", "regressed", "improved"}
             /\ class = "regressed" <=> t = "regressed" \/ p = "regressed"
             /\ class = "improved" => t = "improved" \/ p = "improved"
             /\ class \in Marked => \E i \in DOMAIN r : r[i].metric # "count" /\ r[i].class = class
<1> DEFINE class == PerformanceClassification(t, p)
           a == ReasonOf("duration_total", t)
           b == ReasonOf("p95", p)
           c == ReasonOf("count", n)
           one == AppendReason(<<>>, a)
           two == AppendReason(one, b)
           r == AppendReason(two, c)
<1>1. /\ class \in {"unchanged", "regressed", "improved"}
      /\ class = "regressed" <=> t = "regressed" \/ p = "regressed"
      /\ class = "improved" => t = "improved" \/ p = "improved"
  BY DEF PerformanceClassification
<1>2. Reasons(<<a, b, c>>) = r
  BY ReasonsAre
<1>3. a.class = t /\ b.class = p /\ c.class = n /\ a.metric # "count" /\ b.metric # "count"
  BY DEF ReasonOf
<1>4. one = IF t = "unchanged" THEN <<>> ELSE <<a>>
  BY <1>3 DEF AppendReason
<1>5. two = IF p = "unchanged" THEN one ELSE Append(one, b)
  BY <1>3 DEF AppendReason
<1>6. r = two \/ r = Append(two, c)
  BY DEF AppendReason
<1> HIDE DEF a, b, c, one, two, r, class
<1>7. Append(<<>>, b) = <<b>> /\ Append(<<a>>, b) = <<a, b>>
  BY TuplesGrow
<1>8. two \in {<<>>, <<a>>, <<b>>, <<a, b>>}
  BY <1>4, <1>5, <1>7
<1>9. DOMAIN two \subseteq DOMAIN r /\ \A i \in DOMAIN two : r[i] = two[i]
  <2>1. /\ Append(<<>>, c) = <<c>> /\ Append(<<a>>, c) = <<a, c>> /\ Append(<<b>>, c) = <<b, c>>
        /\ Append(<<a, b>>, c) = <<a, b, c>>
    BY TuplesGrow
  <2>2. CASE two = <<>>
    BY <1>6, <2>1, <2>2
  <2>3. CASE two = <<a>>
    BY <1>6, <2>1, <2>3
  <2>4. CASE two = <<b>>
    BY <1>6, <2>1, <2>4
  <2>5. CASE two = <<a, b>>
    BY <1>6, <2>1, <2>5
  <2> QED
    BY <1>8, <2>2, <2>3, <2>4, <2>5
<1>10. ASSUME t # "unchanged"
       PROVE  \E i \in DOMAIN two : two[i] = a
  <2>1. one = <<a>>
    BY <1>4, <1>10
  <2>2. two = <<a>> \/ two = <<a, b>>
    BY <1>5, <1>7, <2>1
  <2> QED
    BY <2>2
<1>11. ASSUME p # "unchanged"
       PROVE  \E i \in DOMAIN two : two[i] = b
  <2>1. one = <<a>> \/ one = <<>>
    BY <1>4
  <2>2. two = <<b>> \/ two = <<a, b>>
    BY <1>5, <1>7, <1>11, <2>1
  <2> QED
    BY <2>2
<1>12. ASSUME class \in Marked
       PROVE  \E i \in DOMAIN r : r[i].metric # "count" /\ r[i].class = class
  <2>1. CASE class = t
    BY <1>3, <1>9, <1>10, <1>12, <2>1 DEF Marked
  <2>2. CASE class = p
    BY <1>3, <1>9, <1>11, <1>12, <2>2 DEF Marked
  <2>3. class = t \/ class = p
    BY <1>1, <1>12 DEF Marked
  <2> QED
    BY <2>1, <2>2, <2>3
<1> QED
  BY <1>1, <1>2, <1>12 DEF a, b, c, r, two, one, class

(* What CompareAggregate claims of two aggregates. *)
LEMMA ChangesAreHonest ==
  ASSUME NEW key, NEW base, NEW current, IsMeasured(base), IsMeasured(current), NEW q, NEW o,
         InForce(o, q), q.minAbsolute \in Nat, PercentOf(q) \in Nat
  PROVE  LET c == CompareAggregate(key, base, current, o)
         IN  /\ ChangeIsHonest(c, q)
             /\ c.key = key /\ c.base = base /\ c.current = current /\ c.class \in Classes
             /\ c.class \in Marked => base.total # current.total \/ base.p95 # current.p95
<1> DEFINE c == CompareAggregate(key, base, current, o)
           T == ClassifyMetric(base.total, current.total, o.regression, o.improvement, o.minAbsolute)
           P == ClassifyMetric(base.p95, current.p95, o.p95Regression, o.p95Improvement, 0)
           N == ClassifyMetric(base.count, current.count, o.countRegression, o.countImprovement, 0)
           R == Reasons(<<ReasonOf("duration_total", T), ReasonOf("p95", P), ReasonOf("count", N)>>)
           K == PerformanceClassification(T, P)
           percent == PercentOf(q)
           bound == (100 + percent) * base.total
<1>0. /\ base.count \in Nat /\ base.total \in Nat /\ base.p95 \in Nat
      /\ current.count \in Nat /\ current.total \in Nat /\ current.p95 \in Nat
  BY DEF IsMeasured
<1>1. /\ o["regression"] = percent /\ o["improvement"] = percent /\ o["p95Regression"] = percent
      /\ o["p95Improvement"] = percent /\ o.minAbsolute = q.minAbsolute
  BY DEF InForce, Thresholds
<1>2. /\ T \in {"unchanged", "regressed", "improved"}
      /\ T = "regressed" => WorseBy(base.total, current.total, percent)
      /\ T = "improved" => BetterBy(base.total, current.total, percent)
      /\ (/\ current.total > base.total /\ current.total - base.total >= q.minAbsolute
          /\ 100 * current.total > bound) => T = "regressed"
  <2>1. T = ClassifyMetric(base.total, current.total, percent, percent, q.minAbsolute)
    BY <1>1
  <2> DEFINE x == base.total
             y == current.total
             m == q.minAbsolute
  <2>2. percent \in Nat /\ x \in Nat /\ y \in Nat /\ m \in Nat
    BY <1>0
  <2>3. T = ClassifyMetric(x, y, percent, percent, m) /\ bound = (100 + percent) * x
    BY <2>1
  <2> HIDE DEF percent, x, y, m, T, bound
  <2>4. /\ T \in {"unchanged", "regressed", "improved"}
        /\ T = "regressed" => WorseBy(x, y, percent)
        /\ T = "improved" => BetterBy(x, y, percent)
        /\ y > x /\ y - x >= m /\ 100 * y > bound => T = "regressed"
    BY <2>2, <2>3, Metric
  <2> QED
    BY <2>4 DEF x, y, m
<1>3. /\ P \in {"unchanged", "regressed", "improved"}
      /\ P = "regressed" => WorseBy(base.p95, current.p95, percent)
      /\ P = "improved" => BetterBy(base.p95, current.p95, percent)
  <2>1. P = ClassifyMetric(base.p95, current.p95, percent, percent, 0)
    BY <1>1
  <2> DEFINE x == base.p95
             y == current.p95
             m == 0
  <2>2. percent \in Nat /\ x \in Nat /\ y \in Nat /\ m \in Nat
    BY <1>0
  <2>3. P = ClassifyMetric(x, y, percent, percent, m)
    BY <2>1
  <2> HIDE DEF percent, x, y, m, P
  <2>4. /\ P \in {"unchanged", "regressed", "improved"}
        /\ P = "regressed" => WorseBy(x, y, percent)
        /\ P = "improved" => BetterBy(x, y, percent)
    BY <2>2, <2>3, Metric
  <2> QED
    BY <2>4 DEF x, y
<1>4. /\ K \in {"unchanged", "regressed", "improved"}
      /\ K = "regressed" <=> T = "regressed" \/ P = "regressed"
      /\ K = "improved" => T = "improved" \/ P = "improved"
      /\ K \in Marked => \E i \in DOMAIN R : R[i].metric # "count" /\ R[i].class = K
  <2> HIDE DEF T, P, N
  <2> QED
    BY <1>2, <1>3, MarksHaveReasons
<1>5. c = CASE base.count = 0 /\ current.count > 0 ->
                 [key |-> key, base |-> base, current |-> current, class |-> "new",
                  reasons |-> <<[metric |-> "row", class |-> "new"]>>]
            [] base.count > 0 /\ current.count = 0 ->
                 [key |-> key, base |-> base, current |-> current, class |-> "removed",
                  reasons |-> <<[metric |-> "row", class |-> "removed"]>>]
            [] (base.count = 0) = (current.count = 0) ->
                 [key |-> key, base |-> base, current |-> current, class |-> K, reasons |-> R]
  BY DEF CompareAggregate, ReasonOf
<1> HIDE DEF c, T, P, N, R, K, bound
<1>6. /\ c.key = key /\ c.base = base /\ c.current = current
      /\ base.count = 0 /\ current.count > 0 => c.class = "new"
      /\ base.count > 0 /\ current.count = 0 => c.class = "removed"
      /\ (base.count = 0 <=> current.count = 0) => c.class = K /\ c.reasons = R
  BY <1>0, <1>5
<1>7. c.class \in Classes
  BY <1>0, <1>4, <1>6 DEF Classes
<1>8. c.class \in Marked => c.class = K /\ c.reasons = R
  BY <1>0, <1>6 DEF Marked
<1>9. /\ c.class = "regressed" => \/ WorseBy(base.total, current.total, percent)
                                 \/ WorseBy(base.p95, current.p95, percent)
      /\ c.class = "improved" => \/ BetterBy(base.total, current.total, percent)
                                \/ BetterBy(base.p95, current.p95, percent)
  <2> HIDE DEF percent
  <2> QED
    BY <1>2, <1>3, <1>4, <1>8 DEF Marked
<1>10. c.class \in Marked => base.total # current.total \/ base.p95 # current.p95
  <2>1. \A x, y \in Nat : WorseBy(x, y, percent) \/ BetterBy(x, y, percent) => x # y
    BY DEF WorseBy, BetterBy
  <2> HIDE DEF percent
  <2> QED
    BY <1>0, <1>9, <2>1 DEF Marked
<1>11. /\ c.class = "new" <=> base.count = 0 /\ current.count > 0
       /\ c.class = "removed" <=> base.count > 0 /\ current.count = 0
  BY <1>0, <1>4, <1>6
<1>12. (/\ base.count > 0 /\ current.count > 0 /\ current.total - base.total > 0
        /\ current.total - base.total >= q.minAbsolute /\ 100 * current.total > bound)
          => c.class = "regressed"
  BY <1>0, <1>2, <1>4, <1>6
<1>13. c.class \in Marked => \E i \in DOMAIN c.reasons : /\ c.reasons[i].metric # "count"
                                                         /\ c.reasons[i].class = c.class
  BY <1>4, <1>8
<1>14. /\ c.class = "regressed" => \E m \in {"total", "p95"} :
                /\ current[m] - base[m] > 0
                /\ 100 * current[m] >= (100 + percent) * base[m]
       /\ c.class = "improved" => \E m \in {"total", "p95"} :
                /\ current[m] - base[m] < 0
                /\ 100 * current[m] <= (100 - percent) * base[m]
  <2>1. /\ \A x, y \in Nat : WorseBy(x, y, percent) =>
                               y - x > 0 /\ 100 * y >= (100 + percent) * x
        /\ \A x, y \in Nat : BetterBy(x, y, percent) =>
                               y - x < 0 /\ 100 * y <= (100 - percent) * x
    BY DEF WorseBy, BetterBy
  <2> DEFINE Worse(m) == current[m] - base[m] > 0 /\ 100 * current[m] >= (100 + percent) * base[m]
             Better(m) == current[m] - base[m] < 0 /\ 100 * current[m] <= (100 - percent) * base[m]
  <2>2. /\ WorseBy(base.total, current.total, percent) => Worse("total")
        /\ WorseBy(base.p95, current.p95, percent) => Worse("p95")
        /\ BetterBy(base.total, current.total, percent) => Better("total")
        /\ BetterBy(base.p95, current.p95, percent) => Better("p95")
    <3> HIDE DEF percent
    <3> QED
      BY <1>0, <2>1
  <2> HIDE DEF Worse, Better, percent
  <2>3. /\ c.class = "regressed" => \E m \in {"total", "p95"} : Worse(m)
        /\ c.class = "improved" => \E m \in {"total", "p95"} : Better(m)
    BY <1>9, <2>2
  <2> QED
    BY <2>3 DEF Worse, Better
<1>15. ChangeIsHonest(c, q)
  BY <1>6, <1>11, <1>12, <1>13, <1>14 DEF ChangeIsHonest, bound, PercentOf
<1> QED
  BY <1>6, <1>7, <1>10, <1>15 DEF c

-------------------------------------------------------------------------------
(* The numbers from 1 to n. *)
LEMMA OneTo == \A n \in Nat : IsFiniteSet(1..n) /\ Cardinality(1..n) = n
<1> TAKE n \in Nat
<1>1. 1 \in Int /\ n \in Int
  OBVIOUS
<1>2. IsFiniteSet(1..n) /\ Cardinality(1..n) = IF 1 > n THEN 0 ELSE n - 1 + 1
  BY <1>1, FS_Interval
<1> DEFINE c == Cardinality(1..n)
<1> HIDE DEF c
<1>3. c = IF 1 > n THEN 0 ELSE n - 1 + 1
  BY <1>2 DEF c
<1>4. c = n
  BY <1>3
<1> QED
  BY <1>2, <1>4 DEF c

(* The keys of two sections in their order: each has a number. *)
NthOf(keys, i) == CHOOSE key \in keys : Cardinality({k \in keys : k < key}) = i - 1

(* NthOf numbers the keys of a finite set: each has one place. *)
LEMMA KeysAreNumbered ==
  ASSUME NEW keys \in SUBSET Int, IsFiniteSet(keys)
  PROVE  LET n == Cardinality(keys)
         IN  /\ n \in Nat
             /\ \A i \in 1..n : NthOf(keys, i) \in keys
             /\ \A key \in keys : \E i \in 1..n : NthOf(keys, i) = key
<1> DEFINE n == Cardinality(keys)
           Below(key) == {k \in keys : k < key}
           f == [key \in keys |-> Cardinality(Below(key)) + 1]
<1>1. n \in Nat
  BY FS_CardinalityType
<1>2. \A key \in keys : IsFiniteSet(Below(key)) /\ Cardinality(Below(key)) \in Nat
  <2> TAKE key \in keys
  <2>1. Below(key) \in SUBSET keys
    OBVIOUS
  <2> HIDE DEF Below
  <2> QED
    BY <2>1, FS_Subset, FS_CardinalityType
<1>3. \A key \in keys : Cardinality(Below(key)) < n
  <2> TAKE key \in keys
  <2>1. Below(key) \in SUBSET keys /\ key \notin Below(key)
    OBVIOUS
  <2> HIDE DEF Below
  <2>2. Cardinality(Below(key)) <= n /\ Cardinality(Below(key)) # n
    BY <2>1, FS_Subset
  <2> QED
    BY <1>1, <1>2, <2>2
<1>4. \A a, b \in keys : a < b => Cardinality(Below(a)) < Cardinality(Below(b))
  <2> TAKE a, b \in keys
  <2> HAVE a < b
  <2>1. a \in Int /\ b \in Int
    OBVIOUS
  <2>2. Below(a) \in SUBSET Below(b)
    <3> SUFFICES ASSUME NEW k \in keys, k < a PROVE k < b
      OBVIOUS
    <3>1. k \in Int
      OBVIOUS
    <3> QED
      BY <2>1, <3>1
  <2>3. a \in Below(b) /\ a \notin Below(a)
    BY <2>1
  <2>4. IsFiniteSet(Below(b)) /\ Cardinality(Below(a)) \in Nat /\ Cardinality(Below(b)) \in Nat
    BY <1>2
  <2> HIDE DEF Below
  <2>5. Cardinality(Below(a)) <= Cardinality(Below(b)) /\ Cardinality(Below(a)) # Cardinality(Below(b))
    BY <2>2, <2>3, <2>4, FS_Subset
  <2> QED
    BY <2>4, <2>5
<1>5. \A a, b \in keys : Cardinality(Below(a)) = Cardinality(Below(b)) => a = b
  <2> TAKE a, b \in keys
  <2>1. a \in Int /\ b \in Int /\ Cardinality(Below(a)) \in Nat /\ Cardinality(Below(b)) \in Nat
    BY <1>2
  <2>2. /\ a < b => Cardinality(Below(a)) < Cardinality(Below(b))
        /\ b < a => Cardinality(Below(b)) < Cardinality(Below(a))
    BY <1>4
  <2> HIDE DEF Below
  <2> QED
    BY <2>1, <2>2
<1> HIDE DEF Below
<1>6. f \in Injection(keys, 1..n)
  <2>1. \A key \in keys : f[key] \in 1..n
    BY <1>1, <1>2, <1>3
  <2>2. \A a, b \in keys : f[a] = f[b] => a = b
    <3> TAKE a, b \in keys
    <3>1. Cardinality(Below(a)) \in Nat /\ Cardinality(Below(b)) \in Nat
      BY <1>2
    <3>2. f[a] = f[b] => Cardinality(Below(a)) = Cardinality(Below(b))
      BY <3>1
    <3> QED
      BY <1>5, <3>2
  <2>3. f = [key \in keys |-> f[key]]
    OBVIOUS
  <2> HIDE DEF f, n
  <2> QED
    BY <2>1, <2>2, <2>3 DEF Injection, IsInjective
<1>7. f \in Surjection(keys, 1..n)
  <2> HIDE DEF f
  <2>1. IsFiniteSet(1..n) /\ Cardinality(1..n) = n
    BY <1>1, OneTo
  <2> QED
    BY <1>6, <2>1, FS_Injection
<1>8. \A i \in 1..n : \E key \in keys : Cardinality(Below(key)) = i - 1
  <2> TAKE i \in 1..n
  <2>1. PICK key \in keys : f[key] = i
    <3> HIDE DEF f, n
    <3> QED
      BY <1>7 DEF Surjection
  <2>2. Cardinality(Below(key)) + 1 = i /\ Cardinality(Below(key)) \in Nat
    BY <1>2, <2>1
  <2> QED
    BY <2>2
<1>9. \A i \in 1..n : NthOf(keys, i) \in keys /\ Cardinality(Below(NthOf(keys, i))) = i - 1
  BY <1>8 DEF NthOf, Below
<1>10. ASSUME NEW key \in keys
       PROVE  \E i \in 1..n : NthOf(keys, i) = key
  <2> DEFINE i == Cardinality(Below(key)) + 1
  <2>1. i \in 1..n /\ i - 1 = Cardinality(Below(key))
    BY <1>1, <1>2, <1>3
  <2> HIDE DEF i
  <2>2. NthOf(keys, i) = key
    BY <1>5, <1>9, <2>1
  <2> QED
    BY <2>1, <2>2
<1> QED
  BY <1>1, <1>9, <1>10

-------------------------------------------------------------------------------
(* The order of the changes of a section. *)
IsChange(c) == c.key \in Int /\ c.class \in Classes /\ Magnitude(c) \in Nat
ChangeOrder(E) == {p \in E \X E : ChangeBefore(p[1], p[2])}

(* The ranks of the classes of changes. *)
LEMMA RanksAre ==
  /\ ClassificationRank("new") = 0
  /\ ClassificationRank("regressed") = 1
  /\ ClassificationRank("removed") = 2
  /\ ClassificationRank("improved") = 3
  /\ ClassificationRank("unchanged") = 4
  BY DEF ClassificationRank

(* The order of the changes is a strict order, so they can be sorted. *)
LEMMA ChangesInLine ==
  ASSUME NEW E, \A c \in E : IsChange(c)
  PROVE  /\ Orders(ChangeOrder(E), E)
         /\ \A a, b \in E : <<a, b>> \in ChangeOrder(E) <=> ChangeBefore(a, b)
<1>1. \A a, b \in E : <<a, b>> \in ChangeOrder(E) <=> ChangeBefore(a, b)
  BY DEF ChangeOrder
<1>2. \A c \in E : ClassificationRank(c.class) \in Nat /\ Magnitude(c) \in Nat /\ c.key \in Int
  BY RanksAre DEF IsChange, Classes
<1>3. \A a \in E : ~ChangeBefore(a, a)
  BY <1>2 DEF ChangeBefore
<1>4. \A a, b, c \in E : ChangeBefore(a, b) /\ ChangeBefore(b, c) => ChangeBefore(a, c)
  BY <1>2 DEF ChangeBefore
<1>5. \A a, b, c \in E : ChangeBefore(a, c) => ChangeBefore(a, b) \/ ChangeBefore(b, c)
  BY <1>2 DEF ChangeBefore
<1> QED
  BY <1>1, <1>3, <1>4, <1>5 DEF Orders

(* Sorting changes is sorting by their pairs. *)
LEMMA ChangeSort ==
  ASSUME NEW E, \A c \in E : IsChange(c), NEW L \in Seq(E)
  PROVE  StableSort(L, ChangeBefore) = SortBy(L, ChangeOrder(E))
<1> DEFINE n == Len(L)
           R == ChangeOrder(E)
           Place(i) == 1 + Cardinality({j \in 1..n :
                         ChangeBefore(L[j], L[i]) \/ (~ChangeBefore(L[i], L[j]) /\ j < i)})
           placed == {<<Place(i), L[i]>> : i \in 1..n}
<1>0. \A i, j \in 1..n : ChangeBefore(L[i], L[j]) <=> <<L[i], L[j]>> \in R
  BY ElementOfSeq, ChangesInLine
<1>a. Orders(R, E)
  BY ChangesInLine
<1> HIDE DEF R
<1>1. ASSUME NEW i \in 1..n
      PROVE  Place(i) = PlaceOf(L, R, i)
  <2>1. \A j \in 1..n : Ahead(L, R, j, i) <=> ChangeBefore(L[j], L[i]) \/ (~ChangeBefore(L[i], L[j]) /\ j < i)
    BY <1>0 DEF Ahead
  <2> QED
    BY <2>1, Zenon DEF PlaceOf
<1>2. StableSort(L, ChangeBefore) = [m \in 1..n |-> (CHOOSE p \in placed : p[1] = m)[2]]
  BY DEF StableSort
<1> HIDE DEF Place
<1>3. placed = {<<PlaceOf(L, R, i), L[i]>> : i \in 1..n}
  BY <1>1
<1> HIDE DEF placed
<1>4. [m \in 1..Len(L) |-> (CHOOSE p \in {<<PlaceOf(L, R, i), L[i]>> : i \in 1..Len(L)} : p[1] = m)[2]]
        = SortBy(L, R)
  BY <1>a, PlacedIsSorted, Zenon
<1>5. StableSort(L, ChangeBefore) = SortBy(L, R)
  BY <1>2, <1>3, <1>4
<1> QED
  BY <1>5 DEF R

-------------------------------------------------------------------------------
ValueIn(map, key) == IF key \in DOMAIN map THEN map[key] ELSE NoAggregate
ChangeFor(base, current, o, key) ==
  CompareAggregate(key, ValueIn(base, key), ValueIn(current, key), o)

(* The change of a key can be put in order. *)
LEMMA AggregatesChange ==
  ASSUME NEW key \in Int, NEW base \in Measures, NEW current \in Measures, NEW q, NEW o,
         InForce(o, q), q.minAbsolute \in Nat, PercentOf(q) \in Nat
  PROVE  IsChange(CompareAggregate(key, base, current, o))
<1> DEFINE c == CompareAggregate(key, base, current, o)
<1>0. IsMeasured(base) /\ IsMeasured(current)
  BY DEF IsMeasured, Measures
<1>1. c.key = key /\ c.base = base /\ c.current = current /\ c.class \in Classes
  BY <1>0, ChangesAreHonest
<1> HIDE DEF c
<1>2. base.total \in Nat /\ current.total \in Nat
  BY DEF Measures
<1>3. Magnitude(c) \in Nat
  BY <1>1, <1>2 DEF Magnitude
<1>4. IsChange(c)
  BY <1>1, <1>3 DEF IsChange
<1> QED
  BY <1>4 DEF c

(* The changes of two maps are one for each key of either, the worse first. *)
LEMMA MapsCompared ==
  ASSUME NEW base, NEW current, NEW q, NEW o,
         InForce(o, q), q.minAbsolute \in Nat, PercentOf(q) \in Nat,
         base \in [DOMAIN base -> Measures], current \in [DOMAIN current -> Measures],
         DOMAIN base \in SUBSET Int, DOMAIN current \in SUBSET Int,
         IsFiniteSet(DOMAIN base), IsFiniteSet(DOMAIN current)
  PROVE  LET s == CompareMaps(base, current, o)
             keys == DOMAIN base \cup DOMAIN current
         IN  /\ ToSet(s) = {ChangeFor(base, current, o, key) : key \in keys}
             /\ Len(s) = Cardinality(keys) /\ Len(s) \in Nat
             /\ \A i \in 2..Len(s) : ClassificationRank(s[i - 1].class) <= ClassificationRank(s[i].class)
             /\ \A i \in 1..Len(s) : s[i].class \in Classes
<1> DEFINE keys == DOMAIN base \cup DOMAIN current
           n == Cardinality(keys)
           E == {ChangeFor(base, current, o, key) : key \in keys}
           L == [i \in 1..n |-> ChangeFor(base, current, o, NthOf(keys, i))]
           s == CompareMaps(base, current, o)
           R == ChangeOrder(E)
<1>1. keys \in SUBSET Int /\ IsFiniteSet(keys)
  BY FS_Union
<1>2. NoAggregate \in Measures
  BY DEF NoAggregate, Aggregate, Measures
<1>3. \A key \in keys : ValueIn(base, key) \in Measures /\ ValueIn(current, key) \in Measures
  BY <1>2 DEF ValueIn
<1>4. \A key \in keys : IsChange(ChangeFor(base, current, o, key))
  <2> TAKE key \in keys
  <2>1. ValueIn(base, key) \in Measures /\ ValueIn(current, key) \in Measures /\ key \in Int
    BY <1>1, <1>3
  <2> QED
    BY <2>1, AggregatesChange DEF ChangeFor
<1>5. \A c \in E : IsChange(c)
  BY <1>4
<1>6. s = StableSort(L, ChangeBefore)
  BY DEF CompareMaps, ChangeFor, ValueIn, NthOf
<1>7. /\ n \in Nat
      /\ \A i \in 1..n : NthOf(keys, i) \in keys
      /\ \A key \in keys : \E i \in 1..n : NthOf(keys, i) = key
  <2> HIDE DEF keys
  <2> QED
    BY <1>1, KeysAreNumbered
<1>8. L \in Seq(E) /\ Len(L) = n /\ \A i \in 1..n : L[i] = ChangeFor(base, current, o, NthOf(keys, i))
  <2>1. \A i \in 1..n : L[i] \in E
    BY <1>7
  <2> HIDE DEF E, keys
  <2>2. L \in [1..n -> E]
    BY <2>1
  <2> QED
    BY <1>7, <2>2
<1>9. \A c \in E : \E i \in 1..n : L[i] = c
  BY <1>7, <1>8
<1> HIDE DEF E, L, s, n
<1>10. s = SortBy(L, R)
  BY <1>5, <1>6, <1>8, ChangeSort
<1>11. Orders(R, E) /\ \A a, b \in E : <<a, b>> \in R <=> ChangeBefore(a, b)
  BY <1>5, ChangesInLine
<1> HIDE DEF R
<1>12. /\ Len(s) = n /\ s \in Seq(E)
       /\ \A i \in 1..n : s[PlaceOf(L, R, i)] = L[i]
       /\ \A i \in 1..n : PlaceOf(L, R, i) \in 1..n
       /\ \A k, m \in 1..n : k < m => <<s[m], s[k]>> \notin R
  <2>1. /\ Len(s) = n /\ s \in Seq(E)
        /\ \A i \in 1..n : s[PlaceOf(L, R, i)] = L[i]
    BY <1>8, <1>10, <1>11, SortByLook
  <2>2. \A i \in 1..n : PlaceOf(L, R, i) \in 1..n
    BY <1>8, <1>11, PlacesInOrder
  <2>3. \A k, m \in 1..n : k < m => <<s[m], s[k]>> \notin R
    BY <1>8, <1>10, <1>11, SortByInOrder
  <2> QED
    BY <2>1, <2>2, <2>3
<1>13. \A i \in 1..n : s[i] \in E
  BY <1>12, ElementOfSeq
<1>14. ToSet(s) = E
  <2>1. DOMAIN s = 1..n
    BY <1>12
  <2>2. ToSet(s) = {s[i] : i \in DOMAIN s}
    BY DEF ToSet
  <2>3. ToSet(s) \subseteq E
    BY <1>13, <2>1, <2>2
  <2>4. ASSUME NEW c \in E PROVE c \in ToSet(s)
    <3>1. PICK i \in 1..n : L[i] = c
      BY <1>9
    <3>2. s[PlaceOf(L, R, i)] = c /\ PlaceOf(L, R, i) \in 1..n
      BY <1>12, <3>1
    <3> QED
      BY <2>1, <2>2, <3>2
  <2> QED
    BY <2>3, <2>4
<1>15. \A i \in 1..n : s[i].class \in Classes
  BY <1>5, <1>13 DEF IsChange
<1>16. \A i \in 2..n : ClassificationRank(s[i - 1].class) <= ClassificationRank(s[i].class)
  <2> TAKE i \in 2..n
  <2>1. i \in 1..n /\ i - 1 \in 1..n /\ i - 1 < i
    BY <1>7
  <2>2. ~ChangeBefore(s[i], s[i - 1])
    BY <1>11, <1>12, <1>13, <2>1
  <2>3. ClassificationRank(s[i].class) \in Nat /\ ClassificationRank(s[i - 1].class) \in Nat
    BY <1>15, <2>1, RanksAre DEF Classes
  <2>4. ~(ClassificationRank(s[i].class) < ClassificationRank(s[i - 1].class))
    BY <2>2 DEF ChangeBefore
  <2> QED
    BY <2>3, <2>4
<1> QED
  BY <1>7, <1>12, <1>14, <1>15, <1>16 DEF E, s, n

Untimed(a) == a.total = 0 /\ a.p95 = 0

(* The map of a section. *)
LEMMA RowsAreMapped ==
  ASSUME NEW name, NEW rows, rows \in Seq(ToSet(rows)),
         \A row \in ToSet(rows) : row.key \in Int /\ IsMeasured(row)
  PROVE  LET map == MapOf(name, rows)
         IN  /\ DOMAIN map = {row.key : row \in ToSet(rows)}
             /\ map \in [DOMAIN map -> Measures]
             /\ DOMAIN map \in SUBSET Int /\ IsFiniteSet(DOMAIN map)
             /\ name = "error_context_groups" => \A key \in DOMAIN map : Untimed(map[key])
<1> DEFINE n == Len(rows)
           keys == {row.key : row \in ToSet(rows)}
           Places(key) == {i \in 1..n : rows[i].key = key}
           map == MapOf(name, rows)
<1>1. /\ n \in Nat /\ DOMAIN rows = 1..n /\ ToSet(rows) = {rows[i] : i \in 1..n}
      /\ \A i \in 1..n : rows[i] \in ToSet(rows)
  BY DEF ToSet
<1>2. keys = {rows[i].key : i \in 1..n}
  BY <1>1
<1>3. \A key \in keys : Max(Places(key)) \in 1..n
  <2> TAKE key \in keys
  <2>1. PICK i \in 1..n : rows[i].key = key
    BY <1>2
  <2>2. Places(key) \in SUBSET (1..n) /\ Places(key) # {}
    BY <2>1
  <2> HIDE DEF Places, n
  <2>3. Max(Places(key)) \in Places(key)
    BY <1>1, <2>2, GreatestIndex
  <2> QED
    BY <2>2, <2>3
<1>4. \A key \in keys : Places(key) # {}
  BY <1>2
<1>5. map = [key \in keys |-> AggregateOf(name, rows[Max(Places(key))])]
  <2>1. map = [key \in {rows[i].key : i \in 1..n} |->
                 AggregateOf(name, rows[IF Places(key) # {} THEN Max(Places(key)) ELSE 0])]
    BY <1>1 DEF MapOf, SelectLastInSeq
  <2> HIDE DEF Places, n, map
  <2> QED
    BY <1>2, <1>4, <2>1
<1>6. ASSUME NEW row \in ToSet(rows)
      PROVE  /\ AggregateOf(name, row) \in Measures
             /\ name = "error_context_groups" => Untimed(AggregateOf(name, row))
  <2>1. row.count \in Nat /\ row.total \in Nat /\ row.p95 \in Nat
    BY DEF IsMeasured
  <2>2. \A a, b, c \in Nat : Aggregate(a, b, c) \in Measures
    BY DEF Aggregate, Measures
  <2>3. AggregateOf(name, row) \in {Aggregate(row.count, 0, 0), Aggregate(row.count, row.total, 0),
                                    Aggregate(row.count, row.total, row.p95)}
    BY DEF AggregateOf
  <2>4. name = "error_context_groups" => AggregateOf(name, row) = Aggregate(row.count, 0, 0)
    BY DEF AggregateOf
  <2>5. Untimed(Aggregate(row.count, 0, 0))
    BY DEF Aggregate, Untimed
  <2> QED
    BY <2>1, <2>2, <2>3, <2>4, <2>5
<1>7. IsFiniteSet(keys)
  <2> DEFINE key == [i \in 1..n |-> rows[i].key]
  <2>1. key \in Surjection(1..n, keys)
    <3>1. \A i \in 1..n : key[i] \in keys
      BY <1>2
    <3>2. \A k \in keys : \E i \in 1..n : key[i] = k
      BY <1>2
    <3>3. key = [i \in 1..n |-> key[i]]
      OBVIOUS
    <3> HIDE DEF key, keys
    <3> QED
      BY <3>1, <3>2, <3>3 DEF Surjection
  <2> HIDE DEF key, keys
  <2>2. IsFiniteSet(1..n)
    BY <1>1, OneTo
  <2> QED
    BY <2>1, <2>2, FS_Surjection
<1>8. keys \in SUBSET Int
  OBVIOUS
<1> HIDE DEF Places, keys, map, n
<1>9. \A key \in keys : /\ map[key] \in Measures
                        /\ name = "error_context_groups" => Untimed(map[key])
  BY <1>1, <1>3, <1>5, <1>6
<1>10. DOMAIN map = keys /\ map \in [keys -> Measures]
  BY <1>5, <1>9
<1> QED
  BY <1>7, <1>8, <1>9, <1>10 DEF map, keys

(* A change of a key that either run has. *)
KeyIsHonest(q, base, current, o, key) ==
  LET c == ChangeFor(base, current, o, key)
  IN  /\ ChangeIsHonest(c, q) /\ c.key = key
      /\ c.class = "new" <=> ValueIn(base, key).count = 0 /\ ValueIn(current, key).count > 0
      /\ c.class = "removed" <=> ValueIn(base, key).count > 0 /\ ValueIn(current, key).count = 0
      /\ c.class \in Marked => ~(Untimed(ValueIn(base, key)) /\ Untimed(ValueIn(current, key)))

(* The change of one key claims no more than the two runs show of it. *)
LEMMA KeysCompared ==
  ASSUME NEW base, NEW current, NEW q, NEW o, NEW key,
         InForce(o, q), q.minAbsolute \in Nat, PercentOf(q) \in Nat,
         base \in [DOMAIN base -> Measures], current \in [DOMAIN current -> Measures]
  PROVE  KeyIsHonest(q, base, current, o, key)
<1> DEFINE b == ValueIn(base, key)
           e == ValueIn(current, key)
           c == CompareAggregate(key, b, e, o)
<1>1. b \in Measures /\ e \in Measures
  BY DEF ValueIn, NoAggregate, Aggregate, Measures
<1>2. IsMeasured(b) /\ IsMeasured(e)
  BY <1>1 DEF IsMeasured, Measures
<1> HIDE DEF b, e
<1>3. /\ ChangeIsHonest(c, q)
      /\ c.key = key /\ c.base = b /\ c.current = e
      /\ c.class \in Marked => b.total # e.total \/ b.p95 # e.p95
  BY <1>2, ChangesAreHonest
<1> HIDE DEF c
<1>4. /\ c.class = "new" <=> b.count = 0 /\ e.count > 0
      /\ c.class = "removed" <=> b.count > 0 /\ e.count = 0
  BY <1>3 DEF ChangeIsHonest
<1>5. c.class \in Marked => ~(Untimed(b) /\ Untimed(e))
  BY <1>3 DEF Untimed
<1> QED
  BY <1>3, <1>4, <1>5 DEF b, e, c, ChangeFor, KeyIsHonest

(* The comparison of two sections. *)
Compared(name, b, e, o) ==
  CompareMaps(MapOf(name, Results[b].rows[name]), MapOf(name, Results[e].rows[name]), o)

IsCompared(s, name, b, e, o, base, current) ==
  LET keys == DOMAIN base \cup DOMAIN current
  IN  /\ ToSet(s) = {ChangeFor(base, current, o, key) : key \in keys}
      /\ Len(s) = Cardinality(keys) /\ Len(s) \in Nat
      /\ \A i \in 2..Len(s) : ClassificationRank(s[i - 1].class) <= ClassificationRank(s[i].class)
      /\ \A i \in 1..Len(s) : s[i].class \in Classes
      /\ DOMAIN base = {row.key : row \in ToSet(Results[b].rows[name])}
      /\ DOMAIN current = {row.key : row \in ToSet(Results[e].rows[name])}
      /\ base \in [DOMAIN base -> Measures] /\ current \in [DOMAIN current -> Measures]
      /\ name = "error_context_groups" =>
           /\ \A key \in DOMAIN base : Untimed(base[key])
           /\ \A key \in DOMAIN current : Untimed(current[key])

(* A section's changes are those of its keys, each once, in order. *)
LEMMA SectionsCompared ==
  ASSUME NEW q, NEW o, NEW b, NEW e, NEW name \in Sections,
         InForce(o, q), q.minAbsolute \in Nat, PercentOf(q) \in Nat,
         IsOverview(Results[b]), IsOverview(Results[e])
  PROVE  IsCompared(Compared(name, b, e, o), name, b, e, o,
                    MapOf(name, Results[b].rows[name]), MapOf(name, Results[e].rows[name]))
<1> DEFINE base == MapOf(name, Results[b].rows[name])
           current == MapOf(name, Results[e].rows[name])
<1>1. ASSUME NEW run \in {b, e}
      PROVE  LET map == MapOf(name, Results[run].rows[name])
             IN  /\ DOMAIN map = {row.key : row \in ToSet(Results[run].rows[name])}
                 /\ map \in [DOMAIN map -> Measures]
                 /\ DOMAIN map \in SUBSET Int /\ IsFiniteSet(DOMAIN map)
                 /\ name = "error_context_groups" => \A key \in DOMAIN map : Untimed(map[key])
  <2> DEFINE rows == Results[run].rows[name]
  <2>1. /\ rows \in Seq(ToSet(rows))
        /\ \A row \in ToSet(rows) : row.key \in Int /\ IsMeasured(row)
    BY DEF IsOverview
  <2> HIDE DEF rows
  <2>2. LET map == MapOf(name, rows)
        IN  /\ DOMAIN map = {row.key : row \in ToSet(rows)}
            /\ map \in [DOMAIN map -> Measures]
            /\ DOMAIN map \in SUBSET Int /\ IsFiniteSet(DOMAIN map)
            /\ name = "error_context_groups" => \A key \in DOMAIN map : Untimed(map[key])
    BY <2>1, RowsAreMapped
  <2> QED
    BY <2>2 DEF rows
<1>2. /\ base \in [DOMAIN base -> Measures] /\ current \in [DOMAIN current -> Measures]
      /\ DOMAIN base \in SUBSET Int /\ DOMAIN current \in SUBSET Int
      /\ IsFiniteSet(DOMAIN base) /\ IsFiniteSet(DOMAIN current)
      /\ name = "error_context_groups" =>
           /\ \A key \in DOMAIN base : Untimed(base[key])
           /\ \A key \in DOMAIN current : Untimed(current[key])
      /\ DOMAIN base = {row.key : row \in ToSet(Results[b].rows[name])}
      /\ DOMAIN current = {row.key : row \in ToSet(Results[e].rows[name])}
  BY <1>1
<1>3. Compared(name, b, e, o) = CompareMaps(base, current, o)
  BY DEF Compared
<1> HIDE DEF base, current
<1>4. LET s == CompareMaps(base, current, o)
          keys == DOMAIN base \cup DOMAIN current
      IN  /\ ToSet(s) = {ChangeFor(base, current, o, key) : key \in keys}
          /\ Len(s) = Cardinality(keys) /\ Len(s) \in Nat
          /\ \A i \in 2..Len(s) : ClassificationRank(s[i - 1].class) <= ClassificationRank(s[i].class)
          /\ \A i \in 1..Len(s) : s[i].class \in Classes
  BY <1>2, MapsCompared
<1> QED
  BY <1>2, <1>3, <1>4 DEF base, current, IsCompared

-------------------------------------------------------------------------------
(* A request that compares two results with sound options. *)
Comparable(q, b, e) ==
  /\ q.percent \in Int /\ q.minAbsolute \in Int /\ ValidateOptions(OptionsOf(q))
  /\ IsOverview(Results[b]) /\ IsOverview(Results[e])

(* So every section of a comparison claims what it may. *)
LEMMA SectionsAreHonest ==
  ASSUME NEW q, NEW name \in Sections, Comparable(q, q.baseline, q.current)
  PROVE  SectionIsHonest(name, Compared(name, q.baseline, q.current, Effective(OptionsOf(q))), q)
<1> DEFINE o == Effective(OptionsOf(q))
           base == MapOf(name, Results[q.baseline].rows[name])
           current == MapOf(name, Results[q.current].rows[name])
           keys == DOMAIN base \cup DOMAIN current
           s == Compared(name, q.baseline, q.current, o)
           Keys(run) == {row.key : row \in ToSet(Results[run].rows[name])}
           Change(key) == ChangeFor(base, current, o, key)
           place == [new |-> 0, regressed |-> 1, removed |-> 2, improved |-> 3, unchanged |-> 4]
<1>1. InForce(o, q) /\ q.minAbsolute \in Nat /\ PercentOf(q) \in Nat
  BY OptionsInForce DEF Comparable
<1> HIDE DEF o
<1>2. /\ ToSet(s) = {Change(key) : key \in keys}
      /\ Len(s) = Cardinality(keys) /\ Len(s) \in Nat
      /\ \A i \in 2..Len(s) : ClassificationRank(s[i - 1].class) <= ClassificationRank(s[i].class)
      /\ \A i \in 1..Len(s) : s[i].class \in Classes
      /\ DOMAIN base = Keys(q.baseline) /\ DOMAIN current = Keys(q.current)
      /\ base \in [DOMAIN base -> Measures] /\ current \in [DOMAIN current -> Measures]
      /\ name = "error_context_groups" =>
           /\ \A key \in DOMAIN base : Untimed(base[key])
           /\ \A key \in DOMAIN current : Untimed(current[key])
  <2>1. IsCompared(s, name, q.baseline, q.current, o, base, current)
    BY <1>1, SectionsCompared DEF Comparable
  <2> HIDE DEF s, o, base, current
  <2> QED
    BY <2>1 DEF IsCompared
<1> HIDE DEF base, current
<1>3. \A key : LET c == Change(key)
               IN  /\ ChangeIsHonest(c, q) /\ c.key = key
                   /\ c.class \in Marked => ~(Untimed(ValueIn(base, key)) /\ Untimed(ValueIn(current, key)))
  <2>1. \A key : KeyIsHonest(q, base, current, o, key)
    BY <1>1, <1>2, KeysCompared
  <2> QED
    BY <2>1 DEF KeyIsHonest
<1> HIDE DEF s, Change
<1>4. keys = Keys(q.baseline) \cup Keys(q.current)
  BY <1>2
<1>5. {c.key : c \in ToSet(s)} = keys
  <2> HIDE DEF keys
  <2>1. \A c \in ToSet(s) : \E key \in keys : c = Change(key)
    BY <1>2
  <2>2. \A key \in keys : Change(key) \in ToSet(s) /\ Change(key).key = key
    BY <1>2, <1>3
  <2> QED
    BY <1>3, <2>1, <2>2
<1>6. \A c \in ToSet(s) : ChangeIsHonest(c, q)
  BY <1>2, <1>3
<1>7. \A i \in 2..Len(s) : place[s[i - 1].class] <= place[s[i].class]
  <2> TAKE i \in 2..Len(s)
  <2>1. i \in 1..Len(s) /\ i - 1 \in 1..Len(s)
    BY <1>2
  <2>2. \A class \in Classes : place[class] = ClassificationRank(class)
    BY RanksAre DEF Classes
  <2> HIDE DEF place
  <2> QED
    BY <1>2, <2>1, <2>2
<1>8. ASSUME name = "error_context_groups", NEW c \in ToSet(s) PROVE c.class \notin Marked
  <2>1. PICK key \in keys : c = Change(key)
    BY <1>2
  <2>2. Untimed(NoAggregate)
    BY DEF Untimed, NoAggregate, Aggregate
  <2>3. Untimed(ValueIn(base, key)) /\ Untimed(ValueIn(current, key))
    BY <1>2, <1>8, <2>2 DEF ValueIn
  <2> QED
    BY <1>3, <2>1, <2>3
<1>9. SectionIsHonest(name, s, q)
  <2> HIDE DEF keys
  <2> QED
    BY <1>2, <1>4, <1>5, <1>6, <1>7, <1>8 DEF SectionIsHonest
<1> QED
  BY <1>9 DEF s, o

(* The keys that are new, or removed, in a section of a comparison. *)
KeysOf(s, class) == {c.key : c \in {d \in ToSet(s) : d.class = class}}

(* What a comparison finds new, the other way round finds removed. *)
LEMMA NewAreRemoved ==
  ASSUME NEW q, NEW name \in Sections, Comparable(q, q.baseline, q.current)
  PROVE  KeysOf(Compared(name, q.baseline, q.current, Effective(OptionsOf(q))), "new")
           = KeysOf(Compared(name, q.current, q.baseline, Effective(OptionsOf(q))), "removed")
<1> DEFINE o == Effective(OptionsOf(q))
           base == MapOf(name, Results[q.baseline].rows[name])
           current == MapOf(name, Results[q.current].rows[name])
           keys == DOMAIN base \cup DOMAIN current
           s == Compared(name, q.baseline, q.current, o)
           t == Compared(name, q.current, q.baseline, o)
           There(key) == ChangeFor(base, current, o, key)
           Back(key) == ChangeFor(current, base, o, key)
<1>1. InForce(o, q) /\ q.minAbsolute \in Nat /\ PercentOf(q) \in Nat
  BY OptionsInForce DEF Comparable
<1> HIDE DEF o
<1>2. /\ ToSet(s) = {There(key) : key \in keys}
      /\ base \in [DOMAIN base -> Measures] /\ current \in [DOMAIN current -> Measures]
  <2>1. IsCompared(s, name, q.baseline, q.current, o, base, current)
    BY <1>1, SectionsCompared DEF Comparable
  <2> HIDE DEF s, base, current
  <2> QED
    BY <2>1 DEF IsCompared
<1>3. ToSet(t) = {Back(key) : key \in DOMAIN current \cup DOMAIN base}
  <2>1. IsCompared(t, name, q.current, q.baseline, o, current, base)
    BY <1>1, SectionsCompared DEF Comparable
  <2> HIDE DEF t, base, current
  <2> QED
    BY <2>1 DEF IsCompared
<1> HIDE DEF base, current, s, t
<1>4. ToSet(t) = {Back(key) : key \in keys}
  <2>1. DOMAIN current \cup DOMAIN base = keys
    OBVIOUS
  <2> HIDE DEF keys, Back
  <2> QED
    BY <1>3, <2>1
<1>5. \A key : /\ There(key).key = key /\ Back(key).key = key
               /\ There(key).class = "new" <=> Back(key).class = "removed"
  <2> TAKE key
  <2>1. /\ There(key).key = key
        /\ There(key).class = "new" <=> ValueIn(base, key).count = 0 /\ ValueIn(current, key).count > 0
    <3>1. KeyIsHonest(q, base, current, o, key)
      BY <1>1, <1>2, KeysCompared
    <3> QED
      BY <3>1 DEF KeyIsHonest
  <2>2. /\ Back(key).key = key
        /\ Back(key).class = "removed" <=> ValueIn(current, key).count > 0 /\ ValueIn(base, key).count = 0
    <3>1. KeyIsHonest(q, current, base, o, key)
      BY <1>1, <1>2, KeysCompared
    <3> QED
      BY <3>1 DEF KeyIsHonest
  <2> QED
    BY <2>1, <2>2
<1> HIDE DEF There, Back, keys
<1>6. KeysOf(s, "new") \subseteq KeysOf(t, "removed")
  BY <1>2, <1>4, <1>5 DEF KeysOf
<1>7. KeysOf(t, "removed") \subseteq KeysOf(s, "new")
  BY <1>2, <1>4, <1>5 DEF KeysOf
<1> QED
  BY <1>6, <1>7 DEF s, t, o

(* What a comparison claims. *)
LEMMA ComparingIsHonest ==
  ASSUME NEW q, Comparable(q, q.baseline, q.current)
  PROVE  \E result \in {Comparing(q, q.baseline, q.current)} :
           /\ ChangeIsHonest(result.totals, q)
           /\ \A name \in Sections : SectionIsHonest(name, result.sections[name], q)
           /\ Of(result, "new") = Of(Comparing(q, q.current, q.baseline), "removed")
<1> DEFINE o == Effective(OptionsOf(q))
           there == Comparing(q, q.baseline, q.current)
           back == Comparing(q, q.current, q.baseline)
<1>1. InForce(o, q) /\ q.minAbsolute \in Nat /\ PercentOf(q) \in Nat
  BY OptionsInForce DEF Comparable
<1>2. /\ there.totals = CompareAggregate("total", Results[q.baseline].totals, Results[q.current].totals, o)
      /\ \A name \in Sections : there.sections[name] = Compared(name, q.baseline, q.current, o)
      /\ \A name \in Sections : back.sections[name] = Compared(name, q.current, q.baseline, o)
  BY DEF Comparing, Compare, Compared
<1> HIDE DEF o, there, back
<1>3. ChangeIsHonest(there.totals, q)
  <2>1. IsMeasured(Results[q.baseline].totals) /\ IsMeasured(Results[q.current].totals)
    BY DEF Comparable, IsOverview
  <2> QED
    BY <1>1, <1>2, <2>1, ChangesAreHonest
<1>4. \A name \in Sections : SectionIsHonest(name, there.sections[name], q)
  BY <1>2, SectionsAreHonest DEF o
<1>5. \A name \in Sections :
        KeysOf(there.sections[name], "new") = KeysOf(back.sections[name], "removed")
  BY <1>2, NewAreRemoved DEF o
<1>6. Of(there, "new") = [name \in Sections |-> KeysOf(there.sections[name], "new")]
  BY DEF Of, KeysOf
<1>7. Of(back, "removed") = [name \in Sections |-> KeysOf(back.sections[name], "removed")]
  BY DEF Of, KeysOf
<1>8. Of(there, "new") = Of(back, "removed")
  BY <1>5, <1>6, <1>7
<1> QED
  BY <1>3, <1>4, <1>8 DEF there, back

-------------------------------------------------------------------------------
(* What is asked on a connection is one of the requests that may come.      *)
AskInv == \A s \in Slots : asked[s] = NoRequest \/ asked[s] \in Asks[s]

(* Nothing else is ever asked. *)
LEMMA AskStep == LookupInv /\ AskInv /\ [Next]_vars => AskInv'
<1> SUFFICES ASSUME LookupInv, AskInv, [Next]_vars PROVE AskInv'
  OBVIOUS
<1>0. asked = [s \in Slots |-> asked[s]]
  BY DEF LookupInv, AllTables, Tables
<1>1. CASE UNCHANGED asked
  BY <1>1 DEF AskInv
<1>2. ASSUME NEW s \in Slots, NEW q \in Asks[s] \cup {NoRequest}, asked' = [asked EXCEPT ![s] = q]
      PROVE  AskInv'
  BY <1>0, <1>2 DEF AskInv
<1>3. ASSUME NEW s \in Slots, Handler(s) \/ ReplySent(s) PROVE AskInv'
  <2>1. UNCHANGED asked \/ asked' = [asked EXCEPT ![s] = NoRequest]
    BY <1>3, HandlerShape DEF Free
  <2> QED
    BY <1>1, <1>2, <2>1
<1>4. ASSUME NEW s \in Slots, NEW q \in Asks[s], RequestComes(s, q) PROVE AskInv'
  BY <1>2, <1>4 DEF RequestComes
<1>5. ASSUME NEW code, ProcessEnds(code) PROVE AskInv'
  BY <1>5 DEF ProcessEnds, AskInv
<1>6. CASE ManagerStopped \/ ManagerDeadline
  BY <1>5, <1>6 DEF ManagerStopped, ManagerDeadline
<1>7. CASE \/ BuildEnds \/ FilesChange \/ Signal \/ AcceptFails \/ ServeReturns \/ Returned
           \/ Listen \/ ReceiveError \/ SeeSignal \/ Drained \/ DrainDeadline \/ CloseManager
           \/ CancelBuilds \/ UNCHANGED vars
  BY <1>1, <1>7 DEF BuildEnds, FilesChange, Signal, AcceptFails, ServeReturns, Returned, Listen,
     ReceiveError, SeeSignal, Drained, DrainDeadline, CloseManager, CancelBuilds, requests, vars
<1> QED
  BY <1>3, <1>4, <1>6, <1>7 DEF Next, Main

(* A comparison is only made with sound options. *)
LEMMA OptionsAreSound ==
  ASSUME LookupInv, [Next]_vars, NEW s \in Slots, Answered(s), answer'[s].status = 200,
         HandlerOf(asked[s]) = "compare"
  PROVE  ValidateOptions(OptionsOf(asked[s]))
<1>1. Handler(s)
  BY OnlyHandlersAnswer
<1>2. StepInv(s) /\ s \in DOMAIN answer
  BY DEF LookupInv, AllTables, Tables
<1>3. work[s].step \in {"none", "compare", "base read"}
  BY <1>2 DEF StepInv
<1>4. ASSUME NEW code, AnswerWith(s, Bare(code)), code # 200 PROVE FALSE
  <2>1. answer'[s].status = code
    BY <1>2, <1>4 DEF AnswerWith, Bare, Reply
  <2> QED
    BY <1>4, <2>1
<1>5. ~CompareBase(s)
  <2>1. ASSUME CompareBase(s) PROVE FALSE
    <3>1. UNCHANGED answer \/ AnswerWith(s, Bare(400))
      BY <2>1 DEF CompareBase
    <3>2. ~UNCHANGED answer
      BY DEF Answered
    <3> QED
      BY <1>4, <3>1, <3>2
  <2> QED
    BY <2>1
<1>6. CompareCurrent(s)
  BY <1>1, <1>3, <1>5 DEF Handler, HandledBy, Misrouted, Status, CreateRun, CancelRun, DeleteRun, ShowResult,
     SourceBegins, Reading, ReadsFile, SourceEnds, SourceAbandoned
<1>7. ASSUME ~ValidateOptions(OptionsOf(asked[s]))
      PROVE  AnswerWith(s, Bare(409)) \/ AnswerWith(s, Bare(400))
  BY <1>6, <1>7 DEF CompareCurrent, Decoded
<1> QED
  BY <1>4, <1>7

(* What the answer to a comparison claims. *)
ClaimsAreHonest(s) ==
  LET q == asked[s]
  IN  \E result \in {Comparing(q, answer'[s].body[1], answer'[s].body[2])} :
        /\ ChangeIsHonest(result.totals, q)
        /\ \A name \in Sections : SectionIsHonest(name, result.sections[name], q)
        /\ Of(result, "new") = Of(Comparing(q, q.current, q.baseline), "removed")

(* What is answered to a comparison is honest. *)
LEMMA HonestStep ==
  ASSUME LookupInv, AskInv, [Next]_vars, NEW s \in Slots, Answered(s), answer'[s].status = 200,
         HandlerOf(asked[s]) = "compare"
  PROVE  ClaimsAreHonest(s)
<1> DEFINE q == asked[s]
<1>1. OfItsTime(s)
  BY AnswerStep
<1>2. /\ SomeTimeAvailable(s, q.baseline) /\ SomeTimeAvailable(s, q.current)
      /\ answer'[s].body = <<q.baseline, q.current, OptionsOf(q)>>
  BY <1>1 DEF OfItsTime
<1>3. q.baseline \in 1..MaxIds /\ q.current \in 1..MaxIds
  BY <1>2 DEF SomeTimeAvailable, Ids, M!Ids
<1>4. IsOverview(Results[q.baseline]) /\ IsOverview(Results[q.current])
  BY <1>3, ServiceAssumption
<1>5. q \in Asks[s]
  <2>1. Handler(s)
    BY OnlyHandlersAnswer
  <2>2. s \in InProgress
    BY <2>1 DEF Handler, HandledBy, Handling, Misrouted, Status, CreateRun, CancelRun, DeleteRun, ShowResult,
     SourceBegins, Reading, ReadsFile, SourceEnds, SourceAbandoned, CompareBase, CompareCurrent
  <2> QED
    BY <2>2 DEF InProgress, AskInv
<1>6. q.percent \in Int /\ q.minAbsolute \in Int
  BY <1>5, ServiceAssumption DEF IsRequest
<1>7. Comparable(q, q.baseline, q.current)
  BY <1>4, <1>6, OptionsAreSound DEF Comparable
<1>8. answer'[s].body[1] = q.baseline /\ answer'[s].body[2] = q.current
  BY <1>2
<1> HIDE DEF q
<1>9. \E result \in {Comparing(q, q.baseline, q.current)} :
        /\ ChangeIsHonest(result.totals, q)
        /\ \A name \in Sections : SectionIsHonest(name, result.sections[name], q)
        /\ Of(result, "new") = Of(Comparing(q, q.current, q.baseline), "removed")
  BY <1>7, ComparingIsHonest
<1> QED
  BY <1>8, <1>9 DEF ClaimsAreHonest, q

(* Compare, as the answer to a request carries it: no row is marked that     *)
(* did not get worse, or better, none is missed, and every key is there.     *)
THEOREM ComparisonsAreHonest == Spec => ComparisonIsHonest
<1> DEFINE Honest == \A s \in Slots :
                       Answered(s) /\ answer'[s].status = 200 /\ HandlerOf(asked[s]) = "compare" =>
                         ClaimsAreHonest(s)
<1>1. Init => LookupInv /\ AskInv
  BY LookupInitially DEF Init, AskInv
<1>2. LookupInv /\ AskInv /\ [Next]_vars => (LookupInv /\ AskInv)'
  BY LookupStep, AskStep
<1>3. LookupInv /\ AskInv /\ [Next]_vars => [Honest]_vars
  BY HonestStep
<1>4. Spec => [][Honest]_vars
  BY <1>1, <1>2, <1>3, PTL DEF Spec
<1> QED
  BY <1>4, PTL DEF ComparisonIsHonest, ClaimsAreHonest

-------------------------------------------------------------------------------
(* FlattenSeq of the community modules puts one list after the other. *)
Flattens(f, s) == f = [i \in 1..Len(s) |-> IF i = 1 THEN s[i] ELSE f[i - 1] \o s[i]]

(* Lists are joined by a function that exists, ... *)
LEMMA FlattenExists ==
  ASSUME NEW s, Len(s) \in Nat
  PROVE  \E f : Flattens(f, s)
<1> DEFINE E(f, i) == IF i = 1 THEN s[i] ELSE f[i - 1] \o s[i]
           K == {m \in Nat : \E f : f = [i \in 1..m |-> E(f, i)]}
<1>1. 0 \in K
  <2> DEFINE f == [i \in 1..0 |-> s[i]]
  <2>1. \A i \in 1..0 : E(f, i) = s[i]
    OBVIOUS
  <2>2. f = [i \in 1..0 |-> E(f, i)]
    BY <2>1
  <2> QED
    BY <2>2
<1>2. ASSUME NEW m \in Nat, m \in K PROVE m + 1 \in K
  <2>1. PICK f : f = [i \in 1..m |-> E(f, i)]
    BY <1>2
  <2> DEFINE g == [i \in 1..(m + 1) |-> E(f, i)]
             F(i) == E(g, i)
             G(i) == E(f, i)
  <2>2. \A i \in 1..m : g[i] = f[i]
    <3>1. \A i \in 1..m : i \in 1..(m + 1)
      OBVIOUS
    <3> QED
      BY <2>1, <3>1
  <2>3. \A i \in 1..(m + 1) : i = 1 \/ i - 1 \in 1..m
    OBVIOUS
  <2>4. \A i \in 1..(m + 1) : F(i) = G(i)
    <3> HIDE DEF g
    <3> QED
      BY <2>2, <2>3
  <2>5. g = [i \in 1..(m + 1) |-> G(i)]
    OBVIOUS
  <2> HIDE DEF F, G, g
  <2>6. g = [i \in 1..(m + 1) |-> F(i)]
    BY <2>4, <2>5
  <2>7. \E h : h = [i \in 1..(m + 1) |-> E(h, i)]
    <3> HIDE DEF E
    <3> QED
      BY <2>6 DEF F
  <2> HIDE DEF E
  <2> QED
    BY <2>7
<1>3. Len(s) \in K
  <2> HIDE DEF K
  <2> QED
    BY <1>1, <1>2, NumbersByStep
<1> QED
  BY <1>3 DEF Flattens

(* ... one list after the other. *)
LEMMA FlattenSteps ==
  ASSUME NEW s, Len(s) \in Nat, Len(s) # 0
  PROVE  \E f : /\ FlattenSeq(s) = f[Len(s)] /\ f[1] = s[1]
                /\ \A i \in 1..Len(s) : i # 1 => f[i] = f[i - 1] \o s[i]
<1> DEFINE f == CHOOSE f : Flattens(f, s)
<1>1. Flattens(f, s)
  BY FlattenExists, Zenon
<1>2. FlattenSeq(s) = f[Len(s)]
  BY DEF FlattenSeq, Flattens
<1> HIDE DEF f
<1>3. \A i \in 1..Len(s) : f[i] = IF i = 1 THEN s[i] ELSE f[i - 1] \o s[i]
  BY <1>1 DEF Flattens
<1>4. 1 \in 1..Len(s)
  OBVIOUS
<1> QED
  BY <1>2, <1>3, <1>4

(* Lists joined one after the other, as any way to do so has them. *)
Joins(g, s, k) == g[0] = <<>> /\ \A i \in 1..k : g[i] = g[i - 1] \o s[i]

(* However they are joined one after the other, the result is one. *)
LEMMA FlattenIsJoined ==
  ASSUME NEW E, NEW s \in Seq(Seq(E)), NEW k \in Nat, Len(s) = k,
         NEW g, Joins(g, s, k)
  PROVE  FlattenSeq(s) = g[k]
<1>1. CASE k = 0
  <2>1. s = <<>>
    BY <1>1
  <2>2. FlattenSeq(s) = s
    BY <1>1 DEF FlattenSeq
  <2> QED
    BY <1>1, <2>1, <2>2 DEF Joins
<1>2. CASE k # 0
  <2>1. PICK f : /\ FlattenSeq(s) = f[k] /\ f[1] = s[1]
                 /\ \A i \in 1..k : i # 1 => f[i] = f[i - 1] \o s[i]
    BY <1>2, FlattenSteps
  <2> DEFINE K == {m \in Nat : m \in 1..k => f[m] = g[m]}
  <2>2. 0 \in K
    OBVIOUS
  <2>3. ASSUME NEW m \in Nat, m \in K PROVE m + 1 \in K
    <3>1. CASE m = 0
      <4>1. 1 \in 1..k
        BY <1>2
      <4>2. g[1] = g[0] \o s[1] /\ g[0] = <<>>
        <5>1. g[1] = g[1 - 1] \o s[1] /\ g[0] = <<>>
          BY <4>1, Zenon DEF Joins
        <5>2. 1 - 1 = 0
          OBVIOUS
        <5> QED
          BY <5>1, <5>2
      <4>4. s[1] \in Seq(E)
        BY <4>1, ElementOfSeq
      <4>5. <<>> \o s[1] = s[1]
        BY <4>4, ConcatEmptySeq
      <4>6. g[1] = s[1]
        BY <4>2, <4>5
      <4>7. f[1] = g[1]
        BY <2>1, <4>6
      <4>8. m + 1 = 1
        BY <3>1
      <4> QED
        BY <4>7, <4>8
    <3>2. CASE m # 0 /\ m + 1 \in 1..k
      <4>1. m \in 1..k /\ m + 1 # 1 /\ (m + 1) - 1 = m
        BY <3>2
      <4>2. f[m + 1] = f[(m + 1) - 1] \o s[m + 1] /\ g[m + 1] = g[(m + 1) - 1] \o s[m + 1]
        BY <2>1, <3>2, <4>1 DEF Joins
      <4>3. f[m] = g[m]
        BY <2>3, <4>1
      <4>4. f[m + 1] = g[m + 1]
        BY <4>1, <4>2, <4>3
      <4> QED
        BY <4>4
    <3>3. CASE m + 1 \notin 1..k
      BY <3>3
    <3> QED
      BY <3>1, <3>2, <3>3
  <2> HIDE DEF K
  <2>4. k \in K
    BY <2>2, <2>3, NumbersByStep
  <2>5. f[k] = g[k]
    BY <1>2, <2>4 DEF K
  <2> QED
    BY <2>1, <2>5
<1> QED
  BY <1>1, <1>2

-------------------------------------------------------------------------------
(* What is read of a file is a list of events. *)
Listed(s) == s \in Seq(ToSet(s))
ReadFields == {"read", "events", "malformed", "orphans", "current"}
IsRead(p) == DOMAIN p = ReadFields /\ p = [f \in ReadFields |-> p[f]] /\ Listed(p.events)

(* A list with an element more is a list. *)
LEMMA ListGrows ==
  ASSUME NEW s, Listed(s), NEW x
  PROVE  Listed(Append(s, x))
<1> DEFINE E == ToSet(s) \cup {x}
           t == Append(s, x)
<1>1. s \in Seq(E) /\ x \in E
  BY DEF Listed
<1> HIDE DEF E
<1>2. t \in Seq(E) /\ DOMAIN t = 1..Len(t) /\ Len(t) \in Nat
  BY <1>1
<1> HIDE DEF t
<1>3. ToSet(t) = {t[i] : i \in 1..Len(t)}
  BY <1>2 DEF ToSet
<1> DEFINE T == ToSet(t)
<1>4. \A i \in 1..Len(t) : t[i] \in T
  BY <1>3
<1> HIDE DEF T
<1>5. t \in Seq(T)
  BY <1>2, <1>4
<1> QED
  BY <1>5 DEF t, T, Listed

(* The event that was read last is one of the list. *)
LEMMA FinishLists ==
  ASSUME NEW p, NEW file, IsRead(p)
  PROVE  IsRead(Finish(p, file))
<1>1. \A x : Listed(Append(p.events, x))
  BY ListGrows DEF IsRead
<1>2. CASE p.current = <<>>
  BY <1>2 DEF Finish
<1>3. CASE p.current # <<>> /\ ~WellFormed(Head(p.current))
  <2>1. Finish(p, file) = [p EXCEPT !.current = <<>>, !.malformed = @ + 1]
    BY <1>3 DEF Finish
  <2> QED
    BY <2>1 DEF IsRead, ReadFields
<1>4. CASE p.current # <<>> /\ WellFormed(Head(p.current))
  <2>1. Finish(p, file) = [p EXCEPT !.current = <<>>, !.events = Append(@, ParseEvent(p.current, file))]
    BY <1>4 DEF Finish
  <2> QED
    BY <1>1, <2>1 DEF IsRead, ReadFields
<1> QED
  BY <1>2, <1>3, <1>4

(* After every line of a file its events are a list. *)
LEMMA ReadLineLists ==
  ASSUME NEW p, NEW file, NEW line, IsLine(line), IsRead(p)
  PROVE  IsRead(ReadLine(p, line, file))
<1> DEFINE q == [p EXCEPT !.read = @ + 1]
<1>1. IsRead(q)
  BY DEF IsRead, ReadFields
<1>2. ReadLine(p, line, file) =
        CASE line.header -> [Finish(q, file) EXCEPT !.current = <<line>>]
          [] ~line.header /\ q.current # <<>> -> [q EXCEPT !.current = Append(@, line)]
          [] ~line.header /\ q.current = <<>> ->
               [q EXCEPT !.orphans = @ + (IF line.words = Blank THEN 0 ELSE 1)]
  BY DEF ReadLine, IsEventStart
<1>3. IsRead(Finish(q, file))
  BY <1>1, FinishLists
<1> HIDE DEF q
<1>5. CASE line.header
  <2>1. ReadLine(p, line, file) = [Finish(q, file) EXCEPT !.current = <<line>>]
    BY <1>2, <1>5
  <2> QED
    BY <1>3, <2>1 DEF IsRead, ReadFields
<1>6. CASE ~line.header /\ q.current # <<>>
  <2>1. ReadLine(p, line, file) = [q EXCEPT !.current = Append(q.current, line)]
    BY <1>2, <1>6
  <2> QED
    BY <1>1, <2>1 DEF IsRead, ReadFields
<1>7. CASE ~line.header /\ q.current = <<>>
  <2>1. ReadLine(p, line, file) = [q EXCEPT !.orphans = q.orphans + (IF line.words = Blank THEN 0 ELSE 1)]
    BY <1>2, <1>7
  <2> QED
    BY <1>1, <2>1 DEF IsRead, ReadFields
<1> QED
  BY <1>5, <1>6, <1>7 DEF IsLine

(* How many elements a page has. *)
OnPage(n, limit, offset) ==
  IF n <= offset THEN 0 ELSE IF n >= offset + limit THEN limit ELSE n - offset

ShownFrom(items, c, offset) == [i \in 1..c |-> items[offset + i]]

Paged(shown, total) == [items |-> shown, total |-> total]

HasLength(items, n) == n \in Nat /\ Len(items) = n /\ DOMAIN items = 1..n

(* A page has as many elements as are left from its offset on, up to its limit. *)
LEMMA PageIs ==
  ASSUME NEW items, NEW n, NEW limit, NEW offset, limit \in Nat, offset \in Nat, HasLength(items, n)
  PROVE  /\ OnPage(n, limit, offset) \in Nat
         /\ PageOf(items, limit, offset) =
              Paged(ShownFrom(items, OnPage(n, limit, offset), offset), n)
<1> DEFINE on == {i \in DOMAIN items : i > offset /\ i <= offset + limit}
           last == IF n >= offset + limit THEN offset + limit ELSE n
           c == OnPage(n, limit, offset)
<1>0. n \in Nat /\ Len(items) = n /\ DOMAIN items = 1..n
  BY DEF HasLength
<1>1. last \in Nat /\ offset + 1 \in Int
  BY <1>0
<1>2. c \in Nat
  BY <1>0, <1>1 DEF OnPage
<1>3. on = (offset + 1)..last
  BY <1>0, <1>1
<1>4. c = IF offset + 1 > last THEN 0 ELSE last - (offset + 1) + 1
  BY <1>0 DEF OnPage
<1> HIDE DEF last
<1>5. Cardinality((offset + 1)..last) = IF offset + 1 > last THEN 0 ELSE last - (offset + 1) + 1
  <2> DEFINE first == offset + 1
  <2>1. first \in Int /\ last \in Int
    BY <1>1
  <2> HIDE DEF first
  <2>2. Cardinality(first..last) = IF first > last THEN 0 ELSE last - first + 1
    BY <2>1, FS_Interval
  <2> QED
    BY <2>2 DEF first
<1> HIDE DEF on, c
<1>6. Cardinality(on) = c
  BY <1>3, <1>4, <1>5
<1>7. PageOf(items, limit, offset) = [items |-> [i \in 1..Cardinality(on) |-> items[offset + i]], total |-> n]
  BY <1>0 DEF PageOf, on
<1> QED
  BY <1>2, <1>6, <1>7 DEF c, ShownFrom, Paged

(* An event more is on the page when the page is reached and has room. *)
LEMMA PageFills ==
  ASSUME NEW E, NEW items \in Seq(E), NEW e \in E, NEW limit \in Nat, NEW offset \in Nat
  PROVE  FillPage(PageOf(items, limit, offset), e, limit, offset) = PageOf(Append(items, e), limit, offset)
<1> DEFINE n == Len(items)
           more == Append(items, e)
           c == OnPage(n, limit, offset)
           d == OnPage(n + 1, limit, offset)
           page == PageOf(items, limit, offset)
           old == ShownFrom(items, c, offset)
           new == ShownFrom(more, d, offset)
<1>1. /\ n \in Nat /\ DOMAIN items = 1..n /\ more \in Seq(E) /\ Len(more) = n + 1
      /\ DOMAIN more = 1..(n + 1) /\ \A i \in 1..n : more[i] = items[i]
      /\ more[n + 1] = e
  BY AppendProperties
<1>2. n + 1 \in Nat
  BY <1>1
<1> HIDE DEF n, more
<1>3. c \in Nat /\ page = Paged(old, n)
  <2>1. HasLength(items, n)
    BY <1>1 DEF n, HasLength
  <2> QED
    BY <2>1, PageIs
<1>4. d \in Nat /\ PageOf(more, limit, offset) = Paged(new, n + 1)
  <2> DEFINE m == n + 1
  <2>1. m \in Nat /\ Len(more) = m /\ DOMAIN more = 1..m
    BY <1>1, <1>2
  <2> HIDE DEF m
  <2>2. OnPage(m, limit, offset) \in Nat
        /\ PageOf(more, limit, offset) = Paged(ShownFrom(more, OnPage(m, limit, offset), offset), m)
    BY <2>1, PageIs DEF HasLength
  <2> QED
    BY <2>2 DEF m
<1> HIDE DEF page
<1>5. c <= limit /\ (n > offset => c <= n - offset) /\ (n <= offset => c = 0)
  BY <1>1 DEF OnPage
<1>6. /\ n >= offset /\ c < limit => d = c + 1 /\ offset + c = n
      /\ ~(n >= offset /\ c < limit) => d = c
  BY <1>1 DEF OnPage
<1>7. \A i \in 1..c : offset + i \in 1..n
  BY <1>1, <1>3, <1>5
<1> HIDE DEF c, d
<1>8. old \in Seq(E) /\ Len(old) = c
  <2>1. \A i \in 1..c : items[offset + i] \in E
    BY <1>1, <1>7, ElementOfSeq DEF n
  <2>2. old \in [1..c -> E]
    BY <2>1 DEF ShownFrom
  <2> HIDE DEF old
  <2> QED
    BY <1>3, <2>2
<1>9. CASE n >= offset /\ c < limit
  <2> DEFINE grown == Append(old, e)
  <2>1. /\ grown \in Seq(E) /\ Len(grown) = c + 1 /\ DOMAIN grown = 1..(c + 1)
        /\ \A i \in 1..c : grown[i] = old[i]
        /\ grown[c + 1] = e
    <3> HIDE DEF old
    <3> QED
      BY <1>3, <1>8, AppendProperties
  <2>2. \A i \in 1..c : old[i] = more[offset + i]
    BY <1>1, <1>7 DEF ShownFrom
  <2>3. more[offset + (c + 1)] = e
    <3>1. offset + (c + 1) = n + 1
      BY <1>1, <1>3, <1>6, <1>9
    <3> QED
      BY <1>1, <3>1
  <2> HIDE DEF grown, old
  <2>4. \A i \in 1..(c + 1) : grown[i] = more[offset + i]
    <3> TAKE i \in 1..(c + 1)
    <3>1. i \in 1..c \/ i = c + 1
      BY <1>3
    <3> QED
      BY <2>1, <2>2, <2>3, <3>1
  <2>5. grown = [i \in 1..(c + 1) |-> grown[i]]
    BY <2>1
  <2>6. grown = new
    BY <1>6, <1>9, <2>4, <2>5 DEF ShownFrom
  <2>7. FillPage(page, e, limit, offset) = Paged(grown, n + 1)
    BY <1>3, <1>8, <1>9 DEF Paged, FillPage, grown
  <2> QED
    BY <1>4, <2>6, <2>7 DEF page, more
<1>10. CASE ~(n >= offset /\ c < limit)
  <2>1. FillPage(page, e, limit, offset) = Paged(old, n + 1)
    <3> HIDE DEF old
    <3> QED
      BY <1>3, <1>8, <1>10 DEF Paged, FillPage
  <2>2. \A i \in 1..c : items[offset + i] = more[offset + i]
    BY <1>1, <1>7
  <2>3. new = old
    BY <1>6, <1>10, <2>2 DEF ShownFrom
  <2> QED
    BY <1>4, <2>1, <2>3 DEF page, more
<1> QED
  BY <1>9, <1>10

(* slicePage *)
LEMMA SliceIsPage ==
  ASSUME NEW E, NEW items \in Seq(E), NEW limit \in Nat, NEW offset \in Nat
  PROVE  [items |-> SlicePage(items, limit, offset), total |-> Len(items)] = PageOf(items, limit, offset)
<1> DEFINE n == Len(items)
           c == OnPage(n, limit, offset)
<1>1. n \in Nat /\ DOMAIN items = 1..n
  OBVIOUS
<1>2. c \in Nat /\ PageOf(items, limit, offset) = Paged(ShownFrom(items, c, offset), n)
  <2>1. Len(items) = n
    OBVIOUS
  <2> HIDE DEF n
  <2> QED
    BY <1>1, <2>1, PageIs DEF HasLength
<1>3. CASE offset >= n
  <2>1. c = 0
    BY <1>1, <1>3 DEF OnPage
  <2>2. ShownFrom(items, c, offset) = <<>>
    <3> HIDE DEF c
    <3> QED
      BY <2>1 DEF ShownFrom
  <2>3. SlicePage(items, limit, offset) = <<>>
    BY <1>3 DEF SlicePage
  <2> QED
    BY <1>2, <2>2, <2>3 DEF Paged
<1>4. CASE offset < n
  <2> DEFINE last == IF offset + limit > n THEN n ELSE offset + limit
  <2>1. c = last - offset /\ last \in Nat
    BY <1>1, <1>4 DEF OnPage
  <2>a. last <= n
    BY <1>1
  <2>2. SlicePage(items, limit, offset) = SubSeq(items, offset + 1, last)
    BY <1>1, <1>4 DEF SlicePage
  <2> HIDE DEF last, c
  <2> DEFINE first == offset + 1
             part == SubSeq(items, first, last)
  <2>3. \A i \in first..last : items[i] \in E
    <3>1. \A i \in first..last : i \in 1..n
      BY <1>1, <2>1, <2>a
    <3> QED
      BY <1>1, <3>1, ElementOfSeq
  <2>4. first \in Int /\ c = last - first + 1 /\ c >= 0
    BY <1>2, <2>1
  <2> HIDE DEF first
  <2>5. /\ part \in Seq(E) /\ Len(part) = IF first <= last THEN last - first + 1 ELSE 0
        /\ \A i \in 1..(last - first + 1) : part[i] = items[first + i - 1]
    BY <2>1, <2>3, <2>4, SubSeqProperties
  <2> HIDE DEF part
  <2>6. Len(part) = c /\ \A i \in 1..c : part[i] = items[first + i - 1]
    <3>1. Len(part) = c
      BY <1>2, <2>1, <2>4, <2>5
    <3>2. last - first + 1 = c
      BY <2>4
    <3> QED
      BY <2>5, <3>1, <3>2
  <2>7. \A i \in 1..c : first + i - 1 = offset + i
    BY <1>2 DEF first
  <2>8. part = [i \in 1..c |-> part[i]]
    BY <2>5, <2>6
  <2>9. part = ShownFrom(items, c, offset)
    BY <2>6, <2>7, <2>8 DEF ShownFrom
  <2> QED
    BY <1>2, <2>2, <2>9 DEF part, first, Paged
<1> QED
  BY <1>1, <1>3, <1>4 DEF Paged

(* Reading a file is a walk over its lines, ... *)
ReadAll(file, s) == FoldLeft(LAMBDA p, line : ReadLine(p, line, file), NothingRead, s)

(* ... line after line; *)
LEMMA ReadSteps ==
  ASSUME NEW file, NEW s, NEW N \in Nat, DOMAIN s = 1..N
  PROVE  \E w : Folds(w, "lines", file, NothingRead, s, N) /\ ReadAll(file, s) = w[N]
<1> DEFINE E(h, T) == IF T = {} THEN NothingRead ELSE ReadLine(h[T \ {Max(T)}], s[Max(T)], file)
           S(h, T) == IF T = {} THEN NothingRead ELSE Step("lines", file, h[T \ {Max(T)}], s[Max(T)])
           all == CHOOSE h : h = [T \in SUBSET (1..N) |-> E(h, T)]
<1>1. ReadAll(file, s) = all[1..N]
  BY DEF ReadAll, FoldLeft, MapThenFoldSet
<1>2. \A h : IsFold(h, "lines", file, NothingRead, s, N) <=> h = [T \in SUBSET (1..N) |-> E(h, T)]
  <2>1. \A h, T : E(h, T) = S(h, T)
    BY DEF Step
  <2>2. \A h : IsFold(h, "lines", file, NothingRead, s, N) <=> h = [T \in SUBSET (1..N) |-> S(h, T)]
    BY DEF IsFold
  <2> HIDE DEF E, S
  <2> QED
    BY <2>1, <2>2
<1>3. IsFold(all, "lines", file, NothingRead, s, N)
  <2> HIDE DEF E
  <2> QED
    BY <1>2, FoldExists
<1> HIDE DEF all
<1>4. PICK w : Folds(w, "lines", file, NothingRead, s, N) /\ w[N] = all[1..N]
  BY <1>3, FoldGoes
<1>5. ReadAll(file, s) = w[N]
  BY <1>1, <1>4
<1> QED
  BY <1>4, <1>5

(* so is finding the events a query wants, for a page ... *)
FillAll(page, q, s) ==
  FoldLeft(LAMBDA p, e : IF QueryMatches(q.query, e) THEN FillPage(p, e, LimitOf(q), OffsetOf(q)) ELSE p,
           page, s)

(* ... as the handler fills it, ... *)
LEMMA FillSteps ==
  ASSUME NEW page, NEW q, NEW s, NEW N \in Nat, DOMAIN s = 1..N
  PROVE  \E w : Folds(w, "fill", q, page, s, N) /\ FillAll(page, q, s) = w[N]
<1> DEFINE E(h, T) ==
             IF T = {} THEN page
             ELSE IF QueryMatches(q.query, s[Max(T)])
                  THEN FillPage(h[T \ {Max(T)}], s[Max(T)], LimitOf(q), OffsetOf(q))
                  ELSE h[T \ {Max(T)}]
           S(h, T) == IF T = {} THEN page ELSE Step("fill", q, h[T \ {Max(T)}], s[Max(T)])
           all == CHOOSE h : h = [T \in SUBSET (1..N) |-> E(h, T)]
<1>1. FillAll(page, q, s) = all[1..N]
  BY DEF FillAll, FoldLeft, MapThenFoldSet
<1>2. \A h : IsFold(h, "fill", q, page, s, N) <=> h = [T \in SUBSET (1..N) |-> E(h, T)]
  <2>1. \A h, T : E(h, T) = S(h, T)
    BY DEF Step
  <2>2. \A h : IsFold(h, "fill", q, page, s, N) <=> h = [T \in SUBSET (1..N) |-> S(h, T)]
    BY DEF IsFold
  <2> HIDE DEF E, S
  <2> QED
    BY <2>1, <2>2
<1>3. IsFold(all, "fill", q, page, s, N)
  <2> HIDE DEF E
  <2> QED
    BY <1>2, FoldExists
<1> HIDE DEF all
<1>4. PICK w : Folds(w, "fill", q, page, s, N) /\ w[N] = all[1..N]
  BY <1>3, FoldGoes
<1>5. FillAll(page, q, s) = w[N]
  BY <1>1, <1>4
<1> QED
  BY <1>4, <1>5

(* ... or all of them, ... *)
MatchesIn(q, s) == Selected(s, LAMBDA e : QueryMatches(q.query, e))

(* ... one after the other, ... *)
LEMMA MatchSteps ==
  ASSUME NEW q, NEW s, NEW N \in Nat, DOMAIN s = 1..N
  PROVE  \E w : Folds(w, "events", q, <<>>, s, N) /\ MatchesIn(q, s) = w[N]
<1> DEFINE E(h, T) ==
             IF T = {} THEN <<>>
             ELSE IF QueryMatches(q.query, s[Max(T)]) THEN Append(h[T \ {Max(T)}], s[Max(T)])
                  ELSE h[T \ {Max(T)}]
           S(h, T) == IF T = {} THEN <<>> ELSE Step("events", q, h[T \ {Max(T)}], s[Max(T)])
           all == CHOOSE h : h = [T \in SUBSET (1..N) |-> E(h, T)]
<1>1. MatchesIn(q, s) = all[1..N]
  BY DEF MatchesIn, Selected, FoldLeft, MapThenFoldSet
<1>2. \A h : IsFold(h, "events", q, <<>>, s, N) <=> h = [T \in SUBSET (1..N) |-> E(h, T)]
  <2>1. \A h, T : E(h, T) = S(h, T)
    BY DEF Step
  <2>2. \A h : IsFold(h, "events", q, <<>>, s, N) <=> h = [T \in SUBSET (1..N) |-> S(h, T)]
    BY DEF IsFold
  <2> HIDE DEF E, S
  <2> QED
    BY <2>1, <2>2
<1>3. IsFold(all, "events", q, <<>>, s, N)
  <2> HIDE DEF E
  <2> QED
    BY <1>2, FoldExists
<1> HIDE DEF all
<1>4. PICK w : Folds(w, "events", q, <<>>, s, N) /\ w[N] = all[1..N]
  BY <1>3, FoldGoes
<1>5. MatchesIn(q, s) = w[N]
  BY <1>1, <1>4
<1> QED
  BY <1>4, <1>5

(* ... and choosing the rows of a section, however it is written. *)
RowsWanted(q, s) == Selected(s, LAMBDA row : q.filter \in {None, row.key})

(* The handler has the filter ask for its key, ... *)
LEMMA RowSteps ==
  ASSUME NEW q, NEW s, NEW N \in Nat, DOMAIN s = 1..N
  PROVE  \E w : Folds(w, "rows", q, <<>>, s, N) /\ Matching(s, q.filter) = w[N]
<1> DEFINE E(h, T) ==
             IF T = {} THEN <<>>
             ELSE IF q.filter = None \/ s[Max(T)].key = q.filter THEN Append(h[T \ {Max(T)}], s[Max(T)])
                  ELSE h[T \ {Max(T)}]
           S(h, T) == IF T = {} THEN <<>> ELSE Step("rows", q, h[T \ {Max(T)}], s[Max(T)])
           all == CHOOSE h : h = [T \in SUBSET (1..N) |-> E(h, T)]
<1>1. Matching(s, q.filter) = all[1..N]
  BY DEF Matching, Selected, FoldLeft, MapThenFoldSet
<1>2. \A h : IsFold(h, "rows", q, <<>>, s, N) <=> h = [T \in SUBSET (1..N) |-> E(h, T)]
  <2>1. \A h, T : E(h, T) = S(h, T)
    BY DEF Step
  <2>2. \A h : IsFold(h, "rows", q, <<>>, s, N) <=> h = [T \in SUBSET (1..N) |-> S(h, T)]
    BY DEF IsFold
  <2> HIDE DEF E, S
  <2> QED
    BY <2>1, <2>2
<1>3. IsFold(all, "rows", q, <<>>, s, N)
  <2> HIDE DEF E
  <2> QED
    BY <1>2, FoldExists
<1> HIDE DEF all
<1>4. PICK w : Folds(w, "rows", q, <<>>, s, N) /\ w[N] = all[1..N]
  BY <1>3, FoldGoes
<1>5. Matching(s, q.filter) = w[N]
  BY <1>1, <1>4
<1> QED
  BY <1>4, <1>5

(* ... the page the key for the filter. *)
LEMMA WantedSteps ==
  ASSUME NEW q, NEW s, NEW N \in Nat, DOMAIN s = 1..N
  PROVE  \E w : Folds(w, "rows", q, <<>>, s, N) /\ RowsWanted(q, s) = w[N]
<1> DEFINE E(h, T) ==
             IF T = {} THEN <<>>
             ELSE IF q.filter \in {None, s[Max(T)].key} THEN Append(h[T \ {Max(T)}], s[Max(T)])
                  ELSE h[T \ {Max(T)}]
           S(h, T) == IF T = {} THEN <<>> ELSE Step("rows", q, h[T \ {Max(T)}], s[Max(T)])
           all == CHOOSE h : h = [T \in SUBSET (1..N) |-> E(h, T)]
<1>1. RowsWanted(q, s) = all[1..N]
  BY DEF RowsWanted, Selected, FoldLeft, MapThenFoldSet
<1>2. \A h : IsFold(h, "rows", q, <<>>, s, N) <=> h = [T \in SUBSET (1..N) |-> E(h, T)]
  <2>1. \A h, T : E(h, T) = S(h, T)
    BY DEF Step
  <2>2. \A h : IsFold(h, "rows", q, <<>>, s, N) <=> h = [T \in SUBSET (1..N) |-> S(h, T)]
    BY DEF IsFold
  <2> HIDE DEF E, S
  <2> QED
    BY <2>1, <2>2
<1>3. IsFold(all, "rows", q, <<>>, s, N)
  <2> HIDE DEF E
  <2> QED
    BY <1>2, FoldExists
<1> HIDE DEF all
<1>4. PICK w : Folds(w, "rows", q, <<>>, s, N) /\ w[N] = all[1..N]
  BY <1>3, FoldGoes
<1>5. RowsWanted(q, s) = w[N]
  BY <1>1, <1>4
<1> QED
  BY <1>4, <1>5

(* Two walks of the same steps end alike. *)
LEMMA WalksEndAlike ==
  ASSUME NEW fold, NEW of, NEW base, NEW s, NEW N \in Nat, NEW v, NEW w,
         Folds(v, fold, of, base, s, N), Folds(w, fold, of, base, s, N)
  PROVE  v[N] = w[N]
<1> DEFINE K == {n \in Nat : n \in 0..N => v[n] = w[n]}
<1>1. 0 \in K
  BY DEF Folds
<1>2. ASSUME NEW n \in Nat, n \in K PROVE n + 1 \in K
  <2> SUFFICES ASSUME n + 1 \in 0..N PROVE v[n + 1] = w[n + 1]
    OBVIOUS
  <2>1. n \in 0..N /\ n + 1 \in 1..N /\ (n + 1) - 1 = n
    OBVIOUS
  <2>2. v[n] = w[n]
    BY <1>2, <2>1
  <2>3. /\ v[n + 1] = Step(fold, of, v[(n + 1) - 1], s[n + 1])
        /\ w[n + 1] = Step(fold, of, w[(n + 1) - 1], s[n + 1])
    BY <2>1, Zenon DEF Folds
  <2> QED
    BY <2>1, <2>2, <2>3
<1> HIDE DEF K
<1>3. N \in K
  BY <1>1, <1>2, NumbersByStep
<1> QED
  BY <1>3 DEF K

(* The two ways to say which rows are wanted find the same. *)
LEMMA RowsAreWanted ==
  ASSUME NEW q, NEW s, NEW N \in Nat, DOMAIN s = 1..N
  PROVE  Matching(s, q.filter) = RowsWanted(q, s)
<1>1. PICK v : Folds(v, "rows", q, <<>>, s, N) /\ Matching(s, q.filter) = v[N]
  BY RowSteps
<1>2. PICK w : Folds(w, "rows", q, <<>>, s, N) /\ RowsWanted(q, s) = w[N]
  BY WantedSteps
<1> QED
  BY <1>1, <1>2, WalksEndAlike

(* The events of a file are a list. *)
LEMMA EventsListed ==
  ASSUME NEW file, IsFile(file)
  PROVE  Listed(ParseFile(file).events)
<1> DEFINE s == file.lines
           N == Len(file.lines)
           read == ReadAll(file, file.lines)
<1>1. N \in Nat /\ DOMAIN s = 1..N /\ \A i \in 1..N : IsLine(s[i])
  <2>1. s \in Seq(ToSet(s)) /\ \A line \in ToSet(s) : IsLine(line)
    BY DEF IsFile
  <2>2. \A i \in DOMAIN s : s[i] \in ToSet(s)
    BY DEF ToSet
  <2> HIDE DEF s
  <2>3. Len(s) \in Nat /\ DOMAIN s = 1..Len(s)
    BY <2>1
  <2> QED
    BY <2>1, <2>2, <2>3 DEF s
<1> HIDE DEF s, N
<1>2. PICK w : Folds(w, "lines", file, NothingRead, s, N) /\ read = w[N]
  BY <1>1, ReadSteps DEF s
<1>3. w[0] = NothingRead /\ \A n \in 1..N : w[n] = ReadLine(w[n - 1], s[n], file)
  BY <1>2 DEF Folds, Step
<1>4. IsRead(NothingRead)
  <2>1. <<>> \in Seq(ToSet(<<>>))
    OBVIOUS
  <2> QED
    BY <2>1 DEF IsRead, NothingRead, ReadFields, Listed
<1>5. IsRead(w[N])
  <2> DEFINE K == {n \in Nat : n \in 0..N => IsRead(w[n])}
  <2>1. 0 \in K
    BY <1>3, <1>4
  <2>2. ASSUME NEW n \in Nat, n \in K PROVE n + 1 \in K
    <3> SUFFICES ASSUME n + 1 \in 0..N PROVE IsRead(w[n + 1])
      OBVIOUS
    <3>1. n \in 0..N /\ n + 1 \in 1..N /\ (n + 1) - 1 = n
      BY <1>1
    <3>2. IsRead(w[n]) /\ w[n + 1] = ReadLine(w[n], s[n + 1], file) /\ IsLine(s[n + 1])
      BY <1>1, <1>3, <2>2, <3>1
    <3> QED
      BY <3>2, ReadLineLists
  <2> HIDE DEF K
  <2>3. N \in K
    BY <1>1, <2>1, <2>2, NumbersByStep
  <2> QED
    BY <1>1, <2>3 DEF K
<1> HIDE DEF read
<1>6. IsRead(read) /\ IsRead(Finish(read, file))
  BY <1>2, <1>5, FinishLists
<1>7. ParseFile(file) \in {NothingRead, read, Finish(read, file)}
  BY DEF ParseFile, read, ReadAll
<1> QED
  BY <1>4, <1>6, <1>7 DEF IsRead

(* A page of some events becomes, by the events of a list, the page of      *)
(* those and of the matches in the list.                                     *)
LEMMA PagesFill ==
  ASSUME NEW E, NEW q, NEW items \in Seq(E), NEW s \in Seq(E), LimitOf(q) \in Nat, OffsetOf(q) \in Nat
  PROVE  /\ MatchesIn(q, s) \in Seq(E)
         /\ FillAll(PageOf(items, LimitOf(q), OffsetOf(q)), q, s)
              = PageOf(items \o MatchesIn(q, s), LimitOf(q), OffsetOf(q))
<1> DEFINE N == Len(s)
           limit == LimitOf(q)
           offset == OffsetOf(q)
           page == PageOf(items, limit, offset)
<1>1. N \in Nat /\ DOMAIN s = 1..N /\ \A i \in 1..N : s[i] \in E
  BY ElementOfSeq
<1> HIDE DEF N, limit, offset, page
<1>2. PICK w : Folds(w, "fill", q, page, s, N) /\ FillAll(page, q, s) = w[N]
  BY <1>1, FillSteps
<1>3. PICK m : Folds(m, "events", q, <<>>, s, N) /\ MatchesIn(q, s) = m[N]
  BY <1>1, MatchSteps
<1>4. w[0] = page /\ \A n \in 1..N : w[n] = IF QueryMatches(q.query, s[n])
                                             THEN FillPage(w[n - 1], s[n], limit, offset) ELSE w[n - 1]
  BY <1>2 DEF Folds, Step, limit, offset
<1>5. m[0] = <<>> /\ \A n \in 1..N : m[n] = IF QueryMatches(q.query, s[n])
                                             THEN Append(m[n - 1], s[n]) ELSE m[n - 1]
  BY <1>3 DEF Folds, Step
<1> DEFINE Good(n) == m[n] \in Seq(E) /\ w[n] = PageOf(items \o m[n], limit, offset)
           K == {n \in Nat : n \in 0..N => Good(n)}
<1>6. 0 \in K
  <2>1. items \o <<>> = items /\ <<>> \in Seq(E)
    BY ConcatEmptySeq
  <2> QED
    BY <1>4, <1>5, <2>1 DEF page
<1>7. ASSUME NEW n \in Nat, n \in K PROVE n + 1 \in K
  <2> SUFFICES ASSUME n + 1 \in 0..N PROVE Good(n + 1)
    OBVIOUS
  <2>1. n \in 0..N /\ n + 1 \in 1..N /\ (n + 1) - 1 = n
    BY <1>1
  <2> DEFINE e == s[n + 1]
             before == items \o m[n]
  <2>2. e \in E /\ m[n] \in Seq(E) /\ w[n] = PageOf(before, limit, offset)
    BY <1>1, <1>7, <2>1
  <2>3. before \in Seq(E)
    BY <2>2, ConcatProperties
  <2>4. /\ w[n + 1] = IF QueryMatches(q.query, e) THEN FillPage(w[n], e, limit, offset) ELSE w[n]
        /\ m[n + 1] = IF QueryMatches(q.query, e) THEN Append(m[n], e) ELSE m[n]
    BY <1>4, <1>5, <2>1
  <2> HIDE DEF e
  <2>5. CASE QueryMatches(q.query, e)
    <3>1. m[n + 1] = Append(m[n], e) /\ m[n + 1] \in Seq(E)
      BY <2>2, <2>4, <2>5, AppendProperties
    <3>2. items \o Append(m[n], e) = Append(before, e)
      BY <2>2
    <3> HIDE DEF before
    <3>3. FillPage(PageOf(before, limit, offset), e, limit, offset) = PageOf(Append(before, e), limit, offset)
      BY <2>2, <2>3, PageFills DEF limit, offset
    <3> QED
      BY <2>2, <2>4, <2>5, <3>1, <3>2, <3>3
  <2>6. CASE ~QueryMatches(q.query, e)
    BY <2>2, <2>4, <2>6
  <2> QED
    BY <2>5, <2>6
<1> HIDE DEF K
<1>8. N \in K
  BY <1>1, <1>6, <1>7, NumbersByStep
<1>9. Good(N)
  BY <1>1, <1>8 DEF K
<1> QED
  BY <1>2, <1>3, <1>9 DEF page, limit, offset

(* The rows wanted of a section are a list. *)
LEMMA RowsListed ==
  ASSUME NEW E, NEW q, NEW s \in Seq(E)
  PROVE  RowsWanted(q, s) \in Seq(E)
<1> DEFINE N == Len(s)
<1>1. N \in Nat /\ DOMAIN s = 1..N /\ \A i \in 1..N : s[i] \in E
  BY ElementOfSeq
<1> HIDE DEF N
<1>2. PICK w : Folds(w, "rows", q, <<>>, s, N) /\ RowsWanted(q, s) = w[N]
  BY <1>1, WantedSteps
<1>3. w[0] = <<>> /\ \A n \in 1..N : w[n] = IF q.filter = None \/ s[n].key = q.filter
                                            THEN Append(w[n - 1], s[n]) ELSE w[n - 1]
  BY <1>2 DEF Folds, Step
<1> DEFINE K == {n \in Nat : n \in 0..N => w[n] \in Seq(E)}
<1>4. 0 \in K
  <2>1. <<>> \in Seq(E)
    OBVIOUS
  <2>2. w[0] \in Seq(E)
    BY <1>3, <2>1
  <2> QED
    BY <2>2
<1>5. ASSUME NEW n \in Nat, n \in K PROVE n + 1 \in K
  <2> SUFFICES ASSUME n + 1 \in 0..N PROVE w[n + 1] \in Seq(E)
    OBVIOUS
  <2>1. n \in 0..N /\ n + 1 \in 1..N /\ (n + 1) - 1 = n
    BY <1>1
  <2>2. w[n] \in Seq(E) /\ s[n + 1] \in E
    BY <1>1, <1>5, <2>1
  <2>3. w[n + 1] = Append(w[n], s[n + 1]) \/ w[n + 1] = w[n]
    BY <1>3, <2>1
  <2> QED
    BY <2>2, <2>3, AppendProperties
<1> HIDE DEF K
<1>6. N \in K
  BY <1>1, <1>4, <1>5, NumbersByStep
<1> QED
  BY <1>1, <1>2, <1>6 DEF K

(* A section is shown as a page of the rows wanted. *)
LEMMA SectionIsPage ==
  ASSUME NEW result, IsOverview(result), NEW q, q.limit \in Int, q.offset \in Int,
         OverviewReply(result, q).status = 200
  PROVE  LET rows == result.rows[q.section]
             most == IF q.section = "locks" THEN MaxSourceLimit ELSE MaxLimit
             limit == IF LimitOf(q) > most THEN most ELSE LimitOf(q)
         IN  OverviewReply(result, q).body = PageOf(RowsWanted(q, rows), limit, OffsetOf(q))
<1> DEFINE rows == result.rows[q.section]
           most == IF q.section = "locks" THEN MaxSourceLimit ELSE MaxLimit
           limit == IF LimitOf(q) > most THEN most ELSE LimitOf(q)
           E == ToSet(rows)
           items == RowsWanted(q, rows)
           offset == OffsetOf(q)
<1>1. PageOk(q, MaxLimit) /\ q.section \in ApiSections
  BY DEF OverviewReply, Bare, Reply
<1>2. LimitOf(q) \in 1..MaxLimit /\ offset \in Nat
  <2>1. offset \in Int
    BY DEF OffsetOf
  <2> QED
    BY <1>1, <2>1 DEF PageOk
<1>3. MaxLimit \in Nat /\ MaxSourceLimit \in Nat
  BY ServiceAssumption
<1>4. SectionLimit(q.section, LimitOf(q)) = limit /\ limit \in Nat
  BY <1>2, <1>3 DEF SectionLimit
<1>5. rows \in Seq(E)
  BY <1>1 DEF IsOverview
<1>6. Matching(rows, q.filter) = items /\ items \in Seq(E)
  <2> HIDE DEF rows, E
  <2>1. Len(rows) \in Nat /\ DOMAIN rows = 1..Len(rows)
    BY <1>5
  <2> QED
    BY <1>5, <2>1, RowsAreWanted, RowsListed
<1>7. OverviewReply(result, q).body =
        [items |-> SlicePage(items, SectionLimit(q.section, LimitOf(q)), offset), total |-> Len(items)]
  <2> HIDE DEF items
  <2> QED
    BY <1>1, <1>6 DEF OverviewReply, OverviewSection, Reply
<1> HIDE DEF limit, items, E, rows, offset
<1>8. [items |-> SlicePage(items, limit, offset), total |-> Len(items)] = PageOf(items, limit, offset)
  BY <1>2, <1>4, <1>6, SliceIsPage
<1>9. OverviewReply(result, q).body = PageOf(items, limit, offset)
  BY <1>4, <1>7, <1>8
<1> QED
  BY <1>9 DEF limit, items, rows, offset

(* One list more at the end is joined to the others. *)
LEMMA FlattenGrows ==
  ASSUME NEW E, NEW k \in Nat, NEW s \in Seq(Seq(E)), Len(s) = k, NEW x \in Seq(E)
  PROVE  FlattenSeq(Append(s, x)) = FlattenSeq(s) \o x
<1> DEFINE t == Append(s, x)
<1>1. t \in Seq(Seq(E)) /\ Len(t) = k + 1 /\ t[k + 1] = x /\ \A i \in 1..k : t[i] = s[i]
  OBVIOUS
<1> HIDE DEF t
<1>2. PICK f : /\ FlattenSeq(t) = f[Len(t)] /\ f[1] = t[1]
               /\ \A i \in 1..Len(t) : i # 1 => f[i] = f[i - 1] \o t[i]
  <2>1. Len(t) \in Nat /\ Len(t) # 0
    BY <1>1
  <2> QED
    BY <2>1, FlattenSteps
<1>3. CASE k = 0
  <2>1. FlattenSeq(t) = x
    BY <1>1, <1>2, <1>3
  <2>2. s = <<>>
    BY <1>3
  <2>3. FlattenSeq(s) = <<>>
    BY <1>3, <2>2 DEF FlattenSeq
  <2>4. <<>> \o x = x
    BY ConcatEmptySeq
  <2> QED
    BY <2>1, <2>3, <2>4 DEF t
<1>4. CASE k # 0
  <2> DEFINE g == [i \in 0..k |-> IF i = 0 THEN <<>> ELSE f[i]]
  <2>1. g[0] = <<>> /\ \A i \in 1..k : g[i] = f[i]
    OBVIOUS
  <2> HIDE DEF g
  <2>2. ASSUME NEW i \in 1..k PROVE g[i] = g[i - 1] \o s[i]
    <3>1. CASE i = 1
      <4>1. s[1] \in Seq(E)
        BY <2>2, <3>1, ElementOfSeq
      <4>2. <<>> \o s[1] = s[1]
        BY <4>1, ConcatEmptySeq
      <4>3. g[1] = s[1]
        <5>1. 1 \in 1..k
          BY <3>1
        <5>2. g[1] = f[1] /\ t[1] = s[1]
          BY <1>1, <2>1, <5>1
        <5> QED
          BY <1>2, <5>2
      <4>4. i - 1 = 0
        BY <3>1
      <4> QED
        BY <2>1, <3>1, <4>2, <4>3, <4>4
    <3>2. CASE i # 1
      <4>1. i \in 1..Len(t) /\ i - 1 \in 1..k
        BY <1>1, <3>2
      <4>2. f[i] = f[i - 1] \o t[i] /\ t[i] = s[i]
        BY <1>1, <1>2, <3>2, <4>1
      <4>3. g[i] = f[i] /\ g[i - 1] = f[i - 1]
        BY <2>1, <4>1
      <4> QED
        BY <4>2, <4>3
    <3> QED
      BY <3>1, <3>2
  <2>3. FlattenSeq(s) = g[k]
    <3>1. Joins(g, s, k)
      BY <2>1, <2>2 DEF Joins
    <3> QED
      BY <3>1, FlattenIsJoined
  <2>4. k + 1 \in 1..Len(t) /\ k + 1 # 1 /\ (k + 1) - 1 = k /\ k \in 1..k
    BY <1>1, <1>4
  <2>5. f[k + 1] = f[k] \o x
    BY <1>1, <1>2, <2>4
  <2>6. FlattenSeq(t) = f[k] \o x
    BY <1>1, <1>2, <2>5
  <2> QED
    BY <2>1, <2>3, <2>4, <2>6 DEF t
<1> QED
  BY <1>3, <1>4

-------------------------------------------------------------------------------
(* The matches in file i of a run as the disk has it at version d, and all  *)
(* events that any of the run's files may have.                             *)
FileMatches(q, d, i) == MatchesIn(q, ParseFile(Disk[d][q.id][i]).events)
EventsOf(q) == UNION {ToSet(ParseFile(Disk[d][q.id][i]).events) :
                        d \in DOMAIN Disk, i \in 1..Len(Disk[1][q.id])}

(* Each file of a run, at any version, has a list of events. *)
LEMMA FilesListed ==
  ASSUME NEW q, q.id \in 1..MaxIds, NEW d \in DOMAIN Disk, NEW i \in 1..Len(Disk[1][q.id])
  PROVE  /\ Len(Disk[d][q.id]) = Len(Disk[1][q.id]) /\ Len(Disk[1][q.id]) \in Nat
         /\ ParseFile(Disk[d][q.id][i]).events \in Seq(EventsOf(q))
<1> DEFINE list == Disk[d][q.id]
           events == ParseFile(list[i]).events
<1>1. list \in Seq(ToSet(list)) /\ Len(list) = Len(Disk[1][q.id]) /\ \A file \in ToSet(list) : IsFile(file)
  BY ServiceAssumption DEF IsDisk
<1>2. list[i] \in ToSet(list) /\ Len(list) \in Nat
  BY <1>1, ElementOfSeq
<1>3. Listed(events)
  BY <1>1, <1>2, EventsListed
<1>4. ToSet(events) \subseteq EventsOf(q)
  BY DEF EventsOf
<1> HIDE DEF events
<1>5. events \in Seq(EventsOf(q))
  BY <1>3, <1>4 DEF Listed
<1> QED
  BY <1>1, <1>2, <1>5 DEF events

(* All matches in files one of which more is read. *)
ThenAt(v, k, d) == [i \in 1..(k + 1) |-> IF i = k + 1 THEN d ELSE v[i]]

(* The matches in the file read last follow the others. *)
LEMMA MatchesGrow ==
  ASSUME NEW q, q.id \in 1..MaxIds, LimitOf(q) \in Nat, OffsetOf(q) \in Nat,
         NEW k \in Nat, k + 1 \in 1..Len(Disk[1][q.id]),
         NEW v \in [1..k -> DOMAIN Disk], NEW d \in DOMAIN Disk
  PROVE  AllMatches(q, ThenAt(v, k, d)) = AllMatches(q, v) \o FileMatches(q, d, k + 1)
<1> DEFINE E == EventsOf(q)
           w == ThenAt(v, k, d)
           s == [i \in 1..k |-> FileMatches(q, v[i], i)]
           x == FileMatches(q, d, k + 1)
           t == [i \in 1..(k + 1) |-> FileMatches(q, w[i], i)]
<1>1. \A c \in DOMAIN Disk, i \in 1..(k + 1) : FileMatches(q, c, i) \in Seq(E)
  <2>1. ASSUME NEW c \in DOMAIN Disk, NEW i \in 1..(k + 1) PROVE FileMatches(q, c, i) \in Seq(E)
    <3>1. Len(Disk[1][q.id]) \in Nat
      BY FilesListed
    <3>2. i \in 1..Len(Disk[1][q.id])
      BY <3>1
    <3>3. ParseFile(Disk[c][q.id][i]).events \in Seq(E)
      BY <3>2, FilesListed
    <3>4. <<>> \in Seq(E)
      OBVIOUS
    <3> QED
      BY <3>3, <3>4, PagesFill DEF FileMatches
  <2> QED
    BY <2>1
<1>2. AllMatches(q, v) = FlattenSeq(s)
  <2>1. DOMAIN v = 1..k
    OBVIOUS
  <2> QED
    BY <2>1 DEF AllMatches, FileMatches, MatchesIn
<1>3. AllMatches(q, w) = FlattenSeq(t)
  <2>1. DOMAIN w = 1..(k + 1)
    BY DEF ThenAt
  <2> QED
    BY <2>1 DEF AllMatches, FileMatches, MatchesIn
<1>4. w[k + 1] = d /\ \A i \in 1..k : w[i] = v[i] /\ i \in 1..(k + 1)
  BY DEF ThenAt
<1> HIDE DEF E, w
<1>5. x \in Seq(E) /\ \A i \in 1..k : FileMatches(q, v[i], i) \in Seq(E)
  BY <1>1
<1> DEFINE F(i) == FileMatches(q, v[i], i)
           G(i) == FileMatches(q, w[i], i)
<1>6. G(k + 1) = x /\ \A i \in 1..k : G(i) = F(i)
  BY <1>4
<1>7. s = [i \in 1..k |-> F(i)] /\ t = [i \in 1..(k + 1) |-> G(i)] /\ \A i \in 1..k : F(i) \in Seq(E)
  BY <1>5
<1> HIDE DEF F, G, s, t, x
<1>8. s \in Seq(Seq(E)) /\ Len(s) = k
  BY <1>7
<1>9. t = Append(s, x)
  <2>1. Append(s, x) = [i \in 1..(k + 1) |-> IF i = k + 1 THEN x ELSE s[i]]
    <3>1. /\ Append(s, x) \in Seq(Seq(E)) /\ Len(Append(s, x)) = k + 1
          /\ Append(s, x)[k + 1] = x /\ \A i \in 1..k : Append(s, x)[i] = s[i]
      BY <1>5, <1>8, AppendProperties
    <3> DEFINE a == Append(s, x)
    <3> HIDE DEF a
    <3>2. a = [i \in 1..(k + 1) |-> a[i]]
      <4>1. a \in Seq(Seq(E)) /\ Len(a) = k + 1
        BY <3>1 DEF a
      <4>2. DOMAIN a = 1..(k + 1) /\ a = [i \in DOMAIN a |-> a[i]]
        BY <4>1
      <4> QED
        BY <4>2
    <3>3. \A i \in 1..(k + 1) : i = k + 1 \/ i \in 1..k
      OBVIOUS
    <3> QED
      BY <3>1, <3>2, <3>3 DEF a
  <2> QED
    BY <1>6, <1>7, <2>1
<1>10. FlattenSeq(t) = FlattenSeq(s) \o x
  BY <1>5, <1>8, <1>9, FlattenGrows
<1> QED
  BY <1>2, <1>3, <1>10 DEF w, x

(* What the handler of source events knows: its page is that of all matches *)
(* in the files it has read, each as it was at some version of the disk     *)
(* since the request came, one version after the other.                     *)
HasRead(q, versions, k, page) ==
  \E v \in [1..k -> versions] :
    /\ InTurn(v)
    /\ AllMatches(q, v) \in Seq(EventsOf(q))
    /\ page = PageOf(AllMatches(q, v), LimitOf(q), OffsetOf(q))

ReadsInTurn(q, from, to, w) ==
  /\ q.id \in Ids /\ PageOk(q, MaxSourceLimit)
  /\ {"files", "page"} \subseteq DOMAIN w /\ w.files \in 0..Len(Disk[1][q.id])
  /\ HasRead(q, from..to, w.files, w.page)

ReadInv(s) ==
  HandlerOf(asked[s]) = "source" /\ work[s].step # "none" =>
    /\ seen[s].disk \in 1..disk
    /\ work[s].step = "reading" => ReadsInTurn(asked[s], seen[s].disk, disk, work[s])

DiskInv == disk \in DOMAIN Disk
PageInv == DiskInv /\ \A s \in Slots : ReadInv(s)

(* The disk only goes on to its next version. *)
LEMMA DiskGoesOn ==
  ASSUME DiskInv, [Next]_vars
  PROVE  DiskInv' /\ disk' \in {disk, disk + 1} /\ disk \in Nat /\ disk >= 1
<1>1. DOMAIN Disk = 1..Len(Disk) /\ Len(Disk) \in Nat
  BY ServiceAssumption DEF IsDisk
<1>2. disk' = disk \/ (disk < Len(Disk) /\ disk' = disk + 1)
  <2>1. ASSUME NEW s \in Slots, Handler(s) PROVE disk' = disk
    BY <2>1 DEF Handler, Misrouted, Status, CreateRun, CancelRun, DeleteRun, ShowResult, CompareBase,
       CompareCurrent, SourceBegins, ReadsFile, SourceEnds, SourceAbandoned, AnswerWith
  <2>2. ASSUME NEW s \in Slots, NEW q \in Asks[s], RequestComes(s, q) PROVE disk' = disk
    BY <2>2 DEF RequestComes
  <2>3. CASE FilesChange
    BY <2>3 DEF FilesChange
  <2>4. CASE ~FilesChange
    BY <2>1, <2>2, <2>4 DEF Next, ReplySent, BuildEnds, Signal, AcceptFails, ServeReturns, Returned, Main, Listen,
       ReceiveError, SeeSignal, Drained, DrainDeadline, CloseManager, CancelBuilds, ManagerStopped,
       ManagerDeadline, vars
  <2> QED
    BY <2>3, <2>4
<1> QED
  BY <1>1, <1>2 DEF DiskInv

(* What a page was read from has been on the disk ever since. *)
LEMMA ReadEarlier ==
  ASSUME NEW q, NEW w, NEW from \in Nat, NEW to \in Nat, NEW later \in Nat, to <= later,
         ReadsInTurn(q, from, to, w)
  PROVE  ReadsInTurn(q, from, later, w)
<1>1. from..to \subseteq from..later
  OBVIOUS
<1>2. \A k : [1..k -> from..to] \subseteq [1..k -> from..later]
  BY <1>1
<1>3. HasRead(q, from..later, w.files, w.page)
  BY <1>2 DEF ReadsInTurn, HasRead
<1> QED
  BY <1>3 DEF ReadsInTurn

(* What a handler has read stays so while it waits for its turn. *)
LEMMA ReadWaits ==
  ASSUME PageInv, [Next]_vars, NEW s \in Slots, Same(s)
  PROVE  ReadInv(s)'
<1>1. disk' \in {disk, disk + 1} /\ disk \in Nat
  BY DiskGoesOn DEF PageInv
<1>2. ReadInv(s)
  BY DEF PageInv
<1>3. SUFFICES ASSUME HandlerOf(asked[s]) = "source", work[s].step # "none"
               PROVE  /\ seen[s].disk \in 1..disk'
                      /\ work[s].step = "reading" => ReadsInTurn(asked[s], seen[s].disk, disk', work[s])
  <2> DEFINE a == asked[s]
             f == seen[s].disk
             w == work[s]
  <2>1. asked'[s] = a /\ seen'[s].disk = f /\ work'[s] = w
    BY DEF Same
  <2> HIDE DEF a, f, w
  <2> QED
    BY <2>1 DEF ReadInv, ReadsInTurn, a, f, w
<1>4. seen[s].disk \in 1..disk
  BY <1>2, <1>3 DEF ReadInv
<1>5. ASSUME work[s].step = "reading" PROVE ReadsInTurn(asked[s], seen[s].disk, disk', work[s])
  <2>1. ReadsInTurn(asked[s], seen[s].disk, disk, work[s])
    BY <1>2, <1>3, <1>5 DEF ReadInv
  <2>2. seen[s].disk \in Nat /\ disk' \in Nat /\ disk <= disk'
    BY <1>1, <1>4
  <2> QED
    BY <1>1, <2>1, <2>2, ReadEarlier
<1> QED
  BY <1>1, <1>4, <1>5

(* The bounds of a page of source events. *)
LEMMA PageBounds ==
  ASSUME AskInv, NEW s \in Slots, s \in InProgress, HandlerOf(asked[s]) = "source",
         PageOk(asked[s], MaxSourceLimit)
  PROVE  LimitOf(asked[s]) \in Nat /\ OffsetOf(asked[s]) \in Nat
<1>1. asked[s] \in Asks[s]
  BY DEF InProgress, AskInv
<1>2. asked[s].offset \in Int
  BY <1>1, ServiceAssumption DEF IsRequest
<1> QED
  BY <1>2, ServiceAssumption DEF PageOk, OffsetOf

(* Before the first file the page is empty. *)
LEMMA NoFileRead ==
  ASSUME NEW q, q.id \in Ids, PageOk(q, MaxSourceLimit), LimitOf(q) \in Nat, OffsetOf(q) \in Nat,
         NEW from \in Nat, NEW to \in Nat
  PROVE  HasRead(q, from..to, 0, NoPage)
<1> DEFINE v == [i \in 1..0 |-> from]
           E == EventsOf(q)
<1>1. v \in [1..0 -> from..to] /\ InTurn(v) /\ DOMAIN v = {}
  BY DEF InTurn
<1>2. AllMatches(q, v) = <<>>
  <2> DEFINE OfFile(i) == Selected(ParseFile(Disk[v[i]][q.id][i]).events, LAMBDA e : QueryMatches(q.query, e))
  <2>1. AllMatches(q, v) = FlattenSeq([i \in DOMAIN v |-> OfFile(i)])
    BY DEF AllMatches
  <2> HIDE DEF OfFile
  <2>2. [i \in DOMAIN v |-> OfFile(i)] = <<>>
    BY <1>1
  <2>3. FlattenSeq(<<>>) = <<>>
    BY DEF FlattenSeq
  <2> QED
    BY <2>1, <2>2, <2>3
<1>3. <<>> \in Seq(E)
  OBVIOUS
<1>4. NoPage = PageOf(<<>>, LimitOf(q), OffsetOf(q))
  <2>1. [items |-> SlicePage(<<>>, LimitOf(q), OffsetOf(q)), total |-> Len(<<>>)]
          = PageOf(<<>>, LimitOf(q), OffsetOf(q))
    BY <1>3, SliceIsPage
  <2>2. SlicePage(<<>>, LimitOf(q), OffsetOf(q)) = <<>> /\ Len(<<>>) = 0
    BY DEF SlicePage
  <2> QED
    BY <2>1, <2>2 DEF NoPage
<1> HIDE DEF v, E
<1> QED
  BY <1>1, <1>2, <1>3, <1>4 DEF HasRead, E

(* A file more is read as the disk has it now. *)
LEMMA FileRead ==
  ASSUME NEW q, NEW from \in Nat, from >= 1, NEW w, DiskInv,
         ReadsInTurn(q, from, disk, w), LimitOf(q) \in Nat, OffsetOf(q) \in Nat,
         from <= disk, w.files < Len(Disk[disk][q.id])
  PROVE  /\ w.files + 1 \in 0..Len(Disk[1][q.id])
         /\ HasRead(q, from..disk, w.files + 1,
                    FindInFile(w.page, Disk[disk][q.id][w.files + 1], q))
<1> DEFINE k == w.files
           E == EventsOf(q)
           file == Disk[disk][q.id][k + 1]
           limit == LimitOf(q)
           offset == OffsetOf(q)
<1>1. DOMAIN Disk = 1..Len(Disk) /\ Len(Disk) \in Nat /\ disk \in 1..Len(Disk)
  BY ServiceAssumption DEF IsDisk, DiskInv
<1>2. q.id \in 1..MaxIds
  BY DEF ReadsInTurn, Ids, M!Ids
<1>3. Len(Disk[disk][q.id]) = Len(Disk[1][q.id]) /\ Len(Disk[1][q.id]) \in Nat
  <2>1. \A d \in DOMAIN Disk : /\ Disk[d][q.id] \in Seq(ToSet(Disk[d][q.id]))
                               /\ Len(Disk[d][q.id]) = Len(Disk[1][q.id])
    BY <1>2, ServiceAssumption DEF IsDisk
  <2>2. disk \in DOMAIN Disk /\ Len(Disk[disk][q.id]) \in Nat
    BY <1>1, <2>1
  <2> QED
    BY <2>1, <2>2
<1>4. k \in Nat /\ k + 1 \in 1..Len(Disk[1][q.id])
  BY <1>3 DEF ReadsInTurn
<1>5. PICK v \in [1..k -> from..disk] :
        InTurn(v) /\ AllMatches(q, v) \in Seq(E) /\ w.page = PageOf(AllMatches(q, v), limit, offset)
  BY DEF ReadsInTurn, HasRead
<1> DEFINE u == ThenAt(v, k, disk)
           old == AllMatches(q, v)
<1>6. u \in [1..(k + 1) -> from..disk] /\ Len(u) = k + 1
  <2>1. disk \in from..disk
    BY <1>1
  <2>2. \A i \in 1..(k + 1) : i = k + 1 \/ i \in 1..k
    BY <1>4
  <2>3. \A i \in 1..(k + 1) : u[i] \in from..disk
    BY <2>1, <2>2 DEF ThenAt
  <2>4. DOMAIN u = 1..(k + 1) /\ u = [i \in 1..(k + 1) |-> u[i]]
    BY DEF ThenAt
  <2>5. u \in [1..(k + 1) -> from..disk]
    <3> HIDE DEF u
    <3> QED
      BY <2>3, <2>4
  <2> HIDE DEF u
  <2>6. Len(u) = k + 1
    BY <1>4, <2>5
  <2> QED
    BY <2>5, <2>6
<1>7. InTurn(u)
  <2> SUFFICES ASSUME NEW i \in 2..(k + 1) PROVE u[i - 1] <= u[i]
    BY <1>6 DEF InTurn
  <2>1. i - 1 \in 1..k /\ i - 1 \in 1..(k + 1) /\ i - 1 # k + 1 /\ i \in 1..(k + 1)
    BY <1>4
  <2>2. u[i - 1] = v[i - 1] /\ v[i - 1] \in from..disk
    BY <2>1 DEF ThenAt
  <2>3. CASE i = k + 1
    <3>1. u[i] = disk
      BY <2>1, <2>3 DEF ThenAt
    <3> QED
      BY <1>1, <2>2, <3>1
  <2>4. CASE i # k + 1
    <3>1. i \in 2..k /\ u[i] = v[i]
      BY <1>4, <2>1, <2>4 DEF ThenAt
    <3>2. Len(v) = k
      BY <1>4
    <3> QED
      BY <1>5, <2>2, <3>1, <3>2 DEF InTurn
  <2> QED
    BY <2>3, <2>4
<1>8. AllMatches(q, u) = old \o FileMatches(q, disk, k + 1)
  <2>1. from..disk \subseteq DOMAIN Disk
    BY <1>1
  <2>2. v \in [1..k -> DOMAIN Disk]
    BY <2>1
  <2>3. disk \in DOMAIN Disk
    BY <1>1
  <2> HIDE DEF k, u, old
  <2>4. AllMatches(q, ThenAt(v, k, disk)) = AllMatches(q, v) \o FileMatches(q, disk, k + 1)
    BY <1>2, <1>4, <2>2, <2>3, MatchesGrow
  <2> QED
    BY <2>4 DEF u, old
<1> DEFINE events == ParseFile(file).events
           found == FileMatches(q, disk, k + 1)
<1>9. events \in Seq(E)
  BY <1>1, <1>2, <1>4, FilesListed
<1>10. FindInFile(w.page, file, q) = FillAll(w.page, q, events)
  BY DEF FindInFile, FillAll
<1>11. found = MatchesIn(q, events)
  BY DEF FileMatches
<1> HIDE DEF E, file, events, found, old, u, limit, offset
<1>12. /\ MatchesIn(q, events) \in Seq(E)
       /\ FillAll(PageOf(old, LimitOf(q), OffsetOf(q)), q, events)
            = PageOf(old \o MatchesIn(q, events), LimitOf(q), OffsetOf(q))
  <2>1. old \in Seq(E)
    BY <1>5 DEF old
  <2> QED
    BY <1>9, <2>1, PagesFill
<1>13. w.page = PageOf(old, LimitOf(q), OffsetOf(q))
  BY <1>5 DEF old, limit, offset
<1>14. AllMatches(q, u) = old \o MatchesIn(q, events)
  BY <1>8, <1>11 DEF found
<1>15. FindInFile(w.page, file, q) = PageOf(AllMatches(q, u), LimitOf(q), OffsetOf(q))
  BY <1>10, <1>12, <1>13, <1>14
<1>16. AllMatches(q, u) \in Seq(E)
  <2>1. old \in Seq(E)
    BY <1>5 DEF old
  <2> QED
    BY <1>12, <1>14, <2>1, ConcatProperties
<1>17. HasRead(q, from..disk, k + 1, FindInFile(w.page, file, q))
  BY <1>6, <1>7, <1>15, <1>16 DEF HasRead, E
<1> QED
  BY <1>3, <1>4, <1>17 DEF file

KeepsPages(s) == (\A u \in Slots : u # s => Same(u)) /\ ReadInv(s)'

(* A request for source events takes the disk as it is when it comes. *)
LEMMA PagesComing ==
  ASSUME LookupInv, PageInv, NEW s \in Slots, NEW q \in Asks[s], RequestComes(s, q)
  PROVE  KeepsPages(s)
<1> DEFINE handler == HandlerOf(q)
           v == SeenBy(q, handler)
           w == [step |-> handler]
<1>1. AllTables /\ DiskInv
  BY DEF LookupInv, PageInv
<1>2. /\ asked' = [asked EXCEPT ![s] = q] /\ seen' = [seen EXCEPT ![s] = v]
      /\ work' = [work EXCEPT ![s] = w] /\ answer' = answer /\ disk' = disk
  BY DEF RequestComes
<1>3. \A u \in Slots : u # s => Same(u)
  <2> HIDE DEF v, w, handler
  <2> QED
    BY <1>1, <1>2, OthersWait
<1>4. asked'[s] = q /\ seen'[s] = v /\ work'[s] = w
  <2> HIDE DEF v, w, handler
  <2> QED
    BY <1>1, <1>2 DEF AllTables, Tables
<1>5. w.step = handler /\ handler = HandlerOf(q)
  OBVIOUS
<1>6. handler = "source" => v.disk = disk
  <2>1. ASSUME handler = "source" PROVE v = [disk |-> disk]
    BY <2>1 DEF SeenBy
  <2> QED
    BY <2>1
<1>7. disk \in 1..disk
  BY <1>1, ServiceAssumption DEF DiskInv, IsDisk
<1> HIDE DEF v, w, handler
<1> QED
  BY <1>2, <1>3, <1>4, <1>5, <1>6, <1>7 DEF ReadInv, KeepsPages

(* It goes on reading one file after the other. *)
LEMMA PagesReadOn ==
  ASSUME LookupInv, AskInv, PageInv, NEW s \in Slots, SourceBegins(s) \/ ReadsFile(s), ReadsOn(s)
  PROVE  KeepsPages(s)
<1> DEFINE q == asked[s]
<1>1. AllTables /\ DiskInv /\ StepInv(s) /\ ReadInv(s)
  BY DEF LookupInv, PageInv
<1>3. \A u \in Slots : u # s => Same(u)
  BY <1>1, OthersWait DEF ReadsOn
<1>4. HandlerOf(q) = "source" /\ work[s].step # "none"
  <2>1. work[s].step \in {"source", "reading"}
    BY DEF ReadsOn
  <2>2. HandlerOf(q) \in {"source", "reading"}
    BY <1>1, <2>1 DEF StepInv
  <2>3. ASSUME NEW r \in Routes PROVE r[3] # "reading"
    <3> DEFINE Fine(t) == t[3] # "reading"
    <3>1. \A a, b, c : c # "reading" => Fine(<<a, b, c>>)
      OBVIOUS
    <3> HIDE DEF Fine
    <3>2. \A t \in Routes : Fine(t)
      BY <3>1, ZenonT(60) DEF Routes
    <3> QED
      BY <3>2 DEF Fine
  <2> QED
    BY <1>1, <2>1, <2>2, <2>3 DEF StepInv, HandlerOf
<1>5. seen[s].disk \in 1..disk /\ disk \in Nat /\ disk >= 1
  <2>1. DOMAIN Disk = 1..Len(Disk) /\ Len(Disk) \in Nat
    BY ServiceAssumption DEF IsDisk
  <2> QED
    BY <1>1, <1>4, <2>1 DEF ReadInv, DiskInv
<1>6. s \in InProgress /\ s \in DOMAIN work
  BY <1>1 DEF SourceBegins, HandledBy, Handling, ReadsFile, Reading, AllTables
<1>7. work'[s].step = "reading"
  BY <1>6 DEF ReadsOn
<1>8. ~\E reply : AnswerWith(s, reply)
  <2>1. ASSUME NEW reply, AnswerWith(s, reply) PROVE FALSE
    <3>1. work'[s] = NoWork
      BY <1>6, <2>1 DEF AnswerWith
    <3> QED
      BY <1>7, <3>1 DEF NoWork
  <2> QED
    BY <2>1
<1> DEFINE Read == disk' = disk /\ ReadsInTurn(q, seen[s].disk, disk, work'[s])
<1>9. ASSUME SourceBegins(s) PROVE Read
  <2> DEFINE w == [step |-> "reading", files |-> 0, page |-> NoPage]
  <2>1. Available(q.id) /\ PageOk(q, MaxSourceLimit) /\ work' = [work EXCEPT ![s] = w] /\ disk' = disk
    BY <1>8, <1>9 DEF SourceBegins
  <2>2. work'[s] = w
    BY <1>6, <2>1
  <2>3. LimitOf(q) \in Nat /\ OffsetOf(q) \in Nat
    BY <1>4, <1>6, <2>1, PageBounds
  <2>4. q.id \in Ids /\ 1 \in DOMAIN Disk
    BY <2>1, ServiceAssumption DEF Available, IsDisk
  <2>5. 0 \in 0..Len(Disk[1][q.id])
    <3>1. Disk[1][q.id] \in Seq(ToSet(Disk[1][q.id]))
      BY <2>4, ServiceAssumption DEF IsDisk, Ids, M!Ids
    <3> QED
      BY <3>1
  <2>6. HasRead(q, seen[s].disk..disk, 0, NoPage)
    <3> HIDE DEF q
    <3>1. seen[s].disk \in Nat
      BY <1>5
    <3> QED
      BY <1>5, <2>1, <2>3, <2>4, <3>1, NoFileRead
  <2>7. w.files = 0 /\ w.page = NoPage /\ {"files", "page"} \subseteq DOMAIN w
    OBVIOUS
  <2> HIDE DEF q, w
  <2>8. Read
    BY <2>1, <2>2, <2>4, <2>5, <2>6, <2>7 DEF ReadsInTurn
  <2> QED
    BY <2>8
<1>10. ASSUME ReadsFile(s) PROVE Read
  <2> DEFINE file == Disk[disk][q.id][work[s].files + 1]
             n == work[s].files + 1
             p == FindInFile(work[s].page, file, q)
             w == [[work[s] EXCEPT !.files = n] EXCEPT !.page = p]
  <2>1. /\ work[s].step = "reading" /\ disk' = disk /\ work[s].files < Len(Disk[disk][q.id])
        /\ work' = [work EXCEPT ![s].files = @ + 1, ![s].page = FindInFile(@, file, q)]
    BY <1>8, <1>10 DEF ReadsFile, Reading
  <2>2. ReadsInTurn(q, seen[s].disk, disk, work[s])
    BY <1>1, <1>4, <2>1 DEF ReadInv
  <2>3. LimitOf(q) \in Nat /\ OffsetOf(q) \in Nat
    BY <1>4, <1>6, <2>2, PageBounds DEF ReadsInTurn
  <2>4. /\ n \in 0..Len(Disk[1][q.id])
        /\ HasRead(q, seen[s].disk..disk, n, p)
    <3> HIDE DEF q
    <3>1. seen[s].disk \in Nat /\ seen[s].disk >= 1 /\ seen[s].disk <= disk
      BY <1>5
    <3> QED
      BY <1>1, <2>1, <2>2, <2>3, <3>1, FileRead
  <2>5. work'[s] = w
    BY <1>6, <2>1
  <2>6. w.files = n /\ w.page = p /\ {"files", "page"} \subseteq DOMAIN w
    <3>1. "files" \in DOMAIN work[s] /\ "page" \in DOMAIN work[s]
      BY <2>2 DEF ReadsInTurn
    <3> QED
      BY <3>1
  <2> HIDE DEF q, p, n, w
  <2>7. Read
    BY <2>1, <2>2, <2>4, <2>5, <2>6 DEF ReadsInTurn
  <2> QED
    BY <2>7
<1>11. ReadInv(s)'
  <2>1. Read
    BY <1>9, <1>10
  <2>2. asked'[s] = q /\ seen'[s] = seen[s]
    BY DEF ReadsOn
  <2> HIDE DEF q
  <2> QED
    BY <1>5, <1>7, <2>1, <2>2 DEF ReadInv
<1> QED
  BY <1>3, <1>11 DEF KeepsPages

(* Nothing is read at first. *)
LEMMA PagesInitially == Init => PageInv
<1> SUFFICES ASSUME Init PROVE PageInv
  OBVIOUS
<1>1. disk = 1 /\ \A s \in Slots : work[s].step = "none"
  BY DEF Init, NoWork
<1>2. 1 \in DOMAIN Disk
  BY ServiceAssumption DEF IsDisk
<1> QED
  BY <1>1, <1>2 DEF PageInv, DiskInv, ReadInv

(* Every step keeps what the handlers of source events know. *)
LEMMA PagesStep == LookupInv /\ AskInv /\ PageInv /\ [Next]_vars => PageInv'
<1> SUFFICES ASSUME LookupInv, AskInv, PageInv, [Next]_vars PROVE PageInv'
  OBVIOUS
<1>0. AllTables /\ DiskInv' /\ \A s \in Slots : StepInv(s)
  BY DiskGoesOn DEF LookupInv, PageInv
<1>1. ASSUME NEW s \in Slots, KeepsPages(s) PROVE PageInv'
  <2>1. \A u \in Slots : u # s => ReadInv(u)'
    BY <1>1, ReadWaits DEF KeepsPages
  <2> QED
    BY <1>0, <1>1, <2>1 DEF PageInv, KeepsPages
<1>2. ASSUME NEW s \in Slots, Free(s) \/ \E reply : AnswerWith(s, reply) PROVE PageInv'
  <2>1. \A u \in Slots : u # s => Same(u)
    BY <1>0, <1>2, Leaves
  <2>2. work' = [work EXCEPT ![s] = NoWork]
    BY <1>2 DEF Free, AnswerWith
  <2>3. work'[s] = NoWork
    BY <1>0, <2>2 DEF AllTables
  <2>4. work'[s].step = "none"
    BY <2>3 DEF NoWork
  <2> QED
    BY <1>1, <2>1, <2>4 DEF KeepsPages, ReadInv
<1>3. ASSUME NEW s \in Slots, NEW q \in Asks[s], RequestComes(s, q) PROVE PageInv'
  BY <1>1, <1>3, PagesComing
<1>4. ASSUME NEW s \in Slots, ReplySent(s) PROVE PageInv'
  BY <1>2, <1>4 DEF ReplySent
<1>5. ASSUME NEW s \in Slots, Handler(s) PROVE PageInv'
  <2>1. CASE ReadsBase(s)
    <3>1. StepInv(s)
      BY <1>0
    <3>2. HandlerOf(asked[s]) = "compare"
      BY <2>1, <3>1 DEF ReadsBase, StepInv
    <3>3. \A u \in Slots : u # s => Same(u)
      BY <1>0, <2>1, OthersWait DEF ReadsBase
    <3>4. asked'[s] = asked[s]
      BY <2>1 DEF ReadsBase
    <3> QED
      BY <1>1, <3>2, <3>3, <3>4 DEF KeepsPages, ReadInv
  <2>2. CASE ReadsOn(s)
    <3>1. CASE SourceBegins(s) \/ ReadsFile(s)
      BY <1>1, <2>2, <3>1, PagesReadOn
    <3>2. CASE SourceEnds(s) \/ SourceAbandoned(s)
      BY <1>2, <3>2 DEF SourceEnds, SourceAbandoned
    <3>3. SourceBegins(s) \/ ReadsFile(s) \/ SourceEnds(s) \/ SourceAbandoned(s)
      BY <1>5, <2>2 DEF ReadsOn, Handler, HandledBy, Misrouted, Status, CreateRun, CancelRun, DeleteRun, ShowResult,
         CompareBase, CompareCurrent
    <3> QED
      BY <3>1, <3>2, <3>3
  <2> QED
    BY <1>0, <1>2, <1>5, <2>1, <2>2, HandlerMoves
<1>6. CASE UNCHANGED requests
  <2>1. \A u \in Slots : Same(u)
    BY <1>6 DEF Same, requests
  <2> QED
    BY <1>0, <2>1, ReadWaits DEF PageInv
<1>7. ASSUME NEW code, ProcessEnds(code) PROVE PageInv'
  <2>1. \A u \in Slots : work'[u].step = "none"
    BY <1>7 DEF ProcessEnds, NoWork
  <2> QED
    BY <1>0, <2>1 DEF PageInv, ReadInv
<1>8. CASE ManagerStopped \/ ManagerDeadline
  BY <1>7, <1>8 DEF ManagerStopped, ManagerDeadline
<1>9. CASE \/ BuildEnds \/ FilesChange \/ Signal \/ AcceptFails \/ ServeReturns \/ Returned
           \/ Listen \/ ReceiveError \/ SeeSignal \/ Drained \/ DrainDeadline \/ CloseManager
           \/ CancelBuilds \/ UNCHANGED vars
  BY <1>6, <1>9 DEF BuildEnds, FilesChange, Signal, AcceptFails, ServeReturns, Returned, Listen,
     ReceiveError, SeeSignal, Drained, DrainDeadline, CloseManager, CancelBuilds, requests, vars
<1> QED
  BY <1>3, <1>4, <1>5, <1>8, <1>9 DEF Next, Main

(* What the answer with a page says. *)
SourceIsExact(s) ==
  LET q == asked[s]
      Versions == seen[s].disk..disk
  IN  /\ answer'[s].status = 200 =>
           \E v \in [DOMAIN Disk[1][q.id] -> Versions] :
             InTurn(v) /\ answer'[s].body = PageOf(AllMatches(q, v), LimitOf(q), OffsetOf(q))
      /\ answer'[s].status = 500 =>
           \E v \in Versions : \E i \in DOMAIN Disk[v][q.id] : Fails(Disk[v][q.id][i])

SectionIsExact(s) ==
  LET q == asked[s]
      rows == Results[q.id].rows[q.section]
      most == IF q.section = "locks" THEN MaxSourceLimit ELSE MaxLimit
      limit == IF LimitOf(q) > most THEN most ELSE LimitOf(q)
      fitting == Selected(rows, LAMBDA row : q.filter \in {None, row.key})
  IN  answer'[s].status = 200 => answer'[s].body = PageOf(fitting, limit, OffsetOf(q))

(* A page of source events is exact when it is answered. *)
LEMMA SourceAnswered ==
  ASSUME LookupInv, PageInv, [Next]_vars, NEW s \in Slots, Answered(s), HandlerOf(asked[s]) = "source"
  PROVE  SourceIsExact(s)
<1> DEFINE q == asked[s]
<1>1. Handler(s)
  BY OnlyHandlersAnswer
<1>2. StepInv(s) /\ ReadInv(s) /\ DiskInv /\ s \in DOMAIN answer
  BY DEF LookupInv, PageInv, AllTables, Tables
<1>3. work[s].step \in {"none", "source", "reading"}
  BY <1>2 DEF StepInv
<1>4. SourceBegins(s) \/ ReadsFile(s) \/ SourceEnds(s) \/ SourceAbandoned(s)
  BY <1>1, <1>3 DEF Handler, HandledBy, Misrouted, Status, CreateRun, CancelRun, DeleteRun, ShowResult,
     CompareBase, CompareCurrent
<1>5. ~UNCHANGED answer
  BY DEF Answered
<1>6. ASSUME NEW code, AnswerWith(s, Bare(code)) PROVE answer'[s].status = code
  BY <1>2, <1>6 DEF AnswerWith, Bare, Reply
<1>7. CASE SourceBegins(s)
  <2>1. AnswerWith(s, Bare(400)) \/ AnswerWith(s, Bare(404)) \/ AnswerWith(s, Bare(409))
    BY <1>5, <1>7 DEF SourceBegins, ResultError
  <2>2. answer'[s].status \in {400, 404, 409}
    BY <1>6, <2>1
  <2> QED
    BY <2>2 DEF SourceIsExact
<1>8. CASE SourceAbandoned(s)
  <2>1. answer'[s] = NoReply
    BY <1>2, <1>8 DEF SourceAbandoned, Free
  <2> QED
    BY <2>1 DEF Answered, NoReply, Bare, Reply
<1>9. ASSUME work[s].step = "reading"
      PROVE  /\ ReadsInTurn(q, seen[s].disk, disk, work[s])
             /\ seen[s].disk \in 1..disk /\ disk \in Nat
             /\ Len(Disk[disk][q.id]) = Len(Disk[1][q.id]) /\ Len(Disk[1][q.id]) \in Nat
             /\ \A d \in DOMAIN Disk : DOMAIN Disk[d][q.id] = 1..Len(Disk[1][q.id])
  <2>1. DOMAIN Disk = 1..Len(Disk) /\ Len(Disk) \in Nat /\ disk \in 1..Len(Disk)
    BY <1>2, ServiceAssumption DEF IsDisk, DiskInv
  <2>2. ReadsInTurn(q, seen[s].disk, disk, work[s]) /\ seen[s].disk \in 1..disk
    BY <1>2, <1>9 DEF ReadInv
  <2>3. q.id \in 1..MaxIds
    BY <2>2 DEF ReadsInTurn, Ids, M!Ids
  <2>4. \A d \in DOMAIN Disk : /\ Disk[d][q.id] \in Seq(ToSet(Disk[d][q.id]))
                               /\ Len(Disk[d][q.id]) = Len(Disk[1][q.id])
    BY <2>3, ServiceAssumption DEF IsDisk
  <2>5. disk \in DOMAIN Disk /\ Len(Disk[disk][q.id]) \in Nat
    BY <2>1, <2>4
  <2>6. ASSUME NEW d \in DOMAIN Disk PROVE DOMAIN Disk[d][q.id] = 1..Len(Disk[1][q.id])
    BY <2>4
  <2> QED
    BY <2>1, <2>2, <2>4, <2>5, <2>6
<1>10. CASE ReadsFile(s)
  <2> DEFINE i == work[s].files + 1
  <2>1. work[s].step = "reading" /\ work[s].files < Len(Disk[disk][q.id])
    BY <1>10 DEF ReadsFile, Reading
  <2>2. AnswerWith(s, Bare(500)) /\ Fails(Disk[disk][q.id][i])
    BY <1>5, <1>10 DEF ReadsFile
  <2>3. i \in DOMAIN Disk[disk][q.id] /\ disk \in seen[s].disk..disk
    <3>1. work[s].files \in Nat /\ i \in 1..Len(Disk[1][q.id])
      BY <1>9, <2>1 DEF ReadsInTurn
    <3>2. disk \in DOMAIN Disk
      BY <1>2 DEF DiskInv
    <3> QED
      BY <1>9, <2>1, <3>1, <3>2
  <2>4. answer'[s].status = 500
    BY <1>6, <2>2
  <2> QED
    BY <2>2, <2>3, <2>4 DEF SourceIsExact
<1>11. CASE SourceEnds(s)
  <2>1. /\ work[s].step = "reading" /\ work[s].files = Len(Disk[disk][q.id])
        /\ AnswerWith(s, Reply(200, work[s].page))
    BY <1>11 DEF SourceEnds, Reading
  <2>2. answer'[s].status = 200 /\ answer'[s].body = work[s].page
    BY <1>2, <2>1 DEF AnswerWith, Reply
  <2>3. 1 \in DOMAIN Disk
    BY ServiceAssumption DEF IsDisk
  <2>4. 1..work[s].files = DOMAIN Disk[1][q.id]
    BY <1>9, <2>1, <2>3
  <2>5. HasRead(q, seen[s].disk..disk, work[s].files, work[s].page)
    BY <1>9, <2>1 DEF ReadsInTurn
  <2>6. \E v \in [DOMAIN Disk[1][q.id] -> seen[s].disk..disk] :
           InTurn(v) /\ answer'[s].body = PageOf(AllMatches(q, v), LimitOf(q), OffsetOf(q))
    <3>1. PICK v \in [1..work[s].files -> seen[s].disk..disk] :
            InTurn(v) /\ work[s].page = PageOf(AllMatches(q, v), LimitOf(q), OffsetOf(q))
      BY <2>5 DEF HasRead
    <3>2. v \in [DOMAIN Disk[1][q.id] -> seen[s].disk..disk]
      BY <2>4
    <3> QED
      BY <2>2, <3>1, <3>2
  <2> QED
    BY <2>2, <2>6 DEF SourceIsExact
<1> QED
  BY <1>4, <1>7, <1>8, <1>10, <1>11

(* So is a page of a section. *)
LEMMA SectionAnswered ==
  ASSUME LookupInv, AskInv, [Next]_vars, NEW s \in Slots, Answered(s), HandlerOf(asked[s]) = "overview"
  PROVE  SectionIsExact(s)
<1> DEFINE q == asked[s]
<1>1. Handler(s)
  BY OnlyHandlersAnswer
<1>2. StepInv(s) /\ s \in DOMAIN answer
  BY DEF LookupInv, AllTables, Tables
<1>3. work[s].step \in {"none", "overview"}
  BY <1>2 DEF StepInv
<1>4. ShowResult(s)
  BY <1>1, <1>3 DEF Handler, HandledBy, Misrouted, Status, CreateRun, CancelRun, DeleteRun,
     CompareBase, CompareCurrent, SourceBegins, Reading, ReadsFile, SourceEnds, SourceAbandoned
<1>5. s \in InProgress /\ work[s].step = "overview"
  BY <1>3, <1>4 DEF ShowResult, Handling
<1>6. AnswerWith(s, IF Available(q.id) THEN OverviewReply(Results[q.id], q) ELSE ResultError(q.id))
  BY <1>4, <1>5, Zenon DEF ShowResult
<1>7. answer'[s] = IF Available(q.id) THEN OverviewReply(Results[q.id], q) ELSE ResultError(q.id)
  BY <1>2, <1>6 DEF AnswerWith
<1>8. SUFFICES ASSUME answer'[s].status = 200 PROVE SectionIsExact(s)
  BY DEF SectionIsExact
<1>9. Available(q.id)
  BY <1>7, <1>8 DEF ResultError, Bare, Reply
<1>10. IsOverview(Results[q.id])
  BY <1>9, ServiceAssumption DEF Available, Ids, M!Ids
<1>11. q.limit \in Int /\ q.offset \in Int
  BY <1>5, ServiceAssumption DEF InProgress, AskInv, IsRequest
<1>12. answer'[s] = OverviewReply(Results[q.id], q)
  BY <1>7, <1>9
<1> DEFINE result == Results[q.id]
           rows == result.rows[q.section]
           most == IF q.section = "locks" THEN MaxSourceLimit ELSE MaxLimit
           limit == IF LimitOf(q) > most THEN most ELSE LimitOf(q)
<1>13. OverviewReply(result, q).body = PageOf(RowsWanted(q, rows), limit, OffsetOf(q))
  <2>1. OverviewReply(result, q).status = 200
    BY <1>8, <1>12
  <2> HIDE DEF q, result
  <2> QED
    BY <1>10, <1>11, <2>1, SectionIsPage DEF result
<1> QED
  BY <1>12, <1>13 DEF SectionIsExact, RowsWanted

(* findSourceEvents and overviewSection: a page of source events is that of *)
(* all the matches in the files of the run, each file as it was at one      *)
(* moment of the request, and a page of a section is that of its rows.      *)
THEOREM PagesStayExact == Spec => PagesAreExact
<1> DEFINE Inv == LookupInv /\ AskInv /\ PageInv
           Exact == \A s \in Slots : Answered(s) =>
                      /\ HandlerOf(asked[s]) = "source" => SourceIsExact(s)
                      /\ HandlerOf(asked[s]) = "overview" => SectionIsExact(s)
<1>1. Init => Inv
  BY LookupInitially, PagesInitially DEF Init, AskInv
<1>2. Inv /\ [Next]_vars => Inv'
  BY LookupStep, AskStep, PagesStep
<1>3. Inv /\ [Next]_vars => [Exact]_vars
  BY SourceAnswered, SectionAnswered
<1>4. Exact => \A s \in Slots : Answered(s) =>
       LET q == asked[s]
           reply == answer'[s]
           Versions == seen[s].disk..disk
       IN  /\ HandlerOf(q) = "source" /\ reply.status = 200 =>
                \E v \in [DOMAIN Disk[1][q.id] -> Versions] :
                  InTurn(v) /\ reply.body = PageOf(AllMatches(q, v), LimitOf(q), OffsetOf(q))
           /\ HandlerOf(q) = "source" /\ reply.status = 500 =>
                \E v \in Versions : \E i \in DOMAIN Disk[v][q.id] : Fails(Disk[v][q.id][i])
           /\ HandlerOf(q) = "overview" /\ reply.status = 200 =>
                LET rows == Results[q.id].rows[q.section]
                    most == IF q.section = "locks" THEN MaxSourceLimit ELSE MaxLimit
                    limit == IF LimitOf(q) > most THEN most ELSE LimitOf(q)
                    fitting == Selected(rows, LAMBDA row : q.filter \in {None, row.key})
                IN  reply.body = PageOf(fitting, limit, OffsetOf(q))
  BY DEF SourceIsExact, SectionIsExact
<1>5. Spec => [][Exact]_vars
  BY <1>1, <1>2, <1>3, PTL DEF Spec
<1> QED
  BY <1>4, <1>5, PTL DEF PagesAreExact
===============================================================================
