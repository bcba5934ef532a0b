--------------------------------- MODULE Service ---------------------------------
(***************************************************************************)
(* The local web service as a whole: runServe and webserver.Serve with     *)
(* their two deadlines, the handlers of the HTTP interface, each on a      *)
(* goroutine of its own, and the run manager they share.  The manager is   *)
(* what RunLifecycle says of it (RunManager has its detail); a handler     *)
(* calls it in one critical section, or in two (compare), and source       *)
(* events are read from the log files while anything else goes on.         *)
(***************************************************************************)
EXTENDS WebApi

CONSTANTS Slots,    \* connections, each with at most one request in progress
          Asks,     \* Asks[s]: the requests that may come on connection s
          Results,  \* Results[id]: the overview that run id builds
          Disk,     \* Disk[v][id]: the log files of run id, after their v-th change
          Failing,  \* the runs whose build may return an error
          MaxRuns, MaxActive, MaxIds   \* as in RunLifecycle

(* Every change of the log files leaves a run the same list of files. *)
IsDisk(versions) ==
  /\ versions \in Seq(ToSet(versions)) /\ versions # <<>>
  /\ \A v \in DOMAIN versions, id \in 1..MaxIds :
       LET list == versions[v][id]
       IN  /\ list \in Seq(ToSet(list)) /\ Len(list) = Len(versions[1][id])
           /\ \A file \in ToSet(list) : IsFile(file)

ASSUME ServiceAssumption ==
  /\ MaxRuns \in Nat \ {0} /\ MaxActive \in Nat \ {0} /\ MaxIds \in Nat
  /\ DefaultLimit \in Nat /\ MaxLimit \in Nat /\ MaxSourceLimit \in Nat
  /\ \A id \in 1..MaxIds : IsOverview(Results[id])
  /\ IsDisk(Disk)
  /\ \A s \in Slots : \A q \in Asks[s] : IsRequest(q)

VARIABLES
  life, requested, accepting, stopped,  \* the manager, as in RunLifecycle
  disk,       \* the version of the log files
  signalled,  \* the context of the command is canceled
  server,     \* http.Server: "starting", "serving", "failed", "closed" (by Shutdown), "drained"
  errs,       \* the channel errs: "empty", "failed" or "closed" (ErrServerClosed)
  main,       \* the goroutine of runServe
  serveErr,   \* Serve returned an error
  exit,       \* what runServe returned: "none" (yet), "ok", "error"
  asked,      \* asked[s]: the request on connection s, or NoRequest
  seen,       \* seen[s]: the runs to compare, or the log files, as they were when it came
  work,       \* work[s]: what its handler has got so far
  answer      \* answer[s]: its reply, or NoReply

manager == <<life, requested, accepting, stopped>>
command == <<signalled, server, errs, main, serveErr, exit>>
requests == <<asked, seen, work, answer>>
vars == <<manager, disk, command, requests>>

M == INSTANCE RunLifecycle

Ids == M!Ids
Ended == {id \in Ids : life[id] \in M!Ended}
RunningRuns == {id \in Ids : life[id] = "running"}
Retained == Ended \cup RunningRuns
Available(id) == id \in Ids /\ life[id] = "succeeded"
Known(id) == id \in Retained

NoRequest == [none |-> TRUE]
NoReply == Bare(0)
NoWork == [step |-> "none"]

InProgress == {s \in Slots : asked[s] # NoRequest /\ answer[s].status = 0}
Handling(s) == exit = "none" /\ s \in InProgress
HandledBy(s, handler) == Handling(s) /\ work[s].step = handler

Init ==
  /\ life = [id \in Ids |-> "new"]
  /\ requested = {}
  /\ accepting = TRUE
  /\ stopped = FALSE
  /\ disk = 1
  /\ signalled = FALSE
  /\ server = "starting"
  /\ errs = "empty"
  /\ main = "starting"
  /\ serveErr = FALSE
  /\ exit = "none"
  /\ asked = [s \in Slots |-> NoRequest]
  /\ seen = [s \in Slots |-> NoWork]
  /\ work = [s \in Slots |-> NoWork]
  /\ answer = [s \in Slots |-> NoReply]

-------------------------------------------------------------------------------
(* Requests come and go. *)
SeenBy(q, handler) ==
  CASE handler = "compare" -> [life |-> [id \in {q.baseline, q.current} \cap Ids |-> life[id]]]
    [] handler = "source" -> [disk |-> disk]
    [] handler \notin {"compare", "source"} -> NoWork

(* Connections outlive the accept loop, and one that was accepted may bring *)
(* its request when the server is closed, until Shutdown finds none left.   *)
Connected == server \in {"serving", "failed", "closed"}

(* ServeHTTP, runRoute: the request is with its handler. *)
RequestComes(s, q) ==
  LET handler == HandlerOf(q)
  IN  /\ exit = "none"
      /\ Connected
      /\ asked[s] = NoRequest
      /\ asked' = [asked EXCEPT ![s] = q]
      /\ seen' = [seen EXCEPT ![s] = SeenBy(q, handler)]
      /\ work' = [work EXCEPT ![s] = [step |-> handler]]
      /\ UNCHANGED <<manager, disk, command, answer>>

Free(s) ==
  /\ asked' = [asked EXCEPT ![s] = NoRequest]
  /\ seen' = [seen EXCEPT ![s] = NoWork]
  /\ work' = [work EXCEPT ![s] = NoWork]
  /\ answer' = [answer EXCEPT ![s] = NoReply]

ReplySent(s) ==
  /\ exit = "none"
  /\ answer[s].status # 0
  /\ Free(s)
  /\ UNCHANGED <<manager, disk, command>>

AnswerWith(s, reply) ==
  /\ answer' = [answer EXCEPT ![s] = reply]
  /\ seen' = [seen EXCEPT ![s] = NoWork]
  /\ work' = [work EXCEPT ![s] = NoWork]
  /\ UNCHANGED <<disk, command, asked>>

(* Handlers that do not reach the manager, and those that only read it. *)
Misrouted(s) ==
  /\ Handling(s)
  /\ \/ work[s].step = "forbidden" /\ AnswerWith(s, Bare(403))
     \/ work[s].step = "not allowed" /\ AnswerWith(s, Bare(405))
     \/ work[s].step = "not found" /\ AnswerWith(s, Bare(404))
     \/ work[s].step \in {"health", "config", "list"} /\ AnswerWith(s, Bare(200))
  /\ UNCHANGED manager

Status(s) ==
  LET id == asked[s].id
  IN  /\ HandledBy(s, "status")
      /\ AnswerWith(s, Bare(IF Known(id) THEN 200 ELSE 404))
      /\ UNCHANGED manager

(* decode: a body that goes on after its JSON value is answered with 400,   *)
(* and the handler with the error nil; the first status is the one sent.    *)
Decoded(q, reply) == IF q.json = "followed" THEN Bare(400) ELSE reply

(* createRun: Manager.Create, which makes room by evicting the oldest ended *)
(* run.                                                                     *)
Evicted ==
  IF Cardinality(Retained) >= MaxRuns /\ Ended # {} THEN {Min(Ended)} ELSE {}

CreateRun(s) ==
  /\ HandledBy(s, "create")
  /\ \/ /\ accepting /\ asked[s].json # "invalid"
        /\ Cardinality(RunningRuns) < MaxActive
        /\ Cardinality(Retained \ Evicted) < MaxRuns
        /\ \E id \in Ids :
             /\ life[id] = "new" /\ \A older \in 1..(id - 1) : life[older] # "new"
             /\ life' = [run \in Ids |-> CASE run = id -> "running"
                                           [] run \in Evicted -> "gone"
                                           [] run \notin Evicted \cup {id} -> life[run]]
             /\ AnswerWith(s, Decoded(asked[s], Bare(202)))
     \/ /\ \/ ~accepting \/ asked[s].json = "invalid"
           \/ Cardinality(RunningRuns) >= MaxActive
           \/ Cardinality(Retained \ Evicted) >= MaxRuns
        /\ UNCHANGED life
        /\ AnswerWith(s, Bare(400))
  /\ UNCHANGED <<requested, accepting, stopped>>

CancelRun(s) ==
  LET id == asked[s].id
  IN  /\ HandledBy(s, "cancel")
      /\ requested' = requested \cup ({id} \cap RunningRuns)
      /\ AnswerWith(s, Bare(IF Known(id) THEN 202 ELSE 404))
      /\ UNCHANGED <<life, accepting, stopped>>

DeleteRun(s) ==
  LET id == asked[s].id
  IN  /\ HandledBy(s, "delete")
      /\ life' = [run \in Ids |-> IF run = id /\ id \in Ended THEN "gone" ELSE life[run]]
      /\ AnswerWith(s, Bare(CASE id \in Ended -> 204
                              [] id \in RunningRuns -> 409
                              [] ~Known(id) -> 404))
      /\ UNCHANGED <<requested, accepting, stopped>>

(* resultError *)
ResultError(id) == Bare(IF Known(id) THEN 409 ELSE 404)

ShowResult(s) ==
  LET q == asked[s]
      handler == work[s].step
      Shown == CASE handler = "overview" -> OverviewReply(Results[q.id], q)
                 [] handler = "raw event" -> RawEventReply(Results[q.id], q)
                 [] handler = "trace" -> TraceReply(Results[q.id], q)
                 [] handler = "download" -> DownloadReply(Results[q.id], q)
  IN  /\ Handling(s)
      /\ handler \in {"overview", "raw event", "trace", "download"}
      /\ AnswerWith(s, IF Available(q.id) THEN Shown ELSE ResultError(q.id))
      /\ UNCHANGED manager

(* compare: two critical sections of the manager.  The reply names the two  *)
(* results and the options whose comparison it carries.                     *)
OptionsOf(q) == OptionsWith(q.percent, q.minAbsolute)

CompareBase(s) ==
  LET q == asked[s]
  IN  /\ HandledBy(s, "compare")
      /\ IF q.json = "invalid" \/ q.baseline = None \/ q.current = None
         THEN AnswerWith(s, Bare(400))
         ELSE /\ work' = [work EXCEPT ![s] = [step |-> "base read",
                                         found |-> Available(q.baseline), base |-> q.baseline]]
              /\ UNCHANGED <<disk, command, asked, seen, answer>>
      /\ UNCHANGED manager

EitherFound(base, current) == base \/ current
BothFound(base, current) == base /\ current

CompareCurrent(s) ==
  LET q == asked[s]
  IN  /\ Handling(s)
      /\ work[s].step = "base read"
      /\ AnswerWith(s, Decoded(q,
           CASE ~BothFound(work[s].found, Available(q.current)) -> Bare(409)
             [] BothFound(work[s].found, Available(q.current)) ->
                  IF ValidateOptions(OptionsOf(q))
                  THEN Reply(200, <<work[s].base, q.current, OptionsOf(q)>>)
                  ELSE Bare(400)))
      /\ UNCHANGED manager

(* sourceEvents: the files are read one after the other. *)
SourceBegins(s) ==
  LET q == asked[s]
  IN  /\ HandledBy(s, "source")
      /\ IF Available(q.id) /\ PageOk(q, MaxSourceLimit)
         THEN /\ work' = [work EXCEPT ![s] = [step |-> "reading", files |-> 0, page |-> NoPage]]
              /\ UNCHANGED <<disk, command, asked, seen, answer>>
         ELSE AnswerWith(s, IF Available(q.id) THEN Bare(400) ELSE ResultError(q.id))
      /\ UNCHANGED manager

Reading(s) == Handling(s) /\ work[s].step = "reading"

ReadsFile(s) ==
  LET file == Disk[disk][asked[s].id][work[s].files + 1]
  IN  /\ Reading(s)
      /\ work[s].files < Len(Disk[disk][asked[s].id])
      /\ IF Fails(file)
         THEN AnswerWith(s, Bare(500))
         ELSE /\ work' = [work EXCEPT ![s].files = @ + 1,
                                      ![s].page = FindInFile(@, file, asked[s])]
              /\ UNCHANGED <<disk, command, asked, seen, answer>>
      /\ UNCHANGED manager

SourceEnds(s) ==
  /\ Reading(s)
  /\ work[s].files = Len(Disk[disk][asked[s].id])
  /\ AnswerWith(s, Reply(200, work[s].page))
  /\ UNCHANGED manager

(* The client is gone: its context is canceled and nothing is answered. *)
SourceAbandoned(s) ==
  /\ Reading(s)
  /\ Free(s)
  /\ UNCHANGED <<manager, disk, command>>

Handler(s) ==
  \/ Misrouted(s) \/ Status(s) \/ CreateRun(s) \/ CancelRun(s) \/ DeleteRun(s) \/ ShowResult(s)
  \/ CompareBase(s) \/ CompareCurrent(s)
  \/ SourceBegins(s) \/ ReadsFile(s) \/ SourceEnds(s) \/ SourceAbandoned(s)

-------------------------------------------------------------------------------
(* The builds of the manager, and the log files, which are still written.   *)
BuildEnds ==
  /\ exit = "none"
  /\ \E id \in Ids, outcome \in M!Ended :
       M!End(id, outcome) /\ (outcome = "failed" => id \in Failing)
  /\ UNCHANGED <<disk, command, requests>>

FilesChange ==
  /\ exit = "none"
  /\ disk < Len(Disk)
  /\ disk' = disk + 1
  /\ UNCHANGED <<manager, command, requests>>

-------------------------------------------------------------------------------
(* runServe and Serve.  Once Serve has seen what ends it, nobody looks at   *)
(* the signal any more.                                                     *)
Signal ==
  /\ ~signalled
  /\ main \in {"starting", "selecting"}
  /\ signalled' = TRUE
  /\ UNCHANGED <<manager, disk, server, errs, main, serveErr, exit, requests>>

(* The address is no loopback address, is taken, or is listened to. *)
Listen ==
  /\ main = "starting"
  /\ \/ server' = "serving" /\ main' = "selecting" /\ UNCHANGED serveErr
     \/ main' = "closing" /\ serveErr' = TRUE /\ UNCHANGED server
  /\ UNCHANGED <<manager, disk, signalled, errs, exit, requests>>

(* server.Serve returns, of itself or after server.Shutdown. *)
AcceptFails ==
  /\ exit = "none"
  /\ server = "serving"
  /\ server' = "failed"
  /\ errs' = "failed"
  /\ UNCHANGED <<manager, disk, signalled, main, serveErr, exit, requests>>

ServeReturns ==
  /\ exit = "none"
  /\ server \in {"closed", "drained"} /\ errs = "empty"
  /\ errs' = "closed"
  /\ UNCHANGED <<manager, disk, signalled, server, main, serveErr, exit, requests>>

ReceiveError ==
  /\ main \in {"selecting", "receiving"}
  /\ errs # "empty"
  /\ serveErr' = (errs = "failed")
  /\ main' = "closing"
  /\ UNCHANGED <<manager, disk, signalled, server, errs, exit, requests>>

SeeSignal ==
  /\ main = "selecting"
  /\ signalled
  /\ main' = "draining"
  /\ server' = IF server = "serving" THEN "closed" ELSE server
  /\ UNCHANGED <<manager, disk, signalled, errs, serveErr, exit, requests>>

(* server.Shutdown: every connection is closed, as none has a request in    *)
(* progress, or 5 seconds are over.                                         *)
AllIdle == InProgress = {}

Drained ==
  /\ main = "draining"
  /\ AllIdle
  /\ main' = "receiving"
  /\ server' = "drained"
  /\ UNCHANGED <<manager, disk, signalled, errs, serveErr, exit, requests>>

DrainPatiently == main = "draining" /\ InProgress = {} /\ UNCHANGED vars

DrainDeadline ==
  /\ main = "draining"
  /\ main' = "closing"
  /\ serveErr' = TRUE
  /\ UNCHANGED <<manager, disk, signalled, server, errs, exit, requests>>

(* The process ends, and with it every connection. *)
ProcessEnds(code) ==
  /\ main' = "returned"
  /\ exit' = code
  /\ asked' = [s \in Slots |-> NoRequest]
  /\ seen' = [s \in Slots |-> NoWork]
  /\ work' = [s \in Slots |-> NoWork]
  /\ answer' = [s \in Slots |-> NoReply]

(* Manager.Shutdown: no new runs; every build is canceled; all have ended,  *)
(* or 10 seconds are over.                                                  *)
CloseManager ==
  /\ main = "closing"
  /\ main' = "canceling"
  /\ accepting' = FALSE
  /\ UNCHANGED <<life, requested, stopped, disk, signalled, server, errs, serveErr, exit, requests>>

CancelBuilds ==
  /\ main = "canceling"
  /\ main' = "waiting"
  /\ requested' = RunningRuns
  /\ UNCHANGED <<life, accepting, stopped, disk, signalled, server, errs, serveErr, exit, requests>>

ExitCodeOfManager == "ok"
ExitCode == IF serveErr THEN "error" ELSE "ok"

ManagerStopped ==
  /\ main = "waiting"
  /\ M!Stop
  /\ ProcessEnds(ExitCode)
  /\ UNCHANGED <<disk, signalled, server, errs, serveErr>>

ManagerDeadline ==
  /\ main = "waiting"
  /\ ProcessEnds("error")
  /\ UNCHANGED <<manager, disk, signalled, server, errs, serveErr>>

Main ==
  \/ Listen \/ ReceiveError \/ SeeSignal \/ Drained \/ DrainDeadline
  \/ CloseManager \/ CancelBuilds \/ ManagerStopped \/ ManagerDeadline

Returned == exit # "none" /\ UNCHANGED vars

Next ==
  \/ \E s \in Slots : \/ \E q \in Asks[s] : RequestComes(s, q)
                      \/ ReplySent(s)
                      \/ Handler(s)
  \/ BuildEnds
  \/ FilesChange
  \/ Signal
  \/ AcceptFails
  \/ ServeReturns
  \/ Main
  \/ Returned

Spec == Init /\ [][Next]_vars

(* The goroutine of runServe and that of server.Serve run when they can,    *)
(* and a deadline passes; no handler and no build is assumed to end.        *)
Fairness == WF_command(Main) /\ WF_command(ServeReturns)

FairSpec == Spec /\ Fairness

-------------------------------------------------------------------------------
(* What a request may be told about a run: it was available at some moment  *)
(* between its coming and its answer, or it was not.                        *)
SomeTimeAvailable(s, id) ==
  /\ id \in Ids
  /\ seen[s].life[id] \in {"new", "running", "succeeded"}
  /\ life[id] \in {"succeeded", "gone"}
AlwaysAvailable(s, id) ==
  id \in Ids /\ seen[s].life[id] = "succeeded" /\ life[id] = "succeeded"

(* The events a query asks for, in the order of the files, when file i is   *)
(* read as the disk had it at version v[i].                                 *)
AllMatches(q, v) ==
  LET OfFile(i) ==
        Selected(ParseFile(Disk[v[i]][q.id][i]).events, LAMBDA e : QueryMatches(q.query, e))
  IN  FlattenSeq([i \in DOMAIN v |-> OfFile(i)])
InTurn(v) == \A i \in 2..Len(v) : v[i - 1] <= v[i]

PageOf(items, limit, offset) ==
  LET on == {i \in DOMAIN items : i > offset /\ i <= offset + limit}
  IN  [items |-> [i \in 1..Cardinality(on) |-> items[offset + i]], total |-> Len(items)]

Answered(s) == answer[s].status = 0 /\ answer'[s].status # 0

(* A comparison is of the two runs that were asked for, each of which had   *)
(* succeeded at some moment of the request although they are looked up one  *)
(* after the other, and had not been deleted or evicted before it came; and *)
(* it is refused only when one of them was not available at some moment.    *)
AnswersAreOfTheirTime ==
  [][\A s \in Slots : Answered(s) =>
       LET q == asked[s]
           status == answer'[s].status
       IN  /\ HandlerOf(q) = "compare" /\ status = 200 =>
                /\ \A id \in {q.baseline, q.current} : SomeTimeAvailable(s, id)
                /\ answer'[s].body = <<q.baseline, q.current, OptionsOf(q)>>
           /\ HandlerOf(q) = "compare" /\ status = 409 =>
                \E id \in {q.baseline, q.current} : ~AlwaysAvailable(s, id)]_vars

(* A page holds the matches from its offset on and the total of all, also   *)
(* when the log files grow, or the run is deleted, while they are read: each *)
(* file counts as it was at one moment of the request, one after the other,  *)
(* and the request fails only when a file could not be read.  A page of      *)
(* locks stops earlier.                                                      *)
PagesAreExact ==
  [][\A s \in Slots : Answered(s) =>
       LET q == asked[s]
           reply == answer'[s]
           Versions == seen[s].disk..disk  \* of a source request
       IN  /\ HandlerOf(q) = "source" /\ reply.status = 200 =>
                \E v \in [DOMAIN Disk[1][q.id] -> Versions] :
                  InTurn(v) /\ reply.body = PageOf(AllMatches(q, v), LimitOf(q), OffsetOf(q))
           /\ HandlerOf(q) = "source" /\ reply.status = 500 =>
                \E v \in Versions : \E i \in DOMAIN Disk[v][q.id] : Fails(Disk[v][q.id][i])
           /\ HandlerOf(q) = "overview" /\ reply.status = 200 =>
                LET rows == Results[q.id].rows[q.section]
                    most == IF q.section = "locks" THEN MaxSourceLimit ELSE MaxLimit
                    limit == IF LimitOf(q) > most THEN most ELSE LimitOf(q)
                    fitting == Selected(rows, LAMBDA row : q.filter \in {None, row.key})
                IN  reply.body = PageOf(fitting, limit, OffsetOf(q))]_vars

(* runServe returns nil only after a signal, with no connection, no build   *)
(* and no handler left and no way to accept a run, although requests still  *)
(* come while it closes; an error of the server is never lost, and the      *)
(* manager is closed whatever Serve returned.                               *)
CleanExit ==
  [][exit' # exit => /\ ~accepting
                     /\ exit' = "ok" => /\ signalled /\ errs = "closed" /\ ~Connected
                                        /\ RunningRuns = {} /\ InProgress = {}]_vars

(* After a signal or an error of the server the process ends, whatever the  *)
(* handlers and the builds do.                                              *)
Exits == (signalled \/ server = "failed" \/ serveErr) ~> (exit # "none")

(* What a comparison may claim: a row is regressed, or improved, only by its *)
(* total or its 95th percentile, which got worse, or better, by at least the *)
(* threshold asked for (5 percent when that is 0); and one whose total grew  *)
(* by more than the threshold and by the least change that matters is        *)
(* regressed.  At the threshold itself the rounding of the percentage may    *)
(* decide either way.  Counts alone mark nothing, and groups without         *)
(* durations are never marked (README.md:140).  Each key of either run is    *)
(* listed once, new and worse ones first; and the comparison the other way   *)
(* round finds new what this one finds removed.                              *)
Marked == {"regressed", "improved"}

ChangeIsHonest(c, q) ==
  LET Grown(field) == c.current[field] - c.base[field]
      percent == IF q.percent = 0 THEN 5 ELSE q.percent
      both == c.base.count > 0 /\ c.current.count > 0
  IN  /\ c.class = "regressed" => \E m \in {"total", "p95"} :
              Grown(m) > 0 /\ 100 * c.current[m] >= (100 + percent) * c.base[m]
      /\ c.class = "improved" => \E m \in {"total", "p95"} :
              Grown(m) < 0 /\ 100 * c.current[m] <= (100 - percent) * c.base[m]
      /\ c.class = "new" <=> c.base.count = 0 /\ c.current.count > 0
      /\ c.class = "removed" <=> c.base.count > 0 /\ c.current.count = 0
      /\ (/\ both /\ Grown("total") > 0 /\ Grown("total") >= q.minAbsolute
          /\ 100 * c.current.total > (100 + percent) * c.base.total) => c.class = "regressed"
      /\ c.class \in Marked => \E i \in DOMAIN c.reasons :
                                /\ c.reasons[i].metric # "count"
                                /\ c.reasons[i].class = c.class

SectionIsHonest(name, changes, q) ==
  LET Keys(run) == {row.key : row \in ToSet(Results[run].rows[name])}
      place == [new |-> 0, regressed |-> 1, removed |-> 2, improved |-> 3, unchanged |-> 4]
  IN  /\ {c.key : c \in ToSet(changes)} = Keys(q.baseline) \cup Keys(q.current)
      /\ Len(changes) = Cardinality(Keys(q.baseline) \cup Keys(q.current))
      /\ \A i \in 2..Len(changes) : place[changes[i - 1].class] <= place[changes[i].class]
      /\ \A c \in ToSet(changes) : ChangeIsHonest(c, q)
      /\ name = "error_context_groups" => \A c \in ToSet(changes) : c.class \notin Marked

Comparing(q, base, current) == Compare(Results[base], Results[current], OptionsOf(q))
Of(result, class) ==
  [name \in Sections |->
     {c.key : c \in {d \in ToSet(result.sections[name]) : d.class = class}}]

ComparisonIsHonest ==
  [][\A s \in Slots :
       Answered(s) /\ answer'[s].status = 200 /\ HandlerOf(asked[s]) = "compare" =>
         LET q == asked[s]
         IN  \E result \in {Comparing(q, answer'[s].body[1], answer'[s].body[2])} :
               /\ ChangeIsHonest(result.totals, q)
               /\ \A name \in Sections : SectionIsHonest(name, result.sections[name], q)
               /\ Of(result, "new") = Of(Comparing(q, q.current, q.baseline), "removed")]_vars
===============================================================================
