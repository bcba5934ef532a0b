------------------------------- MODULE ReportPool -------------------------------
(***************************************************************************)
(* The context and error reports (internal/report/contextreport and        *)
(* errorreport, which have the same shape): a feeder hands the files one   *)
(* by one to worker goroutines over an unbuffered channel, each worker     *)
(* reads a file from start to end and sends what it collected of it to a   *)
(* buffered channel, and Build (or BuildRaw) merges the results in the     *)
(* order in which they arrive and ranks what it has merged.                *)
(*                                                                         *)
(* What a worker collects depends on its file alone, so a file stands for  *)
(* its result until Build receives it.                                     *)
(***************************************************************************)
EXTENDS LogFiles, Rankings

CONSTANTS Inputs,       \* pairs of a report and the files discovery returns, sorted by path
          Workers,      \* the worker goroutines
          TopN,         \* Config.TopN
          ZoneMinutes,  \* how far local time, in which the logs are written, is ahead of UTC
          Placeholder   \* of each volatile word, what normalizeDescription puts in its place

Kinds == {"sdbl", "call", "dbmssql", "postgres", "filedb", "lock", "timeout", "deadlock", "error"}

ASSUME PoolAssumption ==
  /\ IsFiniteSet(Workers) /\ Workers # {}
  /\ TopN \in Nat
  /\ ZoneMinutes \in Int
  /\ \A word \in DOMAIN Placeholder : Placeholder[word] \in Int
  /\ \A in \in Inputs : /\ in[1] \in Kinds /\ in[2] \in Seq(ToSet(in[2]))
                        /\ \A file \in ToSet(in[2]) : IsFile(file)

VARIABLES
  kind,       \* Config.Report
  mode,       \* Config.Mode: "aggregate" or "raw"
  files,      \* what discovery.Files returns
  handed,     \* files handed to a worker
  feeder,     \* the feeder: "feeding", "waiting" (jobs closed), "done" (results closed)
  worker,     \* worker[w]: what it does, and with which file
  results,    \* the buffered channel, of files whose results it holds
  stage,      \* of Build: "starting", "collecting", "returned", "failed"
  received,   \* the files whose results Build received, in that order
  lines,      \* lines read in all of them (Meta.BytesRead)
  processed,  \* Meta.FilesProcessed
  errors,     \* Errors, by file; NoFiles stands for "no input files"
  merged,     \* totalAgg or merged: what was collected so far
  report      \* the rows or the days of the report

input == <<kind, mode, files>>
pool == <<handed, feeder, worker, results>>
build == <<stage, received, lines, processed, errors, merged, report>>
vars == <<input, pool, build>>

NoFiles == 0
FileIds == 1..Len(files)
Idle == [does |-> "waiting", file |-> 0]

EventNames(k) ==
  CASE k = "sdbl" -> {"SDBL"}
    [] k = "call" -> {"CALL"}
    [] k = "dbmssql" -> {"DBMSSQL"}
    [] k = "postgres" -> {"DBPOSTGRS"}
    [] k = "filedb" -> {"DBV8DBEng"}
    [] k = "lock" -> {"TLOCK", "TTIMEOUT", "TDEADLOCK"}
    [] k = "timeout" -> {"TTIMEOUT"}
    [] k = "deadlock" -> {"TDEADLOCK"}
    [] k = "error" -> {"EXCP", "QERR"}

Wanted(k, e) == e.name \in EventNames(k) /\ Matches(e)

-------------------------------------------------------------------------------
(* HourBucket, as the minute it begins at: of the day in the error report,  *)
(* and of UTC (Truncate) in the others.                                     *)
HourOf(k, at) == at - ((IF k = "error" THEN at ELSE at - ZoneMinutes) % 60)

(* processFile: the rows of one file, in their order. *)
Row(k, e, text) ==
  [event |-> e.name, at |-> e.at, hour |-> HourOf(k, e.at), file |-> e.file, micros |-> e.micros,
   text |-> text]

(* extractDescription, normalizeDescription *)
Masked(word) == IF word \in DOMAIN Placeholder THEN Placeholder[word] ELSE word

Description(e) ==
  LET text == IF TextOf(e, "Descr") # Blank THEN TextOf(e, "Descr") ELSE TextOf(e, "Description")
  IN  [i \in DOMAIN text |-> Masked(text[i])]

TextFor(k, e) == IF k = "error" THEN Description(e) ELSE TextOf(e, "Context")

EmitWanted(k, rows, e) ==
  IF Wanted(k, e) /\ TextFor(k, e) # Blank THEN Append(rows, Row(k, e, TextFor(k, e))) ELSE rows

(* consumeCallContextEvent: calls[t] is the CALL that waits for the Context *)
(* of thread t.                                                             *)
PairCall(s, e) ==
  LET thread == TextOf(e, "OSThread")
      text == TextOf(e, "Context")
      isCall == e.name \in EventNames("call")
      pairs == e.name = "Context" /\ thread \in DOMAIN s.calls /\ text # Blank
  IN  CASE thread = Blank -> s
        [] thread # Blank /\ isCall /\ Matches(e) ->
             [s EXCEPT !.calls = [t \in DOMAIN @ \cup {thread} |-> IF t = thread THEN e ELSE @[t]]]
        [] thread # Blank /\ ~isCall /\ pairs ->
             [calls |-> [t \in DOMAIN s.calls \ {thread} |-> s.calls[t]],
              rows |-> Append(s.rows, Row("call", s.calls[thread], text))]
        [] thread # Blank /\ ~(isCall /\ Matches(e)) /\ (isCall \/ ~pairs) -> s

ProcessFile(k, file) ==
  LET events == ParseFile(file).events
      AddEvent(rows, e) == EmitWanted(k, rows, e)
      NoCalls == [calls |-> [t \in {} |-> 0], rows |-> <<>>]
  IN  IF k = "call" THEN FoldLeft(PairCall, NoCalls, events).rows
      ELSE FoldLeft(AddEvent, <<>>, events)

-------------------------------------------------------------------------------
(* aggregator: per key a total and a count. *)
NoGroups == [key \in {} |-> 0]
ZeroStat == [total |-> 0, count |-> 0]
StatOf(groups, key) == IF key \in DOMAIN groups THEN groups[key] ELSE ZeroStat

KeyOf(k, row) == IF k = "error" THEN <<row.event, row.text>> ELSE <<"", row.text>>

AddRow(k, groups, row) ==
  LET key == KeyOf(k, row)
      old == StatOf(groups, key)
      new == [total |-> old.total + row.micros, count |-> old.count + 1]
  IN  [g \in DOMAIN groups \cup {key} |-> IF g = key THEN new ELSE groups[g]]

MergeGroupsReplacing(dst, src) == src @@ dst

MergeGroups(dst, src) ==
  [g \in DOMAIN dst \cup DOMAIN src |->
     [total |-> StatOf(dst, g).total + StatOf(src, g).total,
      count |-> StatOf(dst, g).count + StatOf(src, g).count]]

(* rawCollector: per hour the TopN first rows in the order of               *)
(* sortRawContextEvents and sortRawErrorEvents.                             *)
RowBefore(a, b) ==
  \/ a.micros > b.micros
  \/ a.micros = b.micros /\ a.at < b.at
  \/ a.micros = b.micros /\ a.at = b.at /\ TextBefore(a.text, b.text)
  \/ a.micros = b.micros /\ a.at = b.at /\ a.text = b.text /\ a.file < b.file

RowsIn(hours, h) == IF h \in DOMAIN hours THEN hours[h] ELSE <<>>
Best(rows) == IF TopN > 0 THEN Cut(StableSort(rows, RowBefore), TopN) ELSE StableSort(rows, RowBefore)

Collect(hours, row) ==
  [h \in DOMAIN hours \cup {row.hour} |->
     IF h = row.hour THEN Best(Append(RowsIn(hours, h), row)) ELSE hours[h]]

MergeHours(dst, src) ==
  [h \in DOMAIN dst \cup DOMAIN src |->
     IF h \in DOMAIN src THEN Best(RowsIn(dst, h) \o src[h]) ELSE dst[h]]

(* processFileAggregate, processFileRaw *)
Collected(k, m, file) ==
  LET AddGroup(groups, row) == AddRow(k, groups, row)
  IN  IF m = "raw" THEN FoldLeft(Collect, NoGroups, ProcessFile(k, file))
      ELSE FoldLeft(AddGroup, NoGroups, ProcessFile(k, file))

Merge(m, dst, src) == IF m = "raw" THEN MergeHours(dst, src) ELSE MergeGroups(dst, src)

-------------------------------------------------------------------------------
(* buildRows: by total in the context reports, by count in the error report *)
NameBefore(a, b) == a = "EXCP" /\ b = "QERR"

GroupBefore(k, a, b) ==
  LET byKey == \/ NameBefore(a.key[1], b.key[1])
               \/ a.key[1] = b.key[1] /\ TextBefore(a.key[2], b.key[2])
      byTotal == a.total > b.total \/ (a.total = b.total /\ byKey)
  IN  IF k = "error" THEN a.count > b.count \/ (a.count = b.count /\ byTotal) ELSE byTotal

RowsOfGroups(groups) ==
  {[key |-> g, total |-> groups[g].total, count |-> groups[g].count] : g \in DOMAIN groups}

BuildRowsUnranked(k, groups) == Cut(SetToSeq(RowsOfGroups(groups)), TopN)

BuildRows(k, groups) ==
  LET BeforeOf(a, b) == GroupBefore(k, a, b)
      ranked == StableSort(SetToSeq(RowsOfGroups(groups)), BeforeOf)
  IN  IF TopN > 0 THEN Cut(ranked, TopN) ELSE ranked

(* buildRawContextDays, buildRawErrorDays *)
BuildDays(hours) ==
  LET DayOf(h) == h \div DayMinutes
      InOrder(set) == StableSort(SetToSeq(set), <)
      dates == InOrder({DayOf(h) : h \in DOMAIN hours})
  IN  [d \in DOMAIN dates |->
         [date |-> dates[d],
          hours |-> LET of == InOrder({h \in DOMAIN hours : DayOf(h) = dates[d]})
                    IN  [i \in DOMAIN of |-> [hour |-> of[i], events |-> hours[of[i]]]]]]

-------------------------------------------------------------------------------
Init ==
  /\ \E in \in Inputs : kind = in[1] /\ files = in[2]
  /\ mode \in {"aggregate", "raw"}
  /\ handed = 0
  /\ feeder = "feeding"
  /\ worker = [w \in Workers |-> Idle]
  /\ results = <<>>
  /\ stage = "starting"
  /\ received = <<>>
  /\ lines = 0
  /\ processed = 0
  /\ errors = <<>>
  /\ merged = NoGroups
  /\ report = <<>>

(* Build up to its loop: the discovery may fail or find nothing. *)
Start ==
  /\ stage = "starting"
  /\ stage' \in IF files = <<>> THEN {"returned", "failed"} ELSE {"collecting", "failed"}
  /\ errors' = IF stage' = "returned" THEN <<NoFiles>> ELSE errors
  /\ UNCHANGED <<input, pool, received, lines, processed, merged, report>>

(* The feeder and a worker meet at the unbuffered channel. *)
TakeJob(w) ==
  /\ stage = "collecting"
  /\ feeder = "feeding"
  /\ worker[w] = Idle
  /\ handed < Len(files)
  /\ handed' = handed + 1
  /\ worker' = [worker EXCEPT ![w] = [does |-> "reading", file |-> handed']]
  /\ UNCHANGED <<input, feeder, results, build>>

CloseJobs ==
  /\ stage = "collecting"
  /\ feeder = "feeding"
  /\ handed = Len(files)
  /\ feeder' = "waiting"
  /\ UNCHANGED <<input, handed, worker, results, build>>

ReadFile(w) ==
  /\ worker[w].does = "reading"
  /\ worker' = [worker EXCEPT ![w].does = "sending"]
  /\ UNCHANGED <<input, handed, feeder, results, build>>

AfterSendGivingUp(w) ==
  IF Fails(files[worker[w].file]) THEN [does |-> "gone", file |-> 0] ELSE Idle
AfterSend(w) == Idle

HasRoom == Len(results) < Cardinality(Workers)

SendResult(w) ==
  /\ worker[w].does = "sending"
  /\ HasRoom
  /\ results' = Append(results, worker[w].file)
  /\ worker' = [worker EXCEPT ![w] = AfterSend(w)]
  /\ UNCHANGED <<input, handed, feeder, build>>

LeaveJobs(w) ==
  /\ feeder = "waiting"
  /\ worker[w] = Idle
  /\ worker' = [worker EXCEPT ![w] = [does |-> "gone", file |-> 0]]
  /\ UNCHANGED <<input, handed, feeder, results, build>>

AllGoneUnchecked == TRUE
AllGone == \A w \in Workers : worker[w].does = "gone"

(* wg.Wait() and close(results) *)
CloseResults ==
  /\ feeder = "waiting"
  /\ AllGone
  /\ feeder' = "done"
  /\ UNCHANGED <<input, handed, worker, results, build>>

(* One iteration of the loop of Build or BuildRaw. *)
TakeResult ==
  /\ stage = "collecting"
  /\ results # <<>>
  /\ results' = Tail(results)

Receive ==
  /\ TakeResult
  /\ LET file == files[Head(results)]
     IN  /\ lines' = lines + ParseFile(file).read
         /\ errors' = IF Fails(file) THEN Append(errors, Head(results)) ELSE errors
         /\ processed' = IF Fails(file) THEN processed ELSE processed + 1
         /\ merged' = IF Fails(file) THEN merged
                      ELSE Merge(mode, merged, Collected(kind, mode, file))
  /\ received' = Append(received, Head(results))
  /\ UNCHANGED <<input, handed, feeder, worker, stage, report>>

LeaveLoop ==
  /\ stage = "collecting"
  /\ results = <<>>
  /\ feeder = "done"
  /\ stage' = "returned"

Return ==
  /\ LeaveLoop
  /\ report' = IF mode = "raw" THEN BuildDays(merged) ELSE BuildRows(kind, merged)
  /\ UNCHANGED <<input, pool, received, lines, processed, errors, merged>>

Over ==
  /\ stage \in {"returned", "failed"}
  /\ UNCHANGED vars

WorkerNext(w) == TakeJob(w) \/ ReadFile(w) \/ SendResult(w) \/ LeaveJobs(w)

Next ==
  \/ Start
  \/ \E w \in Workers : WorkerNext(w)
  \/ CloseJobs
  \/ CloseResults
  \/ Receive
  \/ Return
  \/ Over

Spec == Init /\ [][Next]_vars

(* Every goroutine that can run does run; of the workers that wait for a    *)
(* job, some worker gets it.  Within Next, only Receive takes a result and  *)
(* only Return leaves the loop.                                             *)
Fairness ==
  /\ WF_vars(Start)
  /\ WF_vars(\E w \in Workers : TakeJob(w))
  /\ \A w \in Workers : WF_vars(ReadFile(w)) /\ WF_vars(SendResult(w)) /\ WF_vars(LeaveJobs(w))
  /\ WF_vars(CloseJobs)
  /\ WF_vars(CloseResults)
  /\ WF_results(TakeResult)
  /\ WF_stage(LeaveLoop)

FairSpec == Spec /\ Fairness
-------------------------------------------------------------------------------
(* What a report should hold, said of the files without reading them in     *)
(* order: the lines of an event are its header and those up to the next     *)
(* header, and it counts when its header is well formed and its end is      *)
(* known.                                                                   *)
Headers(file) == {i \in DOMAIN file.lines : IsEventStart(file.lines[i])}

EventAt(file, i) ==
  LET end == CHOOSE n \in i..Len(file.lines) :
               /\ (i + 1)..n \cap Headers(file) = {}
               /\ n = Len(file.lines) \/ n + 1 \in Headers(file)
  IN  ParseEvent(SubSeq(file.lines, i, end), file)

Complete(file) ==
  {i \in Headers(file) :
     WellFormed(file.lines[i]) /\ (file.breaks => \E j \in Headers(file) : j > i)}

OwnRows(k, file) ==
  {<<i, Row(k, EventAt(file, i), TextFor(k, EventAt(file, i)))>> :
     i \in {j \in Complete(file) :
              Wanted(k, EventAt(file, j)) /\ TextFor(k, EventAt(file, j)) # Blank}}

(* A Context tells the context of the nearest CALL of its thread before it  *)
(* that the report wants, unless another Context of the thread told it.     *)
PairedRows(file) ==
  LET Thread(i) == TextOf(EventAt(file, i), "OSThread")
      Calls == {i \in Complete(file) : Wanted("call", EventAt(file, i)) /\ Thread(i) # Blank}
      Contexts == {i \in Complete(file) : /\ EventAt(file, i).name = "Context"
                                          /\ TextOf(EventAt(file, i), "Context") # Blank}
      Between(c, i) == {j \in Calls \cup Contexts : c < j /\ j < i /\ Thread(j) = Thread(i)}
      Pairs == {p \in Calls \X Contexts :
                  p[1] < p[2] /\ Thread(p[1]) = Thread(p[2]) /\ Between(p[1], p[2]) = {}}
  IN  {<<p[2], Row("call", EventAt(file, p[1]), TextOf(EventAt(file, p[2]), "Context"))>> : p \in Pairs}

RowsOf(k, file) == IF k = "call" THEN PairedRows(file) ELSE OwnRows(k, file)

Due == UNION {{<<f, r[1], r[2]>> : r \in RowsOf(kind, files[f])} :
                f \in {f \in FileIds : f \in ToSet(received) /\ ~Fails(files[f])}}

GroupsExact ==
  LET Of(key) == {d \in Due : KeyOf(kind, d[3]) = key}
      Total(set) == SumFunction([d \in set |-> d[3].micros])
  IN  /\ DOMAIN merged = {KeyOf(kind, d[3]) : d \in Due}
      /\ \A key \in DOMAIN merged :
           merged[key] = [total |-> Total(Of(key)), count |-> Cardinality(Of(key))]

HoursExact ==
  /\ DOMAIN merged = {d[3].hour : d \in Due}
  /\ \A h \in DOMAIN merged :
       LET all == {d \in Due : d[3].hour = h}
           kept == merged[h]
           Copies(row) == Cardinality({d \in all : d[3] = row})
           CopiesKept(row) == Cardinality({i \in DOMAIN kept : kept[i] = row})
       IN  /\ Len(kept) = IF TopN = 0 \/ TopN > Cardinality(all) THEN Cardinality(all) ELSE TopN
           /\ \A i \in 2..Len(kept) : ~RowBefore(kept[i], kept[i - 1])
           /\ \A i \in DOMAIN kept : CopiesKept(kept[i]) <= Copies(kept[i])
           /\ \A d \in all : Copies(d[3]) > CopiesKept(d[3]) => ~RowBefore(d[3], Last(kept))

(* Whatever order the files' results arrive in, what was merged of them is  *)
(* what those files hold: each wanted event once, with the lines below its  *)
(* header, each Context with its CALL, nothing of a file that failed, and   *)
(* of each hour the best rows of all files although each file and each      *)
(* merge cuts its own list.                                                 *)
MergedIsExact ==
  /\ IF mode = "raw" THEN HoursExact ELSE GroupsExact
  /\ processed + Len(errors) = Len(received) \/ errors = <<NoFiles>>

(* The report ranks what was merged: no group that was cut off comes before *)
(* one that is listed, and the days list every hour once, in order.         *)
ReportRanks ==
  stage = "returned" /\ received # <<>> =>
    IF mode = "raw"
    THEN LET hours == FlattenSeq([d \in DOMAIN report |-> report[d].hours])
         IN  /\ {<<hours[i].hour, hours[i].events>> : i \in DOMAIN hours}
                   = {<<h, merged[h]>> : h \in DOMAIN merged}
             /\ \A i \in 2..Len(hours) : hours[i - 1].hour < hours[i].hour
             /\ \A d \in DOMAIN report : \A i \in DOMAIN report[d].hours :
                  report[d].hours[i].hour \div DayMinutes = report[d].date
             /\ \A d \in 2..Len(report) : report[d - 1].date < report[d].date
    ELSE LET rows == [i \in DOMAIN report |-> report[i].key]
         IN  /\ ToSet(rows) \subseteq DOMAIN merged
             /\ Cardinality(ToSet(rows)) = Len(rows)
             /\ Len(rows) = TopN \/ ToSet(rows) = DOMAIN merged
             /\ \A i \in DOMAIN rows : \A g \in DOMAIN merged \ {rows[j] : j \in 1..i} :
                  LET Of(key) == [key |-> key, total |-> merged[key].total, count |-> merged[key].count]
                  IN  ~GroupBefore(kind, Of(g), Of(rows[i]))

(* Every file that was handed out is with one worker, in the channel or     *)
(* received, once and in one of them, and Build returns only after it has   *)
(* received them all: a closed channel with a worker still busy would lose  *)
(* its file.                                                                *)
Held == {worker[w].file : w \in Workers} \ {0}
Queued == ToSet(results)
Received == ToSet(received)

EachFileOnce ==
  /\ Held \cup Queued \cup Received = 1..handed
  /\ Held \cap Queued = {} /\ Held \cap Received = {} /\ Queued \cap Received = {}
  /\ \A v, w \in Workers : worker[v].file = worker[w].file => v = w \/ worker[v].file = 0
  /\ IsInjective(results) /\ IsInjective(received)
  /\ stage = "returned" => Received = FileIds

(* Build returns, whatever fails: no worker that leaves strands the feeder, *)
(* and no full channel the workers.                                         *)
Terminates == <>(stage \in {"returned", "failed"})

(* The inductive strengthening: where a worker's file is, what the feeder   *)
(* has done by when, and that nothing happens outside the loop of Build.    *)
PoolInv ==
  /\ Len(files) \in Nat /\ handed \in 0..Len(files)
  /\ feeder \in {"feeding", "waiting", "done"}
  /\ worker \in [Workers -> [does : {"waiting", "reading", "sending", "gone"}, file : Nat]]
  /\ results \in Seq(Nat) /\ received \in Seq(Nat)
  /\ \A w \in Workers : worker[w].does \in {"reading", "sending"} <=> worker[w].file # 0
  /\ stage \in {"starting", "collecting", "returned", "failed"}
  /\ feeder # "feeding" => handed = Len(files)
  /\ feeder = "done" => AllGone
  /\ stage \in {"starting", "failed"} => handed = 0 /\ feeder = "feeding"
  /\ stage = "returned" => results = <<>> /\ (feeder = "done" \/ files = <<>>)
  /\ files = <<>> => stage # "collecting"
  /\ EachFileOnce
===============================================================================
