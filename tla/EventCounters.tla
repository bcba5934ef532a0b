----------------------------- MODULE EventCounters -----------------------------
(***************************************************************************)
(* collector.add of internal/report/overview with the analyzers that look  *)
(* at one event at a time: its own totals and longest events, sqlstats,    *)
(* lockstats, scallstats, processstats, licensestats and filedbstats.      *)
(*                                                                         *)
(* Every map of an analyzer is a dimension: groups[<<dimension, key>>] is  *)
(* the sequence of values added for the key, from which count, sum, minimum*)
(* and percentiles are computed.  quality is the bag of what was counted.  *)
(***************************************************************************)
EXTENDS LogEvents, Bags, FiniteSetsExt

CONSTANTS SampleLimit,  \* the limit of each analyzer's lists
          TopN,         \* Options.TopN
          Interval      \* Options.BucketInterval

ASSUME CountersAssumption ==
  SampleLimit \in Nat \ {0} /\ TopN \in Nat /\ Interval \in Nat \ {0}

VARIABLES
  groups,   \* the maps of the collectors
  quality,  \* their Quality counters
  samples,  \* their bounded lists of samples
  top,      \* collector.top
  log       \* history: the events added, in order

counterVars == <<groups, quality, samples, top, log>>

Unknown == "(unknown)"
Missing == "(missing)"

-------------------------------------------------------------------------------
(* overview: totals and the dimensions of the overview. *)

OverviewFields == {"Usr", "DataBase", "process", "Context"}

OverviewEntries(e) ==
  {<<<<"total">>, "", e.micros>>, <<<<"type">>, e.name, e.micros>>,
   <<<<"bucket">>, BucketStart(e.at, Interval), e.micros>>}
  \cup {<<<<"overview", f>>, TextOr(e, f, Unknown), e.micros>> : f \in OverviewFields}

(* betterRawEvent: two events of a file with the same name may tie. *)
BetterRawEvent(a, b) ==
  \/ a.micros > b.micros
  \/ a.micros = b.micros /\ a.at < b.at
  \/ a.micros = b.micros /\ a.at = b.at /\ a.origin < b.origin

(* TopN: an item is an event with its position in the input, which decides  *)
(* between events neither of which is better.                               *)
Less(a, b) ==
  \/ BetterRawEvent(a.value, b.value)
  \/ ~BetterRawEvent(b.value, a.value) /\ a.order < b.order

Worst(items) == CHOOSE i \in 1..Len(items) : \A j \in 1..Len(items) : j # i => Less(items[j], items[i])

ReplacesTies(item, worst) == ~BetterRawEvent(worst.value, item.value)
Replaces(item, worst) == Less(item, worst)

TopAdd(items, item) ==
  CASE TopN = 0 -> items
    [] TopN > 0 /\ Len(items) < TopN -> Append(items, item)
    [] TopN > 0 /\ Len(items) >= TopN ->
         LET w == Worst(items)
         IN  IF Replaces(item, items[w]) THEN [items EXCEPT ![w] = item] ELSE items

TopItems(items) ==
  LET ordered == StableSort(items, Less)
  IN  [i \in 1..Len(ordered) |-> ordered[i].value]

-------------------------------------------------------------------------------
(* sqlstats: Sql is preferred to Sdbl; a query stands for its normal form. *)

Query(e) == <<e.name, IF Has(e, "Sql") THEN e.fields["Sql"] ELSE e.fields["Sdbl"]>>

SqlEntries(e) ==
  When(Has(e, "Sql") \/ Has(e, "Sdbl"),
       {<<<<"sql", "query">>, Query(e), e.micros>>}
         \cup {<<<<"sql", f>>, <<Query(e), e.fields[f]>>, e.micros>> :
                 f \in {"Context", "Usr", "DataBase"} \cap DOMAIN e.fields}
         \cup When(NumberOk(e, "Rows"), {<<<<"sql", "Rows">>, Query(e), e.fields["Rows"]>>}))

-------------------------------------------------------------------------------
(* lockstats: Tables and Regions are the sets of names found in the event.  *)

IsLock(e) == e.name \in {"TLOCK", "TTIMEOUT", "TDEADLOCK"}
Related(e) == Has(e, "Waiter") /\ Has(e, "Blocker")

LockEntries(e) ==
  When(IsLock(e),
       {<<<<"lock", "event">>, e.name, e.micros>>,
        <<<<"lock", "conflict">>,
          <<e.name, TextOr(e, "Context", ""), NamesIn(e, "Tables"), NamesIn(e, "Regions")>>,
          e.micros>>}
         \cup When(Has(e, "Context"), {<<<<"lock", "context">>, e.fields["Context"], e.micros>>})
         \cup {<<<<"lock", "table">>, t, e.micros>> : t \in NamesIn(e, "Tables")}
         \cup {<<<<"lock", "region">>, r, e.micros>> : r \in NamesIn(e, "Regions")}
         \cup When(Related(e),
                {<<<<"lock", "relation">>,
                   <<e.name, e.fields["Waiter"], e.fields["Blocker"], TextOr(e, "Context", "")>>,
                   e.micros>>}))

LockCounts(e) ==
  IF ~IsLock(e) THEN {<<"lock", "ignored">>}
  ELSE {<<"lock", "events">>}
       \cup {<<"lock", "missing", f>> : f \in Blank(e, {"Context", "Tables", "Regions"})}
       \cup When(Related(e), {<<"lock", "relations">>})

-------------------------------------------------------------------------------
(* scallstats: a blank dimension is counted and grouped as (missing).      *)

ScallFields == {"Interface", "IName", "Method", "Context", "Usr", "DataBase", "process"}
ScallNumbers == {"InBytes", "OutBytes", "CpuTime", "Memory", "MemoryPeak", "CallWait"}

ScallKeys(e) ==
  {<<"call", [f \in {"Interface", "IName", "Method"} |-> TextOr(e, f, Missing)]>>}
  \cup {<<f, TextOr(e, f, Missing)>> : f \in ScallFields}

ScallEntries(e) ==
  IF e.name # "SCALL" THEN {}
  ELSE {<<<<"scall", k[1]>>, k[2], e.micros>> : k \in ScallKeys(e)}
       \cup UNION {{<<<<"scall", k[1], n>>, k[2], e.fields[n]>> : k \in ScallKeys(e)} :
                     n \in {n \in ScallNumbers : NumberOk(e, n)}}

ScallCounts(e) ==
  IF e.name # "SCALL" THEN {<<"scall", "ignored">>}
  ELSE {<<"scall", "events">>}
       \cup {<<"scall", "missing", f>> : f \in Blank(e, ScallFields \cup ScallNumbers)}
       \cup {<<"scall", "malformed", f>> : f \in Bad(e, ScallNumbers)}

-------------------------------------------------------------------------------
(* processstats: Func holds <<>> when it cannot be parsed, otherwise the    *)
(* operation and the arguments, "" for a blank one.  The tables by source   *)
(* are left out: they are filled next to those by process.                  *)

KnownOperation(op) == op \in {"setSrcProcessName", "new ServerProcessData"}

FunctionOk(e) == Has(e, "Func") /\ e.fields["Func"] # <<>>

FunctionOutcome(e) ==
  LET f == e.fields["Func"] IN
  CASE ~Has(e, "Func") -> "missing"
    [] Has(e, "Func") /\ ~FunctionOk(e) -> "malformed"
    [] FunctionOk(e) /\ ~KnownOperation(f[1]) -> "unknown"
    [] FunctionOk(e) /\ KnownOperation(f[1]) /\ Len(f) - 1 < 3 -> "few arguments"
    [] FunctionOk(e) /\ KnownOperation(f[1]) /\ Len(f) - 1 >= 3
         /\ (f[3] = "" \/ f[4] = "") -> "missing names"
    [] FunctionOk(e) /\ KnownOperation(f[1]) /\ Len(f) - 1 >= 3
         /\ f[3] # "" /\ f[4] # "" -> "relation"

ProcessEntries(e) ==
  LET process == TextOr(e, "process", Missing) IN
  CASE e.name = "PROC" ->
         {<<<<"proc", f>>, TextOr(e, f, Missing), e.micros>> : f \in {"process", "OSThread"}}
    [] e.name = "SCOM" /\ FunctionOk(e) ->
         {<<<<"scom", "operation">>, e.fields["Func"][1], e.micros>>,
          <<<<"scom", "process">>, process, e.micros>>,
          <<<<"scom", "composite">>, <<e.fields["Func"][1], process>>, e.micros>>}
         \cup When(FunctionOutcome(e) = "relation",
                {<<<<"scom", "relation">>,
                   <<process, e.fields["Func"][1], e.fields["Func"][3], e.fields["Func"][4]>>,
                   e.micros>>})
    [] e.name \notin {"PROC", "SCOM"} \/ (e.name = "SCOM" /\ ~FunctionOk(e)) -> {}

ProcessCounts(e) ==
  CASE e.name = "PROC" ->
         {<<"proc", "events">>}
         \cup {<<"process", "missing", f>> : f \in Blank(e, {"process", "OSThread"})}
    [] e.name = "SCOM" ->
         {<<"scom", "events">>, <<"scom", FunctionOutcome(e)>>}
         \cup {<<"process", "missing", f>> : f \in Blank(e, {"process"})}
    [] e.name \notin {"PROC", "SCOM"} -> {<<"process", "ignored">>}

-------------------------------------------------------------------------------
(* licensestats: txt is the set of phrases classify looks for.              *)

Words(e) == NamesIn(e, "txt")

Classes(e) ==
  LET acquire == TextOr(e, "res", "") \in {"seize", "acquire"}
      failure == Words(e) \cap {"failed", "expired", "wrong type"} # {}
      lastSucceeds == {"several", "last succeeds"} \subseteq Words(e)
  IN  When(acquire, {"acquire"})
      \cup When(TextOr(e, "res", "") = "release", {"release"})
      \cup ({"expired", "wrong type"} \cap Words(e))
      \cup When(failure, {"failure"})
      \cup When(acquire /\ (~failure \/ lastSucceeds), {"success"})

HaspOrigin(e) ==
  CASE "from cache" \in Words(e) -> "cache"
    [] "from cache" \notin Words(e) /\ "from os" \in Words(e) -> "os"
    [] Words(e) \cap {"from cache", "from os"} = {} -> "unknown"

LicenseEntries(e) ==
  CASE e.name = "LIC" ->
         {<<<<"license", "row">>,
            [f \in {"Func", "res", "process", "Usr"} |-> TextOr(e, f, "")], e.micros>>}
    [] e.name = "HASP" ->
         {<<<<"license", "hasp">>,
            <<HaspOrigin(e), TextOr(e, "process", ""), TextOr(e, "Usr", "")>>, e.micros>>}
    [] e.name \notin {"LIC", "HASP"} -> {}

LicenseCounts(e) ==
  CASE e.name = "LIC" ->
         {<<"license", "events">>}
         \cup {<<"license", "missing", f>> : f \in Blank(e, {"Func", "res", "txt"})}
         \cup {<<"license", c>> : c \in Classes(e)}
    [] e.name = "HASP" ->
         {<<"hasp", "events">>, <<"hasp", HaspOrigin(e)>>}
         \cup {<<"system", s>> : s \in NamesIn(e, "system")}
    [] e.name \notin {"LIC", "HASP"} -> {<<"license", "ignored">>}

-------------------------------------------------------------------------------
(* filedbstats: a blank property is counted and never grouped.              *)

FileDBFields == {"Func", "tableName", "CatName", "FileName", "DataBase", "process", "Usr"}
FileDBNumbers == {"Rows", "RowsAffected"}

ClassifyFunc(e) ==
  LET func == TextOr(e, "Func", "")
  IN  IF func \in {"read", "write", "begintransaction", "committransaction",
                   "rollbacktransaction"} THEN func ELSE "other"

(* FileName is a path, the first element of an absolute one being "/". *)
NormalizeFileName(file) ==
  IF file[1] # "/" THEN file
  ELSE <<"<absolute-path>">> \o (IF Len(file) = 1 THEN <<>> ELSE <<file[Len(file)]>>)

FileDBKeys(e) ==
  {<<"class", ClassifyFunc(e)>>}
  \cup {<<f, IF f = "FileName" THEN NormalizeFileName(e.fields[f]) ELSE e.fields[f]>> :
          f \in FileDBFields \cap DOMAIN e.fields}

FileDBEntries(e) ==
  IF e.name # "DBV8DBEng" THEN {}
  ELSE {<<<<"filedb", k[1]>>, k[2], e.micros>> : k \in FileDBKeys(e)}
       \cup UNION {{<<<<"filedb", k[1], n>>, k[2], e.fields[n]>> : k \in FileDBKeys(e)} :
                     n \in {n \in FileDBNumbers : NumberOk(e, n)}}

FileDBCounts(e) ==
  IF e.name # "DBV8DBEng" THEN {<<"filedb", "ignored">>}
  ELSE {<<"filedb", "events">>}
       \cup {<<"filedb", "missing", f>> :
               f \in Blank(e, FileDBFields \cup FileDBNumbers \cup {"Trans"})}
       \cup {<<"filedb", "malformed", f>> : f \in Bad(e, FileDBNumbers)}
       \cup When(Has(e, "Error"), {<<"filedb", "explicit error">>})

-------------------------------------------------------------------------------
(* The lists of samples: the slowest events, or the first errors.           *)

SlowLists == {"lock", "scall", "proc", "license", "filedb"}
ErrorLists == {"license errors", "filedb errors"}
Lists == SlowLists \cup ErrorLists

Offered(e, list) ==
  CASE list = "lock" -> IsLock(e)
    [] list = "scall" -> e.name = "SCALL"
    [] list = "proc" -> e.name = "PROC"
    [] list = "license" -> e.name = "LIC"
    [] list = "license errors" -> e.name = "LIC" /\ "failure" \in Classes(e)
    [] list = "filedb" -> e.name = "DBV8DBEng"
    [] list = "filedb errors" -> e.name = "DBV8DBEng" /\ Has(e, "Error")

KeptIn(list, e) ==
  IF list \in ErrorLists THEN KeepError(samples[list], e, SampleLimit)
  ELSE KeepSlow(samples[list], e, SampleLimit)

(* Only filedbstats counts what its lists lose. *)
Dropped(e) ==
  {<<"filedb", "dropped", list>> :
     list \in {list \in {"filedb", "filedb errors"} :
                 Offered(e, list) /\ Len(samples[list]) = SampleLimit}}

-------------------------------------------------------------------------------
CounterInit ==
  /\ groups = <<>>
  /\ quality = EmptyBag
  /\ samples = [list \in Lists |-> <<>>]
  /\ top = <<>>
  /\ log = <<>>

Entries(e) ==
  OverviewEntries(e) \cup SqlEntries(e) \cup LockEntries(e) \cup ScallEntries(e)
    \cup ProcessEntries(e) \cup LicenseEntries(e) \cup FileDBEntries(e)

Counts(e) ==
  LockCounts(e) \cup ScallCounts(e) \cup ProcessCounts(e) \cup LicenseCounts(e)
    \cup FileDBCounts(e) \cup Dropped(e)

(* collector.add, for everything but the analyzers that correlate events.   *)
CountEvent(e) ==
  /\ groups' = Added(groups, Entries(e))
  /\ quality' = quality (+) SetToBag(Counts(e))
  /\ samples' = [list \in Lists |-> IF Offered(e, list) THEN KeptIn(list, e) ELSE samples[list]]
  /\ top' = TopAdd(top, [value |-> e, order |-> Len(log)])
  /\ log' = Append(log, e)

-------------------------------------------------------------------------------
(* collector.finalize: the rows of each dimension, here without their order. *)

Interpolates(dim) == dim[1] \in {"total", "type", "bucket", "overview", "scall", "proc", "scom"}

Rows == [g \in DOMAIN groups |-> Summary(groups[g], Interpolates(g[1]))]

-------------------------------------------------------------------------------
CountIn(dim) == CountOf(groups, dim)
TotalIn(dim) == TotalOf(groups, dim)
Copies(c) == IF c \in DOMAIN quality THEN quality[c] ELSE 0

(* Each table of the overview divides the same events and the same time.    *)
OverviewAddsUp ==
  \A dim \in {<<"total">>, <<"type">>, <<"bucket">>} \cup {<<"overview", f>> : f \in OverviewFields} :
    CountIn(dim) = Len(log) /\ TotalIn(dim) = SumOf([i \in DOMAIN log |-> log[i].micros])

(* Of the locks: the tables by event and by conflict agree, and what is in  *)
(* no table is counted as missing.                                          *)
LocksAddUp ==
  /\ CountIn(<<"lock", "event">>) = Copies(<<"lock", "events">>)
  /\ CountIn(<<"lock", "conflict">>) = Copies(<<"lock", "events">>)
  /\ CountIn(<<"lock", "context">>) + Copies(<<"lock", "missing", "Context">>)
       = Copies(<<"lock", "events">>)
  /\ LET relations == GroupsIn(groups, <<"lock", "relation">>)
     IN  /\ Cardinality(relations) <= Copies(<<"lock", "relations">>)
         /\ relations = {} <=> Copies(<<"lock", "relations">>) = 0

(* Every call is in every table; a number is summed, missing or malformed.  *)
CallsAddUp ==
  /\ \A f \in ScallFields \cup {"call"} : CountIn(<<"scall", f>>) = Copies(<<"scall", "events">>)
  /\ \A n \in ScallNumbers, f \in {"call", "process"} :
       CountIn(<<"scall", f, n>>) + Copies(<<"scall", "missing", n>>)
         + Copies(<<"scall", "malformed", n>>) = Copies(<<"scall", "events">>)

(* A function of SCOM ends in exactly one way.                               *)
FunctionsAddUp ==
  LET parsed == Copies(<<"scom", "unknown">>) + Copies(<<"scom", "few arguments">>)
                  + Copies(<<"scom", "missing names">>) + Copies(<<"scom", "relation">>)
  IN  /\ CountIn(<<"proc", "process">>) = Copies(<<"proc", "events">>)
      /\ Copies(<<"scom", "events">>)
           = parsed + Copies(<<"scom", "missing">>) + Copies(<<"scom", "malformed">>)
      /\ \A f \in {"operation", "process", "composite"} : CountIn(<<"scom", f>>) = parsed
      /\ CountIn(<<"scom", "relation">>) = Copies(<<"scom", "relation">>)

(* An acquisition that does not succeed failed; a HASP query has one origin. *)
LicensesAddUp ==
  /\ CountIn(<<"license", "row">>) = Copies(<<"license", "events">>)
  /\ Copies(<<"license", "success">>) <= Copies(<<"license", "acquire">>)
  /\ Copies(<<"license", "acquire">>)
       <= Copies(<<"license", "success">>) + Copies(<<"license", "failure">>)
  /\ Copies(<<"hasp", "events">>) = CountIn(<<"license", "hasp">>)
  /\ Copies(<<"hasp", "events">>) = Copies(<<"hasp", "cache">>) + Copies(<<"hasp", "os">>)
                                      + Copies(<<"hasp", "unknown">>)

(* A property is grouped or missing, and a sample is kept or dropped.        *)
FilesAddUp ==
  LET n == Copies(<<"filedb", "events">>)
      Kept(list) == Len(samples[list]) + Copies(<<"filedb", "dropped", list>>)
  IN  /\ CountIn(<<"filedb", "class">>) = n
      /\ \A f \in FileDBFields : CountIn(<<"filedb", f>>) + Copies(<<"filedb", "missing", f>>) = n
      /\ \A f \in FileDBNumbers :
           CountIn(<<"filedb", "class", f>>) + Copies(<<"filedb", "missing", f>>)
             + Copies(<<"filedb", "malformed", f>>) = n
      /\ Kept("filedb") = n
      /\ Kept("filedb errors") = Copies(<<"filedb", "explicit error">>)

(* Every event is counted by an analyzer or ignored by it, once. *)
EachConsumesAll ==
  /\ Copies(<<"lock", "events">>) + Copies(<<"lock", "ignored">>) = Len(log)
  /\ Copies(<<"scall", "events">>) + Copies(<<"scall", "ignored">>) = Len(log)
  /\ Copies(<<"proc", "events">>) + Copies(<<"scom", "events">>)
       + Copies(<<"process", "ignored">>) = Len(log)
  /\ Copies(<<"license", "events">>) + Copies(<<"hasp", "events">>)
       + Copies(<<"license", "ignored">>) = Len(log)
  /\ Copies(<<"filedb", "events">>) + Copies(<<"filedb", "ignored">>) = Len(log)

(* The books balance: the tables, the quality counters and the lists that   *)
(* an analyzer shows next to each other describe the same events, whatever  *)
(* is missing, malformed or cut.                                            *)
AddsUp ==
  /\ OverviewAddsUp /\ LocksAddUp /\ CallsAddUp /\ FunctionsAddUp
  /\ LicensesAddUp /\ FilesAddUp /\ EachConsumesAll

LessIn(list, a, b) == IF list \in ErrorLists THEN ErrorLess(a, b) ELSE SlowLess(a, b)

(* Cutting a list after every event loses nothing that belongs in it: it is *)
(* what sorting all the events at the end, those of the list first, and     *)
(* cutting once would give.                                                 *)
SamplesAreTheBest ==
  \A list \in Lists :
    LET First(a, b) == Offered(a, list) /\ (Offered(b, list) => LessIn(list, a, b))
        offered == Cardinality({i \in DOMAIN log : Offered(log[i], list)})
    IN  samples[list] = Cut(SubSeq(StableSort(log, First), 1, offered), SampleLimit)

(* The longest events are the first ones of a stable sort of all events, so *)
(* they do not depend on which ones were replaced on the way.               *)
TopIsStablePrefix ==
  TopItems(top) = Cut(StableSort(log, BetterRawEvent), TopN)

AtMost(values, v) == Cardinality({i \in DOMAIN values : values[i] <= v})
AtLeast(values, v) == Cardinality({i \in DOMAIN values : values[i] >= v})

(* Percentiles of every row stay between its minimum and its maximum and are*)
(* in order; a nearest rank is a value that at least that share of the      *)
(* values does not exceed, and the least one; the median leaves at least    *)
(* half of the values on either side.                                       *)
RanksAreRight ==
  \A g \in DOMAIN groups :
    LET values == groups[g]
        n == Len(values)
        scale == IF Interpolates(g[1]) THEN 100 ELSE 1
        scaled == [i \in DOMAIN values |-> scale * values[i]]
        r == Rows[g]
        Least(v, percent) ==
          \A w \in {values[i] : i \in DOMAIN values} :
            100 * AtMost(values, w) >= percent * n <=> w >= v
    IN  /\ scale * r.min <= r.p50 /\ r.p50 <= r.p95 /\ r.p95 <= r.p99 /\ r.p99 <= scale * r.max
        /\ 2 * AtMost(scaled, r.p50) >= n /\ 2 * AtLeast(scaled, r.p50) >= n
        /\ ~Interpolates(g[1]) => Least(r.p50, 50) /\ Least(r.p95, 95) /\ Least(r.p99, 99)
===============================================================================
