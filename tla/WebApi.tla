--------------------------------- MODULE WebApi ---------------------------------
(***************************************************************************)
(* What the handlers of the HTTP interface (internal/webserver/api.go)     *)
(* make of a request and of the data they are given: which handler takes   *)
(* it, which rows of a section it shows, and which events of the log files *)
(* of a run it finds when it reads them again.                             *)
(***************************************************************************)
EXTENDS Comparison, LogFiles

CONSTANTS DefaultLimit,    \* of a page, when the request has no limit
          MaxLimit,        \* of a page of a section
          MaxSourceLimit   \* of a page of source events or of locks

(* Routes: method, path below the prefix, handler; "id" stands for a run's  *)
(* name of the form r-<digits>.                                             *)
Routes ==
  {<<"GET", <<"health">>, "health">>,
   <<"GET", <<"config">>, "config">>,
   <<"GET", <<"runs">>, "list">>,
   <<"POST", <<"runs">>, "create">>,
   <<"POST", <<"report", "compare">>, "compare">>,
   <<"GET", <<"runs", "id">>, "status">>,
   <<"POST", <<"runs", "id", "cancel">>, "cancel">>,
   <<"POST", <<"runs", "id", "delete">>, "delete">>,
   <<"GET", <<"runs", "id", "report", "overview">>, "overview">>,
   <<"GET", <<"runs", "id", "report", "raw-event">>, "raw event">>,
   <<"GET", <<"runs", "id", "report", "trace">>, "trace">>,
   <<"GET", <<"runs", "id", "downloads", "name">>, "download">>,
   <<"GET", <<"runs", "id", "report", "source-events">>, "source">>}

HandlerOf(q) ==
  LET fitting == {r \in Routes : r[1] = q.method /\ r[2] = q.path}
  IN  CASE ~q.sameOrigin -> "forbidden"
        [] q.sameOrigin /\ q.method \notin {"GET", "POST"} -> "not allowed"
        [] q.sameOrigin /\ q.method \in {"GET", "POST"} /\ fitting = {} -> "not found"
        [] q.sameOrigin /\ fitting # {} -> (CHOOSE r \in fitting : TRUE)[3]

(* What stands in the body of a request: one JSON value that describes a    *)
(* request, no such value, or one and then another value.                   *)
Bodies == {"valid", "invalid", "followed"}

IsRequest(q) ==
  /\ HandlerOf(q) \in {"create", "compare"} => q.json \in Bodies
  /\ HandlerOf(q) = "compare" => q.percent \in Int /\ q.minAbsolute \in Int
  /\ HandlerOf(q) \in {"source", "overview"} => q.limit \in Int /\ q.offset \in Int

(* page and sourcePage *)
LimitOf(q) == IF q.limit = None THEN DefaultLimit ELSE q.limit
OffsetOf(q) == IF q.offset = None THEN 0 ELSE q.offset

PageOk(q, most) == LimitOf(q) \in 1..most /\ OffsetOf(q) >= 0

(* slicePage, pageAny *)
SlicePage(items, limit, offset) ==
  IF offset >= Len(items) THEN <<>>
  ELSE SubSeq(items, offset + 1, IF offset + limit > Len(items) THEN Len(items) ELSE offset + limit)

-------------------------------------------------------------------------------
(* The elements of a list that are wanted, as a loop appends them. *)
Selected(list, Wanted(_)) ==
  LET Select(kept, x) == IF Wanted(x) THEN Append(kept, x) ELSE kept
  IN  FoldLeft(Select, <<>>, list)

(* overviewSection: a filter matches a row when it is in the row's key. *)
Matching(rows, filter) ==
  Selected(rows, LAMBDA row : filter = None \/ row.key = filter)

SectionLimit(section, limit) ==
  IF section = "locks" /\ limit > MaxSourceLimit THEN MaxSourceLimit ELSE limit

OverviewSection(result, q) ==
  LET items == Matching(result.rows[q.section], q.filter)
  IN  [items |-> SlicePage(items, SectionLimit(q.section, LimitOf(q)), OffsetOf(q)),
       total |-> Len(items)]

(* What the handlers that look into one result answer: a status and a body. *)
Reply(status, body) == [status |-> status, body |-> body]
Bare(status) == Reply(status, None)

OverviewReply(result, q) ==
  IF PageOk(q, MaxLimit) /\ q.section \in ApiSections
  THEN Reply(200, OverviewSection(result, q)) ELSE Bare(400)

RawEventReply(result, q) ==
  IF q.index + 1 \in DOMAIN result.rows["top_events"]
  THEN Reply(200, result.rows["top_events"][q.index + 1]) ELSE Bare(400)

TraceReply(result, q) ==
  LET traces == result.rows["traces"]
      first == SelectInSeq(traces, LAMBDA t : t.key = q.trace)
  IN  CASE q.trace = None -> Bare(400)
        [] q.trace # None /\ first = 0 -> Bare(404)
        [] q.trace # None /\ first > 0 -> Reply(200, traces[first])

Downloads == {"event_types.csv", "sql.csv", "traces.csv", "locks.csv", "scall.csv", "web.csv",
              "sessions.csv", "processes.csv", "licenses.csv", "filedb.csv", "error_contexts.csv",
              "run.json", "report.html"}

DownloadReply(result, q) ==
  IF q.name \in Downloads THEN Reply(200, q.name) ELSE Bare(404)

-------------------------------------------------------------------------------
(* sourceQuery.matches: a query has the values wanted of some dimensions;   *)
(* Unknown stands for a dimension the event leaves blank.                   *)
Unknown == <<0>>
Dimensions == {"Usr", "DataBase", "process", "Context"}

QueryMatches(query, e) ==
  /\ "event" \in DOMAIN query => e.name = query["event"]
  /\ \A d \in Dimensions \cap DOMAIN query :
       TextOf(e, d) = IF query[d] = Unknown THEN Blank ELSE query[d]
  /\ "contains" \in DOMAIN query =>
       \E d \in DOMAIN e.fields : query["contains"] \in ToSet(e.fields[d])

(* findSourceEvents: one page is filled and all matches are counted. *)
NoPage == [items |-> <<>>, total |-> 0]

FillEmptyPage(page, e, limit, offset) ==
  [items |-> IF Len(page.items) < limit THEN Append(page.items, e) ELSE page.items,
   total |-> page.total + 1]

FillPage(page, e, limit, offset) ==
  [items |-> IF page.total >= offset /\ Len(page.items) < limit
             THEN Append(page.items, e) ELSE page.items,
   total |-> page.total + 1]

FindInFile(page, file, q) ==
  LET AddEvent(p, e) == IF QueryMatches(q.query, e) THEN FillPage(p, e, LimitOf(q), OffsetOf(q)) ELSE p
  IN  FoldLeft(AddEvent, page, ParseFile(file).events)
===============================================================================
