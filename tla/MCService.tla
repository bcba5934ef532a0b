-------------------------------- MODULE MCService --------------------------------
(* Two connections, one for what takes several steps (comparisons and source *)
(* events), one for the rest; three runs of which two are retained and one   *)
(* runs at a time; both log files of one run grow, those of another can no    *)
(* longer be read.                                                           *)
EXTENDS Service

CONSTANTS slow, quick

Row(key, count, total, p95) == [key |-> key, count |-> count, total |-> total, p95 |-> p95]

OverviewOf(totals, rows) ==
  [totals |-> totals,
   rows |-> [s \in Sections \cup ApiSections |-> IF s \in DOMAIN rows THEN rows[s] ELSE <<>>]]

Groups1 == <<Row(1, 4, 9, 9), Row(2, 1, 9, 9), Row(3, 2, 5, 5)>>
Groups2 == <<Row(1, 9, 1, 1), Row(2, 1, 1, 1), Row(4, 2, 5, 5)>>

Timed1 ==
  <<Row(1, 2, 100, 60), Row(2, 2, 100, 60), Row(3, 2, 100, 60), Row(4, 2, 100, 60), Row(5, 2, 100, 60),
    Row(6, 1, 0, 0), Row(7, 3, 40, 20), Row(8, 0, 0, 0), Row(10, 2, 100, 60),
    Row(11, 2, 129, 60)>>
Timed2 ==
  <<Row(1, 2, 105, 60), Row(2, 2, 104, 60), Row(3, 2, 95, 63), Row(4, 2, 20, 10), Row(5, 9, 100, 60),
    Row(6, 1, 3, 3), Row(9, 1, 7, 7), Row(8, 1, 0, 0), Row(10, 2, 110, 20),
    Row(11, 2, 100, 60)>>

(* The hundredths that a float64 percentage falls short of: 29 / 100 * 100 is *)
(* 28.999999999999996.                                                       *)
MCRoundedDown == {<<29, 100>>, <<57, 100>>, <<58, 100>>}

Locks1 == <<Row(1, 1, 1, 1), Row(2, 1, 1, 1), Row(1, 1, 2, 2), Row(3, 1, 1, 1)>>

MCResults ==
  [id \in 1..3 |->
     IF id = 2
     THEN OverviewOf(Aggregate(9, 400, 60),
            [event_types |-> Timed2, error_context_groups |-> Groups2, session_by_event |-> Timed2,
             sql_rows |-> <<>>, locks |-> Locks1, top_events |-> Timed2])
     ELSE OverviewOf(Aggregate(9, 410, 50),
            [event_types |-> Timed1, error_context_groups |-> Groups1, session_by_event |-> Timed1,
             sql_rows |-> <<Row(1, 1, 1, 1)>>, locks |-> Locks1, traces |-> Locks1])]

A == <<1>>
B == <<2>>
Event(name, minute, fields) == Header(name, minute, 1, fields, "Context")
File(path, breaks, list) == [path |-> path, hour |-> 10, breaks |-> breaks, lines |-> list]

First == <<Event("SDBL", 1, [Usr |-> A, Context |-> <<1>>]), Line(B),
           Event("CALL", 2, [Usr |-> A]), Event("SDBL", 3, [Usr |-> A])>>
Second == <<Event("SDBL", 1, [DataBase |-> B]), Event("SDBL", 2, [Usr |-> A, DataBase |-> B])>>
FirstGrown == Append(First, Event("SDBL", 8, [Usr |-> A]))
Grown == Append(Second, Event("SDBL", 9, [Usr |-> A, DataBase |-> A]))

MCDisk ==
  <<<<<<File(1, FALSE, First), File(2, FALSE, Second)>>, <<File(1, FALSE, First)>>, <<>>>>,
    <<<<File(1, FALSE, FirstGrown), File(2, FALSE, Grown)>>, <<File(1, TRUE, <<>>)>>, <<>>>>>>

Ask(method, path, more) == [method |-> method, path |-> path, sameOrigin |-> TRUE] @@ more
OfRun(method, path, id) == Ask(method, <<"runs", "id">> \o path, [id |-> id])

Comparisons ==
  {Ask("POST", <<"report", "compare">>,
       [json |-> o[5], baseline |-> o[1], current |-> o[2], percent |-> o[3], minAbsolute |-> o[4]]) :
     o \in {<<1, 2, 0, 0, "valid">>, <<2, 1, 29, 6, "valid">>, <<2, 3, -1, 0, "valid">>,
            <<None, 1, 5, 0, "valid">>, <<2, 1, 0, 0, "followed">>}}

Sources ==
  {OfRun("GET", <<"report", "source-events">>, 1)
     @@ [limit |-> p[1], offset |-> p[2], query |-> p[3]] :
     p \in {<<None, 1, [event |-> "SDBL", Usr |-> A]>>, <<1, None, [DataBase |-> Unknown, contains |-> 1]>>}}
  \cup {OfRun("GET", <<"report", "source-events">>, 2)
          @@ [limit |-> 2, offset |-> 1, query |-> [event |-> "SDBL"]]}

Shown ==
  {OfRun("GET", <<"report", "overview">>, 1)
     @@ [limit |-> p[1], offset |-> p[2], filter |-> p[3], section |-> p[4]] :
     p \in {<<3, 1, None, "event_types">>, <<3, 0, None, "locks">>, <<4, 0, None, "locks">>, <<None, 0, 1, "locks">>}}
  \cup {OfRun("GET", <<"report", "raw-event">>, 2) @@ [index |-> 7]}
  \cup {OfRun("GET", <<"report", "trace">>, 1) @@ [trace |-> 3]}
  \cup {OfRun("GET", <<"downloads", "name">>, 1) @@ [name |-> n] : n \in {"run.json", "other.txt"}}

Misdirected ==
  {Ask("GET", <<"health">>, [all |-> TRUE]), Ask("PUT", <<"runs">>, [all |-> TRUE]),
   [Ask("GET", <<"other">>, [all |-> TRUE]) EXCEPT !.sameOrigin = FALSE],
   Ask("GET", <<"other">>, [all |-> TRUE]), OfRun("GET", <<>>, 1), OfRun("POST", <<"cancel">>, 2),
   Ask("POST", <<"runs">>, [json |-> "invalid"]),
   Ask("GET", <<"runs">>, [all |-> TRUE])}

Changing ==
  {Ask("POST", <<"runs">>, [json |-> b]) : b \in {"valid", "followed"}}
  \cup {OfRun("POST", <<"delete">>, 1)}

MCAsks == (slow :> (Comparisons \cup Sources \cup Shown \cup Misdirected)) @@ (quick :> Changing)
MCTimeRange == [dateFrom |-> None, dateTo |-> None, timeFrom |-> None, timeTo |-> None]
MCFilters == <<>>
===============================================================================
