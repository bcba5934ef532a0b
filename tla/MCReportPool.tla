------------------------------ MODULE MCReportPool ------------------------------
(* Three files of two processes around midnight, and what can be wrong in    *)
(* them: malformed headers, orphan lines, a name without an hour, a reading  *)
(* that breaks.  Two workers; one filter, a minimal duration of 2 and a time *)
(* of day from 23:00 to 00:30, in a zone half an hour off.                   *)
EXTENDS ReportPool

CONSTANTS w1, w2

Hour23 == 23
Hour24 == 24

A == <<1>>
B == <<2>>
Named(thread, more) == [OSThread |-> thread, Usr |-> A] @@ more
Ctx(text) == [Context |-> text]

File(path, hour, breaks, list) == [path |-> path, hour |-> hour, breaks |-> breaks, lines |-> list]

Call(minute, micros, thread) == Header("CALL", minute, micros, Named(thread, <<>>), "")
Context(minute, thread, text) == Header("Context", minute, 0, Named(thread, Ctx(text)), "Context")
Foreign(minute, micros, thread) == Header("CALL", minute, micros, [OSThread |-> thread, Usr |-> B], "")
Mentioning(h, user) == [h EXCEPT !.mentions = [Usr |-> user]]

Calls1 ==
  <<Line(A), Call(1, 3, A), Call(2, 5, B), Context(2, A, A), Line(B), Foreign(3, 9, B),
    Context(4, B, Blank), Context(5, B, A), Context(6, B, B), Call(7, 4, A)>>
Calls2 ==
  <<Context(1, A, A), Call(1, 3, A), Call(1, 1, A), Call(1, 3, Blank), Context(2, A, A), Line(B),
    Mentioning(Foreign(25, 8, B), A), Context(32, B, A)>>
Calls3 == <<Call(1, 3, A), Context(3, A, B), Call(60, 7, A), Context(4, A, A)>>

Own(name, minute, micros, text) == Header(name, minute, micros, Named(A, Ctx(text)), "Context")

Locks1 ==
  <<Own("TLOCK", 1, 3, A), Own("TTIMEOUT", 2, 3, Blank), Line(B), Line(Blank), Line(A),
    Own("TDEADLOCK", 59, 4, A), Own("TLOCK", 5, 1, A)>>
Locks2 == <<Own("TLOCK", 1, 3, A), Own("", 2, 6, B), Own("TTIMEOUT", 1, 5, B),
    Mentioning(Own("TTIMEOUT", 2, 5, A), B), Own("TTIMEOUT", 3, 5, B)>>
Locks3 == <<Own("TDEADLOCK", 1, 3, B), Own("TLOCK", 9, 2, A)>>

Fault(name, minute, micros, field, text) ==
  Header(name, minute, micros, Named(A, [f \in {field} |-> text]), field)

Errors1 ==
  <<Fault("EXCP", 1, 2, "Descr", <<7, 1>>), Fault("QERR", 2, 3, "Description", A), Line(<<8>>),
    Fault("EXCP", 3, -1, "Descr", A), Fault("EXCP", 4, 3, "Descr", Blank)>>
Errors2 ==
  <<Fault("EXCP", 1, 2, "Descr", <<8, 1>>), Fault("EXCP", 5, 2, "Descr", <<1, 7>>),
    Fault("QERR", 1, 2, "Descr", <<1, 8>>)>>

CallFiles ==
  {<<File(1, Hour23, FALSE, Calls1), File(2, Hour24, FALSE, Calls2), File(3, Hour23, TRUE, Calls3)>>,
   <<File(1, Hour23, TRUE, Calls1), File(2, None, FALSE, Calls2), File(3, Hour24, FALSE, Calls3)>>}
LockFiles ==
  {<<File(1, Hour23, FALSE, Locks1), File(2, Hour23, FALSE, Locks2), File(3, Hour24, FALSE, Locks3)>>}
ErrorFiles ==
  {<<File(1, Hour23, FALSE, Errors1), File(2, None, FALSE, Errors2), File(3, Hour23, FALSE, Errors2)>>}

MCInputs ==
  {<<"call", <<>>>>} \cup ({"call"} \X CallFiles) \cup ({"lock", "timeout"} \X LockFiles)
    \cup ({"error"} \X ErrorFiles)

MCTimeRange == [dateFrom |-> 0, dateTo |-> 1, timeFrom |-> 23 * 60, timeTo |-> 30]
MCFilters == [Usr |-> A]
MCPlaceholder == (7 :> 0) @@ (8 :> 0)
===============================================================================
