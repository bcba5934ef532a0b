-------------------------------- MODULE LogFiles --------------------------------
(***************************************************************************)
(* Reading one hourly log file (internal/techlog) and deciding which of    *)
(* its events a report wants (internal/config).                            *)
(*                                                                         *)
(* A file has a path (its rank among all), the hour of its name (or None), *)
(* its physical lines, and breaks when reading ends with an error instead  *)
(* of the end of the file.  A line is the header of an event or holds more *)
(* words of text; a header names the field whose quoted value goes on in   *)
(* the lines below it (open), and mentions fields: somewhere in the text   *)
(* of the event, before any field of that name, stands what reads like one *)
(* and its value.  A text is a sequence of words, and a word a number.     *)
(***************************************************************************)
EXTENDS Integers, Sequences, FiniteSets, SequencesExt

CONSTANTS MinDuration,  \* Config.MinDurationMicros
          TimeRange,    \* Config.TimeRange: dateFrom, dateTo, timeFrom, timeTo
          Filters       \* Config.Filters: the value wanted of each field

None == -1
Blank == <<>>
DayMinutes == 1440

Header(name, minute, micros, fields, open) ==
  [header |-> TRUE, name |-> name, minute |-> minute, micros |-> micros,
   fields |-> fields, open |-> open, mentions |-> [f \in {} |-> Blank]]
Line(words) == [header |-> FALSE, words |-> words]

IsEventStart(line) == line.header

IsLine(line) ==
  /\ line.header \in BOOLEAN
  /\ line.header => /\ line.minute \in Int /\ line.micros \in Int
                    /\ \A f \in DOMAIN line.fields : line.fields[f] \in Seq(Int)
  /\ ~line.header => line.words \in Seq(Int)

IsFile(file) ==
  /\ file.path \in Int /\ file.hour \in Int /\ file.breaks \in BOOLEAN
  /\ file.lines \in Seq(ToSet(file.lines)) /\ \A line \in ToSet(file.lines) : IsLine(line)

(* parseEvent, parseTimestamp: the header has a name, a minute of the hour  *)
(* and a duration that is not negative.                                     *)
WellFormed(h) == h.name # "" /\ h.minute \in 0..59 /\ h.micros >= 0

(* parseEvent, parseFields: a well-formed header and the lines below it. *)
ParseEvent(lines, file) ==
  LET h == Head(lines)
      AddLine(text, line) == text \o line.words
  IN  [name |-> h.name, at |-> 60 * file.hour + h.minute, micros |-> h.micros, file |-> file.path,
       fields |-> IF h.open \in DOMAIN h.fields
                  THEN [h.fields EXCEPT ![h.open] = FoldLeft(AddLine, @, Tail(lines))]
                  ELSE h.fields,
       mentions |-> h.mentions]

-------------------------------------------------------------------------------
(* ParseContext: what was read, the events emitted and the lines of the     *)
(* event that is not finished.                                              *)
NothingRead == [read |-> 0, events |-> <<>>, malformed |-> 0, orphans |-> 0, current |-> <<>>]

Finish(p, file) ==
  CASE p.current = <<>> -> p
    [] p.current # <<>> /\ ~WellFormed(Head(p.current)) ->
         [p EXCEPT !.current = <<>>, !.malformed = @ + 1]
    [] p.current # <<>> /\ WellFormed(Head(p.current)) ->
         [p EXCEPT !.current = <<>>, !.events = Append(@, ParseEvent(p.current, file))]

ReadLine(p, line, file) ==
  LET q == [p EXCEPT !.read = @ + 1]
  IN  CASE IsEventStart(line) -> [Finish(q, file) EXCEPT !.current = <<line>>]
        [] ~IsEventStart(line) /\ q.current # <<>> -> [q EXCEPT !.current = Append(@, line)]
        [] ~IsEventStart(line) /\ q.current = <<>> ->
             [q EXCEPT !.orphans = @ + (IF line.words = Blank THEN 0 ELSE 1)]

(* ParseFile: nothing is read of a file whose name holds no hour; a read    *)
(* error leaves the current event unfinished.                               *)
Fails(file) == file.hour = None \/ file.breaks

ParseFile(file) ==
  LET AddLine(p, line) == ReadLine(p, line, file)
      read == FoldLeft(AddLine, NothingRead, file.lines)
  IN  CASE file.hour = None -> NothingRead
        [] file.hour # None /\ file.breaks -> read
        [] file.hour # None /\ ~file.breaks -> Finish(read, file)

-------------------------------------------------------------------------------
TextOf(e, field) == IF field \in DOMAIN e.fields THEN e.fields[field] ELSE Blank

(* The order of strings. *)
TextBefore(a, b) ==
  \E i \in 1..Len(b) :
    /\ i <= Len(a) + 1
    /\ SubSeq(a, 1, i - 1) = SubSeq(b, 1, i - 1)
    /\ i <= Len(a) => a[i] < b[i]

(* TimeRange.Match: days are inclusive; a range of the time of day may go   *)
(* over midnight.                                                           *)
InTimeOfDay(time) ==
  IF TimeRange.timeFrom # None /\ TimeRange.timeTo # None /\ TimeRange.timeFrom > TimeRange.timeTo
  THEN time <= TimeRange.timeTo \/ time >= TimeRange.timeFrom
  ELSE /\ TimeRange.timeFrom # None => time >= TimeRange.timeFrom
       /\ TimeRange.timeTo # None => time <= TimeRange.timeTo

InRange(at) ==
  LET day == at \div DayMinutes
  IN  /\ TimeRange.dateFrom # None => day >= TimeRange.dateFrom
      /\ TimeRange.dateTo # None => day <= TimeRange.dateTo
      /\ InTimeOfDay(at % DayMinutes)

(* ExtractFieldValue takes what reads like the field first in the raw text. *)
FoundIn(e) == e.mentions @@ e.fields

MatchAllFilters(e) ==
  \A f \in DOMAIN Filters : f \in DOMAIN FoundIn(e) /\ FoundIn(e)[f] = Filters[f]

(* matchesEvent and matchesEventFilters of the reports. *)
Matches(e) == e.micros >= MinDuration /\ InRange(e.at) /\ MatchAllFilters(e)
===============================================================================
