------------------------------- MODULE LogEvents -------------------------------
(***************************************************************************)
(* A parsed event of the technological log, as the analyzers read it, and  *)
(* the orders in which they keep samples.  An event has a name, a timestamp*)
(* (at), a duration (micros), the rank of its file and name among all      *)
(* (origin), the rank of its text (raw) and the fields that are not blank. *)
(* A numeric field holds Malformed when it is not a number the analyzer    *)
(* accepts.                                                                *)
(***************************************************************************)
EXTENDS Rankings

Malformed == -1

Has(e, field) == field \in DOMAIN e.fields
TextOr(e, field, default) == IF Has(e, field) THEN e.fields[field] ELSE default
NamesIn(e, field) == IF Has(e, field) THEN e.fields[field] ELSE {}
NumberOk(e, field) == Has(e, field) /\ e.fields[field] # Malformed
Blank(e, fields) == {f \in fields : ~Has(e, f)}
Bad(e, fields) == {f \in fields : Has(e, f) /\ e.fields[f] = Malformed}

When(condition, set) == IF condition THEN set ELSE {}

(* Slow samples: the longest first, then the earliest, then by their text;  *)
(* error samples: the earliest first.                                       *)
SlowLess(a, b) ==
  \/ a.micros > b.micros
  \/ a.micros = b.micros /\ a.at < b.at
  \/ a.micros = b.micros /\ a.at = b.at /\ a.raw < b.raw

ErrorLess(a, b) == a.at < b.at \/ (a.at = b.at /\ a.raw < b.raw)

(* collectSample, addSlow, addError: append, sort, cut. *)
KeepSlowUnsorted(list, e, limit) == Cut(Append(list, e), limit)
KeepSlow(list, e, limit) == Cut(StableSort(Append(list, e), SlowLess), limit)
KeepError(list, e, limit) == Cut(StableSort(Append(list, e), ErrorLess), limit)
===============================================================================
