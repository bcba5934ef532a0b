----------------------------- MODULE SessionStats -----------------------------
(***************************************************************************)
(* The session collector of internal/analysis/sessionstats: it pairs the   *)
(* start and finish records of SESN and CONN by identity, keeps one open   *)
(* session per identity, and derives from the recorded changes a timeline  *)
(* of how many sessions were active and its peak.                          *)
(*                                                                         *)
(* An identity (event name and id) is a member of Keys; timestamps need    *)
(* not increase, because the files of a build are consumed one after the   *)
(* other.  The texts and dimensions of sessions are left out.              *)
(***************************************************************************)
EXTENDS Rankings

CONSTANTS Keys,          \* identities of sessions, ordered as numbers
          SessionLimit,  \* Options.SessionLimit
          SampleLimit,   \* Options.SampleLimit
          MaxTime,       \* bound of the model: latest timestamp
          MaxEvents      \* bound of the model: lifecycle events consumed

ASSUME SessionAssumption ==
  /\ Keys \subseteq Nat /\ IsFiniteSet(Keys)
  /\ SessionLimit \in Nat \ {0}
  /\ SampleLimit \in Nat \ {0}
  /\ MaxTime \in Nat
  /\ MaxEvents \in Nat

VARIABLES
  open,      \* Collector.open: the start of each open session, or Closed
  changes,   \* Collector.changes, in the order they were recorded
  completed, \* len(Collector.completed)
  unclosed,  \* len(Collector.unclosed)
  orphans,   \* len(Collector.orphans)
  quality    \* Collector.quality

vars == <<open, changes, completed, unclosed, orphans, quality>>

Times == 0..MaxTime
Closed == -1
OpenKeys == {k \in Keys : open[k] # Closed}

Counters == {"LifecycleEvents", "StartEvents", "FinishEvents", "MissingID", "UnmatchedFinishes",
             "ReplacedOpenSessions", "CompletedSessions", "DiscardedSessions", "DiscardedSamples"}

TypeOK ==
  /\ open \in [Keys -> Times \cup {Closed}]
  /\ changes \in Seq([at : Times, delta : {-1, 1}, key : Keys])
  /\ completed \in 0..SessionLimit
  /\ unclosed \in 0..SampleLimit
  /\ orphans \in 0..SampleLimit
  /\ quality \in [Counters -> Nat]

Init ==
  /\ open = [k \in Keys |-> Closed]
  /\ changes = <<>>
  /\ completed = 0
  /\ unclosed = 0
  /\ orphans = 0
  /\ quality = [c \in Counters |-> 0]

-------------------------------------------------------------------------------
Count(counters) == quality' = [c \in Counters |->
                                 IF c \in counters THEN quality[c] + 1 ELSE quality[c]]

Change(at, delta, key) == [at |-> at, delta |-> delta, key |-> key]

(* A sorted list of records that is full drops one for each it takes. *)
More(retained, limit) == IF retained = limit THEN retained ELSE retained + 1

DroppedForgotten(retained, limit, counter) == {}
Dropped(retained, limit, counter) == IF retained = limit THEN {counter} ELSE {}

-------------------------------------------------------------------------------
(* Consume of a lifecycle record without an identity. *)
NoIdentity ==
  /\ Count({"LifecycleEvents", "MissingID"})
  /\ UNCHANGED <<open, changes, completed, unclosed, orphans>>

Start(key, at) ==
  /\ open[key] = Closed
  /\ open' = [open EXCEPT ![key] = at]
  /\ changes' = Append(changes, Change(at, 1, key))
  /\ Count({"LifecycleEvents", "StartEvents"})
  /\ UNCHANGED <<completed, unclosed, orphans>>

(* A second start: the open session ends unclosed where the new one begins. *)
Replace(key, at) ==
  /\ open[key] # Closed
  /\ open' = [open EXCEPT ![key] = at]
  /\ unclosed' = More(unclosed, SampleLimit)
  /\ changes' = changes \o <<Change(at, -1, key), Change(at, 1, key)>>
  /\ Count({"LifecycleEvents", "StartEvents", "ReplacedOpenSessions"}
             \cup Dropped(unclosed, SampleLimit, "DiscardedSamples"))
  /\ UNCHANGED <<completed, orphans>>

MayPair(key, at) == open[key] # Closed /\ at >= open[key]

Finish(key, at) ==
  /\ MayPair(key, at)
  /\ open' = [open EXCEPT ![key] = Closed]
  /\ completed' = More(completed, SessionLimit)
  /\ changes' = Append(changes, Change(at, -1, key))
  /\ Count({"LifecycleEvents", "FinishEvents", "CompletedSessions"}
             \cup Dropped(completed, SessionLimit, "DiscardedSessions"))
  /\ UNCHANGED <<unclosed, orphans>>

(* A finish without an open session, or before it began. *)
OrphanFinish(key, at) ==
  /\ ~MayPair(key, at)
  /\ orphans' = More(orphans, SampleLimit)
  /\ Count({"LifecycleEvents", "FinishEvents", "UnmatchedFinishes"}
             \cup Dropped(orphans, SampleLimit, "DiscardedSamples"))
  /\ UNCHANGED <<open, changes, completed, unclosed>>

Consume ==
  \/ NoIdentity
  \/ \E key \in Keys, at \in Times :
       Start(key, at) \/ Replace(key, at) \/ Finish(key, at) \/ OrphanFinish(key, at)

Next == quality["LifecycleEvents"] < MaxEvents /\ Consume

Spec == Init /\ [][Next]_vars

-------------------------------------------------------------------------------
(* timeline: changes sorted by time, closes before opens, then counted.     *)

BeforeOpensFirst(c, d) ==
  \/ c.at < d.at
  \/ c.at = d.at /\ c.delta > d.delta
  \/ c.at = d.at /\ c.delta = d.delta /\ c.key < d.key

Before(c, d) ==
  \/ c.at < d.at
  \/ c.at = d.at /\ c.delta < d.delta
  \/ c.at = d.at /\ c.delta = d.delta /\ c.key < d.key

(* Changes that compare equal are the same, so that the order sort.Slice     *)
(* gives them makes no difference.                                           *)
Sorted == StableSort(changes, Before)

(* The running count never shows less than zero. *)
Step(active, change) == IF active + change.delta < 0 THEN 0 ELSE active + change.delta

Running(sorted) ==
  LET active[i \in 0..Len(sorted)] == IF i = 0 THEN 0 ELSE Step(active[i - 1], sorted[i])
  IN  active

Timeline ==
  LET sorted == Sorted
      active == Running(sorted)
  IN  [i \in 1..Len(sorted) |-> [at |-> sorted[i].at, active |-> active[i]]]

Peak ==
  LET timeline == Timeline
  IN  Max({0} \cup {timeline[i].active : i \in 1..Len(timeline)})

-------------------------------------------------------------------------------
(* Starts and finishes balance: every start is completed, replaced or still *)
(* open, every finish completes a session or is unmatched, and what the     *)
(* bounded lists do not show of them is counted as discarded.               *)
Balanced ==
  /\ quality["LifecycleEvents"]
       = quality["MissingID"] + quality["StartEvents"] + quality["FinishEvents"]
  /\ quality["StartEvents"] = quality["CompletedSessions"] + quality["ReplacedOpenSessions"]
                              + Cardinality(OpenKeys)
  /\ quality["FinishEvents"] = quality["CompletedSessions"] + quality["UnmatchedFinishes"]
  /\ quality["CompletedSessions"] = completed + quality["DiscardedSessions"]
  /\ quality["ReplacedOpenSessions"] + quality["UnmatchedFinishes"]
       = unclosed + orphans + quality["DiscardedSamples"]

(* The sessions the input describes: an opening change, up to the next      *)
(* change of its identity.                                                  *)
Opened == {i \in 1..Len(changes) : changes[i].delta = 1}
EndOf(i) == {j \in (i + 1)..Len(changes) :
               /\ changes[j].key = changes[i].key
               /\ \A k \in (i + 1)..(j - 1) : changes[k].key # changes[i].key}
ActiveAt(t) == {i \in Opened : changes[i].at <= t /\ \A j \in EndOf(i) : changes[j].at > t}

(* Every session lasts: it ends after it began. *)
SessionsLast == \A i \in Opened : \A j \in EndOf(i) : changes[j].at > changes[i].at

(* When every session lasts, the last point of each timestamp counts the    *)
(* sessions active at it and the peak is the most that ever were, although  *)
(* the changes were recorded out of order and the count is clamped.         *)
TimelineExact ==
  SessionsLast =>
    LET timeline == Timeline
        LastOf(i) == i = Len(timeline) \/ timeline[i + 1].at > timeline[i].at
    IN  /\ \A i \in 1..Len(timeline) :
             LastOf(i) => timeline[i].active = Cardinality(ActiveAt(timeline[i].at))
        /\ Peak = Max({Cardinality(ActiveAt(t)) : t \in Times})

(* Equal timestamps apply closes before opens, preventing artificial peaks  *)
(* while an identity is replaced (the doc of Result): an identity has one   *)
(* session at a time, so there are never more active than identities.       *)
NoArtificialPeak == Peak <= Cardinality({changes[i].key : i \in 1..Len(changes)})
===============================================================================
