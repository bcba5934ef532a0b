--------------------------- MODULE OverviewCollector ---------------------------
(***************************************************************************)
(* The collector of internal/report/overview: one event at a time, in the  *)
(* order FilePipeline feeds them, goes through every analyzer within one   *)
(* call of add.  Here the analyzers that count (EventCounters) and the one *)
(* that pairs web requests (WebCorrelation); those that correlate sessions,*)
(* errors and traces have modules of their own, and add shares no state    *)
(* between analyzers.                                                      *)
(*                                                                         *)
(* What may be logged depends on the configuration of the log (logcfg.xml),*)
(* which does not change while a log is written.                           *)
(***************************************************************************)
EXTENDS EventCounters, WebCorrelation

CONSTANTS Configurations,  \* sets of events, each what one configuration logs
          MaxEvents        \* a bound on the length of the log

(* What is compared or added of an event is a number, and the function of an *)
(* SCOM event its operation and arguments, or nothing.                       *)
ASSUME EventAssumption ==
  \A configuration \in Configurations : \A e \in configuration :
    /\ e.micros \in Int /\ e.at \in Int /\ e.raw \in Int /\ e.origin \in Int
    /\ \A n \in (ScallNumbers \cup FileDBNumbers \cup ByteFields) \cap DOMAIN e.fields : e.fields[n] \in Int
    /\ e.name = "SCOM" /\ Has(e, "Func") => e.fields["Func"] \in Seq(STRING)

VARIABLE logged            \* the configuration

vars == <<counterVars, webVars, logged>>

Init == logged \in Configurations /\ CounterInit /\ WebInit

AddWebEvent ==
  \E e \in logged \cap WebEvents : MayCome(e) /\ CountEvent(e) /\ WebConsume(e)

AddOtherEvent ==
  \E e \in logged \ WebEvents : CountEvent(e) /\ WebIgnore

Next ==
  /\ Len(log) < MaxEvents
  /\ AddWebEvent \/ AddOtherEvent
  /\ UNCHANGED logged

Spec == Init /\ [][Next]_vars
===============================================================================
