----------------------------- MODULE MCWebPending -----------------------------
(* Web requests of one thread whose responses were not logged: one more than *)
(* the limit one would set, whatever it is.                                  *)
EXTENDS WebCorrelation

CONSTANT PendingLimit   \* a bound on the requests that wait on a lane

Request(x) ==
  [origin |-> 1, name |-> "VRSREQUEST", source |-> 1, at |-> x, micros |-> 0, raw |-> x,
   fields |-> [OSThread |-> "a", Method |-> "GET"], exchange |-> x, identity |-> [ClientID |-> x]]

Requests == {Request(x) : x \in 1..(PendingLimit + 1)}

MCSpec == WebInit /\ [][\E e \in WebEvents : MayCome(e) /\ WebConsume(e)]_webVars

-------------------------------------------------------------------------------
(* "Pending correlation state ... [is] bounded" (README.md), "web ...        *)
(* collectors use bounded retention" (docs/techlog-stat-v2.en.md): no lane   *)
(* keeps more than PendingLimit requests, however many come.                 *)
PendingBounded == \A l \in Lanes : Cardinality({r \in pending : Lane(r) = l}) <= PendingLimit
===============================================================================
