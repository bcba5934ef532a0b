---------------------------- MODULE MCErrorContext ----------------------------
(* ErrorContext on a small instance; the values of the fields are            *)
(* interchangeable.  The ordered specification restricts the input to one    *)
(* whose timestamps never go back, as within one log file.                   *)
EXTENDS ErrorContext

CONSTANTS p1, p2, a1, a2

MCProcesses == {p1, p2}
MCAnchors == {a1, a2}
MCSymmetry == Permutations(MCProcesses) \cup Permutations(MCAnchors)

(* The next event is not earlier than any record still held. *)
InOrder ==
  event' # event /\ stage = "idle" =>
    /\ \A i \in 1..Len(errors) :
         /\ event'.at >= errors[i].at
         /\ \A c \in errors[i].joined : event'.at >= c.at
    /\ \A i \in 1..Len(pending) : event'.at >= pending[i].at

OrderedSpec == Init /\ [][Next /\ InOrder]_vars
===============================================================================
