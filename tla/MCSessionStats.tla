---------------------------- MODULE MCSessionStats ----------------------------
(* SessionStats on a small instance.  The ordered specification restricts    *)
(* the input to one whose timestamps never go back, as within one log file.  *)
EXTENDS SessionStats

InOrder == \A i \in 1..Len(changes), j \in 1..Len(changes') :
             j > Len(changes) => changes'[j].at >= changes[i].at

OrderedSpec == Init /\ [][Next /\ InOrder]_vars
===============================================================================
