------------------------------ MODULE OrderedScan ------------------------------
(***************************************************************************)
(* What an overview build promises about its input, however many files are *)
(* parsed at once: the analyzers see the event batches of the files one    *)
(* file after the other in discovery order, each batch once and in order,  *)
(* and a build that succeeds has seen all of them.  A cancelled build      *)
(* promises nothing about what it saw: its result is discarded.            *)
(***************************************************************************)
EXTENDS Integers, Sequences

CONSTANT NumFiles    \* files found by discovery, in its order

VARIABLES batches,   \* batches[f]: event batches in file f
          fed,       \* what the analyzers have seen: pairs <<file, batch>>
          phase      \* "scanning", "succeeded" or "aborted"

vars == <<batches, fed, phase>>

Files == 1..NumFiles

Init ==
  /\ batches \in [Files -> Nat]
  /\ fed = <<>>
  /\ phase = "scanning"

(* Nothing lies between the last batch seen and <<f, k>>. *)
IsNext(f, k) ==
  LET last == IF fed = <<>> THEN <<0, 0>> ELSE fed[Len(fed)] IN
  \/ /\ last[1] = f
     /\ k = last[2] + 1
  \/ /\ last[1] < f
     /\ k = 1
     /\ last[1] # 0 => last[2] = batches[last[1]]
     /\ \A g \in (last[1] + 1)..(f - 1) : batches[g] = 0

Feed(f, k) ==
  /\ phase = "scanning"
  /\ k \in 1..batches[f]
  /\ IsNext(f, k)
  /\ fed' = Append(fed, <<f, k>>)
  /\ UNCHANGED <<batches, phase>>

Succeed ==
  /\ phase = "scanning"
  /\ \A f \in Files : \A k \in 1..batches[f] : ~IsNext(f, k)
  /\ phase' = "succeeded"
  /\ UNCHANGED <<batches, fed>>

Abort ==
  /\ phase = "scanning"
  /\ phase' = "aborted"
  /\ fed' = <<>>
  /\ UNCHANGED batches

Next == (\E f \in Files : \E k \in 1..batches[f] : Feed(f, k)) \/ Succeed \/ Abort

Spec == Init /\ [][Next]_vars
===============================================================================
