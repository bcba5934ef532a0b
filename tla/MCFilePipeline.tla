---------------------------- MODULE MCFilePipeline ----------------------------
(* FilePipeline over three files and two workers: the third file is started  *)
(* by the consumer.  Every file but the last has up to two event batches, so *)
(* a goroutine can hold one while its channel holds another; failures are    *)
(* absent, in the middle, or on both sides of a good file.                   *)
EXTENDS FilePipeline

MCInit ==
  /\ Init
  /\ batches[NumFiles] <= 1
  /\ bad \in {{}, {2}, {1, 3}}

MCSpec == MCInit /\ [][Next]_vars /\ Fairness
===============================================================================
