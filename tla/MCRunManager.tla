----------------------------- MODULE MCRunManager -----------------------------
(* RunManager on a small instance: one handler goroutine beside the one that *)
(* shuts down, so two goroutines hold copied cancel functions at once, and   *)
(* three accepted runs, so that retention fills, evicts and is used again.   *)
EXTENDS RunManager

CONSTANT c1

MCClients == {c1}
===============================================================================
