-------------------------- MODULE MCTraceCorrelation --------------------------
(* TraceCorrelation on a small instance; the known values of the anchor are  *)
(* interchangeable.                                                          *)
EXTENDS TraceCorrelation

CONSTANTS l1, l2, v1, a1, a2

MCIdFields == {"CallID"}
MCAnchors == {a1, a2}
MCSymmetry == Permutations(MCAnchors)
===============================================================================
