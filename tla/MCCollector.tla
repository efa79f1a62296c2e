---------------------------- MODULE MCCollector ----------------------------
(* Small instances of Collector.                                           *)
EXTENDS Collector, TLC

CONSTANTS w1, w2

\* Workers are interchangeable.
Symmetry == Permutations(Workers)
=============================================================================
