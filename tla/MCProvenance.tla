---------------------------- MODULE MCProvenance ----------------------------
(* Small instances of Provenance.                                          *)
EXTENDS Provenance, TLC

CONSTANTS a, b, p1, p2

\* Two days' lists of one length, the names having changed places.  Torn ones
\* may be shorter.
Days == {<<a, b>>, <<b, a>>}

One == {p1}
Two == {p1, p2}

\* A process is known by nothing but its state, and the lists stay what they are
\* when the names change places.
Symmetry == Permutations(Two) \cup Permutations({a, b})
=============================================================================
