----------------------------- MODULE MCScanRun -----------------------------
(* Small instances of ScanRun.                                             *)
EXTENDS ScanRun

CONSTANTS w1, w2

OneWorker == {w1}
TwoWorkers == {w1, w2}

NoFault == {}
Killed == {"kill"}
Anything == FaultKinds

NoneStraddle == {}
LastStraddles == {N - 1}

Whole == [work |-> Positions, resume |-> FALSE, boxed |-> FALSE]
Resumed == [Whole EXCEPT !.resume = TRUE]
Sampled == [Resumed EXCEPT !.work = Positions \ {1}]
BoxedResumed == [Resumed EXCEPT !.boxed = TRUE]

\* A first pass, an interrupted sample, a resumed and a time-boxed pass.
AnyCommand == {Whole, Sampled, BoxedResumed}

PlainAndResumed == {Whole, Resumed}
=============================================================================
