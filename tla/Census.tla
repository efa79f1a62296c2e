------------------------------- MODULE Census -------------------------------
(***************************************************************************)
(* What internal/scan and internal/sink promise together, with no feeder,  *)
(* channel or worker in sight: a session settles positions one at a time   *)
(* and each at most once, a resuming session never settles a position that *)
(* already has an entry, and a crash can only damage what the crashed      *)
(* session had settled.                                                    *)
(***************************************************************************)
CONSTANTS Positions, Verdicts, Empty, Damaged

VARIABLES open, resuming, settled, entry

vars == <<open, resuming, settled, entry>>

Init ==
    /\ open = FALSE
    /\ resuming \in BOOLEAN
    /\ settled = {}
    /\ entry = [p \in Positions |-> Empty]

OpenSession ==
    /\ ~open
    /\ open' = TRUE
    /\ resuming' \in BOOLEAN
    /\ settled' = {}
    /\ UNCHANGED entry

Settle(p) ==
    /\ open
    /\ p \notin settled
    /\ resuming => entry[p] = Empty
    /\ \E v \in Verdicts : entry' = [entry EXCEPT ![p] = v]
    /\ settled' = settled \cup {p}
    /\ UNCHANGED <<open, resuming>>

CloseSession ==
    /\ open
    /\ open' = FALSE
    /\ UNCHANGED <<resuming, settled, entry>>

\* The process dies: any of the session's own entries may be torn.
Crash ==
    /\ open
    /\ open' = FALSE
    /\ settled' = {}
    /\ \E D \in SUBSET settled :
          entry' = [p \in Positions |-> IF p \in D THEN Damaged ELSE entry[p]]
    /\ UNCHANGED resuming

Next == OpenSession \/ (\E p \in Positions : Settle(p)) \/ CloseSession \/ Crash

Spec == Init /\ [][Next]_vars
=============================================================================
