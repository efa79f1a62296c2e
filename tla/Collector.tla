----------------------------- MODULE Collector -----------------------------
(***************************************************************************)
(* internal/metrics: the counters the workers of a scan update while the   *)
(* progress line, the time box and the run metadata read them.             *)
(*                                                                         *)
(* Every counter is an atomic of its own, so Observe and Snapshot are      *)
(* sequences of steps; only the stall map is under a lock.  A probe is     *)
(* what becomes of it (a finding, a stall, an abort) and the latency       *)
(* bucket it falls into; rates, means, the histograms of outcomes and      *)
(* the number of skips are left out.                                       *)
(***************************************************************************)
EXTENDS Naturals, FiniteSets

CONSTANTS
    Workers,    \* the goroutines that probe
    Probes,     \* bound: probes each worker makes
    NBuckets,   \* the buckets of the histogram are 0 .. NBuckets-1
    Snapshots   \* bound: snapshots taken

ASSUME WorkersAssumption == IsFiniteSet(Workers) /\ Workers # {}
ASSUME BoundsAssumption == {Probes, Snapshots} \subseteq Nat
ASSUME NBucketsAssumption == NBuckets \in Nat \ {0}

Buckets == 0 .. NBuckets - 1
Kinds == {"finding", "stall", "abort"}

VARIABLES
    worker,     \* where each worker is in its current probe
    count,      \* the counters
    buckets,    \* hist.buckets
    reader,     \* where the snapshot being taken is
    snap        \* what it has read so far

vars == <<worker, count, buckets, reader, snap>>

Zero == [inFlight |-> 0, completed |-> 0, aborted |-> 0, conclusive |-> 0,
         hist |-> 0, stalls |-> 0]

NoSnapshot == [completed |-> 0, conclusive |-> 0, stalls |-> 0, inFlight |-> 0,
               target |-> 0, cum |-> 0, next |-> 0,     \* the locals of Quantile
               p |-> NBuckets,      \* the bucket Quantile answered with
               final |-> FALSE]     \* history: every worker had left by its start

\* Between two probes, with so many left.
Idle(left) == [at |-> "idle", kind |-> "finding", bucket |-> 0, left |-> left]

Init ==
    /\ worker = [w \in Workers |-> Idle(Probes)]
    /\ count = Zero
    /\ buckets = [b \in Buckets |-> 0]
    /\ reader = [at |-> "idle", left |-> Snapshots]
    /\ snap = NoSnapshot

-----------------------------------------------------------------------------
(* One probe of a worker: Begin, done, then the steps of Observe.          *)

Moves(w, from, to) ==
    /\ worker[w].at = from
    /\ worker' = [worker EXCEPT ![w].at = to]
    /\ UNCHANGED <<reader, snap>>

Add(counter) ==
    /\ count' = [count EXCEPT ![counter] = @ + 1]
    /\ UNCHANGED buckets

\* Buckets are octaves; whatever lies past the last one counts as the last.
BucketOf(octave) == IF octave >= NBuckets THEN NBuckets - 1 ELSE octave

Begin(w) ==
    /\ worker[w].at = "idle" /\ worker[w].left > 0
    /\ \E k \in Kinds, o \in 0 .. NBuckets :
          worker' = [worker EXCEPT ![w] =
                        [at |-> "probing", kind |-> k, bucket |-> BucketOf(o),
                         left |-> @.left - 1]]
    /\ Add("inFlight")
    /\ UNCHANGED <<reader, snap>>

\* A plausible mistake, no part of the model: the gauge lowered where it is
\* counted again.
EndTwice(w) ==
    /\ Moves(w, "probing", "ended")
    /\ count' = [count EXCEPT !.inFlight = IF @ > 1 THEN @ - 2 ELSE 0]
    /\ UNCHANGED buckets

\* The gauge goes down before the probe is counted.
End(w) ==
    /\ Moves(w, "probing", "ended")
    /\ count' = [count EXCEPT !.inFlight = @ - 1]
    /\ UNCHANGED buckets

Complete(w) == Moves(w, "ended", "completed") /\ Add("completed")

Abort(w) ==
    /\ Moves(w, "completed", "aborted")
    /\ IF worker[w].kind = "abort" THEN Add("aborted") ELSE UNCHANGED <<count, buckets>>

Conclude(w) ==
    /\ Moves(w, "aborted", "concluded")
    /\ IF worker[w].kind = "finding" THEN Add("conclusive")
                                     ELSE UNCHANGED <<count, buckets>>

\* hist.count, then the bucket.
Tally(w) == Moves(w, "concluded", "tallied") /\ Add("hist")

Drop(w) ==
    /\ Moves(w, "tallied", "dropped")
    /\ buckets' = [buckets EXCEPT ![worker[w].bucket] = @ + 1]
    /\ UNCHANGED count

Returns(w) ==
    /\ worker[w].at = "dropped"
    /\ worker' = [worker EXCEPT ![w] = Idle(@.left)]
    /\ UNCHANGED <<reader, snap>>

\* A plausible mistake, no part of the model: an aborted probe that is no stall.
StallUnlessAborted(w) ==
    /\ Returns(w)
    /\ IF worker[w].kind = "stall" THEN Add("stalls") ELSE UNCHANGED <<count, buckets>>

\* Whatever is not conclusive has a stall label (Record, Stall).
Stalled(w) ==
    /\ Returns(w)
    /\ IF worker[w].kind # "finding" THEN Add("stalls") ELSE UNCHANGED <<count, buckets>>

Observe(w) == Complete(w) \/ Abort(w) \/ Conclude(w) \/ Tally(w) \/ Drop(w) \/ Stalled(w)

-----------------------------------------------------------------------------
(* Snapshot.                                                               *)

Reads(from, to, s) ==
    /\ reader.at = from
    /\ reader' = [reader EXCEPT !.at = to]
    /\ snap' = s
    /\ UNCHANGED <<worker, count, buckets>>

\* A worker between done() and the end of Observe is counting.
Quiet == \A w \in Workers : worker[w].at \in {"idle", "probing"}

\* The scan is over: the snapshot for the run's metadata.
Final == \A w \in Workers : worker[w].at = "idle" /\ worker[w].left = 0

OpenSnapshot ==
    /\ reader.left > 0
    /\ reader.at = "idle"
    /\ reader' = [at |-> "conclusive", left |-> reader.left - 1]
    /\ snap' = [NoSnapshot EXCEPT !.completed = count.completed, !.final = Final]
    /\ UNCHANGED <<worker, count, buckets>>

ReadConclusive ==
    Reads("conclusive", "stalls", [snap EXCEPT !.conclusive = count.conclusive])

ReadStalls == Reads("stalls", "inFlight", [snap EXCEPT !.stalls = count.stalls])

ReadInFlight == Reads("inFlight", "total", [snap EXCEPT !.inFlight = count.inFlight])

\* Quantile: of q * total, rounded up, all that matters is that it is between 1
\* and the total (0 < q < 1).  It returns early when the histogram is empty.
ReadTotal ==
    \/ /\ count.hist = 0
       /\ Reads("total", "idle", snap)
    \/ \E target \in 1 .. count.hist :
          Reads("total", "buckets", [snap EXCEPT !.target = target])

\* The answer, and the end of Quantile's locals.
Answer(p) ==
    Reads("buckets", "idle", [snap EXCEPT !.target = 0, !.cum = 0, !.next = 0, !.p = p])

\* One bucket of the sweep, with so many probes up to it; past the last one,
\* Quantile answers with its bound.
Sweep(cum, reached) ==
    \/ reached /\ Answer(snap.next)
    \/ ~reached /\ snap.next = NBuckets - 1 /\ Answer(NBuckets)
    \/ /\ ~reached /\ snap.next < NBuckets - 1
       /\ Reads("buckets", "buckets", [snap EXCEPT !.cum = cum, !.next = @ + 1])

\* A plausible mistake, no part of the model: a target that must be exceeded.
ReadBucketPast ==
    LET cum == snap.cum + buckets[snap.next] IN Sweep(cum, cum > snap.target)

ReadBucket ==
    LET cum == snap.cum + buckets[snap.next] IN Sweep(cum, cum >= snap.target)

Snapshot == \/ OpenSnapshot \/ ReadConclusive \/ ReadStalls
            \/ ReadInFlight \/ ReadTotal \/ ReadBucket

\* Nothing is left to probe or to read (the bounds).
Rest == Final /\ reader = [at |-> "idle", left |-> 0] /\ UNCHANGED vars

Next == (\E w \in Workers : Begin(w) \/ End(w) \/ Observe(w)) \/ Snapshot \/ Rest

Spec == Init /\ [][Next]_vars

-----------------------------------------------------------------------------
(* Properties.                                                             *)

TypeOK ==
    /\ worker \in [Workers ->
          [at : {"idle", "probing", "ended", "completed", "aborted", "concluded",
                 "tallied", "dropped"},
           kind : Kinds, bucket : Buckets, left : 0 .. Probes]]
    /\ count \in [DOMAIN Zero -> Nat]
    /\ buckets \in [Buckets -> Nat]
    /\ reader \in [at : {"idle", "conclusive", "stalls", "inFlight", "total",
                         "buckets"}, left : 0 .. Snapshots]
    /\ snap \in [completed : Nat, conclusive : Nat, stalls : Nat, inFlight : Nat,
                 target : Nat, cum : Nat, next : Buckets,
                 p : 0 .. NBuckets, final : BOOLEAN]

\* metrics.go:40-50: whenever no worker is in the middle of counting, the books
\* balance: every completed probe is conclusive or has a stall label, and the
\* gauge is the number of probes under way.
Balanced ==
    Quiet =>
        /\ count.completed = count.conclusive + count.stalls
        /\ count.aborted <= count.stalls
        /\ count.hist = count.completed
        /\ count.inFlight = Cardinality({w \in Workers : worker[w].at = "probing"})

\* The snapshot has read the counters it compares; it is complete.
Counted == reader.at \notin {"conclusive", "stalls"}
Whole == reader.at = "idle"

\* metrics.go:193-214: however the steps of a snapshot and of the workers
\* interleave, of the probes it calls completed at most one per worker is
\* neither conclusive nor stalled in it.
SnapshotMissesFew ==
    Counted => snap.completed <= snap.conclusive + snap.stalls + Cardinality(Workers)

\* main.go:437-461: the snapshot that decides whether the run was a valid
\* census is taken after Run returned, and is exact: its parts add up and it
\* agrees with the counters.
FinalSnapshotIsExact ==
    Whole /\ snap.final =>
        /\ snap.completed = count.completed
        /\ snap.completed = snap.conclusive + snap.stalls
        /\ snap.inFlight = 0

\* metrics.go:371: the quantile of that snapshot is a bucket that holds a probe,
\* not the bound past the last one.
QuantileIsABucket ==
    Whole /\ snap.final /\ count.hist > 0 => snap.p < NBuckets /\ buckets[snap.p] > 0
=============================================================================
