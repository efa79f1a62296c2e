-------------------------- MODULE CollectorProofs --------------------------
(***************************************************************************)
(* Proofs about Collector, for any number of workers, probes, buckets and  *)
(* snapshots.                                                              *)
(***************************************************************************)
EXTENDS Collector, FiniteSetTheorems, TLAPS

-----------------------------------------------------------------------------
(* The inductive invariant.                                                *)

Under == {w \in Workers : worker[w].at = "probing"}

\* Counted as completed, but neither as conclusive nor as stalled yet.
Pending ==
    {w \in Workers : \/ worker[w].at \in {"completed", "aborted"}
                     \/ /\ worker[w].at \in {"concluded", "tallied", "dropped"}
                        /\ worker[w].kind # "finding"}

\* Counted as aborted, but not as stalled yet.
Aborting ==
    {w \in Workers : /\ worker[w].at \in {"aborted", "concluded", "tallied", "dropped"}
                     /\ worker[w].kind = "abort"}

\* Counted as completed, but not in the histogram yet.
Untallied == {w \in Workers : worker[w].at \in {"completed", "aborted", "concluded"}}

Books ==
    /\ count.inFlight = Cardinality(Under)
    /\ count.completed = count.conclusive + count.stalls + Cardinality(Pending)
    /\ count.aborted <= count.stalls + Cardinality(Aborting)
    /\ count.completed = count.hist + Cardinality(Untallied)

\* The snapshot under way is behind the counters it has read and not further
\* ahead of the others than the workers can be.
Behind ==
    /\ reader.at = "conclusive" =>
          snap.completed <= count.conclusive + count.stalls + Cardinality(Workers)
    /\ reader.at = "stalls" =>
          snap.completed <= snap.conclusive + count.stalls + Cardinality(Workers)
    /\ SnapshotMissesFew

\* A snapshot opened after the last probe reads counters that no longer move.
Settled ==
    snap.final =>
        /\ Final
        /\ snap.completed = count.completed
        /\ reader.at # "conclusive" => snap.conclusive = count.conclusive
        /\ reader.at \notin {"conclusive", "stalls"} => snap.stalls = count.stalls
        /\ reader.at \notin {"conclusive", "stalls", "inFlight"} => snap.inFlight = 0

IInv == TypeOK /\ Books /\ Behind /\ Settled

-----------------------------------------------------------------------------
(* Sets of workers.                                                        *)

LEMMA SomeWorkers ==
  ASSUME NEW S \in SUBSET Workers
  PROVE  /\ IsFiniteSet(S) /\ Cardinality(S) \in Nat
         /\ Cardinality(Workers) \in Nat /\ Cardinality(S) <= Cardinality(Workers)
<1>1. IsFiniteSet(S) /\ Cardinality(S) <= Cardinality(Workers)
  BY WorkersAssumption, FS_Subset
<1> QED BY <1>1, WorkersAssumption, FS_CardinalityType

\* One worker joins a set, leaves it, or makes no difference to it.
LEMMA Joins ==
  ASSUME NEW S \in SUBSET Workers, NEW w \in Workers, w \notin S
  PROVE  Cardinality(S \cup {w}) = Cardinality(S) + 1
  BY SomeWorkers, FS_AddElement

LEMMA Leaves ==
  ASSUME NEW S \in SUBSET Workers, NEW w \in S
  PROVE  Cardinality(S \ {w}) = Cardinality(S) - 1 /\ Cardinality(S \ {w}) \in Nat
<1>1. /\ S \ {w} \in SUBSET Workers /\ w \in Workers /\ w \notin S \ {w}
      /\ (S \ {w}) \cup {w} = S
  OBVIOUS
<1>2. Cardinality(S) = Cardinality(S \ {w}) + 1 /\ Cardinality(S \ {w}) \in Nat
  BY <1>1, Joins, SomeWorkers
<1> QED BY <1>2

LEMMA Empty == Cardinality({}) = 0
  BY FS_EmptySet

LEMMA Fields ==
  ASSUME TypeOK
  PROVE  /\ count.inFlight \in Nat /\ count.completed \in Nat /\ count.aborted \in Nat
         /\ count.conclusive \in Nat /\ count.hist \in Nat /\ count.stalls \in Nat
         /\ \A w \in Workers :
               worker[w] \in [at : {"idle", "probing", "ended", "completed", "aborted",
                                    "concluded", "tallied", "dropped"},
                              kind : Kinds, bucket : Buckets, left : 0 .. Probes]
  BY DEF TypeOK, Zero

LEMMA GroupsOfWorkers ==
  /\ Under \in SUBSET Workers /\ Pending \in SUBSET Workers
  /\ Aborting \in SUBSET Workers /\ Untallied \in SUBSET Workers
  BY DEF Under, Pending, Aborting, Untallied

LEMMA Added ==
  ASSUME TypeOK, NEW c \in DOMAIN Zero, Add(c)
  PROVE  /\ count' \in [DOMAIN Zero -> Nat] /\ buckets' = buckets
         /\ count'[c] = count[c] + 1
         /\ \A d \in DOMAIN Zero \ {c} : count'[d] = count[d]
<1>1. count \in [DOMAIN Zero -> Nat]
  BY DEF TypeOK
<1> QED BY <1>1 DEF Add

-----------------------------------------------------------------------------
(* The initial states.                                                     *)

LEMMA BucketZero == 0 \in Buckets /\ NBuckets \in 0 .. NBuckets /\ NBuckets - 1 \in Buckets
  BY NBucketsAssumption DEF Buckets

LEMMA InitIInv ==
  ASSUME Init
  PROVE  IInv
<1>1. /\ worker = [w \in Workers |-> Idle(Probes)] /\ count = Zero
      /\ buckets = [b \in Buckets |-> 0] /\ reader = [at |-> "idle", left |-> Snapshots]
      /\ snap = NoSnapshot
  BY DEF Init
<1>2. TypeOK
  <2>1. Probes \in 0 .. Probes /\ Snapshots \in 0 .. Snapshots
    BY BoundsAssumption
  <2>2. worker \in [Workers ->
          [at : {"idle", "probing", "ended", "completed", "aborted", "concluded",
                 "tallied", "dropped"},
           kind : Kinds, bucket : Buckets, left : 0 .. Probes]]
    BY <1>1, <2>1, BucketZero DEF Idle, Kinds
  <2>3. count \in [DOMAIN Zero -> Nat] /\ buckets \in [Buckets -> Nat]
    BY <1>1 DEF Zero
  <2>4. reader \in [at : {"idle", "conclusive", "stalls", "inFlight", "total",
                          "buckets"}, left : 0 .. Snapshots]
    BY <1>1, <2>1
  <2>5. snap \in [completed : Nat, conclusive : Nat, stalls : Nat, inFlight : Nat,
                  target : Nat, cum : Nat, next : Buckets,
                  p : 0 .. NBuckets, final : BOOLEAN]
    BY <1>1, BucketZero DEF NoSnapshot
  <2> QED BY <2>2, <2>3, <2>4, <2>5 DEF TypeOK
<1>3. \A w \in Workers : worker[w].at = "idle"
  BY <1>1 DEF Idle
<1>4. Books
  <2>1. Under = {} /\ Pending = {} /\ Aborting = {} /\ Untallied = {}
    BY <1>3 DEF Under, Pending, Aborting, Untallied
  <2>2. /\ count.inFlight = 0 /\ count.completed = 0 /\ count.aborted = 0
        /\ count.conclusive = 0 /\ count.hist = 0 /\ count.stalls = 0
    BY <1>1 DEF Zero
  <2> QED BY <2>1, <2>2, Empty DEF Books
<1>5. Behind
  <2>1. Cardinality(Workers) \in Nat
    BY SomeWorkers
  <2>2. /\ reader.at = "idle" /\ snap.completed = 0 /\ snap.conclusive = 0
        /\ snap.stalls = 0
    BY <1>1 DEF NoSnapshot
  <2> QED BY <2>1, <2>2 DEF Behind, SnapshotMissesFew
<1>6. Settled
  BY <1>1 DEF Settled, NoSnapshot
<1> QED BY <1>2, <1>4, <1>5, <1>6 DEF IInv

-----------------------------------------------------------------------------
(* The steps of the workers.                                               *)

\* A worker takes a step: no snapshot opened since the last probe.
LEMMA Moved ==
  ASSUME IInv, NEW w \in Workers, NEW from \in {"probing", "ended", "completed",
            "aborted", "concluded", "tallied"},
         NEW to \in {"ended", "completed", "aborted", "concluded", "tallied", "dropped"},
         Moves(w, from, to)
  PROVE  /\ worker[w].at = from /\ worker'[w].at = to /\ worker'[w].kind = worker[w].kind
         /\ \A v \in Workers \ {w} : worker'[v] = worker[v]
         /\ worker' \in [Workers ->
               [at : {"idle", "probing", "ended", "completed", "aborted", "concluded",
                      "tallied", "dropped"},
                kind : Kinds, bucket : Buckets, left : 0 .. Probes]]
         /\ UNCHANGED <<reader, snap>> /\ ~snap.final
<1>1. /\ worker[w].at = from /\ worker' = [worker EXCEPT ![w].at = to]
      /\ UNCHANGED <<reader, snap>>
  BY DEF Moves
<1>2. worker \in [Workers ->
          [at : {"idle", "probing", "ended", "completed", "aborted", "concluded",
                 "tallied", "dropped"},
           kind : Kinds, bucket : Buckets, left : 0 .. Probes]]
  BY DEF IInv, TypeOK
<1>3. /\ worker'[w].at = to /\ worker'[w].kind = worker[w].kind
      /\ \A v \in Workers \ {w} : worker'[v] = worker[v]
  BY <1>1, <1>2
<1>4. worker' \in [Workers ->
          [at : {"idle", "probing", "ended", "completed", "aborted", "concluded",
                 "tallied", "dropped"},
           kind : Kinds, bucket : Buckets, left : 0 .. Probes]]
  BY <1>1, <1>2
<1>5. ~snap.final
  BY <1>1 DEF IInv, Settled, Final
<1> QED BY <1>1, <1>3, <1>4, <1>5

\* What a step of a worker has to show beyond the books.
LEMMA WorkerStep ==
  ASSUME IInv, UNCHANGED <<reader, snap>>, ~snap.final,
         worker' \in [Workers ->
            [at : {"idle", "probing", "ended", "completed", "aborted", "concluded",
                   "tallied", "dropped"},
             kind : Kinds, bucket : Buckets, left : 0 .. Probes]],
         count' \in [DOMAIN Zero -> Nat], buckets' \in [Buckets -> Nat],
         count'.conclusive \in {count.conclusive, count.conclusive + 1},
         count'.stalls \in {count.stalls, count.stalls + 1},
         Books'
  PROVE  IInv'
<1>1. TypeOK'
  BY DEF IInv, TypeOK
<1>2. Settled'
  BY DEF Settled
<1>3. Behind'
  <2> DEFINE W == Cardinality(Workers)
  <2>1. /\ count.conclusive \in Nat /\ count.stalls \in Nat /\ W \in Nat
        /\ snap.completed \in Nat /\ snap.conclusive \in Nat
    BY Fields, SomeWorkers DEF IInv, TypeOK
  <2>2. /\ count'.conclusive \in Nat /\ count'.conclusive >= count.conclusive
        /\ count'.stalls \in Nat /\ count'.stalls >= count.stalls
    BY <2>1
  <2>3. reader.at = "conclusive" => snap.completed <= count'.conclusive + count'.stalls + W
    <3>1. reader.at = "conclusive" => snap.completed <= count.conclusive + count.stalls + W
      BY DEF IInv, Behind
    <3> HIDE DEF W
    <3> QED BY <2>1, <2>2, <3>1
  <2>4. reader.at = "stalls" => snap.completed <= snap.conclusive + count'.stalls + W
    <3>1. reader.at = "stalls" => snap.completed <= snap.conclusive + count.stalls + W
      BY DEF IInv, Behind
    <3> HIDE DEF W
    <3> QED BY <2>1, <2>2, <3>1
  <2>5. SnapshotMissesFew'
    BY DEF IInv, Behind, SnapshotMissesFew, Counted
  <2> QED BY <2>3, <2>4, <2>5 DEF Behind
<1> QED BY <1>1, <1>2, <1>3 DEF IInv

LEMMA BeginStep ==
  ASSUME IInv, NEW w \in Workers, Begin(w)
  PROVE  IInv'
<1>1. /\ worker[w].at = "idle" /\ worker[w].left > 0
      /\ Add("inFlight") /\ UNCHANGED <<reader, snap>>
  BY DEF Begin
<1>2. PICK k \in Kinds, o \in 0 .. NBuckets :
         worker' = [worker EXCEPT ![w] = [at |-> "probing", kind |-> k,
                       bucket |-> BucketOf(o), left |-> worker[w].left - 1]]
  BY DEF Begin
<1>3. worker \in [Workers ->
          [at : {"idle", "probing", "ended", "completed", "aborted", "concluded",
                 "tallied", "dropped"},
           kind : Kinds, bucket : Buckets, left : 0 .. Probes]]
  BY DEF IInv, TypeOK
<1>4. /\ worker'[w].at = "probing"
      /\ \A v \in Workers \ {w} : worker'[v] = worker[v]
  BY <1>2, <1>3
<1>5. worker' \in [Workers ->
          [at : {"idle", "probing", "ended", "completed", "aborted", "concluded",
                 "tallied", "dropped"},
           kind : Kinds, bucket : Buckets, left : 0 .. Probes]]
  <2>1. BucketOf(o) \in Buckets
    BY NBucketsAssumption DEF BucketOf, Buckets
  <2>2. worker[w].left - 1 \in 0 .. Probes
    <3>1. worker[w].left \in 0 .. Probes
      BY <1>3
    <3> QED BY <1>1, <3>1, BoundsAssumption
  <2> QED BY <1>2, <1>3, <2>1, <2>2
<1>6. ~snap.final
  BY <1>1, BoundsAssumption DEF IInv, Settled, Final
<1>7. /\ count' \in [DOMAIN Zero -> Nat] /\ buckets' = buckets
      /\ count'.inFlight = count.inFlight + 1 /\ count'.completed = count.completed
      /\ count'.conclusive = count.conclusive /\ count'.stalls = count.stalls
      /\ count'.aborted = count.aborted /\ count'.hist = count.hist
  BY <1>1, Added DEF IInv, Zero
<1>8. /\ Under' = Under \cup {w} /\ w \notin Under
      /\ Pending' = Pending /\ Aborting' = Aborting /\ Untallied' = Untallied
  BY <1>1, <1>4 DEF Under, Pending, Aborting, Untallied
<1>9. Books'
  <2>1. Cardinality(Under') = Cardinality(Under) + 1
    BY <1>8, GroupsOfWorkers, Joins
  <2> QED BY <1>7, <1>8, <2>1 DEF IInv, Books
<1>10. buckets' \in [Buckets -> Nat]
  BY <1>7 DEF IInv, TypeOK
<1> QED BY <1>1, <1>5, <1>6, <1>7, <1>9, <1>10, WorkerStep

LEMMA EndStep ==
  ASSUME IInv, NEW w \in Workers, End(w)
  PROVE  IInv'
<1>1. Moves(w, "probing", "ended") /\ count' = [count EXCEPT !.inFlight = @ - 1]
      /\ buckets' = buckets
  BY DEF End
<1>2. /\ Under' = Under \ {w} /\ w \in Under
      /\ Pending' = Pending /\ Aborting' = Aborting /\ Untallied' = Untallied
  BY <1>1, Moved DEF Under, Pending, Aborting, Untallied
<1>3. Cardinality(Under') = Cardinality(Under) - 1 /\ Cardinality(Under') \in Nat
  BY <1>2, GroupsOfWorkers, Leaves
<1>4. count.inFlight = Cardinality(Under) /\ count \in [DOMAIN Zero -> Nat]
      /\ buckets \in [Buckets -> Nat]
  BY DEF IInv, Books, TypeOK
<1>5. /\ count'.inFlight = Cardinality(Under') /\ count'.completed = count.completed
      /\ count'.conclusive = count.conclusive /\ count'.stalls = count.stalls
      /\ count'.aborted = count.aborted /\ count'.hist = count.hist
  BY <1>1, <1>3, <1>4 DEF Zero
<1>6. count' \in [DOMAIN Zero -> Nat]
  BY <1>1, <1>3, <1>4 DEF Zero
<1>7. Books'
  BY <1>2, <1>5 DEF IInv, Books
<1> QED BY <1>1, <1>4, <1>5, <1>6, <1>7, Moved, WorkerStep

LEMMA CompleteStep ==
  ASSUME IInv, NEW w \in Workers, Complete(w)
  PROVE  IInv'
<1>1. Moves(w, "ended", "completed") /\ Add("completed")
  BY DEF Complete
<1>2. /\ Under' = Under /\ Aborting' = Aborting
      /\ Pending' = Pending \cup {w} /\ w \notin Pending
      /\ Untallied' = Untallied \cup {w} /\ w \notin Untallied
  BY <1>1, Moved DEF Under, Pending, Aborting, Untallied
<1>3. /\ Cardinality(Pending') = Cardinality(Pending) + 1
      /\ Cardinality(Untallied') = Cardinality(Untallied) + 1
      /\ Cardinality(Pending) \in Nat /\ Cardinality(Untallied) \in Nat
  BY <1>2, GroupsOfWorkers, Joins, SomeWorkers
<1>4. /\ count' \in [DOMAIN Zero -> Nat] /\ buckets' = buckets
      /\ count'.inFlight = count.inFlight /\ count'.completed = count.completed + 1
      /\ count'.conclusive = count.conclusive /\ count'.stalls = count.stalls
      /\ count'.aborted = count.aborted /\ count'.hist = count.hist
  BY <1>1, Added DEF IInv, Zero
<1>5. Books'
  <2>1. Books /\ count.conclusive \in Nat /\ count.stalls \in Nat /\ count.hist \in Nat
    BY Fields DEF IInv
  <2>2. count'.completed = count'.conclusive + count'.stalls + Cardinality(Pending')
    BY <1>3, <1>4, <2>1 DEF Books
  <2>3. count'.completed = count'.hist + Cardinality(Untallied')
    BY <1>3, <1>4, <2>1 DEF Books
  <2> QED BY <1>2, <1>4, <2>1, <2>2, <2>3 DEF Books
<1>6. buckets' \in [Buckets -> Nat]
  BY <1>4 DEF IInv, TypeOK
<1> QED BY <1>1, <1>4, <1>5, <1>6, Moved, WorkerStep

LEMMA AbortStep ==
  ASSUME IInv, NEW w \in Workers, Abort(w)
  PROVE  IInv'
<1>1. Moves(w, "completed", "aborted")
  BY DEF Abort
<1>2. Under' = Under /\ Pending' = Pending /\ Untallied' = Untallied
  BY <1>1, Moved DEF Under, Pending, Untallied
<1>3. buckets' \in [Buckets -> Nat]
  BY DEF Abort, Add, IInv, TypeOK
<1>4. CASE worker[w].kind = "abort"
  <2>1. Aborting' = Aborting \cup {w} /\ w \notin Aborting
    BY <1>1, <1>4, Moved DEF Aborting
  <2>2. Cardinality(Aborting') = Cardinality(Aborting) + 1 /\ Cardinality(Aborting) \in Nat
    BY <2>1, GroupsOfWorkers, Joins, SomeWorkers
  <2>3. /\ count' \in [DOMAIN Zero -> Nat]
        /\ count'.inFlight = count.inFlight /\ count'.completed = count.completed
        /\ count'.conclusive = count.conclusive /\ count'.stalls = count.stalls
        /\ count'.aborted = count.aborted + 1 /\ count'.hist = count.hist
    BY <1>4, Added DEF Abort, IInv, Zero
  <2>4. Books'
    <3>1. Books /\ count.aborted \in Nat /\ count.stalls \in Nat
      BY Fields DEF IInv
    <3>2. count'.aborted <= count'.stalls + Cardinality(Aborting')
      BY <2>2, <2>3, <3>1 DEF Books
    <3> QED BY <1>2, <2>3, <3>1, <3>2 DEF Books
  <2> QED BY <1>1, <1>3, <2>3, <2>4, Moved, WorkerStep
<1>5. CASE worker[w].kind # "abort"
  <2>1. Aborting' = Aborting
    BY <1>1, <1>5, Moved DEF Aborting
  <2>2. count' = count
    BY <1>5 DEF Abort
  <2>3. Books'
    BY <1>2, <2>1, <2>2 DEF IInv, Books
  <2>4. count' \in [DOMAIN Zero -> Nat]
    BY <2>2 DEF IInv, TypeOK
  <2> QED BY <1>1, <1>3, <2>2, <2>3, <2>4, Moved, WorkerStep
<1> QED BY <1>4, <1>5

LEMMA ConcludeStep ==
  ASSUME IInv, NEW w \in Workers, Conclude(w)
  PROVE  IInv'
<1>1. Moves(w, "aborted", "concluded")
  BY DEF Conclude
<1>2. Under' = Under /\ Aborting' = Aborting /\ Untallied' = Untallied
  BY <1>1, Moved DEF Under, Aborting, Untallied
<1>3. buckets' \in [Buckets -> Nat]
  BY DEF Conclude, Add, IInv, TypeOK
<1>4. CASE worker[w].kind = "finding"
  <2>1. Pending' = Pending \ {w} /\ w \in Pending
    BY <1>1, <1>4, Moved DEF Pending
  <2>2. Cardinality(Pending') = Cardinality(Pending) - 1 /\ Cardinality(Pending) \in Nat
    BY <2>1, GroupsOfWorkers, Leaves, SomeWorkers
  <2>3. /\ count' \in [DOMAIN Zero -> Nat]
        /\ count'.inFlight = count.inFlight /\ count'.completed = count.completed
        /\ count'.conclusive = count.conclusive + 1 /\ count'.stalls = count.stalls
        /\ count'.aborted = count.aborted /\ count'.hist = count.hist
    BY <1>4, Added DEF Conclude, IInv, Zero
  <2>4. Books'
    <3>1. Books /\ count.conclusive \in Nat /\ count.stalls \in Nat
      BY Fields DEF IInv
    <3>2. count'.completed = count'.conclusive + count'.stalls + Cardinality(Pending')
      BY <2>2, <2>3, <3>1 DEF Books
    <3> QED BY <1>2, <2>3, <3>1, <3>2 DEF Books
  <2> QED BY <1>1, <1>3, <2>3, <2>4, Moved, WorkerStep
<1>5. CASE worker[w].kind # "finding"
  <2>1. Pending' = Pending
    BY <1>1, <1>5, Moved DEF Pending
  <2>2. count' = count
    BY <1>5 DEF Conclude
  <2>3. Books'
    BY <1>2, <2>1, <2>2 DEF IInv, Books
  <2>4. count' \in [DOMAIN Zero -> Nat]
    BY <2>2 DEF IInv, TypeOK
  <2> QED BY <1>1, <1>3, <2>2, <2>3, <2>4, Moved, WorkerStep
<1> QED BY <1>4, <1>5

LEMMA TallyStep ==
  ASSUME IInv, NEW w \in Workers, Tally(w)
  PROVE  IInv'
<1>1. Moves(w, "concluded", "tallied") /\ Add("hist")
  BY DEF Tally
<1>2. /\ Under' = Under /\ Pending' = Pending /\ Aborting' = Aborting
      /\ Untallied' = Untallied \ {w} /\ w \in Untallied
  BY <1>1, Moved DEF Under, Pending, Aborting, Untallied
<1>3. Cardinality(Untallied') = Cardinality(Untallied) - 1 /\ Cardinality(Untallied) \in Nat
  BY <1>2, GroupsOfWorkers, Leaves, SomeWorkers
<1>4. /\ count' \in [DOMAIN Zero -> Nat] /\ buckets' = buckets
      /\ count'.inFlight = count.inFlight /\ count'.completed = count.completed
      /\ count'.conclusive = count.conclusive /\ count'.stalls = count.stalls
      /\ count'.aborted = count.aborted /\ count'.hist = count.hist + 1
  BY <1>1, Added DEF IInv, Zero
<1>5. Books'
  <2>1. Books /\ count.hist \in Nat
    BY Fields DEF IInv
  <2>2. count'.completed = count'.hist + Cardinality(Untallied')
    BY <1>3, <1>4, <2>1 DEF Books
  <2> QED BY <1>2, <1>4, <2>1, <2>2 DEF Books
<1>6. buckets' \in [Buckets -> Nat]
  BY <1>4 DEF IInv, TypeOK
<1> QED BY <1>1, <1>4, <1>5, <1>6, Moved, WorkerStep

LEMMA DropStep ==
  ASSUME IInv, NEW w \in Workers, Drop(w)
  PROVE  IInv'
<1>1. Moves(w, "tallied", "dropped") /\ count' = count
  BY DEF Drop
<1>2. Under' = Under /\ Pending' = Pending /\ Aborting' = Aborting /\ Untallied' = Untallied
  BY <1>1, Moved DEF Under, Pending, Aborting, Untallied
<1>3. Books'
  BY <1>1, <1>2 DEF IInv, Books
<1>4. buckets' \in [Buckets -> Nat]
  BY DEF Drop, IInv, TypeOK
<1>5. count' \in [DOMAIN Zero -> Nat]
  BY <1>1 DEF IInv, TypeOK
<1> QED BY <1>1, <1>3, <1>4, <1>5, Moved, WorkerStep

LEMMA StalledStep ==
  ASSUME IInv, NEW w \in Workers, Stalled(w)
  PROVE  IInv'
<1>1. /\ worker[w].at = "dropped" /\ worker' = [worker EXCEPT ![w] = Idle(worker[w].left)]
      /\ UNCHANGED <<reader, snap>>
  BY DEF Stalled, Returns
<1>2. worker \in [Workers ->
          [at : {"idle", "probing", "ended", "completed", "aborted", "concluded",
                 "tallied", "dropped"},
           kind : Kinds, bucket : Buckets, left : 0 .. Probes]]
  BY DEF IInv, TypeOK
<1>3. /\ worker'[w].at = "idle"
      /\ \A v \in Workers \ {w} : worker'[v] = worker[v]
      /\ worker' \in [Workers ->
          [at : {"idle", "probing", "ended", "completed", "aborted", "concluded",
                 "tallied", "dropped"},
           kind : Kinds, bucket : Buckets, left : 0 .. Probes]]
  BY <1>1, <1>2, BucketZero DEF Idle, Kinds
<1>4. ~snap.final
  BY <1>1 DEF IInv, Settled, Final
<1>5. Under' = Under /\ Untallied' = Untallied
  BY <1>1, <1>3 DEF Under, Untallied
<1>6. buckets' \in [Buckets -> Nat]
  BY DEF Stalled, Add, IInv, TypeOK
<1>7. CASE worker[w].kind = "finding"
  <2>1. Pending' = Pending /\ Aborting' = Aborting /\ count' = count
    BY <1>1, <1>3, <1>7 DEF Pending, Aborting, Stalled
  <2>2. Books' /\ count' \in [DOMAIN Zero -> Nat]
    BY <1>5, <2>1 DEF IInv, Books, TypeOK
  <2> QED BY <1>1, <1>3, <1>4, <1>6, <2>1, <2>2, WorkerStep
<1>8. CASE worker[w].kind # "finding"
  <2>1. Pending' = Pending \ {w} /\ w \in Pending /\ Aborting' = Aborting \ {w}
    BY <1>1, <1>3, <1>8 DEF Pending, Aborting
  <2>2. Cardinality(Pending') = Cardinality(Pending) - 1 /\ Cardinality(Pending) \in Nat
    BY <2>1, GroupsOfWorkers, Leaves, SomeWorkers
  <2>3. /\ Cardinality(Aborting) <= Cardinality(Aborting') + 1
        /\ Cardinality(Aborting) \in Nat /\ Cardinality(Aborting') \in Nat
    <3>1. CASE w \in Aborting
      BY <2>1, <3>1, GroupsOfWorkers, Leaves, SomeWorkers
    <3>2. CASE w \notin Aborting
      <4>1. Aborting' = Aborting /\ Cardinality(Aborting) \in Nat
        BY <2>1, <3>2, GroupsOfWorkers, SomeWorkers
      <4> QED BY <4>1
    <3> QED BY <3>1, <3>2
  <2>4. /\ count' \in [DOMAIN Zero -> Nat]
        /\ count'.inFlight = count.inFlight /\ count'.completed = count.completed
        /\ count'.conclusive = count.conclusive /\ count'.stalls = count.stalls + 1
        /\ count'.aborted = count.aborted /\ count'.hist = count.hist
    BY <1>8, Added DEF Stalled, IInv, Zero
  <2>5. Books'
    <3>1. /\ Books /\ count.conclusive \in Nat /\ count.stalls \in Nat
          /\ count.aborted \in Nat
      BY Fields DEF IInv
    <3>2. count'.completed = count'.conclusive + count'.stalls + Cardinality(Pending')
      BY <2>2, <2>4, <3>1 DEF Books
    <3>3. count'.aborted <= count'.stalls + Cardinality(Aborting')
      BY <2>3, <2>4, <3>1 DEF Books
    <3> QED BY <1>5, <2>4, <3>1, <3>2, <3>3 DEF Books
  <2> QED BY <1>1, <1>3, <1>4, <1>6, <2>4, <2>5, WorkerStep
<1> QED BY <1>7, <1>8

-----------------------------------------------------------------------------
(* The steps of a snapshot.                                                *)

SnapType ==
    [completed : Nat, conclusive : Nat, stalls : Nat, inFlight : Nat,
     target : Nat, cum : Nat, next : Buckets, p : 0 .. NBuckets, final : BOOLEAN]

LEMMA BooksKept ==
  ASSUME IInv, UNCHANGED <<worker, count>>
  PROVE  Books'
  BY DEF IInv, Books, Under, Pending, Aborting, Untallied

LEMMA OpenSnapshotStep ==
  ASSUME IInv, OpenSnapshot
  PROVE  IInv'
<1>1. /\ reader' = [at |-> "conclusive", left |-> reader.left - 1] /\ reader.left > 0
      /\ snap' = [NoSnapshot EXCEPT !.completed = count.completed, !.final = Final]
      /\ UNCHANGED <<worker, count, buckets>>
  BY DEF OpenSnapshot
<1>2. Books'
  BY <1>1, BooksKept
<1>3. /\ snap'.completed = count.completed /\ snap'.final = Final
      /\ reader'.at = "conclusive"
  BY <1>1 DEF NoSnapshot
<1>4. TypeOK'
  <2>1. reader.left - 1 \in 0 .. Snapshots
    <3>1. reader.left \in 0 .. Snapshots
      BY DEF IInv, TypeOK
    <3> QED BY <1>1, <3>1, BoundsAssumption
  <2>2. Final \in BOOLEAN /\ count.completed \in Nat
    BY Fields DEF Final, IInv
  <2>3. NoSnapshot \in SnapType
    BY BucketZero DEF NoSnapshot, SnapType
  <2>4. snap' \in SnapType
    BY <1>1, <2>2, <2>3 DEF SnapType
  <2> QED BY <1>1, <2>1, <2>4 DEF IInv, TypeOK, SnapType
<1>5. Behind'
  <2>1. count.completed <= count.conclusive + count.stalls + Cardinality(Workers)
    <3>1. /\ count.completed = count.conclusive + count.stalls + Cardinality(Pending)
          /\ count.conclusive \in Nat /\ count.stalls \in Nat
      BY Fields DEF IInv, Books
    <3>2. /\ Cardinality(Pending) \in Nat /\ Cardinality(Workers) \in Nat
          /\ Cardinality(Pending) <= Cardinality(Workers)
      BY GroupsOfWorkers, SomeWorkers
    <3> QED BY <3>1, <3>2
  <2> QED BY <1>1, <1>3, <2>1 DEF Behind, SnapshotMissesFew, Counted
<1>6. Settled'
  BY <1>1, <1>3 DEF Settled, Final
<1> QED BY <1>2, <1>4, <1>5, <1>6 DEF IInv

LEMMA ReadStep ==
  ASSUME IInv, ReadConclusive \/ ReadStalls \/ ReadInFlight
  PROVE  IInv'
<1>1. /\ \/ /\ reader.at = "conclusive" /\ reader'.at = "stalls"
            /\ snap' = [snap EXCEPT !.conclusive = count.conclusive]
         \/ /\ reader.at = "stalls" /\ reader'.at = "inFlight"
            /\ snap' = [snap EXCEPT !.stalls = count.stalls]
         \/ /\ reader.at = "inFlight" /\ reader'.at = "total"
            /\ snap' = [snap EXCEPT !.inFlight = count.inFlight]
      /\ reader' \in [at : {"idle", "conclusive", "stalls", "inFlight", "total",
                            "buckets"}, left : 0 .. Snapshots]
      /\ UNCHANGED <<worker, count, buckets>>
  BY DEF ReadConclusive, ReadStalls, ReadInFlight, Reads, IInv, TypeOK
<1>2. snap \in SnapType
  BY DEF IInv, TypeOK, SnapType
<1>3. Books'
  BY <1>1, BooksKept
<1>4. TypeOK'
  <2>1. snap' \in SnapType
    BY <1>1, <1>2, Fields DEF IInv, SnapType
  <2> QED BY <1>1, <2>1 DEF IInv, TypeOK, SnapType
<1>5. CASE /\ reader.at = "conclusive" /\ reader'.at = "stalls"
           /\ snap' = [snap EXCEPT !.conclusive = count.conclusive]
  <2>1. /\ snap'.completed = snap.completed /\ snap'.conclusive = count.conclusive
        /\ snap'.final = snap.final
    BY <1>2, <1>5 DEF SnapType
  <2>2. Behind'
    BY <1>1, <1>5, <2>1 DEF IInv, Behind, SnapshotMissesFew, Counted
  <2>3. Settled'
    BY <1>1, <1>5, <2>1 DEF IInv, Settled, Final
  <2> QED BY <1>3, <1>4, <2>2, <2>3 DEF IInv
<1>6. CASE /\ reader.at = "stalls" /\ reader'.at = "inFlight"
           /\ snap' = [snap EXCEPT !.stalls = count.stalls]
  <2>1. /\ snap'.completed = snap.completed /\ snap'.conclusive = snap.conclusive
        /\ snap'.stalls = count.stalls /\ snap'.final = snap.final
    BY <1>2, <1>6 DEF SnapType
  <2>2. Behind'
    BY <1>1, <1>6, <2>1 DEF IInv, Behind, SnapshotMissesFew
  <2>3. Settled'
    BY <1>1, <1>6, <2>1 DEF IInv, Settled, Final
  <2> QED BY <1>3, <1>4, <2>2, <2>3 DEF IInv
<1>7. CASE /\ reader.at = "inFlight" /\ reader'.at = "total"
           /\ snap' = [snap EXCEPT !.inFlight = count.inFlight]
  <2>1. /\ snap'.completed = snap.completed /\ snap'.conclusive = snap.conclusive
        /\ snap'.stalls = snap.stalls /\ snap'.final = snap.final
        /\ snap'.inFlight = count.inFlight
    BY <1>2, <1>7 DEF SnapType
  <2>2. Behind'
    BY <1>1, <1>7, <2>1 DEF IInv, Behind, SnapshotMissesFew, Counted
  <2>3. snap.final => count.inFlight = 0
    <3>1. snap.final => Under = {}
      BY DEF IInv, Settled, Final, Under
    <3>2. count.inFlight = Cardinality(Under)
      BY DEF IInv, Books
    <3> QED BY <3>1, <3>2, Empty
  <2>4. Settled'
    BY <1>1, <1>7, <2>1, <2>3 DEF IInv, Settled, Final
  <2> QED BY <1>3, <1>4, <2>2, <2>4 DEF IInv
<1> QED BY <1>1, <1>5, <1>6, <1>7

\* What the steps of Quantile do to the snapshot.
LEMMA Sweeps ==
  ASSUME IInv, ReadBucket
  PROVE  LET cum == snap.cum + buckets[snap.next] IN
         /\ cum \in Nat /\ buckets[snap.next] \in Nat /\ snap.cum \in Nat
         /\ snap.next \in Buckets /\ snap.target \in Nat
         /\ \/ /\ cum >= snap.target /\ reader'.at = "idle"
               /\ snap' = [snap EXCEPT !.target = 0, !.cum = 0, !.next = 0,
                                       !.p = snap.next]
            \/ /\ cum < snap.target /\ snap.next = NBuckets - 1 /\ reader'.at = "idle"
               /\ snap' = [snap EXCEPT !.target = 0, !.cum = 0, !.next = 0,
                                       !.p = NBuckets]
            \/ /\ cum < snap.target /\ snap.next + 1 \in Buckets
               /\ reader'.at = "buckets"
               /\ snap' = [snap EXCEPT !.cum = cum, !.next = snap.next + 1]
<1> DEFINE cum == snap.cum + buckets[snap.next]
<1>1. /\ snap.next \in Buckets /\ snap.cum \in Nat /\ snap.target \in Nat
      /\ buckets[snap.next] \in Nat /\ reader \in [at : {"idle", "conclusive", "stalls",
                          "inFlight", "total", "buckets"}, left : 0 .. Snapshots]
  BY DEF IInv, TypeOK
<1>2. cum \in Nat /\ (~(cum >= snap.target) <=> cum < snap.target)
  BY <1>1
<1>3. snap.next < NBuckets - 1 => snap.next + 1 \in Buckets
  BY <1>1, NBucketsAssumption DEF Buckets
<1>4. Sweep(cum, cum >= snap.target)
  BY DEF ReadBucket
<1> HIDE DEF cum
<1>5. \/ /\ cum >= snap.target /\ reader'.at = "idle"
         /\ snap' = [snap EXCEPT !.target = 0, !.cum = 0, !.next = 0, !.p = snap.next]
      \/ /\ cum < snap.target /\ snap.next = NBuckets - 1 /\ reader'.at = "idle"
         /\ snap' = [snap EXCEPT !.target = 0, !.cum = 0, !.next = 0, !.p = NBuckets]
      \/ /\ cum < snap.target /\ snap.next + 1 \in Buckets /\ reader'.at = "buckets"
         /\ snap' = [snap EXCEPT !.cum = cum, !.next = snap.next + 1]
  BY <1>1, <1>2, <1>3, <1>4 DEF Sweep, Answer, Reads
<1> QED BY <1>1, <1>2, <1>5 DEF cum

LEMMA QuantileStep ==
  ASSUME IInv, ReadTotal \/ ReadBucket
  PROVE  IInv'
<1>1. /\ reader.at \in {"total", "buckets"} /\ reader'.at \in {"idle", "buckets"}
      /\ reader' \in [at : {"idle", "conclusive", "stalls", "inFlight", "total",
                            "buckets"}, left : 0 .. Snapshots]
      /\ UNCHANGED <<worker, count, buckets>>
  BY DEF ReadTotal, ReadBucket, Sweep, Answer, Reads, IInv, TypeOK
<1>2. snap \in SnapType /\ count.hist \in Nat
  BY Fields DEF IInv, TypeOK, SnapType
<1>3. /\ snap' \in SnapType
      /\ snap'.completed = snap.completed /\ snap'.conclusive = snap.conclusive
      /\ snap'.stalls = snap.stalls /\ snap'.inFlight = snap.inFlight
      /\ snap'.final = snap.final
  <2>1. CASE ReadTotal
    <3>1. snap' = snap \/ \E t \in Nat : snap' = [snap EXCEPT !.target = t]
      BY <1>2, <2>1 DEF ReadTotal, Reads
    <3> QED BY <1>2, <3>1 DEF SnapType
  <2>2. CASE ReadBucket
    <3>1. snap.next \in 0 .. NBuckets /\ NBuckets \in 0 .. NBuckets /\ 0 \in Buckets
      BY <1>2, NBucketsAssumption DEF SnapType, Buckets
    <3>2. \/ \E p \in 0 .. NBuckets :
                snap' = [snap EXCEPT !.target = 0, !.cum = 0, !.next = 0, !.p = p]
          \/ \E c \in Nat, n \in Buckets : snap' = [snap EXCEPT !.cum = c, !.next = n]
      BY <2>2, <3>1, Sweeps
    <3>3. CASE \E p \in 0 .. NBuckets :
                  snap' = [snap EXCEPT !.target = 0, !.cum = 0, !.next = 0, !.p = p]
      <4>1. PICK p \in 0 .. NBuckets :
               snap' = [snap EXCEPT !.target = 0, !.cum = 0, !.next = 0, !.p = p]
        BY <3>3
      <4> QED BY <1>2, <3>1, <4>1 DEF SnapType
    <3>4. CASE \E c \in Nat, n \in Buckets : snap' = [snap EXCEPT !.cum = c, !.next = n]
      <4>1. PICK c \in Nat, n \in Buckets : snap' = [snap EXCEPT !.cum = c, !.next = n]
        BY <3>4
      <4> QED BY <1>2, <4>1 DEF SnapType
    <3> QED BY <3>2, <3>3, <3>4
  <2> QED BY <2>1, <2>2
<1>4. TypeOK'
  BY <1>1, <1>3 DEF IInv, TypeOK, SnapType
<1>5. Books'
  BY <1>1, BooksKept
<1>6. Behind'
  BY <1>1, <1>3 DEF IInv, Behind, SnapshotMissesFew, Counted
<1>7. Settled'
  BY <1>1, <1>3 DEF IInv, Settled, Final
<1> QED BY <1>4, <1>5, <1>6, <1>7 DEF IInv

LEMMA Stutter ==
  ASSUME IInv, UNCHANGED vars
  PROVE  IInv'
<1>1. Books'
  BY BooksKept DEF vars
<1>2. TypeOK'
  BY DEF vars, IInv, TypeOK
<1>3. Behind' /\ Settled'
  BY DEF vars, IInv, Behind, SnapshotMissesFew, Counted, Settled, Final
<1> QED BY <1>1, <1>2, <1>3 DEF IInv

LEMMA Inductive == Spec => []IInv
<1>1. Init => IInv
  BY InitIInv
<1>2. IInv /\ [Next]_vars => IInv'
  <2> SUFFICES ASSUME IInv, [Next]_vars PROVE IInv'
    OBVIOUS
  <2>1. CASE \E w \in Workers : Begin(w) \/ End(w) \/ Observe(w)
    <3>1. PICK w \in Workers : Begin(w) \/ End(w) \/ Observe(w)
      BY <2>1
    <3> QED BY <3>1, BeginStep, EndStep, CompleteStep, AbortStep, ConcludeStep,
               TallyStep, DropStep, StalledStep DEF Observe
  <2>2. CASE Snapshot
    BY <2>2, OpenSnapshotStep, ReadStep, QuantileStep DEF Snapshot
  <2>3. CASE Rest \/ UNCHANGED vars
    BY <2>3, Stutter DEF Rest
  <2> QED BY <2>1, <2>2, <2>3 DEF Next
<1> QED BY <1>1, <1>2, PTL DEF Spec

-----------------------------------------------------------------------------
(* The theorems.                                                           *)

\* Every variable has its type.
THEOREM TypeCorrect == Spec => []TypeOK
<1>1. IInv => TypeOK
  BY DEF IInv
<1> QED BY <1>1, Inductive, PTL

\* The counters balance whenever no worker is in the middle of counting
\* (metrics.go:40-50).
THEOREM BooksBalance == Spec => []Balanced
<1>1. ASSUME IInv, Quiet
      PROVE  /\ count.completed = count.conclusive + count.stalls
             /\ count.aborted <= count.stalls
             /\ count.hist = count.completed
             /\ count.inFlight = Cardinality({w \in Workers : worker[w].at = "probing"})
  <2>1. Pending = {} /\ Aborting = {} /\ Untallied = {}
    BY <1>1 DEF Quiet, Pending, Aborting, Untallied
  <2>2. /\ Books /\ count.conclusive \in Nat /\ count.stalls \in Nat
        /\ count.hist \in Nat
    BY <1>1, Fields DEF IInv
  <2>3. /\ Cardinality(Pending) = 0 /\ Cardinality(Aborting) = 0
        /\ Cardinality(Untallied) = 0
    BY <2>1, Empty
  <2> QED BY <2>2, <2>3 DEF Books, Under
<1>2. IInv => Balanced
  BY <1>1 DEF Balanced
<1> QED BY <1>2, Inductive, PTL

\* However a snapshot and the workers interleave, at most one probe per worker
\* is missing from it (metrics.go:193-214).
THEOREM SnapshotsMissFew == Spec => []SnapshotMissesFew
<1>1. IInv => SnapshotMissesFew
  BY DEF IInv, Behind
<1> QED BY <1>1, Inductive, PTL

\* The snapshot taken after the run is exact (main.go:437-461).
THEOREM FinalSnapshotExact == Spec => []FinalSnapshotIsExact
<1>1. ASSUME IInv, Whole, snap.final
      PROVE  /\ snap.completed = count.completed
             /\ snap.completed = snap.conclusive + snap.stalls
             /\ snap.inFlight = 0
  <2>1. /\ Final /\ snap.completed = count.completed
        /\ snap.conclusive = count.conclusive /\ snap.stalls = count.stalls
        /\ snap.inFlight = 0
    BY <1>1 DEF IInv, Settled, Whole
  <2>2. Pending = {}
    BY <2>1 DEF Final, Pending
  <2>3. /\ count.completed = count.conclusive + count.stalls + Cardinality(Pending)
        /\ count.conclusive \in Nat /\ count.stalls \in Nat
    BY <1>1, Fields DEF IInv, Books
  <2>4. Cardinality(Pending) = 0
    BY <2>2, Empty
  <2> QED BY <2>1, <2>3, <2>4
<1>2. IInv => FinalSnapshotIsExact
  BY <1>1 DEF FinalSnapshotIsExact
<1> QED BY <1>2, Inductive, PTL

-----------------------------------------------------------------------------
(* The quantile.  What it sums up cannot be written as a sum without a      *)
(* recursive definition; there being some running totals says as much.      *)

\* S[n] is the number of probes in the buckets below n.
RunningTotals(S) ==
    /\ S \in [0 .. NBuckets -> Nat] /\ S[0] = 0
    /\ \A b \in Buckets : S[b + 1] = S[b] + buckets[b]

\* Counted in the histogram, but in no bucket yet.
Dropping == {w \in Workers : worker[w].at = "tallied"}

\* Every probe of the histogram is in a bucket or about to be; in the snapshot
\* taken after the run, Quantile is on its way to a target it will reach.
Totals(S) ==
    /\ RunningTotals(S)
    /\ count.hist = S[NBuckets] + Cardinality(Dropping)
    /\ snap.final /\ reader.at = "buckets" =>
          /\ snap.cum = S[snap.next] /\ snap.cum < snap.target
          /\ snap.target <= S[NBuckets]

Swept ==
    /\ \E S \in [0 .. NBuckets -> Nat] : Totals(S)
    /\ reader.at # "buckets" => snap.cum = 0 /\ snap.next = 0
    /\ QuantileIsABucket

LEMMA Steps ==
  /\ 0 \in 0 .. NBuckets /\ NBuckets \in 0 .. NBuckets /\ NBuckets - 1 \in Buckets
  /\ \A b \in Buckets : b \in 0 .. NBuckets /\ b + 1 \in 0 .. NBuckets /\ b < NBuckets
  BY NBucketsAssumption DEF Buckets

LEMMA InitSwept ==
  ASSUME Init
  PROVE  Swept
<1> DEFINE S == [n \in 0 .. NBuckets |-> 0]
<1>1. /\ worker = [w \in Workers |-> Idle(Probes)] /\ count = Zero
      /\ buckets = [b \in Buckets |-> 0] /\ reader = [at |-> "idle", left |-> Snapshots]
      /\ snap = NoSnapshot
  BY DEF Init
<1>2. S \in [0 .. NBuckets -> Nat] /\ \A n \in 0 .. NBuckets : S[n] = 0
  OBVIOUS
<1> HIDE DEF S
<1>3. RunningTotals(S)
  BY <1>1, <1>2, Steps DEF RunningTotals
<1>4. Dropping = {}
  BY <1>1 DEF Dropping, Idle
<1>5. count.hist = S[NBuckets] + Cardinality(Dropping)
  BY <1>1, <1>2, <1>4, Steps, Empty DEF Zero
<1>6. reader.at = "idle" /\ ~snap.final /\ snap.cum = 0 /\ snap.next = 0
  BY <1>1 DEF NoSnapshot
<1>7. Totals(S)
  BY <1>3, <1>5, <1>6 DEF Totals
<1> QED BY <1>2, <1>6, <1>7 DEF Swept, QuantileIsABucket

\* The histogram and the workers on their way to it stay as they are.
LEMMA SweptKept ==
  ASSUME Swept, UNCHANGED buckets, count'.hist = count.hist, Dropping' = Dropping,
         UNCHANGED <<reader, snap>>, ~snap.final
  PROVE  Swept'
<1>1. PICK S \in [0 .. NBuckets -> Nat] : Totals(S)
  BY DEF Swept
<1>2. Totals(S)'
  BY <1>1 DEF Totals, RunningTotals
<1> QED BY <1>2 DEF Swept, QuantileIsABucket

LEMMA SweptCounting ==
  ASSUME IInv, Swept, NEW w \in Workers,
         End(w) \/ Complete(w) \/ Abort(w) \/ Conclude(w)
  PROVE  Swept'
<1>1. \/ Moves(w, "probing", "ended") \/ Moves(w, "ended", "completed")
      \/ Moves(w, "completed", "aborted") \/ Moves(w, "aborted", "concluded")
  BY DEF End, Complete, Abort, Conclude
<1>2. Dropping' = Dropping /\ UNCHANGED <<reader, snap>> /\ ~snap.final
  BY <1>1, Moved DEF Dropping
<1>3. UNCHANGED buckets /\ count'.hist = count.hist
  BY DEF IInv, TypeOK, End, Complete, Abort, Conclude, Add, Zero
<1> QED BY <1>2, <1>3, SweptKept

LEMMA SweptBegin ==
  ASSUME IInv, Swept, NEW w \in Workers, Begin(w)
  PROVE  Swept'
<1>1. PICK k \in Kinds, o \in 0 .. NBuckets :
         worker' = [worker EXCEPT ![w] = [at |-> "probing", kind |-> k,
                       bucket |-> BucketOf(o), left |-> worker[w].left - 1]]
  BY DEF Begin
<1>2. /\ worker[w].at = "idle" /\ worker[w].left > 0 /\ Add("inFlight")
      /\ UNCHANGED <<reader, snap>>
  BY DEF Begin
<1>3. DOMAIN worker = Workers /\ worker[w].left \in Nat
  BY Fields DEF IInv, TypeOK
<1>4. worker'[w].at = "probing" /\ \A v \in Workers \ {w} : worker'[v] = worker[v]
  BY <1>1, <1>3
<1>5. Dropping' = Dropping
  BY <1>2, <1>4 DEF Dropping
<1>6. ~snap.final
  BY <1>2, <1>3 DEF IInv, Settled, Final
<1>7. UNCHANGED buckets /\ count'.hist = count.hist
  BY <1>2, Added DEF IInv, Zero
<1> QED BY <1>2, <1>5, <1>6, <1>7, SweptKept

LEMMA SweptStalled ==
  ASSUME IInv, Swept, NEW w \in Workers, Stalled(w)
  PROVE  Swept'
<1>1. /\ worker[w].at = "dropped" /\ UNCHANGED <<reader, snap>>
      /\ worker' = [worker EXCEPT ![w] = Idle(worker[w].left)]
  BY DEF Stalled, Returns
<1>2. DOMAIN worker = Workers
  BY DEF IInv, TypeOK
<1>3. worker'[w].at = "idle" /\ \A v \in Workers \ {w} : worker'[v] = worker[v]
  BY <1>1, <1>2 DEF Idle
<1>4. Dropping' = Dropping
  BY <1>1, <1>3 DEF Dropping
<1>5. ~snap.final
  BY <1>1 DEF IInv, Settled, Final
<1>6. UNCHANGED buckets /\ count'.hist = count.hist
  BY Added DEF Stalled, IInv, Zero
<1> QED BY <1>1, <1>4, <1>5, <1>6, SweptKept

LEMMA SweptTally ==
  ASSUME IInv, Swept, NEW w \in Workers, Tally(w)
  PROVE  Swept'
<1>1. Moves(w, "concluded", "tallied") /\ Add("hist")
  BY DEF Tally
<1>2. /\ Dropping' = Dropping \cup {w} /\ w \notin Dropping
      /\ UNCHANGED <<reader, snap>> /\ ~snap.final
  BY <1>1, Moved DEF Dropping
<1>3. buckets' = buckets /\ count'.hist = count.hist + 1
  BY <1>1, Added DEF IInv, Zero
<1>4. PICK S \in [0 .. NBuckets -> Nat] : Totals(S)
  BY DEF Swept
<1>5. Dropping \in SUBSET Workers
  BY DEF Dropping
<1>6. Cardinality(Dropping') = Cardinality(Dropping) + 1 /\ Cardinality(Dropping) \in Nat
  BY <1>2, <1>5, Joins, SomeWorkers
<1>7. count'.hist = S[NBuckets] + Cardinality(Dropping')
  <2>1. count.hist = S[NBuckets] + Cardinality(Dropping) /\ S[NBuckets] \in Nat
    BY <1>4, Steps DEF Totals
  <2> QED BY <1>3, <1>6, <2>1
<1>8. Totals(S)'
  BY <1>2, <1>3, <1>4, <1>7 DEF Totals, RunningTotals
<1> QED BY <1>2, <1>8 DEF Swept, QuantileIsABucket

LEMMA SweptDrop ==
  ASSUME IInv, Swept, NEW w \in Workers, Drop(w)
  PROVE  Swept'
<1>0. PICK b \in Buckets : b = worker[w].bucket
  BY Fields DEF IInv
<1>1. /\ Moves(w, "tallied", "dropped") /\ count' = count
      /\ buckets' = [buckets EXCEPT ![b] = buckets[b] + 1]
  BY <1>0 DEF Drop
<1>2. /\ Dropping' = Dropping \ {w} /\ w \in Dropping
      /\ UNCHANGED <<reader, snap>> /\ ~snap.final
  BY <1>1, Moved DEF Dropping
<1>3. PICK S \in [0 .. NBuckets -> Nat] : Totals(S)
  BY DEF Swept
<1>4. b \in Buckets /\ buckets \in [Buckets -> Nat]
  BY DEF IInv, TypeOK
<1> DEFINE T == [n \in 0 .. NBuckets |-> IF n > b THEN S[n] + 1 ELSE S[n]]
<1>5. \A n \in 0 .. NBuckets : T[n] = IF n > b THEN S[n] + 1 ELSE S[n]
  OBVIOUS
<1>6. T \in [0 .. NBuckets -> Nat]
  OBVIOUS
<1> HIDE DEF T
<1>7. RunningTotals(S)
  BY <1>3 DEF Totals
<1>8. RunningTotals(T)'
  <2>1. T[0] = 0
    BY <1>4, <1>5, <1>7, Steps DEF RunningTotals, Buckets
  <2>2. ASSUME NEW a \in Buckets
        PROVE  T[a + 1] = T[a] + buckets'[a]
    <3>1. /\ S[a + 1] = S[a] + buckets[a] /\ S[a] \in Nat /\ buckets[a] \in Nat
          /\ T[a + 1] = (IF a + 1 > b THEN S[a + 1] + 1 ELSE S[a + 1])
          /\ T[a] = (IF a > b THEN S[a] + 1 ELSE S[a])
      BY <1>4, <1>5, <1>7, Steps DEF RunningTotals
    <3>2. buckets'[a] = IF a = b THEN buckets[a] + 1 ELSE buckets[a]
      BY <1>1, <1>4
    <3>3. a \in Nat /\ b \in Nat
      BY <1>4 DEF Buckets
    <3> QED BY <3>1, <3>2, <3>3
  <2> QED BY <1>6, <2>1, <2>2 DEF RunningTotals
<1>9. count'.hist = T[NBuckets] + Cardinality(Dropping')
  <2>1. Dropping \in SUBSET Workers
    BY DEF Dropping
  <2>2. Cardinality(Dropping') = Cardinality(Dropping) - 1 /\ Cardinality(Dropping) \in Nat
    BY <1>2, <2>1, Leaves, SomeWorkers
  <2>3. T[NBuckets] = S[NBuckets] + 1 /\ S[NBuckets] \in Nat
    BY <1>4, <1>5, Steps
  <2>4. count.hist = S[NBuckets] + Cardinality(Dropping)
    BY <1>3 DEF Totals
  <2> QED BY <1>1, <2>2, <2>3, <2>4
<1>10. Totals(T)'
  BY <1>2, <1>8, <1>9 DEF Totals
<1> QED BY <1>2, <1>6, <1>10 DEF Swept, QuantileIsABucket

\* A step of a snapshot leaves the histogram alone.
LEMMA SameTotals ==
  ASSUME Swept, UNCHANGED <<worker, count, buckets>>
  PROVE  \E S \in [0 .. NBuckets -> Nat] :
            /\ Totals(S)
            /\ RunningTotals(S)' /\ count'.hist = S[NBuckets] + Cardinality(Dropping')
<1>1. PICK S \in [0 .. NBuckets -> Nat] : Totals(S)
  BY DEF Swept
<1>2. RunningTotals(S)' /\ Dropping' = Dropping
  BY <1>1 DEF Totals, RunningTotals, Dropping
<1> QED BY <1>1, <1>2 DEF Totals

LEMMA SweptReads ==
  ASSUME IInv, Swept,
         OpenSnapshot \/ ReadConclusive \/ ReadStalls \/ ReadInFlight
  PROVE  Swept'
<1>1. /\ UNCHANGED <<worker, count, buckets>>
      /\ reader'.at \in {"conclusive", "stalls", "inFlight", "total"}
      /\ snap'.cum = 0 /\ snap'.next = 0
  <2>1. snap \in SnapType /\ DOMAIN reader = {"at", "left"}
    BY DEF IInv, TypeOK, SnapType
  <2>2. CASE OpenSnapshot
    BY <2>1, <2>2 DEF OpenSnapshot, NoSnapshot
  <2>3. CASE ReadConclusive \/ ReadStalls \/ ReadInFlight
    BY <2>1, <2>3 DEF ReadConclusive, ReadStalls, ReadInFlight, Reads, Swept, SnapType
  <2> QED BY <2>2, <2>3
<1>2. PICK S \in [0 .. NBuckets -> Nat] :
         RunningTotals(S)' /\ count'.hist = S[NBuckets] + Cardinality(Dropping')
  BY <1>1, SameTotals
<1>3. Totals(S)'
  BY <1>1, <1>2 DEF Totals
<1> QED BY <1>1, <1>3 DEF Swept, QuantileIsABucket, Whole

LEMMA SweptTarget ==
  ASSUME IInv, Swept, ReadTotal
  PROVE  Swept'
<1>1. /\ UNCHANGED <<worker, count, buckets>> /\ reader.at = "total"
      /\ reader \in [at : {"idle", "conclusive", "stalls", "inFlight", "total",
                          "buckets"}, left : 0 .. Snapshots]
      /\ snap \in SnapType /\ count.hist \in Nat
  BY Fields DEF ReadTotal, Reads, IInv, TypeOK, SnapType
<1>2. snap.cum = 0 /\ snap.next = 0
  BY <1>1 DEF Swept
<1>3. PICK S \in [0 .. NBuckets -> Nat] :
         /\ Totals(S)
         /\ RunningTotals(S)' /\ count'.hist = S[NBuckets] + Cardinality(Dropping')
  BY <1>1, SameTotals
<1>4. CASE count.hist = 0 /\ Reads("total", "idle", snap)
  <2>1. reader'.at = "idle" /\ snap' = snap /\ count'.hist = 0
    BY <1>1, <1>4 DEF Reads
  <2>2. Totals(S)'
    BY <1>3, <2>1 DEF Totals
  <2> QED BY <1>2, <2>1, <2>2 DEF Swept, QuantileIsABucket
<1>5. CASE \E t \in 1 .. count.hist :
              Reads("total", "buckets", [snap EXCEPT !.target = t])
  <2>1. PICK t \in 1 .. count.hist :
           Reads("total", "buckets", [snap EXCEPT !.target = t])
    BY <1>5
  <2>2. /\ reader'.at = "buckets" /\ snap'.target = t /\ snap'.cum = 0
        /\ snap'.next = 0 /\ snap'.final = snap.final
    BY <1>1, <1>2, <2>1 DEF Reads, SnapType
  <2>3. snap.final => t <= S[NBuckets]
    <3>1. snap.final => Dropping = {}
      BY DEF IInv, Settled, Final, Dropping
    <3>2. count.hist = S[NBuckets] + Cardinality(Dropping) /\ S[NBuckets] \in Nat
      BY <1>3, Steps DEF Totals
    <3>3. snap.final => Cardinality(Dropping) = 0
      BY <3>1, Empty
    <3>4. t <= count.hist
      BY <1>1
    <3> QED BY <3>2, <3>3, <3>4
  <2>4. S[0] = 0 /\ 0 < t
    BY <1>1, <1>3 DEF Totals, RunningTotals
  <2>5. Totals(S)'
    BY <1>3, <2>2, <2>3, <2>4 DEF Totals
  <2> QED BY <2>2, <2>5 DEF Swept, QuantileIsABucket, Whole
<1> QED BY <1>4, <1>5 DEF ReadTotal

LEMMA SweptBucket ==
  ASSUME IInv, Swept, ReadBucket
  PROVE  Swept'
<1> DEFINE n == snap.next
           cum == snap.cum + buckets[n]
<1>1. /\ UNCHANGED <<worker, count, buckets>> /\ reader.at = "buckets"
      /\ snap \in SnapType
  BY DEF ReadBucket, Sweep, Answer, Reads, IInv, TypeOK, SnapType
<1>2. /\ cum \in Nat /\ buckets[n] \in Nat /\ snap.cum \in Nat
      /\ n \in Buckets /\ snap.target \in Nat
  BY Sweeps
<1>3. PICK S \in [0 .. NBuckets -> Nat] :
         /\ Totals(S)
         /\ RunningTotals(S)' /\ count'.hist = S[NBuckets] + Cardinality(Dropping')
  BY <1>1, SameTotals
<1>4. snap.final =>
         /\ cum = S[n + 1] /\ snap.cum < snap.target /\ snap.target <= S[NBuckets]
  BY <1>1, <1>2, <1>3 DEF Totals, RunningTotals
<1>5. \/ /\ cum >= snap.target /\ reader'.at = "idle"
         /\ snap' = [snap EXCEPT !.target = 0, !.cum = 0, !.next = 0, !.p = n]
      \/ /\ cum < snap.target /\ n = NBuckets - 1 /\ reader'.at = "idle"
         /\ snap' = [snap EXCEPT !.target = 0, !.cum = 0, !.next = 0, !.p = NBuckets]
      \/ /\ cum < snap.target /\ reader'.at = "buckets"
         /\ snap' = [snap EXCEPT !.cum = cum, !.next = n + 1]
  BY Sweeps
\* The target is reached in bucket n, which it was not before.
<1>6. CASE /\ cum >= snap.target /\ reader'.at = "idle"
           /\ snap' = [snap EXCEPT !.target = 0, !.cum = 0, !.next = 0, !.p = n]
  <2>1. snap'.p = n /\ snap'.cum = 0 /\ snap'.next = 0 /\ snap'.final = snap.final
    BY <1>1, <1>6 DEF SnapType
  <2>2. snap.final => n < NBuckets /\ buckets[n] > 0
    <3>1. n < NBuckets
      BY <1>2, Steps
    <3>2. snap.final => snap.cum < snap.target /\ cum >= snap.target
      BY <1>4, <1>6
    <3> QED BY <1>2, <3>1, <3>2
  <2>3. Totals(S)'
    BY <1>3, <1>6 DEF Totals
  <2>4. QuantileIsABucket'
    BY <1>1, <2>1, <2>2 DEF QuantileIsABucket
  <2> QED BY <2>1, <2>3, <2>4 DEF Swept
\* The last total is that of the histogram: the target cannot lie beyond it.
<1>7. CASE /\ cum < snap.target /\ n = NBuckets - 1 /\ reader'.at = "idle"
           /\ snap' = [snap EXCEPT !.target = 0, !.cum = 0, !.next = 0, !.p = NBuckets]
  <2>1. snap'.cum = 0 /\ snap'.next = 0 /\ snap'.final = snap.final
    BY <1>1, <1>7 DEF SnapType
  <2>2. ~snap.final
    <3>1. n + 1 = NBuckets /\ S[NBuckets] \in Nat
      BY <1>7, NBucketsAssumption, Steps
    <3> QED BY <1>2, <1>4, <1>7, <3>1
  <2>3. Totals(S)'
    BY <1>3, <1>7 DEF Totals
  <2> QED BY <2>1, <2>2, <2>3 DEF Swept, QuantileIsABucket
<1>8. CASE /\ cum < snap.target /\ reader'.at = "buckets"
           /\ snap' = [snap EXCEPT !.cum = cum, !.next = n + 1]
  <2>1. /\ snap'.cum = cum /\ snap'.next = n + 1 /\ snap'.final = snap.final
        /\ snap'.target = snap.target
    BY <1>1, <1>8 DEF SnapType
  <2>2. Totals(S)'
    BY <1>3, <1>4, <1>8, <2>1 DEF Totals
  <2> QED BY <1>8, <2>2 DEF Swept, QuantileIsABucket, Whole
<1> QED BY <1>5, <1>6, <1>7, <1>8

LEMMA SweptStutter ==
  ASSUME Swept, UNCHANGED vars
  PROVE  Swept'
<1>1. PICK S \in [0 .. NBuckets -> Nat] : Totals(S)
  BY DEF Swept
<1>2. Totals(S)'
  BY <1>1 DEF vars, Totals, RunningTotals, Dropping
<1> QED BY <1>2 DEF vars, Swept, QuantileIsABucket, Whole

\* The quantile of the snapshot taken after the run is a bucket that holds a
\* probe, for every q between 0 and 1 (metrics.go:371).
THEOREM QuantilesHoldAProbe == Spec => []QuantileIsABucket
<1>1. Init => Swept
  BY InitSwept
<1>2. IInv /\ Swept /\ [Next]_vars => Swept'
  <2> SUFFICES ASSUME IInv, Swept, [Next]_vars PROVE Swept'
    OBVIOUS
  <2>1. CASE \E w \in Workers : Begin(w) \/ End(w) \/ Observe(w)
    <3>1. PICK w \in Workers : Begin(w) \/ End(w) \/ Observe(w)
      BY <2>1
    <3> QED BY <3>1, SweptBegin, SweptCounting, SweptTally, SweptDrop,
               SweptStalled DEF Observe
  <2>2. CASE Snapshot
    BY <2>2, SweptReads, SweptTarget, SweptBucket DEF Snapshot
  <2>3. CASE Rest \/ UNCHANGED vars
    BY <2>3, SweptStutter DEF Rest
  <2> QED BY <2>1, <2>2, <2>3 DEF Next
<1>3. Swept => QuantileIsABucket
  BY DEF Swept
<1> QED BY <1>1, <1>2, <1>3, Inductive, PTL DEF Spec

=============================================================================
