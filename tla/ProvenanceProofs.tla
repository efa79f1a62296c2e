-------------------------- MODULE ProvenanceProofs --------------------------
(***************************************************************************)
(* Proofs about Provenance, for every set of lists and of scanners and     *)
(* however often the list is frozen and a scan started.                    *)
(***************************************************************************)
EXTENDS Provenance, FiniteSetTheorems, SequenceTheorems, TLAPS

-----------------------------------------------------------------------------
(* The inductive invariant.                                                *)

Records == [name : Words \cup {Absent}, conclusive : BOOLEAN]

\* The process of `corpus` has a list while it writes.
Writing == freezer.at # "idle" => freezer.list \in Lists

\* A process has a list as soon as it has started, and has counted nothing
\* before it opens the result file; it writes metadata with its work done.
Started ==
    \A p \in Scanners : LET s == scan[p] IN
        /\ s.at # "idle" => s.list # <<>>
        /\ s.at \in {"list", "loaded"} =>
              /\ s.held = {} /\ ~s.cut
              /\ s.probed = 0 /\ s.skipped = 0 /\ s.good = 0
        /\ s.at = "meta" => s.todo = {} /\ s.held = {}

\* A process that was alone on the file and resumes holds nothing attempted, and
\* sizes a file that has nothing.
Alone ==
    \A p \in Scanners : Running(p) =>
        /\ \A q \in Scanners \ {p} : Running(q) => scan[p].shared
        /\ scan[p].todo \cap scan[p].held = {}
        /\ scan[p].resume /\ ~scan[p].shared => scan[p].held \cap Tried = {}
        /\ scan[p].at = "sizing" /\ ~scan[p].shared => results = <<>>

\* What is attempted was on some work list.  While there is only one, the file
\* has place for it, and a process that was not cut short leaves nothing out.
Worked ==
    /\ Tried \subseteq UNION opened.works
    /\ \A p \in Scanners : Running(p) =>
          /\ scan[p].work \in opened.works
          /\ scan[p].at # "sizing" => results # <<>>
    /\ \A W \in opened.works : opened.works = {W} =>
          /\ results # <<>> => W \subseteq DOMAIN results
          /\ \A p \in Scanners : Running(p) /\ ~scan[p].cut =>
                W \subseteq Tried \cup scan[p].todo \cup scan[p].held

\* A record has the name its list had, the metadata the checksum that came
\* with some list.
Bound ==
    /\ \A p \in Scanners : Running(p) => <<scan[p].list, scan[p].sha>> \in opened.bindings
    /\ \A i \in Tried : \E b \in opened.bindings : results[i].name = b[1][i]
    /\ meta # Absent => \E b \in opened.bindings : meta.sha = b[2]

\* What a first run has counted is what the file holds.
Counts(probed, skipped, good) ==
    /\ probed = Cardinality(Tried) /\ good = Cardinality(Found) /\ skipped = 0

First ==
    /\ opened.times \in Nat
    /\ opened.times = 0 =>
          results = <<>> /\ meta = Absent /\ \A p \in Scanners : ~Running(p)
    /\ opened.times = 1 =>
          /\ meta # Absent => Counts(meta.probed, meta.skipped, meta.conclusive)
          /\ \A p \in Scanners : Running(p) =>
                /\ meta = Absent
                /\ \A q \in Scanners \ {p} : ~Running(q)
                /\ IF scan[p].at = "sizing" THEN results = <<>>
                                            ELSE Len(results) = Len(scan[p].list)
                /\ scan[p].todo \cap scan[p].held = {}
                /\ (scan[p].todo \cup scan[p].held) \cap Tried = {}
                /\ Counts(scan[p].probed, scan[p].skipped, scan[p].good)

IInv == TypeOK /\ Writing /\ Started

-----------------------------------------------------------------------------
(* What the steps do to the records.                                       *)

LEMMA RecordFacts ==
  ASSUME TypeOK
  PROVE  /\ results \in Seq(Records)
         /\ DOMAIN results = 1 .. Len(results) /\ Len(results) \in Nat
         /\ Found \subseteq Tried /\ Tried \subseteq DOMAIN results
         /\ IsFiniteSet(Tried) /\ IsFiniteSet(Found)
<1>1. /\ results \in Seq(Records)
      /\ DOMAIN results = 1 .. Len(results) /\ Len(results) \in Nat
  BY DEF TypeOK, Records
<1>2. Found \subseteq Tried /\ Tried \subseteq DOMAIN results
  BY <1>1 DEF Found, Tried, Attempted, Blank
<1>3. IsFiniteSet(DOMAIN results)
  BY <1>1, FS_Interval
<1>4. IsFiniteSet(Tried) /\ IsFiniteSet(Found)
  BY <1>2, <1>3, FS_Subset
<1> QED BY <1>1, <1>2, <1>4

\* Storing leaves a record of the name at that place of the process's list, if
\* the file goes that far.
LEMMA StoreEffect ==
  ASSUME IInv, NEW p \in Scanners, scan[p].at = "running",
         NEW i \in scan[p].held, NEW c \in BOOLEAN,
         results' = With(i, [name |-> scan[p].list[i], conclusive |-> c])
  PROVE  /\ DOMAIN results' = DOMAIN results /\ Len(results') = Len(results)
         /\ results' \in Seq(Records)
         /\ i \in DOMAIN results => results'[i].name = scan[p].list[i]
         /\ \A j \in DOMAIN results \ {i} : results'[j] = results[j]
         /\ Tried' = Tried \cup ({i} \cap DOMAIN results)
         /\ Found' = IF c THEN Found \cup ({i} \cap DOMAIN results) ELSE Found \ {i}
<1> DEFINE r == [name |-> scan[p].list[i], conclusive |-> c]
<1>1. results \in Seq(Records) /\ DOMAIN results = 1 .. Len(results) /\ Len(results) \in Nat
  BY RecordFacts DEF IInv
<1>2. scan[p] \in Process /\ Running(p)
  BY DEF IInv, TypeOK, Running
<1>3. i \in 1 .. Len(scan[p].list) /\ scan[p].list \in Seq(Words)
  BY <1>2 DEF IInv, TypeOK, Process
<1>4. scan[p].list[i] \in Words
  BY <1>3
<1>5. r \in Records /\ r # Blank /\ r.name = scan[p].list[i] /\ r.conclusive = c
  BY <1>4, AbsentAssumption DEF Blank, Records
<1>6. results' = [j \in 1 .. Len(results) |-> IF j = i THEN r ELSE results[j]]
  BY <1>1 DEF With
<1> HIDE DEF r
<1>7. results' \in Seq(Records) /\ Len(results') = Len(results) /\ DOMAIN results' = DOMAIN results
  <2>1. \A j \in 1 .. Len(results) : results[j] \in Records
    BY <1>1
  <2> QED BY <1>1, <1>5, <1>6, <2>1
<1>8. /\ i \in DOMAIN results => results'[i] = r
      /\ \A j \in DOMAIN results \ {i} : results'[j] = results[j]
  BY <1>1, <1>6
<1>9. Tried' = Tried \cup ({i} \cap DOMAIN results)
  BY <1>5, <1>7, <1>8 DEF Tried, Attempted, Blank
<1>10. Found' = IF c THEN Found \cup ({i} \cap DOMAIN results) ELSE Found \ {i}
  BY <1>5, <1>7, <1>8 DEF Found
<1> QED BY <1>5, <1>7, <1>8, <1>9, <1>10

\* Sizing the file changes no record, but drops those beyond the new end.
LEMMA TruncateEffect ==
  ASSUME IInv, NEW p \in Scanners, Truncate(p)
  PROVE  /\ results' \in Seq(Records) /\ results' # <<>>
         /\ Len(results') = Len(scan[p].list)
         /\ DOMAIN results' = 1 .. Len(scan[p].list)
         /\ \A i \in DOMAIN results \cap DOMAIN results' : results'[i] = results[i]
         /\ Tried' = Tried \cap DOMAIN results' /\ Found' = Found \cap DOMAIN results'
         /\ UNCHANGED <<meta, opened>>
         /\ Running(p) /\ scan[p].at = "sizing"
         /\ scan'[p] = [scan[p] EXCEPT !.at = "running"]
         /\ \A q \in Scanners \ {p} : scan'[q] = scan[q]
<1> DEFINE n == Len(scan[p].list)
<1>1. results \in Seq(Records) /\ DOMAIN results = 1 .. Len(results) /\ Len(results) \in Nat
  BY RecordFacts DEF IInv
<1>2. n \in Nat /\ n > 0
  <2>1. scan[p] \in Process /\ scan[p].at = "sizing"
    BY DEF IInv, TypeOK, Truncate
  <2>2. scan[p].list \in Seq(Words) /\ scan[p].list # <<>>
    BY <2>1 DEF Process, IInv, Started
  <2> QED BY <2>2, EmptySeq
<1>3. results' = [i \in 1 .. n |-> Record(i)]
  BY DEF Truncate
<1> HIDE DEF n
<1>4. ASSUME NEW i \in 1 .. n PROVE Record(i) \in Records
  <2>1. i \in DOMAIN results => results[i] \in Records
    BY <1>1
  <2>2. Blank \in Records
    BY DEF Blank, Records
  <2> QED BY <2>1, <2>2 DEF Record
<1>5. results' \in Seq(Records) /\ Len(results') = n /\ DOMAIN results' = 1 .. n
  BY <1>2, <1>3, <1>4
<1>6. \A i \in DOMAIN results' : results'[i] = IF i \in DOMAIN results THEN results[i] ELSE Blank
  BY <1>3, <1>5 DEF Record
<1>7. Tried' = Tried \cap DOMAIN results'
  BY <1>6 DEF Tried, Attempted
<1>8. Found' = Found \cap DOMAIN results'
  BY <1>6 DEF Found, Blank
<1>9. results' # <<>>
  BY <1>2, <1>5, EmptySeq
<1>10. DOMAIN scan = Scanners
  BY DEF IInv, TypeOK
<1>11. /\ UNCHANGED <<meta, opened>> /\ Running(p) /\ scan[p].at = "sizing"
       /\ scan'[p] = [scan[p] EXCEPT !.at = "running"]
       /\ \A q \in Scanners \ {p} : scan'[q] = scan[q]
  BY <1>10 DEF Truncate, Becomes, Running
<1> QED BY <1>5, <1>6, <1>7, <1>8, <1>9, <1>11 DEF n

-----------------------------------------------------------------------------
(* Types.                                                                  *)

\* Everything that is not about the files of a running process.
ListTypes ==
    /\ corpus \in Seq(Words)
    /\ manifest \in [count : Nat, sha : Lists] \cup {Absent}
    /\ freezer \in [at : {"idle", "list", "closed", "manifest"},
                    list : Lists \cup {<<>>}]
    /\ freezes \in Nat
    /\ Writing

LEMMA InitType == Init => IInv
<1> SUFFICES ASSUME Init PROVE IInv
  OBVIOUS
<1>1. Idle \in Process
  BY DEF Idle, Process
<1>2. scan \in [Scanners -> Process] /\ \A p \in Scanners : scan[p] = Idle
  BY <1>1 DEF Init
<1>3. \A p \in Scanners : ~Running(p)
  BY <1>2 DEF Running, Idle
<1>4. TypeOK
  BY <1>2, <1>3 DEF Init, NoFreeze, TypeOK
<1>5. Started
  BY <1>2 DEF Started, Idle
<1>6. Writing
  BY DEF Init, Writing, NoFreeze
<1> QED BY <1>4, <1>5, <1>6 DEF IInv

LEMMA ListWords == \A l \in Lists : l \in Seq(Words)
  BY ListsAssumption DEF Words

\* The steps of `corpus`.
LEMMA FreezerType ==
  ASSUME IInv,
         (\E l \in Lists : Freeze(l) \/ Edit(l)) \/ Flush \/ WriteManifest \/ FreezeKilled
  PROVE  ListTypes' /\ UNCHANGED <<results, meta, scan, runs, opened>>
<1>1. ListTypes
  BY DEF IInv, TypeOK, Writing, ListTypes
<1>2. ASSUME NEW l \in Lists, Freeze(l)
      PROVE  ListTypes' /\ UNCHANGED <<results, meta, scan, runs, opened>>
  BY <1>1, <1>2 DEF Freeze, OnlyList, ListTypes, Writing
<1>3. ASSUME NEW l \in Lists, Edit(l)
      PROVE  ListTypes' /\ UNCHANGED <<results, meta, scan, runs, opened>>
  BY <1>1, <1>3, ListWords DEF Edit, OnlyList, ListTypes, Writing
<1>4. CASE Flush
  <2>1. freezer.list \in Seq(Words)
    BY <1>1, <1>4, ListWords DEF ListTypes, Writing, Flush
  <2>2. PICK k \in 1 .. Len(freezer.list), cut \in BOOLEAN :
          /\ corpus' = SubSeq(freezer.list, 1, k)
                          \o (IF cut THEN <<Fragment>> ELSE <<>>)
          /\ freezer' = [freezer EXCEPT
                !.at = IF k = Len(freezer.list) THEN "closed" ELSE "list"]
    BY <1>4 DEF Flush
  <2>3. \A i \in 1 .. k : freezer.list[i] \in Words
    BY <2>1
  <2>4. SubSeq(freezer.list, 1, k) \in Seq(Words)
    BY <2>1, <2>2, <2>3, SubSeqProperties
  <2>5. (IF cut THEN <<Fragment>> ELSE <<>>) \in Seq(Words)
    <3>1. Fragment \in Words
      BY DEF Words
    <3>2. <<Fragment>> \in Seq(Words) /\ <<>> \in Seq(Words)
      BY <3>1
    <3> QED BY <3>2
  <2>6. corpus' \in Seq(Words)
    BY <2>2, <2>4, <2>5, ConcatProperties
  <2> QED BY <1>1, <1>4, <2>2, <2>6 DEF Flush, OnlyList, ListTypes, Writing
<1>5. CASE WriteManifest
  <2>1. CASE freezer.at = "closed"
    BY <1>1, <1>5, <2>1 DEF WriteManifest, ListTypes, Writing
  <2>2. CASE freezer.at = "manifest"
    <3>1. freezer.list \in Lists /\ Len(freezer.list) \in Nat
      BY <2>2, <1>1, ListsAssumption DEF ListTypes, Writing
    <3> QED BY <1>1, <1>5, <2>2, <3>1 DEF WriteManifest, NoFreeze, ListTypes, Writing
  <2> QED BY <1>5, <2>1, <2>2 DEF WriteManifest
<1>6. CASE FreezeKilled
  BY <1>1, <1>6 DEF FreezeKilled, NoFreeze, OnlyList, ListTypes, Writing
<1> QED BY <1>2, <1>3, <1>4, <1>5, <1>6

\* One process is in order: its type, its work list and its beginning or end.
Sound(s) ==
    /\ s \in Process
    /\ s.at \in {"sizing", "running", "meta"} =>
          /\ s.todo \cup s.held \subseteq s.work
          /\ s.work \subseteq 1 .. Len(s.list)
    /\ s.at # "idle" => s.list # <<>>
    /\ s.at \in {"list", "loaded"} =>
          /\ s.held = {} /\ ~s.cut
          /\ s.probed = 0 /\ s.skipped = 0 /\ s.good = 0
    /\ s.at = "meta" => s.todo = {} /\ s.held = {}

Files ==
    /\ results \in Seq(Records)
    /\ meta \in [sha : Lists \cup {Absent}, probed : Nat, skipped : Nat,
                 conclusive : Nat] \cup {Absent}
    /\ runs \in Nat

LEMMA InvariantParts ==
  IInv <=> /\ ListTypes /\ Files
           /\ scan \in [Scanners -> Process]
           /\ \A p \in Scanners : Sound(scan[p])
  BY DEF IInv, TypeOK, Started, ListTypes, Writing, Files, Records, Sound, Running

LEMMA InvariantPartsNext ==
  (ListTypes /\ Files /\ scan \in [Scanners -> Process])'
  /\ (\A p \in Scanners : Sound(scan[p])') => IInv'
  BY DEF IInv, TypeOK, Started, ListTypes, Writing, Files, Records, Sound, Running

\* A step of one process need only be sound itself.
LEMMA BecomesSound ==
  ASSUME IInv, NEW p \in Scanners, NEW s, Becomes(p, s), Files', Sound(s)
  PROVE  IInv'
<1>1. ListTypes /\ scan \in [Scanners -> Process] /\ \A q \in Scanners : Sound(scan[q])
  BY InvariantParts
<1>2. scan' = [scan EXCEPT ![p] = s] /\ ListTypes'
  BY <1>1 DEF Becomes, ListTypes, Writing
<1>3. scan' \in [Scanners -> Process]
  BY <1>1, <1>2 DEF Sound
<1>4. ASSUME NEW q \in Scanners PROVE Sound(scan[q])'
  BY <1>1, <1>2, <1>4 DEF Sound
<1> QED BY <1>2, <1>3, <1>4, InvariantPartsNext

LEMMA IdleSound == Sound(Idle)
  BY DEF Sound, Idle, Process

LEMMA QuitsType ==
  ASSUME IInv, NEW p \in Scanners, Quits(p)
  PROVE  IInv'
<1>1. Files'
  BY InvariantParts DEF Files, Quits
<1> QED BY <1>1, IdleSound, BecomesSound DEF Quits

LEMMA LoadListType ==
  ASSUME IInv, NEW p \in Scanners, LoadList(p)
  PROVE  IInv'
<1> DEFINE s == [Idle EXCEPT !.at = "list", !.list = corpus]
<1>1. Files'
  BY InvariantParts DEF Files, LoadList
<1>2. corpus \in Seq(Words) /\ corpus # <<>> /\ Becomes(p, s)
  BY InvariantParts DEF ListTypes, LoadList
<1>3. Sound(s)
  BY <1>2 DEF Sound, Process, Idle
<1> HIDE DEF s
<1> QED BY <1>1, <1>2, <1>3, BecomesSound

LEMMA LoadManifestType ==
  ASSUME IInv, NEW p \in Scanners, LoadManifest(p)
  PROVE  IInv'
<1> DEFINE sha == IF manifest = Absent THEN Absent ELSE manifest.sha
           s == [scan[p] EXCEPT !.at = "loaded", !.sha = sha]
<1>1. Files'
  BY InvariantParts DEF Files, LoadManifest
<1>2. Becomes(p, s) \/ Becomes(p, Idle)
  BY DEF LoadManifest
<1>3. sha \in Lists \cup {Absent}
  BY InvariantParts DEF ListTypes
<1>4. Sound(scan[p]) /\ scan[p].at = "list"
  BY InvariantParts DEF LoadManifest
<1>5. Sound(s)
  <2> HIDE DEF sha
  <2> QED BY <1>3, <1>4 DEF Sound, Process
<1> HIDE DEF s
<1> QED BY <1>1, <1>2, <1>5, IdleSound, BecomesSound

LEMMA FeedType ==
  ASSUME IInv, NEW p \in Scanners, Feed(p)
  PROVE  IInv'
<1> DEFINE s == scan[p]
<1>1. Files'
  BY InvariantParts DEF Files, Feed
<1>2. Sound(s) /\ s.at = "running"
  BY InvariantParts DEF Feed
<1>3. PICK i \in s.todo :
        \/ Becomes(p, [s EXCEPT !.todo = @ \ {i}, !.skipped = @ + 1])
        \/ Becomes(p, [s EXCEPT !.todo = @ \ {i}, !.held = @ \cup {i}])
  BY DEF Feed
<1> DEFINE skips == [s EXCEPT !.todo = @ \ {i}, !.skipped = @ + 1]
           feeds == [s EXCEPT !.todo = @ \ {i}, !.held = @ \cup {i}]
<1>4. i \in Nat /\ s \in Process /\ s.skipped + 1 \in Nat
  BY <1>2, <1>3 DEF Sound, Process
<1>5. Sound(skips)
  <2>1. /\ skips \in Process /\ skips.at = "running" /\ skips.todo = s.todo \ {i}
        /\ skips.held = s.held /\ skips.work = s.work /\ skips.list = s.list
    <3> HIDE DEF s
    <3> QED BY <1>2, <1>4 DEF Process
  <2> HIDE DEF s, skips
  <2> QED BY <1>2, <2>1 DEF Sound
<1>6. Sound(feeds)
  <2>1. /\ feeds \in Process /\ feeds.at = "running" /\ feeds.todo = s.todo \ {i}
        /\ feeds.held = s.held \cup {i} /\ feeds.work = s.work /\ feeds.list = s.list
    <3> HIDE DEF s
    <3> QED BY <1>2, <1>4 DEF Process
  <2> HIDE DEF s, feeds
  <2> QED BY <1>2, <1>3, <2>1 DEF Sound
<1> HIDE DEF s
<1> QED BY <1>1, <1>3, <1>5, <1>6, BecomesSound

LEMMA StoreType ==
  ASSUME IInv, NEW p \in Scanners, Store(p)
  PROVE  IInv'
<1> DEFINE s == scan[p]
<1>1. Sound(s) /\ s.at = "running"
  BY InvariantParts DEF Store
<1>2. PICK i \in s.held, c \in BOOLEAN :
        /\ results' = With(i, [name |-> s.list[i], conclusive |-> c])
        /\ Becomes(p, [s EXCEPT !.held = @ \ {i}, !.probed = @ + 1,
                                !.good = IF c THEN @ + 1 ELSE @])
  BY DEF Store
<1>3. Files'
  BY <1>1, <1>2, StoreEffect, InvariantParts DEF Files, Store
<1> DEFINE m == [s EXCEPT !.held = @ \ {i}, !.probed = @ + 1,
                          !.good = IF c THEN @ + 1 ELSE @]
<1>4. Sound(m)
  <2>1. s \in Process /\ s.probed + 1 \in Nat /\ s.good + 1 \in Nat /\ s.good \in Nat
    BY <1>1 DEF Sound, Process
  <2>2. /\ m \in Process /\ m.at = "running" /\ m.todo = s.todo
        /\ m.held = s.held \ {i} /\ m.work = s.work /\ m.list = s.list
    <3> HIDE DEF s
    <3> QED BY <1>1, <2>1 DEF Process
  <2> HIDE DEF s, m
  <2> QED BY <1>1, <2>2 DEF Sound
<1> HIDE DEF s
<1> QED BY <1>2, <1>3, <1>4, BecomesSound

LEMMA InterruptType ==
  ASSUME IInv, NEW p \in Scanners, Interrupt(p)
  PROVE  IInv'
<1> DEFINE s == [scan[p] EXCEPT !.todo = {}, !.cut = TRUE]
<1>1. Files'
  BY InvariantParts DEF Files, Interrupt
<1>2. Sound(scan[p]) /\ scan[p].at = "running" /\ Becomes(p, s)
  BY InvariantParts DEF Interrupt
<1>3. Sound(s)
  BY <1>2 DEF Sound, Process
<1> HIDE DEF s
<1> QED BY <1>1, <1>2, <1>3, BecomesSound

LEMMA WriteMetaType ==
  ASSUME IInv, NEW p \in Scanners, WriteMeta(p)
  PROVE  IInv'
<1> DEFINE s == scan[p]
<1>1. Sound(s) /\ Files
  BY InvariantParts
<1>2. CASE s.at = "running"
  <2>1. /\ s.todo = {} /\ s.held = {} /\ meta' = Absent
        /\ Becomes(p, [s EXCEPT !.at = "meta"]) /\ UNCHANGED <<results, runs>>
    BY <1>2 DEF WriteMeta
  <2>2. Sound([s EXCEPT !.at = "meta"])
    <3> HIDE DEF s
    <3> QED BY <1>1, <1>2, <2>1 DEF Sound, Process
  <2>3. Files'
    BY <1>1, <2>1 DEF Files
  <2> HIDE DEF s
  <2> QED BY <2>1, <2>2, <2>3, BecomesSound
<1>3. CASE s.at = "meta"
  <2>1. /\ meta' = [sha |-> s.sha, probed |-> s.probed, skipped |-> s.skipped,
                    conclusive |-> s.good]
        /\ Becomes(p, Idle) /\ UNCHANGED <<results, runs>>
    BY <1>3 DEF WriteMeta
  <2>2. Files'
    <3> HIDE DEF s
    <3> QED BY <1>1, <2>1 DEF Files, Sound, Process
  <2> QED BY <2>1, <2>2, IdleSound, BecomesSound
<1> QED BY <1>2, <1>3 DEF WriteMeta

LEMMA TruncateType ==
  ASSUME IInv, NEW p \in Scanners, Truncate(p)
  PROVE  IInv'
<1> DEFINE s == [scan[p] EXCEPT !.at = "running"]
<1>1. Files'
  BY TruncateEffect, InvariantParts DEF Files, Truncate
<1>2. Sound(scan[p]) /\ scan[p].at = "sizing" /\ Becomes(p, s)
  BY InvariantParts DEF Truncate
<1>3. Sound(s)
  BY <1>2 DEF Sound, Process
<1> HIDE DEF s
<1> QED BY <1>1, <1>2, <1>3, BecomesSound

LEMMA StatType ==
  ASSUME IInv, NEW p \in Scanners, NEW W, NEW r \in BOOLEAN, Stat(p, W, r)
  PROVE  IInv'
<1> DEFINE shared == \E o \in Scanners : Running(o)
           at == IF results = <<>> THEN "sizing" ELSE "running"
           s == [scan[p] EXCEPT !.at = at, !.work = W, !.todo = W,
                                !.resume = r, !.shared = shared]
<1>1. /\ ListTypes /\ Files /\ scan \in [Scanners -> Process]
      /\ \A q \in Scanners : Sound(scan[q])
  BY InvariantParts
<1>2. /\ scan[p].at = "loaded" /\ W \subseteq 1 .. Len(scan[p].list)
      /\ scan' = [q \in Scanners |->
            IF q = p THEN s ELSE [scan[q] EXCEPT !.shared = @ \/ Running(q)]]
      /\ UNCHANGED <<corpus, manifest, freezer, freezes, results, meta, runs>>
  BY DEF Stat
<1>3. ListTypes' /\ Files'
  BY <1>1, <1>2 DEF ListTypes, Writing, Files
<1>4. shared \in BOOLEAN /\ at \in {"sizing", "running"}
  OBVIOUS
<1>5. ASSUME NEW q \in Scanners PROVE Sound(scan[q])'
  <2>1. CASE q = p
    <3>1. scan'[q] = s
      BY <1>2, <2>1
    <3>2. Sound(scan[p]) /\ scan[p] \in Process
      BY <1>1 DEF Sound
    <3>3. W \in SUBSET Nat
      <4>1. scan[p].list \in Seq(Words)
        BY <3>2 DEF Process
      <4>2. Len(scan[p].list) \in Nat
        BY <4>1
      <4>3. W \subseteq 1 .. Len(scan[p].list)
        BY <1>2
      <4> QED BY <4>2, <4>3
    <3>4. /\ s \in Process /\ s.at = at /\ s.todo = W /\ s.work = W
          /\ s.held = scan[p].held /\ s.list = scan[p].list
      <4> HIDE DEF shared, at
      <4> QED BY <1>4, <3>2, <3>3 DEF Process
    <3> HIDE DEF s, at
    <3> QED BY <1>2, <1>4, <3>1, <3>2, <3>4 DEF Sound
  <2>2. CASE q # p
    <3>1. scan'[q] = [scan[q] EXCEPT !.shared = @ \/ Running(q)]
      BY <1>2, <2>2
    <3>2. (scan[q].shared \/ Running(q)) \in BOOLEAN
      OBVIOUS
    <3>3. scan[q] \in Process /\ Sound(scan[q])
      BY <1>1 DEF Sound
    <3>4. PICK b \in BOOLEAN : scan'[q] = [scan[q] EXCEPT !.shared = b]
      BY <3>1, <3>2
    <3> HIDE DEF s
    <3>5. /\ scan'[q] \in Process
          /\ scan'[q] = [scan[q] EXCEPT !.shared = scan'[q].shared]
      BY <3>3, <3>4 DEF Process
    <3>6. /\ scan'[q].at = scan[q].at /\ scan'[q].list = scan[q].list
          /\ scan'[q].todo = scan[q].todo /\ scan'[q].held = scan[q].held
          /\ scan'[q].work = scan[q].work /\ scan'[q].cut = scan[q].cut
          /\ scan'[q].probed = scan[q].probed /\ scan'[q].good = scan[q].good
          /\ scan'[q].skipped = scan[q].skipped
      BY <3>3, <3>4 DEF Process
    <3> QED BY <3>3, <3>5, <3>6 DEF Sound
  <2> QED BY <2>1, <2>2
<1>6. scan' \in [Scanners -> Process]
  <2>1. \A q \in Scanners : scan'[q] \in Process
    BY <1>5 DEF Sound
  <2>2. DOMAIN scan' = Scanners /\ scan' = [q \in Scanners |-> scan'[q]]
    BY <1>2
  <2> QED BY <2>1, <2>2
<1> QED BY <1>3, <1>5, <1>6, InvariantPartsNext

-----------------------------------------------------------------------------
(* The kinds of steps.                                                     *)

\* A step of `corpus` touches nothing of the runs, any other is one of these.
Quiet == UNCHANGED <<results, meta, scan, opened>>

Step(p) ==
    \/ LoadList(p)
    \/ LoadManifest(p)
    \/ \E W : \E r \in BOOLEAN : Stat(p, W, r)
    \/ Truncate(p)
    \/ Quits(p)
    \/ Feed(p)
    \/ Store(p)
    \/ Interrupt(p)
    \/ WriteMeta(p)

LEMMA StepKinds ==
  ASSUME IInv, [Next]_vars
  PROVE  Quiet \/ \E p \in Scanners : Step(p)
<1>1. CASE UNCHANGED vars
  BY <1>1 DEF vars, Quiet
<1>2. CASE (\E l \in Lists : Freeze(l) \/ Edit(l)) \/ Flush \/ WriteManifest \/ FreezeKilled
  BY <1>2, FreezerType DEF Quiet
<1>3. ASSUME NEW p \in Scanners, Scan(p) PROVE Step(p)
  <2>1. ASSUME NEW W \in SUBSET (1 .. Len(scan[p].list)), NEW r \in BOOLEAN,
               Stat(p, W, r)
        PROVE  Step(p)
    BY <2>1 DEF Step
  <2>2. ASSUME RefusesSize(p) \/ Killed(p) PROVE Quits(p)
    BY <2>2 DEF RefusesSize, Killed
  <2> QED BY <1>3, <2>1, <2>2 DEF Scan, Step
<1> QED BY <1>1, <1>2, <1>3 DEF Next

LEMMA NextType ==
  ASSUME IInv, [Next]_vars
  PROVE  IInv'
<1>1. CASE UNCHANGED vars
  BY <1>1, InvariantParts, InvariantPartsNext
     DEF vars, ListTypes, Writing, Files, Sound
<1>2. CASE (\E l \in Lists : Freeze(l) \/ Edit(l)) \/ Flush \/ WriteManifest \/ FreezeKilled
  <2>1. ListTypes' /\ UNCHANGED <<results, meta, scan, runs, opened>>
    BY <1>2, FreezerType
  <2> QED BY <2>1, InvariantParts, InvariantPartsNext DEF Files, Sound
<1>3. ASSUME NEW p \in Scanners, Scan(p) PROVE IInv'
  <2>1. ASSUME NEW W, NEW r \in BOOLEAN, Stat(p, W, r) PROVE IInv'
    BY <2>1, StatType
  <2>2. ASSUME RefusesSize(p) \/ Killed(p) PROVE Quits(p)
    BY <2>2 DEF RefusesSize, Killed
  <2> QED BY <1>3, <2>1, <2>2, QuitsType, LoadListType, LoadManifestType,
             TruncateType, FeedType, StoreType, InterruptType, WriteMetaType DEF Scan
<1> QED BY <1>1, <1>2, <1>3 DEF Next

LEMMA Invariant == Spec => []IInv
<1>1. IInv /\ [Next]_vars => IInv'
  BY NextType
<1> QED BY InitType, <1>1, PTL DEF Spec

\* Types of the four files and of every process, and that a process with the
\* result file open has its work list within the list it read: sink.go:130 only
\* compares with that.
THEOREM TypeCorrect == Spec => []TypeOK
<1>1. IInv => TypeOK
  BY DEF IInv
<1> QED BY Invariant, <1>1, PTL

\* Who has the file open after a step that is not Stat, and what it has.
LEMMA StillRunning ==
  ASSUME IInv, NEW p \in Scanners, NEW s, Becomes(p, s),
         NEW q \in Scanners, Running(q)'
  PROVE  \/ q # p /\ Running(q) /\ scan'[q] = scan[q]
         \/ q = p /\ scan'[q] = s /\ s.at \in {"sizing", "running", "meta"}
<1>1. scan' = [scan EXCEPT ![p] = s] /\ DOMAIN scan = Scanners
  BY DEF Becomes, IInv, TypeOK
<1> QED BY <1>1 DEF Running

\* The steps at which p does not have the file open afterwards.
Leaves(p) == LoadList(p) \/ LoadManifest(p) \/ Quits(p)

LEMMA LeavesEffect ==
  ASSUME IInv, NEW p \in Scanners, Leaves(p)
  PROVE  /\ UNCHANGED <<results, meta, opened>>
         /\ \A q \in Scanners : Running(q)' => q # p /\ Running(q) /\ scan'[q] = scan[q]
<1>1. UNCHANGED <<results, meta, opened>>
  BY DEF Leaves, LoadList, LoadManifest, Quits
<1>2. PICK s : Becomes(p, s) /\ s.at \notin {"sizing", "running", "meta"}
  <2>1. CASE LoadList(p)
    <3>1. [Idle EXCEPT !.at = "list", !.list = corpus].at = "list"
      BY DEF Idle
    <3> QED BY <2>1, <3>1 DEF LoadList
  <2>2. CASE LoadManifest(p)
    <3> DEFINE s == [scan[p] EXCEPT !.at = "loaded",
                        !.sha = IF manifest = Absent THEN Absent ELSE manifest.sha]
    <3>1. scan[p] \in Process
      BY DEF IInv, TypeOK
    <3>2. s.at = "loaded"
      BY <3>1 DEF Process
    <3>3. Becomes(p, s) \/ Becomes(p, Idle)
      BY <2>2 DEF LoadManifest
    <3>4. Idle.at \notin {"sizing", "running", "meta"} /\ s.at \notin {"sizing", "running", "meta"}
      BY <3>2 DEF Idle
    <3> HIDE DEF s
    <3> QED BY <3>3, <3>4
  <2>3. CASE Quits(p)
    BY <2>3 DEF Quits, Idle
  <2> QED BY <2>1, <2>2, <2>3 DEF Leaves
<1> QED BY <1>1, <1>2, StillRunning

\* Opening the file: p is running now, the others still have what they had.
LEMMA OpensEffect ==
  ASSUME IInv, NEW p \in Scanners, NEW W, NEW r \in BOOLEAN, Stat(p, W, r)
  PROVE  /\ ~Running(p) /\ Running(p)'
         /\ scan'[p].at = IF results = <<>> THEN "sizing" ELSE "running"
         /\ scan'[p].list = scan[p].list
         /\ results = <<>> \/ Len(results) = Len(scan[p].list)
         /\ W \subseteq 1 .. Len(scan[p].list)
         /\ UNCHANGED <<results, meta>> /\ Tried' = Tried /\ Found' = Found
         /\ scan'[p].sha = scan[p].sha /\ scan'[p].work = W /\ scan'[p].todo = W
         /\ scan'[p].held = {} /\ scan'[p].resume = r /\ ~scan'[p].cut
         /\ scan'[p].probed = 0 /\ scan'[p].skipped = 0 /\ scan'[p].good = 0
         /\ scan'[p].shared <=> \E o \in Scanners : Running(o)
         /\ \A q \in Scanners \ {p} :
               /\ Running(q)' <=> Running(q)
               /\ Running(q) => scan'[q] = [scan[q] EXCEPT !.shared = TRUE]
<1> DEFINE shared == \E o \in Scanners : Running(o)
           at == IF results = <<>> THEN "sizing" ELSE "running"
           s == [scan[p] EXCEPT !.at = at, !.work = W, !.todo = W,
                                !.resume = r, !.shared = shared]
<1>1. /\ scan[p].at = "loaded"
      /\ scan' = [q \in Scanners |->
            IF q = p THEN s ELSE [scan[q] EXCEPT !.shared = @ \/ Running(q)]]
  BY DEF Stat
<1>2. scan'[p] = s
  BY <1>1
<1>3. scan[p] \in Process /\ Sound(scan[p])
  BY InvariantParts
<1>4. /\ scan[p].held = {} /\ ~scan[p].cut
      /\ scan[p].probed = 0 /\ scan[p].skipped = 0 /\ scan[p].good = 0
  BY <1>1, <1>3 DEF Sound
<1>5. /\ s.at = at /\ s.list = scan[p].list /\ s.sha = scan[p].sha
      /\ s.work = W /\ s.todo = W /\ s.held = scan[p].held /\ s.resume = r
      /\ s.cut = scan[p].cut /\ s.probed = scan[p].probed
      /\ s.skipped = scan[p].skipped /\ s.good = scan[p].good /\ s.shared = shared
  <2> HIDE DEF shared, at
  <2> QED BY <1>3 DEF Process
<1>6. ~Running(p) /\ Running(p)'
  BY <1>1, <1>2, <1>5 DEF Running
<1>7. ASSUME NEW q \in Scanners \ {p}
      PROVE  /\ Running(q)' <=> Running(q)
             /\ Running(q) => scan'[q] = [scan[q] EXCEPT !.shared = TRUE]
  <2>1. scan'[q] = [scan[q] EXCEPT !.shared = @ \/ Running(q)]
    BY <1>1
  <2>2. scan[q] \in Process
    BY InvariantParts
  <2>3. scan'[q].at = scan[q].at
    BY <2>1, <2>2 DEF Process
  <2>4. Running(q) => scan'[q] = [scan[q] EXCEPT !.shared = TRUE]
    BY <2>1, <2>2 DEF Process
  <2> QED BY <2>3, <2>4 DEF Running
<1>8. /\ results = <<>> \/ Len(results) = Len(scan[p].list)
      /\ W \subseteq 1 .. Len(scan[p].list)
      /\ UNCHANGED <<results, meta>> /\ Tried' = Tried /\ Found' = Found
  BY DEF Stat, Tried, Found, Attempted
<1> HIDE DEF s
<1> QED BY <1>2, <1>4, <1>5, <1>6, <1>7, <1>8

LEMMA OpensNoOther ==
  ASSUME IInv, NEW p \in Scanners, NEW W, NEW r \in BOOLEAN, Stat(p, W, r)
  PROVE  \A q \in Scanners \ {p} : Running(q)' <=> Running(q)
<1> SUFFICES ASSUME NEW q \in Scanners \ {p} PROVE Running(q)' <=> Running(q)
  OBVIOUS
<1>1. scan'[q] = [scan[q] EXCEPT !.shared = @ \/ Running(q)]
  BY DEF Stat
<1>2. scan[q] \in Process
  BY InvariantParts
<1>3. scan'[q].at = scan[q].at
  BY <1>1, <1>2 DEF Process
<1> QED BY <1>3 DEF Running

\* What the process holds after one of its own steps with the file open.
LEMMA FeedEffect ==
  ASSUME IInv, NEW p \in Scanners, Feed(p)
  PROVE  /\ Running(p) /\ UNCHANGED <<results, meta, opened>>
         /\ \A q \in Scanners \ {p} : scan'[q] = scan[q]
         /\ \E i \in scan[p].todo :
              \/ /\ scan[p].resume /\ Attempted(Record(i))
                 /\ scan'[p] = [scan[p] EXCEPT !.todo = @ \ {i}, !.skipped = @ + 1]
              \/ /\ ~(scan[p].resume /\ Attempted(Record(i)))
                 /\ scan'[p] = [scan[p] EXCEPT !.todo = @ \ {i}, !.held = @ \cup {i}]
<1>1. DOMAIN scan = Scanners
  BY DEF IInv, TypeOK
<1> QED BY <1>1 DEF Feed, Becomes, Running

LEMMA StoresEffect ==
  ASSUME IInv, NEW p \in Scanners, Store(p)
  PROVE  /\ Running(p) /\ UNCHANGED <<meta, opened>>
         /\ \A q \in Scanners \ {p} : scan'[q] = scan[q]
         /\ \E i \in scan[p].held, c \in BOOLEAN :
              /\ results' = With(i, [name |-> scan[p].list[i], conclusive |-> c])
              /\ scan'[p] = [scan[p] EXCEPT !.held = @ \ {i}, !.probed = @ + 1,
                                            !.good = IF c THEN @ + 1 ELSE @]
<1>1. DOMAIN scan = Scanners
  BY DEF IInv, TypeOK
<1> QED BY <1>1 DEF Store, Becomes, Running

LEMMA InterruptEffect ==
  ASSUME IInv, NEW p \in Scanners, Interrupt(p)
  PROVE  /\ Running(p) /\ UNCHANGED <<results, meta, opened>>
         /\ \A q \in Scanners \ {p} : scan'[q] = scan[q]
         /\ scan'[p] = [scan[p] EXCEPT !.todo = {}, !.cut = TRUE]
<1>1. DOMAIN scan = Scanners
  BY DEF IInv, TypeOK
<1> QED BY <1>1 DEF Interrupt, Becomes, Running

LEMMA WriteMetaEffect ==
  ASSUME IInv, NEW p \in Scanners, WriteMeta(p)
  PROVE  /\ Running(p) /\ UNCHANGED <<results, opened>>
         /\ scan[p].todo = {} /\ scan[p].held = {}
         /\ \A q \in Scanners \ {p} : scan'[q] = scan[q]
         /\ \/ /\ meta' = Absent /\ scan'[p] = [scan[p] EXCEPT !.at = "meta"]
               /\ scan[p].at = "running"
            \/ /\ meta' = [sha |-> scan[p].sha, probed |-> scan[p].probed,
                            skipped |-> scan[p].skipped, conclusive |-> scan[p].good]
               /\ scan'[p] = Idle
<1>1. DOMAIN scan = Scanners
  BY DEF IInv, TypeOK
<1>2. scan[p].at = "meta" => scan[p].todo = {} /\ scan[p].held = {}
  BY DEF IInv, Started
<1> QED BY <1>1, <1>2 DEF WriteMeta, Becomes, Running

\* The parts of a process that its own steps never touch while it has the file.
LEMMA KeepsItsFile ==
  ASSUME IInv, NEW p \in Scanners,
         Truncate(p) \/ Feed(p) \/ Store(p) \/ Interrupt(p) \/ WriteMeta(p),
         NEW q \in Scanners, Running(q)'
  PROVE  /\ Running(q) /\ scan'[q].list = scan[q].list /\ scan'[q].sha = scan[q].sha
         /\ scan'[q].work = scan[q].work /\ scan'[q].resume = scan[q].resume
         /\ scan'[q].shared = scan[q].shared
<1>1. scan[p] \in Process
  BY DEF IInv, TypeOK
<1>2. CASE q = p
  <2>1. CASE Feed(p)
    <3>1. PICK i \in scan[p].todo :
            \/ scan'[p] = [scan[p] EXCEPT !.todo = @ \ {i}, !.skipped = @ + 1]
            \/ scan'[p] = [scan[p] EXCEPT !.todo = @ \ {i}, !.held = @ \cup {i}]
      BY <2>1, FeedEffect
    <3> QED BY <1>1, <1>2, <2>1, <3>1, FeedEffect DEF Process
  <2>2. CASE Store(p)
    <3>1. PICK i \in scan[p].held, c \in BOOLEAN :
            scan'[p] = [scan[p] EXCEPT !.held = @ \ {i}, !.probed = @ + 1,
                                       !.good = IF c THEN @ + 1 ELSE @]
      BY <2>2, StoresEffect
    <3>2. Running(p)
      BY <2>2, StoresEffect
    <3> QED BY <1>1, <1>2, <3>1, <3>2 DEF Process
  <2>3. CASE Interrupt(p)
    <3>1. Running(p) /\ scan'[p] = [scan[p] EXCEPT !.todo = {}, !.cut = TRUE]
      BY <2>3, InterruptEffect
    <3> QED BY <1>1, <1>2, <3>1 DEF Process
  <2>4. CASE WriteMeta(p)
    <3>1. scan'[p] # Idle
      BY <1>2 DEF Running, Idle
    <3>2. Running(p) /\ scan'[p] = [scan[p] EXCEPT !.at = "meta"]
      BY <2>4, <3>1, WriteMetaEffect
    <3> QED BY <1>1, <1>2, <3>2 DEF Process
  <2>5. CASE Truncate(p)
    <3>1. Running(p) /\ scan'[p] = [scan[p] EXCEPT !.at = "running"]
      BY <2>5, TruncateEffect
    <3> QED BY <1>1, <1>2, <3>1 DEF Process
  <2> QED BY <2>1, <2>2, <2>3, <2>4, <2>5
<1>3. CASE q # p
  <2>1. scan'[q] = scan[q]
    BY <1>3, TruncateEffect, FeedEffect, StoresEffect, InterruptEffect, WriteMetaEffect
  <2> QED BY <2>1 DEF Running
<1> QED BY <1>2, <1>3

-----------------------------------------------------------------------------
(* The checksums bind the records to the names.                            *)

LEMMA BoundStep ==
  ASSUME IInv, Bound, [Next]_vars
  PROVE  Bound'
<1>1. CASE Quiet
  BY <1>1 DEF Quiet, Bound, Running, Tried, Attempted
<1>2. ASSUME NEW p \in Scanners, Leaves(p) PROVE Bound'
  BY <1>2, LeavesEffect DEF Bound, Tried, Attempted
<1>3. ASSUME NEW p \in Scanners, NEW W, NEW r \in BOOLEAN, Stat(p, W, r) PROVE Bound'
  <2>1. opened'.bindings = opened.bindings \cup {<<scan[p].list, scan[p].sha>>}
        /\ meta' = meta
    BY <1>3 DEF Stat
  <2>2. ASSUME NEW q \in Scanners, Running(q)'
        PROVE  <<scan'[q].list, scan'[q].sha>> \in opened'.bindings
    <3>1. CASE q = p
      <4>1. scan'[p].list = scan[p].list /\ scan'[p].sha = scan[p].sha
        BY <1>3, OpensEffect
      <4> QED BY <2>1, <3>1, <4>1
    <3>2. CASE q # p
      <4>1. Running(q) /\ scan'[q] = [scan[q] EXCEPT !.shared = TRUE]
        BY <1>3, <2>2, <3>2, OpensEffect
      <4>2. scan[q] \in Process
        BY DEF IInv, TypeOK
      <4>3. scan'[q].list = scan[q].list /\ scan'[q].sha = scan[q].sha
        BY <4>1, <4>2 DEF Process
      <4> QED BY <2>1, <4>1, <4>3 DEF Bound
    <3> QED BY <3>1, <3>2
  <2>3. Tried' = Tried /\ results' = results
    BY <1>3, OpensEffect
  <2> QED BY <2>1, <2>2, <2>3 DEF Bound
<1>4. ASSUME NEW p \in Scanners, Feed(p) \/ Interrupt(p) PROVE Bound'
  <2>1. UNCHANGED <<results, meta, opened>>
    BY <1>4, FeedEffect, InterruptEffect
  <2> QED BY <1>4, <2>1, KeepsItsFile DEF Bound, Tried, Attempted
<1>5. ASSUME NEW p \in Scanners, Store(p) PROVE Bound'
  <2>1. PICK i \in scan[p].held, c \in BOOLEAN :
          /\ results' = With(i, [name |-> scan[p].list[i], conclusive |-> c])
          /\ scan'[p] = [scan[p] EXCEPT !.held = @ \ {i}, !.probed = @ + 1,
                                        !.good = IF c THEN @ + 1 ELSE @]
    BY <1>5, StoresEffect
  <2>2. scan[p].at = "running" /\ Running(p) /\ UNCHANGED <<meta, opened>>
    BY <1>5, StoresEffect DEF Store
  <2>3. /\ i \in DOMAIN results => results'[i].name = scan[p].list[i]
        /\ \A j \in DOMAIN results \ {i} : results'[j] = results[j]
        /\ Tried' = Tried \cup ({i} \cap DOMAIN results)
    BY <2>1, <2>2, StoreEffect
  <2>4. <<scan[p].list, scan[p].sha>> \in opened.bindings
    BY <2>2 DEF Bound
  <2>5. ASSUME NEW j \in Tried' PROVE \E b \in opened.bindings : results'[j].name = b[1][j]
    <3>1. CASE j = i
      <4>1. i \in DOMAIN results
        BY <2>3, <3>1, RecordFacts DEF IInv
      <4> QED BY <2>3, <2>4, <3>1, <4>1
    <3>2. CASE j # i
      BY <2>3, <3>2 DEF Bound, Tried
    <3> QED BY <3>1, <3>2
  <2> QED BY <1>5, <2>2, <2>5, KeepsItsFile DEF Bound
<1>6. ASSUME NEW p \in Scanners, WriteMeta(p) PROVE Bound'
  <2>1. UNCHANGED <<results, opened>> /\ Running(p)
    BY <1>6, WriteMetaEffect
  <2>2. ASSUME meta' # Absent PROVE \E b \in opened.bindings : meta'.sha = b[2]
    <3>1. meta' = [sha |-> scan[p].sha, probed |-> scan[p].probed,
                   skipped |-> scan[p].skipped, conclusive |-> scan[p].good]
      BY <1>6, <2>2, WriteMetaEffect
    <3>2. meta'.sha = scan[p].sha
      BY <3>1
    <3>3. <<scan[p].list, scan[p].sha>> \in opened.bindings
      BY <2>1 DEF Bound
    <3> QED BY <3>2, <3>3
  <2> QED BY <1>6, <2>1, <2>2, KeepsItsFile DEF Bound, Tried, Attempted
<1>7. ASSUME NEW p \in Scanners, Truncate(p) PROVE Bound'
  <2>1. /\ UNCHANGED <<meta, opened>> /\ Tried' \subseteq Tried
        /\ \A i \in Tried' : results'[i] = results[i]
    BY <1>7, TruncateEffect DEF Tried
  <2> QED BY <1>7, <2>1, KeepsItsFile DEF Bound
<1> QED BY <1>1, <1>2, <1>3, <1>4, <1>5, <1>6, <1>7, StepKinds DEF Step, Leaves

\* The report never attaches a record to the wrong domain when the file was
\* opened for one list read with its own manifest, the list reported against is
\* the one its manifest was taken of, and there is metadata.
THEOREM ChecksumsBind == Spec => []ReportIsBound
<1>1. Init => Bound
  <2>1. Init => \A p \in Scanners : ~Running(p)
    BY DEF Init, Running, Idle
  <2> QED BY <2>1 DEF Init, Bound, Tried
<1>2. IInv /\ Bound => ReportIsBound
  <2> SUFFICES ASSUME IInv, Bound, NEW l \in Lists, Reports,
                      opened.bindings = {<<l, l>>}, manifest # Absent,
                      manifest.sha = corpus, meta # Absent
               PROVE  NamesAreRight
    BY DEF ReportIsBound
  <2>1. meta.sha = l
    BY DEF Bound
  <2>2. l # Absent
    BY AbsentAssumption
  <2>3. corpus = l
    BY <2>1, <2>2 DEF Reports
  <2> QED BY <2>3 DEF Bound, NamesAreRight
<1> QED BY Invariant, BoundStep, <1>1, <1>2, PTL DEF Spec

-----------------------------------------------------------------------------
(* What is overwritten, and what a rerun completes.                        *)

\* The parts a step of p with the file open may change, in one place.
LEMMA FedOrStored ==
  ASSUME IInv, NEW p \in Scanners, Feed(p) \/ Interrupt(p)
  PROVE  /\ Running(p) /\ Tried' = Tried /\ UNCHANGED <<results, meta, opened>>
         /\ scan'[p].at = scan[p].at
         /\ \A q \in Scanners \ {p} : scan'[q] = scan[q]
         /\ scan'[p].todo \subseteq scan[p].todo
         /\ scan[p].held \subseteq scan'[p].held
         /\ scan'[p].held \subseteq scan[p].held \cup (scan[p].todo \ scan'[p].todo)
         /\ scan[p].resume => (scan'[p].held \ scan[p].held) \cap Tried = {}
         /\ scan[p].cut => scan'[p].cut
         /\ ~scan'[p].cut => scan[p].todo \subseteq scan'[p].todo \cup scan'[p].held \cup Tried
<1>1. /\ Running(p) /\ UNCHANGED <<results, meta, opened>>
      /\ \A q \in Scanners \ {p} : scan'[q] = scan[q]
  BY FeedEffect, InterruptEffect
<1>2. Tried' = Tried
  BY <1>1 DEF Tried, Attempted
<1>3. scan[p] \in Process /\ Sound(scan[p])
  BY InvariantParts
<1>4. CASE Feed(p)
  <2>1. PICK i \in scan[p].todo :
          \/ /\ scan[p].resume /\ Attempted(Record(i))
             /\ scan'[p] = [scan[p] EXCEPT !.todo = @ \ {i}, !.skipped = @ + 1]
          \/ /\ ~(scan[p].resume /\ Attempted(Record(i)))
             /\ scan'[p] = [scan[p] EXCEPT !.todo = @ \ {i}, !.held = @ \cup {i}]
    BY <1>4, FeedEffect
  <2>3. Attempted(Record(i)) <=> i \in Tried
    BY DEF Tried, Record, Attempted
  <2>4. /\ scan'[p].todo = scan[p].todo \ {i} /\ scan'[p].cut = scan[p].cut
        /\ scan'[p].at = scan[p].at
        /\ \/ scan[p].resume /\ i \in Tried /\ scan'[p].held = scan[p].held
           \/ ~(scan[p].resume /\ i \in Tried) /\ scan'[p].held = scan[p].held \cup {i}
    BY <1>3, <2>1, <2>3 DEF Process
  <2> QED BY <1>1, <1>2, <2>1, <2>4
<1>5. CASE Interrupt(p)
  <2>1. scan'[p] = [scan[p] EXCEPT !.todo = {}, !.cut = TRUE]
    BY <1>5, InterruptEffect
  <2>2. /\ scan'[p].todo = {} /\ scan'[p].cut /\ scan'[p].held = scan[p].held
        /\ scan'[p].at = scan[p].at
    BY <1>3, <2>1 DEF Process
  <2> QED BY <1>1, <1>2, <2>2
<1> QED BY <1>4, <1>5

LEMMA StoredOne ==
  ASSUME IInv, NEW p \in Scanners, Store(p)
  PROVE  /\ scan[p].at = "running" /\ scan'[p].at = "running" /\ Running(p)
         /\ UNCHANGED <<meta, opened>>
         /\ \A q \in Scanners \ {p} : scan'[q] = scan[q]
         /\ \E i \in scan[p].held, c \in BOOLEAN :
              /\ Tried' = Tried \cup ({i} \cap DOMAIN results)
              /\ Found' = IF c THEN Found \cup ({i} \cap DOMAIN results) ELSE Found \ {i}
              /\ DOMAIN results' = DOMAIN results /\ Len(results') = Len(results)
              /\ scan'[p].list = scan[p].list
              /\ \A j \in DOMAIN results \ {i} : results'[j] = results[j]
              /\ scan'[p].held = scan[p].held \ {i} /\ scan'[p].todo = scan[p].todo
              /\ scan'[p].probed = scan[p].probed + 1
              /\ scan'[p].good = IF c THEN scan[p].good + 1 ELSE scan[p].good
              /\ scan'[p].skipped = scan[p].skipped /\ scan'[p].cut = scan[p].cut
<1>1. scan[p].at = "running" /\ scan[p] \in Process
  BY DEF Store, IInv, TypeOK
<1>2. /\ Running(p) /\ UNCHANGED <<meta, opened>>
      /\ \A q \in Scanners \ {p} : scan'[q] = scan[q]
  BY StoresEffect
<1>3. PICK i \in scan[p].held, c \in BOOLEAN :
        /\ results' = With(i, [name |-> scan[p].list[i], conclusive |-> c])
        /\ scan'[p] = [scan[p] EXCEPT !.held = @ \ {i}, !.probed = @ + 1,
                                      !.good = IF c THEN @ + 1 ELSE @]
  BY StoresEffect
<1>4. /\ Tried' = Tried \cup ({i} \cap DOMAIN results)
      /\ Found' = IF c THEN Found \cup ({i} \cap DOMAIN results) ELSE Found \ {i}
      /\ DOMAIN results' = DOMAIN results /\ Len(results') = Len(results)
      /\ \A j \in DOMAIN results \ {i} : results'[j] = results[j]
  BY <1>1, <1>3, StoreEffect
<1>5. /\ scan'[p].held = scan[p].held \ {i} /\ scan'[p].todo = scan[p].todo
      /\ scan'[p].probed = scan[p].probed + 1
      /\ scan'[p].good = IF c THEN scan[p].good + 1 ELSE scan[p].good
      /\ scan'[p].skipped = scan[p].skipped /\ scan'[p].cut = scan[p].cut
      /\ scan'[p].at = "running" /\ scan'[p].list = scan[p].list
  BY <1>1, <1>3 DEF Process
<1> QED BY <1>1, <1>2, <1>4, <1>5

LEMMA WroteMeta ==
  ASSUME IInv, NEW p \in Scanners, WriteMeta(p)
  PROVE  /\ Running(p) /\ UNCHANGED <<results, opened>>
         /\ Tried' = Tried /\ Found' = Found
         /\ \A q \in Scanners \ {p} : scan'[q] = scan[q]
         /\ \/ /\ meta' = Absent /\ Running(p)'
               /\ scan'[p].todo = {} /\ scan'[p].held = {} /\ scan[p].held = {}
               /\ scan[p].todo = {} /\ scan'[p].cut = scan[p].cut
               /\ scan'[p].probed = scan[p].probed /\ scan'[p].good = scan[p].good
               /\ scan'[p].skipped = scan[p].skipped
               /\ scan'[p].at = "meta" /\ scan'[p].list = scan[p].list
               /\ scan[p].at = "running"
            \/ /\ meta' # Absent => /\ meta'.probed = scan[p].probed
                                    /\ meta'.skipped = scan[p].skipped
                                    /\ meta'.conclusive = scan[p].good
               /\ ~Running(p)'
<1>1. /\ Running(p) /\ UNCHANGED <<results, opened>>
      /\ \A q \in Scanners \ {p} : scan'[q] = scan[q]
      /\ scan[p].todo = {} /\ scan[p].held = {}
  BY WriteMetaEffect
<1>2. Tried' = Tried /\ Found' = Found
  BY <1>1 DEF Tried, Found, Attempted
<1>3. scan[p] \in Process
  BY DEF IInv, TypeOK
<1>4. CASE /\ meta' = Absent /\ scan'[p] = [scan[p] EXCEPT !.at = "meta"]
           /\ scan[p].at = "running"
  <2>1. /\ scan'[p].todo = {} /\ scan'[p].held = {} /\ scan'[p].cut = scan[p].cut
        /\ scan'[p].probed = scan[p].probed /\ scan'[p].good = scan[p].good
        /\ scan'[p].skipped = scan[p].skipped /\ scan'[p].at = "meta"
        /\ scan'[p].list = scan[p].list
    BY <1>1, <1>3, <1>4 DEF Process
  <2> QED BY <1>1, <1>2, <1>4, <2>1 DEF Running
<1>5. CASE /\ meta' = [sha |-> scan[p].sha, probed |-> scan[p].probed,
                       skipped |-> scan[p].skipped, conclusive |-> scan[p].good]
           /\ scan'[p] = Idle
  <2>1. /\ meta'.probed = scan[p].probed /\ meta'.skipped = scan[p].skipped
        /\ meta'.conclusive = scan[p].good
    BY <1>5
  <2>2. ~Running(p)'
    BY <1>5 DEF Running, Idle
  <2> QED BY <1>1, <1>2, <2>1, <2>2
<1> QED BY <1>4, <1>5, WriteMetaEffect

LEMMA AloneStep ==
  ASSUME IInv, Alone, [Next]_vars
  PROVE  Alone'
<1>1. CASE Quiet
  BY <1>1 DEF Quiet, Alone, Running, Tried, Attempted
<1>2. ASSUME NEW p \in Scanners, Leaves(p) PROVE Alone'
  BY <1>2, LeavesEffect DEF Alone, Tried, Attempted
<1>3. ASSUME NEW p \in Scanners, NEW W, NEW r \in BOOLEAN, Stat(p, W, r) PROVE Alone'
  <2>1. Tried' = Tried /\ results' = results
    BY <1>3, OpensEffect
  <2>2. /\ scan'[p].at = "sizing" => results = <<>>
        /\ scan'[p].todo = W /\ scan'[p].held = {} /\ ~Running(p)
        /\ scan'[p].shared <=> \E o \in Scanners : Running(o)
    BY <1>3, OpensEffect
  <2>3. ASSUME NEW q \in Scanners \ {p}, Running(q)'
        PROVE  /\ Running(q) /\ scan'[q].todo = scan[q].todo /\ scan'[q].held = scan[q].held
               /\ scan'[q].resume = scan[q].resume /\ scan'[q].shared
    <3>1. Running(q) /\ scan'[q] = [scan[q] EXCEPT !.shared = TRUE]
      BY <1>3, <2>3, OpensEffect
    <3>2. scan[q] \in Process
      BY DEF IInv, TypeOK
    <3> QED BY <3>1, <3>2 DEF Process
  <2> QED BY <2>1, <2>2, <2>3 DEF Alone
<1>4. ASSUME NEW p \in Scanners, Feed(p) \/ Interrupt(p) PROVE Alone'
  <2>1. \A q \in Scanners : Running(q)' =>
          /\ Running(q)
          /\ scan'[q].resume = scan[q].resume /\ scan'[q].shared = scan[q].shared
    BY <1>4, KeepsItsFile
  <2>2. /\ Running(p) /\ Tried' = Tried /\ \A q \in Scanners \ {p} : scan'[q] = scan[q]
        /\ scan'[p].at = scan[p].at /\ results' = results
        /\ scan'[p].todo \subseteq scan[p].todo
        /\ scan'[p].held \subseteq scan[p].held \cup (scan[p].todo \ scan'[p].todo)
        /\ scan[p].resume => (scan'[p].held \ scan[p].held) \cap Tried = {}
    BY <1>4, FedOrStored
  <2> QED BY <2>1, <2>2 DEF Alone
<1>5. ASSUME NEW p \in Scanners, Store(p) PROVE Alone'
  <2>1. \A q \in Scanners : Running(q)' =>
          /\ Running(q)
          /\ scan'[q].resume = scan[q].resume /\ scan'[q].shared = scan[q].shared
    BY <1>5, KeepsItsFile
  <2>2. /\ Running(p) /\ \A q \in Scanners \ {p} : scan'[q] = scan[q]
        /\ scan'[p].at = "running"
    BY <1>5, StoredOne
  <2>3. PICK i \in scan[p].held :
          /\ Tried' \subseteq Tried \cup {i}
          /\ scan'[p].held = scan[p].held \ {i} /\ scan'[p].todo = scan[p].todo
    BY <1>5, StoredOne
  <2> QED BY <2>1, <2>2, <2>3 DEF Alone
<1>6. ASSUME NEW p \in Scanners, WriteMeta(p) PROVE Alone'
  <2>1. \A q \in Scanners : Running(q)' =>
          /\ Running(q)
          /\ scan'[q].resume = scan[q].resume /\ scan'[q].shared = scan[q].shared
    BY <1>6, KeepsItsFile
  <2>2. /\ Tried' = Tried /\ results' = results
        /\ \A q \in Scanners \ {p} : scan'[q] = scan[q]
        /\ Running(p)' => /\ scan'[p].todo = {} /\ scan'[p].held = {}
                          /\ scan'[p].at # "sizing"
    BY <1>6, WroteMeta
  <2> QED BY <2>1, <2>2 DEF Alone
<1>7. ASSUME NEW p \in Scanners, Truncate(p) PROVE Alone'
  <2>1. \A q \in Scanners : Running(q)' =>
          /\ Running(q)
          /\ scan'[q].resume = scan[q].resume /\ scan'[q].shared = scan[q].shared
    BY <1>7, KeepsItsFile
  <2>2. /\ Running(p) /\ Tried' \subseteq Tried
        /\ \A q \in Scanners \ {p} : scan'[q] = scan[q]
        /\ scan'[p] = [scan[p] EXCEPT !.at = "running"]
    BY <1>7, TruncateEffect
  <2>3. /\ scan'[p].at = "running" /\ scan'[p].todo = scan[p].todo
        /\ scan'[p].held = scan[p].held
    <3>1. scan[p] \in Process
      BY DEF IInv, TypeOK
    <3> QED BY <2>2, <3>1 DEF Process
  <2>4. ASSUME NEW q \in Scanners, Running(q)'
        PROVE  /\ \A o \in Scanners \ {q} : Running(o)' => scan'[q].shared
               /\ scan'[q].todo \cap scan'[q].held = {}
               /\ scan'[q].resume /\ ~scan'[q].shared => scan'[q].held \cap Tried' = {}
    <3>1. \A o \in Scanners \ {q} : Running(o)' => scan'[q].shared
      BY <2>1, <2>4 DEF Alone
    <3>2. scan'[q].todo = scan[q].todo /\ scan'[q].held = scan[q].held
      BY <2>2, <2>3
    <3> QED BY <2>1, <2>2, <2>4, <3>1, <3>2 DEF Alone
  <2>5. ASSUME NEW q \in Scanners, Running(q)', scan'[q].at = "sizing"
        PROVE  scan'[q].shared
    <3>1. q # p
      BY <2>3, <2>5
    <3> QED BY <2>1, <2>2, <2>5, <3>1 DEF Alone
  <2> QED BY <2>4, <2>5 DEF Alone
<1> QED BY <1>1, <1>2, <1>3, <1>4, <1>5, <1>6, <1>7, StepKinds DEF Step, Leaves

\* A finding is overwritten or cut off only under a run that was told not to
\* resume, or one that shared the file with another.
THEOREM FindingsSurvive == Spec => FindingsAreKept
<1>1. Init => Alone
  <2>1. Init => \A p \in Scanners : ~Running(p)
    BY DEF Init, Running, Idle
  <2> QED BY <2>1 DEF Alone
<1> DEFINE Kept == \A i \in Found : ~(i \in DOMAIN results' /\ results'[i] = results[i]) =>
                     \E p \in Scanners : Running(p) /\ (scan[p].resume => scan[p].shared)
<1>2. IInv /\ Alone /\ [Next]_vars => [Kept]_vars
  <2> SUFFICES ASSUME IInv, Alone, [Next]_vars, NEW i \in Found,
                      ~(i \in DOMAIN results' /\ results'[i] = results[i])
               PROVE  \E p \in Scanners : Running(p) /\ (scan[p].resume => scan[p].shared)
    OBVIOUS
  <2>1. i \in Tried /\ i \in DOMAIN results
    BY RecordFacts DEF IInv
  <2>2. PICK p \in Scanners : Step(p)
    <3>1. ~Quiet
      BY <2>1 DEF Quiet
    <3> QED BY <3>1, StepKinds
  <2>3. ASSUME NEW W, NEW r \in BOOLEAN, Stat(p, W, r) PROVE results' = results
    BY <2>3, OpensEffect
  <2>4. ASSUME Feed(p) \/ Interrupt(p) \/ WriteMeta(p) \/ Leaves(p) PROVE results' = results
    BY <2>4, FedOrStored, WroteMeta, LeavesEffect
  <2>5. Store(p) \/ Truncate(p)
    BY <2>1, <2>2, <2>3, <2>4 DEF Step, Leaves
  <2>6. CASE Store(p)
    <3>1. Running(p) /\ i \in scan[p].held
      BY <2>1, <2>6, StoredOne
    <3> QED BY <2>1, <3>1 DEF Alone
  <2>7. CASE Truncate(p)
    <3>1. Running(p) /\ scan[p].at = "sizing"
      BY <2>7, TruncateEffect
    <3>2. results # <<>>
      BY <2>1
    <3> QED BY <3>1, <3>2 DEF Alone
  <2> QED BY <2>5, <2>6, <2>7
<1>3. [][Kept]_vars => FindingsAreKept
  BY PTL DEF FindingsAreKept
<1> QED BY Invariant, AloneStep, <1>1, <1>2, <1>3, PTL DEF Spec

LEMMA WorkedStep ==
  ASSUME IInv, Worked, [Next]_vars
  PROVE  Worked'
<1>1. CASE Quiet
  BY <1>1 DEF Quiet, Worked, Running, Tried, Attempted
<1>2. ASSUME NEW p \in Scanners, Leaves(p) PROVE Worked'
  BY <1>2, LeavesEffect DEF Worked, Tried, Attempted
<1>3. ASSUME NEW p \in Scanners, NEW W, NEW r \in BOOLEAN, Stat(p, W, r) PROVE Worked'
  <2>1. Tried' = Tried /\ opened'.works = opened.works \cup {W}
    <3>1. opened' = [times    |-> opened.times + 1,
                     bindings |-> opened.bindings \cup {<<scan[p].list, scan[p].sha>>},
                     works    |-> opened.works \cup {W}]
      BY <1>3 DEF Stat
    <3> QED BY <1>3, <3>1, OpensEffect
  <2>2. /\ scan'[p].todo = W /\ scan'[p].work = W
        /\ results' = results /\ (scan'[p].at # "sizing" => results # <<>>)
        /\ results # <<>> => W \subseteq DOMAIN results
    <3>1. results \in Seq(Records) /\ DOMAIN results = 1 .. Len(results)
      BY RecordFacts DEF IInv
    <3> QED BY <1>3, <3>1, OpensEffect
  <2>3. ASSUME NEW q \in Scanners \ {p}, Running(q)'
        PROVE  /\ Running(q) /\ scan'[q].todo = scan[q].todo /\ scan'[q].held = scan[q].held
               /\ scan'[q].work = scan[q].work /\ scan'[q].cut = scan[q].cut
               /\ scan'[q].at = scan[q].at
    <3>1. Running(q) /\ scan'[q] = [scan[q] EXCEPT !.shared = TRUE]
      BY <1>3, <2>3, OpensEffect
    <3>2. scan[q] \in Process
      BY DEF IInv, TypeOK
    <3> QED BY <3>1, <3>2 DEF Process
  <2>4. Tried' \subseteq UNION opened'.works
    BY <2>1 DEF Worked
  <2>5. ASSUME NEW q \in Scanners, Running(q)'
        PROVE  /\ scan'[q].work \in opened'.works
               /\ scan'[q].at # "sizing" => results' # <<>>
    BY <2>1, <2>2, <2>3, <2>5 DEF Worked
  <2>6. ASSUME NEW V \in opened'.works, opened'.works = {V}
        PROVE  /\ results' # <<>> => V \subseteq DOMAIN results'
               /\ \A q \in Scanners : Running(q)' /\ ~scan'[q].cut =>
                     V \subseteq Tried' \cup scan'[q].todo \cup scan'[q].held
    <3>1. V = W
      BY <2>1, <2>6
    <3>2. ASSUME NEW q \in Scanners \ {p}, Running(q)', ~scan'[q].cut
          PROVE  V \subseteq Tried' \cup scan'[q].todo \cup scan'[q].held
      <4>1. Running(q) /\ ~scan[q].cut /\ scan[q].work \in opened.works
        BY <2>3, <3>2 DEF Worked
      <4>2. opened.works = {V} /\ V \in opened.works
        BY <2>1, <2>6, <4>1
      <4>3. V \subseteq Tried \cup scan[q].todo \cup scan[q].held
        BY <4>1, <4>2 DEF Worked
      <4> QED BY <2>1, <2>3, <3>2, <4>3
    <3> QED BY <2>2, <3>1, <3>2
  <2> QED BY <2>4, <2>5, <2>6 DEF Worked
<1>4. ASSUME NEW p \in Scanners, Feed(p) \/ Interrupt(p) PROVE Worked'
  <2>1. \A q \in Scanners : Running(q)' => Running(q) /\ scan'[q].work = scan[q].work
    BY <1>4, KeepsItsFile
  <2>2. /\ Tried' = Tried /\ opened' = opened /\ results' = results
        /\ \A q \in Scanners \ {p} : scan'[q] = scan[q]
        /\ scan'[p].at = scan[p].at
        /\ scan[p].held \subseteq scan'[p].held
        /\ scan[p].cut => scan'[p].cut
        /\ ~scan'[p].cut => scan[p].todo \subseteq scan'[p].todo \cup scan'[p].held \cup Tried
    BY <1>4, FedOrStored
  <2> QED BY <2>1, <2>2 DEF Worked
<1>5. ASSUME NEW p \in Scanners, Store(p) PROVE Worked'
  <2>1. \A q \in Scanners : Running(q)' => Running(q) /\ scan'[q].work = scan[q].work
    BY <1>5, KeepsItsFile
  <2>2. /\ Running(p) /\ opened' = opened /\ scan[p].at = "running"
        /\ \A q \in Scanners \ {p} : scan'[q] = scan[q]
    BY <1>5, StoredOne
  <2>3. PICK i \in scan[p].held :
          /\ Tried' = Tried \cup ({i} \cap DOMAIN results)
          /\ DOMAIN results' = DOMAIN results /\ Len(results') = Len(results)
          /\ scan'[p].held = scan[p].held \ {i} /\ scan'[p].todo = scan[p].todo
          /\ scan'[p].cut = scan[p].cut
    BY <1>5, StoredOne
  <2>4. i \in scan[p].work /\ scan[p].work \in opened.works
    BY <2>2, <2>3, InvariantParts DEF Sound, Worked
  <2>5. results # <<>> /\ results' # <<>>
    BY <2>2, <2>3, RecordFacts DEF Worked, IInv
  <2>6. Tried' \subseteq UNION opened'.works
    BY <2>2, <2>3, <2>4 DEF Worked
  <2>7. ASSUME NEW W \in opened'.works, opened'.works = {W}
        PROVE  /\ W \subseteq DOMAIN results'
               /\ \A q \in Scanners : Running(q)' /\ ~scan'[q].cut =>
                     W \subseteq Tried' \cup scan'[q].todo \cup scan'[q].held
    <3>1. W \subseteq DOMAIN results
      BY <2>2, <2>5, <2>7 DEF Worked
    <3>2. ASSUME NEW q \in Scanners, Running(q)', ~scan'[q].cut
          PROVE  W \subseteq Tried' \cup scan'[q].todo \cup scan'[q].held
      <4>1. Running(q) /\ ~scan[q].cut
        BY <2>1, <2>2, <2>3, <3>2
      <4>2. W \subseteq Tried \cup scan[q].todo \cup scan[q].held
        BY <2>2, <2>7, <4>1 DEF Worked
      <4> QED BY <2>2, <2>3, <3>1, <4>2
    <3> QED BY <2>3, <3>1, <3>2
  <2>8. ASSUME NEW q \in Scanners, Running(q)'
        PROVE  scan'[q].work \in opened'.works
    BY <2>1, <2>2, <2>8 DEF Worked
  <2> QED BY <2>5, <2>6, <2>7, <2>8 DEF Worked
<1>6. ASSUME NEW p \in Scanners, WriteMeta(p) PROVE Worked'
  <2>1. \A q \in Scanners : Running(q)' => Running(q) /\ scan'[q].work = scan[q].work
    BY <1>6, KeepsItsFile
  <2>2. /\ Tried' = Tried /\ opened' = opened /\ results' = results
        /\ \A q \in Scanners \ {p} : scan'[q] = scan[q]
        /\ Running(p)' => /\ scan[p].todo = {} /\ scan[p].held = {}
                          /\ scan[p].at = "running"
                          /\ scan'[p].todo = {} /\ scan'[p].held = {}
                          /\ scan'[p].cut = scan[p].cut
    BY <1>6, WroteMeta
  <2> QED BY <2>1, <2>2 DEF Worked
<1>7. ASSUME NEW p \in Scanners, Truncate(p) PROVE Worked'
  <2>1. \A q \in Scanners : Running(q)' => Running(q) /\ scan'[q].work = scan[q].work
    BY <1>7, KeepsItsFile
  <2>2. /\ Running(p) /\ results' # <<>> /\ UNCHANGED opened
        /\ DOMAIN results' = 1 .. Len(scan[p].list)
        /\ Tried' = Tried \cap DOMAIN results'
        /\ scan'[p] = [scan[p] EXCEPT !.at = "running"]
        /\ \A q \in Scanners \ {p} : scan'[q] = scan[q]
    BY <1>7, TruncateEffect
  <2>3. \A q \in Scanners : /\ scan'[q].todo = scan[q].todo /\ scan'[q].held = scan[q].held
                             /\ scan'[q].cut = scan[q].cut
    <3>1. scan[p] \in Process
      BY DEF IInv, TypeOK
    <3> QED BY <2>2, <3>1 DEF Process
  <2>4. scan[p].work \in opened.works /\ scan[p].work \subseteq DOMAIN results'
    BY <2>2, InvariantParts DEF Sound, Running, Worked
  <2>5. ASSUME NEW W \in opened'.works, opened'.works = {W}
        PROVE  /\ W \subseteq DOMAIN results'
               /\ \A q \in Scanners : Running(q)' /\ ~scan'[q].cut =>
                     W \subseteq Tried' \cup scan'[q].todo \cup scan'[q].held
    <3>1. W \subseteq DOMAIN results'
      BY <2>2, <2>4, <2>5
    <3>2. ASSUME NEW q \in Scanners, Running(q)', ~scan'[q].cut
          PROVE  W \subseteq Tried' \cup scan'[q].todo \cup scan'[q].held
      <4>1. Running(q) /\ ~scan[q].cut
        BY <2>1, <2>3, <3>2
      <4>2. W \subseteq Tried \cup scan[q].todo \cup scan[q].held
        BY <2>2, <2>5, <4>1 DEF Worked
      <4> QED BY <2>2, <2>3, <3>1, <4>2
    <3> QED BY <3>1, <3>2
  <2>6. Tried' \subseteq UNION opened'.works
    BY <2>2 DEF Worked
  <2>7. \A q \in Scanners : Running(q)' => scan'[q].work \in opened'.works
    BY <2>1, <2>2 DEF Worked
  <2> QED BY <2>2, <2>5, <2>6, <2>7 DEF Worked
<1> QED BY <1>1, <1>2, <1>3, <1>4, <1>5, <1>6, <1>7, StepKinds DEF Step, Leaves

\* If every run drew the same work list, the file holds nothing else, and a run
\* that was not cut short leaves it complete.
THEOREM RerunResumes == Spec => []SameWorkResumes
<1>1. Init => Worked
  <2>1. Init => \A p \in Scanners : ~Running(p)
    BY DEF Init, Running, Idle
  <2> QED BY <2>1 DEF Init, Worked, Tried
<1>2. IInv /\ Worked => SameWorkResumes
  <2> SUFFICES ASSUME IInv, Worked, NEW W, opened.works = {W}
               PROVE  /\ Tried \subseteq W
                      /\ \A p \in Scanners : scan[p].at = "meta" /\ ~scan[p].cut => Tried = W
    BY DEF SameWorkResumes
  <2>1. Tried \subseteq W
    BY DEF Worked
  <2>2. ASSUME NEW p \in Scanners, scan[p].at = "meta", ~scan[p].cut PROVE W \subseteq Tried
    BY <2>2 DEF Worked, Running, IInv, Started
  <2> QED BY <2>1, <2>2
<1> QED BY Invariant, WorkedStep, <1>1, <1>2, PTL DEF Spec

-----------------------------------------------------------------------------
(* What the first run counts.                                              *)

\* One more record of a place that had none.
LEMMA CountOne ==
  ASSUME IInv, NEW i, i \notin Tried, NEW c \in BOOLEAN,
         Tried' = Tried \cup {i},
         Found' = IF c THEN Found \cup {i} ELSE Found \ {i}
  PROVE  /\ Cardinality(Tried') = Cardinality(Tried) + 1
         /\ Cardinality(Found') = IF c THEN Cardinality(Found) + 1 ELSE Cardinality(Found)
<1>1. IsFiniteSet(Tried) /\ IsFiniteSet(Found) /\ Found \subseteq Tried
  BY RecordFacts DEF IInv
<1>2. Cardinality(Tried \cup {i}) = Cardinality(Tried) + 1
  BY <1>1, FS_AddElement
<1>3. Cardinality(Found \cup {i}) = Cardinality(Found) + 1
  BY <1>1, FS_AddElement
<1>4. Found \ {i} = Found
  BY <1>1
<1> QED BY <1>2, <1>3, <1>4

\* With one opening behind, everybody but p is away from the file.
LEMMA FirstStep ==
  ASSUME IInv, IInv', First, [Next]_vars
  PROVE  First'
<1>1. CASE Quiet
  BY <1>1 DEF Quiet, First, Counts, Running, Tried, Found, Attempted
<1>2. ASSUME NEW p \in Scanners, Leaves(p) PROVE First'
  <2>1. /\ UNCHANGED <<results, meta, opened>>
        /\ \A q \in Scanners : Running(q)' => q # p /\ Running(q) /\ scan'[q] = scan[q]
    BY <1>2, LeavesEffect
  <2>2. Tried' = Tried /\ Found' = Found
    BY <2>1 DEF Tried, Found, Attempted
  <2> QED BY <2>1, <2>2 DEF First, Counts
<1>3. ASSUME NEW p \in Scanners, NEW W, NEW r \in BOOLEAN, Stat(p, W, r) PROVE First'
  <2>1. opened'.times = opened.times + 1 /\ meta' = meta
    BY <1>3 DEF Stat
  <2>2. CASE opened.times # 0
    BY <2>1, <2>2 DEF First
  <2>3. CASE opened.times = 0
    <3>1. results = <<>> /\ meta = Absent /\ \A q \in Scanners : ~Running(q)
      BY <2>3 DEF First
    <3>2. Tried = {} /\ Found = {}
      BY <3>1 DEF Tried, Found
    <3>3. Tried' = {} /\ Found' = {}
      BY <1>3, <3>2, OpensEffect
    <3>4. Cardinality(Tried') = 0 /\ Cardinality(Found') = 0
      BY <3>3, FS_EmptySet
    <3>5. /\ scan'[p].held = {}
          /\ scan'[p].probed = 0 /\ scan'[p].skipped = 0 /\ scan'[p].good = 0
          /\ scan'[p].at = "sizing" /\ results' = <<>>
      BY <1>3, <3>1, OpensEffect
    <3>6. \A q \in Scanners \ {p} : ~Running(q)'
      BY <1>3, <3>1, OpensNoOther
    <3>7. opened'.times = 1
      BY <2>1, <2>3
    <3> QED BY <2>1, <3>1, <3>3, <3>4, <3>5, <3>6, <3>7 DEF First, Counts
  <2> QED BY <2>2, <2>3
\* The steps of a process with the file open: it is the first opening's.
<1>4. ASSUME NEW p \in Scanners, Running(p), opened' = opened, opened.times # 1 PROVE First'
  BY <1>4 DEF First
<1>5. ASSUME NEW p \in Scanners, Running(p), opened.times = 1
      PROVE  /\ meta = Absent /\ \A q \in Scanners \ {p} : ~Running(q)
             /\ scan[p].todo \cap scan[p].held = {}
             /\ (scan[p].todo \cup scan[p].held) \cap Tried = {}
             /\ Counts(scan[p].probed, scan[p].skipped, scan[p].good)
             /\ IF scan[p].at = "sizing" THEN results = <<>>
                                         ELSE Len(results) = Len(scan[p].list)
  BY <1>5 DEF First
<1>6. ASSUME NEW p \in Scanners, Feed(p) PROVE First'
  <2>1. /\ Running(p) /\ UNCHANGED <<results, meta, opened>>
        /\ \A q \in Scanners \ {p} : scan'[q] = scan[q]
    BY <1>6, FeedEffect
  <2>2. CASE opened.times = 1
    <3>1. PICK i \in scan[p].todo :
            \/ /\ scan[p].resume /\ Attempted(Record(i))
               /\ scan'[p] = [scan[p] EXCEPT !.todo = @ \ {i}, !.skipped = @ + 1]
            \/ /\ ~(scan[p].resume /\ Attempted(Record(i)))
               /\ scan'[p] = [scan[p] EXCEPT !.todo = @ \ {i}, !.held = @ \cup {i}]
      BY <1>6, FeedEffect
    <3>2. i \notin Tried
      BY <1>5, <2>1, <2>2
    <3>3. scan'[p] = [scan[p] EXCEPT !.todo = @ \ {i}, !.held = @ \cup {i}]
      BY <3>1, <3>2 DEF Tried, Record, Attempted
    <3>4. scan[p] \in Process
      BY DEF IInv, TypeOK
    <3>5. /\ scan'[p].todo = scan[p].todo \ {i} /\ scan'[p].held = scan[p].held \cup {i}
          /\ scan'[p].probed = scan[p].probed /\ scan'[p].good = scan[p].good
          /\ scan'[p].skipped = scan[p].skipped
          /\ scan'[p].at = scan[p].at /\ scan'[p].list = scan[p].list
      BY <3>3, <3>4 DEF Process
    <3>6. Tried' = Tried /\ Found' = Found
      BY <2>1 DEF Tried, Found, Attempted
    <3>7. (scan'[p].todo \cup scan'[p].held) \cap Tried = {}
          /\ scan'[p].todo \cap scan'[p].held = {}
      BY <1>5, <2>1, <2>2, <3>2, <3>5
    <3>8. \A q \in Scanners \ {p} : ~Running(q)'
      BY <1>5, <2>1, <2>2 DEF Running
    <3>9. Counts(scan[p].probed, scan[p].skipped, scan[p].good)'
      BY <1>5, <2>1, <2>2, <3>5, <3>6 DEF Counts
    <3>10. /\ scan'[p].todo \cap scan'[p].held = {}
          /\ (scan'[p].todo \cup scan'[p].held) \cap Tried' = {}
          /\ IF scan'[p].at = "sizing" THEN results' = <<>>
                                      ELSE Len(results') = Len(scan'[p].list)
      BY <1>5, <2>1, <2>2, <3>5, <3>6, <3>7
    <3>11. meta' = Absent /\ opened' = opened
      BY <1>5, <2>1, <2>2
    <3> QED BY <2>1, <2>2, <3>8, <3>9, <3>10, <3>11 DEF First
  <2> QED BY <1>4, <2>1, <2>2
<1>7. ASSUME NEW p \in Scanners, Interrupt(p) PROVE First'
  <2>1. /\ Running(p) /\ UNCHANGED <<results, meta, opened>>
        /\ \A q \in Scanners \ {p} : scan'[q] = scan[q]
        /\ scan'[p] = [scan[p] EXCEPT !.todo = {}, !.cut = TRUE]
    BY <1>7, InterruptEffect
  <2>2. CASE opened.times = 1
    <3>1. scan[p] \in Process
      BY DEF IInv, TypeOK
    <3>2. /\ scan'[p].todo = {} /\ scan'[p].held = scan[p].held
          /\ scan'[p].probed = scan[p].probed /\ scan'[p].good = scan[p].good
          /\ scan'[p].skipped = scan[p].skipped
          /\ scan'[p].at = scan[p].at /\ scan'[p].list = scan[p].list
      BY <2>1, <3>1 DEF Process
    <3>3. Tried' = Tried /\ Found' = Found
      BY <2>1 DEF Tried, Found, Attempted
    <3>4. \A q \in Scanners \ {p} : ~Running(q)'
      BY <1>5, <2>1, <2>2 DEF Running
    <3>5. Counts(scan[p].probed, scan[p].skipped, scan[p].good)'
      BY <1>5, <2>1, <2>2, <3>2, <3>3 DEF Counts
    <3>6. /\ scan'[p].todo \cap scan'[p].held = {}
          /\ (scan'[p].todo \cup scan'[p].held) \cap Tried' = {}
          /\ IF scan'[p].at = "sizing" THEN results' = <<>>
                                      ELSE Len(results') = Len(scan'[p].list)
      BY <1>5, <2>1, <2>2, <3>2, <3>3
    <3>7. meta' = Absent /\ opened' = opened
      BY <1>5, <2>1, <2>2
    <3> QED BY <2>1, <2>2, <3>4, <3>5, <3>6, <3>7 DEF First
  <2> QED BY <1>4, <2>1, <2>2
<1>8. ASSUME NEW p \in Scanners, Store(p) PROVE First'
  <2>1. /\ Running(p) /\ UNCHANGED <<meta, opened>>
        /\ scan[p].at = "running" /\ scan'[p].at = "running"
        /\ \A q \in Scanners \ {p} : scan'[q] = scan[q]
    BY <1>8, StoredOne
  <2>2. CASE opened.times = 1
    <3>1. PICK i \in scan[p].held, c \in BOOLEAN :
            /\ Tried' = Tried \cup ({i} \cap DOMAIN results)
            /\ Found' = IF c THEN Found \cup ({i} \cap DOMAIN results) ELSE Found \ {i}
            /\ Len(results') = Len(results) /\ scan'[p].list = scan[p].list
            /\ scan'[p].held = scan[p].held \ {i} /\ scan'[p].todo = scan[p].todo
            /\ scan'[p].probed = scan[p].probed + 1
            /\ scan'[p].good = IF c THEN scan[p].good + 1 ELSE scan[p].good
            /\ scan'[p].skipped = scan[p].skipped
      BY <1>8, StoredOne
    <3>2. i \notin Tried
      BY <1>5, <2>1, <2>2
    <3>9. i \in DOMAIN results /\ Len(results) = Len(scan[p].list)
      <4>1. Len(results) = Len(scan[p].list)
        BY <1>5, <2>1, <2>2
      <4>2. DOMAIN results = 1 .. Len(results)
        BY RecordFacts DEF IInv
      <4> QED BY <2>1, <4>1, <4>2, InvariantParts DEF Sound
    <3>3. /\ Cardinality(Tried') = Cardinality(Tried) + 1
          /\ Cardinality(Found') = IF c THEN Cardinality(Found) + 1 ELSE Cardinality(Found)
      <4>1. /\ Tried' = Tried \cup {i}
            /\ Found' = IF c THEN Found \cup {i} ELSE Found \ {i}
        BY <3>1, <3>9
      <4> QED BY <3>2, <4>1, CountOne
    <3>4. Counts(scan[p].probed, scan[p].skipped, scan[p].good)
      BY <1>5, <2>1, <2>2
    <3>5. Counts(scan[p].probed, scan[p].skipped, scan[p].good)'
      BY <3>1, <3>3, <3>4 DEF Counts
    <3>6. /\ scan'[p].todo \cap scan'[p].held = {}
          /\ (scan'[p].todo \cup scan'[p].held) \cap Tried' = {}
      BY <1>5, <2>1, <2>2, <3>1
    <3>7. \A q \in Scanners \ {p} : ~Running(q)'
      BY <1>5, <2>1, <2>2 DEF Running
    <3> QED BY <1>5, <2>1, <2>2, <3>1, <3>5, <3>6, <3>7, <3>9 DEF First
  <2> QED BY <1>4, <2>1, <2>2
<1>9. ASSUME NEW p \in Scanners, WriteMeta(p) PROVE First'
  <2>1. /\ Running(p) /\ UNCHANGED <<results, opened>>
        /\ Tried' = Tried /\ Found' = Found
        /\ \A q \in Scanners \ {p} : scan'[q] = scan[q]
    BY <1>9, WroteMeta
  <2>2. CASE opened.times = 1
    <3>1. \A q \in Scanners \ {p} : ~Running(q)'
      BY <1>5, <2>1, <2>2 DEF Running
    <3>2. Counts(scan[p].probed, scan[p].skipped, scan[p].good)
      BY <1>5, <2>1, <2>2
    <3>3. CASE ~Running(p)' /\ (meta' # Absent => /\ meta'.probed = scan[p].probed
                                                  /\ meta'.skipped = scan[p].skipped
                                                  /\ meta'.conclusive = scan[p].good)
      <4>1. \A q \in Scanners : ~Running(q)'
        BY <3>1, <3>3
      <4>2. (meta # Absent => Counts(meta.probed, meta.skipped, meta.conclusive))'
        BY <2>1, <3>2, <3>3 DEF Counts
      <4> QED BY <2>1, <2>2, <4>1, <4>2 DEF First
    <3>4. CASE /\ meta' = Absent
               /\ scan'[p].todo = {} /\ scan'[p].held = {}
               /\ scan'[p].probed = scan[p].probed /\ scan'[p].good = scan[p].good
               /\ scan'[p].skipped = scan[p].skipped
               /\ scan'[p].at = "meta" /\ scan'[p].list = scan[p].list
               /\ scan[p].at = "running"
      <4>1. Counts(scan[p].probed, scan[p].skipped, scan[p].good)'
        BY <2>1, <3>2, <3>4 DEF Counts
      <4>2. Len(results) = Len(scan[p].list)
        BY <1>5, <2>1, <2>2, <3>4
      <4> QED BY <2>1, <2>2, <3>1, <3>4, <4>1, <4>2 DEF First
    <3> QED BY <1>9, <3>3, <3>4, WroteMeta
  <2> QED BY <1>4, <2>1, <2>2
<1>10. ASSUME NEW p \in Scanners, Truncate(p) PROVE First'
  <2>1. /\ Running(p) /\ UNCHANGED <<meta, opened>> /\ scan[p].at = "sizing"
        /\ \A q \in Scanners \ {p} : scan'[q] = scan[q]
        /\ scan'[p] = [scan[p] EXCEPT !.at = "running"]
        /\ Len(results') = Len(scan[p].list)
        /\ Tried' = Tried \cap DOMAIN results' /\ Found' = Found \cap DOMAIN results'
    BY <1>10, TruncateEffect
  <2>2. CASE opened.times = 1
    <3>1. Tried = {} /\ Found = {}
      BY <1>5, <2>1, <2>2 DEF Tried, Found
    <3>2. Tried' = Tried /\ Found' = Found
      BY <2>1, <3>1
    <3>3. scan[p] \in Process
      BY DEF IInv, TypeOK
    <3>4. /\ scan'[p].todo = scan[p].todo /\ scan'[p].held = scan[p].held
          /\ scan'[p].probed = scan[p].probed /\ scan'[p].good = scan[p].good
          /\ scan'[p].skipped = scan[p].skipped
          /\ scan'[p].at = "running" /\ scan'[p].list = scan[p].list
      BY <2>1, <3>3 DEF Process
    <3>5. \A q \in Scanners \ {p} : ~Running(q)'
      BY <1>5, <2>1, <2>2 DEF Running
    <3>6. Counts(scan[p].probed, scan[p].skipped, scan[p].good)'
      BY <1>5, <2>1, <2>2, <3>2, <3>4 DEF Counts
    <3>7. /\ scan'[p].todo \cap scan'[p].held = {}
          /\ (scan'[p].todo \cup scan'[p].held) \cap Tried' = {}
          /\ meta' = Absent /\ opened' = opened
      BY <1>5, <2>1, <2>2, <3>2, <3>4
    <3> QED BY <2>1, <2>2, <3>4, <3>5, <3>6, <3>7 DEF First
  <2> QED BY <1>4, <2>1, <2>2
<1> QED BY <1>1, <1>2, <1>3, <1>6, <1>7, <1>8, <1>9, <1>10, StepKinds DEF Step, Leaves

\* Metadata of the only run that ever opened the file counts its records and
\* its findings, whenever it was killed or what happened to the list.
THEOREM MetadataCounts == Spec => []MetaDescribesTheFile
<1>1. Init => First
  <2>1. Init => \A p \in Scanners : ~Running(p)
    BY DEF Init, Running, Idle
  <2> QED BY <2>1 DEF Init, First
<1>2. First => MetaDescribesTheFile
  BY DEF First, MetaDescribesTheFile, Counts
<1>3. IInv /\ IInv' /\ First /\ [Next]_vars => First'
  BY FirstStep
<1> QED BY Invariant, <1>1, <1>2, <1>3, PTL DEF Spec
=============================================================================
