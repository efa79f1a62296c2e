----------------------------- MODULE Provenance -----------------------------
(***************************************************************************)
(* The four files of a census and the commands that write them: the domain *)
(* list and its manifest (internal/corpus, written by `corpus`), the       *)
(* result file and the metadata beside it (internal/sink and               *)
(* internal/runmeta, written by `scan`), and what `report` checks before   *)
(* it puts the names of one beside the records of the other.               *)
(*                                                                         *)
(* Every file is written on its own, any command may be killed between two *)
(* writes, several may run at once, and somebody may edit the list.  A     *)
(* checksum is the list it was taken of.  How a run feeds its workers is   *)
(* module ScanRun's; here a position is fed, then stored.                  *)
(***************************************************************************)
EXTENDS Naturals, Sequences, FiniteSets

CONSTANTS
    Lists,      \* what a source may parse to: non-empty lists of names
    Scanners,   \* the processes `scan` may run in
    Absent,     \* no such file, or none that can be parsed
    Fragment,   \* what the beginning of a name may read as
    MaxFreezes, \* how often the list is written or edited,
    MaxRuns     \* and how many scans are started: bounds of the model

Names == UNION {{l[i] : i \in 1 .. Len(l)} : l \in Lists}

\* What a line of a domain file may read as.
Words == Names \cup {Fragment}

ASSUME ListsAssumption ==
    \A l \in Lists : l \in Seq(Names) /\ l # <<>>
ASSUME AbsentAssumption == Absent \notin Words \cup Lists
ASSUME BoundsAssumption == MaxFreezes \in Nat /\ MaxRuns \in Nat

VARIABLES
    corpus,     \* the names of the domain file
    manifest,   \* its manifest
    freezer,    \* the process of `corpus`
    results,    \* the result file
    meta,       \* its metadata
    scan,       \* the processes of `scan`
    freezes, runs,
    opened      \* history: how often the result file was opened for a run,
                \* by which lists with which checksums, for which work lists

vars == <<corpus, manifest, freezer, results, meta, scan, freezes, runs, opened>>

\* A record that was never written is zero.  A stored one belongs to the name
\* that was probed; a conclusive one is a finding.
Blank == [name |-> Absent, conclusive |-> FALSE]

Attempted(r) == r # Blank

\* What a mapping shows of a record.  The file may end before it.
Record(i) == IF i \in DOMAIN results THEN results[i] ELSE Blank

\* Process p has the result file open.
Running(p) == scan[p].at \in {"sizing", "running", "meta"}

Idle == [at |-> "idle", list |-> <<>>, sha |-> Absent, work |-> {},
         resume |-> FALSE, todo |-> {}, held |-> {}, cut |-> FALSE,
         probed |-> 0, skipped |-> 0, good |-> 0,
         shared |-> FALSE]   \* history: another scan was at the file meanwhile

NoFreeze == [at |-> "idle", list |-> <<>>]

Init ==
    /\ corpus = <<>>
    /\ manifest = Absent
    /\ freezer = NoFreeze
    /\ results = <<>>
    /\ meta = Absent
    /\ scan = [p \in Scanners |-> Idle]
    /\ freezes = 0
    /\ runs = 0
    /\ opened = [times |-> 0, bindings |-> {}, works |-> {}]

-----------------------------------------------------------------------------
(* corpus: the list is streamed first, the manifest follows.               *)

OnlyList == UNCHANGED <<manifest, results, meta, scan, runs, opened>>

\* os.Create truncates whatever was there.
Freeze(l) ==
    /\ freezer.at = "idle" /\ freezes < MaxFreezes
    /\ corpus' = <<>>
    /\ freezer' = [at |-> "list", list |-> l]
    /\ freezes' = freezes + 1
    /\ OnlyList

\* The buffer, which is longer than any name, is flushed when it is full, in the
\* middle of a name or where what there is of the next one does not read as a
\* name; and at the end.
Flush ==
    /\ freezer.at = "list"
    /\ \E k \in 1 .. Len(freezer.list), cut \in BOOLEAN :
          /\ Len(corpus) <= k /\ (cut => k < Len(freezer.list))
          /\ corpus' = SubSeq(freezer.list, 1, k)
                          \o (IF cut THEN <<Fragment>> ELSE <<>>)
          /\ corpus' # corpus
          /\ freezer' = [freezer EXCEPT
                !.at = IF k = Len(freezer.list) THEN "closed" ELSE "list"]
    /\ UNCHANGED freezes
    /\ OnlyList

\* os.WriteFile: truncated, then filled.
WriteManifest ==
    /\ \/ /\ freezer.at = "closed"
          /\ manifest' = Absent
          /\ freezer' = [freezer EXCEPT !.at = "manifest"]
       \/ /\ freezer.at = "manifest"
          /\ manifest' = [count |-> Len(freezer.list), sha |-> freezer.list]
          /\ freezer' = NoFreeze
    /\ UNCHANGED <<corpus, results, meta, scan, freezes, runs, opened>>

FreezeKilled ==
    /\ freezer.at # "idle"
    /\ freezer' = NoFreeze
    /\ UNCHANGED <<corpus, freezes>>
    /\ OnlyList

\* Nothing keeps a frozen list from being edited in place.
Edit(l) ==
    /\ freezer.at = "idle" /\ freezes < MaxFreezes
    /\ corpus' = l
    /\ freezes' = freezes + 1
    /\ UNCHANGED freezer
    /\ OnlyList

-----------------------------------------------------------------------------
(* scan.                                                                   *)

Becomes(p, s) ==
    /\ scan' = [scan EXCEPT ![p] = s]
    /\ UNCHANGED <<corpus, manifest, freezer, freezes>>

\* A run that ends, dies or is refused forgets everything.
Quits(p) == Becomes(p, Idle) /\ UNCHANGED <<results, meta, runs, opened>>

\* Load reads the list, which must not be empty,
LoadList(p) ==
    /\ scan[p].at = "idle" /\ runs < MaxRuns
    /\ corpus # <<>>
    /\ runs' = runs + 1
    /\ Becomes(p, [Idle EXCEPT !.at = "list", !.list = corpus])
    /\ UNCHANGED <<results, meta, opened>>

\* A manifest that disagrees on the count is refused, a missing one ignored.
Counted(list, m) == m = Absent \/ m.count = Len(list)

\* and then its manifest.
LoadManifest(p) ==
    /\ scan[p].at = "list"
    /\ IF Counted(scan[p].list, manifest)
       THEN Becomes(p, [scan[p] EXCEPT !.at = "loaded",
                           !.sha = IF manifest = Absent THEN Absent ELSE manifest.sha])
       ELSE Becomes(p, Idle)
    /\ UNCHANGED <<results, meta, runs, opened>>

\* sink.Create opens the file and looks at its size: a new or empty file is to
\* get one, any other must have it.
Stat(p, W, resume) ==
    LET n == Len(scan[p].list) IN
    /\ scan[p].at = "loaded"
    /\ W \subseteq 1 .. n /\ W # {}
    /\ results = <<>> \/ Len(results) = n
    /\ opened' = [times    |-> opened.times + 1,
                  bindings |-> opened.bindings \cup {<<scan[p].list, scan[p].sha>>},
                  works    |-> opened.works \cup {W}]
    /\ scan' = [q \in Scanners |->
          IF q = p THEN [scan[p] EXCEPT !.at = IF results = <<>> THEN "sizing" ELSE "running",
                            !.work = W, !.todo = W, !.resume = resume,
                            !.shared = \E o \in Scanners : Running(o)]
          ELSE [scan[q] EXCEPT !.shared = @ \/ Running(q)]]
    /\ UNCHANGED <<corpus, manifest, freezer, freezes, results, meta, runs>>

\* It gives the file its size, whatever the file has become meanwhile: it may
\* grow, or lose records.
Truncate(p) ==
    /\ scan[p].at = "sizing"
    /\ results' = [i \in 1 .. Len(scan[p].list) |-> Record(i)]
    /\ Becomes(p, [scan[p] EXCEPT !.at = "running"])
    /\ UNCHANGED <<meta, runs, opened>>

RefusesSize(p) ==
    /\ scan[p].at = "loaded"
    /\ results # <<>> /\ Len(results) # Len(scan[p].list)
    /\ Quits(p)

\* A plausible mistake, no part of the model: resume not looked at.
FeedAgain(p) ==
    LET s == scan[p] IN
    /\ s.at = "running"
    /\ \E i \in s.todo : Becomes(p, [s EXCEPT !.todo = @ \ {i}, !.held = @ \cup {i}])
    /\ UNCHANGED <<results, meta, runs, opened>>

\* The feeder goes through the work list in order; resume keeps whatever was
\* attempted.
Feed(p) ==
    LET s == scan[p] IN
    /\ s.at = "running"
    /\ \E i \in s.todo :
          /\ \A j \in s.todo : i <= j
          /\ Becomes(p, IF s.resume /\ Attempted(Record(i))
                        THEN [s EXCEPT !.todo = @ \ {i}, !.skipped = @ + 1]
                        ELSE [s EXCEPT !.todo = @ \ {i}, !.held = @ \cup {i}])
    /\ UNCHANGED <<results, meta, runs, opened>>

\* The records with one more; beyond the file's end it is lost.
With(i, r) == [j \in DOMAIN results |-> IF j = i THEN r ELSE results[j]]

\* A plausible mistake, no part of the model: every probe counted conclusive.
StoreAllGood(p) ==
    LET s == scan[p] IN
    /\ s.at = "running"
    /\ \E i \in s.held, c \in BOOLEAN :
          /\ results' = With(i, [name |-> s.list[i], conclusive |-> c])
          /\ Becomes(p, [s EXCEPT !.held = @ \ {i}, !.probed = @ + 1, !.good = @ + 1])
    /\ UNCHANGED <<meta, runs, opened>>

\* A worker stores what it found, or that it found nothing, and counts it.
Store(p) ==
    LET s == scan[p] IN
    /\ s.at = "running"
    /\ \E i \in s.held, c \in BOOLEAN :
          /\ results' = With(i, [name |-> s.list[i], conclusive |-> c])
          /\ Becomes(p, [s EXCEPT !.held = @ \ {i}, !.probed = @ + 1,
                                  !.good = IF c THEN @ + 1 ELSE @])
    /\ UNCHANGED <<meta, runs, opened>>

\* An interrupt or the time box: nothing more is fed.
Interrupt(p) ==
    /\ scan[p].at = "running" /\ scan[p].todo # {}
    /\ Becomes(p, [scan[p] EXCEPT !.todo = {}, !.cut = TRUE])
    /\ UNCHANGED <<results, meta, runs, opened>>

\* A plausible mistake, no part of the model: the workers not waited for.
WriteMetaEarly(p) ==
    LET s == scan[p] IN
    /\ s.at = "running" /\ s.todo = {}
    /\ meta' = Absent
    /\ Becomes(p, [s EXCEPT !.at = "meta"])
    /\ UNCHANGED <<results, runs, opened>>

\* Run has returned, and cmdScan writes what this run did: truncated first,
\* then filled.
WriteMeta(p) ==
    LET s == scan[p] IN
    \/ /\ s.at = "running" /\ s.todo = {} /\ s.held = {}
       /\ meta' = Absent
       /\ Becomes(p, [s EXCEPT !.at = "meta"])
       /\ UNCHANGED <<results, runs, opened>>
    \/ /\ s.at = "meta"
       /\ meta' = [sha |-> s.sha, probed |-> s.probed, skipped |-> s.skipped,
                   conclusive |-> s.good]
       /\ Becomes(p, Idle)
       /\ UNCHANGED <<results, runs, opened>>

\* A kill leaves the files as they are; so does failing to open the metadata,
\* of which there is a warning only.  A store beyond the last page of a file that
\* was cut shorter kills the process, too.
Killed(p) == scan[p].at # "idle" /\ Quits(p)

Scan(p) == \/ LoadList(p)
           \/ LoadManifest(p)
           \/ \E W \in SUBSET (1 .. Len(scan[p].list)), r \in BOOLEAN : Stat(p, W, r)
           \/ Truncate(p)
           \/ RefusesSize(p)
           \/ Feed(p)
           \/ Store(p)
           \/ Interrupt(p)
           \/ WriteMeta(p)
           \/ Killed(p)

Next == \/ \E l \in Lists : Freeze(l) \/ Edit(l)
        \/ Flush
        \/ WriteManifest
        \/ FreezeKilled
        \/ \E p \in Scanners : Scan(p)

Spec == Init /\ [][Next]_vars

-----------------------------------------------------------------------------
(* report.                                                                 *)

\* A plausible mistake, no part of the model: the checksums not compared.
ReportsUnbound ==
    /\ corpus # <<>> /\ results # <<>>
    /\ Counted(corpus, manifest)
    /\ Len(results) = Len(corpus)

\* report goes through.  The checksums are compared if both are there.
Reports ==
    /\ corpus # <<>> /\ results # <<>>
    /\ Counted(corpus, manifest)
    /\ Len(results) = Len(corpus)
    /\ meta # Absent /\ manifest # Absent /\ meta.sha # Absent =>
          meta.sha = manifest.sha

-----------------------------------------------------------------------------
(* Properties.                                                             *)

Tried == {i \in DOMAIN results : Attempted(results[i])}
Found == {i \in DOMAIN results : results[i].conclusive}

\* No row of the report names another domain than the one that was probed.
NamesAreRight == \A i \in Tried : results[i].name = corpus[i]

Process ==
    [at : {"idle", "list", "loaded", "sizing", "running", "meta"},
     list : Seq(Words), sha : Lists \cup {Absent}, work : SUBSET Nat,
     resume : BOOLEAN, todo : SUBSET Nat, held : SUBSET Nat, cut : BOOLEAN,
     probed : Nat, skipped : Nat, good : Nat, shared : BOOLEAN]

TypeOK ==
    /\ corpus \in Seq(Words)
    /\ manifest \in [count : Nat, sha : Lists] \cup {Absent}
    /\ freezer \in [at : {"idle", "list", "closed", "manifest"},
                    list : Lists \cup {<<>>}]
    /\ results \in Seq([name : Words \cup {Absent}, conclusive : BOOLEAN])
    /\ meta \in [sha : Lists \cup {Absent}, probed : Nat, skipped : Nat,
                 conclusive : Nat] \cup {Absent}
    /\ scan \in [Scanners -> Process]
    /\ freezes \in Nat /\ runs \in Nat
    /\ \A p \in Scanners : Running(p) =>
          /\ scan[p].todo \cup scan[p].held \subseteq scan[p].work
          /\ scan[p].work \subseteq 1 .. Len(scan[p].list)

\* main.go:510-514: the checksums bind records to names, as far as they go.  If
\* the file was only ever opened for one list, read with its own manifest, and
\* the list reported against is what its manifest was taken of, then a report
\* that has metadata to check and goes through names the right domains,
\* whatever was frozen, edited, killed or run in between.
ReportIsBound ==
    \A l \in Lists :
        /\ Reports
        /\ opened.bindings = {<<l, l>>}
        /\ manifest # Absent /\ manifest.sha = corpus
        /\ meta # Absent
        => NamesAreRight

\* runmeta.go:74: the metadata says whether to trust the file.  It does when one
\* run made the file: probed and conclusive are those of the records.
MetaDescribesTheFile ==
    meta # Absent /\ opened.times = 1 /\ (\A p \in Scanners : ~Running(p)) =>
        /\ meta.probed = Cardinality(Tried)
        /\ meta.conclusive = Cardinality(Found)
        /\ meta.skipped = 0

\* main.go:470: "rerun the same command to resume from where it stopped".  As
\* long as every run drew the same work list, the file holds nothing else, and
\* a run that was not interrupted leaves all of it attempted, whatever the
\* runs before it left.
SameWorkResumes ==
    \A W \in opened.works : opened.works = {W} =>
        /\ Tried \subseteq W
        /\ \A p \in Scanners : scan[p].at = "meta" /\ ~scan[p].cut => Tried = W

\* sink.go:67, scan.go:129: a finding is overwritten, or cut off, by a run told
\* not to resume or by one that was not alone on the file, and in no other way.
FindingsAreKept ==
    [][\A i \in Found : ~(i \in DOMAIN results' /\ results'[i] = results[i]) =>
          \E p \in Scanners : Running(p) /\ (scan[p].resume => scan[p].shared)]_vars

\* main.go:513: "The checksum is what actually binds them".  Even if no list was
\* ever read beside the manifest of another, and none was edited, a resumed run
\* keeps the records of an earlier list and then signs for all of them.
ChecksumBinds ==
    /\ Reports
    /\ \A read \in opened.bindings : read[1] = read[2]
    /\ manifest # Absent /\ manifest.sha = corpus
    /\ meta # Absent
    => NamesAreRight
=============================================================================
