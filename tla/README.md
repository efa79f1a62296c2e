# A TLA+ model of www-scanner

`wwwscan` probes a list of domains, each twice (the bare name and `www.`), and
stores one 24-byte record per domain at a fixed offset of a memory-mapped file.
A census made from that file is worth something only if every domain is probed
once, if a record marked complete is a measurement, if the scanner's own trouble
is never counted as a finding, if a run that was interrupted, killed or cut off
can be resumed, and if records are never read beside the names of another list.
This directory holds TLA+ modules of the parts of the
program that decide these things, the TLC configurations that check them on
small instances, and TLAPS proofs of the main safety properties for instances of
any size.

The reference is the source. Line numbers in this file, in the comments of the
modules and in `PROJECT.json` are those of the commit modelled.

## The system

| part | state it keeps | operations | what is hard | what makes it correct |
|---|---|---|---|---|
| `internal/scan` (scan.go) | the work list, the channel `indices`, the workers, `timeUp`, the context | feed, skip (resume), send, take, probe, write, observe, close, drain, final sync | the feeder, the pool, an interrupt, the time box and the end of the run meet in one `select`; the status of a record is decided after a last look at the context | every position has one owner, nothing fed is lost, a resumed run keeps what was complete, every run ends |
| `internal/sink` (sink.go) | the mapping, the file, the disk | Create/Open, Write, Get, Sync, Close | no lock, no journal: stores, write-back and msync interleave with kills and power loss | what is counted is stored; what a finished run returned with is durable |
| `internal/record` (record.go) | none | Encode, Decode, Conclusive, Stall, WWWSupported, RegistrationState | several pieces of code judge one record: record, recheck, report, export | they agree |
| `internal/probe` (probe.go) | two ladders, the record under construction | Probe, probeName, walk, classification | two goroutines per domain, redirects between the two names, a second walk in plaintext, a second DNS lookup by the dialer, cancellation anywhere | a rung is never better than the one below; the reason for a failure survives; a cancelled probe is not complete |
| `internal/resolve` (pool.go) | the `inflight` table, a channel per call, the socket | register, write, wait, unregister, readLoop, close | late, repeated and reordered answers meet reused IDs; match and hand-over are two steps | a call gets the answer to its own question; no ID leaks; every call returns |
| `internal/resolve` (resolve.go) | the shared round-robin counter | query, exchange, Lookup, Delegation, Exists, LookupAddrs | retries over a counter everybody moves; two queries answered in either order | an answer is final, doubt costs every attempt, the merge is sound |
| `internal/metrics` | atomics, the histogram, maps under a lock | Begin, Observe, Skip, Mark, Snapshot, Quantile | a snapshot is a sequence of reads among sequences of writes | the books balance; the last snapshot is exact |
| `internal/report`, `internal/scan` (recheck.go) | none | Build, brokenReason, WriteCSV, Diff; RecheckIndices | the cohorts overlap or miss records if their tests differ; a stall on either side of a diff; matches counted, not taken | cohorts partition; the summary adds up; broken means measured; a diff reports every measured change |
| `internal/scan` (sample.go) | none | SampleIndices | the bounds of Floyd's loop | k distinct positions, all sets equally likely |
| `internal/corpus`, `internal/runmeta` | the domain list, its manifest, the metadata of a run | Write, Load, LoadManifest, Verify; Write, Load | files written one after another by processes that can be killed and that do not lock; a checksum copied from a manifest | a report names the right domains; the metadata is true of the file |
| `cmd/wwwscan` | none | flags, signals, the order of the files, printing | which options may meet; a rerun | a rerun completes what was interrupted; findings are not lost |

How the parts interact: `cmd/wwwscan` opens the sink and calls `scan.Run`. Its
workers call `Probe`, which starts two ladders. Each ladder calls
`Resolver.Lookup`, which starts two queries, each with up to `Attempts`
exchanges over pooled sockets shared by the whole process; the HTTP client's
dialer calls `Resolver.LookupAddrs` and so the same machinery a second time. A
worker writes its record into the mapping and then updates the collector, which
the progress line, the time box and the provenance read. When `Run` has returned,
`cmdScan` writes the metadata beside the result file; `report` puts list,
manifest, results and metadata side by side again, `scan -recheck` selects from
an earlier result file, `diff` compares two.

## Modules

| module | models | builds on |
|---|---|---|
| `Census` | what a run and its file promise, with no feeder, channel or worker | |
| `ScanRun` | scan.go over sink.go, across several invocations on one file | refines `Census` |
| `Record` | the record, and every judgement made from it, as operators | |
| `Probe` | one call of `Probe` | extends `Record` |
| `DnsConn` | one pooled UDP socket | |
| `Resolver` | the retry loop, the shared counter, the merge | extends `Record`; an exchange is one step, justified by `DnsConn` |
| `Collector` | the metrics | |
| `Provenance` | the four files of a census and the commands that write and read them | |
| `Remeasure` | report, recheck or sample, second scan, diff | extends `Record` |
| `MC*` | the instances TLC checks | the module of that name |
| `*Proofs` | theorems and proofs | the module of that name |
| `ScanRunRefinement` | proof that the scan implements `Census` | `ScanRun`, `Census` |

The modules meet where one abstracts another. `ScanRun.Walk` and `ScanRun.Judge`
are `Probe` seen from a worker: the ladders, which may be cut short under a
cancelled context, then the look at the context that `Probe.Finish` makes.
`Probe.LookupName` takes any outcome `Resolver.Merge` can produce.
`Resolver.Reply` and `Resolver.Fail` are what `DnsConn` exchanges end with, and
`Resolver`'s fairness (an exchange returns) is `DnsConn`'s `Returns`.
`Provenance.Feed`, `Store` and `Interrupt` are `ScanRun` with one step a record:
what its feeder and workers may do to a file is `ScanRun`'s business, what the
file is then taken for is `Provenance`'s. `Remeasure.Outcomes` are what `Probe`
and the store of its record can leave of one site: sides as `LadderIsClimbed`
has them, and what a kill leaves of a record between two stores.

Operators commented as plausible mistakes are no part of a specification. Each
is a wrong version of a definition of the module, with which one of the
properties fails; `PROJECT.json` says which.

### ScanRun

`pc` is where the caller of `Run` is: `feed` is the head of the loop, `send` the
second `select`, `drain` the wait after `close(indices)`, `returned` and `failed`
the two results, `down` no process. `todo` is the rest of the work list, `queue`
the channel, `wpc`/`widx`/`wrec` a worker's place, position and record. `mem` is
the mapping (a kill leaves it, since the page cache survives), `disk` what a
power loss leaves. A record is its status, its body (`blank`, `measured`, `cut`
by a cancelled context) and a ghost bit `whole`: status and body come from one
`Write`.

Steps are the points at which the code can be interleaved or killed. `Encode` is
two of them because the status byte is stored first and the sides last
(record.go:196-203). The loop's look at `timeUp` and the `select` are separate
(`Offer`, then `Send` or `BreakFeed`); since Go picks at random among ready
cases, a cancelled context or an expired time box does not disable `Send`. An
abort does not stop the workers: they drain the channel, probe under a dead
context and store aborted records, as the code does.

`before`, `fed` and, in `Probe`, `cut` are history:
nothing is guarded by them.

### Probe and Record

A ladder is `lookup`, `walk` (the loop over hops), `rest` (the chain has ended)
and `done`; `side` is the Side of the current walk, `secure` that of the https
walk while the plaintext one goes on. A URL is a scheme, which host it names
relative to the domain, and one of two paths, enough to tell a self-redirect
from a redirect within one host. Errors are the classes `classifyTransportErr`
tells apart, with one class for each different cause that ends in the same field
(a dropped SYN, a silent host, a DNS timeout of the dialer). An HTTP status is
its class. Status codes of 000 are left out. RR types and the duration only feed
histograms and are left out.

`RequestFails` leaves the side alone past the first hop. probe.go:228-232 would
set `TCPError` there if a request could not be built; but the URL of a later hop
was parsed by `resolveRef` and comes back as its own text, so the error can only
be met at the first hop, where it is "dial-error".

### DnsConn and Resolver

`at` is where an exchange is between `register` and its deferred `unregister`.
The reader is in `Read`, past `Unpack`, past the unlock with a waiter in hand, or
gone. `wire` holds the datagrams that may still arrive; `Read` may leave its
datagram there (a duplicate), and nothing forces a datagram to arrive. In
`Resolver` the configuration (`cfg`: sockets, pooled or legacy, attempts, the NS
query) is chosen in the initial state, and every query's goroutine has a place
in the loop of `query` (or of `exchange`, which is the same loop for the NS
query); `pickOther` is one step per iteration because the counter is shared;
`Others` are the other probes. What is counted (`made`) is attempts, not
datagrams: one that finds no free ID or whose write fails sends nothing and
costs an attempt all the same (pool.go:149-161).

### Collector

Every atomic add and load is a step. A probe is what becomes of it, a finding, a
stall or an abort, and its bucket; `BucketOf` is bucketOf by octaves. The target of `Quantile` is any number of
probes from one to the total, which is what the rounded product of the total and
a quantile between 0 and 1 comes to; the sweep over the buckets is one load a step.

### Provenance

`corpus`, `manifest`, `results` and `meta` are the files; `freezer` is the
process of `corpus`, `scan` those of `scan`, any number of which may use one
result file. A list is written buffer by buffer (`Flush`), so what a kill leaves
or another process reads may end in the middle of a name, which then reads as
`Fragment`; the manifest and the metadata are truncated and then filled; a
half-written JSON file does not parse and counts as absent, which is what both
loaders make of it. A checksum is the list it was taken of. `LoadList` and
`LoadManifest` are two reads, between which another process may write.
`sink.Create` is two steps: `Stat` compares sizes and nothing else, `Truncate`
gives a file that was empty its size, whatever it has become meanwhile. Two
first opens whose lists differ in length may thus cut off one another's records;
`Record` and `With` are what a mapping shows and keeps beyond the end (a store
past the last page is a `Killed`). Anybody may be killed anywhere (`FreezeKilled`,
`Killed`) and somebody may edit the list (`Edit`). `opened` and a process's
`shared` are history.

### Remeasure

Four loops, one element a step: `Build` over the earlier file, `Match` or `Draw`
for the work list, `Probe` for the second scan, `Diff` over both files. A site is
the record of a probe that nothing disturbed, `was` what there was when the
earlier scan probed, `site` when the later one did; it may change in between.
What a file holds of a site (`Outcomes`) is one of:

- the record itself;
- one with a side that stalled, on whichever rung (`Stalls`): DNS, the dial, the
  handshake, each of which the registration and the wildcard cohort tell apart;
- one with a side that was misheard (`Misheard`), which `Conclusive` does not see:
  one of the two address queries was lost and the other had no address; the
  plaintext walk was lost; a chain of redirects broke off past its start;
- one with the wildcard check or the NS query lost;
- any of these aborted, its ladders having finished or not;
- any of these with the store cut short by a kill after the status and `k` more
  fields (`Stored`, `Tears`).

The earlier file is of a scan that finished, was interrupted or killed, and so is
the later one. Both files are fresh and the machine keeps its power: a torn
record over an older one, or pages lost by the disk, are `ScanRun`'s matter. A
failure that the code files as the site's (a refusal, a wrong certificate) is
taken as the site's. A recheck that writes into the file it selects from would,
with resume, skip all it selected.

## What TLC checks

Runs that pass:

| run | instance | shows |
|---|---|---|
| `ScanRunPool` | 2 workers, 2 positions, one on two pages, 2 runs (whole, sampled with resume, boxed with resume), kills, power loss, failing msync | `OneOwner`, `Accounted`, `CompleteIsMeasured`, `ResumePreserves`, `ReturnCovers`, `ReturnIsDurable` under an interrupt, a time box and a fault at any point |
| `ScanRunFull` | 1 worker, 3 positions for a channel of 2, the same 2 runs, kills; fair | `TypeOK` with the channel at its capacity, `CountedIsStored`; `Terminates` with a feeder that meets a full channel; both runs implement `Census` |
| `ProbeRecords` | one redirect hop, five targets on both names, both schemes and elsewhere, plaintext fallback and wildcard check on; fair | `StallAgreesWithConclusive`, `LadderIsClimbed`, `FallbackKeepsReason`, `BrokenIsExplained`, `CohortsPartition`, `CompleteIsUncut`, `OneHostOneWinner`, `Terminates` |
| `DnsConnDemux` | 3 calls, 2 of them the same question, 2 IDs; fair | `RightAnswer`, `HandedOnce`, `NoLeak`, `Returns` |
| `ResolverLookup` | 2 upstreams with 2 pooled sockets each and 2 attempts, or the legacy path with the NS query riding along; fair | `DoubtIsEarned`, `MergeIsOptimistic`, `AnswerIsFinal`, `Terminates` |
| `CollectorBooks` | 2 workers, 2 probes each, 2 buckets, one snapshot at any time | `Balanced`, `SnapshotMissesFew`, `FinalSnapshotIsExact`, `QuantileIsABucket` |
| `ProvenanceFiles` | 2 lists of the same 2 names in either order, a flush after or inside a name, 2 freezes or edits, 2 scans in 2 processes, kills anywhere | `ReportIsBound`, `MetaDescribesTheFile`, `SameWorkResumes`, `FindingsAreKept` |
| `Remeasure` | 3 domains; a site that works, one that only a wildcard answers for, one whose www fails after a redirect; one probe of the two scans, at the middle domain, that stalls on any rung, is misheard, aborted or torn after the status, the apex or the certificate of www; strides 0 and 2, every filter, every sample size | `SummaryAddsUp`, `ReportedIsRechecked`, `SampleIsExact`, `SampleIsUniform`, `DiffIsHonest`, `DiffIsComplete` |

The type invariant of `ScanRun`, which bounds the channel, is checked by TLC and
proved; those of the other modules are proved.

Why the bounds are enough. Two workers and one feeder are the least that can
share a position, and with two positions one can be stored while the other is
skipped, held or still waiting. The channel holds two positions per worker, so
two workers never fill it with two positions; with one worker and three positions
the feeder meets it full while the worker holds none, and that is the instance
`ScanRunFull` asks whether every run ends in. Two runs show what a second run
can do with what a first left. Two message IDs and three calls let an ID be reused while an answer
to its earlier user is under way. One hop is enough for the two names to point
at each other and for a chain to meet the limit. Two sockets per upstream let
`pickOther` need more than one iteration. Two buckets tell a quantile that
stopped at the right one from one that ran past. Two lists of one length are
the least that the size check takes for one another; a list cut short after its
first name is shorter and so brings the refusals and two first opens of different
length, one cut inside its second name has the length of a whole one; a second
scan can be a rerun, a run over another list, another work list or a process
beside the first. Three positions are the least
with which Floyd's loop can meet a taken position and have another left, and
with which a stride of 2 skips a match and takes the next; stride 0 becomes 1. One
spoilt record (`MaxSpoilt`) in a file of three (`Restless` is where) suffices for
properties that speak of a record and its own site, and of counts that one record
moves; that spoilt records do not depend on each other, and a lost NS query (no
site of the instance has its delegation checked), are the proofs' part.
The safety properties are all proved for every size.

Workers are interchangeable in `CollectorBooks`; so are the processes of
`ProvenanceFiles`, and its names, since its set of lists stays the same when they
change places. The two runs use symmetry and check no liveness property; no
other run uses it.

Fairness. Goroutines that can run do, and every blocking call of the code has a
timer: a DNS exchange (pool.go:163), a dial, a handshake and a request
(`newClient`). So each worker, each ladder, each query and the feeder are weakly
fair. Nothing is asked of the network, of `readLoop`, of signals or of the time
box. `Returns` in particular holds although the reader may be dead. After a kill
`Terminates` and the refinement say nothing of a restart: nobody has to start
the program again.

Runs that fail, each showing what a sentence of the sources says and the code
does not do:

| run | the sentence | what happens |
|---|---|---|
| `ScanRunAborted` | record.go:30, an aborted record is for "retry on resume" | resume skips every attempted record, the aborted ones too (scan.go:129) |
| `ScanRunTorn` | record.go:8-10, the file "is its own checkpoint" | a kill between the two stores of `Encode` leaves a blank record marked complete |
| `DnsConnClaim` | pool.go:72, register "claims an unused message ID" | the deferred unregister of an answered call deletes the next call's claim |
| `ProvenanceBinding` | main.go:513, "The checksum is what actually binds them" | tomorrow's list of the same length resumes into today's results (sink.go:76 compares sizes), keeps them and then writes its own checksum beside them: `report` pairs records with the wrong names, the very case main.go:510 speaks of |

Further disagreements were read in the source while modelling. The modules
behave as the code does; no run is devoted to them:

- probe.go:330 says of its last case "Both funnel somewhere else entirely"; the
  case also applies when both names rest on www itself (https://www/ redirects
  to https://www/home, and so does the apex), and records www-to-apex, the
  opposite. `OneHostOneWinner` is what does hold: a winner is declared exactly if
  both rest on one host, it is www exactly if www did not move, and every other
  such case is filed under www-to-apex.
- scan.go:91 speaks of what is "already on disk" where a record is only in the
  mapping: a kill leaves it, a power loss takes it until the kernel or a Sync has
  written it. `CountedIsStored` speaks of the mapping and of kills; what is
  durable is `ReturnIsDurable`'s, of a run that returned.
- record.go:266 says that a conclusive record is "evidence about the domain". A
  record torn by a kill is conclusive, its fields zero; and so is one whose
  query for A was lost while that for AAAA found no address.
- record.go:271 says "A timeout is not" a finding; `mergeStatus` (resolve.go:192)
  ranks nodata above timeout, so a timeout for A and an empty answer for AAAA are
  recorded as nodata, a conclusive finding. An NS lookup that timed out is
  recorded as broken nameservers in the same way (resolve.go:225).
- recheck.go:80 says that the stride is "how a rotating re-verification" is spread
  over many days; there is no offset to rotate, so over an unchanged file every
  recheck takes the same matches.
- runmeta.go:74 says that the result records "whether to trust it"; it counts the
  last run. After a resume, `Probed`, `Validity` and `ValidCensus` are those of
  what was left. `MetaDescribesTheFile` is therefore stated for a file one run
  made.
- main.go:470 says "rerun the same command to resume from where it stopped"; with
  `-sample` and the default seed 0 the rerun draws another sample (main.go:354)
  and the file ends up with positions of both. `SameWorkResumes` is therefore
  stated for equal work lists.
- main.go:584 prints "[www broke]" when the later probe stalled: `Diff` does not
  ask whether either record is conclusive. A later record that was torn or lost
  half of a lookup is printed so too, one whose chain of redirects broke off may be
  printed as fixed, and an earlier record of these kinds misleads the other way.
  `DiffIsHonest` names these kinds (`MayHide`, `MayFeign`) and says that there is
  no other; `DiffIsComplete` that without them no change is missed.
- corpus.go:143 says that `Verify` is "Worth running before a census run, because a
  corpus that changed under an existing result file misaligns every record"; no
  command runs it.
- resolve.go:376 says of `LookupAddrs` "so the scan makes one DNS query per name
  instead of two"; `probeName` (probe.go:197) looks the name up and the dialer
  (probe.go:485) does so again, with no cache in between.
- record.go:289 says that DNS stalls "point at resolver rate limiting" and TCP
  stalls at the egress path; the dialer's DNS timeout and a host that accepts and
  stays silent both become `TCPTimeout` (probe.go:403).
- report.go:331 says "The finding: apex works, www does not"; the filter below it
  asks neither for a conclusive record nor for the apex's TLS.
- pool.go:95 says that `readLoop` runs "until the socket closes"; any read error
  ends it, an ICMP error on the connected socket included, and the socket stays
  in the pool.
- pool.go:222 says that a retry "is not sent straight back to the server that
  ignored it"; the counter is shared, so other queries can move it under
  `pickOther` until it ends on that server.
- metrics.go:160 says "Validity is the conclusive fraction"; a snapshot taken
  during a run loads `completed` first and can exceed one.
- metrics.go:368 says that a quantile is "resolved to the bucket's upper bound";
  between the two adds of an observation a live snapshot can sweep past every
  bucket and return the bound of the whole histogram. `QuantileIsABucket` is
  stated for the snapshot after the run.
- main.go:470 says "interrupted" of any error of `Run`, a failed final sync
  included, and exits with success.

## What is proved

All proofs are in `*Proofs.tla` and `ScanRunRefinement.tla`, for every value of the constants under the
assumptions the modules name (a positive corpus length, a finite non-empty pool
of workers, at least one attempt, a non-empty pool of sockets, and the like).

**ScanRunProofs.** The invariant `IInv` has three layers, each inductive over the
one below. `TypeOK`. Then `Owned`, who has a position: `OneOwner` and `Accounted`
need each other (a position sent is new to the channel because `todo` and `fed`
are disjoint) and `Quiet`, which says that a worker stops only on a closed, empty
channel and that feeding ends for a reason. Then `Stored`, what the file holds:
`Verdicts` ties what a worker holds to what it has stored so far, `Fresh` says
that a resuming feeder only hands out what the run did not find complete. Neither
`CountedIsStored` nor `ResumePreserves` is inductive alone: the first needs that
no other worker is between the two stores of the same record, the second that no
worker holds a position that was complete. `CountedIsStored` is a statement about
the mapping: a power loss ends the run, and nothing is claimed of what was
counted before it; what then is left is `ReturnIsDurable`'s. Theorems: `TypeCorrect`,
`ExclusiveOwnership`, `WorkIsAccounted`, `CountedAfterStored`, `NoContamination`,
`ResumeKeepsResults`, `ReturnMeansCovered`, and the action property
`ReturnedIsDurable`.

**ScanRunRefinement.** `ScanRunImplementsCensus`: every behaviour of `ScanRun` is
one of `Census`. The first store of `Encode` settles a position, `Start` opens a
session, the return of `Run` closes it, a kill is the crash, and everything else,
the second store included, stutters. Two facts are needed beyond `IInv`. A record
without a status is blank, so that a position that is not settled really has no
entry; and under resume a position on its way to its first store still has no
status, so that what is settled stays as it is (`Unwritten`). The theorem assumes
that "power" is not among the faults: when the final sync fails and the power is
lost after the return, entries of a session that is already closed are gone,
which `Census` has no step for. What power losses do leave is the matter of
`ReturnedIsDurable`.

**ProbeProofs.** `IInv` adds to the types what a ladder holds at each stage
(`Walking` before, `Failed` for a kept https walk, `Whole` after), that the
record is the ladders' once joined, and that a ladder cut short implies a
cancelled context. `LadderIsClimbed` needs the middle one: in the plaintext walk
the TLS field is empty and is filled in from the failed walk at the end.
Theorems: `TypeCorrect`, `RungsSupportEachOther`, `PlaintextIsNoSupport`,
`CancellationIsRecorded`, `BrokenHasReason`, `CohortsSplit`, `WinnerIsShared`, and
`TwoViewsAgree`, which holds for every record. `BrokenHasReason` rests on
`LadderIsClimbed`: a side with an HTTP answer cannot have failed below.
`CohortsSplit` says that the broken cohort is what the report counts as broken,
and how it lies in the rows `WriteCSV` exports under that name: those are more
(report.go:333), and the cohort is what is left without the stalled ones and
those whose apex has no good certificate.

**DnsConnProofs.** `Registered` says that whoever stands in the table is under
way, under the ID it was given, with nothing handed to it; `Handed` and `Fitting`
carry the match from the lock to the return. Theorems: `TypeCorrect`,
`AnswersAreRight`, `OneHandOver`, `NoIDLeaks`.

**ResolverProofs.** `Budget` says that the attempts made and those left add up to
the configured attempts, with one iteration under way or not; `Received` lists
the orders in which outcomes arrive. Theorems: `TypeCorrect`,
`DoubtTakesEveryAttempt`, the action property `AnswersEndTheLoop`, `MergeIsSound`.

**CollectorProofs.** `Books` writes each counter as the sum of others and of the
workers at certain places between two adds: `completed` exceeds `conclusive` and
`stalls` by the `Pending` ones. `Balanced` is what is left of it when nobody
counts. `Behind` carries a snapshot from read to read: what it has read plus what
the counters it has yet to read hold never falls short by more than the number of
workers, since only pending ones are missing. `Settled` is the case in which the
counters no longer move. A quantile needs the sum over the buckets. The invariant
`Swept` states it without a recursive definition: there is a function of running
totals, `S[b + 1] = S[b] + buckets[b]`, that ends at `count.hist` less the
observations between the two adds, and the sweep has read `S[next]` so far.
Once nobody observes, the sweep therefore reaches its target before it runs out
of buckets, and at a bucket that added something. Theorems: `TypeCorrect`,
`BooksBalance`, `SnapshotsMissFew`, `FinalSnapshotExact`, `QuantilesHoldAProbe`.

**ProvenanceProofs.** Over the types, one invariant for each promise. `Bound`:
every record has the name its place had in some list the file was opened for, and
the metadata the checksum read with some such list; if there was one such pair,
and it was a list with its own checksum, a matching checksum means the right
names. `Worked`: what is attempted was on a work list, and a process that was not
cut leaves nothing of its own out. It holds however many processes share the
file, as long as there is one work list only: the file then has place for all of
it once it has a size, so a `Truncate` cuts off nothing that counts. `Alone`: a
process that has the file to itself and resumes holds nothing that was attempted
and sizes a file that has nothing, so it neither overwrites nor cuts off. `First`: what the first run has
counted is what the file holds. Theorems: `TypeCorrect`, `ChecksumsBind`, the
action property `FindingsSurvive`, `RerunResumes`, `MetadataCounts`.

**RemeasureProofs.** `IInv` says of each loop what its first `i` steps have done:
`SummaryAddsUp` and `EveryNthMatch` are stated so that they hold inside the loop,
`Earlier` ties the earlier file to what was there, the torn and misheard records
included,
`Seen` counts the matches so far, `FarEnough` says that Floyd's loop has as many
positions as iterations, all below `j` (which is why `j` itself is never taken),
`Probed` ties the later file to the sites, `Found` the changes to the positions
compared. `Rechecked`, a layer above it, counts the broken records in the loop of
Build and bounds what the recheck has taken by what it has met (`Covers`: the
number taken is the number met over the stride, rounded up), which is what makes
the two counts comparable. `SampleIsUniform` is a statement about sequences of
draws and not about states: as many of them choose one sample as choose any other
of the same size. Its proof is an induction over the iterations. The choice
function of `Drawn` is shown to exist and to be unique stage by stage (`Chosen`).
The sequences that lead to a set `S` after one more draw are split by that
draw: they left `S` without the position `j` and drew something already
there or `j` itself, or they left `S` without some other member and drew that
(`Before`, `WithoutOne`). Each part is counted by a bijection with the sequences one
draw shorter (`CountedByParts`), so the count depends on the size of `S` alone
(`Even`). The induction theorems of the library cannot be applied by
the provers at hand; the induction is made by taking the least member of the set
of counterexamples (`Least`, `Induct`). Theorems: `TypeCorrect`, `TalliesAddUp`,
`StrideTakesEveryNth`, `RecheckTakesTheReported`, `SampleHasItsSize`,
`SampleIsFair`, `DiffTellsTheTruth`, `DiffMissesNothing`.

Only model-checked: every liveness property (the prover has no fairness).
The violated properties are of course not proved.

## What is not modelled

- The Tranco download (`internal/corpus/tranco.go`): HTTP and a zip file, whose
  outcome is any list. `normalize` and the options of a list are text.
- The benchmark command: time-boxed runs over the Null sink, of which only the
  rate is printed.
- Of `Build`, the histograms of single fields and the confidence interval; of
  `WriteCSV`, all filters but the one for broken domains.
- Writing a recheck into the very file it selects from (with resume it skips
  every position), and `diff` over files of different corpora, about which the
  code neither checks nor promises anything.
- A run of two processes is modelled with whole records (`Provenance`), not with
  the two stores of each (`ScanRun` has one process at a time).
- The errors the periodic Sync drops (scan.go:200): it is write-back, which
  promises nothing.
- `Open`'s check that a file is whole records and the range check of `Write`:
  `cmdScan` and `cmdReport` compare the number of records first.
- `newPool` failing half-way, resolv.conf, command-line flags and all printing.
- Means, rates, Little's law, the wall clock; `Mark` and `Steady`, whose copy of the
  counters only rates are made of.
- A 32-bit `int`, with which `pick` would index below zero after 2^31 queries.
- Byte layout: the record is its fields, `Encode` its order of stores.
- `benchmarks/` and `scripts/`: a test server and a deployment script.

## Plan

Done, in this order: `ScanRun` with `Census`, its proofs; `Record` and `Probe`;
`DnsConn` with proofs; `Resolver` with proofs; proofs for `Probe`; `Collector`;
`Provenance` with proofs; `Remeasure` with proofs; proofs for `Collector`; the
report's partitions in `ProbeProofs`; `ScanRunRefinement`; quantiles of any size
and their proof; the proof that a sample is uniform.

What is left:

1. Two processes in `ScanRun`, for the two stores of one record by two of them.
2. `Mark` and `Steady` in `Collector`.
