------------------------------- MODULE ScanRun -------------------------------
(***************************************************************************)
(* internal/scan.Run over an internal/sink.Mmap result file, across        *)
(* several invocations of `wwwscan scan` on the same file.                 *)
(*                                                                         *)
(* A run is one feeder (the caller of Run) and a pool of workers.  The     *)
(* feeder walks the work list in ascending order, optionally skips the     *)
(* positions whose stored record was already attempted, and hands the      *)
(* others to a buffered channel.  Each worker takes a position, probes the *)
(* domain, stores the record at its own offset of the mapping and counts   *)
(* it.  An interrupt cancels the context, a time box stops the feed, a     *)
(* kill or a power loss ends the process between any two stores, and the   *)
(* final msync may fail.                                                   *)
(*                                                                         *)
(* What is abstracted: a record is its status, the rest of its bytes (the  *)
(* body: blank, measured without interference, or cut short by the         *)
(* cancelled context) and a ghost bit saying that both come from one       *)
(* Write.  The metrics are the set of positions counted; the reporters'    *)
(* periodic msync is the same step as the kernel's own write-back.         *)
(***************************************************************************)
EXTENDS Naturals, Sequences, FiniteSets

CONSTANTS
    N,          \* the corpus length: positions are 0 .. N-1
    Workers,    \* the worker goroutines of one run
    Requests,   \* the command lines a run may be started with
    Faults,     \* the faults that may happen: a subset of FaultKinds
    Straddling, \* positions whose 24 bytes lie on two pages of the file
    MaxRuns     \* bound: how many times the program is started

Positions == 0 .. N - 1

Cap == 2 * Cardinality(Workers)

\* The process is killed, the machine dies, msync fails.
FaultKinds == {"kill", "power", "sync"}

Statuses == {"Unattempted", "Complete", "Aborted"}

Bodies == {"blank", "measured", "cut"}

Records == [status : Statuses, body : Bodies, whole : BOOLEAN]

\* A result file starts as a hole: every record reads as zeroes.
Blank == [status |-> "Unattempted", body |-> "blank", whole |-> TRUE]

RequestType ==
    [work : (SUBSET Positions) \ {{}}, resume : BOOLEAN, boxed : BOOLEAN]

ASSUME NAssumption == N \in Nat \ {0}
ASSUME WorkersAssumption == IsFiniteSet(Workers) /\ Workers # {}
ASSUME RequestsAssumption == Requests \subseteq RequestType
ASSUME FaultsAssumption == Faults \subseteq FaultKinds
ASSUME StraddlingAssumption == Straddling \subseteq Positions
ASSUME MaxRunsAssumption == MaxRuns \in Nat

VARIABLES
    pc,         \* where the goroutine that called Run is
    request,    \* the options of the current run
    todo,       \* positions of the work list the feeder has not passed yet
    queue,      \* the buffered channel `indices`
    wpc,        \* where each worker is
    widx,       \* the position each worker holds
    wrec,       \* the record each worker is about to store
    cancelled,  \* ctx.Err() # nil
    timeUp,     \* the time box has expired
    mem,        \* the mapping: what every process sees
    disk,       \* what survives a power loss
    runs,       \* how many runs were started
    before,     \* history: the file as the current run found it
    fed,        \* history: positions sent to the channel by this run
    skipped,    \* the positions col.Skip was called for
    counted     \* the positions col.Observe was called for

feederVars == <<pc, todo, fed, skipped>>
workerVars == <<wpc, widx, wrec>>
fileVars == <<mem, disk>>
runVars == <<request, runs, before>>
vars == <<feederVars, queue, workerVars, cancelled, timeUp, fileVars, runVars,
          counted>>

-----------------------------------------------------------------------------

InQueue == {queue[i] : i \in 1 .. Len(queue)}

Busy(w) == wpc[w] \in {"probing", "probed", "judged", "encoding", "stored"}

Held == {widx[w] : w \in {v \in Workers : Busy(v)}}

Running == pc \in {"feed", "send", "drain"}

\* Feeding stopped and close(indices) was called.
Closed == pc \in {"drain", "returned", "failed"}

\* The next element of the work list, which is in ascending order.
IsNext(idx) == idx \in todo /\ \A j \in todo : idx <= j

\* A plausible mistake, no part of the specification: the resume test forgotten.
SkippableNever(idx) == FALSE

\* scan.go skips on any status but the zero one.
Skippable(idx) == request.resume /\ mem[idx].status # "Unattempted"

Init ==
    /\ pc = "down"
    /\ request \in Requests
    /\ todo = {}
    /\ queue = <<>>
    /\ wpc = [w \in Workers |-> "exited"]
    /\ widx = [w \in Workers |-> 0]
    /\ wrec = [w \in Workers |-> Blank]
    /\ cancelled = FALSE
    /\ timeUp = FALSE
    /\ mem = [p \in Positions |-> Blank]
    /\ disk = [p \in Positions |-> Blank]
    /\ runs = 0
    /\ before = mem
    /\ fed = {}
    /\ skipped = {}
    /\ counted = {}

-----------------------------------------------------------------------------
(* Plausible mistakes in the actions below.  No part of the specification: *)
(* each shows that some property depends on the code being as it is.       *)

\* A send that does not wait for room.
SendUnbounded(idx) ==
    /\ pc = "send"
    /\ IsNext(idx)
    /\ pc' = "feed"
    /\ todo' = todo \ {idx}
    /\ fed' = fed \cup {idx}
    /\ queue' = Append(queue, idx)
    /\ UNCHANGED <<skipped, workerVars, cancelled, timeUp, fileVars, runVars,
                   counted>>

\* The run ends without the final Sync.
ReturnUnsynced ==
    /\ pc = "drain"
    /\ \A w \in Workers : wpc[w] = "exited"
    /\ pc' = "returned"
    /\ UNCHANGED <<todo, fed, skipped, queue, workerVars, cancelled, timeUp,
                   fileVars, runVars, counted>>

\* A position read but left in the channel for the next worker.
TakePeek(w) ==
    /\ wpc[w] = "ready"
    /\ queue # <<>>
    /\ wpc' = [wpc EXCEPT ![w] = "probing"]
    /\ widx' = [widx EXCEPT ![w] = Head(queue)]
    /\ queue' \in {queue, Tail(queue)}
    /\ UNCHANGED <<feederVars, wrec, cancelled, timeUp, fileVars, runVars,
                   counted>>

\* A status that does not look at the context after the ladders.
JudgeBlind(w) ==
    /\ wpc[w] = "probed"
    /\ wpc' = [wpc EXCEPT ![w] = "judged"]
    /\ wrec' = [wrec EXCEPT ![w].status = "Complete"]
    /\ UNCHANGED <<feederVars, queue, widx, cancelled, timeUp, fileVars,
                   runVars, counted>>

\* Observed before it is written.
EncodeHeadCounted(w) ==
    /\ wpc[w] = "judged"
    /\ wpc' = [wpc EXCEPT ![w] = "encoding"]
    /\ mem' = [mem EXCEPT ![widx[w]] =
                  [status |-> wrec[w].status, body |-> @.body, whole |-> FALSE]]
    /\ counted' = counted \cup {widx[w]}
    /\ UNCHANGED <<feederVars, queue, widx, wrec, cancelled, timeUp, disk,
                   runVars>>

\* A worker that leaves when the channel happens to be empty.
ExitOnEmpty(w) ==
    /\ wpc[w] = "ready"
    /\ queue = <<>>
    /\ wpc' = [wpc EXCEPT ![w] = "exited"]
    /\ UNCHANGED <<feederVars, queue, widx, wrec, cancelled, timeUp, fileVars,
                   runVars, counted>>

\* A worker that stops at the close instead of draining the channel.
ExitEarly(w) ==
    /\ wpc[w] = "ready"
    /\ Closed
    /\ wpc' = [wpc EXCEPT ![w] = "exited"]
    /\ UNCHANGED <<feederVars, queue, widx, wrec, cancelled, timeUp, fileVars,
                   runVars, counted>>

-----------------------------------------------------------------------------
(* The caller of Run.                                                      *)

\* sink.Create reopens the file, Run allocates the channel and the workers.
Start(r) ==
    /\ ~Running
    /\ runs < MaxRuns
    /\ pc' = "feed"
    /\ request' = r
    /\ todo' = r.work
    /\ queue' = <<>>
    /\ wpc' = [w \in Workers |-> "ready"]
    /\ cancelled' = FALSE
    /\ timeUp' = FALSE
    /\ runs' = runs + 1
    /\ before' = mem
    /\ fed' = {}
    /\ skipped' = {}
    /\ counted' = {}
    /\ UNCHANGED <<widx, wrec, fileVars>>

Skip(idx) ==
    /\ pc = "feed"
    /\ IsNext(idx)
    /\ Skippable(idx)
    /\ todo' = todo \ {idx}
    /\ skipped' = skipped \cup {idx}
    /\ UNCHANGED <<pc, fed, queue, workerVars, cancelled, timeUp, fileVars,
                   runVars, counted>>

\* Past the skip and past the non-blocking look at the time box: the feeder
\* now sits in the select.
Offer(idx) ==
    /\ pc = "feed"
    /\ IsNext(idx)
    /\ ~Skippable(idx)
    /\ ~timeUp
    /\ pc' = "send"
    /\ UNCHANGED <<todo, fed, skipped, queue, workerVars, cancelled, timeUp,
                   fileVars, runVars, counted>>

\* The send case of the select.  Go picks at random among the ready cases, so
\* a cancelled context does not disable it.
Send(idx) ==
    /\ pc = "send"
    /\ IsNext(idx)
    /\ Len(queue) < Cap
    /\ pc' = "feed"
    /\ todo' = todo \ {idx}
    /\ fed' = fed \cup {idx}
    /\ queue' = Append(queue, idx)
    /\ UNCHANGED <<skipped, workerVars, cancelled, timeUp, fileVars, runVars,
                   counted>>

\* break feed, then close(indices).
BreakFeed ==
    /\ \/ pc = "feed" /\ timeUp /\ \E idx \in todo : IsNext(idx) /\ ~Skippable(idx)
       \/ pc = "send" /\ (timeUp \/ cancelled)
    /\ pc' = "drain"
    /\ UNCHANGED <<todo, fed, skipped, queue, workerVars, cancelled, timeUp,
                   fileVars, runVars, counted>>

\* The work list is exhausted, then close(indices).
EndFeed ==
    /\ pc = "feed"
    /\ todo = {}
    /\ pc' = "drain"
    /\ UNCHANGED <<todo, fed, skipped, queue, workerVars, cancelled, timeUp,
                   fileVars, runVars, counted>>

\* wg.Wait, the final out.Sync, and the deferred Close of the sink.
Return ==
    /\ pc = "drain"
    /\ \A w \in Workers : wpc[w] = "exited"
    /\ pc' = "returned"
    /\ disk' = mem
    /\ UNCHANGED <<todo, fed, skipped, queue, workerVars, cancelled, timeUp,
                   mem, runVars, counted>>

\* The final Sync fails: Run hands the error back, as does Close.
SyncFails ==
    /\ "sync" \in Faults
    /\ pc = "drain"
    /\ \A w \in Workers : wpc[w] = "exited"
    /\ pc' = "failed"
    /\ UNCHANGED <<todo, fed, skipped, queue, workerVars, cancelled, timeUp,
                   fileVars, runVars, counted>>

-----------------------------------------------------------------------------
(* A worker.                                                               *)

Take(w) ==
    /\ wpc[w] = "ready"
    /\ queue # <<>>
    /\ wpc' = [wpc EXCEPT ![w] = "probing"]
    /\ widx' = [widx EXCEPT ![w] = Head(queue)]
    /\ queue' = Tail(queue)
    /\ UNCHANGED <<feederVars, wrec, cancelled, timeUp, fileVars, runVars,
                   counted>>

\* The two ladders of Probe come back.  Under a cancelled context any rung
\* may have failed because of the cancellation; or all were past it.
Walk(w) ==
    /\ wpc[w] = "probing"
    /\ wpc' = [wpc EXCEPT ![w] = "probed"]
    /\ \E b \in IF cancelled THEN {"measured", "cut"} ELSE {"measured"} :
          wrec' = [wrec EXCEPT ![w] = [Blank EXCEPT !.body = b]]
    /\ UNCHANGED <<feederVars, queue, widx, cancelled, timeUp, fileVars,
                   runVars, counted>>

\* The last thing Probe does is to look at ctx.Err().
Judge(w) ==
    /\ wpc[w] = "probed"
    /\ wpc' = [wpc EXCEPT ![w] = "judged"]
    /\ wrec' = [wrec EXCEPT ![w] =
                    [@ EXCEPT !.status = IF cancelled THEN "Aborted" ELSE "Complete"]]
    /\ UNCHANGED <<feederVars, queue, widx, cancelled, timeUp, fileVars,
                   runVars, counted>>

\* Encode stores the status byte first ...
EncodeHead(w) ==
    /\ wpc[w] = "judged"
    /\ wpc' = [wpc EXCEPT ![w] = "encoding"]
    /\ mem' = [mem EXCEPT ![widx[w]] =
                  [status |-> wrec[w].status, body |-> @.body, whole |-> FALSE]]
    /\ UNCHANGED <<feederVars, queue, widx, wrec, cancelled, timeUp, disk,
                   runVars, counted>>

\* ... and the two sides last.
EncodeTail(w) ==
    /\ wpc[w] = "encoding"
    /\ wpc' = [wpc EXCEPT ![w] = "stored"]
    /\ mem' = [mem EXCEPT ![widx[w]] = wrec[w]]
    /\ UNCHANGED <<feederVars, queue, widx, wrec, cancelled, timeUp, disk,
                   runVars, counted>>

\* The loop variables die with the iteration.
Observe(w) ==
    /\ wpc[w] = "stored"
    /\ wpc' = [wpc EXCEPT ![w] = "ready"]
    /\ counted' = counted \cup {widx[w]}
    /\ widx' = [widx EXCEPT ![w] = 0]
    /\ wrec' = [wrec EXCEPT ![w] = Blank]
    /\ UNCHANGED <<feederVars, queue, cancelled, timeUp, fileVars, runVars>>

\* The range over the closed and empty channel ends.
Exit(w) ==
    /\ wpc[w] = "ready"
    /\ queue = <<>>
    /\ Closed
    /\ wpc' = [wpc EXCEPT ![w] = "exited"]
    /\ UNCHANGED <<feederVars, queue, widx, wrec, cancelled, timeUp, fileVars,
                   runVars, counted>>

-----------------------------------------------------------------------------
(* The environment.                                                        *)

\* SIGINT or SIGTERM cancels the context; nothing undoes it.
Interrupt ==
    /\ Running
    /\ ~cancelled
    /\ cancelled' = TRUE
    /\ UNCHANGED <<feederVars, queue, workerVars, timeUp, fileVars, runVars,
                   counted>>

Expire ==
    /\ Running
    /\ request.boxed
    /\ ~timeUp
    /\ timeUp' = TRUE
    /\ UNCHANGED <<feederVars, queue, workerVars, cancelled, fileVars, runVars,
                   counted>>

\* A page of the mapping reaches the disk: the kernel's write-back, or the
\* periodic Sync of startReporters, while workers keep storing.  A record on
\* two pages may have only one of them written.
Writeback(p) ==
    /\ "power" \in Faults
    /\ mem[p] # disk[p]
    /\ \/ disk' = [disk EXCEPT ![p] = mem[p]]
       \/ /\ p \in Straddling
          /\ \/ disk' = [disk EXCEPT ![p] =
                            [status |-> mem[p].status, body |-> @.body, whole |-> FALSE]]
             \/ disk' = [disk EXCEPT ![p] =
                            [status |-> @.status, body |-> mem[p].body, whole |-> FALSE]]
    /\ UNCHANGED <<feederVars, queue, workerVars, cancelled, timeUp, mem,
                   runVars, counted>>

\* Everything but the file goes with the process.
Vanish ==
    /\ pc' = "down"
    /\ todo' = {}
    /\ queue' = <<>>
    /\ wpc' = [w \in Workers |-> "exited"]
    /\ widx' = [w \in Workers |-> 0]
    /\ wrec' = [w \in Workers |-> Blank]
    /\ cancelled' = FALSE
    /\ timeUp' = FALSE
    /\ fed' = {}
    /\ skipped' = {}
    /\ UNCHANGED <<disk, runVars>>

\* The process dies between two instructions.  The page cache survives.
Kill ==
    /\ "kill" \in Faults
    /\ Running
    /\ Vanish
    /\ UNCHANGED <<mem, counted>>

\* The machine dies, running or not.  Only what reached the disk survives.
PowerLoss ==
    /\ "power" \in Faults
    /\ Vanish
    /\ mem' = disk
    /\ UNCHANGED counted

\* Nobody starts the program again (the bound MaxRuns).
Rest ==
    /\ ~Running
    /\ runs = MaxRuns
    /\ UNCHANGED vars

-----------------------------------------------------------------------------

Feed == \/ \E idx \in Positions : Skip(idx) \/ Offer(idx) \/ Send(idx)
        \/ BreakFeed
        \/ EndFeed

Work(w) == \/ Take(w)
           \/ Walk(w)
           \/ Judge(w)
           \/ EncodeHead(w)
           \/ EncodeTail(w)
           \/ Observe(w)
           \/ Exit(w)

Environment == \/ Interrupt
               \/ Expire
               \/ \E p \in Positions : Writeback(p)
               \/ Kill
               \/ PowerLoss
               \/ SyncFails

Next == \/ \E r \in Requests : Start(r)
        \/ Feed
        \/ Return
        \/ \E w \in Workers : Work(w)
        \/ Environment
        \/ Rest

Spec == Init /\ [][Next]_vars

\* The Go scheduler runs every goroutine that can run, and Probe returns:
\* each of its rungs has a timeout.
Fairness == /\ WF_vars(Feed)
            /\ WF_vars(Return)
            /\ \A w \in Workers : WF_vars(Work(w))

FairSpec == Spec /\ Fairness

-----------------------------------------------------------------------------
(* Properties.                                                             *)

TypeOK ==
    /\ pc \in {"down", "feed", "send", "drain", "returned", "failed"}
    /\ request \in RequestType
    /\ todo \subseteq Positions
    /\ queue \in Seq(Positions) /\ Len(queue) <= Cap
    /\ wpc \in [Workers -> {"ready", "probing", "probed", "judged", "encoding",
                            "stored", "exited"}]
    /\ widx \in [Workers -> Positions]
    /\ wrec \in [Workers -> Records]
    /\ cancelled \in BOOLEAN
    /\ timeUp \in BOOLEAN
    /\ mem \in [Positions -> Records]
    /\ disk \in [Positions -> Records]
    /\ runs \in Nat
    /\ before \in [Positions -> Records]
    /\ fed \subseteq Positions
    /\ skipped \subseteq Positions
    /\ counted \subseteq Positions

\* sink.go: "no two workers are ever handed the same index".  No position is
\* twice in the channel, in two hands, or in the channel and in a hand.
OneOwner ==
    /\ \A i, j \in 1 .. Len(queue) : i # j => queue[i] # queue[j]
    /\ \A v, w \in Workers : v # w /\ Busy(v) /\ Busy(w) => widx[v] # widx[w]
    /\ InQueue \cap Held = {}

\* While a run goes on, every position of its work list is exactly one of: not
\* reached, skipped, or fed; and a fed one is in the channel, in a worker's
\* hand, or counted.  Nothing is dropped and nothing is done again.
Accounted ==
    pc # "down" =>
        /\ request.work = todo \cup skipped \cup fed
        /\ todo \cap (skipped \cup fed) = {}
        /\ skipped \cap fed = {}
        /\ fed = InQueue \cup Held \cup counted
        /\ counted \cap (InQueue \cup Held) = {}

\* scan.go:90: "a record counted as complete is always a record already on
\* disk", as far as that is so: it is wholly in the mapping, and a kill does not
\* take it back.  A power loss does, until a run has returned (ReturnIsDurable).
CountedIsStored ==
    pc # "down" \/ "power" \notin Faults =>
        \A p \in counted : mem[p].status # "Unattempted" /\ mem[p].whole

\* A record that claims to be complete was measured without interference from
\* a cancelled context: Probe looks at the context after its last rung.  The
\* exception is a record torn between the two stores of Encode: a worker is
\* about to finish it, or a crash tore it before this run.
CompleteIsMeasured ==
    \A p \in Positions :
        /\ mem[p].status = "Complete" /\ mem[p].body # "measured" => ~mem[p].whole
        /\ disk[p].status = "Complete" /\ disk[p].body # "measured" => ~disk[p].whole
        /\ pc # "down" /\ ~mem[p].whole =>
              \/ ~before[p].whole
              \/ \E w \in Workers : wpc[w] = "encoding" /\ widx[w] = p

\* A resumed run leaves every record it found complete as it found it.
ResumePreserves ==
    pc # "down" /\ request.resume =>
        \A p \in Positions :
            before[p].status = "Complete" => mem[p] = before[p]

\* A run that returns has recorded everything it fed, and when neither the
\* context nor the time box stopped it, has covered its work list.
ReturnCovers ==
    pc = "returned" =>
        /\ counted = fed
        /\ ~cancelled /\ ~timeUp => todo = {}
        /\ \A p \in request.work \ todo : mem[p].status # "Unattempted"

\* What a run returned with survives the machine.
ReturnIsDurable == [][pc = "returned" /\ pc' = "down" => mem' = mem]_vars

\* Every run comes to an end: a feeder that meets a full channel is not stuck
\* there, and no worker waits on a channel that is never closed.
Terminates == Running ~> ~Running

\* The detailed specification implements Census.  A position is settled by the
\* first store of Encode: from there on only a crash stops the second.
Storing(p) == \E w \in Workers :
                  wpc[w] \in {"encoding", "stored"} /\ widx[w] = p

Verdict(r) == <<r.status, r.body>>

EntryAt(p) ==
    IF \E w \in Workers : wpc[w] = "encoding" /\ widx[w] = p
    THEN Verdict(wrec[CHOOSE w \in Workers : wpc[w] = "encoding" /\ widx[w] = p])
    ELSE IF mem[p].whole THEN Verdict(mem[p]) ELSE <<"Complete", "torn">>

AsCensus == INSTANCE Census WITH
    Verdicts <- {<<"Complete", "measured">>, <<"Aborted", "measured">>,
                 <<"Aborted", "cut">>},
    Empty    <- Verdict(Blank),
    Damaged  <- <<"Complete", "torn">>,
    open     <- Running,
    resuming <- request.resume,
    settled  <- IF pc = "down" THEN {}
                ELSE counted \cup {p \in Positions : Storing(p)},
    entry    <- [p \in Positions |-> EntryAt(p)]

ImplementsCensus == AsCensus!Spec

\* record.go: an aborted record is to be retried on resume.
AbortedIsRetried == \A p \in skipped : mem[p].status # "Aborted"

\* record.go: the file is its own checkpoint.  With no run going on, a record
\* marked complete holds a measurement.
CheckpointIsSound ==
    ~Running => \A p \in Positions :
                    mem[p].status = "Complete" => mem[p].body # "blank"
=============================================================================
