--------------------------- MODULE ScanRunProofs ---------------------------
(***************************************************************************)
(* Proofs about ScanRun, for every corpus, pool, set of requests and set   *)
(* of faults.  The invariant is built in three layers, each inductive over *)
(* the one before: types, who owns a position, what the file holds.        *)
(***************************************************************************)
EXTENDS ScanRun, FiniteSetTheorems, TLAPS

-----------------------------------------------------------------------------
(* The inductive invariants.                                               *)

\* No process leaves nothing behind; a worker only stops once feeding is over
\* and the channel is empty; and feeding is over for a reason.
Quiet ==
    /\ pc = "down" => queue = <<>> /\ fed = {} /\ skipped = {} /\ todo = {}
    /\ ~Running => \A w \in Workers : wpc[w] = "exited"
    /\ Running => \A w \in Workers :
                      wpc[w] = "exited" => pc = "drain" /\ queue = <<>>
    /\ pc \in {"returned", "failed"} => queue = <<>>
    /\ Closed => todo = {} \/ cancelled \/ timeUp

Owned == OneOwner /\ Accounted /\ Quiet

\* What each worker is about to store, or has stored.
Verdicts ==
    \A w \in Workers :
        /\ wpc[w] = "probed" =>
              /\ wrec[w].whole
              /\ wrec[w].body = "measured" \/ (wrec[w].body = "cut" /\ cancelled)
        /\ wpc[w] \in {"judged", "encoding", "stored"} =>
              /\ wrec[w].whole
              /\ wrec[w].status \in {"Complete", "Aborted"}
              /\ wrec[w].status = "Complete" => wrec[w].body = "measured"
        /\ wpc[w] = "encoding" => ~mem[widx[w]].whole
        /\ wpc[w] \in {"encoding", "stored"} =>
              mem[widx[w]].status = wrec[w].status
        /\ wpc[w] = "stored" => mem[widx[w]] = wrec[w]

\* The feeder skips only what was attempted, and under resume hands out only
\* what the run did not find complete.
Fresh ==
    /\ \A p \in skipped : mem[p].status # "Unattempted"
    /\ pc # "down" /\ request.resume =>
          \A p \in fed : before[p].status # "Complete"
    /\ pc = "send" /\ request.resume =>
          \A p \in todo : IsNext(p) => before[p].status # "Complete"

Stored == Verdicts /\ Fresh /\ CountedIsStored /\ CompleteIsMeasured
              /\ ResumePreserves

IInv == TypeOK /\ Owned /\ Stored
-----------------------------------------------------------------------------
(* Layer one: types.                                                       *)

LEMMA CapIsNat == Cap \in Nat
  BY FS_CardinalityType, WorkersAssumption DEF Cap

LEMMA ZeroIsPosition == 0 \in Positions
  BY NAssumption DEF Positions

LEMMA BlankIsRecord == Blank \in Records
  BY DEF Blank, Records, Statuses, Bodies

LEMMA TypeInit == Init => TypeOK
<1> SUFFICES ASSUME Init PROVE TypeOK
  OBVIOUS
<1> USE DEF Init
<1>1. /\ pc \in {"down", "feed", "send", "drain", "returned", "failed"}
      /\ request \in RequestType /\ cancelled \in BOOLEAN /\ timeUp \in BOOLEAN
      /\ runs \in Nat
  BY RequestsAssumption
<1>2. queue \in Seq(Positions) /\ Len(queue) <= Cap
  BY CapIsNat
<1>3. wpc \in [Workers -> {"ready", "probing", "probed", "judged", "encoding",
                          "stored", "exited"}]
  OBVIOUS
<1>4. widx \in [Workers -> Positions] /\ wrec \in [Workers -> Records]
  BY ZeroIsPosition, BlankIsRecord
<1>5. /\ mem \in [Positions -> Records] /\ disk \in [Positions -> Records]
      /\ before \in [Positions -> Records]
  BY BlankIsRecord
<1>6. /\ todo \subseteq Positions /\ fed \subseteq Positions
      /\ skipped \subseteq Positions /\ counted \subseteq Positions
  OBVIOUS
<1> QED BY <1>1, <1>2, <1>3, <1>4, <1>5, <1>6 DEF TypeOK

\* Type correctness is inductive: no operation of the feeder, of a worker or of
\* the environment leaves the state space, and the channel keeps its capacity.
LEMMA TypeStep == TypeOK /\ [Next]_vars => TypeOK'
<1> SUFFICES ASSUME TypeOK, [Next]_vars PROVE TypeOK'
  OBVIOUS
<1> USE CapIsNat, ZeroIsPosition, BlankIsRecord DEF TypeOK
<1>1. ASSUME NEW r \in Requests, Start(r) PROVE TypeOK'
  <2>1. request' \in RequestType /\ todo' \subseteq Positions
    <3>1. r \in RequestType
      BY RequestsAssumption
    <3>2. r.work \subseteq Positions
      BY <3>1 DEF RequestType
    <3> QED BY <1>1, <3>1, <3>2 DEF Start
  <2>2. queue' \in Seq(Positions) /\ Len(queue') <= Cap
    BY <1>1 DEF Start
  <2> QED BY <1>1, <2>1, <2>2 DEF Start, fileVars
<1>2. ASSUME NEW idx \in Positions, Skip(idx) PROVE TypeOK'
  BY <1>2 DEF Skip, workerVars, fileVars, runVars
<1>3. ASSUME NEW idx \in Positions, Offer(idx) PROVE TypeOK'
  BY <1>3 DEF Offer, workerVars, fileVars, runVars
<1>4. ASSUME NEW idx \in Positions, Send(idx) PROVE TypeOK'
  BY <1>4 DEF Send, workerVars, fileVars, runVars
<1>5. CASE BreakFeed
  BY <1>5 DEF BreakFeed, workerVars, fileVars, runVars
<1>6. CASE EndFeed
  BY <1>6 DEF EndFeed, workerVars, fileVars, runVars
<1>7. CASE Return
  BY <1>7 DEF Return, workerVars, runVars
<1>8. ASSUME NEW w \in Workers, Take(w) PROVE TypeOK'
  BY <1>8 DEF Take, feederVars, fileVars, runVars
<1>9. ASSUME NEW w \in Workers, Walk(w) PROVE TypeOK'
  <2>1. wrec' \in [Workers -> Records]
    <3>1. PICK b \in Bodies : wrec' = [wrec EXCEPT ![w] = [Blank EXCEPT !.body = b]]
      BY <1>9 DEF Walk, Bodies
    <3>2. [Blank EXCEPT !.body = b] \in Records
      BY DEF Blank, Records, Statuses
    <3> QED BY <3>1, <3>2
  <2> QED BY <1>9, <2>1 DEF Walk, feederVars, fileVars, runVars
<1>10. ASSUME NEW w \in Workers, Judge(w) PROVE TypeOK'
  <2>1. wrec' \in [Workers -> Records]
    <3> DEFINE s == IF cancelled THEN "Aborted" ELSE "Complete"
    <3>1. [wrec[w] EXCEPT !.status = s] \in Records
      BY DEF Records, Statuses
    <3>2. wrec' = [wrec EXCEPT ![w] = [wrec[w] EXCEPT !.status = s]]
      BY <1>10 DEF Judge
    <3> QED BY <3>1, <3>2
  <2> QED BY <1>10, <2>1 DEF Judge, feederVars, fileVars, runVars
<1>11. ASSUME NEW w \in Workers, EncodeHead(w) PROVE TypeOK'
  <2>1. mem' \in [Positions -> Records]
    BY <1>11 DEF EncodeHead, Records
  <2> QED BY <1>11, <2>1 DEF EncodeHead, feederVars, runVars
<1>12. ASSUME NEW w \in Workers, EncodeTail(w) PROVE TypeOK'
  BY <1>12 DEF EncodeTail, feederVars, runVars
<1>13. ASSUME NEW w \in Workers, Observe(w) PROVE TypeOK'
  BY <1>13 DEF Observe, feederVars, fileVars, runVars
<1>14. ASSUME NEW w \in Workers, Exit(w) PROVE TypeOK'
  BY <1>14 DEF Exit, feederVars, fileVars, runVars
<1>15. CASE Interrupt
  BY <1>15 DEF Interrupt, feederVars, workerVars, fileVars, runVars
<1>16. CASE Expire
  BY <1>16 DEF Expire, feederVars, workerVars, fileVars, runVars
<1>17. ASSUME NEW p \in Positions, Writeback(p) PROVE TypeOK'
  <2>1. disk' \in [Positions -> Records]
    <3>1. CASE disk' = [disk EXCEPT ![p] = mem[p]]
      BY <3>1
    <3>2. CASE disk' = [disk EXCEPT ![p] =
                 [status |-> mem[p].status, body |-> disk[p].body, whole |-> FALSE]]
      BY <3>2 DEF Records
    <3>3. CASE disk' = [disk EXCEPT ![p] =
                 [status |-> disk[p].status, body |-> mem[p].body, whole |-> FALSE]]
      BY <3>3 DEF Records
    <3> QED BY <1>17, <3>1, <3>2, <3>3 DEF Writeback
  <2> QED BY <1>17, <2>1 DEF Writeback, feederVars, workerVars, runVars
<1>18. CASE Kill
  <2>1. queue' \in Seq(Positions) /\ Len(queue') <= Cap
    BY <1>18 DEF Kill, Vanish
  <2>2. wrec' \in [Workers -> Records] /\ widx' \in [Workers -> Positions]
    BY <1>18 DEF Kill, Vanish
  <2> QED BY <1>18, <2>1, <2>2 DEF Kill, Vanish, runVars
<1>19. CASE PowerLoss
  <2>1. queue' \in Seq(Positions) /\ Len(queue') <= Cap
    BY <1>19 DEF PowerLoss, Vanish
  <2>2. wrec' \in [Workers -> Records] /\ widx' \in [Workers -> Positions]
    BY <1>19 DEF PowerLoss, Vanish
  <2>3. mem' \in [Positions -> Records] /\ disk' \in [Positions -> Records]
    BY <1>19 DEF PowerLoss, Vanish
  <2> QED BY <1>19, <2>1, <2>2, <2>3 DEF PowerLoss, Vanish, runVars
<1>20. CASE SyncFails
  BY <1>20 DEF SyncFails, workerVars, fileVars, runVars
<1>21. CASE UNCHANGED vars
  BY <1>21 DEF vars, feederVars, workerVars, fileVars, runVars
<1> QED
  BY <1>1, <1>2, <1>3, <1>4, <1>5, <1>6, <1>7, <1>8, <1>9, <1>10, <1>11, <1>12,
     <1>13, <1>14, <1>15, <1>16, <1>17, <1>18, <1>19, <1>20, <1>21
     DEF Next, Feed, Work, Environment, Rest

\* Every state of every run is well typed, and the channel is never over its
\* capacity of two positions per worker.
THEOREM TypeCorrect == Spec => []TypeOK
  BY TypeInit, TypeStep, PTL DEF Spec

-----------------------------------------------------------------------------
(* Layer two: who owns a position.                                         *)

\* What a buffered channel holds after a send ...
Contents(q) == {q[i] : i \in 1 .. Len(q)}

LEMMA AppendHolds ==
  ASSUME NEW S, NEW q \in Seq(S), NEW e \in S
  PROVE  LET r == Append(q, e)
         IN  /\ Contents(r) = Contents(q) \cup {e}
             /\ Len(r) = Len(q) + 1
             /\ r[Len(q) + 1] = e
             /\ \A i \in 1 .. Len(q) : r[i] = q[i]
  BY DEF Contents

\* ... and after a receive.
LEMMA TailHolds ==
  ASSUME NEW S, NEW q \in Seq(S), q # <<>>
  PROVE  /\ Contents(q) = Contents(Tail(q)) \cup {Head(q)}
         /\ Tail(q) \in Seq(S)
         /\ Len(Tail(q)) = Len(q) - 1
         /\ \A i \in 1 .. Len(Tail(q)) : Tail(q)[i] = q[i + 1]
         /\ Head(q) = q[1]
         /\ Len(q) \in Nat \ {0}
<1>1. /\ Tail(q) \in Seq(S)
      /\ Len(Tail(q)) = Len(q) - 1
      /\ \A i \in 1 .. Len(Tail(q)) : Tail(q)[i] = q[i + 1]
      /\ Head(q) = q[1]
      /\ Len(q) \in Nat \ {0}
  OBVIOUS
<1>2. ASSUME NEW i \in 1 .. Len(q)
      PROVE  q[i] \in {Tail(q)[j] : j \in 1 .. Len(Tail(q))} \cup {Head(q)}
  <2>1. CASE i = 1
    BY <1>1, <2>1
  <2>2. CASE i # 1
    <3>1. i - 1 \in 1 .. Len(Tail(q)) /\ Tail(q)[i - 1] = q[i]
      BY <1>1, <2>2
    <3> QED BY <3>1
  <2> QED BY <2>1, <2>2
<1>3. ASSUME NEW j \in 1 .. Len(Tail(q))
      PROVE  Tail(q)[j] \in {q[i] : i \in 1 .. Len(q)}
  <2>1. j + 1 \in 1 .. Len(q)
    BY <1>1
  <2> QED BY <1>1, <2>1
<1>4. Head(q) \in {q[i] : i \in 1 .. Len(q)}
  BY <1>1
<1>5. {q[i] : i \in 1 .. Len(q)} =
         {Tail(q)[i] : i \in 1 .. Len(Tail(q))} \cup {Head(q)}
  BY <1>2, <1>3, <1>4, Zenon
<1> QED BY <1>1, <1>5 DEF Contents

\* A step that moves no position leaves its owner alone.
LEMMA NothingMoves ==
  ASSUME OneOwner, queue' = queue, widx' = widx,
         \A w \in Workers : Busy(w)' <=> Busy(w)
  PROVE  OneOwner' /\ InQueue' = InQueue /\ Held' = Held
<1>1. InQueue' = InQueue
  BY DEF InQueue
<1>2. Held' = Held
  BY DEF Held
<1> QED BY <1>1, <1>2 DEF OneOwner

LEMMA OwnedInit == Init => Owned
  BY DEF Init, Owned, OneOwner, Accounted, Quiet, InQueue, Held, Busy, Running,
         Closed

\* Ownership is inductive: whatever the interleaving of the feeder and the
\* workers, a position has one owner and the work list stays accounted for.
LEMMA OwnedStep == TypeOK /\ Owned /\ [Next]_vars => Owned'
<1> SUFFICES ASSUME TypeOK, Owned, [Next]_vars PROVE Owned'
  OBVIOUS
<1>0. OneOwner /\ Accounted /\ Quiet
  BY DEF Owned
<1> USE <1>0
<1>1. ASSUME NEW r \in Requests, Start(r) PROVE Owned'
  <2>1. InQueue' = {} /\ Held' = {}
    BY <1>1 DEF Start, InQueue, Held, Busy
  <2>2. OneOwner'
    BY <1>1, <2>1 DEF Start, OneOwner, Busy
  <2>3. Accounted'
    BY <1>1, <2>1 DEF Start, Accounted
  <2>4. Quiet'
    BY <1>1 DEF Start, Quiet, Running, Closed
  <2> QED BY <2>2, <2>3, <2>4 DEF Owned
<1>2. ASSUME NEW idx \in Positions, Skip(idx) PROVE Owned'
  <2>1. OneOwner' /\ InQueue' = InQueue /\ Held' = Held
    BY <1>2, NothingMoves DEF Skip, workerVars, Busy
  <2>2. Accounted'
    BY <1>2, <2>1 DEF Skip, Accounted, IsNext, runVars
  <2>3. Quiet'
    BY <1>2 DEF Skip, Quiet, Running, Closed, workerVars
  <2> QED BY <2>1, <2>2, <2>3 DEF Owned
<1>3. ASSUME NEW idx \in Positions, Offer(idx) PROVE Owned'
  <2>1. OneOwner' /\ InQueue' = InQueue /\ Held' = Held
    BY <1>3, NothingMoves DEF Offer, workerVars, Busy, TypeOK
  <2>2. Accounted'
    BY <1>3, <2>1 DEF Offer, Accounted, feederVars, runVars
  <2>3. Quiet'
    BY <1>3 DEF Offer, Quiet, Running, Closed, feederVars, workerVars, TypeOK
  <2> QED BY <2>1, <2>2, <2>3 DEF Owned
<1>4. ASSUME NEW idx \in Positions, Send(idx) PROVE Owned'
  <2>1. /\ InQueue' = InQueue \cup {idx}
        /\ Len(queue') = Len(queue) + 1
        /\ queue'[Len(queue) + 1] = idx
        /\ \A i \in 1 .. Len(queue) : queue'[i] = queue[i]
        /\ Len(queue) \in Nat
    <3>1. queue \in Seq(Positions) /\ queue' = Append(queue, idx)
      BY <1>4 DEF Send, TypeOK
    <3>2. /\ Contents(queue') = Contents(queue) \cup {idx}
          /\ Len(queue') = Len(queue) + 1
          /\ queue'[Len(queue) + 1] = idx
          /\ \A i \in 1 .. Len(queue) : queue'[i] = queue[i]
      BY <3>1, AppendHolds
    <3>3. Len(queue) \in Nat
      BY <3>1
    <3> QED BY <3>2, <3>3 DEF InQueue, Contents
  <2>2. Held' = Held
    BY <1>4 DEF Send, workerVars, Held, Busy
  <2>3. idx \notin InQueue /\ idx \notin Held /\ idx \notin counted
    BY <1>4 DEF Send, IsNext, Accounted
  <2>4. \A i \in 1 .. Len(queue) : queue[i] # idx
    BY <2>3 DEF InQueue
  <2>5. OneOwner'
    <3>1. \A i, j \in 1 .. Len(queue') : i # j => queue'[i] # queue'[j]
      BY <2>1, <2>4 DEF OneOwner
    <3>2. \A v, w \in Workers : v # w /\ Busy(v)' /\ Busy(w)' => widx'[v] # widx'[w]
      BY <1>4 DEF Send, workerVars, OneOwner, Busy
    <3>3. InQueue' \cap Held' = {}
      BY <2>1, <2>2, <2>3 DEF OneOwner
    <3> QED BY <3>1, <3>2, <3>3 DEF OneOwner
  <2>6. Accounted'
    BY <1>4, <2>1, <2>2, <2>3 DEF Send, Accounted, IsNext, runVars
  <2>7. Quiet'
    BY <1>4 DEF Send, Quiet, Running, Closed, workerVars
  <2> QED BY <2>5, <2>6, <2>7 DEF Owned
<1>5. CASE BreakFeed
  <2>1. OneOwner' /\ InQueue' = InQueue /\ Held' = Held
    BY <1>5, NothingMoves DEF BreakFeed, workerVars, Busy, TypeOK
  <2>2. Accounted'
    BY <1>5, <2>1 DEF BreakFeed, Accounted, feederVars, runVars
  <2>3. Quiet'
    BY <1>5 DEF BreakFeed, Quiet, Running, Closed, feederVars, workerVars, TypeOK
  <2> QED BY <2>1, <2>2, <2>3 DEF Owned
<1>6. CASE EndFeed
  <2>1. OneOwner' /\ InQueue' = InQueue /\ Held' = Held
    BY <1>6, NothingMoves DEF EndFeed, workerVars, Busy, TypeOK
  <2>2. Accounted'
    BY <1>6, <2>1 DEF EndFeed, Accounted, feederVars, runVars
  <2>3. Quiet'
    BY <1>6 DEF EndFeed, Quiet, Running, Closed, feederVars, workerVars, TypeOK
  <2> QED BY <2>1, <2>2, <2>3 DEF Owned
<1>7. CASE Return
  <2>1. OneOwner' /\ InQueue' = InQueue /\ Held' = Held
    BY <1>7, NothingMoves DEF Return, workerVars, Busy
  <2>2. Accounted'
    BY <1>7, <2>1 DEF Return, Accounted, runVars
  <2>3. Quiet'
    BY <1>7, WorkersAssumption DEF Return, Quiet, Running, Closed, workerVars
  <2> QED BY <2>1, <2>2, <2>3 DEF Owned
<1>8. ASSUME NEW w \in Workers, Take(w) PROVE Owned'
  <2>1. /\ InQueue = InQueue' \cup {Head(queue)}
        /\ Len(queue') = Len(queue) - 1
        /\ \A i \in 1 .. Len(queue') : queue'[i] = queue[i + 1]
        /\ Head(queue) = queue[1]
        /\ Len(queue) \in Nat \ {0}
    <3>1. queue \in Seq(Positions) /\ queue # <<>> /\ queue' = Tail(queue)
      BY <1>8 DEF Take, TypeOK
    <3>2. /\ Contents(queue) = Contents(queue') \cup {Head(queue)}
          /\ Len(queue') = Len(queue) - 1
          /\ \A i \in 1 .. Len(queue') : queue'[i] = queue[i + 1]
          /\ Head(queue) = queue[1]
          /\ Len(queue) \in Nat \ {0}
      BY <3>1, TailHolds
    <3> QED BY <3>2 DEF InQueue, Contents
  <2>2. Head(queue) \notin InQueue'
    <3>1. \A i \in 1 .. Len(queue') : queue'[i] # Head(queue)
      BY <2>1 DEF OneOwner
    <3> QED BY <3>1 DEF InQueue
  <2>3. ~Busy(w) /\ Busy(w)' /\ widx'[w] = Head(queue)
    BY <1>8 DEF Take, Busy, TypeOK
  <2>4. \A v \in Workers \ {w} : (Busy(v)' <=> Busy(v)) /\ widx'[v] = widx[v]
    BY <1>8 DEF Take, Busy, TypeOK
  <2>5. Held' = Held \cup {Head(queue)}
    BY <2>3, <2>4 DEF Held
  <2>6. Head(queue) \notin Held
    BY <2>1 DEF OneOwner
  <2>7. OneOwner'
    <3>1. \A i, j \in 1 .. Len(queue') : i # j => queue'[i] # queue'[j]
      BY <2>1 DEF OneOwner
    <3>2. \A v \in Workers : Busy(v) => widx[v] # Head(queue)
      BY <2>6 DEF Held
    <3>3. ASSUME NEW u \in Workers, NEW v \in Workers, u # v, Busy(u)', Busy(v)'
          PROVE  widx'[u] # widx'[v]
      BY <2>3, <2>4, <3>2, <3>3 DEF OneOwner
    <3>4. InQueue' \cap Held' = {}
      BY <2>1, <2>2, <2>5 DEF OneOwner
    <3> QED BY <3>1, <3>3, <3>4 DEF OneOwner
  <2>8. Accounted'
    BY <1>8, <2>1, <2>5, <2>6 DEF Take, Accounted, feederVars, runVars
  <2>9. Quiet'
    BY <1>8 DEF Take, Quiet, Running, Closed, feederVars, TypeOK
  <2> QED BY <2>7, <2>8, <2>9 DEF Owned
<1>9. ASSUME NEW w \in Workers, Walk(w) PROVE Owned'
  <2>1. OneOwner' /\ InQueue' = InQueue /\ Held' = Held
    BY <1>9, NothingMoves DEF Walk, Busy, TypeOK
  <2>2. Accounted'
    BY <1>9, <2>1 DEF Walk, Accounted, feederVars, runVars
  <2>3. Quiet'
    BY <1>9 DEF Walk, Quiet, Running, Closed, feederVars, TypeOK
  <2> QED BY <2>1, <2>2, <2>3 DEF Owned
<1>10. ASSUME NEW w \in Workers, Judge(w) PROVE Owned'
  <2>1. OneOwner' /\ InQueue' = InQueue /\ Held' = Held
    BY <1>10, NothingMoves DEF Judge, Busy, TypeOK
  <2>2. Accounted'
    BY <1>10, <2>1 DEF Judge, Accounted, feederVars, runVars
  <2>3. Quiet'
    BY <1>10 DEF Judge, Quiet, Running, Closed, feederVars, TypeOK
  <2> QED BY <2>1, <2>2, <2>3 DEF Owned
<1>11. ASSUME NEW w \in Workers, EncodeHead(w) PROVE Owned'
  <2>1. OneOwner' /\ InQueue' = InQueue /\ Held' = Held
    BY <1>11, NothingMoves DEF EncodeHead, Busy, TypeOK
  <2>2. Accounted'
    BY <1>11, <2>1 DEF EncodeHead, Accounted, feederVars, runVars
  <2>3. Quiet'
    BY <1>11 DEF EncodeHead, Quiet, Running, Closed, feederVars, TypeOK
  <2> QED BY <2>1, <2>2, <2>3 DEF Owned
<1>12. ASSUME NEW w \in Workers, EncodeTail(w) PROVE Owned'
  <2>1. OneOwner' /\ InQueue' = InQueue /\ Held' = Held
    BY <1>12, NothingMoves DEF EncodeTail, Busy, TypeOK
  <2>2. Accounted'
    BY <1>12, <2>1 DEF EncodeTail, Accounted, feederVars, runVars
  <2>3. Quiet'
    BY <1>12 DEF EncodeTail, Quiet, Running, Closed, feederVars, TypeOK
  <2> QED BY <2>1, <2>2, <2>3 DEF Owned
<1>13. ASSUME NEW w \in Workers, Observe(w) PROVE Owned'
  <2>1. InQueue' = InQueue
    BY <1>13 DEF Observe, InQueue
  <2>2. Busy(w) /\ ~Busy(w)'
    BY <1>13 DEF Observe, Busy, TypeOK
  <2>3. \A v \in Workers \ {w} : (Busy(v)' <=> Busy(v)) /\ widx'[v] = widx[v]
    BY <1>13 DEF Observe, Busy, TypeOK
  <2>4. widx[w] \in Held /\ Held' = Held \ {widx[w]}
    <3>1. widx[w] \in Held
      BY <2>2 DEF Held
    <3>2. \A v \in Workers \ {w} : Busy(v) => widx[v] # widx[w]
      BY <2>2 DEF OneOwner
    <3>3. Held' = {widx[v] : v \in {u \in Workers \ {w} : Busy(u)}}
      BY <2>2, <2>3 DEF Held
    <3> QED BY <3>1, <3>2, <3>3 DEF Held
  <2>5. OneOwner'
    BY <1>13, <2>1, <2>2, <2>3, <2>4 DEF Observe, OneOwner
  <2>6. Accounted'
    <3>1. InQueue' \cup Held' \cup counted' = InQueue \cup Held \cup counted
      BY <1>13, <2>1, <2>4 DEF Observe
    <3>2. pc # "down" => counted' \cap (InQueue' \cup Held') = {}
      BY <1>13, <2>1, <2>4 DEF Observe, Accounted, OneOwner
    <3> QED BY <1>13, <3>1, <3>2 DEF Observe, Accounted, feederVars, runVars
  <2>7. Quiet'
    BY <1>13 DEF Observe, Quiet, Running, Closed, feederVars, TypeOK
  <2> QED BY <2>5, <2>6, <2>7 DEF Owned
<1>14. ASSUME NEW w \in Workers, Exit(w) PROVE Owned'
  <2>1. OneOwner' /\ InQueue' = InQueue /\ Held' = Held
    BY <1>14, NothingMoves DEF Exit, Busy, TypeOK
  <2>2. Accounted'
    BY <1>14, <2>1 DEF Exit, Accounted, feederVars, runVars
  <2>3. Quiet'
    BY <1>14 DEF Exit, Quiet, Running, Closed, feederVars, TypeOK
  <2> QED BY <2>1, <2>2, <2>3 DEF Owned
<1>15. CASE Interrupt
  <2>1. OneOwner' /\ InQueue' = InQueue /\ Held' = Held
    BY <1>15, NothingMoves DEF Interrupt, workerVars, Busy, TypeOK
  <2>2. Accounted'
    BY <1>15, <2>1 DEF Interrupt, Accounted, feederVars, runVars
  <2>3. Quiet'
    BY <1>15 DEF Interrupt, Quiet, Running, Closed, feederVars, workerVars, TypeOK
  <2> QED BY <2>1, <2>2, <2>3 DEF Owned
<1>16. CASE Expire
  <2>1. OneOwner' /\ InQueue' = InQueue /\ Held' = Held
    BY <1>16, NothingMoves DEF Expire, workerVars, Busy, TypeOK
  <2>2. Accounted'
    BY <1>16, <2>1 DEF Expire, Accounted, feederVars, runVars
  <2>3. Quiet'
    BY <1>16 DEF Expire, Quiet, Running, Closed, feederVars, workerVars, TypeOK
  <2> QED BY <2>1, <2>2, <2>3 DEF Owned
<1>17. ASSUME NEW p \in Positions, Writeback(p) PROVE Owned'
  <2>1. OneOwner' /\ InQueue' = InQueue /\ Held' = Held
    BY <1>17, NothingMoves DEF Writeback, workerVars, Busy, TypeOK
  <2>2. Accounted'
    BY <1>17, <2>1 DEF Writeback, Accounted, feederVars, runVars
  <2>3. Quiet'
    BY <1>17 DEF Writeback, Quiet, Running, Closed, feederVars, workerVars, TypeOK
  <2> QED BY <2>1, <2>2, <2>3 DEF Owned
<1>18. ASSUME Vanish PROVE Owned'
  <2>1. InQueue' = {} /\ Held' = {}
    BY <1>18 DEF Vanish, InQueue, Held, Busy
  <2>2. OneOwner'
    BY <1>18, <2>1 DEF Vanish, OneOwner, Busy
  <2> QED BY <1>18, <2>2 DEF Vanish, Owned, Accounted, Quiet, Running, Closed
<1>19. CASE SyncFails
  <2>1. OneOwner' /\ InQueue' = InQueue /\ Held' = Held
    BY <1>19, NothingMoves DEF SyncFails, workerVars, Busy
  <2>2. Accounted'
    BY <1>19, <2>1 DEF SyncFails, Accounted, fileVars, runVars
  <2>3. Quiet'
    BY <1>19, WorkersAssumption DEF SyncFails, Quiet, Running, Closed, workerVars
  <2> QED BY <2>1, <2>2, <2>3 DEF Owned
<1>20. CASE UNCHANGED vars
  BY <1>20 DEF vars, feederVars, workerVars, fileVars, runVars, Owned, OneOwner,
               Accounted, Quiet, InQueue, Held, Busy, Running, Closed
<1> QED
  BY <1>1, <1>2, <1>3, <1>4, <1>5, <1>6, <1>7, <1>8, <1>9, <1>10, <1>11, <1>12,
     <1>13, <1>14, <1>15, <1>16, <1>17, <1>18, <1>19,
     <1>20 DEF Next, Feed, Work, Environment, Rest, Kill, PowerLoss

-----------------------------------------------------------------------------
(* Layer three: what the file holds.                                       *)

\* A position in a worker's hand is that worker's alone.
LEMMA InHand ==
  ASSUME TypeOK, Owned, NEW w \in Workers, Busy(w)
  PROVE  /\ Running
         /\ widx[w] \in fed /\ widx[w] \notin counted /\ widx[w] \notin skipped
         /\ \A v \in Workers \ {w} : Busy(v) => widx[v] # widx[w]
<1>1. Running
  BY DEF Owned, Quiet, Busy
<1>2. widx[w] \in Held
  BY DEF Held
<1> QED BY <1>1, <1>2 DEF Owned, Accounted, OneOwner, Running

LEMMA StoredInit == Init => Stored
  BY DEF Init, Stored, Verdicts, Fresh, CountedIsStored, CompleteIsMeasured,
         ResumePreserves, Blank

\* The file invariant is inductive: the status is decided after the last rung,
\* a record is counted after it is stored, and a position found complete by a
\* resumed run never reaches a worker.
LEMMA StoredStep == TypeOK /\ Owned /\ Stored /\ [Next]_vars => Stored'
<1> SUFFICES ASSUME TypeOK, Owned, Stored, [Next]_vars PROVE Stored'
  OBVIOUS
<1>0. Verdicts /\ Fresh /\ CountedIsStored /\ CompleteIsMeasured /\ ResumePreserves
  BY DEF Stored
<1> USE <1>0
<1>1. ASSUME NEW r \in Requests, Start(r) PROVE Stored'
  <2>1. Verdicts'
    BY <1>1 DEF Start, Verdicts, fileVars, TypeOK
  <2>2. Fresh'
    BY <1>1 DEF Start, Fresh, fileVars, TypeOK
  <2>3. CountedIsStored'
    BY <1>1 DEF Start, CountedIsStored, fileVars, TypeOK
  <2>4. CompleteIsMeasured'
    BY <1>1 DEF Start, CompleteIsMeasured, fileVars, Owned, Quiet, Running, TypeOK
  <2>5. ResumePreserves'
    BY <1>1 DEF Start, ResumePreserves, fileVars, TypeOK
  <2> QED BY <2>1, <2>2, <2>3, <2>4, <2>5 DEF Stored
<1>2. ASSUME NEW idx \in Positions, Skip(idx) PROVE Stored'
  <2>1. Verdicts'
    BY <1>2 DEF Skip, Verdicts, Skippable, IsNext, workerVars, fileVars, runVars, TypeOK
  <2>2. Fresh'
    BY <1>2 DEF Skip, Fresh, Skippable, IsNext, workerVars, fileVars, runVars, TypeOK
  <2>3. CountedIsStored'
    BY <1>2 DEF Skip, CountedIsStored, Skippable, IsNext, workerVars, fileVars, runVars, TypeOK
  <2>4. CompleteIsMeasured'
    BY <1>2 DEF Skip, CompleteIsMeasured, Skippable, IsNext, workerVars, fileVars, runVars, TypeOK
  <2>5. ResumePreserves'
    BY <1>2 DEF Skip, ResumePreserves, Skippable, IsNext, workerVars, fileVars, runVars, TypeOK
  <2> QED BY <2>1, <2>2, <2>3, <2>4, <2>5 DEF Stored
<1>3. ASSUME NEW idx \in Positions, Offer(idx) PROVE Stored'
  <2>1. Verdicts'
    BY <1>3 DEF Offer, Verdicts, Skippable, IsNext, workerVars, fileVars, runVars, TypeOK
  <2>2. Fresh'
    <3>1. \A p \in skipped' : mem'[p].status # "Unattempted"
      BY <1>3 DEF Offer, Fresh, fileVars
    <3>2. ASSUME request'.resume, NEW p \in todo', IsNext(p)'
          PROVE  before'[p].status # "Complete"
      <4>1. p = idx
        BY <1>3, <3>2, NAssumption DEF Offer, IsNext, Positions
      <4>2. mem[idx].status = "Unattempted"
        BY <1>3, <3>2 DEF Offer, Skippable, runVars
      <4> QED BY <1>3, <3>2, <4>1, <4>2 DEF Offer, ResumePreserves, runVars
    <3> QED BY <1>3, <3>1, <3>2 DEF Offer, Fresh, runVars
  <2>3. CountedIsStored'
    BY <1>3 DEF Offer, CountedIsStored, Skippable, IsNext, workerVars, fileVars, runVars, TypeOK
  <2>4. CompleteIsMeasured'
    BY <1>3 DEF Offer, CompleteIsMeasured, Skippable, IsNext, workerVars, fileVars, runVars, TypeOK
  <2>5. ResumePreserves'
    BY <1>3 DEF Offer, ResumePreserves, Skippable, IsNext, workerVars, fileVars, runVars, TypeOK
  <2> QED BY <2>1, <2>2, <2>3, <2>4, <2>5 DEF Stored
<1>4. ASSUME NEW idx \in Positions, Send(idx) PROVE Stored'
  <2>1. Verdicts'
    BY <1>4 DEF Send, Verdicts, IsNext, workerVars, fileVars, runVars, TypeOK
  <2>2. Fresh'
    BY <1>4 DEF Send, Fresh, IsNext, workerVars, fileVars, runVars, TypeOK
  <2>3. CountedIsStored'
    BY <1>4 DEF Send, CountedIsStored, IsNext, workerVars, fileVars, runVars, TypeOK
  <2>4. CompleteIsMeasured'
    BY <1>4 DEF Send, CompleteIsMeasured, IsNext, workerVars, fileVars, runVars, TypeOK
  <2>5. ResumePreserves'
    BY <1>4 DEF Send, ResumePreserves, IsNext, workerVars, fileVars, runVars, TypeOK
  <2> QED BY <2>1, <2>2, <2>3, <2>4, <2>5 DEF Stored
<1>5. CASE BreakFeed
  <2>1. Verdicts'
    BY <1>5 DEF BreakFeed, Verdicts, workerVars, fileVars, runVars, TypeOK
  <2>2. Fresh'
    BY <1>5 DEF BreakFeed, Fresh, workerVars, fileVars, runVars, TypeOK
  <2>3. CountedIsStored'
    BY <1>5 DEF BreakFeed, CountedIsStored, workerVars, fileVars, runVars, TypeOK
  <2>4. CompleteIsMeasured'
    BY <1>5 DEF BreakFeed, CompleteIsMeasured, workerVars, fileVars, runVars, TypeOK
  <2>5. ResumePreserves'
    BY <1>5 DEF BreakFeed, ResumePreserves, workerVars, fileVars, runVars, TypeOK
  <2> QED BY <2>1, <2>2, <2>3, <2>4, <2>5 DEF Stored
<1>6. CASE EndFeed
  <2>1. Verdicts'
    BY <1>6 DEF EndFeed, Verdicts, workerVars, fileVars, runVars, TypeOK
  <2>2. Fresh'
    BY <1>6 DEF EndFeed, Fresh, workerVars, fileVars, runVars, TypeOK
  <2>3. CountedIsStored'
    BY <1>6 DEF EndFeed, CountedIsStored, workerVars, fileVars, runVars, TypeOK
  <2>4. CompleteIsMeasured'
    BY <1>6 DEF EndFeed, CompleteIsMeasured, workerVars, fileVars, runVars, TypeOK
  <2>5. ResumePreserves'
    BY <1>6 DEF EndFeed, ResumePreserves, workerVars, fileVars, runVars, TypeOK
  <2> QED BY <2>1, <2>2, <2>3, <2>4, <2>5 DEF Stored
<1>7. CASE Return
  <2>1. Verdicts'
    BY <1>7 DEF Return, Verdicts, workerVars, runVars, TypeOK
  <2>2. Fresh'
    BY <1>7 DEF Return, Fresh, workerVars, runVars, TypeOK
  <2>3. CountedIsStored'
    BY <1>7 DEF Return, CountedIsStored, workerVars, runVars, TypeOK
  <2>4. CompleteIsMeasured'
    BY <1>7 DEF Return, CompleteIsMeasured, workerVars, runVars, TypeOK
  <2>5. ResumePreserves'
    BY <1>7 DEF Return, ResumePreserves, workerVars, runVars, TypeOK
  <2> QED BY <2>1, <2>2, <2>3, <2>4, <2>5 DEF Stored
<1>8. ASSUME NEW w \in Workers, Take(w) PROVE Stored'
  <2>1. Verdicts'
    BY <1>8 DEF Take, Verdicts, Blank, IsNext, feederVars, fileVars, runVars, TypeOK
  <2>2. Fresh'
    BY <1>8 DEF Take, Fresh, Blank, IsNext, feederVars, fileVars, runVars, TypeOK
  <2>3. CountedIsStored'
    BY <1>8 DEF Take, CountedIsStored, Blank, IsNext, feederVars, fileVars, runVars, TypeOK
  <2>4. CompleteIsMeasured'
    BY <1>8 DEF Take, CompleteIsMeasured, Blank, IsNext, feederVars, fileVars, runVars, TypeOK
  <2>5. ResumePreserves'
    BY <1>8 DEF Take, ResumePreserves, Blank, IsNext, feederVars, fileVars, runVars, TypeOK
  <2> QED BY <2>1, <2>2, <2>3, <2>4, <2>5 DEF Stored
<1>9. ASSUME NEW w \in Workers, Walk(w) PROVE Stored'
  <2>1. Verdicts'
    BY <1>9 DEF Walk, Verdicts, Blank, IsNext, feederVars, fileVars, runVars, TypeOK
  <2>2. Fresh'
    BY <1>9 DEF Walk, Fresh, Blank, IsNext, feederVars, fileVars, runVars, TypeOK
  <2>3. CountedIsStored'
    BY <1>9 DEF Walk, CountedIsStored, Blank, IsNext, feederVars, fileVars, runVars, TypeOK
  <2>4. CompleteIsMeasured'
    BY <1>9 DEF Walk, CompleteIsMeasured, Blank, IsNext, feederVars, fileVars, runVars, TypeOK
  <2>5. ResumePreserves'
    BY <1>9 DEF Walk, ResumePreserves, Blank, IsNext, feederVars, fileVars, runVars, TypeOK
  <2> QED BY <2>1, <2>2, <2>3, <2>4, <2>5 DEF Stored
<1>10. ASSUME NEW w \in Workers, Judge(w) PROVE Stored'
  <2>1. Verdicts'
    BY <1>10 DEF Judge, Verdicts, Blank, IsNext, feederVars, fileVars, runVars, TypeOK
  <2>2. Fresh'
    BY <1>10 DEF Judge, Fresh, Blank, IsNext, feederVars, fileVars, runVars, TypeOK
  <2>3. CountedIsStored'
    BY <1>10 DEF Judge, CountedIsStored, Blank, IsNext, feederVars, fileVars, runVars, TypeOK
  <2>4. CompleteIsMeasured'
    BY <1>10 DEF Judge, CompleteIsMeasured, Blank, IsNext, feederVars, fileVars, runVars, TypeOK
  <2>5. ResumePreserves'
    BY <1>10 DEF Judge, ResumePreserves, Blank, IsNext, feederVars, fileVars, runVars, TypeOK
  <2> QED BY <2>1, <2>2, <2>3, <2>4, <2>5 DEF Stored
<1>11. ASSUME NEW w \in Workers, EncodeHead(w) PROVE Stored'
  <2> DEFINE p == widx[w]
  <2>a. wpc[w] = "judged" /\ wpc' = [wpc EXCEPT ![w] = "encoding"]
    BY <1>11 DEF EncodeHead
  <2>b. /\ Running
        /\ p \in fed /\ p \notin counted /\ p \notin skipped
        /\ \A v \in Workers \ {w} : Busy(v) => widx[v] # p
    BY <2>a, InHand DEF Busy
  <2>c. p \in Positions /\ \A q \in Positions \ {p} : mem'[q] = mem[q]
    BY <1>11 DEF EncodeHead, TypeOK
  <2>d. mem'[p].status = wrec[w].status /\ ~mem'[p].whole
    BY <1>11, <2>a, <2>c DEF EncodeHead, Verdicts, TypeOK
  <2>e. \A v \in Workers \ {w} : Busy(v) => mem'[widx[v]] = mem[widx[v]]
    BY <2>b, <2>c DEF TypeOK
  <2>1. Verdicts'
    <3> SUFFICES ASSUME NEW v \in Workers
                 PROVE  /\ wpc'[v] = "probed" =>
                              /\ wrec'[v].whole
                              /\ wrec'[v].body = "measured"
                                   \/ (wrec'[v].body = "cut" /\ cancelled')
                        /\ wpc'[v] \in {"judged", "encoding", "stored"} =>
                              /\ wrec'[v].whole
                              /\ wrec'[v].status \in {"Complete", "Aborted"}
                              /\ wrec'[v].status = "Complete" =>
                                    wrec'[v].body = "measured"
                        /\ wpc'[v] = "encoding" => ~mem'[widx'[v]].whole
                        /\ wpc'[v] \in {"encoding", "stored"} =>
                              mem'[widx'[v]].status = wrec'[v].status
                        /\ wpc'[v] = "stored" => mem'[widx'[v]] = wrec'[v]
      BY DEF Verdicts
    <3>1. CASE v = w
      BY <1>11, <2>a, <2>d, <3>1 DEF EncodeHead, Verdicts, TypeOK
    <3>2. CASE v # w
      BY <1>11, <2>a, <2>e, <3>2 DEF EncodeHead, Verdicts, Busy, TypeOK
    <3> QED BY <3>1, <3>2
  <2>2. Fresh'
    BY <1>11, <2>b, <2>c DEF EncodeHead, Fresh, IsNext, feederVars, runVars, TypeOK
  <2>3. CountedIsStored'
    BY <1>11, <2>b, <2>c DEF EncodeHead, CountedIsStored, Running, feederVars, TypeOK
  <2>4. CompleteIsMeasured'
    <3>1. \A q \in Positions :
             mem'[q].status = "Complete" /\ mem'[q].body # "measured" => ~mem'[q].whole
      BY <2>c, <2>d DEF CompleteIsMeasured
    <3>2. ASSUME NEW q \in Positions, ~mem'[q].whole, before[q].whole
          PROVE  \E v \in Workers : wpc'[v] = "encoding" /\ widx'[v] = q
      <4>1. CASE q = p
        BY <1>11, <2>a, <4>1 DEF EncodeHead, TypeOK
      <4>2. CASE q # p
        <5>1. PICK v \in Workers : wpc[v] = "encoding" /\ widx[v] = q
          BY <2>b, <2>c, <3>2, <4>2 DEF CompleteIsMeasured, Running
        <5> QED BY <1>11, <2>a, <5>1 DEF EncodeHead, TypeOK
      <4> QED BY <4>1, <4>2
    <3> QED BY <1>11, <3>1, <3>2 DEF EncodeHead, CompleteIsMeasured, runVars
  <2>5. ResumePreserves'
    BY <1>11, <2>b, <2>c DEF EncodeHead, ResumePreserves, Fresh, Running, feederVars,
                             runVars
  <2> QED BY <2>1, <2>2, <2>3, <2>4, <2>5 DEF Stored
<1>12. ASSUME NEW w \in Workers, EncodeTail(w) PROVE Stored'
  <2> DEFINE p == widx[w]
  <2>a. wpc[w] = "encoding" /\ wpc' = [wpc EXCEPT ![w] = "stored"]
    BY <1>12 DEF EncodeTail
  <2>b. /\ Running
        /\ p \in fed /\ p \notin counted /\ p \notin skipped
        /\ \A v \in Workers \ {w} : Busy(v) => widx[v] # p
    BY <2>a, InHand DEF Busy
  <2>c. p \in Positions /\ \A q \in Positions \ {p} : mem'[q] = mem[q]
    BY <1>12 DEF EncodeTail, TypeOK
  <2>d. /\ mem'[p] = wrec[w] /\ wrec[w].whole
        /\ wrec[w].status \in {"Complete", "Aborted"}
        /\ wrec[w].status = "Complete" => wrec[w].body = "measured"
    BY <1>12, <2>a, <2>c DEF EncodeTail, Verdicts, TypeOK
  <2>e. \A v \in Workers \ {w} : Busy(v) => mem'[widx[v]] = mem[widx[v]]
    BY <2>b, <2>c DEF TypeOK
  <2>1. Verdicts'
    <3> SUFFICES ASSUME NEW v \in Workers
                 PROVE  /\ wpc'[v] = "probed" =>
                              /\ wrec'[v].whole
                              /\ wrec'[v].body = "measured"
                                   \/ (wrec'[v].body = "cut" /\ cancelled')
                        /\ wpc'[v] \in {"judged", "encoding", "stored"} =>
                              /\ wrec'[v].whole
                              /\ wrec'[v].status \in {"Complete", "Aborted"}
                              /\ wrec'[v].status = "Complete" =>
                                    wrec'[v].body = "measured"
                        /\ wpc'[v] = "encoding" => ~mem'[widx'[v]].whole
                        /\ wpc'[v] \in {"encoding", "stored"} =>
                              mem'[widx'[v]].status = wrec'[v].status
                        /\ wpc'[v] = "stored" => mem'[widx'[v]] = wrec'[v]
      BY DEF Verdicts
    <3>1. CASE v = w
      BY <1>12, <2>a, <2>d, <3>1 DEF EncodeTail, Verdicts, TypeOK
    <3>2. CASE v # w
      BY <1>12, <2>a, <2>e, <3>2 DEF EncodeTail, Verdicts, Busy, TypeOK
    <3> QED BY <3>1, <3>2
  <2>2. Fresh'
    BY <1>12, <2>b, <2>c DEF EncodeTail, Fresh, IsNext, feederVars, runVars, TypeOK
  <2>3. CountedIsStored'
    BY <1>12, <2>b, <2>c DEF EncodeTail, CountedIsStored, Running, feederVars, TypeOK
  <2>4. CompleteIsMeasured'
    <3>1. \A q \in Positions :
             mem'[q].status = "Complete" /\ mem'[q].body # "measured" => ~mem'[q].whole
      BY <2>c, <2>d DEF CompleteIsMeasured
    <3>2. ASSUME NEW q \in Positions, ~mem'[q].whole, before[q].whole
          PROVE  \E v \in Workers : wpc'[v] = "encoding" /\ widx'[v] = q
      <4>1. q # p
        BY <2>d, <3>2
      <4>2. PICK v \in Workers : wpc[v] = "encoding" /\ widx[v] = q
        BY <2>b, <2>c, <3>2, <4>1 DEF CompleteIsMeasured, Running
      <4>3. v # w
        BY <4>1, <4>2
      <4> QED BY <1>12, <4>2, <4>3 DEF EncodeTail, TypeOK
    <3> QED BY <1>12, <3>1, <3>2 DEF EncodeTail, CompleteIsMeasured, runVars
  <2>5. ResumePreserves'
    BY <1>12, <2>b, <2>c DEF EncodeTail, ResumePreserves, Fresh, Running, feederVars,
                             runVars
  <2> QED BY <2>1, <2>2, <2>3, <2>4, <2>5 DEF Stored
<1>13. ASSUME NEW w \in Workers, Observe(w) PROVE Stored'
  <2>c. Running
    BY <1>13, InHand DEF Observe, Busy
  <2>1. Verdicts'
    BY <1>13 DEF Observe, Verdicts, Blank, IsNext, feederVars, fileVars, runVars, TypeOK
  <2>2. Fresh'
    BY <1>13 DEF Observe, Fresh, Blank, IsNext, feederVars, fileVars, runVars, TypeOK
  <2>3. CountedIsStored'
    BY <1>13, <2>c DEF Observe, CountedIsStored, Running, Verdicts, feederVars, fileVars,
                          TypeOK
  <2>4. CompleteIsMeasured'
    BY <1>13 DEF Observe, CompleteIsMeasured, Blank, IsNext, feederVars, fileVars, runVars, TypeOK
  <2>5. ResumePreserves'
    BY <1>13 DEF Observe, ResumePreserves, Blank, IsNext, feederVars, fileVars, runVars, TypeOK
  <2> QED BY <2>1, <2>2, <2>3, <2>4, <2>5 DEF Stored
<1>14. ASSUME NEW w \in Workers, Exit(w) PROVE Stored'
  <2>1. Verdicts'
    BY <1>14 DEF Exit, Verdicts, IsNext, feederVars, fileVars, runVars, TypeOK
  <2>2. Fresh'
    BY <1>14 DEF Exit, Fresh, IsNext, feederVars, fileVars, runVars, TypeOK
  <2>3. CountedIsStored'
    BY <1>14 DEF Exit, CountedIsStored, IsNext, feederVars, fileVars, runVars, TypeOK
  <2>4. CompleteIsMeasured'
    BY <1>14 DEF Exit, CompleteIsMeasured, IsNext, feederVars, fileVars, runVars, TypeOK
  <2>5. ResumePreserves'
    BY <1>14 DEF Exit, ResumePreserves, IsNext, feederVars, fileVars, runVars, TypeOK
  <2> QED BY <2>1, <2>2, <2>3, <2>4, <2>5 DEF Stored
<1>15. CASE Interrupt
  <2>1. Verdicts'
    BY <1>15 DEF Interrupt, Verdicts, IsNext, workerVars, feederVars, fileVars, runVars, TypeOK
  <2>2. Fresh'
    BY <1>15 DEF Interrupt, Fresh, IsNext, workerVars, feederVars, fileVars, runVars, TypeOK
  <2>3. CountedIsStored'
    BY <1>15 DEF Interrupt, CountedIsStored, IsNext, workerVars, feederVars, fileVars, runVars, TypeOK
  <2>4. CompleteIsMeasured'
    BY <1>15 DEF Interrupt, CompleteIsMeasured, IsNext, workerVars, feederVars, fileVars, runVars, TypeOK
  <2>5. ResumePreserves'
    BY <1>15 DEF Interrupt, ResumePreserves, IsNext, workerVars, feederVars, fileVars, runVars, TypeOK
  <2> QED BY <2>1, <2>2, <2>3, <2>4, <2>5 DEF Stored
<1>16. CASE Expire
  <2>1. Verdicts'
    BY <1>16 DEF Expire, Verdicts, IsNext, workerVars, feederVars, fileVars, runVars, TypeOK
  <2>2. Fresh'
    BY <1>16 DEF Expire, Fresh, IsNext, workerVars, feederVars, fileVars, runVars, TypeOK
  <2>3. CountedIsStored'
    BY <1>16 DEF Expire, CountedIsStored, IsNext, workerVars, feederVars, fileVars, runVars, TypeOK
  <2>4. CompleteIsMeasured'
    BY <1>16 DEF Expire, CompleteIsMeasured, IsNext, workerVars, feederVars, fileVars, runVars, TypeOK
  <2>5. ResumePreserves'
    BY <1>16 DEF Expire, ResumePreserves, IsNext, workerVars, feederVars, fileVars, runVars, TypeOK
  <2> QED BY <2>1, <2>2, <2>3, <2>4, <2>5 DEF Stored
<1>17. ASSUME NEW p \in Positions, Writeback(p) PROVE Stored'
  <2>1. Verdicts'
    BY <1>17 DEF Writeback, Verdicts, IsNext, feederVars, workerVars, runVars, TypeOK
  <2>2. Fresh'
    BY <1>17 DEF Writeback, Fresh, IsNext, feederVars, workerVars, runVars, TypeOK
  <2>3. CountedIsStored'
    BY <1>17 DEF Writeback, CountedIsStored, IsNext, feederVars, workerVars, runVars, TypeOK
  <2>4. CompleteIsMeasured'
    BY <1>17 DEF Writeback, CompleteIsMeasured, IsNext, feederVars, workerVars, runVars, TypeOK
  <2>5. ResumePreserves'
    BY <1>17 DEF Writeback, ResumePreserves, IsNext, feederVars, workerVars, runVars, TypeOK
  <2> QED BY <2>1, <2>2, <2>3, <2>4, <2>5 DEF Stored
<1>18. CASE Kill
  <2>1. Verdicts'
    BY <1>18 DEF Kill, Verdicts, Vanish, runVars, TypeOK
  <2>2. Fresh'
    BY <1>18 DEF Kill, Fresh, Vanish, runVars, TypeOK
  <2>3. CountedIsStored'
    BY <1>18 DEF Kill, CountedIsStored, Vanish, runVars, TypeOK
  <2>4. CompleteIsMeasured'
    BY <1>18 DEF Kill, CompleteIsMeasured, Vanish, runVars, TypeOK
  <2>5. ResumePreserves'
    BY <1>18 DEF Kill, ResumePreserves, Vanish, runVars, TypeOK
  <2> QED BY <2>1, <2>2, <2>3, <2>4, <2>5 DEF Stored
<1>19. CASE PowerLoss
  <2>1. Verdicts'
    BY <1>19 DEF PowerLoss, Verdicts, Vanish, runVars, TypeOK
  <2>2. Fresh'
    BY <1>19 DEF PowerLoss, Fresh, Vanish, runVars, TypeOK
  <2>3. CountedIsStored'
    BY <1>19 DEF PowerLoss, CountedIsStored, Vanish, runVars, TypeOK
  <2>4. CompleteIsMeasured'
    BY <1>19 DEF PowerLoss, CompleteIsMeasured, Vanish, runVars, TypeOK
  <2>5. ResumePreserves'
    BY <1>19 DEF PowerLoss, ResumePreserves, Vanish, runVars, TypeOK
  <2> QED BY <2>1, <2>2, <2>3, <2>4, <2>5 DEF Stored
<1>20. CASE SyncFails
  <2>1. Verdicts'
    BY <1>20 DEF SyncFails, Verdicts, workerVars, fileVars, runVars, TypeOK
  <2>2. Fresh'
    BY <1>20 DEF SyncFails, Fresh, workerVars, fileVars, runVars, TypeOK
  <2>3. CountedIsStored'
    BY <1>20 DEF SyncFails, CountedIsStored, workerVars, fileVars, runVars, TypeOK
  <2>4. CompleteIsMeasured'
    BY <1>20 DEF SyncFails, CompleteIsMeasured, workerVars, fileVars, runVars, TypeOK
  <2>5. ResumePreserves'
    BY <1>20 DEF SyncFails, ResumePreserves, workerVars, fileVars, runVars, TypeOK
  <2> QED BY <2>1, <2>2, <2>3, <2>4, <2>5 DEF Stored
<1>21. CASE UNCHANGED vars
  BY <1>21 DEF vars, feederVars, workerVars, fileVars, runVars, Stored, Verdicts,
               Fresh, IsNext, CountedIsStored, CompleteIsMeasured, ResumePreserves
<1> QED
  BY <1>1, <1>2, <1>3, <1>4, <1>5, <1>6, <1>7, <1>8, <1>9, <1>10, <1>11, <1>12,
     <1>13, <1>14, <1>15, <1>16, <1>17, <1>18, <1>19, <1>20, <1>21
     DEF Next, Feed, Work, Environment, Rest

-----------------------------------------------------------------------------
(* The theorems.                                                           *)

LEMMA Invariant == Spec => []IInv
<1>1. Init => IInv
  BY TypeInit, OwnedInit, StoredInit DEF IInv
<1>2. IInv /\ [Next]_vars => IInv'
  BY TypeStep, OwnedStep, StoredStep DEF IInv
<1> QED BY <1>1, <1>2, PTL DEF Spec

\* No two workers are ever handed the same index (sink.go relies on it to
\* write without a lock), whatever the work list and the number of workers.
THEOREM ExclusiveOwnership == Spec => []OneOwner
<1>1. IInv => OneOwner
  BY DEF IInv, Owned
<1> QED BY <1>1, Invariant, PTL

\* Feeding, skipping, breaking off and draining lose no position and repeat
\* none.
THEOREM WorkIsAccounted == Spec => []Accounted
<1>1. IInv => Accounted
  BY DEF IInv, Owned
<1> QED BY <1>1, Invariant, PTL

\* Every position the metrics count as completed is stored: in the mapping during
\* the run, whatever a power loss will take, and after a kill.
THEOREM CountedAfterStored == Spec => []CountedIsStored
<1>1. IInv => CountedIsStored
  BY DEF IInv, Stored
<1> QED BY <1>1, Invariant, PTL

\* An interrupt never leaves a record that claims to be complete and is not.
THEOREM NoContamination == Spec => []CompleteIsMeasured
<1>1. IInv => CompleteIsMeasured
  BY DEF IInv, Stored
<1> QED BY <1>1, Invariant, PTL

\* Resuming overwrites no complete record, across kills and power losses.
THEOREM ResumeKeepsResults == Spec => []ResumePreserves
<1>1. IInv => ResumePreserves
  BY DEF IInv, Stored
<1> QED BY <1>1, Invariant, PTL

\* A run that returns drained everything it fed, and covered its work list
\* unless the context or the time box stopped the feed.
THEOREM ReturnMeansCovered == Spec => []ReturnCovers
<1>1. IInv => ReturnCovers
  <2> SUFFICES ASSUME IInv, pc = "returned" PROVE ReturnCovers
    BY DEF ReturnCovers
  <2>1. TypeOK /\ Accounted /\ Quiet /\ Fresh /\ CountedIsStored
    BY DEF IInv, Owned, Stored
  <2>2. InQueue = {} /\ Held = {}
    BY <2>1 DEF Quiet, InQueue, Held, Busy, Running
  <2>3. counted = fed
    BY <2>1, <2>2 DEF Accounted
  <2>4. ~cancelled /\ ~timeUp => todo = {}
    BY <2>1 DEF Quiet, Closed
  <2>5. request.work \ todo = skipped \cup counted
    BY <2>1, <2>3 DEF Accounted
  <2> QED BY <2>1, <2>3, <2>4, <2>5 DEF ReturnCovers, Fresh, CountedIsStored
<1> QED BY <1>1, Invariant, PTL

\* What a run returned with survives a power loss: the final Sync comes after
\* the last worker is done.
THEOREM ReturnedIsDurable == Spec => ReturnIsDurable
<1> DEFINE Durable == pc = "returned" => disk = mem
<1>1. Init => Durable
  BY DEF Init
<1>2. IInv /\ Durable /\ [Next]_vars => Durable'
  <2> SUFFICES ASSUME IInv, Durable, [Next]_vars PROVE Durable'
    OBVIOUS
  <2>1. pc = "returned" => \A w \in Workers : wpc[w] = "exited"
    BY DEF IInv, Owned, Quiet, Running
  <2>2. ASSUME NEW w \in Workers, Work(w) PROVE Durable'
    BY <2>1, <2>2 DEF Work, Take, Walk, Judge, EncodeHead, EncodeTail, Observe,
         Exit, feederVars, fileVars
  <2>3. CASE Feed
    BY <2>3 DEF Feed, Skip, Offer, Send, BreakFeed, EndFeed
  <2>4. CASE Environment
    BY <2>4 DEF Environment, Interrupt, Expire, Writeback, Kill, PowerLoss, SyncFails,
         Vanish, Running, feederVars, fileVars
  <2>5. ASSUME NEW r \in Requests, Start(r) PROVE Durable'
    BY <2>5 DEF Start
  <2> QED BY <2>2, <2>3, <2>4, <2>5 DEF Next, Return, Rest, vars, feederVars, fileVars
<1>3. Durable /\ [Next]_vars => [pc = "returned" /\ pc' = "down" => mem' = mem]_vars
  <2> SUFFICES ASSUME Durable, [Next]_vars, pc = "returned", pc' = "down"
               PROVE  mem' = mem
    OBVIOUS
  <2> QED BY DEF Next, Start, Feed, Skip, Offer, Send, BreakFeed, EndFeed, Return, Work,
         Take, Walk, Judge, EncodeHead, EncodeTail, Observe, Exit, Environment, Interrupt,
         Expire, Writeback, Kill, PowerLoss, SyncFails, Vanish, Rest, Running, vars, feederVars,
         fileVars
<1> QED BY <1>1, <1>2, <1>3, Invariant, PTL DEF Spec, ReturnIsDurable
=============================================================================
