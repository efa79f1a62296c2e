------------------------- MODULE ScanRunRefinement -------------------------
(***************************************************************************)
(* Proof that ScanRun implements Census, for every corpus, pool and set of *)
(* requests, as long as the machine does not lose power: a settled entry   *)
(* is one whose first store is in the mapping, which a kill leaves alone.  *)
(***************************************************************************)
EXTENDS ScanRunProofs

-----------------------------------------------------------------------------
(* What the file holds before a position is settled.                       *)

\* A record without a status is blank, and under resume a position on its way
\* to the first store of Encode still is.  What a probe found has a body.
Unwritten ==
    /\ \A p \in Positions : mem[p].status = "Unattempted" => mem[p] = Blank
    /\ pc = "send" /\ request.resume =>
          \A p \in todo : IsNext(p) => mem[p].status = "Unattempted"
    /\ pc # "down" /\ request.resume =>
          /\ \A p \in InQueue : mem[p].status = "Unattempted"
          /\ \A w \in Workers : wpc[w] \in {"probing", "probed", "judged"} =>
                mem[widx[w]].status = "Unattempted"
    /\ \A w \in Workers : wpc[w] \in {"probed", "judged", "encoding", "stored"} =>
          wrec[w].body \in {"measured", "cut"}

LEMMA UnwrittenInit == Init => Unwritten
  BY DEF Init, Unwritten, Blank, InQueue

\* Only Encode writes, and it writes the position in its worker's hand, which is
\* no longer in the work list, nor in the channel, nor in another hand.
LEMMA UnwrittenStore ==
  ASSUME IInv, Unwritten, NEW w \in Workers, EncodeHead(w) \/ EncodeTail(w)
  PROVE  Unwritten'
<1> DEFINE p == widx[w]
<1>1. /\ TypeOK /\ Owned /\ Verdicts /\ Busy(w)
      /\ wrec[w].status \in {"Complete", "Aborted"} /\ p \in Positions
  BY DEF IInv, Stored, Verdicts, EncodeHead, EncodeTail, Busy, TypeOK
<1>2. p \in fed /\ p \notin todo /\ p \notin InQueue
  BY <1>1, InHand DEF Owned, Accounted, OneOwner, Held, Running
<1>3. \A v \in Workers \ {w} : Busy(v) => widx[v] # p
  BY <1>1, InHand
<1>4. /\ mem' = [mem EXCEPT ![p] = mem'[p]] /\ mem'[p].status = wrec[w].status
      /\ wpc'[w] \in {"encoding", "stored"} /\ wpc[w] \in {"judged", "encoding"}
      /\ \A v \in Workers \ {w} : wpc'[v] = wpc[v]
      /\ UNCHANGED <<pc, request, todo, queue, widx, wrec>>
  BY <1>1 DEF EncodeHead, EncodeTail, TypeOK, feederVars, runVars
<1>5. \A q \in Positions \ {p} : mem'[q] = mem[q]
  BY <1>4 DEF IInv, TypeOK
<1>6. \A q \in Positions : mem'[q].status = "Unattempted" => mem'[q] = Blank
  BY <1>1, <1>4, <1>5 DEF Unwritten
<1>7. pc' = "send" /\ request'.resume =>
          \A q \in todo' : IsNext(q)' => mem'[q].status = "Unattempted"
  BY <1>1, <1>2, <1>4, <1>5 DEF Unwritten, IsNext, TypeOK
<1>8. InQueue' = InQueue /\ InQueue \subseteq Positions
  BY <1>1, <1>4 DEF InQueue, TypeOK
<1>9. ASSUME pc' # "down", request'.resume, NEW v \in Workers,
             wpc'[v] \in {"probing", "probed", "judged"}
      PROVE  mem'[widx'[v]].status = "Unattempted"
  <2>1. v # w /\ wpc[v] \in {"probing", "probed", "judged"}
    BY <1>4, <1>9
  <2>2. widx[v] # p /\ widx[v] \in Positions
    BY <1>1, <1>3, <2>1 DEF Busy, TypeOK
  <2> QED BY <1>4, <1>5, <1>9, <2>1, <2>2 DEF Unwritten
<1>10. \A v \in Workers : wpc'[v] \in {"probed", "judged", "encoding", "stored"} =>
          wrec'[v].body \in {"measured", "cut"}
  BY <1>4 DEF Unwritten
<1> QED BY <1>2, <1>4, <1>5, <1>6, <1>7, <1>8, <1>9, <1>10 DEF Unwritten

LEMMA UnwrittenStep ==
  ASSUME "power" \notin Faults, IInv, Unwritten, [Next]_vars
  PROVE  Unwritten'
<1>1. TypeOK /\ Owned
  BY DEF IInv
<1> USE <1>1 DEF Unwritten
<1>2. ASSUME NEW r \in Requests, Start(r) PROVE Unwritten'
  BY <1>2 DEF Start, fileVars, InQueue
<1>3. ASSUME NEW idx \in Positions, Skip(idx) PROVE Unwritten'
  BY <1>3 DEF Skip, workerVars, fileVars, runVars, InQueue
<1>4. ASSUME NEW idx \in Positions, Offer(idx) PROVE Unwritten'
  <2>1. \A p \in todo : IsNext(p) => p = idx
    BY <1>4 DEF Offer, IsNext, TypeOK, Positions
  <2>2. request.resume => mem[idx].status = "Unattempted"
    BY <1>4 DEF Offer, Skippable
  <2> QED BY <1>4, <2>1, <2>2 DEF Offer, workerVars, fileVars, runVars, InQueue, IsNext
<1>5. ASSUME NEW idx \in Positions, Send(idx) PROVE Unwritten'
  <2>1. InQueue' = InQueue \cup {idx}
    <3>1. queue \in Seq(Positions) /\ queue' = Append(queue, idx)
      BY <1>5 DEF Send, TypeOK
    <3>2. Contents(queue') = Contents(queue) \cup {idx}
      BY <3>1, AppendHolds
    <3> QED BY <3>2 DEF InQueue, Contents
  <2>2. request.resume => mem[idx].status = "Unattempted"
    BY <1>5 DEF Send, IsNext
  <2> QED BY <1>5, <2>1, <2>2 DEF Send, workerVars, fileVars, runVars
<1>6. CASE BreakFeed \/ EndFeed \/ Return \/ SyncFails
  BY <1>6 DEF BreakFeed, EndFeed, Return, SyncFails, workerVars, fileVars, runVars, InQueue
<1>7. ASSUME NEW w \in Workers, Take(w) PROVE Unwritten'
  <2>1. InQueue' \subseteq InQueue /\ Head(queue) \in InQueue
    <3>1. queue \in Seq(Positions) /\ queue # <<>> /\ queue' = Tail(queue)
      BY <1>7 DEF Take, TypeOK
    <3>2. Contents(queue) = Contents(queue') \cup {Head(queue)}
      BY <3>1, TailHolds
    <3> QED BY <3>2 DEF InQueue, Contents
  <2> QED BY <1>7, <2>1 DEF Take, feederVars, fileVars, runVars, TypeOK, IsNext
<1>8. ASSUME NEW w \in Workers, Walk(w) PROVE Unwritten'
  <2>1. wrec'[w].body \in {"measured", "cut"}
    BY <1>8 DEF Walk, TypeOK, Blank
  <2> QED BY <1>8, <2>1 DEF Walk, feederVars, fileVars, runVars, InQueue, TypeOK, IsNext
<1>9. ASSUME NEW w \in Workers, Judge(w) PROVE Unwritten'
  <2>1. wrec'[w].body = wrec[w].body
    BY <1>9 DEF Judge, TypeOK, Records
  <2> QED BY <1>9, <2>1 DEF Judge, feederVars, fileVars, runVars, InQueue, TypeOK, IsNext
<1>10. ASSUME NEW w \in Workers, EncodeHead(w) \/ EncodeTail(w) PROVE Unwritten'
  BY <1>10, UnwrittenStore
<1>11. ASSUME NEW w \in Workers, Observe(w) \/ Exit(w) PROVE Unwritten'
  BY <1>11 DEF Observe, Exit, feederVars, fileVars, runVars, InQueue, TypeOK, IsNext
<1>12. CASE Interrupt \/ Expire
  BY <1>12 DEF Interrupt, Expire, feederVars, workerVars, fileVars, runVars, InQueue, IsNext
<1>13. CASE Kill
  BY <1>13 DEF Kill, Vanish
<1>14. CASE UNCHANGED vars
  BY <1>14 DEF vars, feederVars, workerVars, fileVars, runVars, InQueue, IsNext
<1> QED
  BY <1>2, <1>3, <1>4, <1>5, <1>6, <1>7, <1>8, <1>9, <1>10, <1>11, <1>12, <1>13, <1>14
     DEF Next, Feed, Work, Environment, Writeback, PowerLoss, Rest

-----------------------------------------------------------------------------
(* The entries of the abstract census.                                     *)

\* Between the two stores of Encode an entry is what the worker holds, at any
\* other time what the file holds.
EntriesKnown ==
    \A p \in Positions :
        /\ \A w \in Workers :
              wpc[w] = "encoding" /\ widx[w] = p => EntryAt(p) = Verdict(wrec[w])
        /\ (\A w \in Workers : ~(wpc[w] = "encoding" /\ widx[w] = p)) =>
              EntryAt(p) = IF mem[p].whole THEN Verdict(mem[p]) ELSE <<"Complete", "torn">>

LEMMA Entries == TypeOK /\ Owned => EntriesKnown
<1> SUFFICES ASSUME TypeOK, Owned, NEW p \in Positions, NEW w \in Workers,
                    wpc[w] = "encoding", widx[w] = p
             PROVE  EntryAt(p) = Verdict(wrec[w])
  BY DEF EntriesKnown, EntryAt
<1>1. \A v \in Workers : wpc[v] = "encoding" /\ widx[v] = p => v = w
  BY InHand DEF Busy
<1>2. (CHOOSE v \in Workers : wpc[v] = "encoding" /\ widx[v] = p) = w
  BY <1>1
<1> QED BY <1>2 DEF EntryAt

LEMMA EntriesNext == TypeOK' /\ Owned' => EntriesKnown'
  BY Entries, PTL

\* A step that writes nothing and leaves every worker between two stores where
\* it is changes no entry.
LEMMA SameEntries ==
  ASSUME IInv, IInv', mem' = mem,
         \A w \in Workers :
            /\ wpc'[w] = "encoding" <=> wpc[w] = "encoding"
            /\ wpc[w] = "encoding" => widx'[w] = widx[w] /\ wrec'[w] = wrec[w]
  PROVE  \A p \in Positions : EntryAt(p)' = EntryAt(p)
<1>1. EntriesKnown /\ EntriesKnown'
  BY Entries, EntriesNext DEF IInv
<1> SUFFICES ASSUME NEW p \in Positions PROVE EntryAt(p)' = EntryAt(p)
  OBVIOUS
<1>2. CASE \E w \in Workers : wpc[w] = "encoding" /\ widx[w] = p
  BY <1>1, <1>2 DEF EntriesKnown, Verdict
<1>3. CASE \A w \in Workers : ~(wpc[w] = "encoding" /\ widx[w] = p)
  BY <1>1, <1>3 DEF EntriesKnown, Verdict
<1> QED BY <1>2, <1>3

\* The positions a session has settled.
Settled == IF pc = "down" THEN {} ELSE counted \cup {p \in Positions : Storing(p)}

Abstract == <<Running, request.resume, Settled, [p \in Positions |-> EntryAt(p)]>>

\* Nothing of the feeder shows in the abstract census, nor does what a worker
\* does before the first store and after the second.
LEMMA Stutters ==
  ASSUME IInv, IInv', UNCHANGED <<mem, request, counted>>, Running' = Running,
         pc = "down" <=> pc' = "down",
         \A w \in Workers :
            /\ wpc'[w] = "encoding" <=> wpc[w] = "encoding"
            /\ wpc'[w] = "stored" <=> wpc[w] = "stored"
            /\ wpc[w] \in {"encoding", "stored"} =>
                  widx'[w] = widx[w] /\ wrec'[w] = wrec[w]
  PROVE  UNCHANGED Abstract
<1>1. \A p \in Positions : EntryAt(p)' = EntryAt(p)
  BY SameEntries
<1>2. \A p \in Positions : Storing(p)' <=> Storing(p)
  BY DEF Storing
<1>3. Settled' = Settled
  BY <1>2 DEF Settled
<1> QED BY <1>1, <1>3 DEF Abstract

\* The second store of Encode is not seen,
LEMMA TailStutters ==
  ASSUME IInv, IInv', NEW w \in Workers, EncodeTail(w)
  PROVE  UNCHANGED Abstract
<1> DEFINE p == widx[w]
<1>1. EntriesKnown /\ EntriesKnown'
  BY Entries, EntriesNext DEF IInv
<1>2. /\ TypeOK /\ Busy(w) /\ wpc[w] = "encoding" /\ wrec[w].whole /\ p \in Positions
      /\ \A v \in Workers \ {w} : Busy(v) => widx[v] # p
  BY InHand DEF IInv, Stored, Verdicts, EncodeTail, Busy, TypeOK
<1>3. /\ wpc' = [wpc EXCEPT ![w] = "stored"] /\ mem' = [mem EXCEPT ![p] = wrec[w]]
      /\ UNCHANGED <<pc, request, counted, widx, wrec>>
  BY DEF EncodeTail, feederVars, runVars
<1>4. ASSUME NEW q \in Positions PROVE EntryAt(q)' = EntryAt(q)
  <2>1. CASE q = p
    <3>1. \A v \in Workers : ~(wpc'[v] = "encoding" /\ widx'[v] = p)
      BY <1>2, <1>3 DEF Busy, TypeOK
    <3>2. mem'[p] = wrec[w]
      BY <1>2, <1>3 DEF TypeOK
    <3> QED BY <1>1, <1>2, <2>1, <3>1, <3>2 DEF EntriesKnown, Verdict
  <2>2. CASE q # p
    <3>1. mem'[q] = mem[q]
      BY <1>2, <1>3, <2>2 DEF TypeOK
    <3>2. \A v \in Workers : wpc'[v] = "encoding" /\ widx'[v] = q <=>
                             wpc[v] = "encoding" /\ widx[v] = q
      BY <1>2, <1>3, <2>2 DEF TypeOK
    <3>3. CASE \E v \in Workers : wpc[v] = "encoding" /\ widx[v] = q
      BY <1>1, <1>3, <3>2, <3>3 DEF EntriesKnown, Verdict
    <3>4. CASE \A v \in Workers : ~(wpc[v] = "encoding" /\ widx[v] = q)
      BY <1>1, <3>1, <3>2, <3>4 DEF EntriesKnown, Verdict
    <3> QED BY <3>3, <3>4
  <2> QED BY <2>1, <2>2
<1>5. \A q \in Positions : Storing(q)' <=> Storing(q)
  BY <1>2, <1>3 DEF Storing, TypeOK
<1>6. Settled' = Settled
  BY <1>3, <1>5 DEF Settled
<1> QED BY <1>3, <1>4, <1>6 DEF Abstract, Running

\* nor is the count of what has been settled.
LEMMA ObserveStutters ==
  ASSUME IInv, IInv', NEW w \in Workers, Observe(w)
  PROVE  UNCHANGED Abstract
<1>1. /\ TypeOK /\ wpc[w] = "stored" /\ widx[w] \in Positions /\ Running
      /\ wpc' = [wpc EXCEPT ![w] = "ready"]
      /\ widx' = [widx EXCEPT ![w] = 0] /\ wrec' = [wrec EXCEPT ![w] = Blank]
      /\ counted' = counted \cup {widx[w]}
      /\ UNCHANGED <<pc, request, mem>>
  BY InHand DEF Observe, Busy, IInv, TypeOK, feederVars, fileVars, runVars
<1>2. \A p \in Positions : EntryAt(p)' = EntryAt(p)
  <2>1. \A v \in Workers :
            /\ wpc'[v] = "encoding" <=> wpc[v] = "encoding"
            /\ wpc[v] = "encoding" => widx'[v] = widx[v] /\ wrec'[v] = wrec[v]
    BY <1>1 DEF TypeOK
  <2> QED BY <1>1, <2>1, SameEntries
<1>3. \A p \in Positions : Storing(p) <=> Storing(p)' \/ p = widx[w]
  BY <1>1 DEF Storing, TypeOK
<1>4. Settled' = Settled
  BY <1>1, <1>3 DEF Settled, Running, IInv, TypeOK
<1> QED BY <1>1, <1>2, <1>4 DEF Abstract, Running

-----------------------------------------------------------------------------
(* The steps that are seen.                                                *)

\* The first store of Encode settles its position.
LEMMA HeadSettles ==
  ASSUME IInv, IInv', Unwritten, NEW w \in Workers, EncodeHead(w)
  PROVE  AsCensus!Settle(widx[w])
<1> DEFINE p == widx[w]
<1>1. EntriesKnown /\ EntriesKnown'
  BY Entries, EntriesNext DEF IInv
<1>2. /\ TypeOK /\ Busy(w) /\ wpc[w] = "judged" /\ p \in Positions
      /\ Running /\ pc # "down" /\ p \notin counted
      /\ \A v \in Workers \ {w} : Busy(v) => widx[v] # p
  BY InHand DEF IInv, EncodeHead, Busy, TypeOK, Running
<1>3. /\ wpc' = [wpc EXCEPT ![w] = "encoding"]
      /\ mem' = [mem EXCEPT ![p] =
                    [status |-> wrec[w].status, body |-> mem[p].body, whole |-> FALSE]]
      /\ UNCHANGED <<pc, request, counted, widx, wrec>>
  BY DEF EncodeHead, feederVars, runVars
<1>4. \A v \in Workers : ~(wpc[v] \in {"encoding", "stored"} /\ widx[v] = p)
  BY <1>2 DEF Busy
<1>5. p \notin Settled
  BY <1>2, <1>4 DEF Settled, Storing
<1>6. request.resume => EntryAt(p) = Verdict(Blank)
  BY <1>1, <1>2, <1>4 DEF EntriesKnown, Unwritten, Blank
<1>7. \A q \in Positions : q = p => EntryAt(q)' = Verdict(wrec[w])
  BY <1>1, <1>2, <1>3 DEF EntriesKnown, TypeOK, Verdict
<1>8. Verdict(wrec[w]) \in {<<"Complete", "measured">>, <<"Aborted", "measured">>,
                            <<"Aborted", "cut">>}
  BY <1>2 DEF Unwritten, IInv, Stored, Verdicts, Verdict
<1>9. ASSUME NEW q \in Positions \ {p} PROVE EntryAt(q)' = EntryAt(q)
  <2>1. mem'[q] = mem[q]
    BY <1>2, <1>3 DEF TypeOK
  <2>2. \A v \in Workers : wpc'[v] = "encoding" /\ widx'[v] = q <=>
                           wpc[v] = "encoding" /\ widx[v] = q
    BY <1>2, <1>3 DEF TypeOK
  <2>3. CASE \E v \in Workers : wpc[v] = "encoding" /\ widx[v] = q
    BY <1>1, <1>3, <2>2, <2>3 DEF EntriesKnown, Verdict
  <2>4. CASE \A v \in Workers : ~(wpc[v] = "encoding" /\ widx[v] = q)
    BY <1>1, <2>1, <2>2, <2>4 DEF EntriesKnown, Verdict
  <2> QED BY <2>3, <2>4
<1>10. [q \in Positions |-> EntryAt(q)]' =
          [[q \in Positions |-> EntryAt(q)] EXCEPT ![p] = Verdict(wrec[w])]
  <2>1. \A q \in Positions : EntryAt(q)' = IF q = p THEN Verdict(wrec[w]) ELSE EntryAt(q)
    BY <1>7, <1>9
  <2> HIDE DEF p
  <2> QED BY <2>1
<1>11. \A q \in Positions : Storing(q)' <=> Storing(q) \/ q = p
  BY <1>2, <1>3 DEF Storing, TypeOK
<1>12. Settled' = Settled \cup {p}
  BY <1>2, <1>3, <1>11 DEF Settled
<1>13. Running' = Running /\ request'.resume = request.resume
  BY <1>3 DEF Running
<1> QED BY <1>2, <1>5, <1>6, <1>8, <1>10, <1>12, <1>13 DEF AsCensus!Settle, Settled

\* A run starts with nothing settled, over the file as it is.
LEMMA StartOpens ==
  ASSUME IInv, IInv', NEW r \in Requests, Start(r)
  PROVE  AsCensus!OpenSession
<1>1. /\ ~Running /\ pc' = "feed" /\ request'.resume \in BOOLEAN /\ mem' = mem
      /\ counted' = {} /\ wpc' = [w \in Workers |-> "ready"]
      /\ \A w \in Workers : wpc[w] = "exited"
  BY DEF Start, IInv, Owned, Quiet, TypeOK, RequestType, fileVars
<1>2. Running' /\ Settled' = {}
  BY <1>1 DEF Running, Settled, Storing
<1>3. \A p \in Positions : EntryAt(p)' = EntryAt(p)
  BY <1>1, SameEntries
<1> QED BY <1>1, <1>2, <1>3 DEF AsCensus!OpenSession, Settled

\* Whether or not the last Sync succeeds, the session is over.
LEMMA ReturnCloses ==
  ASSUME IInv, IInv', Return \/ SyncFails
  PROVE  AsCensus!CloseSession
<1>1. /\ pc = "drain" /\ pc' \in {"returned", "failed"}
      /\ UNCHANGED <<mem, request, counted, wpc, widx, wrec>>
  BY DEF Return, SyncFails, workerVars, fileVars, runVars
<1>2. Running /\ ~Running' /\ Settled' = Settled
  BY <1>1 DEF Running, Settled, Storing
<1>3. \A p \in Positions : EntryAt(p)' = EntryAt(p)
  BY <1>1, SameEntries
<1> QED BY <1>1, <1>2, <1>3 DEF AsCensus!CloseSession, Settled

\* A kill damages the entries of which only the first store was made.
LEMMA KillCrashes ==
  ASSUME IInv, IInv', Kill
  PROVE  AsCensus!Crash
<1> DEFINE D == {p \in Positions : \E w \in Workers : wpc[w] = "encoding" /\ widx[w] = p}
<1>1. EntriesKnown /\ EntriesKnown'
  BY Entries, EntriesNext DEF IInv
<1>2. /\ Running /\ pc # "down" /\ pc' = "down" /\ UNCHANGED <<mem, request>>
      /\ \A w \in Workers : wpc'[w] = "exited"
  BY DEF Kill, Vanish, Running, runVars
<1>3. ~Running' /\ Settled' = {}
  BY <1>2 DEF Running, Settled
<1>4. D \in SUBSET Settled
  BY <1>2 DEF Settled, Storing
<1>5. ASSUME NEW p \in Positions
      PROVE  EntryAt(p)' = IF p \in D THEN <<"Complete", "torn">> ELSE EntryAt(p)
  <2>1. EntryAt(p)' = IF mem[p].whole THEN Verdict(mem[p]) ELSE <<"Complete", "torn">>
    BY <1>1, <1>2 DEF EntriesKnown, Verdict
  <2>2. p \in D => ~mem[p].whole
    BY DEF IInv, Stored, Verdicts
  <2>3. p \notin D => EntryAt(p) = IF mem[p].whole THEN Verdict(mem[p])
                                   ELSE <<"Complete", "torn">>
    BY <1>1 DEF EntriesKnown
  <2> QED BY <2>1, <2>2, <2>3
<1>6. [p \in Positions |-> EntryAt(p)]' =
          [p \in Positions |-> IF p \in D THEN <<"Complete", "torn">>
                               ELSE [q \in Positions |-> EntryAt(q)][p]]
  BY <1>5
<1>7. request'.resume = request.resume
  BY <1>2
<1>8. \E S \in SUBSET Settled :
          [p \in Positions |-> EntryAt(p)]' =
             [p \in Positions |-> IF p \in S THEN <<"Complete", "torn">>
                                  ELSE [q \in Positions |-> EntryAt(q)][p]]
  <2> HIDE DEF D
  <2> QED BY <1>4, <1>6
<1> QED BY <1>2, <1>3, <1>7, <1>8 DEF AsCensus!Crash, Settled

-----------------------------------------------------------------------------
(* The theorem.                                                            *)

LEMMA CensusInit == Init => AsCensus!Init
<1> SUFFICES ASSUME Init PROVE AsCensus!Init
  OBVIOUS
<1>1. request.resume \in BOOLEAN
  BY RequestsAssumption DEF Init, RequestType
<1>2. \A p \in Positions : EntryAt(p) = Verdict(Blank)
  BY DEF Init, EntryAt, Blank
<1> QED BY <1>1, <1>2 DEF AsCensus!Init, Init, Running

LEMMA CensusStep ==
  ASSUME "power" \notin Faults, IInv, IInv', Unwritten, [Next]_vars
  PROVE  AsCensus!Next \/ UNCHANGED Abstract
<1> USE DEF AsCensus!Next
<1>1. ASSUME NEW r \in Requests, Start(r) PROVE AsCensus!Next
  BY <1>1, StartOpens
<1>2. CASE Return \/ SyncFails
  BY <1>2, ReturnCloses
<1>3. CASE Kill
  BY <1>3, KillCrashes
<1>4. ASSUME NEW w \in Workers, EncodeHead(w) PROVE AsCensus!Next
  <2>1. AsCensus!Settle(widx[w]) /\ widx[w] \in Positions
    BY <1>4, HeadSettles DEF IInv, TypeOK
  <2> QED BY <2>1
<1>5. ASSUME NEW w \in Workers, EncodeTail(w) PROVE UNCHANGED Abstract
  BY <1>5, TailStutters
<1>6. ASSUME NEW w \in Workers, Observe(w) PROVE UNCHANGED Abstract
  BY <1>6, ObserveStutters
<1>7. ASSUME NEW w \in Workers, Take(w) \/ Walk(w) \/ Judge(w) \/ Exit(w)
      PROVE  UNCHANGED Abstract
  <2>1. /\ UNCHANGED <<mem, request, counted, pc>>
        /\ wpc[w] \notin {"encoding", "stored"} /\ wpc'[w] \notin {"encoding", "stored"}
        /\ \A v \in Workers \ {w} :
              wpc'[v] = wpc[v] /\ widx'[v] = widx[v] /\ wrec'[v] = wrec[v]
    BY <1>7 DEF Take, Walk, Judge, Exit, IInv, TypeOK, feederVars, fileVars, runVars
  <2>2. \A v \in Workers :
            /\ wpc'[v] = "encoding" <=> wpc[v] = "encoding"
            /\ wpc'[v] = "stored" <=> wpc[v] = "stored"
            /\ wpc[v] \in {"encoding", "stored"} =>
                  widx'[v] = widx[v] /\ wrec'[v] = wrec[v]
    BY <2>1
  <2> QED BY <2>1, <2>2, Stutters DEF Running
<1>8. CASE Feed \/ Interrupt \/ Expire
  <2>1. /\ UNCHANGED <<mem, request, counted, wpc, widx, wrec>>
        /\ Running' = Running /\ (pc = "down" <=> pc' = "down")
    BY <1>8 DEF Feed, Skip, Offer, Send, BreakFeed, EndFeed, Interrupt, Expire, Running,
         feederVars, workerVars, fileVars, runVars
  <2> QED BY <2>1, Stutters
<1>9. CASE UNCHANGED vars
  <2>1. /\ UNCHANGED <<mem, request, counted, wpc, widx, wrec, pc>>
    BY <1>9 DEF vars, feederVars, workerVars, fileVars, runVars
  <2> QED BY <2>1, Stutters DEF Running
<1> QED
  BY <1>1, <1>2, <1>3, <1>4, <1>5, <1>6, <1>7, <1>8, <1>9
     DEF Next, Work, Environment, Writeback, PowerLoss, Rest

\* scan.go and sink.go keep the promise of Census: whatever the feeder, the
\* channel and the workers do, each position is settled at most once a run, a
\* resumed run settles only what has no entry, and a kill damages nothing but
\* what the killed run had settled.
THEOREM ScanRunImplementsCensus ==
  ASSUME "power" \notin Faults
  PROVE  Spec => ImplementsCensus
<1>1. Init => AsCensus!Init
  BY CensusInit
<1>2. IInv /\ IInv' /\ Unwritten /\ [Next]_vars => [AsCensus!Next]_(AsCensus!vars)
  <2>1. UNCHANGED Abstract => UNCHANGED AsCensus!vars
    BY DEF Abstract, Settled, AsCensus!vars
  <2>2. IInv /\ IInv' /\ Unwritten /\ [Next]_vars => AsCensus!Next \/ UNCHANGED Abstract
    BY CensusStep
  <2> QED BY <2>1, <2>2
<1>3. Init => Unwritten
  BY UnwrittenInit
<1>4. IInv /\ Unwritten /\ [Next]_vars => Unwritten'
  BY UnwrittenStep
<1> QED
  BY <1>1, <1>2, <1>3, <1>4, Invariant, PTL DEF Spec, ImplementsCensus, AsCensus!Spec
=============================================================================
