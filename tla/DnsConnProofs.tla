--------------------------- MODULE DnsConnProofs ---------------------------
(***************************************************************************)
(* Proofs about DnsConn, for every set of queries, of questions and of     *)
(* message IDs, however small.                                             *)
(***************************************************************************)
EXTENDS DnsConn, TLAPS

-----------------------------------------------------------------------------
(* The inductive invariant.                                                *)

Started(q) == at[q] \in {"registered", "waiting", "leaving"}

Fits(q, m) == m.question = Asks[q] /\ m.id = id[q]

\* A registered waiter is under way, under the ID it was given, and has been
\* handed nothing.
Registered ==
    \A i \in IDs : LET q == inflight[i] IN
        q # Nobody => /\ id[q] = i
                      /\ Started(q)
                      /\ ch[q] = {}
                      /\ got[q] = {}
                      /\ reader.state = "handing" => reader.to # q

\* What readLoop is about to hand over is for a query that was registered, has
\* nothing yet, and asked for it.
Handed ==
    reader.state = "handing" =>
        /\ at[reader.to] # "idle"
        /\ ch[reader.to] = {}
        /\ got[reader.to] = {}
        /\ Fits(reader.to, reader.msg)

\* What a query has been handed is for it; before it registers it has nothing.
Fitting ==
    \A q \in Queries :
        /\ \A m \in ch[q] \cup got[q] : Fits(q, m)
        /\ at[q] = "idle" => ch[q] = {} /\ got[q] = {}

IInv == TypeOK /\ Registered /\ Handed /\ Fitting
-----------------------------------------------------------------------------
(* Types.                                                                  *)

LEMMA ZeroIsID == 0 \in IDs
  BY IDSpaceAssumption DEF IDs

LEMMA AsksQuestions == ASSUME NEW q \in Queries PROVE Asks[q] \in Questions
  BY AsksAssumption

\* The fields of readLoop's state are there in the states that read them.
LEMMA ReaderFields ==
  ASSUME TypeOK
  PROVE  /\ reader.state \in {"unpacked", "handing"} => reader.msg \in Message
         /\ reader.state = "handing" => reader.to \in Queries
         /\ reader.state = "unpacked" => reader = Unpacked(reader.msg)
  BY DEF TypeOK, Reading, Dead, Unpacked, Handing

LEMMA TypeInit == Init => TypeOK
<1> SUFFICES ASSUME Init PROVE TypeOK
  OBVIOUS
<1>1. /\ inflight \in [IDs -> Queries \cup {Nobody}]
      /\ id \in [Queries -> IDs]
  BY ZeroIsID DEF Init
<1>2. /\ closed \in BOOLEAN /\ socket \in BOOLEAN /\ reader \in {Reading, Dead}
      /\ wire \subseteq Message
  BY DEF Init
<1>3. /\ at \in [Queries -> {"idle", "registered", "waiting", "leaving", "done"}]
      /\ end \in [Queries -> {"none", "full", "error", "timeout", "answer"}]
  BY DEF Init
<1>4. ch \in [Queries -> SUBSET Message] /\ got \in [Queries -> SUBSET Message]
  BY DEF Init
<1> QED BY <1>1, <1>2, <1>3, <1>4 DEF TypeOK

\* Type correctness is inductive: every operation of exchange, of readLoop and
\* of the network stays in the state space.
LEMMA TypeStep == TypeOK /\ [Next]_vars => TypeOK'
<1> SUFFICES ASSUME TypeOK, [Next]_vars PROVE TypeOK'
  OBVIOUS
<1> USE DEF TypeOK, connVars, callVars
<1>1. ASSUME NEW q \in Queries, Register(q) PROVE TypeOK'
  BY <1>1 DEF Register
<1>2. ASSUME NEW q \in Queries, RegisterFails(q) PROVE TypeOK'
  BY <1>2 DEF RegisterFails
<1>3. ASSUME NEW q \in Queries, Write(q) PROVE TypeOK'
  BY <1>3 DEF Write
<1>4. ASSUME NEW q \in Queries, WriteFails(q) PROVE TypeOK'
  BY <1>4 DEF WriteFails
<1>5. ASSUME NEW q \in Queries, Receive(q) PROVE TypeOK'
  BY <1>5 DEF Receive
<1>6. ASSUME NEW q \in Queries, GiveUp(q) PROVE TypeOK'
  BY <1>6 DEF GiveUp
<1>7. ASSUME NEW q \in Queries, Unregister(q) PROVE TypeOK'
  BY <1>7 DEF Unregister
<1>8. ASSUME NEW m \in wire, Read(m) PROVE TypeOK'
  BY <1>8 DEF Read
<1>9. CASE ReadFails
  BY <1>9 DEF ReadFails
<1>10. CASE Match
  <2>1. reader.msg \in Message /\ reader.msg.id \in IDs
    BY <1>10, ReaderFields DEF Match, Message
  <2>2. PICK q \in Queries : reader' = Handing(q, reader.msg)
    BY <1>10, <2>1 DEF Match
  <2>3. inflight' \in [IDs -> Queries \cup {Nobody}]
    BY <1>10, <2>1 DEF Match
  <2> QED BY <1>10, <2>1, <2>2, <2>3 DEF Match
<1>11. CASE Stray
  BY <1>11 DEF Stray
<1>12. CASE HandOver
  <2>1. reader.msg \in Message /\ reader.to \in Queries
    BY <1>12, ReaderFields DEF HandOver
  <2>2. ch' \in [Queries -> SUBSET Message]
    BY <1>12, <2>1 DEF HandOver
  <2> QED BY <1>12, <2>2 DEF HandOver
<1>13. ASSUME NEW q \in Queries, Answer(q) PROVE TypeOK'
  <2>1. [id |-> id[q], question |-> Asks[q]] \in Message
    BY AsksQuestions DEF Message
  <2> QED BY <1>13, <2>1 DEF Answer
<1>14. CASE MarkClosed
  BY <1>14 DEF MarkClosed
<1>15. CASE CloseSocket
  BY <1>15 DEF CloseSocket
<1>16. CASE UNCHANGED vars
  BY <1>16 DEF vars
<1> QED
  BY <1>1, <1>2, <1>3, <1>4, <1>5, <1>6, <1>7, <1>8, <1>9, <1>10, <1>11, <1>12,
     <1>13, <1>14, <1>15, <1>16 DEF Next, Exchange, ReadLoop, Rest

-----------------------------------------------------------------------------
(* Who is registered, and what is handed to whom.                          *)

LEMMA HandingInit == Init => Registered /\ Handed /\ Fitting
  BY DEF Init, Registered, Handed, Fitting, Reading

\* The three clauses are inductive together: the lock makes a match and its
\* release one step, and the hand-over comes before anything else can match.
LEMMA HandingStep == IInv /\ [Next]_vars => (Registered /\ Handed /\ Fitting)'
<1> SUFFICES ASSUME IInv, [Next]_vars PROVE (Registered /\ Handed /\ Fitting)'
  OBVIOUS
<1>t. TypeOK /\ Registered /\ Handed /\ Fitting
  BY DEF IInv
<1>n. \A q \in Queries : q # Nobody
  BY NobodyAssumption
<1> USE DEF connVars, callVars, Started, Fits
<1>1. ASSUME NEW q \in Queries, Register(q) PROVE (Registered /\ Handed /\ Fitting)'
  <2>1. PICK i \in IDs : /\ inflight[i] = Nobody
                         /\ inflight' = [inflight EXCEPT ![i] = q]
                         /\ id' = [id EXCEPT ![q] = i]
    BY <1>1 DEF Register
  <2>2. /\ at[q] = "idle" /\ at' = [at EXCEPT ![q] = "registered"]
        /\ UNCHANGED <<reader, ch, got>>
    BY <1>1 DEF Register
  <2>3. ch[q] = {} /\ got[q] = {} /\ (reader.state = "handing" => reader.to # q)
    BY <1>t, <2>2 DEF Fitting, Handed
  <2>4. Registered'
    <3> SUFFICES ASSUME NEW j \in IDs, inflight'[j] # Nobody
                 PROVE  LET p == inflight'[j] IN
                        /\ id'[p] = j
                        /\ at'[p] \in {"registered", "waiting", "leaving"}
                        /\ ch'[p] = {}
                        /\ got'[p] = {}
                        /\ reader'.state = "handing" => reader'.to # p
      BY DEF Registered
    <3>1. CASE j = i
      BY <1>t, <2>1, <2>2, <2>3, <3>1 DEF TypeOK
    <3>2. CASE j # i
      <4>1. inflight'[j] = inflight[j] /\ inflight[j] # q
        BY <1>t, <2>1, <2>2, <3>2 DEF TypeOK, Registered
      <4> QED BY <1>t, <2>1, <2>2, <4>1 DEF TypeOK, Registered
    <3> QED BY <3>1, <3>2
  <2>5. Handed'
    BY <1>t, <2>1, <2>2, <2>3, ReaderFields DEF Handed, TypeOK
  <2>6. Fitting'
    BY <1>t, <2>1, <2>2, <2>3 DEF Fitting, TypeOK
  <2> QED BY <2>4, <2>5, <2>6
<1>2. ASSUME NEW q \in Queries, RegisterFails(q) PROVE (Registered /\ Handed /\ Fitting)'
  BY <1>t, <1>2, ReaderFields DEF RegisterFails, TypeOK, Registered, Handed, Fitting
<1>3. ASSUME NEW q \in Queries, Write(q) PROVE (Registered /\ Handed /\ Fitting)'
  <2>1. Registered' /\ Handed'
    BY <1>t, <1>3, ReaderFields DEF Write, TypeOK, Registered, Handed
  <2>2. Fitting'
    BY <1>t, <1>3 DEF Write, TypeOK, Registered, Handed, Fitting
  <2> QED BY <2>1, <2>2
<1>4. ASSUME NEW q \in Queries, WriteFails(q) PROVE (Registered /\ Handed /\ Fitting)'
  BY <1>t, <1>4, ReaderFields DEF WriteFails, TypeOK, Registered, Handed, Fitting
<1>5. ASSUME NEW q \in Queries, Receive(q) PROVE (Registered /\ Handed /\ Fitting)'
  <2>1. /\ at[q] = "waiting" /\ ch[q] # {}
        /\ ch' = [ch EXCEPT ![q] = {}] /\ got' = [got EXCEPT ![q] = ch[q]]
        /\ at' = [at EXCEPT ![q] = "leaving"]
        /\ UNCHANGED <<inflight, reader, id>>
    BY <1>5 DEF Receive
  <2>2. /\ \A i \in IDs : inflight[i] # q
        /\ reader.state = "handing" => reader.to # q
    BY <1>t, <1>n, <2>1 DEF Registered, Handed
  <2>3. Registered'
    BY <1>t, <2>1, <2>2 DEF TypeOK, Registered
  <2>4. Handed'
    BY <1>t, <2>1, <2>2, ReaderFields DEF TypeOK, Handed
  <2>5. Fitting'
    BY <1>t, <2>1 DEF TypeOK, Fitting
  <2> QED BY <2>3, <2>4, <2>5
<1>6. ASSUME NEW q \in Queries, GiveUp(q) PROVE (Registered /\ Handed /\ Fitting)'
  BY <1>t, <1>6, ReaderFields DEF GiveUp, TypeOK, Registered, Handed, Fitting
<1>7. ASSUME NEW q \in Queries, Unregister(q) PROVE (Registered /\ Handed /\ Fitting)'
  <2>1. /\ at' = [at EXCEPT ![q] = "done"]
        /\ inflight' = [inflight EXCEPT ![id[q]] = Nobody]
        /\ UNCHANGED <<reader, id, ch, got>>
    BY <1>7 DEF Unregister
  <2>2. \A i \in IDs : inflight'[i] # Nobody =>
                          inflight'[i] = inflight[i] /\ inflight[i] # q
    BY <1>t, <1>n, <2>1 DEF TypeOK, Registered
  <2>3. Registered'
    BY <1>t, <2>1, <2>2 DEF TypeOK, Registered
  <2> QED BY <1>t, <2>1, <2>3, ReaderFields DEF TypeOK, Handed, Fitting
<1>8. ASSUME NEW m \in wire, Read(m) PROVE (Registered /\ Handed /\ Fitting)'
  BY <1>t, <1>8 DEF Read, Unpacked, Registered, Handed, Fitting
<1>9. CASE ReadFails
  BY <1>t, <1>9 DEF ReadFails, Dead, Registered, Handed, Fitting
<1>10. CASE Match
  <2> DEFINE m == reader.msg
             q == inflight[m.id]
  <2>1. /\ reader.state = "unpacked" /\ q # Nobody /\ Asks[q] = m.question
        /\ inflight' = [inflight EXCEPT ![m.id] = Nobody]
        /\ reader' = Handing(q, m)
        /\ UNCHANGED <<at, id, ch, got>>
    BY <1>10 DEF Match
  <2>2. m.id \in IDs /\ q \in Queries
    BY <1>t, <2>1, ReaderFields DEF TypeOK, Message
  <2>3. id[q] = m.id /\ Started(q) /\ ch[q] = {} /\ got[q] = {}
    BY <1>t, <2>1, <2>2 DEF Registered
  <2>4. reader'.state = "handing" /\ reader'.to = q /\ reader'.msg = m
    BY <2>1 DEF Handing
  <2>5. \A i \in IDs : inflight'[i] # Nobody =>
                          inflight'[i] = inflight[i] /\ inflight[i] # q
    BY <1>t, <2>1, <2>2, <2>3 DEF TypeOK, Registered
  <2>6. Registered'
    BY <1>t, <2>1, <2>4, <2>5 DEF Registered
  <2>7. Handed'
    BY <2>1, <2>3, <2>4 DEF Handed
  <2> QED BY <1>t, <2>1, <2>6, <2>7 DEF Fitting
<1>11. CASE Stray
  BY <1>t, <1>11 DEF Stray, Reading, Registered, Handed, Fitting
<1>12. CASE HandOver
  <2>1. /\ reader.state = "handing" /\ reader' = Reading
        /\ ch' = [ch EXCEPT ![reader.to] = IF ch[reader.to] = {} THEN {reader.msg}
                                                                 ELSE ch[reader.to]]
        /\ UNCHANGED <<inflight, at, id, got>>
    BY <1>12 DEF HandOver
  <2>2. /\ reader.to \in Queries
        /\ at[reader.to] # "idle" /\ got[reader.to] = {}
        /\ Fits(reader.to, reader.msg)
    BY <1>t, <2>1, ReaderFields DEF Handed
  <2>3. Registered'
    BY <1>t, <2>1, <2>2 DEF TypeOK, Registered, Reading
  <2>4. Handed'
    BY <2>1 DEF Handed, Reading
  <2>5. Fitting'
    BY <1>t, <2>1, <2>2 DEF TypeOK, Fitting
  <2> QED BY <2>3, <2>4, <2>5
<1>13. ASSUME NEW q \in Queries, Answer(q) PROVE (Registered /\ Handed /\ Fitting)'
  BY <1>t, <1>13 DEF Answer, Registered, Handed, Fitting
<1>14. CASE MarkClosed
  BY <1>t, <1>14 DEF MarkClosed, Registered, Handed, Fitting
<1>15. CASE CloseSocket
  BY <1>t, <1>15 DEF CloseSocket, Registered, Handed, Fitting
<1>16. CASE UNCHANGED vars
  BY <1>t, <1>16 DEF vars, Registered, Handed, Fitting
<1> QED
  BY <1>1, <1>2, <1>3, <1>4, <1>5, <1>6, <1>7, <1>8, <1>9, <1>10, <1>11, <1>12,
     <1>13, <1>14, <1>15, <1>16 DEF Next, Exchange, ReadLoop, Rest

-----------------------------------------------------------------------------
(* The theorems.                                                           *)

LEMMA Invariant == Spec => []IInv
<1>1. Init => IInv
  BY TypeInit, HandingInit DEF IInv
<1>2. IInv /\ [Next]_vars => IInv'
  BY TypeStep, HandingStep DEF IInv
<1> QED BY <1>1, <1>2, PTL DEF Spec

\* The table, the channels and the network hold what the code says they do,
\* however many calls share the socket.
THEOREM TypeCorrect == Spec => []TypeOK
<1>1. IInv => TypeOK
  BY DEF IInv
<1> QED BY <1>1, Invariant, PTL

\* However the network loses, delays, repeats and reorders datagrams and
\* however often an ID is used again, no caller gets an answer to a question it
\* did not ask.
THEOREM AnswersAreRight == Spec => []RightAnswer
<1>1. IInv => RightAnswer
  BY DEF IInv, Fitting, Fits, RightAnswer
<1> QED BY <1>1, Invariant, PTL

\* The send after the unlock never finds the channel full.
THEOREM OneHandOver == Spec => []HandedOnce
<1>1. IInv => HandedOnce
  <2> SUFFICES ASSUME IInv, reader.state = "handing" PROVE HandedOnce
    BY DEF HandedOnce
  <2>1. \A i \in IDs : inflight[i] # reader.to
    BY ReaderFields, NobodyAssumption DEF IInv, Registered
  <2> QED BY <2>1 DEF IInv, Handed, HandedOnce
<1> QED BY <1>1, Invariant, PTL

\* No exchange leaves an ID behind, whichever way it returns.
THEOREM NoIDLeaks == Spec => []NoLeak
<1>1. IInv => NoLeak
  BY NobodyAssumption DEF IInv, Registered, Started, NoLeak
<1> QED BY <1>1, Invariant, PTL
=============================================================================
