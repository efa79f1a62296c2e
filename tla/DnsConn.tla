------------------------------ MODULE DnsConn ------------------------------
(***************************************************************************)
(* internal/resolve/pool.go: one connected UDP socket that carries many    *)
(* concurrent queries, demultiplexed by message ID.                        *)
(*                                                                         *)
(* Every call of exchange is a member of Queries.  It registers under an   *)
(* unused ID, writes, and waits for its channel, its timer or its context; *)
(* on the way out its deferred unregister releases the ID.  One readLoop   *)
(* matches datagrams to waiters under the lock and hands them over after   *)
(* the unlock.  The network may lose, delay, duplicate and reorder.        *)
(*                                                                         *)
(* A timer and a cancelled context end a wait the same way and are one     *)
(* action.  A datagram that does not parse changes nothing and is left     *)
(* out.  Names are compared case-insensitively: a question stands for all  *)
(* its spellings.                                                          *)
(***************************************************************************)
EXTENDS Naturals

CONSTANTS
    Queries,    \* the calls of exchange
    IDSpace,    \* how many message IDs there are (2^16)
    Questions,  \* a name and a type each
    Asks,       \* the question of every query
    Nobody      \* no query

ASSUME AsksAssumption == Asks \in [Queries -> Questions]
ASSUME IDSpaceAssumption == IDSpace \in Nat \ {0}
ASSUME NobodyAssumption == Nobody \notin Queries

VARIABLES
    inflight,   \* the waiter registered under each ID, or Nobody
    closed,     \* the conn was marked closed
    socket,     \* the socket is open
    reader,     \* where readLoop is, and with which message
    at,         \* where each exchange is
    id,         \* the message ID of each exchange
    ch,         \* each exchange's channel, of capacity one
    end,        \* how each exchange ended
    got,        \* the message it returned with
    wire        \* datagrams from the upstream that may still arrive

vars == <<inflight, closed, socket, reader, at, id, ch, end, got, wire>>

\* The conn's state, and that of the exchanges.
connVars == <<inflight, closed, socket, reader, wire>>
callVars == <<at, id, ch, end, got>>

IDs == 0 .. IDSpace - 1

Message == [id : IDs, question : Questions]

\* readLoop in Read, past Unpack, past the unlock, or returned.
Reading == [state |-> "reading"]
Unpacked(m) == [state |-> "unpacked", msg |-> m]
Handing(q, m) == [state |-> "handing", to |-> q, msg |-> m]
Dead == [state |-> "dead"]

Init ==
    /\ inflight = [i \in IDs |-> Nobody]
    /\ closed = FALSE
    /\ socket = TRUE
    /\ reader = Reading
    /\ at = [q \in Queries |-> "idle"]
    /\ id = [q \in Queries |-> 0]
    /\ ch = [q \in Queries |-> {}]
    /\ end = [q \in Queries |-> "none"]
    /\ got = [q \in Queries |-> {}]
    /\ wire = {}

-----------------------------------------------------------------------------
(* Plausible mistakes, no part of the specification.                       *)

\* readLoop as it was when the ID alone decided.
MatchByIdOnly ==
    /\ reader.state = "unpacked"
    /\ LET m == reader.msg
           q == inflight[m.id]
       IN  /\ q # Nobody
           /\ inflight' = [inflight EXCEPT ![m.id] = Nobody]
           /\ reader' = Handing(q, m)
    /\ UNCHANGED <<callVars, closed, socket, wire>>

\* A match that leaves the waiter registered.
MatchKeepsWaiter ==
    /\ reader.state = "unpacked"
    /\ LET m == reader.msg
           q == inflight[m.id]
       IN  /\ q # Nobody
           /\ Asks[q] = m.question
           /\ reader' = Handing(q, m)
    /\ UNCHANGED <<callVars, inflight, closed, socket, wire>>

\* An exchange that returns without its deferred unregister.
LeaveRegistered(q) ==
    /\ at[q] = "leaving"
    /\ at' = [at EXCEPT ![q] = "done"]
    /\ UNCHANGED <<connVars, id, ch, end, got>>

\* A timer that sends the query again, with no limit.
GiveUpResends(q) ==
    /\ at[q] = "waiting"
    /\ at' = [at EXCEPT ![q] = "registered"]
    /\ UNCHANGED <<connVars, id, ch, end, got>>

-----------------------------------------------------------------------------
(* exchange.                                                               *)

\* register finds a free ID within its random attempts.
Register(q) ==
    /\ at[q] = "idle"
    /\ ~closed
    /\ \E i \in IDs :
          /\ inflight[i] = Nobody
          /\ inflight' = [inflight EXCEPT ![i] = q]
          /\ id' = [id EXCEPT ![q] = i]
    /\ at' = [at EXCEPT ![q] = "registered"]
    /\ UNCHANGED <<closed, socket, reader, ch, end, got, wire>>

\* The conn is closed, or every attempt drew an ID in use.
RegisterFails(q) ==
    /\ at[q] = "idle"
    /\ closed \/ \E i \in IDs : inflight[i] # Nobody
    /\ at' = [at EXCEPT ![q] = "done"]
    /\ end' = [end EXCEPT ![q] = "full"]
    /\ UNCHANGED <<connVars, id, ch, got>>

Write(q) ==
    /\ at[q] = "registered"
    /\ socket
    /\ at' = [at EXCEPT ![q] = "waiting"]
    /\ UNCHANGED <<connVars, id, ch, end, got>>

\* Pack or Write failed.
WriteFails(q) ==
    /\ at[q] = "registered"
    /\ at' = [at EXCEPT ![q] = "leaving"]
    /\ end' = [end EXCEPT ![q] = "error"]
    /\ UNCHANGED <<connVars, id, ch, got>>

Receive(q) ==
    /\ at[q] = "waiting"
    /\ ch[q] # {}
    /\ ch' = [ch EXCEPT ![q] = {}]
    /\ got' = [got EXCEPT ![q] = ch[q]]
    /\ end' = [end EXCEPT ![q] = "answer"]
    /\ at' = [at EXCEPT ![q] = "leaving"]
    /\ UNCHANGED <<connVars, id>>

\* The timer fires or the context is cancelled.  An answer that is already in
\* the channel does not prevent it: select picks among the ready cases.
GiveUp(q) ==
    /\ at[q] = "waiting"
    /\ at' = [at EXCEPT ![q] = "leaving"]
    /\ end' = [end EXCEPT ![q] = "timeout"]
    /\ UNCHANGED <<connVars, id, ch, got>>

\* The deferred unregister: whatever is registered under the ID goes.
Unregister(q) ==
    /\ at[q] = "leaving"
    /\ at' = [at EXCEPT ![q] = "done"]
    /\ inflight' = [inflight EXCEPT ![id[q]] = Nobody]
    /\ UNCHANGED <<closed, socket, reader, wire, id, ch, end, got>>

-----------------------------------------------------------------------------
(* readLoop.                                                               *)

\* The network may deliver a datagram again.
Read(m) ==
    /\ reader = Reading
    /\ socket
    /\ reader' = Unpacked(m)
    /\ wire' \in {wire, wire \ {m}}
    /\ UNCHANGED <<callVars, inflight, closed, socket>>

\* Any error of Read ends the loop: the socket was closed, or the kernel
\* reports an ICMP error on the connected socket.
ReadFails ==
    /\ reader = Reading
    /\ reader' = Dead
    /\ UNCHANGED <<callVars, inflight, closed, socket, wire>>

\* Under the lock: the ID is registered, for that very question.
Match ==
    /\ reader.state = "unpacked"
    /\ LET m == reader.msg
           q == inflight[m.id]
       IN  /\ q # Nobody
           /\ Asks[q] = m.question
           /\ inflight' = [inflight EXCEPT ![m.id] = Nobody]
           /\ reader' = Handing(q, m)
    /\ UNCHANGED <<callVars, closed, socket, wire>>

\* A datagram nobody waits for, or not with this question, is dropped.
Stray ==
    /\ reader.state = "unpacked"
    /\ LET q == inflight[reader.msg.id]
       IN  q # Nobody => Asks[q] # reader.msg.question
    /\ reader' = Reading
    /\ UNCHANGED <<callVars, inflight, closed, socket, wire>>

\* After the unlock, the send that does not block.
HandOver ==
    /\ reader.state = "handing"
    /\ reader' = Reading
    /\ ch' = [ch EXCEPT ![reader.to] = IF @ = {} THEN {reader.msg} ELSE @]
    /\ UNCHANGED <<inflight, closed, socket, wire, at, id, end, got>>

-----------------------------------------------------------------------------
(* The rest of the world.                                                  *)

\* The upstream answers a query it was sent, now or long after.
Answer(q) ==
    /\ at[q] \in {"waiting", "leaving", "done"}
    /\ end[q] \notin {"full", "error"}
    /\ [id |-> id[q], question |-> Asks[q]] \notin wire
    /\ wire' = wire \cup {[id |-> id[q], question |-> Asks[q]]}
    /\ UNCHANGED <<callVars, inflight, closed, socket, reader>>

\* close: the mark, then the socket.
MarkClosed ==
    /\ ~closed
    /\ closed' = TRUE
    /\ UNCHANGED <<callVars, inflight, socket, reader, wire>>

CloseSocket ==
    /\ closed
    /\ socket
    /\ socket' = FALSE
    /\ UNCHANGED <<callVars, inflight, closed, reader, wire>>

\* Every exchange has returned.
Rest == (\A q \in Queries : at[q] = "done") /\ UNCHANGED vars

Exchange(q) == \/ Register(q)
               \/ RegisterFails(q)
               \/ Write(q)
               \/ WriteFails(q)
               \/ Receive(q)
               \/ GiveUp(q)
               \/ Unregister(q)

ReadLoop == (\E m \in wire : Read(m)) \/ ReadFails \/ Match \/ Stray \/ HandOver

Next == \/ \E q \in Queries : Exchange(q) \/ Answer(q)
        \/ ReadLoop
        \/ MarkClosed
        \/ CloseSocket
        \/ Rest

Spec == Init /\ [][Next]_vars

\* Goroutines run and timers fire.  Nothing is asked of the network, nor of
\* readLoop.
FairSpec == Spec /\ \A q \in Queries : WF_vars(Exchange(q))

-----------------------------------------------------------------------------
(* Properties.                                                             *)

\* Types, and the capacities: a channel holds one message.
TypeOK ==
    /\ inflight \in [IDs -> Queries \cup {Nobody}]
    /\ closed \in BOOLEAN
    /\ socket \in BOOLEAN
    /\ \/ reader \in {Reading, Dead}
       \/ \E m \in Message : reader = Unpacked(m)
       \/ \E q \in Queries, m \in Message : reader = Handing(q, m)
    /\ at \in [Queries -> {"idle", "registered", "waiting", "leaving", "done"}]
    /\ id \in [Queries -> IDs]
    /\ ch \in [Queries -> SUBSET Message]
    /\ end \in [Queries -> {"none", "full", "error", "timeout", "answer"}]
    /\ got \in [Queries -> SUBSET Message]
    /\ wire \subseteq Message

\* pool.go:111-115: a late answer delivered to the wrong caller is "a silent
\* wrong-address bug".  Whatever an exchange returns with is an answer to its
\* question, under the ID it sent.
RightAnswer ==
    \A q \in Queries : \A m \in got[q] :
        m.question = Asks[q] /\ m.id = id[q]

\* pool.go:126-131: an exchange is handed one message at most, so the send
\* after the unlock never finds the channel full and throws no answer away.
HandedOnce ==
    reader.state = "handing" =>
        /\ ch[reader.to] = {}
        /\ got[reader.to] = {}
        /\ \A i \in IDs : inflight[i] # reader.to

\* pool.go:152: once an exchange has returned nothing is registered for it, on
\* any of its ways out: no ID leaks.
NoLeak ==
    \A q \in Queries :
        at[q] \in {"idle", "done"} => \A i \in IDs : inflight[i] # q

\* pool.go:163-172: no caller hangs.  Whatever the network, readLoop and the
\* other callers do, an exchange that registered returns.
Returns == \A q \in Queries : at[q] = "registered" ~> at[q] = "done"

\* pool.go:72: register "claims an unused message ID for a query".  The claim
\* stands until the query is answered or gives up.
ClaimStands ==
    \A q \in Queries :
        at[q] = "waiting" => \/ inflight[id[q]] = q
                             \/ reader.state = "handing" /\ reader.to = q
                             \/ ch[q] # {}
=============================================================================
