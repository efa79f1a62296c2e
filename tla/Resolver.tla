------------------------------ MODULE Resolver ------------------------------
(***************************************************************************)
(* internal/resolve above the socket: the retry loop every query runs, the *)
(* round-robin counter all of them share, the concurrent A and AAAA        *)
(* queries of one Lookup and the merge of their outcomes, and the NS query *)
(* of Delegation.                                                          *)
(*                                                                         *)
(* One exchange over a socket (module DnsConn) is a single step here: it   *)
(* returns a message, of which only the class of the answer and the        *)
(* truncation bit matter, or a transport error.  The counter is kept       *)
(* modulo the number of sockets.                                           *)
(***************************************************************************)
EXTENDS Record, FiniteSets

CONSTANTS
    Servers,    \* the upstreams
    Configs,    \* the configurations a resolver is built with
    NoServer    \* the empty lastServer

\* The queries of one name.  NS is asked with CheckDelegation only.
Lookups == {"A", "AAAA"}
Queries == Lookups \cup {"NS"}

\* conns is the server of each pooled socket, in pool order; on the legacy path,
\* which has no pool, it is the list of servers.
ConfigType ==
    [conns : Seq(Servers) \ {<<>>}, pooled : BOOLEAN, attempts : Nat \ {0},
     checkDelegation : BOOLEAN]

ASSUME ConfigsAssumption == Configs \subseteq ConfigType
ASSUME NoServerAssumption == NoServer \notin Servers

VARIABLES
    cfg,        \* the configuration
    next,       \* pool.next
    query,      \* each query's goroutine
    arrived,    \* the statuses Lookup has received, in order
    merged,     \* what Lookup returned, "" before
    delegation, \* what Delegation returned
    cancelled   \* ctx.Err() # nil

vars == <<cfg, next, query, arrived, merged, delegation, cancelled>>

\* The queries that are made at all.
Asked == IF cfg.checkDelegation THEN Queries ELSE Lookups

\* What a message amounts to (fromMsg), and what an exchange fails with
\* (classifyNetErr).  "error" is an rcode nobody expects or an error that is
\* not a timeout.
Answers == {"ok", "nodata", "nxdomain", "servfail", "refused", "error"}
Failures == {"timeout", "error"}

Init ==
    /\ cfg \in Configs
    /\ next \in 1 .. Len(cfg.conns)
    /\ query = [q \in Queries |->
          [at       |-> "ready",     \* ready, other, trying, truncated, done
           left     |-> cfg.attempts,  \* iterations of the loop still to run
           tries    |-> 0,           \* iterations of pickOther
           server   |-> NoServer,    \* the upstream of this attempt
           last     |-> NoServer,    \* lastServer
           status   |-> "unattempted",  \* last.Status
           answered |-> FALSE,       \* history: a usable message came back
           made     |-> 0]]          \* history: attempts made
    /\ arrived = <<>>
    /\ merged = ""
    /\ delegation = "unchecked"
    /\ cancelled = FALSE

-----------------------------------------------------------------------------
(* pool.                                                                   *)

After(n) == (n % Len(cfg.conns)) + 1

\* The goroutine of q becomes l.
Sets(q, l) ==
    /\ query' = [query EXCEPT ![q] = l]
    /\ UNCHANGED <<cfg, arrived, merged, delegation, cancelled>>

\* An attempt with the socket the counter points at.  It may fail before any
\* datagram leaves: no free message ID, or a write error.
Attempt(l, n) == [l EXCEPT !.at = "trying", !.server = cfg.conns[n], !.made = @ + 1]

\* pick, an atomic add.  A retry throws the socket away and asks pickOther.
Pick(q) ==
    LET l == query[q] IN
    /\ l.at = "ready" /\ l.left > 0 /\ ~cancelled
    /\ next' = After(next)
    /\ Sets(q, IF l.last = NoServer \/ ~cfg.pooled THEN Attempt(l, next')
               ELSE [l EXCEPT !.at = "other", !.tries = 0])

\* One iteration of pickOther.  Other queries advance the counter in between.
PickOther(q) ==
    LET l == query[q] IN
    /\ l.at = "other"
    /\ next' = After(next)
    /\ Sets(q, IF cfg.conns[next'] # l.last \/ l.tries = Len(cfg.conns)
               THEN Attempt(l, next')
               ELSE [l EXCEPT !.tries = @ + 1])

-----------------------------------------------------------------------------
(* query and exchange, which run the same loop.                            *)

Finished(l, s) == [l EXCEPT !.at = "done", !.status = s]

\* A plausible mistake, no part of the model: nobody hears of the cancellation.
StopSilent(q) ==
    LET l == query[q] IN
    /\ l.at = "ready" /\ l.left > 0 /\ cancelled
    /\ Sets(q, [l EXCEPT !.at = "joined"])
    /\ UNCHANGED next

\* A cancelled context ends the loop with a timeout.
Stop(q) ==
    LET l == query[q] IN
    /\ l.at = "ready" /\ l.left > 0 /\ cancelled
    /\ Sets(q, Finished(l, "timeout"))
    /\ UNCHANGED next

\* A plausible mistake, no part of the model: a server's failure retried.
ReplyRetriesServfail(q) ==
    LET l == query[q] IN
    /\ l.at = "trying"
    /\ \E s \in Answers :
          Sets(q, IF s = "servfail"
                  THEN [l EXCEPT !.at = "ready", !.left = @ - 1, !.status = s,
                                 !.last = l.server, !.answered = TRUE]
                  ELSE [Finished(l, s) EXCEPT !.answered = TRUE])
    /\ UNCHANGED next

\* A message over UDP.
Reply(q) ==
    LET l == query[q] IN
    /\ l.at = "trying"
    /\ \E s \in Answers : Sets(q, [Finished(l, s) EXCEPT !.answered = TRUE])
    /\ UNCHANGED next

\* A truncated message: the same server is asked again over TCP.
Truncated(q) ==
    LET l == query[q] IN
    /\ l.at = "trying"
    /\ Sets(q, [l EXCEPT !.at = "truncated"])
    /\ UNCHANGED next

ReplyTCP(q) ==
    LET l == query[q] IN
    /\ l.at = "truncated"
    /\ \E s \in Answers : Sets(q, [Finished(l, s) EXCEPT !.answered = TRUE])
    /\ UNCHANGED next

\* A plausible mistake, no part of the model: the last attempt never made.
FailOneShort(q) ==
    LET l == query[q] IN
    /\ l.at \in {"trying", "truncated"}
    /\ \E s \in Failures :
          Sets(q, [l EXCEPT !.at = IF l.left > 2 THEN "ready" ELSE "done",
                            !.left = @ - 1, !.status = s, !.last = l.server])
    /\ UNCHANGED next

\* Only a transport failure is worth another attempt.
Fail(q) ==
    LET l == query[q] IN
    /\ l.at \in {"trying", "truncated"}
    /\ \E s \in Failures :
          Sets(q, [l EXCEPT !.at = IF l.left > 1 THEN "ready" ELSE "done",
                            !.left = @ - 1, !.status = s, !.last = l.server])
    /\ UNCHANGED next

-----------------------------------------------------------------------------
(* Lookup and Delegation.                                                  *)

\* A plausible mistake, no part of the model: NXDOMAIN beats NODATA.
RankSwapped(s) ==
    CASE s = "ok"       -> 5
      [] s = "nxdomain" -> 4
      [] s = "nodata"   -> 3
      [] s = "refused"  -> 2
      [] s = "servfail" -> 1
      [] OTHER          -> 0

Rank(s) ==
    CASE s = "ok"       -> 5
      [] s = "nodata"   -> 4
      [] s = "nxdomain" -> 3
      [] s = "refused"  -> 2
      [] s = "servfail" -> 1
      [] OTHER          -> 0

MergeStatus(a, b) == IF Rank(a) >= Rank(b) THEN a ELSE b

\* Lookup receives from whichever of its goroutines is done first.
Arrive(q) ==
    /\ q \in Lookups
    /\ query[q].at = "done"
    /\ query' = [query EXCEPT ![q].at = "joined"]
    /\ arrived' = Append(arrived, query[q].status)
    /\ UNCHANGED <<cfg, next, merged, delegation, cancelled>>

Merge ==
    /\ merged = ""
    /\ Len(arrived) = 2
    /\ merged' = MergeStatus(arrived[1], arrived[2])
    /\ UNCHANGED <<cfg, next, query, arrived, delegation, cancelled>>

DelegationOf(s) ==
    CASE s = "nxdomain" -> "none"
      [] s = "ok"       -> "ok"
      [] s = "nodata"   -> "nodata"
      [] OTHER          -> "broken"

Delegate(q) ==
    /\ q = "NS"
    /\ query[q].at = "done"
    /\ query' = [query EXCEPT ![q].at = "joined"]
    /\ delegation' = DelegationOf(query[q].status)
    /\ UNCHANGED <<cfg, next, arrived, merged, cancelled>>

Cancel ==
    /\ ~cancelled
    /\ cancelled' = TRUE
    /\ UNCHANGED <<cfg, next, query, arrived, merged, delegation>>

\* Other probes share the pool and move its counter at any time.
Others ==
    /\ next' = After(next)
    /\ UNCHANGED <<cfg, query, arrived, merged, delegation, cancelled>>

Ask(q) == \/ Pick(q)
          \/ PickOther(q)
          \/ Stop(q)
          \/ Reply(q)
          \/ Truncated(q)
          \/ ReplyTCP(q)
          \/ Fail(q)
          \/ Arrive(q)
          \/ Delegate(q)

Next == (\E q \in Asked : Ask(q)) \/ Merge \/ Cancel \/ Others

Spec == Init /\ [][Next]_vars

\* An exchange returns, by its timer if by nothing else (DnsConn, Returns), so
\* every query keeps moving.
FairSpec == /\ Spec
            /\ \A q \in Queries : WF_vars(q \in Asked /\ Ask(q))
            /\ WF_vars(Merge)

-----------------------------------------------------------------------------
(* Properties.                                                             *)

Goroutine ==
    [at : {"ready", "other", "trying", "truncated", "done", "joined"},
     left : 0 .. cfg.attempts, tries : 0 .. Len(cfg.conns),
     server : Servers \cup {NoServer}, last : Servers \cup {NoServer},
     status : Resolve, answered : BOOLEAN, made : 0 .. cfg.attempts]

TypeOK ==
    /\ cfg \in Configs
    /\ next \in 1 .. Len(cfg.conns)
    /\ query \in [Queries -> Goroutine]
    /\ arrived \in Seq(Answers \cup Failures)
    /\ merged \in Answers \cup Failures \cup {""}
    /\ delegation \in Delegation
    /\ cancelled \in BOOLEAN

\* resolve.go:364: "retrying is pointless" once a server has answered, be it
\* with a failure.  However the answer came, over UDP or TCP, on whichever
\* attempt, no further attempt is made for that query.
AnswerIsFinal ==
    [][\A q \in Queries : query[q].answered => query'[q].made = query[q].made]_vars

\* resolve.go:331-373: a query that comes back without an answer has made
\* exactly as many attempts as configured, unless the scan was cancelled: the
\* scanner's own doubt is neither cheap nor repeated for ever.  An attempt need
\* not have sent anything (pool.go:149-161), nor reached another server.
DoubtIsEarned ==
    \A q \in Queries :
        query[q].at \in {"done", "joined"} /\ ~query[q].answered /\ ~cancelled =>
            query[q].made = cfg.attempts

\* resolve.go:180-185, whichever query is done first: an address beats
\* everything, NXDOMAIN is reported only when nothing contradicts it, and a
\* transport failure only when nothing authoritative came back.
MergeIsOptimistic ==
    merged # "" =>
        LET found == {query[q].status : q \in Lookups} IN
        /\ "ok" \in found => merged = "ok"
        /\ merged = "nxdomain" => found \cap {"ok", "nodata"} = {}
        /\ merged \in Failures => found \subseteq Failures
        /\ merged \in found

\* Every Lookup and every Delegation returns, answered or not.
Terminates == <>(merged # "" /\ \A q \in Asked : query[q].at = "joined")
=============================================================================
