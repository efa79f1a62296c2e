--------------------------- MODULE ResolverProofs ---------------------------
(***************************************************************************)
(* Proofs about Resolver, for every configuration, whatever the other      *)
(* probes do.                                                              *)
(***************************************************************************)
EXTENDS Resolver, TLAPS

-----------------------------------------------------------------------------
(* The inductive invariant.                                                *)

\* Every iteration of the loop is one attempt: those made and those left add up
\* to the number configured.  Only a query that is over has an
\* answer, and one that is over without an answer has nothing left.
Budget ==
    \A q \in Queries : LET l == query[q] IN
        /\ l.at \in {"ready", "other"} =>
              l.left > 0 /\ l.made + l.left = cfg.attempts /\ ~l.answered
        /\ l.at \in {"trying", "truncated"} =>
              l.left > 0 /\ l.made + l.left = cfg.attempts + 1 /\ ~l.answered
        /\ l.at \in {"done", "joined"} =>
              /\ l.status \in Answers \cup Failures
              /\ l.answered \/ cancelled \/ l.made = cfg.attempts

\* The outcomes of the lookups that were received, in either order.
Received ==
    \/ arrived = <<>> /\ \A q \in Lookups : query[q].at # "joined"
    \/ \E p \in Lookups : /\ arrived = <<query[p].status>>
                          /\ query[p].at = "joined"
                          /\ \A q \in Lookups \ {p} : query[q].at # "joined"
    \/ \E p, q \in Lookups : /\ p # q
                             /\ arrived = <<query[p].status, query[q].status>>
                             /\ query[p].at = "joined" /\ query[q].at = "joined"

Merged ==
    merged # "" => Len(arrived) = 2 /\ merged = MergeStatus(arrived[1], arrived[2])

IInv == TypeOK /\ Budget /\ Received /\ Merged

-----------------------------------------------------------------------------
(* Facts about the constants and the helpers.                              *)

LEMMA Configured ==
  ASSUME cfg \in Configs
  PROVE  /\ Len(cfg.conns) \in Nat \ {0} /\ cfg.attempts \in Nat \ {0}
         /\ \A i \in 1 .. Len(cfg.conns) : cfg.conns[i] \in Servers
<1>1. cfg.conns \in Seq(Servers) /\ cfg.conns # <<>> /\ cfg.attempts \in Nat \ {0}
  BY ConfigsAssumption DEF ConfigType
<1> QED BY <1>1

LEMMA AskedQueries == Lookups \subseteq Asked /\ Asked \subseteq Queries
  BY DEF Asked, Queries

LEMMA ModInRange ==
  ASSUME NEW L \in Nat \ {0}, NEW n \in 1 .. L
  PROVE  (n % L) + 1 \in 1 .. L
<1>1. n % L \in 0 .. L - 1
  OBVIOUS
<1> QED BY <1>1

LEMMA AfterInRange ==
  ASSUME cfg \in Configs, NEW n \in 1 .. Len(cfg.conns)
  PROVE  After(n) \in 1 .. Len(cfg.conns)
<1>1. Len(cfg.conns) \in Nat \ {0}
  BY Configured
<1> QED BY <1>1, ModInRange DEF After

LEMMA TwoIsTwo == ASSUME NEW n, n = 2 PROVE n # 0 /\ n # 1
  OBVIOUS

LEMMA LenOne == ASSUME NEW a PROVE Len(<<a>>) = 1
  OBVIOUS

LEMMA AppendToOne ==
  ASSUME NEW S, NEW a \in S, NEW b \in S
  PROVE  Append(<<a>>, b) = <<a, b>>
<1> DEFINE s == <<a>>
           t == Append(s, b)
<1>1. s \in Seq(S) /\ Len(s) = 1 /\ s[1] = a
  OBVIOUS
<1>2. t \in Seq(S) /\ Len(t) = 2 /\ t[1] = a /\ t[2] = b
  BY <1>1
<1>3. t = <<t[1], t[2]>>
  <2> HIDE DEF t
  <2> QED BY <1>2
<1> QED BY <1>2, <1>3

LEMMA StatusKinds == Answers \cup Failures \subseteq Resolve
  BY DEF Answers, Failures, Resolve

LEMMA Ranks ==
  /\ Rank("ok") = 5 /\ Rank("nodata") = 4 /\ Rank("nxdomain") = 3
  /\ Rank("refused") = 2 /\ Rank("servfail") = 1
  /\ Rank("timeout") = 0 /\ Rank("error") = 0
  BY DEF Rank

LEMMA MergePicks ==
  ASSUME NEW a, NEW b
  PROVE  MergeStatus(a, b) \in {a, b}
  BY DEF MergeStatus

LEMMA MergeOrder ==
  ASSUME NEW a \in Answers \cup Failures, NEW b \in Answers \cup Failures
  PROVE  /\ a = "ok" \/ b = "ok" => MergeStatus(a, b) = "ok"
         /\ MergeStatus(a, b) = "nxdomain" => {a, b} \cap {"ok", "nodata"} = {}
         /\ MergeStatus(a, b) \in Failures => {a, b} \subseteq Failures
<1>1. /\ a \in {"ok", "nodata", "nxdomain", "servfail", "refused", "error", "timeout"}
      /\ b \in {"ok", "nodata", "nxdomain", "servfail", "refused", "error", "timeout"}
  BY DEF Answers, Failures
<1>2. ASSUME a = "ok" \/ b = "ok" PROVE MergeStatus(a, b) = "ok"
  BY <1>1, <1>2, Ranks DEF MergeStatus
<1>3. ASSUME MergeStatus(a, b) = "nxdomain"
      PROVE  a \notin {"ok", "nodata"} /\ b \notin {"ok", "nodata"}
  BY <1>1, <1>3, Ranks DEF MergeStatus
<1>4. ASSUME MergeStatus(a, b) \in {"timeout", "error"}
      PROVE  a \in {"timeout", "error"} /\ b \in {"timeout", "error"}
  BY <1>1, <1>4, Ranks DEF MergeStatus
<1> QED BY <1>2, <1>3, <1>4 DEF Failures

-----------------------------------------------------------------------------
(* One query's goroutine.                                                  *)

\* A goroutine is in order if it has its type and its budget; c says whether
\* the context is cancelled.
Sound(l, c) ==
    /\ l \in Goroutine
    /\ l.at \in {"ready", "other"} =>
          l.left > 0 /\ l.made + l.left = cfg.attempts /\ ~l.answered
    /\ l.at \in {"trying", "truncated"} =>
          l.left > 0 /\ l.made + l.left = cfg.attempts + 1 /\ ~l.answered
    /\ l.at \in {"done", "joined"} =>
          /\ l.status \in Answers \cup Failures
          /\ l.answered \/ c \/ l.made = cfg.attempts

\* An attempt takes one from the budget.
LEMMA AttemptSound ==
  ASSUME cfg \in Configs, NEW l \in Goroutine, NEW n \in 1 .. Len(cfg.conns), NEW c,
         l.left > 0, l.made + l.left = cfg.attempts, ~l.answered
  PROVE  Sound(Attempt(l, n), c)
<1> DEFINE m == Attempt(l, n)
<1>1. cfg.conns[n] \in Servers
  BY Configured
<1>2. l.left \in Nat /\ l.made \in Nat /\ cfg.attempts \in Nat
  BY Configured DEF Goroutine
<1>3. l.made + 1 \in 0 .. cfg.attempts
  BY <1>2
<1>4. m \in Goroutine
  BY <1>1, <1>3 DEF Attempt, Goroutine
<1>5. /\ m.at = "trying" /\ m.left = l.left /\ m.made = l.made + 1
      /\ m.answered = l.answered
  BY DEF Attempt, Goroutine
<1>6. m.made + m.left = cfg.attempts + 1
  BY <1>2, <1>5
<1> QED BY <1>4, <1>5, <1>6 DEF Sound

\* A step of Ask leaves the goroutine in order.
LEMMA AskSound ==
  ASSUME NEW q \in Queries, Ask(q), TypeOK, Sound(query[q], cancelled)
  PROVE  /\ \E m : Sound(m, cancelled) /\ query' = [query EXCEPT ![q] = m]
         /\ UNCHANGED <<cfg, cancelled>>
<1> DEFINE l == query[q]
<1>t. /\ cfg \in Configs /\ l \in Goroutine /\ l.left \in 0 .. cfg.attempts /\ l.made \in 0 .. cfg.attempts
      /\ l.tries \in 0 .. Len(cfg.conns)
      /\ cfg.attempts \in Nat \ {0} /\ Len(cfg.conns) \in Nat \ {0}
      /\ Sound(l, cancelled)
  BY Configured DEF TypeOK, Goroutine, Sound
<1>1. CASE Pick(q)
  <2> DEFINE other == [l EXCEPT !.at = "other", !.tries = 0]
  <2>1. /\ next' \in 1 .. Len(cfg.conns)
        /\ query' = [query EXCEPT ![q] = IF l.last = NoServer \/ ~cfg.pooled
                                         THEN Attempt(l, next') ELSE other]
        /\ l.at = "ready" /\ UNCHANGED <<cfg, cancelled>>
    BY <1>1, AfterInRange DEF Pick, Sets, TypeOK
  <2>2. l.left > 0 /\ l.made + l.left = cfg.attempts /\ ~l.answered
    BY <1>t, <2>1 DEF Sound
  <2>3. Sound(Attempt(l, next'), cancelled)
    BY <1>t, <2>1, <2>2, AttemptSound
  <2>4. Sound(other, cancelled)
    <3>0. 0 \in 0 .. Len(cfg.conns)
      BY <1>t
    <3>1. /\ other \in Goroutine /\ other.at = "other"
          /\ other.left = l.left /\ other.made = l.made /\ other.answered = l.answered
      BY <1>t, <3>0 DEF Goroutine
    <3> HIDE DEF other
    <3> QED BY <2>2, <3>1 DEF Sound
  <2> QED BY <2>1, <2>3, <2>4
<1>2. CASE PickOther(q)
  <2> DEFINE again == [l EXCEPT !.tries = @ + 1]
             sends == cfg.conns[next'] # l.last \/ l.tries = Len(cfg.conns)
  <2>1. /\ next' \in 1 .. Len(cfg.conns)
        /\ query' = [query EXCEPT ![q] = IF sends THEN Attempt(l, next') ELSE again]
        /\ l.at = "other" /\ UNCHANGED <<cfg, cancelled>>
    BY <1>2, AfterInRange DEF PickOther, Sets, TypeOK
  <2>2. l.left > 0 /\ l.made + l.left = cfg.attempts /\ ~l.answered
    BY <1>t, <2>1 DEF Sound
  <2>3. Sound(Attempt(l, next'), cancelled)
    BY <1>t, <2>1, <2>2, AttemptSound
  <2>4. ASSUME ~sends PROVE Sound(again, cancelled)
    <3>1. l.tries + 1 \in 0 .. Len(cfg.conns)
      BY <1>t, <2>4
    <3>2. /\ again \in Goroutine /\ again.at = "other"
          /\ again.left = l.left /\ again.made = l.made /\ again.answered = l.answered
      BY <1>t, <2>1, <3>1 DEF Goroutine
    <3> HIDE DEF again
    <3> QED BY <2>2, <3>2 DEF Sound
  <2> QED BY <2>1, <2>3, <2>4
<1>3. CASE Stop(q)
  <2> DEFINE m == Finished(l, "timeout")
  <2>1. /\ query' = [query EXCEPT ![q] = m]
        /\ l.at = "ready" /\ cancelled /\ UNCHANGED <<cfg, cancelled>>
    BY <1>3 DEF Stop, Sets
  <2>2. m \in Goroutine /\ m.at = "done" /\ m.status = "timeout"
    BY <1>t DEF Finished, Goroutine, Resolve
  <2>3. Sound(m, cancelled)
    <3> HIDE DEF m
    <3> QED BY <2>1, <2>2 DEF Sound, Failures
  <2> QED BY <2>1, <2>3
<1>4. CASE Reply(q) \/ ReplyTCP(q)
  <2>1. PICK s \in Answers :
           query' = [query EXCEPT ![q] = [Finished(l, s) EXCEPT !.answered = TRUE]]
    BY <1>4 DEF Reply, ReplyTCP, Sets
  <2> DEFINE m == [Finished(l, s) EXCEPT !.answered = TRUE]
  <2>2. m \in Goroutine /\ m.at = "done" /\ m.status = s /\ m.answered
    BY <1>t, StatusKinds DEF Finished, Goroutine
  <2>3. Sound(m, cancelled)
    <3> HIDE DEF m
    <3> QED BY <2>2 DEF Sound
  <2> QED BY <1>4, <2>1, <2>3 DEF Reply, ReplyTCP, Sets
<1>5. CASE Truncated(q)
  <2> DEFINE m == [l EXCEPT !.at = "truncated"]
  <2>1. /\ query' = [query EXCEPT ![q] = m]
        /\ l.at = "trying" /\ UNCHANGED <<cfg, cancelled>>
    BY <1>5 DEF Truncated, Sets
  <2>2. /\ m \in Goroutine /\ m.at = "truncated"
        /\ m.left = l.left /\ m.made = l.made /\ m.answered = l.answered
    BY <1>t DEF Goroutine
  <2>3. Sound(m, cancelled)
    <3> HIDE DEF m
    <3> QED BY <1>t, <2>1, <2>2 DEF Sound
  <2> QED BY <2>1, <2>3
<1>6. CASE Fail(q)
  <2>1. PICK s \in Failures :
           query' = [query EXCEPT ![q] =
                        [l EXCEPT !.at = IF l.left > 1 THEN "ready" ELSE "done",
                                  !.left = @ - 1, !.status = s, !.last = l.server]]
    BY <1>6 DEF Fail, Sets
  <2> DEFINE m == [l EXCEPT !.at = IF l.left > 1 THEN "ready" ELSE "done",
                            !.left = l.left - 1, !.status = s, !.last = l.server]
  <2>2. /\ l.at \in {"trying", "truncated"} /\ UNCHANGED <<cfg, cancelled>>
        /\ query' = [query EXCEPT ![q] = m]
    BY <1>6, <2>1 DEF Fail, Sets
  <2>3. l.left > 0 /\ l.made + l.left = cfg.attempts + 1 /\ ~l.answered
    BY <1>t, <2>2 DEF Sound
  <2>4. l.left - 1 \in 0 .. cfg.attempts /\ (l.left > 1 => l.left - 1 > 0)
    BY <1>t, <2>3
  <2>5. /\ m \in Goroutine
        /\ m.at = IF l.left > 1 THEN "ready" ELSE "done"
        /\ m.left = l.left - 1 /\ m.made = l.made
        /\ m.status = s /\ m.answered = l.answered
    BY <1>t, <2>4, StatusKinds DEF Goroutine
  <2>6. m.made + m.left = cfg.attempts /\ (l.left <= 1 => m.made = cfg.attempts)
    BY <1>t, <2>3, <2>5
  <2>7. Sound(m, cancelled)
    <3> HIDE DEF m
    <3> QED BY <1>t, <2>3, <2>4, <2>5, <2>6 DEF Sound
  <2> QED BY <2>2, <2>7
<1>7. CASE Arrive(q) \/ Delegate(q)
  <2> DEFINE m == [l EXCEPT !.at = "joined"]
  <2>1. /\ query' = [query EXCEPT ![q] = m]
        /\ l.at = "done" /\ UNCHANGED <<cfg, cancelled>>
    BY <1>7 DEF Arrive, Delegate
  <2>2. /\ m \in Goroutine /\ m.at = "joined" /\ m.status = l.status
        /\ m.made = l.made /\ m.answered = l.answered
    BY <1>t DEF Goroutine
  <2>3. Sound(m, cancelled)
    <3> HIDE DEF m
    <3> QED BY <1>t, <2>1, <2>2 DEF Sound
  <2> QED BY <2>1, <2>3
<1> QED BY <1>1, <1>2, <1>3, <1>4, <1>5, <1>6, <1>7 DEF Ask
-----------------------------------------------------------------------------
(* The invariant.                                                          *)

\* Every goroutine is in order.
Orderly == query \in [Queries -> Goroutine] /\ \A q \in Queries : Sound(query[q], cancelled)

LEMMA OrderlyIsBudget == TypeOK => (Budget <=> Orderly)
  BY DEF TypeOK, Budget, Orderly, Sound

LEMMA InvInit == Init => IInv
<1> SUFFICES ASSUME Init PROVE IInv
  OBVIOUS
<1>1. /\ cfg.attempts \in Nat \ {0} /\ Len(cfg.conns) \in Nat \ {0}
      /\ \A q \in Queries : q \in {"A", "AAAA", "NS"}
      /\ Lookups \subseteq Queries
  BY Configured DEF Init, Lookups, Queries
<1>2. query \in [Queries -> Goroutine]
  <2>1. cfg.attempts \in 0 .. cfg.attempts /\ 0 \in 0 .. cfg.attempts /\ 0 \in 0 .. Len(cfg.conns)
    BY <1>1
  <2> QED BY <2>1 DEF Init, Goroutine, Resolve
<1>3. TypeOK
  <2>1. arrived \in Seq(Answers \cup Failures)
    <3>1. \A S : <<>> \in Seq(S)
      OBVIOUS
    <3> QED BY <3>1, Zenon DEF Init
  <2>2. /\ cfg \in Configs /\ next \in 1 .. Len(cfg.conns) /\ merged = "" /\ delegation = "unchecked"
        /\ cancelled = FALSE
    BY DEF Init
  <2> QED BY <1>2, <2>1, <2>2 DEF TypeOK, Delegation
<1>4. Budget
  <2> SUFFICES ASSUME NEW q \in Queries
               PROVE  /\ query[q].at = "ready"
                      /\ query[q].left = cfg.attempts /\ query[q].made = 0
                      /\ ~query[q].answered
    BY <1>1 DEF Budget
  <2> QED BY DEF Init
<1>5. Received /\ Merged
  BY <1>1 DEF Init, Received, Merged
<1> QED BY <1>3, <1>4, <1>5 DEF IInv

\* Steps of a goroutine keep the types and the budget of all of them.
LEMMA AskStep ==
  ASSUME NEW q \in Queries, Ask(q), IInv
  PROVE  TypeOK' /\ Budget'
<1>1. TypeOK /\ Orderly
  BY OrderlyIsBudget DEF IInv
<1>2. PICK m : Sound(m, cancelled) /\ query' = [query EXCEPT ![q] = m]
  BY <1>1, AskSound DEF Orderly
<1>3. cancelled' = cancelled /\ cfg' = cfg
  BY <1>1, AskSound DEF Orderly
<1>4. m \in Goroutine
  BY <1>2 DEF Sound
<1>5. Orderly'
  BY <1>1, <1>2, <1>3, <1>4 DEF Orderly, Sound, Goroutine
<1>6. next' \in 1 .. Len(cfg.conns)
  BY <1>1, AfterInRange
     DEF TypeOK, Ask, Pick, PickOther, Stop, Reply, Truncated, ReplyTCP, Fail,
         Arrive, Delegate
<1>7. arrived' \in Seq(Answers \cup Failures)
  <2>1. CASE Arrive(q)
    <3>1. query[q].status \in Answers \cup Failures
      BY <1>1, <2>1 DEF Arrive, Orderly, Sound
    <3>2. arrived \in Seq(Answers \cup Failures)
      BY <1>1 DEF TypeOK
    <3>3. arrived' = Append(arrived, query[q].status)
      BY <2>1 DEF Arrive
    <3> QED BY <3>1, <3>2, <3>3
  <2>2. CASE ~Arrive(q)
    BY <1>1, <2>2 DEF TypeOK, Ask, Pick, PickOther, Stop, Reply, Truncated,
                      ReplyTCP, Fail, Delegate, Sets
  <2> QED BY <2>1, <2>2
<1>8. merged' = merged /\ delegation' \in Delegation
  BY <1>1 DEF TypeOK, Ask, Pick, PickOther, Stop, Reply, Truncated, ReplyTCP, Fail,
              Arrive, Delegate, DelegationOf, Delegation, Sets
<1>9. TypeOK'
  BY <1>1, <1>3, <1>5, <1>6, <1>7, <1>8 DEF TypeOK, Orderly
<1> QED BY <1>5, <1>9, OrderlyIsBudget DEF TypeOK, Budget, Orderly, Sound

\* What Lookup received is what its goroutines ended with.
LEMMA ReceivedStep ==
  ASSUME NEW q \in Queries, Ask(q), IInv
  PROVE  Received' /\ Merged'
<1>1. TypeOK /\ Received /\ Merged /\ Lookups \subseteq Queries
  BY DEF Queries, IInv
<1>2. CASE Arrive(q)
  <2>1. /\ q \in Lookups /\ query[q].at = "done" /\ merged' = merged
        /\ query' = [query EXCEPT ![q].at = "joined"]
        /\ arrived' = Append(arrived, query[q].status)
    BY <1>2 DEF Arrive
  <2>2. /\ query'[q].at = "joined" /\ query'[q].status = query[q].status
        /\ \A p \in Queries \ {q} : query'[p] = query[p]
    BY <1>1, <2>1 DEF TypeOK, Goroutine
  <2>3. CASE arrived = <<>> /\ \A p \in Lookups : query[p].at # "joined"
    <3>1. arrived' = <<query[q].status>>
      BY <2>1, <2>3
    <3>2. Received'
      BY <1>1, <2>1, <2>2, <2>3, <3>1 DEF Received
    <3>3. merged = ""
      <4>1. Len(arrived) # 2
        BY <2>3
      <4> QED BY <1>1, <4>1 DEF Merged
    <3> QED BY <2>1, <3>2, <3>3 DEF Merged
  <2>4. ASSUME NEW p \in Lookups, arrived = <<query[p].status>>,
               query[p].at = "joined", \A r \in Lookups \ {p} : query[r].at # "joined"
        PROVE  Received' /\ Merged'
    <3>1. p # q /\ query'[p] = query[p]
      BY <1>1, <2>1, <2>2, <2>4
    <3>2. arrived' = <<query[p].status, query[q].status>>
      <4>1. query[p].status \in Resolve /\ query[q].status \in Resolve
        BY <1>1, <2>1, <2>4 DEF TypeOK, Goroutine
      <4>2. Append(<<query[p].status>>, query[q].status)
                = <<query[p].status, query[q].status>>
        BY <4>1, AppendToOne
      <4> QED BY <2>1, <2>4, <4>2, Zenon
    <3>3. Received'
      <4>1. /\ arrived' = <<query'[p].status, query'[q].status>> /\ p # q
            /\ query'[p].at = "joined" /\ query'[q].at = "joined" /\ q \in Lookups
        BY <2>1, <2>2, <2>4, <3>1, <3>2
      <4> QED BY <2>4, <4>1 DEF Received
    <3>4. merged = ""
      <4>1. Len(arrived) = 1
        BY <2>4, LenOne, Zenon
      <4>2. Len(arrived) # 2
        BY <4>1
      <4> QED BY <1>1, <4>2 DEF Merged
    <3> QED BY <2>1, <3>3, <3>4 DEF Merged
  <2>5. ASSUME NEW p \in Lookups, NEW r \in Lookups, p # r,
               query[p].at = "joined", query[r].at = "joined"
        PROVE  FALSE
    BY <2>1, <2>5 DEF Lookups
  <2> QED BY <1>1, <2>3, <2>4, <2>5 DEF Received
<1>3. CASE ~Arrive(q)
  <2>1. UNCHANGED <<arrived, merged>>
    BY <1>3 DEF Ask, Pick, PickOther, Stop, Reply, Truncated, ReplyTCP, Fail,
                Delegate, Sets
  <2>2. \A p \in Lookups : /\ query[p].at = "joined" => query'[p] = query[p]
                           /\ query'[p].at = "joined" => query[p].at = "joined"
    <3> SUFFICES ASSUME NEW p \in Lookups
                 PROVE  /\ query[p].at = "joined" => query'[p] = query[p]
                        /\ query'[p].at = "joined" => query[p].at = "joined"
      OBVIOUS
    <3>1. CASE p # q
      BY <1>1, <1>3, <3>1 DEF TypeOK, Ask, Pick, PickOther, Stop, Reply, Truncated,
                              ReplyTCP, Fail, Delegate, Sets
    <3>2. CASE p = q
      <4>1. q # "NS"
        BY <3>2 DEF Lookups
      <4>2. query[q].at # "joined"
        BY <1>3, <4>1 DEF Ask, Pick, PickOther, Stop, Reply, Truncated, ReplyTCP,
                          Fail, Delegate
      <4>3. query'[q].at # "joined"
        <5> USE <1>1 DEF TypeOK, Goroutine, Sets
        <5>1. CASE Pick(q)
          BY <5>1 DEF Pick, Attempt
        <5>2. CASE PickOther(q)
          BY <5>2 DEF PickOther, Attempt
        <5>3. CASE Stop(q)
          BY <5>3 DEF Stop, Finished
        <5>4. CASE Reply(q) \/ ReplyTCP(q)
          <6>1. PICK s \in Answers :
                   query' = [query EXCEPT ![q] =
                       [Finished(query[q], s) EXCEPT !.answered = TRUE]]
            BY <5>4 DEF Reply, ReplyTCP
          <6>2. query'[q].at = "done"
            BY <6>1 DEF Finished
          <6> QED BY <6>2
        <5>5. CASE Truncated(q)
          BY <5>5 DEF Truncated
        <5>6. CASE Fail(q)
          <6>1. PICK s \in Failures :
                   query' = [query EXCEPT ![q] =
                       [query[q] EXCEPT !.at = IF query[q].left > 1 THEN "ready" ELSE "done",
                                        !.left = @ - 1, !.status = s,
                                        !.last = query[q].server]]
            BY <5>6 DEF Fail
          <6>2. query'[q].at = IF query[q].left > 1 THEN "ready" ELSE "done"
            BY <6>1
          <6> QED BY <6>2
        <5> QED BY <1>3, <4>1, <5>1, <5>2, <5>3, <5>4, <5>5, <5>6 DEF Ask, Delegate
      <4> QED BY <3>2, <4>2, <4>3
    <3> QED BY <3>1, <3>2
  <2>3. ASSUME arrived = <<>>, \A p \in Lookups : query[p].at # "joined"
        PROVE  Received'
    <3>1. arrived' = <<>>
      BY <2>1, <2>3, Zenon
    <3>2. \A p \in Lookups : query'[p].at # "joined"
      BY <2>2, <2>3, Zenon
    <3> QED BY <3>1, <3>2, Zenon DEF Received
  <2>4. ASSUME NEW p \in Lookups, arrived = <<query[p].status>>,
               query[p].at = "joined", \A r \in Lookups \ {p} : query[r].at # "joined"
        PROVE  Received'
    <3>1. /\ arrived' = <<query'[p].status>> /\ query'[p].at = "joined"
          /\ \A r \in Lookups \ {p} : query'[r].at # "joined"
      BY <2>1, <2>2, <2>4
    <3> QED BY <3>1 DEF Received
  <2>5. ASSUME NEW p \in Lookups, NEW r \in Lookups, p # r,
               arrived = <<query[p].status, query[r].status>>,
               query[p].at = "joined", query[r].at = "joined"
        PROVE  Received'
    <3>1. /\ arrived' = <<query'[p].status, query'[r].status>>
          /\ query'[p].at = "joined" /\ query'[r].at = "joined"
      BY <2>1, <2>2, <2>5
    <3> QED BY <2>5, <3>1 DEF Received
  <2>6. Received'
    BY <1>1, <2>3, <2>4, <2>5 DEF Received
  <2> QED BY <1>1, <2>1, <2>6 DEF Merged
<1> QED BY <1>2, <1>3

LEMMA InvStep == IInv /\ [Next]_vars => IInv'
<1> SUFFICES ASSUME IInv, [Next]_vars PROVE IInv'
  OBVIOUS
<1>t. TypeOK /\ Budget /\ Received /\ Merged
  BY DEF IInv
<1>1. ASSUME NEW q \in Asked, Ask(q) PROVE IInv'
  BY <1>1, AskedQueries, AskStep, ReceivedStep DEF IInv
<1>2. CASE Merge
  <2>1. arrived[1] \in Answers \cup Failures /\ arrived[2] \in Answers \cup Failures
    <3>1. arrived \in Seq(Answers \cup Failures) /\ Len(arrived) = 2
      BY <1>t, <1>2 DEF Merge, TypeOK
    <3> QED BY <3>1
  <2>2. merged' \in Answers \cup Failures
    BY <1>2, <2>1, MergePicks DEF Merge
  <2>3. TypeOK'
    BY <1>t, <1>2, <2>2 DEF Merge, TypeOK, Goroutine
  <2>4. Budget' /\ Received' /\ Merged'
    BY <1>t, <1>2 DEF Merge, Budget, Received, Merged
  <2> QED BY <2>3, <2>4 DEF IInv
<1>3. CASE Cancel
  <2>1. TypeOK'
    BY <1>t, <1>3 DEF Cancel, TypeOK, Goroutine
  <2>2. Received' /\ Merged'
    BY <1>t, <1>3 DEF Cancel, Received, Merged
  <2>3. Budget'
    BY <1>t, <1>3 DEF Cancel, Budget
  <2> QED BY <2>1, <2>2, <2>3 DEF IInv
<1>4. CASE Others
  <2>1. next' \in 1 .. Len(cfg.conns)
    BY <1>t, <1>4, AfterInRange DEF Others, TypeOK
  <2>2. TypeOK'
    BY <1>t, <1>4, <2>1 DEF Others, TypeOK, Goroutine
  <2>3. Budget' /\ Received' /\ Merged'
    BY <1>t, <1>4 DEF Others, Budget, Received, Merged
  <2> QED BY <2>2, <2>3 DEF IInv
<1>5. CASE UNCHANGED vars
  <2>1. TypeOK'
    BY <1>t, <1>5 DEF vars, TypeOK, Goroutine
  <2>2. Budget'
    BY <1>t, <1>5 DEF vars, Budget
  <2>3. Received' /\ Merged'
    BY <1>t, <1>5 DEF vars, Received, Merged
  <2> QED BY <2>1, <2>2, <2>3 DEF IInv
<1> QED BY <1>1, <1>2, <1>3, <1>4, <1>5 DEF Next

LEMMA Invariant == Spec => []IInv
  BY InvInit, InvStep, PTL DEF Spec

-----------------------------------------------------------------------------
(* The theorems.                                                           *)

\* Every state a query can get into is one the loop accounts for.
THEOREM TypeCorrect == Spec => []TypeOK
<1>1. IInv => TypeOK
  BY DEF IInv
<1> QED BY <1>1, Invariant, PTL

\* However many attempts are configured, a query that nobody answered and
\* nobody cancelled has made every one of them.
THEOREM DoubtTakesEveryAttempt == Spec => []DoubtIsEarned
<1>1. IInv => DoubtIsEarned
  BY DEF IInv, Budget, DoubtIsEarned
<1> QED BY <1>1, Invariant, PTL

\* Nothing is sent for a query that was answered.
THEOREM AnswersEndTheLoop == Spec => AnswerIsFinal
<1>1. IInv /\ [Next]_vars =>
          [\A q \in Queries : query[q].answered => query'[q].made = query[q].made]_vars
  <2> SUFFICES ASSUME IInv, [Next]_vars, NEW q \in Queries, query[q].answered
               PROVE  query'[q].made = query[q].made
    OBVIOUS
  <2>1. TypeOK /\ query[q].at \in {"done", "joined"}
    BY DEF IInv, Budget, TypeOK, Goroutine
  <2>2. ASSUME NEW p \in Queries, Ask(p) PROVE query'[q].made = query[q].made
    <3>1. CASE p # q
      BY <2>1, <2>2, <3>1 DEF TypeOK, Ask, Pick, PickOther, Stop, Reply, Truncated,
                              ReplyTCP, Fail, Arrive, Delegate, Sets
    <3>2. CASE p = q
      <4>1. query[q] \in Goroutine /\ query[q].at \in {"done", "joined"}
        BY <2>1 DEF TypeOK
      <4>2. Arrive(q) \/ Delegate(q)
        BY <2>2, <3>2, <4>1 DEF Ask, Pick, PickOther, Stop, Reply, Truncated,
                                ReplyTCP, Fail
      <4>3. query' = [query EXCEPT ![q].at = "joined"]
        BY <4>2 DEF Arrive, Delegate
      <4> QED BY <2>1, <4>1, <4>3 DEF TypeOK, Goroutine
    <3> QED BY <3>1, <3>2
  <2> QED BY <2>2, AskedQueries DEF Next, Merge, Cancel, Others, vars
<1> QED BY <1>1, Invariant, PTL DEF Spec, AnswerIsFinal

\* Whichever lookup comes back first, the merge is the one documented.
THEOREM MergeIsSound == Spec => []MergeIsOptimistic
<1>1. IInv => MergeIsOptimistic
  <2> SUFFICES ASSUME IInv, merged # "" PROVE MergeIsOptimistic
    BY DEF MergeIsOptimistic
  <2>0. Len(arrived) = 2
    BY DEF IInv, Merged
  <2>1. /\ Len(arrived) = 2 /\ merged = MergeStatus(arrived[1], arrived[2])
        /\ Lookups \subseteq Queries
    BY DEF Queries, IInv, Merged
  <2>2. PICK p, q \in Lookups : /\ p # q
                                /\ arrived = <<query[p].status, query[q].status>>
                                /\ query[p].at = "joined" /\ query[q].at = "joined"
    <3>1. arrived # <<>>
      <4>1. Len(<<>>) = 0
        OBVIOUS
      <4> QED BY <2>0, <4>1, TwoIsTwo, Zenon
    <3>2. \A r : arrived # <<query[r].status>>
      BY <2>0, LenOne, TwoIsTwo, Zenon
    <3> QED BY <3>1, <3>2 DEF IInv, Received
  <2> DEFINE a == query[p].status
             b == query[q].status
  <2>3. merged = MergeStatus(a, b)
    BY <2>1, <2>2
  <2>4. {query[r].status : r \in Lookups} = {a, b}
    <3>1. Lookups = {p, q}
      BY <2>2 DEF Lookups
    <3> QED BY <3>1
  <2>5. a \in Answers \cup Failures /\ b \in Answers \cup Failures
    BY <2>1, <2>2 DEF IInv, Budget
  <2>6. /\ a = "ok" \/ b = "ok" => MergeStatus(a, b) = "ok"
        /\ MergeStatus(a, b) = "nxdomain" => {a, b} \cap {"ok", "nodata"} = {}
        /\ MergeStatus(a, b) \in Failures => {a, b} \subseteq Failures
    BY <2>5, MergeOrder
  <2>7. MergeStatus(a, b) \in {a, b}
    BY MergePicks
  <2> QED BY <2>3, <2>4, <2>6, <2>7 DEF MergeIsOptimistic
<1> QED BY <1>1, Invariant, PTL
=============================================================================
