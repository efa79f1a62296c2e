---------------------------- MODULE ProbeProofs ----------------------------
(***************************************************************************)
(* Proofs about Probe, for every limit on redirects, every set of          *)
(* redirect targets and every setting of the switches.                     *)
(***************************************************************************)
EXTENDS Probe, TLAPS

-----------------------------------------------------------------------------
(* The inductive invariant.                                                *)

Hosts == {"apex", "www", "sub", "ext", "ext2"}

\* A walk: what an answer has written into the side, and that nothing at all is
\* in it before the first request is over.
Walking(l) ==
    /\ l.side.resolve = "ok" /\ l.side.terminal = "none"
    /\ l.side.http # "none" => l.side.tcp = "ok" /\ l.last \in Hosts
    /\ l.side.tls = "ok" => l.side.http # "none"
    /\ l.secure = NoSide /\ l.side.http # "none" => l.side.tls # "unattempted"
    /\ l.side.tls # "unattempted" => l.side.tcp = "ok"
    /\ l.side.hops <= MaxHops
    /\ l.at = "rest" => /\ l.side.tcp # "unattempted"
                        /\ l.secure = NoSide /\ l.side.tcp = "ok" =>
                              l.side.tls # "unattempted"
    /\ l.at = "walk" =>
          IF l.hop = 0
          THEN /\ l.side = [NoSide EXCEPT !.resolve = "ok"]
               /\ l.secure = NoSide => l.url.scheme = "https"
          ELSE l.side.http # "none"

\* The https walk that failed on the certificate, kept while the plaintext one
\* goes on.
Failed(s) ==
    /\ s.resolve = "ok" /\ s.http = "none" /\ s.terminal = "none" /\ s.hops <= MaxHops
    /\ IsTLSFailure(s.tls) /\ s.tcp = "ok"

\* What probeName returns.
Whole(s) ==
    /\ Climbed(s) /\ ~Half(s)
    /\ s.terminal = "none" <=> s.http = "none"
    /\ s.hops <= MaxHops

Good(l) ==
    /\ l \in Climber
    /\ l.at = "lookup" => /\ l.side = NoSide /\ l.secure = NoSide
                          /\ l.hop = 0 /\ l.url.scheme = "https" /\ ~l.fellBack
    /\ l.at \in {"walk", "rest"} => Walking(l) /\ ~l.fellBack
    /\ l.at # "done" /\ l.secure # NoSide => Failed(l.secure)
    /\ l.at = "done" => /\ Whole(l.side)
                        /\ l.fellBack => IsTLSFailure(l.side.tls)

\* Once joined the ladders are in, and stay as they are.
Joined ==
    caller # "join" =>
        /\ \A n \in Names : ladder[n].at = "done"
        /\ rec.apex = ladder["apex"].side /\ rec.www = ladder["www"].side

\* Who was cut short saw the cancellation, which nothing takes back.
Uncut ==
    /\ \A n \in Names : ladder[n].cut => cancelled
    /\ rec.status = "complete" => caller = "done" /\ ~cancelled

IInv == TypeOK /\ (\A n \in Names : Good(ladder[n])) /\ Joined /\ Uncut

-----------------------------------------------------------------------------
(* Types.                                                                  *)

LEMMA NoSideIsSide == NoSide \in Side
  BY DEF NoSide, Side, Resolve, TCP, TLS, HTTP, Terminal

LEMMA Fields ==
  ASSUME NEW l \in Climber
  PROVE  /\ l.side \in Side /\ l.secure \in Side /\ l.url \in URL
         /\ l.hop \in 0 .. MaxHops /\ l.hop \in Nat /\ l.cut \in BOOLEAN
<1>1. /\ l.side \in Side /\ l.secure \in Side /\ l.url \in URL
      /\ l.hop \in 0 .. MaxHops /\ l.cut \in BOOLEAN
  BY DEF Climber
<1>2. l.hop \in Nat
  BY <1>1, MaxHopsAssumption
<1> QED BY <1>1, <1>2

LEMMA Classified ==
  ASSUME NEW s \in Side, NEW c, NEW e \in TransportErrors(c), NEW b \in BOOLEAN,
         s = [NoSide EXCEPT !.resolve = "ok"]
  PROVE  LET k == ClassifyTransportErr(s, e, b) IN
         /\ k \in Side /\ k.resolve = "ok" /\ k.http = "none"
         /\ k.terminal = "none" /\ k.hops = 0 /\ k.tls # "ok"
         /\ k.tcp # "unattempted"
         /\ b /\ k.tcp = "ok" => k.tls # "unattempted"
         /\ k.tls # "unattempted" => k.tcp = "ok"
<1> DEFINE k == ClassifyTransportErr(s, e, b)
           Fits(t, u) == /\ k = [s EXCEPT !.tcp = t, !.tls = u]
                         /\ b /\ t = "ok" => u # "unattempted"
                         /\ u # "unattempted" => t = "ok"
<1>1. /\ s.resolve = "ok" /\ s.tcp = "unattempted" /\ s.tls = "unattempted"
      /\ s.http = "none" /\ s.terminal = "none" /\ s.hops = 0
  BY DEF NoSide
<1>2. PICK t \in TCP \ {"unattempted"}, u \in TLS \ {"ok"} : Fits(t, u)
  <2>1. CASE e \in CertErrors
    <3>1. Fits("ok", e)
      BY <1>1, <2>1 DEF ClassifyTransportErr, CertErrors
    <3>2. e \in TLS \ {"ok"}
      BY <2>1 DEF CertErrors, TLS
    <3> QED BY <3>1, <3>2 DEF TCP
  <2>2. CASE e \in {"tls-timeout", "tls-error"}
    <3>1. Fits("ok", IF e = "tls-timeout" THEN "timeout" ELSE "error")
      BY <1>1, <2>2 DEF ClassifyTransportErr, CertErrors
    <3> QED BY <3>1 DEF TCP, TLS
  <2>3. CASE e = "reset"
    <3>1. Fits("ok", IF b THEN "handshake-fail" ELSE "unattempted")
      BY <1>1, <2>3 DEF ClassifyTransportErr, CertErrors, Side
    <3> QED BY <3>1 DEF TCP, TLS
  <2>4. CASE e \in {"refused", "unreachable", "dropped", "silent", "dns-timeout",
                    "dial-error", "dns-failed", "cancelled"}
    <3>1. PICK t \in TCP \ {"unattempted", "ok"} : k = [s EXCEPT !.tcp = t]
      BY <2>4 DEF ClassifyTransportErr, CertErrors, TCP
    <3>2. [s EXCEPT !.tcp = t] = [s EXCEPT !.tcp = t, !.tls = "unattempted"]
      BY <1>1 DEF Side
    <3>3. Fits(t, "unattempted")
      BY <3>1, <3>2
    <3> QED BY <3>1, <3>3 DEF TLS
  <2> QED BY <2>1, <2>2, <2>3, <2>4 DEF TransportErrors, DialErrors, CertErrors
<1> HIDE DEF k
<1>3. /\ k \in Side /\ k.resolve = s.resolve /\ k.http = s.http
      /\ k.terminal = s.terminal /\ k.hops = s.hops /\ k.tls # "ok"
      /\ k.tcp # "unattempted" /\ (b /\ k.tcp = "ok" => k.tls # "unattempted")
      /\ (k.tls # "unattempted" => k.tcp = "ok")
  BY <1>2 DEF Side
<1> QED BY <1>1, <1>3 DEF k

LEMMA CutKeepsGood ==
  ASSUME NEW l, Good(l), NEW c \in BOOLEAN
  PROVE  Good([l EXCEPT !.cut = @ \/ c])
<1> DEFINE m == [l EXCEPT !.cut = @ \/ c]
<1>1. l \in Climber /\ (l.cut \/ c) \in BOOLEAN
  BY Fields DEF Good
<1>2. /\ m \in Climber /\ m.at = l.at /\ m.side = l.side /\ m.secure = l.secure
      /\ m.url = l.url /\ m.hop = l.hop /\ m.last = l.last /\ m.fellBack = l.fellBack
  BY <1>1 DEF Climber
<1> HIDE DEF m
<1>3. Good(m)
  BY <1>2 DEF Good, Walking
<1> QED BY <1>3 DEF m

-----------------------------------------------------------------------------
(* One step of a ladder.                                                   *)

\* What an answer leaves behind.
LEMMA AnsweredFields ==
  ASSUME NEW l, Good(l), l.at = "walk", NEW n, NEW c \in HTTP \ {"none"}
  PROVE  LET a == Answered(l, c) IN
         /\ a \in Climber /\ a.secure = l.secure /\ a.fellBack = l.fellBack
         /\ a.cut = l.cut /\ a.url = l.url /\ a.hop = l.hop /\ a.last \in Hosts
         /\ a.side.resolve = "ok" /\ a.side.tcp = "ok" /\ a.side.http = c
         /\ a.side.terminal = "none" /\ a.side.hops = l.hop
         /\ l.secure = NoSide => a.side.tls # "unattempted"
<1> DEFINE t == IF l.url.scheme = "https" THEN "ok" ELSE l.side.tls
           s == [l.side EXCEPT !.tls = t, !.tcp = "ok", !.http = c, !.hops = l.hop]
           a == Answered(l, c)
<1>1. l \in Climber /\ l.at = "walk"
  BY DEF Good
<1>2. l.side \in Side /\ l.url \in URL /\ l.hop \in Nat
  BY <1>1, Fields
<1>3. l.url.host \in Hosts
  BY <1>2 DEF URL, Hosts
<1>4. t \in TLS
  BY <1>2 DEF TLS, Side
<1>5. /\ s \in Side /\ s.resolve = l.side.resolve /\ s.tcp = "ok" /\ s.http = c
      /\ s.terminal = l.side.terminal /\ s.hops = l.hop /\ s.tls = t
  BY <1>2, <1>4 DEF Side, TCP
<1>6. a = [l EXCEPT !.side = s, !.last = l.url.host]
  BY <1>1, <1>2 DEF Answered, Climber, Side
<1>7. /\ a \in Climber /\ a.side = s /\ a.last = l.url.host /\ a.secure = l.secure
      /\ a.fellBack = l.fellBack /\ a.url = l.url /\ a.hop = l.hop /\ a.cut = l.cut
  BY <1>1, <1>3, <1>5, <1>6 DEF Climber, Hosts
<1>8. /\ l.side.resolve = "ok" /\ l.side.terminal = "none"
      /\ l.secure = NoSide => t # "unattempted"
  BY <1>1 DEF Good, Walking
<1> QED BY <1>1, <1>3, <1>5, <1>7, <1>8

\* A step of a ladder leaves it in order.
LEMMA ClimbGood ==
  ASSUME NEW n \in Names, Climb(n), TypeOK, Good(ladder[n])
  PROVE  \E m : /\ Good(m) /\ ladder[n].at # "done" /\ m.cut = ladder[n].cut
                /\ ladder' = [ladder EXCEPT ![n] = [m EXCEPT !.cut = @ \/ cancelled]]
                /\ UNCHANGED <<caller, cancelled, rec>>
<1> DEFINE l == ladder[n]
<1>l. l \in Climber /\ Good(l)
  BY DEF TypeOK
<1>f. /\ l.side \in Side /\ l.secure \in Side /\ l.url \in URL /\ l.hop \in 0 .. MaxHops
      /\ l.hop \in Nat /\ MaxHops \in Nat
  BY <1>l, Fields, MaxHopsAssumption
<1>1. CASE LookupName(n)
  <2>1. PICK s \in Resolve \ {"unattempted"} :
           Step(n, [l EXCEPT !.side.resolve = s,
                             !.at = IF s = "ok" THEN "walk" ELSE "done"])
    BY <1>1 DEF LookupName
  <2> DEFINE i == [l.side EXCEPT !.resolve = s]
             m == [l EXCEPT !.side = i,
                            !.at = IF s = "ok" THEN "walk" ELSE "done"]
  <2>3. l.side = NoSide /\ l.secure = NoSide /\ l.hop = 0 /\ l.url.scheme = "https"
        /\ l.at = "lookup"
    BY <1>1, <1>l DEF LookupName, Good
  <2>4. i \in Side /\ i = [NoSide EXCEPT !.resolve = s]
    BY <2>3, NoSideIsSide DEF Side
  <2>5. /\ i.resolve = s /\ i.http = "none" /\ i.tls = "unattempted"
        /\ i.tcp = "unattempted" /\ i.terminal = "none" /\ i.hops = 0
    BY <2>4 DEF NoSide
  <2>6. ladder' = [ladder EXCEPT ![n] = [m EXCEPT !.cut = @ \/ cancelled]]
        /\ UNCHANGED <<caller, cancelled, rec>>
    BY <1>l, <1>f, <2>1 DEF Step, Climber, Side
  <2> HIDE DEF i
  <2>7. /\ m \in Climber /\ m.side = i /\ m.secure = NoSide /\ m.hop = 0
        /\ m.url = l.url /\ m.at = IF s = "ok" THEN "walk" ELSE "done"
        /\ m.fellBack = l.fellBack /\ m.cut = l.cut
    BY <1>l, <2>3, <2>4 DEF Climber
  <2>8. ~l.fellBack
    BY <1>l, <2>3 DEF Good
  <2> HIDE DEF m
  <2>9. CASE s = "ok"
    <3>1. Walking(m)
      BY <1>f, <2>3, <2>4, <2>5, <2>7, <2>9 DEF Walking
    <3> QED BY <2>3, <2>6, <2>7, <2>8, <2>9, <3>1 DEF Good
  <2>10. CASE s # "ok"
    <3>1. Whole(m.side)
      BY <1>f, <2>1, <2>5, <2>7, <2>10 DEF Whole, Climbed, Half
    <3> QED BY <2>3, <2>6, <2>7, <2>8, <2>10, <3>1 DEF Good
  <2> QED BY <2>9, <2>10
<1>2. CASE RequestFails(n)
  <2>1. l.at = "walk"
    BY <1>2 DEF RequestFails
  <2>2. Walking(l) /\ ~l.fellBack /\ (l.secure # NoSide => Failed(l.secure))
    BY <1>l, <2>1 DEF Good
  <2>3. CASE l.hop = 0
    <3>1. PICK e \in TransportErrors(l.url.scheme) :
             Step(n, [l EXCEPT !.at = "rest",
                        !.side = ClassifyTransportErr(l.side, e, l.url.scheme = "https")])
      BY <1>2, <1>l, <2>3 DEF RequestFails
    <3> DEFINE k == ClassifyTransportErr(l.side, e, l.url.scheme = "https")
               m == [l EXCEPT !.at = "rest", !.side = k]
    <3>2. /\ k \in Side /\ k.resolve = "ok" /\ k.http = "none"
          /\ k.terminal = "none" /\ k.hops = 0 /\ k.tls # "ok"
          /\ k.tcp # "unattempted"
          /\ l.secure = NoSide /\ k.tcp = "ok" => k.tls # "unattempted"
          /\ k.tls # "unattempted" => k.tcp = "ok"
      <4> DEFINE b == l.url.scheme = "https"
      <4>1. l.side = [NoSide EXCEPT !.resolve = "ok"] /\ (l.secure = NoSide => b)
        BY <2>1, <2>2, <2>3 DEF Walking
      <4>2. b \in BOOLEAN
        OBVIOUS
      <4>3. k = ClassifyTransportErr(l.side, e, b)
        OBVIOUS
      <4> HIDE DEF b, k
      <4> QED BY <1>f, <3>1, <4>1, <4>2, <4>3, Classified
    <3> HIDE DEF k
    <3>4. /\ m \in Climber /\ m.at = "rest" /\ m.side = k /\ m.secure = l.secure
          /\ m.fellBack = l.fellBack /\ m.cut = l.cut
      BY <1>l, <3>2 DEF Climber
    <3>5. ladder' = [ladder EXCEPT ![n] = [m EXCEPT !.cut = @ \/ cancelled]]
          /\ UNCHANGED <<caller, cancelled, rec>>
      BY <3>1 DEF Step, k
    <3> HIDE DEF m
    <3>6. Good(m)
      BY <1>f, <2>2, <3>2, <3>4 DEF Good, Walking
    <3> QED BY <2>1, <3>4, <3>5, <3>6
  <2>4. CASE l.hop # 0
    <3> DEFINE m == [l EXCEPT !.at = "rest"]
    <3>1. Step(n, m)
      BY <1>2, <1>l, <2>4 DEF RequestFails
    <3>2. /\ m \in Climber /\ m.at = "rest" /\ m.side = l.side /\ m.secure = l.secure
          /\ m.fellBack = l.fellBack /\ m.cut = l.cut /\ m.last = l.last
      BY <1>l DEF Climber
    <3>3. ladder' = [ladder EXCEPT ![n] = [m EXCEPT !.cut = @ \/ cancelled]]
          /\ UNCHANGED <<caller, cancelled, rec>>
      BY <3>1 DEF Step
    <3> HIDE DEF m
    <3>4. Good(m)
      BY <2>1, <2>2, <2>4, <3>2 DEF Good, Walking
    <3> QED BY <2>1, <3>2, <3>3, <3>4
  <2> QED BY <2>3, <2>4
<1>3. CASE RequestEnds(n)
  <2>1. PICK c \in HTTP \ {"none"} : Step(n, [Answered(l, c) EXCEPT !.at = "rest"])
    BY <1>3 DEF RequestEnds
  <2>2. l.at = "walk"
    BY <1>3 DEF RequestEnds
  <2> DEFINE a == Answered(l, c)
             m == [a EXCEPT !.at = "rest"]
  <2>3. /\ a \in Climber /\ a.secure = l.secure /\ a.fellBack = l.fellBack
        /\ a.cut = l.cut /\ a.url = l.url /\ a.hop = l.hop /\ a.last \in Hosts
        /\ a.side.resolve = "ok" /\ a.side.tcp = "ok" /\ a.side.http = c
        /\ a.side.terminal = "none" /\ a.side.hops = l.hop
        /\ l.secure = NoSide => a.side.tls # "unattempted"
    BY <1>l, <2>2, AnsweredFields
  <2> HIDE DEF a
  <2>4. /\ m \in Climber /\ m.at = "rest" /\ m.side = a.side /\ m.secure = l.secure
        /\ m.fellBack = l.fellBack /\ m.cut = l.cut /\ m.last = a.last
    BY <2>3 DEF Climber
  <2>5. ladder' = [ladder EXCEPT ![n] = [m EXCEPT !.cut = @ \/ cancelled]]
        /\ UNCHANGED <<caller, cancelled, rec>>
    BY <2>1 DEF Step, a
  <2> HIDE DEF m
  <2>6. Good(m)
    BY <1>l, <1>f, <2>2, <2>3, <2>4 DEF Good, Walking
  <2> QED BY <2>2, <2>3, <2>4, <2>5, <2>6
<1>4. CASE RequestRedirects(n)
  <2>1. PICK t \in Targets \ {l.url} :
           Step(n, IF l.hop < MaxHops
                   THEN [Answered(l, "redirect") EXCEPT !.url = t, !.hop = l.hop + 1]
                   ELSE [Answered(l, "redirect") EXCEPT !.at = "rest"])
    <3>1. Answered(l, "redirect").hop = l.hop
      BY <1>l DEF Answered, Climber
    <3> QED BY <1>4, <3>1 DEF RequestRedirects
  <2>2. l.at = "walk"
    BY <1>4 DEF RequestRedirects
  <2> DEFINE a == Answered(l, "redirect")
  <2>3. /\ a \in Climber /\ a.secure = l.secure /\ a.fellBack = l.fellBack
        /\ a.cut = l.cut /\ a.url = l.url /\ a.hop = l.hop /\ a.last \in Hosts
        /\ a.side.resolve = "ok" /\ a.side.tcp = "ok" /\ a.side.http = "redirect"
        /\ a.side.terminal = "none" /\ a.side.hops = l.hop
        /\ l.secure = NoSide => a.side.tls # "unattempted"
    <3>1. "redirect" \in HTTP \ {"none"}
      BY DEF HTTP
    <3> QED BY <1>l, <2>2, <3>1, AnsweredFields
  <2>4. a.at = "walk"
    BY <1>l, <2>2 DEF Answered, Climber
  <2> HIDE DEF a
  <2>5. CASE l.hop < MaxHops
    <3> DEFINE m == [a EXCEPT !.url = t, !.hop = l.hop + 1]
    <3>1. t \in URL /\ l.hop + 1 \in 0 .. MaxHops /\ l.hop + 1 # 0
      BY <1>l, <1>f, <2>5, TargetsAssumption
    <3>2. /\ m \in Climber /\ m.at = "walk" /\ m.side = a.side /\ m.secure = l.secure
          /\ m.fellBack = l.fellBack /\ m.cut = l.cut /\ m.last = a.last /\ m.hop = l.hop + 1
      BY <2>3, <2>4, <3>1 DEF Climber
    <3>3. ladder' = [ladder EXCEPT ![n] = [m EXCEPT !.cut = @ \/ cancelled]]
          /\ UNCHANGED <<caller, cancelled, rec>>
      BY <2>1, <2>5 DEF Step, a
    <3> HIDE DEF m
    <3>4. Good(m)
      BY <1>l, <1>f, <2>2, <2>3, <3>1, <3>2 DEF Good, Walking
    <3> QED BY <2>2, <2>3, <3>2, <3>3, <3>4
  <2>6. CASE ~(l.hop < MaxHops)
    <3> DEFINE m == [a EXCEPT !.at = "rest"]
    <3>1. /\ m \in Climber /\ m.at = "rest" /\ m.side = a.side /\ m.secure = l.secure
          /\ m.fellBack = l.fellBack /\ m.cut = l.cut /\ m.last = a.last
      BY <2>3 DEF Climber
    <3>2. ladder' = [ladder EXCEPT ![n] = [m EXCEPT !.cut = @ \/ cancelled]]
          /\ UNCHANGED <<caller, cancelled, rec>>
      BY <2>1, <2>6 DEF Step, a
    <3> HIDE DEF m
    <3>3. Good(m)
      BY <1>l, <1>f, <2>2, <2>3, <3>1 DEF Good, Walking
    <3> QED BY <2>2, <2>3, <3>1, <3>2, <3>3
  <2> QED BY <2>5, <2>6
<1>5. CASE FallBack(n)
  <2> DEFINE i == [NoSide EXCEPT !.resolve = l.side.resolve]
             u == Start("http", n)
             m == [l EXCEPT !.at = "walk", !.secure = l.side, !.url = u, !.hop = 0,
                            !.side = i]
  <2>1. /\ l.at = "rest" /\ l.secure = NoSide /\ l.side.http = "none"
        /\ IsTLSFailure(l.side.tls) /\ Step(n, m)
    BY <1>5 DEF FallBack
  <2>2. Walking(l) /\ ~l.fellBack
    BY <1>l, <2>1 DEF Good
  <2>3. /\ i \in Side /\ i = [NoSide EXCEPT !.resolve = "ok"] /\ u \in URL
        /\ 0 \in 0 .. MaxHops
    BY <1>f, <2>2, NoSideIsSide DEF Walking, Side, Resolve, Start, URL, Names
  <2>4. /\ i.resolve = "ok" /\ i.http = "none" /\ i.tls = "unattempted"
        /\ i.tcp = "unattempted" /\ i.terminal = "none" /\ i.hops = 0
    BY <2>3 DEF NoSide
  <2>5. ladder' = [ladder EXCEPT ![n] = [m EXCEPT !.cut = @ \/ cancelled]]
        /\ UNCHANGED <<caller, cancelled, rec>>
    BY <2>1 DEF Step
  <2> HIDE DEF i, u
  <2>6. /\ m \in Climber /\ m.at = "walk" /\ m.side = i /\ m.secure = l.side
        /\ m.hop = 0 /\ m.fellBack = l.fellBack /\ m.cut = l.cut
    BY <1>l, <1>f, <2>3 DEF Climber
  <2> HIDE DEF m
  <2>7. l.side # NoSide /\ Failed(l.side)
    BY <2>1, <2>2 DEF Walking, Failed, IsTLSFailure, NoSide
  <2>8. Good(m)
    BY <1>f, <2>2, <2>3, <2>4, <2>6, <2>7 DEF Good, Walking
  <2> QED BY <2>1, <2>5, <2>6, <2>8
<1>6. CASE Rest(n)
  <2> DEFINE fell == l.secure # NoSide
             t == Terminated(l, n)
             i == IF fell /\ l.side.http # "none" THEN [t EXCEPT !.tls = l.secure.tls]
                  ELSE IF fell THEN l.secure ELSE t
             f == IF fell /\ l.side.http # "none" THEN TRUE ELSE l.fellBack
             m == [l EXCEPT !.at = "done", !.fellBack = f, !.side = i]
  <2>1. /\ l.at = "rest"
        /\ Step(n, IF fell /\ l.side.http # "none"
                   THEN [l EXCEPT !.at = "done", !.fellBack = TRUE,
                                  !.side = [t EXCEPT !.tls = l.secure.tls]]
                   ELSE [l EXCEPT !.at = "done", !.side = IF fell THEN l.secure ELSE t])
    BY <1>6 DEF Rest
  <2>2. Walking(l) /\ ~l.fellBack /\ l.fellBack \in BOOLEAN /\ (fell => Failed(l.secure))
    BY <1>l, <2>1 DEF Good, Climber
  <2>3. Step(n, m)
    <3>1. CASE fell /\ l.side.http # "none"
      BY <2>1, <3>1
    <3>2. CASE ~(fell /\ l.side.http # "none")
      <4>1. m = [l EXCEPT !.at = "done", !.side = i]
        BY <1>l, <3>2 DEF Climber
      <4>2. i = IF fell THEN l.secure ELSE t
        BY <3>2
      <4> HIDE DEF m, i
      <4> QED BY <2>1, <3>2, <4>1, <4>2
    <3> QED BY <3>1, <3>2
  <2> DEFINE v == IF l.side.http = "none" THEN "none" ELSE ClassifyTerminal(l.last, n)
  <2>4. v \in Terminal /\ (v = "none" <=> l.side.http = "none")
    BY <2>2 DEF Walking, Hosts, ClassifyTerminal, Terminal, Names
  <2> HIDE DEF v
  <2>5. t = [l.side EXCEPT !.terminal = v]
    BY DEF Terminated, v
  <2>6. /\ t \in Side /\ t.resolve = l.side.resolve /\ t.tcp = l.side.tcp
        /\ t.tls = l.side.tls /\ t.http = l.side.http /\ t.hops = l.side.hops
        /\ t.terminal = v
    BY <1>f, <2>4, <2>5 DEF Side
  <2> HIDE DEF t
  <2>7. i \in Side /\ Whole(i) /\ (f => IsTLSFailure(i.tls)) /\ f \in BOOLEAN
    <3>1. CASE fell /\ l.side.http # "none"
      <4>1. l.secure.tls \in TLS /\ i = [t EXCEPT !.tls = l.secure.tls]
        BY <1>f, <3>1 DEF Side
      <4>2. /\ i \in Side /\ i.resolve = t.resolve /\ i.tcp = t.tcp /\ i.http = t.http
            /\ i.hops = t.hops /\ i.terminal = t.terminal /\ i.tls = l.secure.tls
        BY <2>6, <4>1 DEF Side
      <4> HIDE DEF i
      <4> QED BY <2>2, <2>4, <2>6, <3>1, <4>2
              DEF Whole, Climbed, Half, Walking, Failed, IsTLSFailure
    <3>2. CASE fell /\ l.side.http = "none"
      BY <1>f, <2>2, <3>2 DEF Whole, Climbed, Half, Failed, IsTLSFailure
    <3>3. CASE ~fell
      <4>1. i = t /\ f = l.fellBack
        BY <3>3
      <4> HIDE DEF i
      <4> QED BY <2>1, <2>2, <2>4, <2>6, <3>3, <4>1 DEF Whole, Climbed, Half, Walking
    <3> QED BY <3>1, <3>2, <3>3
  <2>8. ladder' = [ladder EXCEPT ![n] = [m EXCEPT !.cut = @ \/ cancelled]]
        /\ UNCHANGED <<caller, cancelled, rec>>
    BY <2>3 DEF Step
  <2> HIDE DEF i, f
  <2>9. m \in Climber /\ m.at = "done" /\ m.side = i /\ m.fellBack = f /\ m.cut = l.cut
    BY <1>l, <2>7 DEF Climber
  <2> HIDE DEF m
  <2>10. Good(m)
    BY <2>7, <2>9 DEF Good
  <2> QED BY <2>1, <2>8, <2>9, <2>10
<1> QED BY <1>1, <1>2, <1>3, <1>4, <1>5, <1>6 DEF Climb

-----------------------------------------------------------------------------
(* The invariant.                                                          *)

LEMMA InvInit == Init => IInv
<1> SUFFICES ASSUME Init PROVE IInv
  OBVIOUS
<1>1. ASSUME NEW n \in Names PROVE Good(ladder[n])
  <2> DEFINE l == ladder[n]
  <2>1. /\ l.at = "lookup" /\ l.side = NoSide /\ l.secure = NoSide
        /\ l.url = Start("https", n) /\ l.hop = 0 /\ l.last = "" /\ ~l.fellBack
    BY DEF Init
  <2>2. Start("https", n) \in URL /\ Start("https", n).scheme = "https"
    BY DEF Start, URL, Names
  <2>3. 0 \in 0 .. MaxHops
    BY MaxHopsAssumption
  <2>4. l \in Climber
    BY <2>2, <2>3, NoSideIsSide DEF Init, Climber
  <2> HIDE DEF l
  <2> QED BY <2>1, <2>2, <2>4 DEF Good, l
<1>2. ladder \in [Names -> Climber]
  BY <1>1 DEF Init, Good
<1>3. rec \in Record
  BY NoSideIsSide DEF Init, Record, Status, Canonical, Delegation
<1>4. caller = "join" /\ cancelled = FALSE
  BY DEF Init
<1>5. Uncut
  BY DEF Init, Uncut
<1> QED BY <1>1, <1>2, <1>3, <1>4, <1>5 DEF IInv, TypeOK, Joined

LEMMA CanonicalType ==
  ASSUME NEW a, NEW w, NEW s, NEW t
  PROVE  ClassifyCanonical(a, w, s, t) \in Canonical
  BY DEF ClassifyCanonical, Canonical

LEMMA InvStep == IInv /\ [Next]_vars => IInv'
<1> SUFFICES ASSUME IInv, [Next]_vars PROVE IInv'
  OBVIOUS
<1>t. TypeOK /\ (\A n \in Names : Good(ladder[n])) /\ Joined /\ Uncut
  BY DEF IInv
<1>1. ASSUME NEW n \in Names, Climb(n) PROVE IInv'
  <2>1. PICK m : /\ Good(m) /\ ladder[n].at # "done" /\ m.cut = ladder[n].cut
                 /\ ladder' = [ladder EXCEPT ![n] = [m EXCEPT !.cut = @ \/ cancelled]]
                 /\ UNCHANGED <<caller, cancelled, rec>>
    BY <1>t, <1>1, ClimbGood
  <2> DEFINE k == [m EXCEPT !.cut = @ \/ cancelled]
  <2>2. Good(k) /\ k \in Climber
    <3>1. cancelled \in BOOLEAN
      BY <1>t DEF TypeOK
    <3> QED BY <2>1, <3>1, CutKeepsGood DEF Good
  <2> HIDE DEF k
  <2>3. ladder' = [ladder EXCEPT ![n] = k]
    BY <2>1 DEF k
  <2>4. TypeOK'
    BY <1>t, <2>1, <2>2, <2>3 DEF TypeOK
  <2>5. \A p \in Names : Good(ladder'[p])
    BY <1>t, <2>2, <2>3 DEF TypeOK
  <2>6. caller = "join"
    BY <1>t, <2>1 DEF Joined
  <2>7. Joined'
    BY <2>1, <2>6 DEF Joined
  <2>8. Uncut'
    <3>1. k.cut = (m.cut \/ cancelled)
      BY <2>1 DEF k, Good, Climber
    <3>2. \A p \in Names : ladder'[p].cut => cancelled
      BY <1>t, <2>1, <2>3, <3>1 DEF TypeOK, Uncut
    <3> QED BY <1>t, <2>1, <3>2 DEF Uncut
  <2> QED BY <2>4, <2>5, <2>7, <2>8 DEF IInv
<1>2. CASE Join
  <2>1. PICK d \in Delegation :
           rec' = [rec EXCEPT !.apex = ladder["apex"].side, !.www = ladder["www"].side,
                              !.delegation = d]
    BY <1>2 DEF Join, Delegation
  <2>2. /\ caller = "join" /\ caller' = "wildcard" /\ UNCHANGED <<ladder, cancelled>>
        /\ \A n \in Names : ladder[n].at = "done"
    BY <1>2 DEF Join
  <2>3. ladder["apex"].side \in Side /\ ladder["www"].side \in Side
    BY <1>t, Fields DEF TypeOK, Names
  <2>4. /\ rec' \in Record /\ rec'.apex = ladder["apex"].side
        /\ rec'.www = ladder["www"].side /\ rec'.status = rec.status
    BY <1>t, <2>1, <2>3 DEF TypeOK, Record
  <2>5. TypeOK' /\ Joined' /\ (\A n \in Names : Good(ladder'[n]))
    BY <1>t, <2>2, <2>4 DEF TypeOK, Joined
  <2>6. Uncut'
    BY <1>t, <2>2, <2>4 DEF Uncut
  <2> QED BY <2>5, <2>6 DEF IInv
<1>3. CASE CheckWildcard
  <2>1. PICK w \in {"unchecked", "absent", "present"} : rec' = [rec EXCEPT !.wildcard = w]
    BY <1>3 DEF CheckWildcard
  <2>2. caller = "wildcard" /\ caller' = "finish" /\ UNCHANGED <<ladder, cancelled>>
    BY <1>3 DEF CheckWildcard
  <2>3. /\ rec' \in Record /\ rec'.apex = rec.apex /\ rec'.www = rec.www
        /\ rec'.status = rec.status
    BY <1>t, <2>1 DEF TypeOK, Record
  <2>4. TypeOK' /\ Joined' /\ (\A n \in Names : Good(ladder'[n]))
    BY <1>t, <2>2, <2>3 DEF TypeOK, Joined
  <2>5. Uncut'
    BY <1>t, <2>2, <2>3 DEF Uncut
  <2> QED BY <2>4, <2>5 DEF IInv
<1>4. CASE Finish
  <2> DEFINE c == ClassifyCanonical(rec.apex, rec.www, ladder["apex"].last,
                                    ladder["www"].last)
             s == IF cancelled THEN "aborted" ELSE "complete"
  <2>1. /\ rec' = [rec EXCEPT !.canonical = c, !.status = s]
        /\ caller = "finish" /\ caller' = "done" /\ UNCHANGED <<ladder, cancelled>>
    BY <1>4 DEF Finish
  <2>2. c \in Canonical /\ s \in Status
    BY CanonicalType DEF Status
  <2> HIDE DEF c
  <2>3. /\ rec' \in Record /\ rec'.apex = rec.apex /\ rec'.www = rec.www
        /\ rec'.status = s
    BY <1>t, <2>1, <2>2 DEF TypeOK, Record
  <2>4. TypeOK' /\ Joined' /\ (\A n \in Names : Good(ladder'[n]))
    BY <1>t, <2>1, <2>3 DEF TypeOK, Joined
  <2>5. Uncut'
    BY <1>t, <2>1, <2>3 DEF Uncut
  <2> QED BY <2>4, <2>5 DEF IInv
<1>5. CASE Cancel
  BY <1>t, <1>5 DEF Cancel, IInv, TypeOK, Joined, Uncut
<1>6. CASE UNCHANGED vars
  BY <1>t, <1>6 DEF vars, IInv, TypeOK, Joined, Uncut
<1> QED BY <1>1, <1>2, <1>3, <1>4, <1>5, <1>6 DEF Next, Done

LEMMA Invariant == Spec => []IInv
  BY InvInit, InvStep, PTL DEF Spec

-----------------------------------------------------------------------------
(* The theorems.                                                           *)

\* Whatever the network answers, a probe stays within its types: no chain of
\* redirects is longer than configured.
THEOREM TypeCorrect == Spec => []TypeOK
<1>1. IInv => TypeOK
  BY DEF IInv
<1> QED BY <1>1, Invariant, PTL

\* However long the chains and however they end, the rungs of the record
\* support each other.
THEOREM RungsSupportEachOther == Spec => []LadderIsClimbed
<1>1. IInv => LadderIsClimbed
  <2> SUFFICES ASSUME IInv, Returned PROVE LadderIsClimbed
    BY DEF LadderIsClimbed
  <2>1. \A s \in Sides(rec) : Whole(s)
    BY DEF IInv, Joined, Returned, Good, Sides, Names
  <2> QED BY <2>1 DEF LadderIsClimbed, Whole
<1> QED BY <1>1, Invariant, PTL

\* A plaintext answer never counts as support.
THEOREM PlaintextIsNoSupport == Spec => []FallbackKeepsReason
<1>1. IInv => FallbackKeepsReason
  <2> SUFFICES ASSUME IInv, Returned, NEW n \in Names, ladder[n].fellBack
               PROVE  /\ IsTLSFailure(rec[n].tls)
                      /\ n = "www" => ~WWWSupported(rec)
                      /\ n = "apex" => ~ApexServes(rec)
    BY DEF FallbackKeepsReason
  <2>1. rec[n] = ladder[n].side /\ IsTLSFailure(ladder[n].side.tls)
    BY DEF IInv, TypeOK, Record, Joined, Returned, Good, Names
  <2> QED BY <2>1 DEF IsTLSFailure, WWWSupported, ApexServes
<1> QED BY <1>1, Invariant, PTL

\* No record that is marked complete was touched by a cancellation.
THEOREM CancellationIsRecorded == Spec => []CompleteIsUncut
<1>1. IInv => CompleteIsUncut
  BY DEF IInv, Uncut, CompleteIsUncut
<1> QED BY <1>1, Invariant, PTL

\* Whatever was redirected where, a census can name why a broken domain is.
THEOREM BrokenHasReason == Spec => []BrokenIsExplained
<1>1. IInv => BrokenIsExplained
  <2> SUFFICES ASSUME IInv, Returned, Bucket(rec) = "broken" PROVE BrokenIsExplained
    BY DEF BrokenIsExplained
  <2> DEFINE w == rec.www
  <2>1. Conclusive(rec) /\ ~WWWSupported(rec)
    BY DEF Bucket
  <2>2. rec.status = "complete" /\ SideConclusive(w)
    BY <2>1 DEF Conclusive, Sides
  <2>3. Whole(w) /\ w \in Side
    BY DEF IInv, TypeOK, Record, Joined, Returned, Good, Names
  <2> HIDE DEF w
  <2>4. /\ w.resolve \in Resolve /\ w.tcp \in TCP /\ w.tls \in TLS /\ w.http \in HTTP
    BY <2>3 DEF Side
  <2>5. w.resolve \in {"ok", "nxdomain", "nodata"}
    BY <2>2, <2>3, <2>4 DEF SideConclusive, Whole, Climbed, Half, Resolve
  <2>6. w.resolve = "ok" => w.tcp \in {"ok", "refused", "unreachable"}
    BY <2>2, <2>3, <2>4 DEF SideConclusive, Whole, Climbed, Half, TCP
  <2>7. w.tcp = "ok" => w.tls \in {"ok", "name-mismatch", "expired", "unknown-authority",
                                   "handshake-fail", "error"}
    BY <2>2, <2>3, <2>4 DEF SideConclusive, Whole, Climbed, Half, TLS
  <2>8. w.resolve = "ok" /\ w.tls = "ok" => w.http \in {"informational", "error"}
    BY <2>1, <2>2, <2>3, <2>4 DEF WWWSupported, ServesOK, Whole, Climbed, Half, HTTP, w
  <2>9. BrokenReason(rec) =
          CASE w.resolve = "nxdomain" -> "no dns record at all (nxdomain)"
            [] w.resolve = "nodata"   -> "name exists, no address record"
            [] w.resolve = "ok" ->
                 IF w.tcp = "refused" THEN "resolves, nothing listening"
                 ELSE IF w.tcp # "ok" THEN "tcp " \o w.tcp
                 ELSE IF w.tls = "name-mismatch" THEN "cert has no SAN for www"
                 ELSE IF w.tls = "expired" THEN "cert expired"
                 ELSE IF w.tls # "ok" THEN "tls " \o w.tls
                 ELSE IF w.http = "error" THEN "serves, returns an error"
                 ELSE "unclassified"
    BY <2>5, <2>6 DEF BrokenReason, w
  <2>10. CASE w.resolve # "ok"
    BY <2>5, <2>9, <2>10 DEF BrokenIsExplained
  <2>11. CASE w.resolve = "ok" /\ w.tcp # "ok"
    BY <2>6, <2>9, <2>11 DEF BrokenIsExplained
  <2>12. CASE w.resolve = "ok" /\ w.tcp = "ok" /\ w.tls # "ok"
    BY <2>7, <2>9, <2>12 DEF BrokenIsExplained
  <2>13. CASE w.resolve = "ok" /\ w.tcp = "ok" /\ w.tls = "ok"
    BY <2>8, <2>9, <2>13 DEF BrokenIsExplained, w
  <2> QED BY <2>10, <2>11, <2>12, <2>13
<1> QED BY <1>1, Invariant, PTL

\* The cohorts split the serving domains, for any record whatever.
LEMMA Cohorts ==
  ASSUME NEW r
  PROVE  LET in == {f \in {"broken", "working", "stalled"} : RecheckMatches(f, r)}
         IN  /\ \A f, g \in in : f = g
             /\ RecheckMatches("serving", r) => in # {}
             /\ RecheckMatches("broken", r) <=> Bucket(r) = "broken"
             /\ RecheckMatches("broken", r) <=>
                   CSVBroken(r) /\ Conclusive(r) /\ r.apex.tls = "ok"
<1> DEFINE in == {f \in {"broken", "working", "stalled"} : RecheckMatches(f, r)}
<1>1. /\ RecheckMatches("broken", r) <=>
            r.status # "unattempted" /\ Conclusive(r) /\ ApexServes(r) /\ ~WWWSupported(r)
      /\ RecheckMatches("working", r) <=>
            r.status # "unattempted" /\ Conclusive(r) /\ ApexServes(r) /\ WWWSupported(r)
      /\ RecheckMatches("stalled", r) <=> r.status # "unattempted" /\ ~Conclusive(r)
      /\ RecheckMatches("serving", r) <=> r.status # "unattempted" /\ ApexServes(r)
  BY DEF RecheckMatches
<1>2. \A f, g \in in : f = g
  BY <1>1
<1>3. RecheckMatches("serving", r) => in # {}
  BY <1>1
<1>4. RecheckMatches("broken", r) <=> Bucket(r) = "broken"
  BY <1>1 DEF Bucket
<1>5. RecheckMatches("broken", r) <=>
        CSVBroken(r) /\ Conclusive(r) /\ r.apex.tls = "ok"
  BY <1>1 DEF CSVBroken, ApexServes
<1> QED BY <1>2, <1>3, <1>4, <1>5

THEOREM CohortsSplit == Spec => []CohortsPartition
<1>1. CohortsPartition
  BY Cohorts DEF CohortsPartition
<1> QED BY <1>1, PTL

\* The terminals decide: a winner needs one host, and www wins only if it stayed.
LEMMA CanonicalRule ==
  ASSUME NEW a, NEW w, w.hops \in Nat, ServesOK(a), ServesOK(w), NEW s, NEW t
  PROVE  LET stayed == t = "www" /\ w.hops = 0
         IN  /\ ClassifyCanonical(a, w, s, t) = "apex-to-www" <=> s = t /\ stayed
             /\ ClassifyCanonical(a, w, s, t) = "www-to-apex" <=> s = t /\ ~stayed
  BY DEF ClassifyCanonical

\* A winner is declared exactly when both names come to rest on one host, and
\* it is www exactly when www stayed there.
THEOREM WinnerIsShared == Spec => []OneHostOneWinner
<1> DEFINE Decided ==
      Returned => rec.canonical = ClassifyCanonical(rec.apex, rec.www, ladder["apex"].last,
                                                    ladder["www"].last)
<1>1. Init => Decided
  BY DEF Init, Returned
<1>2. IInv /\ Decided /\ [Next]_vars => Decided'
  <2> SUFFICES ASSUME IInv, Decided, [Next]_vars, Returned' PROVE Decided'
    OBVIOUS
  <2>1. CASE Returned /\ UNCHANGED <<ladder, rec>>
    BY <2>1
  <2>2. CASE Finish
    <3> DEFINE c == ClassifyCanonical(rec.apex, rec.www, ladder["apex"].last,
                                      ladder["www"].last)
               s == IF cancelled THEN "aborted" ELSE "complete"
    <3>1. rec' = [rec EXCEPT !.canonical = c, !.status = s] /\ UNCHANGED ladder
      BY <2>2 DEF Finish
    <3> HIDE DEF c
    <3>2. rec'.canonical = c /\ rec'.apex = rec.apex /\ rec'.www = rec.www
      BY <3>1 DEF IInv, TypeOK, Record
    <3> QED BY <3>1, <3>2 DEF c
  <2>3. ASSUME NEW n \in Names, Climb(n) PROVE FALSE
    <3>1. ladder[n].at # "done" /\ UNCHANGED caller
      BY <2>3, ClimbGood DEF IInv
    <3> QED BY <3>1 DEF IInv, Joined, Returned
  <2>4. ASSUME Join \/ CheckWildcard PROVE FALSE
    BY <2>4 DEF Join, CheckWildcard, Returned
  <2>5. ASSUME Cancel \/ Done \/ UNCHANGED vars PROVE Returned /\ UNCHANGED <<ladder, rec>>
    BY <2>5 DEF Cancel, Done, vars, Returned
  <2> QED BY <2>1, <2>2, <2>3, <2>4, <2>5 DEF Next
<1>3. IInv /\ Decided => OneHostOneWinner
  <2>1. IInv => rec.www.hops \in Nat
    BY DEF IInv, TypeOK, Record, Side
  <2> QED BY <2>1, CanonicalRule DEF OneHostOneWinner
<1> QED BY Invariant, <1>1, <1>2, <1>3, PTL DEF Spec

\* The two views of one decision agree, for any two sides whatever.
LEMMA StallIsConclusive == ASSUME NEW r PROVE (Stall(r) = "") <=> Conclusive(r)
<1>1. \A s : DNSStall(s) = "" <=> s.resolve \notin {"timeout", "error", "servfail", "refused"}
  BY DEF DNSStall
<1> QED BY <1>1 DEF Stall, Conclusive, SideConclusive, Sides

\* Stall and Conclusive never disagree, on a finished record or a half-built
\* one.
THEOREM TwoViewsAgree == Spec => []StallAgreesWithConclusive
<1>1. StallAgreesWithConclusive
  BY StallIsConclusive DEF StallAgreesWithConclusive
<1> QED BY <1>1, PTL
=============================================================================
