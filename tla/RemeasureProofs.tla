-------------------------- MODULE RemeasureProofs --------------------------
(***************************************************************************)
(* Proofs about Remeasure, for every size of the corpus, whatever changes  *)
(* between the two scans.                                                  *)
(***************************************************************************)
EXTENDS Remeasure, FiniteSetTheorems, FunctionTheorems, TLAPS

-----------------------------------------------------------------------------
(* The inductive invariant.                                                *)

\* Which loops run with which selection, and how far they can be.
Stages ==
    /\ at \in {"build", "choose"} =>
          select.by = "" /\ select.filter = "" /\ select.seen = 0 /\ select.idx = {}
    /\ at \in {"choose", "probe"} => i = 0
    /\ at = "match" => select.by = "recheck"
    /\ at = "draw" => select.by = "sample" /\ i >= N - select.k /\ select.k \in 1 .. N
    /\ select.by = "recheck" <=> select.filter # ""

\* The earlier file holds what probes made of sites.
Earlier ==
    /\ was \in [Positions -> Sites \cup {Blank}]
    /\ \A p \in Positions :
          prev[p] = Blank \/ (was[p] \in Sites /\ prev[p] \in Outcomes[was[p]])

Matches == {p \in Positions : RecheckMatches(select.filter, prev[p])}

\* While a recheck goes through the file it knows how many matches it met.
Seen ==
    at = "match" => select.seen = Cardinality({q \in Matches : q < i})

\* How many positions have been drawn, and from where.
FarEnough ==
    at = "draw" => /\ select.idx \in SUBSET (0 .. i - 1)
                   /\ Cardinality(select.idx) = i - (N - select.k)

\* Only what was selected is fed, and only what was fed is probed.
Probed ==
    /\ todo \subseteq select.idx
    /\ \A p \in Positions :
          next[p] = Blank \/ /\ p \in select.idx
                             /\ site[p] \in Sites
                             /\ next[p] \in Outcomes[site[p]]

Compared == IF at = "diff" THEN 0 .. i - 1 ELSE IF at = "done" THEN Positions ELSE {}

Found == changes = {p \in Compared : Differs(prev[p], next[p])}

IInv ==
    TypeOK /\ Stages /\ Earlier /\ SummaryAddsUp /\ EveryNthMatch /\ Seen
    /\ FarEnough /\ SampleIsExact /\ Probed /\ Found

-----------------------------------------------------------------------------
(* Sets of positions.                                                      *)

LEMMA PositionsFinite == IsFiniteSet(Positions) /\ Cardinality(Positions) = N
<1>1. N \in Nat /\ 0 \in Int /\ N - 1 \in Int
  BY NAssumption
<1>2. IsFiniteSet(0 .. N - 1)
      /\ Cardinality(0 .. N - 1) = IF 0 > N - 1 THEN 0 ELSE (N - 1) - 0 + 1
  BY <1>1, FS_Interval
<1> QED BY <1>2, NAssumption DEF Positions

LEMMA Subset ==
  ASSUME NEW S \in SUBSET Positions
  PROVE  IsFiniteSet(S) /\ Cardinality(S) \in Nat /\ Cardinality(S) <= N
<1>1. IsFiniteSet(S) /\ Cardinality(S) <= N
  BY PositionsFinite, FS_Subset
<1> QED BY <1>1, FS_CardinalityType

\* One position more.
LEMMA OneMore ==
  ASSUME NEW S \in SUBSET Positions, NEW p \in Positions, p \notin S
  PROVE  Cardinality(S \cup {p}) = Cardinality(S) + 1
<1>1. IsFiniteSet(S)
  BY Subset
<1> QED BY <1>1, FS_AddElement

\* A loop that has gone one position further has looked at that one, too.
Upto(S, j) == {p \in S : p < j}

LEMMA Further ==
  ASSUME NEW S \in SUBSET Positions, NEW j \in Positions
  PROVE  /\ Cardinality(Upto(S, j)) \in Nat
         /\ Cardinality(Upto(S, j + 1)) =
               Cardinality(Upto(S, j)) + IF j \in S THEN 1 ELSE 0
<1> DEFINE A == Upto(S, j)
           B == Upto(S, j + 1)
<1>0. j \in Int /\ \A p \in S : p \in Int
  BY NAssumption DEF Positions
<1>1. A \in SUBSET Positions /\ j \notin A
  <2>1. A \subseteq S
    BY DEF Upto
  <2>2. ~(j < j)
    BY <1>0
  <2> QED BY <2>1, <2>2 DEF Upto
<1>2. B = IF j \in S THEN A \cup {j} ELSE A
  <2>1. \A p \in S : p < j + 1 <=> p < j \/ p = j
    BY <1>0
  <2> QED BY <2>1 DEF Upto
<1>3. Cardinality(A) \in Nat
  BY <1>1, Subset
<1>4. Cardinality(B) = Cardinality(A) + IF j \in S THEN 1 ELSE 0
  <2>1. CASE j \in S
    BY <2>1, <1>1, <1>2, OneMore
  <2>2. CASE j \notin S
    BY <2>2, <1>2, <1>3
  <2> QED BY <2>1, <2>2
<1> QED BY <1>3, <1>4

-----------------------------------------------------------------------------
(* Records.                                                                *)

LEMMA NoSideIsSide == NoSide \in Side
  BY DEF NoSide, Side, Resolve, TCP, TLS, HTTP, Terminal

LEMMA BlankRecord ==
  /\ Blank \in Record /\ Blank.status = "unattempted"
  /\ ~WWWSupported(Blank) /\ ~Conclusive(Blank)
<1>1. NoSide \in Side
  BY DEF NoSide, Side, Resolve, TCP, TLS, HTTP, Terminal
<1>2. Blank \in Record /\ Blank.status = "unattempted"
  BY <1>1 DEF Blank, Record, Status, Canonical, Delegation
<1> QED BY <1>2 DEF WWWSupported, Conclusive

\* What WWWSupported asks of the www side.
Supports(x) == x.resolve = "ok" /\ x.tls = "ok" /\ ServesOK(x)

LEMMA SupportedSide ==
  ASSUME NEW r
  PROVE  WWWSupported(r) <=> r.status = "complete" /\ Supports(r.www)
  BY DEF WWWSupported, Supports

\* Whatever is heard of a name is a whole side; it hides support only as a side
\* in doubt or without an address, and feigns it only as a redirect.
LEMMA HeardSide ==
  ASSUME NEW x, Whole(x), NEW y \in Heard(x)
  PROVE  /\ Whole(y)
         /\ Supports(x) /\ ~Supports(y) =>
               ~SideConclusive(y) \/ y.resolve \in {"nodata", "nxdomain"}
         /\ Supports(y) /\ ~Supports(x) => y.http = "redirect"
<1>1. /\ x \in Side /\ Climbed(x) /\ ~Half(x) /\ x.hops \in Nat
  BY DEF Whole, Side
<1>2. CASE y = x
  BY <1>2
<1>3. CASE y \in Stalled(x)
  <2>1. Whole(y) /\ ~SideConclusive(y)
    BY <1>3, StallsAssumption DEF Stalled
  <2>2. ~Supports(y)
    BY <2>1 DEF Whole, Climbed, SideConclusive, Supports
  <2> QED BY <2>1, <2>2
<1>4. CASE \E t \in {"nodata", "nxdomain"} : y = [NoSide EXCEPT !.resolve = t]
  <2>1. PICK t \in {"nodata", "nxdomain"} : y = [NoSide EXCEPT !.resolve = t]
    BY <1>4
  <2>2. /\ y \in Side /\ y.resolve = t /\ y.tcp = "unattempted"
        /\ y.tls = "unattempted" /\ y.http = "none"
    BY <2>1, NoSideIsSide DEF Side, Resolve, NoSide
  <2> QED BY <2>2 DEF Whole, Climbed, Half, Supports
<1>5. CASE /\ x.tls \notin {"unattempted", "ok"}
           /\ y = [x EXCEPT !.http = "none", !.terminal = "none", !.hops = 0]
  <2>1. "none" \in HTTP /\ "none" \in Terminal /\ 0 \in Nat
    BY DEF HTTP, Terminal
  <2>2. /\ y \in Side /\ y.resolve = x.resolve /\ y.tcp = x.tcp /\ y.tls = x.tls
        /\ y.http = "none"
    BY <1>1, <1>5, <2>1 DEF Side
  <2> QED BY <1>1, <1>5, <2>2 DEF Whole, Climbed, Half, Supports
<1>6. CASE /\ x.http # "none"
           /\ y \in [resolve : {x.resolve}, tcp : {x.tcp}, tls : {x.tls},
                     http : {"redirect"}, terminal : Terminal \ {"none"},
                     hops : 0 .. x.hops - 1]
  <2>1. y.hops \in Nat /\ y.terminal \in Terminal
    BY <1>1, <1>6
  <2>2. /\ "redirect" \in HTTP
        /\ y = [resolve |-> x.resolve, tcp |-> x.tcp, tls |-> x.tls,
                http |-> "redirect", terminal |-> y.terminal, hops |-> y.hops]
    BY <1>6 DEF HTTP
  <2>3. /\ y \in Side /\ y.resolve = x.resolve /\ y.tcp = x.tcp /\ y.tls = x.tls
        /\ y.http = "redirect"
    BY <1>1, <2>1, <2>2 DEF Side
  <2> QED BY <1>1, <1>6, <2>3 DEF Whole, Climbed, Half, Supports, ServesOK
<1>7. CASE y \in Misheard(x)
  <2> DEFINE A == {[NoSide EXCEPT !.resolve = t] : t \in {"nodata", "nxdomain"}}
             B == {[x EXCEPT !.http = "none", !.terminal = "none", !.hops = 0]}
             C == [resolve : {x.resolve}, tcp : {x.tcp}, tls : {x.tls},
                   http : {"redirect"}, terminal : Terminal \ {"none"},
                   hops : 0 .. x.hops - 1]
  <2>1. CASE y \in A
    BY <1>4, <2>1
  <2>2. CASE x.tls \notin {"unattempted", "ok"} /\ y \in B
    BY <1>5, <2>2
  <2>3. CASE x.http # "none" /\ y \in C
    BY <1>6, <2>3
  <2>4. \/ y \in A
        \/ x.tls \notin {"unattempted", "ok"} /\ y \in B
        \/ x.http # "none" /\ y \in C
    BY <1>7 DEF Misheard
  <2> QED BY <2>1, <2>2, <2>3, <2>4
<1> QED BY <1>2, <1>3, <1>7 DEF Heard

\* Whatever a probe returns of a site is a record of two whole sides.
LEMMA ReturnedRecord ==
  ASSUME NEW s \in Sites, NEW q \in Returned(s)
  PROVE  /\ q \in Record /\ q.status \in {"complete", "aborted"}
         /\ \A x \in Sides(q) : Whole(x)
         /\ q.www \in Heard(s.www)
<1>1. /\ s \in Record /\ s.status = "complete" /\ Whole(s.apex) /\ Whole(s.www)
  BY SitesAssumption DEF Sides, Conclusive
<1>2. s.www \in Heard(s.www)
  BY DEF Heard
<1>3. CASE q = s
  BY <1>1, <1>2, <1>3, SitesAssumption
<1>4. CASE q # s
  <2>1. /\ q \in [status : {"complete", "aborted"}, wildcard : {s.wildcard, "unchecked"},
                  canonical : Canonical,
                  delegation : {s.delegation} \cup
                      (IF s.delegation = "unchecked" THEN {} ELSE {"broken"}),
                  apex : Heard(s.apex), www : Heard(s.www)]
    BY <1>4 DEF Returned
  <2>2. /\ s.wildcard \in {"unchecked", "absent", "present"} /\ s.delegation \in Delegation
    BY <1>1 DEF Record
  <2>3. Whole(q.apex) /\ Whole(q.www)
    BY <1>1, <2>1, HeardSide
  <2>4. /\ q.status \in Status /\ q.wildcard \in {"unchecked", "absent", "present"}
        /\ q.canonical \in Canonical /\ q.delegation \in Delegation
        /\ q.apex \in Side /\ q.www \in Side
    BY <2>1, <2>2, <2>3 DEF Whole, Status, Delegation
  <2>5. q = [status |-> q.status, wildcard |-> q.wildcard, canonical |-> q.canonical,
             delegation |-> q.delegation, apex |-> q.apex, www |-> q.www]
    BY <2>1
  <2>6. q \in Record
    BY <2>4, <2>5 DEF Record
  <2> QED BY <2>1, <2>3, <2>6 DEF Sides
<1> QED BY <1>3, <1>4

\* A side whose store was cut short says nothing its record did not; and unless
\* it stops half way up, it says all that a judgement needs.
LEMMA BegunSide ==
  ASSUME NEW x, Whole(x), NEW k \in Int
  PROVE  LET y == Begun(x, k) IN
         /\ y \in Side
         /\ Supports(y) => Supports(x) /\ y.http = x.http
         /\ ~Half(y) => /\ y.resolve = x.resolve /\ y.tcp = x.tcp /\ y.tls = x.tls
                        /\ Supports(x) => Supports(y)
<1> DEFINE y == Begun(x, k)
<1>1. /\ x \in Side /\ Climbed(x) /\ ~Half(x)
  BY DEF Whole
<1>2. /\ x.resolve \in Resolve /\ x.tcp \in TCP /\ x.tls \in TLS /\ x.http \in HTTP
      /\ x.terminal \in Terminal /\ x.hops \in Nat
  BY <1>1 DEF Side
<1>3. /\ NoSide.resolve = "unattempted" /\ NoSide.tcp = "unattempted"
      /\ NoSide.tls = "unattempted" /\ NoSide.http = "none"
      /\ NoSide.terminal = "none" /\ NoSide.hops = 0
  BY DEF NoSide
<1>4. /\ y = [resolve |-> y.resolve, tcp |-> y.tcp, tls |-> y.tls, http |-> y.http,
              terminal |-> y.terminal, hops |-> y.hops]
      /\ y.resolve = IF k > 0 THEN x.resolve ELSE "unattempted"
      /\ y.tcp = IF k > 1 THEN x.tcp ELSE "unattempted"
      /\ y.tls = IF k > 2 THEN x.tls ELSE "unattempted"
      /\ y.http = IF k > 3 THEN x.http ELSE "none"
      /\ y.terminal = IF k > 4 THEN x.terminal ELSE "none"
      /\ y.hops = IF k > 5 THEN x.hops ELSE 0
  BY <1>3 DEF Begun
<1> HIDE DEF y
<1>5. y \in Side
  BY <1>2, <1>4 DEF Side, Resolve, TCP, TLS, HTTP, Terminal
<1>6. Supports(y) => Supports(x) /\ y.http = x.http
  BY <1>4 DEF Supports, ServesOK
<1>7. ASSUME ~Half(y)
      PROVE  /\ y.resolve = x.resolve /\ y.tcp = x.tcp /\ y.tls = x.tls
             /\ Supports(x) => Supports(y)
  <2>1. k > 0
    BY <1>4, <1>7 DEF Half
  <2>2. y.resolve = x.resolve /\ y.tcp = x.tcp
    BY <1>1, <1>4, <1>7, <2>1 DEF Half, Climbed
  <2>3. y.tls = x.tls
    BY <1>1, <1>4, <1>7, <2>2 DEF Half, Climbed
  <2>4. Supports(x) => k > 3
    BY <1>4, <1>7, <2>3 DEF Half, Supports
  <2> QED BY <1>4, <2>2, <2>3, <2>4 DEF Supports, ServesOK
<1> QED BY <1>5, <1>6, <1>7 DEF y

LEMMA StoredRecord ==
  ASSUME NEW q \in Record, \A x \in Sides(q) : Whole(x), NEW k \in Nat
  PROVE  LET r == Stored(q, k) IN
         r \in Record /\ r.status = q.status /\ r.www = Begun(q.www, k - 9)
<1> DEFINE r == Stored(q, k)
<1>1. Begun(q.apex, k - 3) \in Side /\ Begun(q.www, k - 9) \in Side
  BY BegunSide DEF Sides
<1>2. /\ q.status \in Status /\ q.wildcard \in {"unchecked", "absent", "present"}
      /\ q.canonical \in Canonical /\ q.delegation \in Delegation
  BY DEF Record
<1>3. /\ Blank.wildcard = "unchecked" /\ Blank.canonical = "unknown"
      /\ Blank.delegation = "unchecked"
  BY DEF Blank
<1>4. /\ r.status = q.status /\ r.apex = Begun(q.apex, k - 3)
      /\ r.www = Begun(q.www, k - 9)
      /\ r.wildcard \in {"unchecked", "absent", "present"}
      /\ r.canonical \in Canonical /\ r.delegation \in Delegation
      /\ r = [status |-> r.status, wildcard |-> r.wildcard, canonical |-> r.canonical,
              delegation |-> r.delegation, apex |-> r.apex, www |-> r.www]
  BY <1>2, <1>3 DEF Stored, Canonical, Delegation
<1> HIDE DEF r
<1>5. r \in Record
  BY <1>1, <1>2, <1>4 DEF Record
<1> QED BY <1>4, <1>5 DEF r

\* Whatever the file holds of a site misleads about www only in the ways that
\* MayHide and MayFeign name.
LEMMA OutcomeRecord ==
  ASSUME NEW s \in Sites, NEW r \in Outcomes[s]
  PROVE  /\ r \in Record /\ r.status # "unattempted"
         /\ WWWSupported(s) /\ ~WWWSupported(r) => MayHide(r)
         /\ WWWSupported(r) /\ ~WWWSupported(s) => MayFeign(r)
<1>1. /\ s.status = "complete" /\ Whole(s.www)
  BY SitesAssumption DEF Sides, Conclusive
<1>2. PICK q \in Returned(s) : r = q \/ \E k \in Tears : r = Stored(q, k)
  BY DEF Outcomes
<1>3. /\ q \in Record /\ q.status \in {"complete", "aborted"}
      /\ \A x \in Sides(q) : Whole(x)
      /\ Whole(q.www) /\ q.www \in Heard(s.www)
  BY ReturnedRecord DEF Sides
<1>4. /\ r \in Record /\ r.status = q.status
      /\ Supports(r.www) => Supports(q.www) /\ r.www.http = q.www.http
      /\ ~Half(r.www) =>
            /\ r.www.resolve = q.www.resolve /\ r.www.tcp = q.www.tcp
            /\ r.www.tls = q.www.tls
            /\ Supports(q.www) => Supports(r.www)
  <2>1. CASE r = q
    BY <1>3, <2>1
  <2>2. CASE \E k \in Tears : r = Stored(q, k)
    <3>1. PICK k \in Nat : r = Stored(q, k)
      BY <2>2, TearsAssumption
    <3>2. /\ r \in Record /\ r.status = q.status /\ r.www = Begun(q.www, k - 9)
      BY <1>3, <3>1, StoredRecord
    <3>3. k - 9 \in Int
      OBVIOUS
    <3> QED BY <1>3, <3>2, <3>3, BegunSide
  <2> QED BY <1>2, <2>1, <2>2
<1>5. ASSUME WWWSupported(s), ~WWWSupported(r)
      PROVE  MayHide(r)
  <2>1. CASE r.status # "complete"
    BY <2>1 DEF MayHide, Conclusive
  <2>2. CASE r.status = "complete" /\ Half(r.www)
    BY <2>2 DEF MayHide, Torn, Sides
  <2>3. CASE r.status = "complete" /\ ~Half(r.www)
    <3>1. Supports(s.www) /\ ~Supports(q.www)
      BY <1>4, <1>5, <2>3, SupportedSide
    <3>2. ~SideConclusive(q.www) \/ q.www.resolve \in {"nodata", "nxdomain"}
      BY <1>1, <1>3, <3>1, HeardSide
    <3>3. ~SideConclusive(r.www) \/ r.www.resolve \in {"nodata", "nxdomain"}
      BY <1>4, <2>3, <3>2 DEF SideConclusive
    <3> QED BY <3>3 DEF MayHide, Conclusive, Sides
  <2> QED BY <2>1, <2>2, <2>3
<1>6. ASSUME WWWSupported(r), ~WWWSupported(s)
      PROVE  MayFeign(r)
  <2>1. Supports(q.www) /\ ~Supports(s.www) /\ r.www.http = q.www.http
    BY <1>1, <1>4, <1>6, SupportedSide
  <2> QED BY <1>1, <1>3, <2>1, HeardSide DEF MayFeign
<1> QED BY <1>3, <1>4, <1>5, <1>6

\* A site is an outcome of its own.
LEMMA SiteRecord ==
  ASSUME NEW s \in Sites
  PROVE  s \in Record /\ s.status = "complete" /\ s \in Outcomes[s]
  BY SitesAssumption DEF Conclusive, Outcomes, Returned

LEMMA Registered ==
  ASSUME NEW r \in Record
  PROVE  /\ RegistrationState(r) \in Registrations
         /\ RegistrationState(r) \in {"unknown", "lookup-failed"} => ~Conclusive(r) \/ Torn(r)
<1>1. /\ r.apex \in Side /\ r.apex.resolve \in Resolve /\ r.delegation \in Delegation
  BY DEF Record, Side
<1>2. RegistrationState(r) \in Registrations
  BY <1>1 DEF RegistrationState, Registrations, Delegation
<1>3. ASSUME RegistrationState(r) \in {"unknown", "lookup-failed"}
      PROVE  ~Conclusive(r) \/ Torn(r)
  <2>1. r.apex.resolve \notin {"ok", "nodata", "nxdomain"}
    BY <1>1, <1>3 DEF RegistrationState, Delegation
  <2>2. CASE r.apex.resolve = "unattempted"
    BY <2>2 DEF Conclusive, Torn, Half, Sides
  <2>3. CASE r.apex.resolve \in {"timeout", "servfail", "refused", "error"}
    BY <2>3 DEF Conclusive, Sides, SideConclusive
  <2> QED BY <1>1, <2>1, <2>2, <2>3 DEF Resolve
<1> QED BY <1>2, <1>3

LEMMA Bucketed ==
  ASSUME NEW r \in Record, r.status # "unattempted"
  PROVE  /\ ApexServes(r) <=> Bucket(r) \in {"unknown", "supported", "broken"}
         /\ Bucket(r) \in {"", "unknown", "supported", "broken"}
         /\ Bucket(r) \in {"supported", "broken"} => Conclusive(r)
  BY DEF Bucket

-----------------------------------------------------------------------------
(* report.Build.                                                           *)

LEMMA CountedFields ==
  ASSUME NEW s \in Summary, NEW r \in Record, r.status # "unattempted"
  PROVE  LET c == Counted(s, r) IN
         /\ c \in Summary
         /\ c.unattempted = s.unattempted /\ c.attempted = s.attempted + 1
         /\ c.supported = If(WWWSupported(r), s.supported)
         /\ c.wildcardOnly = If(~WWWSupported(r) /\ r.www.resolve = "ok"
                                  /\ r.wildcard = "present", s.wildcardOnly)
         /\ c.apexServes = If(ApexServes(r), s.apexServes)
         /\ c.unknown = If(Bucket(r) = "unknown", s.unknown)
         /\ c.ofServing = If(Bucket(r) = "supported", s.ofServing)
         /\ c.broken = If(Bucket(r) = "broken", s.broken)
         /\ \A g \in Registrations : c.registration[g] =
               If(g = RegistrationState(r), s.registration[g])
<1> DEFINE c == Counted(s, r)
           g0 == RegistrationState(r)
           reg == [s.registration EXCEPT ![g0] = @ + 1]
<1>1. g0 \in Registrations
  BY Registered
<1>2. \A b \in BOOLEAN, n \in Nat : If(b, n) \in Nat
  BY DEF If
<1>3. /\ s.registration \in [Registrations -> Nat]
      /\ s.unattempted \in Nat /\ s.attempted \in Nat /\ s.apexServes \in Nat
      /\ s.supported \in Nat /\ s.ofServing \in Nat /\ s.broken \in Nat
      /\ s.unknown \in Nat /\ s.wildcardOnly \in Nat
  BY DEF Summary
<1>4. /\ reg \in [Registrations -> Nat]
      /\ \A g \in Registrations :
            reg[g] = If(g = g0, s.registration[g])
  BY <1>1, <1>3 DEF If
<1>5. /\ c.unattempted = s.unattempted /\ c.attempted = s.attempted + 1
      /\ c.supported = If(WWWSupported(r), s.supported)
      /\ c.wildcardOnly = If(~WWWSupported(r) /\ r.www.resolve = "ok"
                               /\ r.wildcard = "present", s.wildcardOnly)
      /\ c.apexServes = If(ApexServes(r), s.apexServes)
      /\ c.unknown = If(Bucket(r) = "unknown", s.unknown)
      /\ c.ofServing = If(Bucket(r) = "supported", s.ofServing)
      /\ c.broken = If(Bucket(r) = "broken", s.broken)
      /\ c.registration = reg
      /\ c = [unattempted |-> c.unattempted, attempted |-> c.attempted,
              apexServes |-> c.apexServes, supported |-> c.supported,
              ofServing |-> c.ofServing, broken |-> c.broken,
              unknown |-> c.unknown, wildcardOnly |-> c.wildcardOnly,
              registration |-> c.registration]
  BY DEF Counted, Summary
<1>6. c \in Summary
  <2> HIDE DEF c, reg, g0
  <2>1. /\ c.unattempted \in Nat /\ c.attempted \in Nat /\ c.apexServes \in Nat
        /\ c.supported \in Nat /\ c.ofServing \in Nat /\ c.broken \in Nat
        /\ c.unknown \in Nat /\ c.wildcardOnly \in Nat
        /\ c.registration \in [Registrations -> Nat]
    BY <1>3, <1>4, <1>5 DEF If
  <2> QED BY <1>5, <2>1 DEF Summary
<1> HIDE DEF c, reg
<1> QED BY <1>4, <1>5, <1>6 DEF c

LEMMA CountedNothing ==
  ASSUME NEW s \in Summary, NEW r, r.status = "unattempted"
  PROVE  LET c == Counted(s, r) IN
         c \in Summary /\ c = [s EXCEPT !.unattempted = s.unattempted + 1]
  BY DEF Counted, Summary

\* One record more in the sums of SummaryAddsUp.
LEMMA OneRecordMore ==
  ASSUME NEW s \in Summary, NEW r \in Record,
         s.apexServes = s.unknown + s.ofServing + s.broken
  PROVE  LET c == Counted(s, r)
             R == r.status # "unattempted"
         IN  /\ c.unattempted + c.attempted = s.unattempted + s.attempted + 1
             /\ c.attempted = s.attempted + IF R THEN 1 ELSE 0
             /\ c.apexServes = c.unknown + c.ofServing + c.broken
             /\ c.ofServing + c.broken <=
                   s.ofServing + s.broken + IF R /\ Conclusive(r) THEN 1 ELSE 0
             /\ c.supported + c.wildcardOnly <=
                   s.supported + s.wildcardOnly + IF R /\ r.www.resolve = "ok" THEN 1 ELSE 0
             /\ c.registration["unknown"] + c.registration["lookup-failed"]
                   <= s.registration["unknown"] + s.registration["lookup-failed"] + IF R /\ (~Conclusive(r) \/ Torn(r)) THEN 1 ELSE 0
<1> DEFINE c == Counted(s, r)
<1>1. /\ s.unattempted \in Nat /\ s.attempted \in Nat
      /\ s.apexServes \in Nat /\ s.supported \in Nat
      /\ s.ofServing \in Nat /\ s.broken \in Nat
      /\ s.unknown \in Nat /\ s.wildcardOnly \in Nat
      /\ s.registration["unknown"] \in Nat
      /\ s.registration["lookup-failed"] \in Nat
      /\ "unknown" \in Registrations /\ "lookup-failed" \in Registrations
  BY DEF Summary, Registrations
<1>2. CASE r.status = "unattempted"
  <2>1. /\ c.unattempted = s.unattempted + 1 /\ c.attempted = s.attempted
        /\ c.apexServes = s.apexServes /\ c.supported = s.supported
        /\ c.ofServing = s.ofServing /\ c.broken = s.broken
        /\ c.unknown = s.unknown /\ c.wildcardOnly = s.wildcardOnly
        /\ c.registration = s.registration
    BY <1>2, CountedNothing DEF Summary
  <2> HIDE DEF c
  <2>2. c.unattempted + c.attempted = s.unattempted + s.attempted + 1 /\ c.attempted = s.attempted
    <3>1. c.unattempted = s.unattempted + 1 /\ c.attempted = s.attempted
      BY <2>1
    <3>2. s.unattempted \in Nat /\ s.attempted \in Nat
      BY <1>1
    <3> QED BY <3>1, <3>2
  <2>3. /\ c.apexServes = c.unknown + c.ofServing + c.broken
        /\ c.ofServing + c.broken <= s.ofServing + s.broken
        /\ c.supported + c.wildcardOnly <= s.supported + s.wildcardOnly
        /\ c.registration["unknown"] + c.registration["lookup-failed"] <= s.registration["unknown"] + s.registration["lookup-failed"]
    BY <1>1, <2>1
  <2> QED BY <1>1, <1>2, <2>2, <2>3 DEF c
<1>3. CASE r.status # "unattempted"
  <2>1. /\ c.unattempted = s.unattempted /\ c.attempted = s.attempted + 1
        /\ c.supported = If(WWWSupported(r), s.supported)
        /\ c.wildcardOnly = If(~WWWSupported(r) /\ r.www.resolve = "ok"
                                 /\ r.wildcard = "present", s.wildcardOnly)
        /\ c.apexServes = If(ApexServes(r), s.apexServes)
        /\ c.unknown = If(Bucket(r) = "unknown", s.unknown)
        /\ c.ofServing = If(Bucket(r) = "supported", s.ofServing)
        /\ c.broken = If(Bucket(r) = "broken", s.broken)
        /\ c.registration["unknown"] =
              If("unknown" = RegistrationState(r), s.registration["unknown"])
        /\ c.registration["lookup-failed"] =
              If("lookup-failed" = RegistrationState(r),
                 s.registration["lookup-failed"])
    BY <1>1, <1>3, CountedFields
  <2> HIDE DEF c
  <2>2. /\ ApexServes(r) <=> Bucket(r) \in {"unknown", "supported", "broken"}
        /\ Bucket(r) \in {"supported", "broken"} => Conclusive(r)
    BY <1>3, Bucketed
  <2>3. WWWSupported(r) => r.www.resolve = "ok"
    BY DEF WWWSupported
  <2>4. RegistrationState(r) \in {"unknown", "lookup-failed"} => ~Conclusive(r) \/ Torn(r)
    BY <1>3, Registered
  <2>5. c.unattempted + c.attempted = s.unattempted + s.attempted + 1 /\ c.attempted = s.attempted + 1
    <3>1. c.unattempted = s.unattempted /\ c.attempted = s.attempted + 1
      BY <2>1
    <3>2. s.unattempted \in Nat /\ s.attempted \in Nat
      BY <1>1
    <3> QED BY <3>1, <3>2
  <2>6. c.apexServes = c.unknown + c.ofServing + c.broken
    BY <1>1, <2>1, <2>2 DEF If
  <2>7. c.ofServing + c.broken <=
                   s.ofServing + s.broken + IF Conclusive(r) THEN 1 ELSE 0
    BY <1>1, <2>1, <2>2 DEF If
  <2>8. c.supported + c.wildcardOnly <= s.supported + s.wildcardOnly + IF r.www.resolve = "ok" THEN 1 ELSE 0
    BY <1>1, <2>1, <2>3 DEF If
  <2>9. c.registration["unknown"] + c.registration["lookup-failed"]
           <= s.registration["unknown"] + s.registration["lookup-failed"] + IF ~Conclusive(r) \/ Torn(r) THEN 1 ELSE 0
    BY <1>1, <2>1, <2>4 DEF If
  <2> QED BY <1>3, <2>5, <2>6, <2>7, <2>8, <2>9 DEF c
<1> QED BY <1>2, <1>3

\* What SummaryAddsUp says of the summary t when Build has read the records in A.
Sums(t, A) ==
    LET read == {p \in A : prev[p].status # "unattempted"}
    IN  /\ t.unattempted + t.attempted = Cardinality(A)
        /\ t.attempted = Cardinality(read)
        /\ t.apexServes = t.unknown + t.ofServing + t.broken
        /\ t.ofServing + t.broken <= Cardinality({p \in read : Conclusive(prev[p])})
        /\ t.supported + t.wildcardOnly <=
              Cardinality({p \in read : prev[p].www.resolve = "ok"})
        /\ t.registration["unknown"] + t.registration["lookup-failed"] <=
              Cardinality({p \in read : ~Conclusive(prev[p]) \/ Torn(prev[p])})

LEMMA SumsGrow ==
  ASSUME TypeOK, i \in Positions, Sums(summary, {p \in Positions : p < i})
  PROVE  Sums(Counted(summary, prev[i]), {p \in Positions : p < i + 1})
<1> DEFINE R(p) == prev[p].status # "unattempted"
           D(p) == ~Conclusive(prev[p]) \/ Torn(prev[p])
           Rd == {p \in Positions : R(p)}
           Cn == {p \in Positions : R(p) /\ Conclusive(prev[p])}
           Ok == {p \in Positions : R(p) /\ prev[p].www.resolve = "ok"}
           Db == {p \in Positions : R(p) /\ D(p)}
           s == Counted(summary, prev[i])
<1>1. \A j :
         LET A == {p \in Positions : p < j}
             read == {p \in A : prev[p].status # "unattempted"}
         IN  /\ A = Upto(Positions, j) /\ read = Upto(Rd, j)
             /\ {p \in read : Conclusive(prev[p])} = Upto(Cn, j)
             /\ {p \in read : prev[p].www.resolve = "ok"} = Upto(Ok, j)
             /\ {p \in read : ~Conclusive(prev[p]) \/ Torn(prev[p])} = Upto(Db, j)
  BY DEF Upto
<1>2. /\ Positions \in SUBSET Positions /\ Rd \in SUBSET Positions
      /\ Cn \in SUBSET Positions /\ Ok \in SUBSET Positions /\ Db \in SUBSET Positions
  OBVIOUS
<1>3. \A S \in SUBSET Positions :
         /\ Cardinality(Upto(S, i)) \in Nat
         /\ Cardinality(Upto(S, i + 1)) =
               Cardinality(Upto(S, i)) + IF i \in S THEN 1 ELSE 0
  <2> SUFFICES ASSUME NEW S \in SUBSET Positions
               PROVE  /\ Cardinality(Upto(S, i)) \in Nat
                      /\ Cardinality(Upto(S, i + 1)) =
                            Cardinality(Upto(S, i)) + IF i \in S THEN 1 ELSE 0
    OBVIOUS
  <2> HIDE DEF Rd, Cn, Ok, Db, s
  <2> QED BY Further
<1>4. summary \in Summary /\ prev[i] \in Record
  BY DEF TypeOK
<1>5. /\ summary.unattempted + summary.attempted = Cardinality(Upto(Positions, i))
      /\ summary.attempted = Cardinality(Upto(Rd, i))
      /\ summary.apexServes = summary.unknown + summary.ofServing + summary.broken
      /\ summary.ofServing + summary.broken <= Cardinality(Upto(Cn, i))
      /\ summary.supported + summary.wildcardOnly <= Cardinality(Upto(Ok, i))
      /\ summary.registration["unknown"] + summary.registration["lookup-failed"]
            <= Cardinality(Upto(Db, i))
  BY <1>1 DEF Sums
<1>6. /\ Cardinality(Upto(Positions, i)) \in Nat /\ Cardinality(Upto(Rd, i)) \in Nat
      /\ Cardinality(Upto(Cn, i)) \in Nat /\ Cardinality(Upto(Ok, i)) \in Nat
      /\ Cardinality(Upto(Db, i)) \in Nat
  BY <1>2, <1>3
<1>7. /\ s.unattempted + s.attempted = Cardinality(Upto(Positions, i)) + 1
      /\ s.attempted = Cardinality(Upto(Rd, i)) + IF R(i) THEN 1 ELSE 0
      /\ s.apexServes = s.unknown + s.ofServing + s.broken
      /\ s.ofServing + s.broken <=
            Cardinality(Upto(Cn, i)) + IF R(i) /\ Conclusive(prev[i]) THEN 1 ELSE 0
      /\ s.supported + s.wildcardOnly <=
            Cardinality(Upto(Ok, i)) + IF R(i) /\ prev[i].www.resolve = "ok" THEN 1 ELSE 0
      /\ s.registration["unknown"] + s.registration["lookup-failed"] <=
            Cardinality(Upto(Db, i)) + IF R(i) /\ D(i) THEN 1 ELSE 0
  <2>1. /\ s.unattempted + s.attempted = summary.unattempted + summary.attempted + 1
        /\ s.attempted = summary.attempted + IF R(i) THEN 1 ELSE 0
        /\ s.apexServes = s.unknown + s.ofServing + s.broken
        /\ s.ofServing + s.broken <=
              summary.ofServing + summary.broken
                + IF R(i) /\ Conclusive(prev[i]) THEN 1 ELSE 0
        /\ s.supported + s.wildcardOnly <=
              summary.supported + summary.wildcardOnly
                + IF R(i) /\ prev[i].www.resolve = "ok" THEN 1 ELSE 0
        /\ s.registration["unknown"] + s.registration["lookup-failed"] <=
              summary.registration["unknown"] + summary.registration["lookup-failed"]
                + IF R(i) /\ D(i) THEN 1 ELSE 0
    BY <1>4, <1>5, OneRecordMore
  <2>2. /\ s \in Summary
        /\ "unknown" \in Registrations /\ "lookup-failed" \in Registrations
    BY <1>4, CountedFields, CountedNothing DEF Registrations
  <2> HIDE DEF Rd, Cn, Ok, Db, s, R, D
  <2> QED BY <1>4, <1>5, <1>6, <2>1, <2>2 DEF Summary
<1>8. /\ Cardinality(Upto(Positions, i + 1)) = Cardinality(Upto(Positions, i)) + 1
      /\ Cardinality(Upto(Rd, i + 1)) =
            Cardinality(Upto(Rd, i)) + IF R(i) THEN 1 ELSE 0
      /\ Cardinality(Upto(Cn, i + 1)) =
            Cardinality(Upto(Cn, i)) + IF R(i) /\ Conclusive(prev[i]) THEN 1 ELSE 0
      /\ Cardinality(Upto(Ok, i + 1)) =
            Cardinality(Upto(Ok, i)) + IF R(i) /\ prev[i].www.resolve = "ok" THEN 1 ELSE 0
      /\ Cardinality(Upto(Db, i + 1)) =
            Cardinality(Upto(Db, i)) + IF R(i) /\ D(i) THEN 1 ELSE 0
  <2>1. /\ i \in Rd <=> R(i)
        /\ i \in Cn <=> R(i) /\ Conclusive(prev[i])
        /\ i \in Ok <=> R(i) /\ prev[i].www.resolve = "ok"
        /\ i \in Db <=> R(i) /\ D(i)
    OBVIOUS
  <2> HIDE DEF Rd, Cn, Ok, Db
  <2> QED BY <1>2, <1>3, <2>1
<1>9. /\ s.unattempted + s.attempted = Cardinality(Upto(Positions, i + 1))
      /\ s.attempted = Cardinality(Upto(Rd, i + 1))
      /\ s.apexServes = s.unknown + s.ofServing + s.broken
      /\ s.ofServing + s.broken <= Cardinality(Upto(Cn, i + 1))
      /\ s.supported + s.wildcardOnly <= Cardinality(Upto(Ok, i + 1))
      /\ s.registration["unknown"] + s.registration["lookup-failed"]
            <= Cardinality(Upto(Db, i + 1))
  <2> HIDE DEF Rd, Cn, Ok, Db, s
  <2> QED BY <1>7, <1>8
<1> QED BY <1>1, <1>9 DEF Sums

LEMMA SummarySums ==
  ASSUME TypeOK
  PROVE  SummaryAddsUp <=> Sums(summary, Looked("build"))
  BY DEF SummaryAddsUp, Sums

LEMMA Ranges ==
  ASSUME i \in 0 .. N
  PROVE  i \in Int /\ N \in Int /\ 0 <= i /\ i <= N
  BY NAssumption

LEMMA ReadSoFar ==
  ASSUME TypeOK
  PROVE  /\ at = "build" => Looked("build") = {p \in Positions : p < i}
         /\ at # "build" => Looked("build") = Positions
         /\ i = N => {p \in Positions : p < i} = Positions
<1>1. i \in Int /\ N \in Int /\ 0 <= i /\ i <= N
  BY Ranges DEF TypeOK
<1> QED BY <1>1 DEF Looked, Positions

LEMMA ZeroUpToN == 0 \in 0 .. N /\ 0 .. 0 - 1 = {}
  BY NAssumption

-----------------------------------------------------------------------------
(* The initial states.                                                     *)

LEMMA InitIInv ==
  ASSUME Init
  PROVE  IInv
<1>0. /\ at = "build" /\ i = 0 /\ summary = Nothing /\ todo = {} /\ changes = {}
      /\ next = [p \in Positions |-> Blank] /\ site = [p \in Positions |-> Blank]
      /\ select = [by |-> "", filter |-> "", stride |-> 1, k |-> 0, seen |-> 0,
                   idx |-> {}]
  BY DEF Init
<1>1. Earlier /\ prev = [p \in Positions |-> prev[p]]
  <2>1. was \in [Positions -> Sites \cup {Blank}]
    BY DEF Init
  <2>2. PICK T \in SUBSET {p \in Restless : was[p] # Blank} :
           \E t \in [T -> UNION {Outcomes[s] : s \in Sites}] :
              /\ \A p \in T : t[p] \in Outcomes[was[p]]
              /\ prev = [p \in Positions |-> IF p \in T THEN t[p] ELSE was[p]]
    BY DEF Init
  <2>3. PICK t \in [T -> UNION {Outcomes[s] : s \in Sites}] :
           /\ \A p \in T : t[p] \in Outcomes[was[p]]
           /\ prev = [p \in Positions |-> IF p \in T THEN t[p] ELSE was[p]]
    BY <2>2
  <2>4. ASSUME NEW p \in Positions
        PROVE  prev[p] = Blank \/ (was[p] \in Sites /\ prev[p] \in Outcomes[was[p]])
    <3>1. was[p] \in Sites \/ was[p] = Blank
      BY <2>1
    <3>2. CASE p \in T
      BY <2>2, <2>3, <3>1, <3>2
    <3>3. CASE p \notin T
      BY <2>3, <3>1, <3>3, SiteRecord
    <3> QED BY <3>2, <3>3
  <2> QED BY <2>1, <2>3, <2>4 DEF Earlier
<1>2. TypeOK
  <2>1. /\ prev \in [Positions -> Record] /\ was \in [Positions -> Record]
    <3>1. \A p \in Positions : prev[p] \in Record /\ was[p] \in Record
      BY <1>1, BlankRecord, OutcomeRecord, SiteRecord DEF Earlier
    <3>2. was = [p \in Positions |-> was[p]]
      BY <1>1 DEF Earlier
    <3> QED BY <1>1, <3>1, <3>2
  <2>2. next \in [Positions -> Record] /\ site \in [Positions -> Record]
    BY <1>0, BlankRecord
  <2>3. summary \in Summary
    BY <1>0 DEF Nothing, Summary
  <2>4. i \in 0 .. N
    BY <1>0, ZeroUpToN
  <2>5. select \in [by : {"", "recheck", "sample"}, filter : RecheckFilters \cup {""},
                    stride : Nat \ {0}, k : 0 .. N, seen : Nat, idx : SUBSET Positions]
    <3>1. 1 \in Nat \ {0} /\ 0 \in Nat /\ 0 \in 0 .. N
      BY ZeroUpToN
    <3> QED BY <1>0, <3>1
  <2> QED BY <1>0, <2>1, <2>2, <2>3, <2>4, <2>5 DEF TypeOK
<1>3. Stages
  BY <1>0 DEF Stages, RecheckFilters
<1>4. SummaryAddsUp
  <2>1. Looked("build") = {}
    BY <1>0, ZeroUpToN DEF Looked
  <2>2. Cardinality({}) = 0
    BY FS_EmptySet
  <2>3. Sums(summary, {})
    <3> DEFINE read == {p \in {} : prev[p].status # "unattempted"}
    <3>1. /\ read = {} /\ {p \in read : Conclusive(prev[p])} = {}
          /\ {p \in read : prev[p].www.resolve = "ok"} = {}
          /\ {p \in read : ~Conclusive(prev[p]) \/ Torn(prev[p])} = {}
      OBVIOUS
    <3>2. /\ summary.unattempted = 0 /\ summary.attempted = 0
          /\ summary.apexServes = 0 /\ summary.supported = 0
          /\ summary.ofServing = 0 /\ summary.broken = 0
          /\ summary.unknown = 0 /\ summary.wildcardOnly = 0
          /\ summary.registration["unknown"] = 0
          /\ summary.registration["lookup-failed"] = 0
      BY <1>0 DEF Nothing, Registrations
    <3> HIDE DEF read
    <3>3. Cardinality(read) = 0 /\ Cardinality({}) = 0
      BY <2>2, <3>1
    <3>4. 0 + 0 = 0 /\ 0 = 0 + 0 + 0 /\ 0 + 0 <= 0
      OBVIOUS
    <3> QED BY <2>2, <3>1, <3>2, <3>3, <3>4 DEF Sums, read
  <2> QED BY <1>2, <2>1, <2>3, SummarySums
<1>5. EveryNthMatch /\ Seen /\ FarEnough /\ SampleIsExact
  BY <1>0 DEF EveryNthMatch, Seen, FarEnough, SampleIsExact
<1>6. Probed
  BY <1>0 DEF Probed
<1>7. Found
  BY <1>0 DEF Found, Compared
<1> QED BY <1>1, <1>2, <1>3, <1>4, <1>5, <1>6, <1>7 DEF IInv

-----------------------------------------------------------------------------
(* Every step.                                                             *)

LEMMA BuildStep ==
  ASSUME IInv, Build
  PROVE  IInv'
<1> USE DEF IInv
<1>1. /\ at = "build" /\ at' \in {"build", "choose"}
      /\ UNCHANGED <<prev, next, select, todo, changes, was, site>>
  BY DEF Build
<1>2. i \in Int /\ N \in Int /\ 0 <= i /\ i <= N
  BY Ranges DEF TypeOK
<1>3. \/ i = N /\ at' = "choose" /\ i' = 0 /\ summary' = summary
      \/ /\ i \in Positions /\ at' = "build" /\ i' = i + 1
         /\ summary' = Counted(summary, prev[i])
  BY <1>2 DEF Build, Positions
<1>4. TypeOK'
  <2>1. i' \in 0 .. N
    BY <1>2, <1>3 DEF Positions
  <2>2. summary' \in Summary
    <3>1. summary \in Summary
      BY DEF TypeOK
    <3>2. CASE i \in Positions /\ summary' = Counted(summary, prev[i])
      <4>1. prev[i] \in Record
        BY <3>2 DEF TypeOK
      <4> QED BY <3>1, <3>2, <4>1, CountedFields, CountedNothing
    <3> QED BY <1>3, <3>1, <3>2
  <2> QED BY <1>1, <2>1, <2>2 DEF TypeOK
<1>5. Stages' /\ Earlier'
  BY <1>1, <1>3 DEF Stages, Earlier
<1>6. SummaryAddsUp'
  <2>1. Sums(summary, {p \in Positions : p < i})
    BY <1>1, SummarySums, ReadSoFar
  <2>2. Sums(summary', {p \in Positions : p < IF at' = "build" THEN i' ELSE i})
    BY <1>3, <2>1, SumsGrow
  <2>3. Looked("build")' = {p \in Positions : p < IF at' = "build" THEN i' ELSE i}
    <3>1. CASE at' = "build"
      BY <1>1, <1>2, <1>3, <3>1 DEF Looked, Positions
    <3>2. CASE at' # "build"
      BY <1>1, <1>2, <1>3, <3>2 DEF Looked, Positions
    <3> QED BY <3>1, <3>2
  <2> QED BY <1>1, <2>2, <2>3 DEF Sums, SummaryAddsUp
<1>7. EveryNthMatch' /\ Seen' /\ FarEnough' /\ SampleIsExact'
  BY <1>1 DEF EveryNthMatch, Seen, FarEnough, SampleIsExact, Stages
<1>8. Probed'
  BY <1>1 DEF Probed
<1>9. Found'
  BY <1>1 DEF Found, Compared
<1> QED BY <1>4, <1>5, <1>6, <1>7, <1>8, <1>9

\* A step that neither reads the earlier file nor selects.
LEMMA SummaryKept ==
  ASSUME IInv, UNCHANGED <<prev, summary, was>>, at # "build", at' # "build"
  PROVE  SummaryAddsUp' /\ Earlier'
<1>1. Looked("build") = Positions /\ Looked("build")' = Positions
  BY DEF Looked
<1>2. SummaryAddsUp'
  BY <1>1 DEF IInv, SummaryAddsUp
<1>3. Earlier'
  BY DEF IInv, Earlier
<1> QED BY <1>2, <1>3

LEMMA SelectionKept ==
  ASSUME IInv, UNCHANGED <<prev, select>>,
         at \notin {"match", "draw"}, at' \notin {"match", "draw"}
  PROVE  EveryNthMatch' /\ Seen' /\ FarEnough' /\ SampleIsExact'
<1>1. /\ Looked("match") = Positions /\ Looked("match")' = Positions
      /\ Looked("draw") = Positions /\ Looked("draw")' = Positions
  BY DEF Looked
<1>2. EveryNthMatch'
  BY <1>1 DEF IInv, EveryNthMatch
<1>3. Seen' /\ FarEnough'
  BY DEF Seen, FarEnough
<1>4. SampleIsExact'
  BY <1>1 DEF IInv, SampleIsExact
<1> QED BY <1>2, <1>3, <1>4

\* A step that leaves the later file and the comparison alone.
LEMMA FilesKept ==
  ASSUME IInv, UNCHANGED <<next, changes, site>>,
         select.idx \subseteq select'.idx, todo' \subseteq select'.idx,
         at \notin {"diff", "done"}, at' \notin {"diff", "done"}
  PROVE  Probed' /\ Found'
<1>1. Probed'
  BY DEF IInv, Probed
<1>2. Found'
  BY DEF IInv, Found, Compared
<1> QED BY <1>1, <1>2

SelectType ==
    [by : {"", "recheck", "sample"}, filter : RecheckFilters \cup {""},
     stride : Nat \ {0}, k : 0 .. N, seen : Nat, idx : SUBSET Positions]

LEMMA RecheckStep ==
  ASSUME IInv, NEW f \in RecheckFilters, NEW stride \in Strides, Recheck(f, stride)
  PROVE  IInv'
<1>1. /\ at = "choose" /\ at' = "match" /\ i' = i /\ i = 0
      /\ UNCHANGED <<prev, next, summary, todo, changes, was, site>>
      /\ select.idx = {} /\ select.seen = 0
  BY DEF Recheck, OnlySelect, IInv, Stages
<1>2. /\ select'.by = "recheck" /\ select'.filter = f
      /\ select'.idx = {} /\ select'.seen = 0 /\ select' \in SelectType
  <2>1. select \in SelectType
    BY DEF IInv, TypeOK, SelectType
  <2>2. (IF stride < 1 THEN 1 ELSE stride) \in Nat \ {0}
    BY StridesAssumption
  <2> QED BY <1>1, <2>1, <2>2 DEF Recheck, SelectType
<1>3. TypeOK'
  BY <1>1, <1>2 DEF IInv, TypeOK, SelectType
<1>4. Stages'
  BY <1>1, <1>2 DEF Stages, RecheckFilters
<1>5. {q \in Matches' : q < i'} = {} /\ 0 .. i' - 1 = {}
  BY <1>1, NAssumption DEF Matches, Positions
<1>6. EveryNthMatch'
  BY <1>1, <1>2, <1>5 DEF EveryNthMatch, Looked
<1>7. Seen'
  BY <1>1, <1>2, <1>5, FS_EmptySet DEF Seen
<1>8. FarEnough' /\ SampleIsExact'
  BY <1>1, <1>2 DEF FarEnough, SampleIsExact
<1>9. Probed' /\ Found'
  <2>1. todo' = {}
    BY <1>1 DEF IInv, Probed
  <2> QED BY <1>1, <1>2, <2>1, FilesKept
<1>10. SummaryAddsUp' /\ Earlier'
  BY <1>1, SummaryKept
<1> QED BY <1>3, <1>4, <1>6, <1>7, <1>8, <1>9, <1>10 DEF IInv

LEMMA MatchStep ==
  ASSUME IInv, Match
  PROVE  IInv'
<1> DEFINE matches == RecheckMatches(select.filter, prev[i])
           idx == IF matches /\ select.seen % select.stride = 0
                  THEN select.idx \cup {i} ELSE select.idx
           seen == IF matches THEN select.seen + 1 ELSE select.seen
<1>1. /\ at = "match" /\ at' = "match" /\ i < N /\ i' = i + 1
      /\ UNCHANGED <<prev, next, summary, todo, changes, was, site>>
      /\ select.by = "recheck"
  BY DEF Match, OnlySelect, IInv, Stages
<1>2. /\ i \in Positions /\ i \in Int /\ N \in Int /\ 0 <= i
      /\ select \in SelectType
  <2>1. i \in 0 .. N /\ select \in SelectType
    BY DEF IInv, TypeOK, SelectType
  <2> QED BY <1>1, <2>1, Ranges DEF Positions
<1>3. select' = [select EXCEPT !.seen = seen, !.idx = idx]
  BY <1>2 DEF Match, SelectType
<1>4. /\ select'.by = select.by /\ select'.filter = select.filter
      /\ select'.stride = select.stride
      /\ select'.idx = idx /\ select'.seen = seen /\ select' \in SelectType
  <2>1. seen \in Nat /\ idx \in SUBSET Positions
    <3>1. select.seen \in Nat /\ select.idx \in SUBSET Positions
      BY <1>2 DEF SelectType
    <3>2. seen \in Nat
      BY <3>1
    <3>3. idx \in SUBSET Positions
      BY <1>2, <3>1
    <3> QED BY <3>2, <3>3
  <2> HIDE DEF seen, idx
  <2> QED BY <1>2, <1>3, <2>1 DEF SelectType
<1>5. TypeOK'
  <2>1. i' \in 0 .. N
    BY <1>1, <1>2
  <2> QED BY <1>1, <1>4, <2>1 DEF IInv, TypeOK, SelectType
<1>6. Stages'
  BY <1>1, <1>4 DEF IInv, Stages
<1>7. Matches' = Matches /\ Matches \in SUBSET Positions /\ (i \in Matches <=> matches)
  BY <1>1, <1>2, <1>4 DEF Matches
<1>8. /\ select.seen = Cardinality({q \in Matches : q < i})
      /\ \A p \in Positions : p < i' <=> p < i \/ p = i
  BY <1>1, <1>2, NAssumption DEF IInv, Seen, Positions
<1>9. Seen'
  <2>1. Cardinality({q \in Matches : q < i + 1}) =
           Cardinality({q \in Matches : q < i}) + IF i \in Matches THEN 1 ELSE 0
    BY <1>2, <1>7, Further DEF Upto
  <2>2. select.seen \in Nat
    BY <1>2 DEF SelectType
  <2>3. Cardinality({q \in Matches : q < i + 1}) = seen
    BY <1>7, <1>8, <2>1, <2>2
  <2> QED BY <1>1, <1>4, <1>7, <2>3 DEF Seen
<1>10. EveryNthMatch'
  <2> DEFINE Before(p) == Cardinality({q \in Matches : q < p})
  <2>1. select.idx = {p \in Matches \cap (0 .. i - 1) : Before(p) % select.stride = 0}
    BY <1>1 DEF IInv, EveryNthMatch, Looked, Matches
  <2>2. 0 .. i' - 1 = (0 .. i - 1) \cup {i}
    BY <1>1, <1>2
  <2>3. idx = {p \in Matches \cap (0 .. i' - 1) : Before(p) % select.stride = 0}
    <3>1. Before(i) = select.seen
      BY <1>8
    <3> HIDE DEF Before
    <3> QED BY <1>7, <2>1, <2>2, <3>1
  <2> QED BY <1>1, <1>4, <1>7, <2>3 DEF EveryNthMatch, Looked, Matches
<1>11. FarEnough' /\ SampleIsExact'
  BY <1>1, <1>4 DEF FarEnough, SampleIsExact
<1>12. Probed' /\ Found'
  <2>1. todo \subseteq select.idx
    BY DEF IInv, Probed
  <2> QED BY <1>1, <1>4, <2>1, FilesKept
<1>13. SummaryAddsUp' /\ Earlier'
  BY <1>1, SummaryKept
<1> QED BY <1>5, <1>6, <1>9, <1>10, <1>11, <1>12, <1>13 DEF IInv

LEMMA SampleSize ==
  ASSUME NEW k \in 0 .. N
  PROVE  /\ k \in Nat /\ N \in Nat /\ k <= N
         /\ N - k \in 0 .. N /\ N \in 0 .. N /\ N >= N - k /\ N - k >= N - k
         /\ 0 = (N - k) - (N - k) /\ (k = N => N = N - (N - k))
  BY NAssumption

LEMMA OneOrMore == ASSUME NEW k \in 1 .. N PROVE k \in 0 .. N
  BY NAssumption

LEMMA SampleStep ==
  ASSUME IInv, NEW k \in Positions \cup {N}, Sample(k)
  PROVE  IInv'
<1>1. /\ at = "choose" /\ at' = "draw" /\ k \in 1 .. N
      /\ UNCHANGED <<prev, next, summary, todo, changes, was, site>>
      /\ select.idx = {} /\ select.filter = "" /\ select \in SelectType
  BY DEF Sample, OnlySelect, IInv, Stages, TypeOK, SelectType
<1>2. k \in 0 .. N
  BY <1>1, OneOrMore
<1>3. /\ select'.by = "sample" /\ select'.filter = "" /\ select'.k = k
      /\ select' \in SelectType
      /\ \/ k = N /\ i' = N /\ select'.idx = Positions
         \/ i' = N - k /\ select'.idx = {}
  BY <1>1, <1>2 DEF Sample, SelectType
<1>4. i' \in 0 .. N /\ i' >= N - k
  BY <1>2, <1>3, SampleSize
<1>5. TypeOK'
  BY <1>1, <1>3, <1>4 DEF IInv, TypeOK, SelectType
<1>6. Stages'
  BY <1>1, <1>3, <1>4 DEF Stages
<1>7. EveryNthMatch' /\ Seen'
  BY <1>1, <1>3 DEF EveryNthMatch, Seen
<1>8. FarEnough'
  <2>1. CASE k = N /\ i' = N /\ select'.idx = Positions
    <3>1. Cardinality(select'.idx) = i' - (N - select'.k)
      <4>1. N = N - (N - k)
        BY <1>2, <2>1, SampleSize
      <4>2. Cardinality(select'.idx) = N
        BY <2>1, PositionsFinite
      <4>3. i' = N /\ select'.k = k
        BY <1>3, <2>1
      <4> QED BY <4>1, <4>2, <4>3
    <3> QED BY <2>1, <3>1 DEF FarEnough, Positions
  <2>2. CASE i' = N - k /\ select'.idx = {}
    <3>1. Cardinality(select'.idx) = 0
      BY <2>2, FS_EmptySet
    <3>2. Cardinality(select'.idx) = i' - (N - select'.k)
      BY <1>2, <1>3, <2>2, <3>1, SampleSize
    <3> QED BY <2>2, <3>2 DEF FarEnough
  <2> QED BY <1>3, <2>1, <2>2
<1>9. SampleIsExact'
  BY <1>1, <1>8 DEF FarEnough, SampleIsExact, Looked
<1>10. Probed' /\ Found'
  <2>1. todo' = {}
    BY <1>1 DEF IInv, Probed
  <2> QED BY <1>1, <2>1, FilesKept
<1>11. SummaryAddsUp' /\ Earlier'
  BY <1>1, SummaryKept
<1> QED BY <1>5, <1>6, <1>7, <1>8, <1>9, <1>10, <1>11 DEF IInv

\* Whatever is drawn, Floyd's algorithm takes a position it did not have.
LEMMA InsertAdds ==
  ASSUME NEW j \in Positions, NEW S \in SUBSET (0 .. j - 1), NEW t \in Draws(j)
  PROVE  /\ Insert(S, t, j) \in SUBSET (0 .. j)
         /\ 0 .. j \subseteq Positions
         /\ Cardinality(Insert(S, t, j)) = Cardinality(S) + 1
         /\ Cardinality(S) \in Nat
<1> DEFINE new == IF t \in S THEN j ELSE t
<1>1. j \in Int /\ N \in Int /\ 0 <= j /\ j < N
  BY NAssumption DEF Positions
<1>2. 0 .. j \subseteq Positions /\ 0 .. j - 1 \subseteq 0 .. j /\ j \notin 0 .. j - 1
  BY <1>1 DEF Positions
<1>3. new \in 0 .. j /\ new \notin S
  BY <1>1, <1>2 DEF Draws
<1>4. S \in SUBSET Positions /\ new \in Positions
  BY <1>2, <1>3
<1>5. Cardinality(S \cup {new}) = Cardinality(S) + 1
  BY <1>3, <1>4, OneMore
<1>6. Cardinality(S) \in Nat
  BY <1>4, Subset
<1> QED BY <1>2, <1>3, <1>5, <1>6 DEF Insert

LEMMA DrawStep ==
  ASSUME IInv, Draw
  PROVE  IInv'
<1>1. /\ at = "draw" /\ at' = "draw" /\ i < N /\ i' = i + 1
      /\ UNCHANGED <<prev, next, summary, todo, changes, was, site>>
      /\ select.by = "sample" /\ select.filter = "" /\ i >= N - select.k
      /\ select.k \in 1 .. N
  BY DEF Draw, OnlySelect, IInv, Stages
<1>2. /\ i \in Positions /\ i \in Int /\ N \in Int /\ 0 <= i
      /\ select \in SelectType /\ select.k \in Nat
  <2>1. i \in 0 .. N /\ select \in SelectType
    BY DEF IInv, TypeOK, SelectType
  <2>2. select.k \in 0 .. N
    BY <2>1 DEF SelectType
  <2>3. select.k \in Nat
    BY <2>2, SampleSize
  <2>4. i \in Int /\ N \in Int /\ 0 <= i /\ i \in Positions
    <3>1. i < N /\ i \in 0 .. N
      BY <1>1, <2>1
    <3>2. i \in Int /\ N \in Int /\ 0 <= i
      BY <3>1, Ranges
    <3> QED BY <3>1, <3>2 DEF Positions
  <2> QED BY <2>1, <2>3, <2>4
<1>3. select.idx \in SUBSET (0 .. i - 1) /\ Cardinality(select.idx) = i - (N - select.k)
  BY <1>1 DEF IInv, FarEnough
<1>4. PICK t \in Draws(i) : select' = [select EXCEPT !.idx = Insert(select.idx, t, i)]
  BY <1>2 DEF Draw, SelectType
<1>5. /\ Insert(select.idx, t, i) \in SUBSET (0 .. i)
      /\ 0 .. i \subseteq Positions
      /\ Cardinality(Insert(select.idx, t, i)) = Cardinality(select.idx) + 1
  BY <1>2, <1>3, InsertAdds
<1>6. /\ select'.by = "sample" /\ select'.filter = "" /\ select'.k = select.k
      /\ select'.idx = Insert(select.idx, t, i)
      /\ select' \in SelectType
  BY <1>1, <1>2, <1>4, <1>5 DEF SelectType
<1>7. TypeOK'
  <2>1. i' \in 0 .. N
    <3>1. i' = i + 1 /\ i < N /\ i \in Int /\ N \in Int /\ 0 <= i
      BY <1>1, <1>2
    <3> QED BY <3>1
  <2> QED BY <1>1, <1>6, <2>1 DEF IInv, TypeOK, SelectType
<1>8. Stages'
  <2>1. i' >= N - select'.k
    <3>1. /\ i' = i + 1 /\ i \in Int /\ N \in Int /\ i >= N - select.k
          /\ select'.k = select.k /\ select.k \in Nat
      BY <1>1, <1>2, <1>6
    <3> QED BY <3>1
  <2> QED BY <1>1, <1>6, <2>1 DEF Stages
<1>9. EveryNthMatch' /\ Seen'
  BY <1>1, <1>6 DEF EveryNthMatch, Seen
<1>10. FarEnough'
  <2>1. i' - 1 = i /\ Cardinality(select'.idx) = i' - (N - select'.k)
    <3>1. /\ i' = i + 1 /\ i \in Int /\ N \in Int
          /\ select'.k = select.k /\ select.k \in Nat
          /\ Cardinality(select'.idx) = i - (N - select.k) + 1
      BY <1>1, <1>2, <1>3, <1>5, <1>6
    <3> QED BY <3>1
  <2> QED BY <1>1, <1>5, <1>6, <2>1 DEF FarEnough
<1>11. SampleIsExact'
  BY <1>1, <1>10 DEF FarEnough, SampleIsExact, Looked
<1>12. Probed' /\ Found'
  <2>1. select.idx \subseteq select'.idx
    BY <1>6 DEF Insert
  <2>2. todo \subseteq select.idx
    BY DEF IInv, Probed
  <2> QED BY <1>1, <2>1, <2>2, FilesKept
<1>13. SummaryAddsUp' /\ Earlier'
  BY <1>1, SummaryKept
<1> QED BY <1>7, <1>8, <1>9, <1>10, <1>11, <1>12, <1>13 DEF IInv

LEMMA SelectedStep ==
  ASSUME IInv, Selected
  PROVE  IInv'
<1>1. /\ at \in {"match", "draw"} /\ i = N /\ i' = 0 /\ todo' = select.idx
      /\ at' \in {"refused", "probe"}
      /\ UNCHANGED <<prev, next, summary, select, changes, was, site>>
  BY DEF Selected, OnlySelect
<1>2. Looked("match") = Positions /\ Looked("draw") = Positions
  BY <1>1 DEF Looked, Positions
<1>3. Looked("match")' = Positions /\ Looked("draw")' = Positions
  BY <1>1 DEF Looked
<1>4. TypeOK'
  <2>1. i' \in 0 .. N
    BY <1>1, ZeroUpToN
  <2> QED BY <1>1, <2>1 DEF IInv, TypeOK
<1>5. Stages'
  BY <1>1 DEF IInv, Stages
<1>6. EveryNthMatch'
  BY <1>1, <1>2, <1>3 DEF IInv, EveryNthMatch
<1>7. Seen' /\ FarEnough'
  BY <1>1 DEF Seen, FarEnough
<1>8. SampleIsExact'
  <2>1. ASSUME select.by = "sample"
        PROVE  select.idx \subseteq Positions /\ Cardinality(select.idx) = select.k
    <3>1. at = "draw"
      BY <1>1, <2>1 DEF IInv, Stages
    <3>2. select.idx \subseteq Positions /\ select.k \in 0 .. N
      BY DEF IInv, TypeOK
    <3>3. Cardinality(select.idx) = N - (N - select.k)
      BY <1>1, <3>1 DEF IInv, FarEnough
    <3>4. N - (N - select.k) = select.k
      BY <3>2, SampleSize
    <3> QED BY <3>2, <3>3, <3>4
  <2> QED BY <1>1, <1>3, <2>1 DEF SampleIsExact
<1>9. Probed' /\ Found'
  BY <1>1, FilesKept
<1>10. SummaryAddsUp' /\ Earlier'
  BY <1>1, SummaryKept
<1> QED BY <1>4, <1>5, <1>6, <1>7, <1>8, <1>9, <1>10 DEF IInv

LEMMA ProbeStep ==
  ASSUME IInv, Probe
  PROVE  IInv'
<1>1. /\ at = "probe" /\ at' = "probe" /\ i' = i
      /\ UNCHANGED <<prev, summary, select, changes, was>>
  BY DEF Probe
<1>2. PICK p \in todo, s \in Sites :
         /\ site' = [site EXCEPT ![p] = s]
         /\ \E r \in IF p \in Restless /\ Spoilt < MaxSpoilt THEN Outcomes[s] ELSE {s} :
               next' = [next EXCEPT ![p] = r]
         /\ todo' = todo \ {p}
  BY DEF Probe
<1>3. PICK r \in Outcomes[s] : next' = [next EXCEPT ![p] = r]
  BY <1>2, SiteRecord
<1>4. /\ p \in Positions /\ p \in select.idx /\ todo' \subseteq todo
      /\ s \in Record /\ r \in Record
      /\ site \in [Positions -> Record] /\ next \in [Positions -> Record]
      /\ todo \subseteq Positions
  <2>1. /\ todo \subseteq select.idx /\ todo \subseteq Positions
        /\ site \in [Positions -> Record] /\ next \in [Positions -> Record]
    BY DEF IInv, Probed, TypeOK
  <2>2. s \in Record /\ r \in Record
    BY SitesAssumption, OutcomeRecord
  <2> QED BY <1>2, <2>1, <2>2
<1>5. TypeOK'
  <2>1. site' \in [Positions -> Record] /\ next' \in [Positions -> Record]
    BY <1>2, <1>3, <1>4
  <2> QED BY <1>1, <1>4, <2>1 DEF IInv, TypeOK
<1>6. Stages'
  BY <1>1 DEF IInv, Stages
<1>7. EveryNthMatch' /\ Seen' /\ FarEnough' /\ SampleIsExact'
  BY <1>1, SelectionKept
<1>8. Probed'
  <2>1. todo' \subseteq select'.idx
    BY <1>1, <1>4 DEF IInv, Probed
  <2>2. ASSUME NEW q \in Positions
        PROVE  \/ next'[q] = Blank
               \/ /\ q \in select'.idx /\ site'[q] \in Sites
                  /\ next'[q] \in Outcomes[site'[q]]
    <3>1. CASE q = p
      <4>1. site'[q] = s /\ next'[q] = r
        BY <1>2, <1>3, <1>4, <3>1
      <4> QED BY <1>1, <1>4, <3>1, <4>1
    <3>2. CASE q # p
      <4>1. site'[q] = site[q] /\ next'[q] = next[q]
        BY <1>2, <1>3, <1>4, <3>2
      <4> QED BY <1>1, <4>1 DEF IInv, Probed
    <3> QED BY <3>1, <3>2
  <2> QED BY <2>1, <2>2 DEF Probed
<1>9. Found'
  BY <1>1 DEF IInv, Found, Compared
<1>10. SummaryAddsUp' /\ Earlier'
  BY <1>1, SummaryKept
<1> QED BY <1>5, <1>6, <1>7, <1>8, <1>9, <1>10 DEF IInv

LEMMA ScanEndsStep ==
  ASSUME IInv, ScanEnds
  PROVE  IInv'
<1>1. /\ at = "probe" /\ at' = "diff" /\ todo' = {} /\ i' = i
      /\ UNCHANGED <<prev, next, summary, select, changes, was, site>>
  BY DEF ScanEnds
<1>2. TypeOK'
  BY <1>1 DEF IInv, TypeOK
<1>3. Stages'
  BY <1>1 DEF IInv, Stages
<1>4. EveryNthMatch' /\ Seen' /\ FarEnough' /\ SampleIsExact'
  BY <1>1, SelectionKept
<1>5. Probed'
  BY <1>1 DEF IInv, Probed
<1>6. Found'
  <2>1. i = 0
    BY <1>1 DEF IInv, Stages
  <2>2. changes = {} /\ 0 .. 0 - 1 = {}
    BY <1>1, ZeroUpToN DEF IInv, Found, Compared
  <2> QED BY <1>1, <2>1, <2>2 DEF Found, Compared
<1>7. SummaryAddsUp' /\ Earlier'
  BY <1>1, SummaryKept
<1> QED BY <1>2, <1>3, <1>4, <1>5, <1>6, <1>7 DEF IInv

LEMMA DiffStep ==
  ASSUME IInv, Diff
  PROVE  IInv'
<1>1. /\ at = "diff" /\ at' \in {"diff", "done"}
      /\ UNCHANGED <<prev, next, summary, select, todo, was, site>>
  BY DEF Diff
<1>2. i \in Int /\ N \in Int /\ 0 <= i /\ i <= N
  BY Ranges DEF IInv, TypeOK
<1>3. \/ i = N /\ at' = "done" /\ i' = i /\ changes' = changes
      \/ /\ i \in Positions /\ at' = "diff" /\ i' = i + 1
         /\ changes' = IF Differs(prev[i], next[i]) THEN changes \cup {i} ELSE changes
  BY <1>2 DEF Diff, Positions
<1>4. TypeOK'
  <2>1. i' \in 0 .. N
    BY <1>2, <1>3 DEF Positions
  <2>2. changes' \in SUBSET Positions
    BY <1>3 DEF IInv, TypeOK
  <2> QED BY <1>1, <2>1, <2>2 DEF IInv, TypeOK
<1>5. Stages'
  BY <1>1 DEF IInv, Stages
<1>6. EveryNthMatch' /\ Seen' /\ FarEnough' /\ SampleIsExact'
  BY <1>1, SelectionKept
<1>7. Probed'
  BY <1>1 DEF IInv, Probed
<1>8. Found'
  <2>1. changes = {p \in 0 .. i - 1 : Differs(prev[p], next[p])}
    BY <1>1 DEF IInv, Found, Compared
  <2>2. CASE i = N /\ at' = "done" /\ changes' = changes
    BY <1>1, <2>1, <2>2 DEF Found, Compared, Positions
  <2>3. CASE /\ at' = "diff" /\ i' = i + 1
             /\ changes' = IF Differs(prev[i], next[i]) THEN changes \cup {i} ELSE changes
    <3>1. 0 .. i' - 1 = (0 .. i - 1) \cup {i}
      BY <1>2, <2>3
    <3>2. changes' = {p \in 0 .. i' - 1 : Differs(prev[p], next[p])}
      BY <2>1, <2>3, <3>1
    <3> QED BY <1>1, <2>3, <3>2 DEF Found, Compared
  <2> QED BY <1>3, <2>2, <2>3
<1>9. SummaryAddsUp' /\ Earlier'
  BY <1>1, SummaryKept
<1> QED BY <1>4, <1>5, <1>6, <1>7, <1>8, <1>9 DEF IInv

LEMMA Stutter ==
  ASSUME IInv, UNCHANGED vars
  PROVE  IInv'
<1>1. TypeOK' /\ Stages' /\ Earlier'
  BY DEF vars, IInv, TypeOK, Stages, Earlier
<1>2. Looked("build")' = Looked("build") /\ Looked("match")' = Looked("match")
      /\ Looked("draw")' = Looked("draw")
  BY DEF vars, Looked
<1>3. SummaryAddsUp'
  BY <1>2 DEF vars, IInv, SummaryAddsUp
<1>4. EveryNthMatch'
  BY <1>2 DEF vars, IInv, EveryNthMatch
<1>5. Seen' /\ FarEnough'
  BY DEF vars, IInv, Seen, Matches, FarEnough
<1>6. SampleIsExact'
  BY <1>2 DEF vars, IInv, SampleIsExact
<1>7. Probed' /\ Found'
  BY DEF vars, IInv, Probed, Found, Compared
<1> QED BY <1>1, <1>3, <1>4, <1>5, <1>6, <1>7 DEF IInv

LEMMA Inductive == Spec => []IInv
<1>1. Init => IInv
  BY InitIInv
<1>2. IInv /\ [Next]_vars => IInv'
  <2> SUFFICES ASSUME IInv, [Next]_vars PROVE IInv'
    OBVIOUS
  <2>1. CASE Build
    BY <2>1, BuildStep
  <2>2. CASE \E f \in RecheckFilters, s \in Strides : Recheck(f, s)
    BY <2>2, RecheckStep
  <2>3. CASE Match
    BY <2>3, MatchStep
  <2>4. CASE \E k \in Positions \cup {N} : Sample(k)
    BY <2>4, SampleStep
  <2>5. CASE Draw
    BY <2>5, DrawStep
  <2>6. CASE Selected
    BY <2>6, SelectedStep
  <2>7. CASE Probe
    BY <2>7, ProbeStep
  <2>8. CASE ScanEnds
    BY <2>8, ScanEndsStep
  <2>9. CASE Diff
    BY <2>9, DiffStep
  <2>10. CASE Done \/ UNCHANGED vars
    BY <2>10, Stutter DEF Done
  <2> QED BY <2>1, <2>2, <2>3, <2>4, <2>5, <2>6, <2>7, <2>8, <2>9, <2>10 DEF Next
<1> QED BY <1>1, <1>2, PTL DEF Spec

-----------------------------------------------------------------------------
(* The theorems.                                                           *)

\* Every variable has its type.
THEOREM TypeCorrect == Spec => []TypeOK
<1>1. IInv => TypeOK
  BY DEF IInv
<1> QED BY <1>1, Inductive, PTL

\* The tallies of report.Build add up at every record it reads: attempted or
\* not, supported, broken or unknown, and unknown only where in doubt, or torn.
THEOREM TalliesAddUp == Spec => []SummaryAddsUp
<1>1. IInv => SummaryAddsUp
  BY DEF IInv
<1> QED BY <1>1, Inductive, PTL

\* RecheckIndices takes exactly the matches with a multiple of the stride
\* before them (recheck.go:80).
THEOREM StrideTakesEveryNth == Spec => []EveryNthMatch
<1>1. IInv => EveryNthMatch
  BY DEF IInv
<1> QED BY <1>1, Inductive, PTL

\* Floyd's algorithm ends with k distinct positions of the corpus, whatever is
\* drawn (sample.go:38).
THEOREM SampleHasItsSize == Spec => []SampleIsExact
<1>1. IInv => SampleIsExact
  BY DEF IInv
<1> QED BY <1>1, Inductive, PTL

\* What the comparison knows of a position: each of its two records, if there is
\* one, is an outcome of the site of its time.
LEMMA Compare ==
  ASSUME IInv, NEW p \in Positions
  PROVE  /\ next[p].status # "unattempted" =>
              /\ p \in select.idx
              /\ WWWSupported(site[p]) /\ ~WWWSupported(next[p]) => MayHide(next[p])
              /\ WWWSupported(next[p]) /\ ~WWWSupported(site[p]) => MayFeign(next[p])
         /\ prev[p].status # "unattempted" =>
              /\ WWWSupported(was[p]) /\ ~WWWSupported(prev[p]) => MayHide(prev[p])
              /\ WWWSupported(prev[p]) /\ ~WWWSupported(was[p]) => MayFeign(prev[p])
<1>1. ASSUME next[p].status # "unattempted"
      PROVE  p \in select.idx /\ site[p] \in Sites /\ next[p] \in Outcomes[site[p]]
  BY <1>1, BlankRecord DEF IInv, Probed
<1>2. ASSUME prev[p].status # "unattempted"
      PROVE  was[p] \in Sites /\ prev[p] \in Outcomes[was[p]]
  BY <1>2, BlankRecord DEF IInv, Earlier
<1> QED BY <1>1, <1>2, OutcomeRecord

\* What `diff` reports as fixed or as broken is so, at the earlier site and at the
\* later one, except where one of the two records may mislead: in doubt, torn by
\* a kill, without an address, or a redirect (report.go:352, main.go:582).
THEOREM DiffTellsTheTruth == Spec => []DiffIsHonest
<1>1. ASSUME IInv PROVE DiffIsHonest
  <2> SUFFICES ASSUME NEW p \in changes
               PROVE  /\ p \in select.idx
                      /\ Fixed(p) => /\ WWWSupported(site[p]) \/ MayFeign(next[p])
                                     /\ ~WWWSupported(was[p]) \/ MayHide(prev[p])
                                     /\ select.filter # "working"
                      /\ Broke(p) => /\ ~WWWSupported(site[p]) \/ MayHide(next[p])
                                     /\ WWWSupported(was[p]) \/ MayFeign(prev[p])
                                     /\ select.filter # "broken"
    BY DEF DiffIsHonest
  <2>1. p \in Positions /\ Differs(prev[p], next[p])
    BY <1>1 DEF IInv, Found, Compared, TypeOK
  <2>2. prev[p].status # "unattempted" /\ next[p].status # "unattempted"
    BY <2>1 DEF Differs
  <2>3. /\ p \in select.idx
        /\ WWWSupported(site[p]) /\ ~WWWSupported(next[p]) => MayHide(next[p])
        /\ WWWSupported(next[p]) /\ ~WWWSupported(site[p]) => MayFeign(next[p])
        /\ WWWSupported(was[p]) /\ ~WWWSupported(prev[p]) => MayHide(prev[p])
        /\ WWWSupported(prev[p]) /\ ~WWWSupported(was[p]) => MayFeign(prev[p])
    BY <1>1, <2>1, <2>2, Compare
  <2>4. select.filter \in {"working", "broken"} => RecheckMatches(select.filter, prev[p])
    <3>1. select.filter # "" => select.by = "recheck"
      BY <1>1 DEF IInv, Stages
    <3> QED BY <1>1, <2>3, <3>1 DEF IInv, EveryNthMatch
  <2>5. /\ select.filter = "working" => WWWSupported(prev[p])
        /\ select.filter = "broken" => ~WWWSupported(prev[p])
    BY <2>4 DEF RecheckMatches
  <2> QED BY <2>3, <2>5 DEF Fixed, Broke
<1> QED BY <1>1, Inductive, PTL

\* A site that gained or lost www is in the diff, if neither of its two records
\* may mislead.
THEOREM DiffMissesNothing == Spec => []DiffIsComplete
<1>1. ASSUME IInv PROVE DiffIsComplete
  <2> SUFFICES ASSUME at = "done", NEW p \in Positions,
                      \A r \in {prev[p], next[p]} : ~MayHide(r) /\ ~MayFeign(r),
                      WWWSupported(was[p]) # WWWSupported(site[p])
               PROVE  p \in changes
    BY DEF DiffIsComplete
  <2>1. prev[p].status # "unattempted" /\ next[p].status # "unattempted"
    BY DEF MayHide, Conclusive
  <2>2. /\ WWWSupported(next[p]) <=> WWWSupported(site[p])
        /\ WWWSupported(prev[p]) <=> WWWSupported(was[p])
    BY <1>1, <2>1, Compare
  <2>3. WWWSupported(prev[p]) # WWWSupported(next[p])
    BY <2>2 DEF WWWSupported
  <2>4. Differs(prev[p], next[p])
    BY <2>1, <2>3 DEF Differs
  <2> QED BY <1>1, <2>4 DEF IInv, Found, Compared
<1> QED BY <1>1, Inductive, PTL

-----------------------------------------------------------------------------
(* What a recheck of the broken takes, against what the report counts.     *)

\* c is n / s, rounded up.
Covers(s, n, c) == n <= s * c /\ s * c < n + s

LEMMA DivMod ==
  ASSUME NEW s \in Nat \ {0}, NEW n \in Nat
  PROVE  n = s * (n \div s) + (n % s) /\ n % s \in 0 .. s - 1 /\ n \div s \in Nat
  OBVIOUS

LEMMA NoRemainder ==
  ASSUME NEW s \in Nat \ {0}, NEW c \in Nat, NEW n \in Nat, n = s * c
  PROVE  n % s = 0
<1>1. n \div s = c
  OBVIOUS
<1>2. n = s * (n \div s) + (n % s) /\ n % s \in 0 .. s - 1
  BY DivMod
<1> QED BY <1>1, <1>2

LEMMA CoversIsCeiling ==
  ASSUME NEW s \in Nat \ {0}, NEW n \in Nat, NEW c \in Nat, Covers(s, n, c)
  PROVE  c = (n + s - 1) \div s
<1>1. \A m \in Nat : s * c <= m /\ m < s * c + s => m \div s = c
  OBVIOUS
<1> QED BY <1>1 DEF Covers

LEMMA CoversOneMore ==
  ASSUME NEW s \in Nat \ {0}, NEW n \in Nat, NEW c \in Nat, Covers(s, n, c)
  PROVE  Covers(s, n + 1, IF n % s = 0 THEN c + 1 ELSE c)
<1>1. CASE n % s = 0
  <2>1. n = s * (n \div s) /\ n \div s \in Nat
    BY <1>1, DivMod
  <2>2. PICK q \in Nat : n = s * q
    BY <2>1
  <2>3. s * c < s * (q + 1)
    BY <2>2 DEF Covers
  <2>4. c < q + 1 /\ c >= q
    BY <2>2, <2>3 DEF Covers
  <2>5. c = q
    BY <2>4
  <2> QED BY <1>1, <2>2, <2>5 DEF Covers
<1>2. CASE n % s # 0
  <2>1. n # s * c
    BY <1>2, NoRemainder
  <2> QED BY <1>2, <2>1 DEF Covers
<1> QED BY <1>1, <1>2

Broken == {p \in Positions : Bucket(prev[p]) = "broken"}

\* How far the count of the broken is, how many matches a recheck has met, and
\* which part of them it has taken.
Rechecked ==
    /\ at = "build" => summary.broken = Cardinality({p \in Broken : p < i})
    /\ at # "build" => summary.broken = Cardinality(Broken)
    /\ select.by = "recheck" =>
          /\ at # "match" => select.seen = Cardinality(Matches)
          /\ Covers(select.stride, select.seen, Cardinality(select.idx))

LEMMA RecheckedInit ==
  ASSUME Init
  PROVE  Rechecked
<1>1. at = "build" /\ i = 0 /\ summary.broken = 0 /\ select.by # "recheck"
  BY DEF Init, Nothing
<1>2. {p \in Broken : p < 0} = {}
  BY NAssumption DEF Broken, Positions
<1> QED BY <1>1, <1>2, FS_EmptySet DEF Rechecked

LEMMA RecheckedBuild ==
  ASSUME IInv, Rechecked, Build
  PROVE  Rechecked'
<1>1. /\ at = "build" /\ Broken' = Broken /\ Broken \in SUBSET Positions
      /\ select' = select /\ select.by # "recheck" /\ i \in 0 .. N
      /\ summary.broken = Cardinality({p \in Broken : p < i})
  BY DEF Build, Broken, IInv, Stages, TypeOK, Rechecked
<1>2. CASE i = N
  <2>1. {p \in Broken : p < N} = Broken
    BY NAssumption DEF Broken, Positions
  <2> QED BY <1>1, <1>2, <2>1 DEF Build, Rechecked
<1>3. CASE i # N
  <2>1. /\ at' = "build" /\ i' = i + 1 /\ summary' = Counted(summary, prev[i])
        /\ summary \in Summary
    BY <1>1, <1>3 DEF Build, IInv, TypeOK
  <2>2. i \in Positions
    BY <1>1, <1>3, NAssumption DEF Positions
  <2>3. prev[i] \in Record /\ summary.broken \in Nat
    BY <2>1, <2>2 DEF IInv, TypeOK, Summary
  <2>4. summary'.broken = summary.broken + IF i \in Broken THEN 1 ELSE 0
    <3>1. CASE prev[i].status = "unattempted"
      <4>1. summary'.broken = summary.broken
        BY <2>1, <3>1, CountedNothing DEF Summary
      <4>2. i \notin Broken
        BY <3>1 DEF Bucket, Broken
      <4> QED BY <2>3, <4>1, <4>2
    <3>2. CASE prev[i].status # "unattempted"
      BY <2>1, <2>2, <2>3, <3>2, CountedFields DEF If, Broken
    <3> QED BY <3>1, <3>2
  <2>5. Cardinality({p \in Broken : p < i + 1}) =
           Cardinality({p \in Broken : p < i}) + IF i \in Broken THEN 1 ELSE 0
    BY <1>1, <2>2, Further DEF Upto
  <2> QED BY <1>1, <2>1, <2>4, <2>5 DEF Rechecked
<1> QED BY <1>2, <1>3

LEMMA RecheckedMatch ==
  ASSUME IInv, Rechecked, Match
  PROVE  Rechecked'
<1> DEFINE s == select.stride
           n == select.seen
<1>1. /\ at = "match" /\ at' = "match" /\ i \in Positions
      /\ prev' = prev /\ summary' = summary /\ select.by = "recheck"
      /\ s \in Nat \ {0} /\ n \in Nat /\ select.idx \in SUBSET Positions
      /\ select \in SelectType
  <2>1. /\ at = "match" /\ at' = "match" /\ i < N /\ i \in 0 .. N
        /\ prev' = prev /\ summary' = summary /\ select.by = "recheck"
    BY DEF Match, OnlySelect, IInv, Stages, TypeOK
  <2>2. i \in Positions
    BY <2>1, NAssumption DEF Positions
  <2>3. select \in SelectType
    BY DEF IInv, TypeOK, SelectType
  <2>4. s \in Nat \ {0} /\ n \in Nat /\ select.idx \in SUBSET Positions
    BY <2>3 DEF SelectType
  <2> QED BY <2>1, <2>2, <2>3, <2>4
<1>2. i \notin select.idx /\ Cardinality(select.idx) \in Nat
  <2>1. select.idx \subseteq 0 .. i - 1
    BY <1>1 DEF IInv, EveryNthMatch, Looked
  <2> QED BY <1>1, <2>1, Subset, NAssumption DEF Positions
<1>3. Cardinality(select.idx \cup {i}) = Cardinality(select.idx) + 1
  BY <1>1, <1>2, OneMore
<1>4. Covers(s, n, Cardinality(select.idx))
  BY <1>1 DEF Rechecked
<1>5. Covers(s, n + 1, IF n % s = 0 THEN Cardinality(select.idx) + 1
                                    ELSE Cardinality(select.idx))
  BY <1>1, <1>2, <1>4, CoversOneMore
<1>6. /\ select'.by = "recheck" /\ select'.stride = s
      /\ \/ select'.seen = n /\ select'.idx = select.idx
         \/ /\ select'.seen = n + 1
            /\ select'.idx = IF n % s = 0 THEN select.idx \cup {i} ELSE select.idx
  BY <1>1 DEF Match, SelectType
<1>7. Covers(select'.stride, select'.seen, Cardinality(select'.idx))
  BY <1>3, <1>4, <1>5, <1>6
<1>8. Broken' = Broken
  BY <1>1 DEF Broken
<1> QED BY <1>1, <1>7, <1>8 DEF Rechecked

LEMMA RecheckedStep ==
  ASSUME IInv, Rechecked, [Next]_vars
  PROVE  Rechecked'
<1>1. CASE Build
  BY <1>1, RecheckedBuild
<1>2. ASSUME NEW f \in RecheckFilters, NEW stride \in Strides, Recheck(f, stride)
      PROVE  Rechecked'
  <2>1. /\ at = "choose" /\ at' = "match" /\ prev' = prev /\ summary' = summary
        /\ select.idx = {} /\ select.seen = 0 /\ select \in SelectType
    BY <1>2 DEF Recheck, OnlySelect, IInv, Stages, TypeOK, SelectType
  <2>2. /\ select'.by = "recheck" /\ select'.idx = {} /\ select'.seen = 0
        /\ select'.stride \in Nat \ {0}
    <3>1. (IF stride < 1 THEN 1 ELSE stride) \in Nat \ {0}
      BY StridesAssumption
    <3> QED BY <1>2, <2>1, <3>1 DEF Recheck, SelectType
  <2>3. Covers(select'.stride, 0, 0)
    BY <2>2 DEF Covers
  <2>4. Broken' = Broken
    BY <2>1 DEF Broken
  <2> QED BY <2>1, <2>2, <2>3, <2>4, FS_EmptySet DEF Rechecked
<1>3. CASE Match
  BY <1>3, RecheckedMatch
<1>4. ASSUME NEW k \in Positions \cup {N}, Sample(k)
      PROVE  Rechecked'
  <2>1. /\ at = "choose" /\ at' = "draw" /\ prev' = prev /\ summary' = summary
        /\ select'.by = "sample"
    BY <1>4 DEF Sample, OnlySelect, IInv, TypeOK
  <2> QED BY <2>1 DEF Rechecked, Broken
<1>5. CASE Draw
  <2>1. /\ at = "draw" /\ at' = "draw" /\ prev' = prev /\ summary' = summary
        /\ select'.by = "sample"
    BY <1>5 DEF Draw, OnlySelect, IInv, Stages, TypeOK
  <2> QED BY <2>1 DEF Rechecked, Broken
<1>6. CASE Selected
  <2>1. /\ at \in {"match", "draw"} /\ i = N /\ at' \in {"refused", "probe"}
        /\ UNCHANGED <<prev, summary, select>>
    BY <1>6 DEF Selected, OnlySelect
  <2>2. Broken' = Broken /\ Matches' = Matches /\ {q \in Matches : q < N} = Matches
    BY <2>1, NAssumption DEF Broken, Matches, Positions
  <2>3. select.by = "recheck" => select.seen = Cardinality(Matches)
    BY <2>1, <2>2 DEF IInv, Seen, Stages
  <2> QED BY <2>1, <2>2, <2>3 DEF Rechecked
<1>7. CASE Probe \/ ScanEnds \/ Diff \/ Done
  <2>1. /\ UNCHANGED <<prev, summary, select>>
        /\ at \notin {"build", "match"} /\ at' \notin {"build", "match"}
    BY <1>7 DEF Probe, ScanEnds, Diff, Done, vars
  <2> QED BY <2>1 DEF Rechecked, Broken, Matches
<1>8. CASE UNCHANGED vars
  BY <1>8 DEF vars, Rechecked, Broken, Matches
<1> QED BY <1>1, <1>2, <1>3, <1>4, <1>5, <1>6, <1>7, <1>8 DEF Next

\* A recheck of the broken takes one in a stride of what the report counted as
\* broken, rounded up: the two loops ask the same (report.go:106, recheck.go:50).
THEOREM RecheckTakesTheReported == Spec => []ReportedIsRechecked
<1>1. Init => Rechecked
  BY RecheckedInit
<1>2. IInv /\ Rechecked /\ [Next]_vars => Rechecked'
  BY RecheckedStep
<1>3. ASSUME IInv, Rechecked PROVE ReportedIsRechecked
  <2> SUFFICES ASSUME select.filter = "broken", at # "match"
               PROVE  Cardinality(select.idx) =
                         (summary.broken + select.stride - 1) \div select.stride
    BY DEF ReportedIsRechecked
  <2>1. select.by = "recheck" /\ at # "build"
    BY <1>3 DEF IInv, Stages
  <2>2. Matches = Broken
    BY DEF Matches, Broken, RecheckMatches, Bucket
  <2>3. select.seen = summary.broken
    BY <1>3, <2>1, <2>2 DEF Rechecked
  <2>4. Covers(select.stride, select.seen, Cardinality(select.idx))
    BY <1>3, <2>1 DEF Rechecked
  <2>5. /\ select.stride \in Nat \ {0} /\ select.seen \in Nat
        /\ Cardinality(select.idx) \in Nat
    BY <1>3, Subset DEF IInv, TypeOK
  <2> QED BY <2>3, <2>4, <2>5, CoversIsCeiling
<1> QED BY <1>1, <1>2, <1>3, Inductive, PTL DEF Spec

-----------------------------------------------------------------------------
(* Induction.  The library's theorems about it take the predicate as a      *)
(* parameter; here it is a set of numbers, and the library's least element  *)
(* of a well-founded order is all it takes.                                 *)

LEMMA Least ==
  ASSUME NEW T \in SUBSET Nat, T # {}
  PROVE  \E x \in T : \A y \in T : x <= y
<1>1. PICK x \in T : \A y \in T : ~(<<y, x>> \in OpToRel(<, Nat))
  BY NatLessThanWellFounded, WFMin
<1>2. \A y \in T : ~(y < x)
  BY <1>1 DEF OpToRel
<1> QED BY <1>2

LEMMA Induct ==
  ASSUME NEW S \in SUBSET Nat, 0 \in S, \A n \in S : n + 1 \in S
  PROVE  S = Nat
<1> SUFFICES ASSUME Nat \ S # {} PROVE FALSE
  OBVIOUS
<1>1. PICK x \in Nat \ S : \A y \in Nat \ S : x <= y
  BY Least
<1>2. x # 0 /\ x - 1 \in Nat
  BY <1>1
<1>3. x - 1 \in S
  BY <1>1, <1>2
<1> QED BY <1>2, <1>3

-----------------------------------------------------------------------------
(* A set counted by what its members are made of: where the first part may  *)
(* be any of S, and each leaves c values for the rest.                      *)

Parts(D, S, c, first, rest, L) ==
    /\ \A t \in S : IsFiniteSet(L[t]) /\ Cardinality(L[t]) = c
    /\ \A d \in D : first[d] \in S /\ rest[d] \in L[first[d]]
    /\ \A d, e \in D : first[d] = first[e] /\ rest[d] = rest[e] => d = e
    /\ \A t \in S : \A r \in L[t] : \E d \in D : first[d] = t /\ rest[d] = r

LEMMA CountedByParts ==
  ASSUME NEW D, NEW S, IsFiniteSet(S), NEW c \in Nat,
         NEW first, NEW rest, NEW L, Parts(D, S, c, first, rest, L)
  PROVE  IsFiniteSet(D) /\ Cardinality(D) = Cardinality(S) * c
<1> USE DEF Parts
<1> DEFINE h == [t \in S |-> CHOOSE g : g \in Bijection(L[t], 1 .. c)]
           F == [d \in D |-> <<first[d], h[first[d]][rest[d]]>>]
<1>1. ASSUME NEW t \in S
      PROVE  h[t] \in Bijection(L[t], 1 .. c)
  <2>1. ExistsBijection(1 .. c, L[t])
    BY FS_CardinalityType
  <2>2. ExistsBijection(L[t], 1 .. c)
    BY <2>1, Fun_ExistsBijSymmetric
  <2>3. \E g : g \in Bijection(L[t], 1 .. c)
    BY <2>2, Fun_ExistsBij
  <2>4. h[t] = CHOOSE g : g \in Bijection(L[t], 1 .. c)
    OBVIOUS
  <2> HIDE DEF h
  <2> QED BY <2>3, <2>4
<1>2. ASSUME NEW d \in D
      PROVE  F[d] = <<first[d], h[first[d]][rest[d]]>>
  OBVIOUS
<1>3. ASSUME NEW t \in S
      PROVE  /\ \A r \in L[t] : h[t][r] \in 1 .. c
             /\ \A r, q \in L[t] : h[t][r] = h[t][q] => r = q
             /\ \A x \in 1 .. c : \E r \in L[t] : h[t][r] = x
  <2>1. h[t] \in Bijection(L[t], 1 .. c)
    BY <1>1
  <2>2. PICK g : g = h[t]
    OBVIOUS
  <2>3. g \in Bijection(L[t], 1 .. c)
    BY <2>1, <2>2
  <2>4. /\ g \in [L[t] -> 1 .. c]
        /\ \A r, q \in L[t] : g[r] = g[q] => r = q
        /\ \A x \in 1 .. c : \E r \in L[t] : g[r] = x
    BY <2>3 DEF Bijection, Injection, Surjection, IsInjective
  <2> HIDE DEF h
  <2> QED BY <2>2, <2>4
<1> HIDE DEF h
<1>4. F \in [D -> S \X (1 .. c)]
  BY <1>3
<1> HIDE DEF F
<1>5. ASSUME NEW d \in D, NEW e \in D, F[d] = F[e]
      PROVE  d = e
  <2>1. first[d] = first[e] /\ h[first[d]][rest[d]] = h[first[e]][rest[e]]
    BY <1>2, <1>5
  <2>2. rest[d] = rest[e]
    BY <1>3, <2>1
  <2> QED BY <2>1, <2>2
<1>6. ASSUME NEW y \in S \X (1 .. c)
      PROVE  \E d \in D : F[d] = y
  <2>1. PICK t \in S, x \in 1 .. c : y = <<t, x>>
    OBVIOUS
  <2>2. PICK r \in L[t] : h[t][r] = x
    BY <1>3
  <2>3. PICK d \in D : first[d] = t /\ rest[d] = r
    OBVIOUS
  <2> QED BY <1>2, <2>1, <2>2, <2>3
<1>7. ExistsBijection(D, S \X (1 .. c))
  <2>1. F \in Bijection(D, S \X (1 .. c))
    BY <1>4, <1>5, <1>6, Fun_IsBij
  <2> QED BY <2>1, Fun_ExistsBij
<1>8. IsFiniteSet(1 .. c) /\ Cardinality(1 .. c) = c
  <2>1. 1 \in Int /\ c \in Int
    OBVIOUS
  <2>2. IsFiniteSet(1 .. c) /\ Cardinality(1 .. c) = IF 1 > c THEN 0 ELSE c - 1 + 1
    BY <2>1, FS_Interval
  <2> QED BY <2>2
<1>9. IsFiniteSet(S \X (1 .. c)) /\ Cardinality(S \X (1 .. c)) = Cardinality(S) * c
  <2> DEFINE T == 1 .. c
  <2>1. IsFiniteSet(T) /\ Cardinality(T) = c
    BY <1>8
  <2> HIDE DEF T
  <2>2. IsFiniteSet(S \X T) /\ Cardinality(S \X T) = Cardinality(S) * Cardinality(T)
    BY <2>1, FS_Product
  <2>3. IsFiniteSet(S \X T) /\ Cardinality(S \X T) = Cardinality(S) * c
    BY <2>1, <2>2
  <2> QED BY <2>3 DEF T
<1>10. ExistsBijection(S \X (1 .. c), D)
  BY <1>7, Fun_ExistsBijSymmetric
<1> QED BY <1>9, <1>10, FS_Bijection

-----------------------------------------------------------------------------
(* The recursion of Drawn: what it is worth after one draw more.            *)

\* f lists the sets that the draws d lead to, up to iteration j.
Chosen(k, j, d, f) ==
    f = [m \in N - k .. j |-> IF m = N - k THEN {} ELSE Insert(f[m - 1], d[m - 1], m - 1)]

LEMMA ChosenValues ==
  ASSUME NEW k \in 1 .. N, NEW j \in Int, NEW d, NEW f, Chosen(k, j, d, f),
         NEW m \in N - k .. j
  PROVE  f[m] = IF m = N - k THEN {} ELSE Insert(f[m - 1], d[m - 1], m - 1)
<1> DEFINE g == [n \in N - k .. j |-> IF n = N - k THEN {}
                                      ELSE Insert(f[n - 1], d[n - 1], n - 1)]
<1>1. f = g
  BY DEF Chosen
<1>2. g[m] = IF m = N - k THEN {} ELSE Insert(f[m - 1], d[m - 1], m - 1)
  OBVIOUS
<1> HIDE DEF g
<1> QED BY <1>1, <1>2

\* The draws up to an iteration determine the sets up to there.
LEMMA ChosenUnique ==
  ASSUME NEW k \in 1 .. N, NEW j \in Int, NEW l \in Int, j <= l,
         NEW d, NEW e, NEW f, NEW g, Chosen(k, j, d, f), Chosen(k, l, e, g),
         \A m \in N - k .. j - 1 : d[m] = e[m]
  PROVE  \A m \in N - k .. j : f[m] = g[m]
<1> DEFINE T == {n \in Nat : N - k + n \in N - k .. j /\ f[N - k + n] # g[N - k + n]}
<1>1. N \in Int /\ k \in Int
  BY NAssumption
<1>2. ASSUME T # {}
      PROVE  FALSE
  <2>1. PICK n \in T : \A y \in T : n <= y
    BY <1>2, Least
  <2> DEFINE m == N - k + n
  <2>2. n \in Nat /\ m \in N - k .. j /\ f[m] # g[m] /\ m \in N - k .. l
    BY <1>1, <2>1
  <2>3. CASE n = 0
    <3>1. m = N - k
      BY <1>1, <2>3
    <3>2. f[m] = {} /\ g[m] = {}
      BY <2>2, <3>1, ChosenValues
    <3> QED BY <2>2, <3>2
  <2>4. CASE n # 0
    <3>1. n - 1 \in Nat /\ n - 1 \notin T
      BY <2>1, <2>2, <2>4
    <3>2. /\ m # N - k /\ m - 1 \in N - k .. j /\ m - 1 \in N - k .. j - 1
          /\ m - 1 = N - k + (n - 1)
      BY <1>1, <2>2, <2>4
    <3>3. f[m - 1] = g[m - 1]
      BY <3>1, <3>2
    <3>4. /\ f[m] = Insert(f[m - 1], d[m - 1], m - 1)
          /\ g[m] = Insert(g[m - 1], e[m - 1], m - 1)
      BY <2>2, <3>2, ChosenValues
    <3>5. d[m - 1] = e[m - 1]
      BY <3>2
    <3> QED BY <2>2, <3>3, <3>4, <3>5
  <2> QED BY <2>3, <2>4
<1>3. ASSUME NEW m \in N - k .. j
      PROVE  f[m] = g[m]
  <2>1. m - (N - k) \in Nat /\ m = N - k + (m - (N - k))
    BY <1>1
  <2> QED BY <1>2, <2>1
<1> QED BY <1>3

LEMMA ChosenExists ==
  ASSUME NEW k \in 1 .. N, NEW n \in Nat, NEW d
  PROVE  \E f : Chosen(k, N - k + n, d, f)
<1> DEFINE S == {m \in Nat : \E f : Chosen(k, N - k + m, d, f)}
<1>1. N \in Int /\ k \in Int
  BY NAssumption
<1>2. 0 \in S
  <2> DEFINE f == [m \in N - k .. N - k + 0 |-> {}]
  <2>1. \A m \in N - k .. N - k + 0 : m = N - k
    BY <1>1
  <2>2. Chosen(k, N - k + 0, d, f)
    BY <2>1 DEF Chosen
  <2> QED BY <2>2
<1>3. ASSUME NEW m \in S
      PROVE  m + 1 \in S
  <2> DEFINE j == N - k + m
  <2>1. PICK f : Chosen(k, j, d, f)
    OBVIOUS
  <2> DEFINE g == [x \in N - k .. j + 1 |->
                     IF x = j + 1 THEN Insert(f[j], d[j], j) ELSE f[x]]
  <2>2. j \in Int /\ N - k <= j
    BY <1>1
  <2>3. ASSUME NEW x \in N - k .. j + 1
        PROVE  g[x] = IF x = N - k THEN {} ELSE Insert(g[x - 1], d[x - 1], x - 1)
    <3>1. CASE x = j + 1
      <4>1. x # N - k /\ x - 1 = j /\ j \in N - k .. j + 1 /\ j # j + 1
        BY <1>1, <2>2, <3>1
      <4>2. g[j] = f[j] /\ g[x] = Insert(f[j], d[j], j)
        BY <3>1, <4>1
      <4> HIDE DEF g, j
      <4> QED BY <4>1, <4>2
    <3>2. CASE x # j + 1
      <4>1. x \in N - k .. j
        BY <1>1, <2>2, <3>2
      <4>2. g[x] = f[x]
        BY <3>2
      <4>3. f[x] = IF x = N - k THEN {} ELSE Insert(f[x - 1], d[x - 1], x - 1)
        BY <2>1, <2>2, <4>1, ChosenValues
      <4>4. x # N - k => x - 1 \in N - k .. j + 1 /\ x - 1 # j + 1
        BY <1>1, <2>2, <4>1
      <4>5. x # N - k => g[x - 1] = f[x - 1]
        BY <4>4
      <4> HIDE DEF g, j
      <4> QED BY <4>2, <4>3, <4>5
    <3> QED BY <3>1, <3>2
  <2>4. g = [x \in N - k .. j + 1 |-> g[x]]
    OBVIOUS
  <2>5. Chosen(k, j + 1, d, g)
    <3> HIDE DEF g, j
    <3> QED BY <2>3, <2>4 DEF Chosen
  <2>6. N - k + (m + 1) = j + 1
    BY <1>1
  <2>7. Chosen(k, N - k + (m + 1), d, g)
    BY <2>5, <2>6
  <2> QED BY <2>7
<1>4. S = Nat
  <2>1. S \in SUBSET Nat
    OBVIOUS
  <2> HIDE DEF S
  <2> QED BY <1>2, <1>3, <2>1, Induct
<1> QED BY <1>4

\* Iterations of the loop, as so many after the first.
LEMMA Iterations ==
  ASSUME NEW k \in 1 .. N, NEW j \in N - k .. N
  PROVE  /\ N \in Nat /\ k \in Nat /\ j \in Nat /\ N - k \in Nat /\ N - k <= j
         /\ j - (N - k) \in Nat /\ j = N - k + (j - (N - k))
  BY NAssumption

LEMMA DrawnIs ==
  ASSUME NEW k \in 1 .. N, NEW j \in N - k .. N, NEW d
  PROVE  \E f : Chosen(k, j, d, f) /\ Drawn(k, j, d) = f[j]
<1> DEFINE f == CHOOSE g : g = [m \in N - k .. j |->
                    IF m = N - k THEN {} ELSE Insert(g[m - 1], d[m - 1], m - 1)]
<1>1. \E g : Chosen(k, j, d, g)
  <2>1. PICK n \in Nat : j = N - k + n
    BY Iterations
  <2>2. \E g : Chosen(k, N - k + n, d, g)
    BY ChosenExists
  <2> QED BY <2>1, <2>2
<1>2. Chosen(k, j, d, f)
  BY <1>1 DEF Chosen
<1>3. Drawn(k, j, d) = f[j]
  BY DEF Drawn
<1> HIDE DEF f
<1> QED BY <1>2, <1>3

\* Before the first draw nothing is chosen.
LEMMA DrawnStart ==
  ASSUME NEW k \in 1 .. N, NEW d
  PROVE  Drawn(k, N - k, d) = {}
<1>1. N - k \in N - k .. N /\ N - k \in N - k .. N - k /\ N - k \in Int
  BY NAssumption
<1>2. PICK f : Chosen(k, N - k, d, f) /\ Drawn(k, N - k, d) = f[N - k]
  BY <1>1, DrawnIs
<1> QED BY <1>1, <1>2, ChosenValues

\* A draw more inserts one position into what the draws before led to.
LEMMA DrawnNext ==
  ASSUME NEW k \in 1 .. N, NEW j \in N - k .. N - 1, NEW d, NEW e,
         \A m \in N - k .. j - 1 : e[m] = d[m]
  PROVE  Drawn(k, j + 1, d) = Insert(Drawn(k, j, e), d[j], j)
<1>1. /\ j \in N - k .. N /\ j + 1 \in N - k .. N /\ j \in Int /\ j + 1 \in Int
      /\ j <= j + 1 /\ j \in N - k .. j /\ j + 1 \in N - k .. j + 1
      /\ j + 1 # N - k /\ (j + 1) - 1 = j
  BY NAssumption
<1>2. PICK f : Chosen(k, j, e, f) /\ Drawn(k, j, e) = f[j]
  BY <1>1, DrawnIs
<1>3. PICK g : Chosen(k, j + 1, d, g) /\ Drawn(k, j + 1, d) = g[j + 1]
  BY <1>1, DrawnIs
<1>4. f[j] = g[j]
  BY <1>1, <1>2, <1>3, ChosenUnique
<1>5. g[j + 1] = Insert(g[(j + 1) - 1], d[(j + 1) - 1], (j + 1) - 1)
  BY <1>1, <1>3, ChosenValues
<1> QED BY <1>1, <1>2, <1>3, <1>4, <1>5

-----------------------------------------------------------------------------
(* The sequences of draws behind a likelihood.                              *)

Sequences(k, j) ==
    {d \in [N - k .. j - 1 -> Positions] : \A m \in N - k .. j - 1 : d[m] \in Draws(m)}

Leading(k, j, S) == {d \in Sequences(k, j) : Drawn(k, j, d) = S}

LEMMA LikelihoodCounts ==
  ASSUME NEW k, NEW j, NEW S
  PROVE  Likelihood(k, j, S) = Cardinality(Leading(k, j, S))
<1>1. Leading(k, j, S) =
        {d \in [N - k .. j - 1 -> Positions] :
            (\A m \in N - k .. j - 1 : d[m] \in Draws(m)) /\ Drawn(k, j, d) = S}
  BY DEF Leading, Sequences
<1> QED BY <1>1 DEF Likelihood

\* The draws before the last one.
Before(k, j, d) == [m \in N - k .. j - 1 |-> d[m]]

LEMMA BeforeSequence ==
  ASSUME NEW k \in 1 .. N, NEW j \in N - k .. N - 1, NEW d \in Sequences(k, j + 1)
  PROVE  /\ Before(k, j, d) \in Sequences(k, j)
         /\ \A m \in N - k .. j - 1 : Before(k, j, d)[m] = d[m]
         /\ d[j] \in Draws(j) /\ DOMAIN d = N - k .. j
         /\ Drawn(k, j + 1, d) = Insert(Drawn(k, j, Before(k, j, d)), d[j], j)
<1>1. /\ (j + 1) - 1 = j /\ j \in N - k .. j
      /\ \A m \in N - k .. j - 1 : m \in N - k .. j
  BY NAssumption
<1>2. d \in [N - k .. j -> Positions] /\ \A m \in N - k .. j : d[m] \in Draws(m)
  BY <1>1 DEF Sequences
<1>3. \A m \in N - k .. j - 1 : Before(k, j, d)[m] = d[m]
  BY DEF Before
<1>4. Before(k, j, d) \in [N - k .. j - 1 -> Positions]
  BY <1>1, <1>2 DEF Before
<1>5. Before(k, j, d) \in Sequences(k, j)
  BY <1>1, <1>2, <1>3, <1>4 DEF Sequences
<1>6. Drawn(k, j + 1, d) = Insert(Drawn(k, j, Before(k, j, d)), d[j], j)
  BY <1>3, DrawnNext
<1> QED BY <1>1, <1>2, <1>3, <1>5, <1>6

\* Every sequence of draws up to iteration j leads to as many positions as it has
\* draws.
Sized(k, j) ==
    \A d \in Sequences(k, j) :
        /\ Drawn(k, j, d) \in SUBSET (0 .. j - 1)
        /\ Cardinality(Drawn(k, j, d)) = j - (N - k)

LEMMA DrawnSize ==
  ASSUME NEW k \in 1 .. N, NEW j \in N - k .. N, NEW d \in Sequences(k, j)
  PROVE  Drawn(k, j, d) \in SUBSET (0 .. j - 1) /\ Cardinality(Drawn(k, j, d)) = j - (N - k)
<1> DEFINE T == {n \in Nat : N - k + n <= N => Sized(k, N - k + n)}
<1>1. N \in Int /\ k \in Int /\ N - k \in Nat /\ N - k <= N
  BY NAssumption
<1>2. 0 \in T
  <2>1. N - k + 0 = N - k /\ (N - k) - (N - k) = 0
    BY <1>1
  <2>2. ASSUME NEW e
        PROVE  Drawn(k, N - k, e) \in SUBSET (0 .. (N - k) - 1)
               /\ Cardinality(Drawn(k, N - k, e)) = 0
    BY DrawnStart, FS_EmptySet
  <2>3. Sized(k, N - k)
    BY <2>1, <2>2 DEF Sized
  <2> QED BY <2>1, <2>3
<1>3. ASSUME NEW n \in T
      PROVE  n + 1 \in T
  <2>0. PICK l \in Nat : l = N - k + n
    BY <1>1
  <2> SUFFICES ASSUME l + 1 <= N PROVE Sized(k, l + 1)
    <3>1. N - k + (n + 1) = l + 1 /\ n + 1 \in Nat
      BY <1>1, <2>0
    <3> QED BY <3>1
  <2>1. /\ l \in N - k .. N - 1 /\ l \in Positions /\ l \in Nat /\ (l + 1) - 1 = l
        /\ (l + 1) - (N - k) = l - (N - k) + 1
    BY <1>1, <2>0 DEF Positions
  <2>2. Sized(k, l)
    <3>1. N - k + n <= N => Sized(k, N - k + n)
      OBVIOUS
    <3>2. N - k + n <= N
      BY <1>1, <2>0
    <3> QED BY <2>0, <3>1, <3>2
  <2>3. ASSUME NEW e \in Sequences(k, l + 1)
        PROVE  /\ Drawn(k, l + 1, e) \in SUBSET (0 .. (l + 1) - 1)
               /\ Cardinality(Drawn(k, l + 1, e)) = (l + 1) - (N - k)
    <3> DEFINE C == Drawn(k, l, Before(k, l, e))
    <3>1. /\ Before(k, l, e) \in Sequences(k, l) /\ e[l] \in Draws(l)
          /\ Drawn(k, l + 1, e) = Insert(C, e[l], l)
      BY <2>1, BeforeSequence
    <3>2. C \in SUBSET (0 .. l - 1) /\ Cardinality(C) = l - (N - k)
      BY <2>2, <3>1 DEF Sized
    <3> HIDE DEF C
    <3>3. /\ Insert(C, e[l], l) \in SUBSET (0 .. l)
          /\ Cardinality(Insert(C, e[l], l)) = Cardinality(C) + 1
      BY <2>1, <3>1, <3>2, InsertAdds
    <3> QED BY <2>1, <3>1, <3>2, <3>3
  <2> QED BY <2>3 DEF Sized
<1>4. T = Nat
  <2>1. T \in SUBSET Nat
    OBVIOUS
  <2> HIDE DEF T
  <2> QED BY <1>2, <1>3, <2>1, Induct
<1>5. j - (N - k) \in T
  BY <1>4, Iterations
<1>6. N - k + (j - (N - k)) = j /\ j <= N
  BY Iterations
<1>7. Sized(k, j)
  <2> QED BY <1>5, <1>6
<1> QED BY <1>7 DEF Sized

\* What was chosen before t was drawn, if S is the result.
Without(S, t, j) == IF j \in S THEN S \ {j} ELSE S \ {t}

LEMMA InsertUndone ==
  ASSUME NEW j \in Nat, NEW C \in SUBSET (0 .. j - 1), NEW t \in Draws(j),
         NEW S \in SUBSET (0 .. j)
  PROVE  Insert(C, t, j) = S <=> t \in S /\ C = Without(S, t, j)
<1>1. j \notin C
  OBVIOUS
<1>2. CASE t \in C
  <2>1. t # j /\ Insert(C, t, j) = C \cup {j}
    BY <1>1, <1>2 DEF Insert
  <2> QED BY <1>1, <1>2, <2>1 DEF Without
<1>3. CASE t \notin C
  <2>1. Insert(C, t, j) = C \cup {t}
    BY <1>3 DEF Insert
  <2> QED BY <1>1, <1>3, <2>1 DEF Without
<1> QED BY <1>2, <1>3

LEMMA WithoutOne ==
  ASSUME NEW j \in Positions, NEW S \in SUBSET (0 .. j), NEW t \in S
  PROVE  /\ Without(S, t, j) \in SUBSET (0 .. j - 1)
         /\ Cardinality(Without(S, t, j)) = Cardinality(S) - 1
         /\ IsFiniteSet(S) /\ Cardinality(S) \in Nat
<1>1. j \in Nat /\ S \in SUBSET Positions
  BY NAssumption DEF Positions
<1>2. IsFiniteSet(S) /\ Cardinality(S) \in Nat
  BY <1>1, Subset
<1>3. \A x \in S : Cardinality(S \ {x}) = Cardinality(S) - 1
  BY <1>2, FS_RemoveElement
<1>4. Without(S, t, j) \in SUBSET (0 .. j - 1)
  BY <1>1 DEF Without
<1> QED BY <1>2, <1>3, <1>4 DEF Without

-----------------------------------------------------------------------------
(* One draw more, and all of them.                                          *)

\* Of the sequences of draws up to iteration j, c lead to each set of the size
\* that they lead to.
Even(k, j, c) ==
    \A S \in SUBSET (0 .. j - 1) :
        Cardinality(S) = j - (N - k) =>
            IsFiniteSet(Leading(k, j, S)) /\ Cardinality(Leading(k, j, S)) = c

\* One draw more leads to each set equally often, if those before it did.
LEMMA OneDrawMore ==
  ASSUME NEW k \in 1 .. N, NEW j \in N - k .. N - 1, NEW c \in Nat, Even(k, j, c),
         NEW S \in SUBSET (0 .. j), Cardinality(S) = (j + 1) - (N - k)
  PROVE  /\ IsFiniteSet(Leading(k, j + 1, S))
         /\ Cardinality(Leading(k, j + 1, S)) = Cardinality(S) * c
<1> DEFINE D == Leading(k, j + 1, S)
           first == [d \in D |-> d[j]]
           rest == [d \in D |-> Before(k, j, d)]
           L == [t \in S |-> Leading(k, j, Without(S, t, j))]
<1>1. /\ j \in Positions /\ j \in Nat /\ j \in N - k .. N /\ (j + 1) - 1 = j
      /\ ((j + 1) - (N - k)) - 1 = j - (N - k) /\ j \in N - k .. j
      /\ \A m \in N - k .. j : m = j \/ m \in N - k .. j - 1
      /\ \A m \in N - k .. j - 1 : m # j /\ m \in N - k .. j
      /\ 0 .. j \subseteq Positions
  BY NAssumption DEF Positions
<1>2. IsFiniteSet(S)
  <2>1. S \in SUBSET Positions
    BY <1>1
  <2> QED BY <2>1, Subset
<1>3. ASSUME NEW t \in S
      PROVE  IsFiniteSet(L[t]) /\ Cardinality(L[t]) = c
  <2>1. /\ Without(S, t, j) \in SUBSET (0 .. j - 1)
        /\ Cardinality(Without(S, t, j)) = Cardinality(S) - 1
    BY <1>1, WithoutOne
  <2>2. Cardinality(Without(S, t, j)) = j - (N - k)
    <3>1. /\ Cardinality(Without(S, t, j)) = Cardinality(S) - 1
          /\ Cardinality(S) = (j + 1) - (N - k)
      BY <2>1
    <3>2. ((j + 1) - (N - k)) - 1 = j - (N - k)
      BY <1>1
    <3> QED BY <3>1, <3>2
  <2>3. L[t] = Leading(k, j, Without(S, t, j))
    OBVIOUS
  <2> HIDE DEF L
  <2> QED BY <2>1, <2>2, <2>3 DEF Even
<1>4. ASSUME NEW d \in D
      PROVE  /\ first[d] \in S /\ rest[d] \in L[first[d]] /\ DOMAIN d = N - k .. j
             /\ d[j] = first[d] /\ \A m \in N - k .. j - 1 : d[m] = rest[d][m]
  <2>1. d \in Sequences(k, j + 1) /\ Drawn(k, j + 1, d) = S
    BY DEF Leading
  <2>2. /\ Before(k, j, d) \in Sequences(k, j) /\ d[j] \in Draws(j)
        /\ Insert(Drawn(k, j, Before(k, j, d)), d[j], j) = S
        /\ DOMAIN d = N - k .. j
        /\ \A m \in N - k .. j - 1 : Before(k, j, d)[m] = d[m]
    BY <2>1, BeforeSequence
  <2>3. Drawn(k, j, Before(k, j, d)) \in SUBSET (0 .. j - 1)
    BY <1>1, <2>2, DrawnSize
  <2>4. d[j] \in S /\ Drawn(k, j, Before(k, j, d)) = Without(S, d[j], j)
    BY <1>1, <2>2, <2>3, InsertUndone
  <2>5. Before(k, j, d) \in Leading(k, j, Without(S, d[j], j))
    BY <2>2, <2>4 DEF Leading
  <2>6. first[d] = d[j] /\ rest[d] = Before(k, j, d)
        /\ L[d[j]] = Leading(k, j, Without(S, d[j], j))
    BY <2>4
  <2> HIDE DEF first, rest, L
  <2> QED BY <2>2, <2>4, <2>5, <2>6
<1>5. ASSUME NEW t \in S, NEW r \in L[t]
      PROVE  \E d \in D : first[d] = t /\ rest[d] = r
  <2> DEFINE d == [m \in N - k .. j |-> IF m = j THEN t ELSE r[m]]
  <2>1. r \in Sequences(k, j) /\ Drawn(k, j, r) = Without(S, t, j)
    BY DEF Leading
  <2>2. /\ r \in [N - k .. j - 1 -> Positions]
        /\ \A m \in N - k .. j - 1 : r[m] \in Draws(m)
    BY <2>1 DEF Sequences
  <2>3. d[j] = t /\ \A m \in N - k .. j - 1 : d[m] = r[m]
    BY <1>1
  <2>4. t \in Draws(j) /\ t \in Positions
    BY <1>1 DEF Draws
  <2>5. d \in [N - k .. j -> Positions]
    BY <1>1, <2>2, <2>4
  <2> HIDE DEF d
  <2>6. d \in Sequences(k, j + 1)
    <3>1. \A m \in N - k .. j : d[m] \in Draws(m)
      BY <1>1, <2>2, <2>3, <2>4
    <3> QED BY <1>1, <2>5, <3>1 DEF Sequences
  <2>7. Drawn(k, j + 1, d) = Insert(Drawn(k, j, r), t, j)
    BY <2>3, DrawnNext
  <2>8. Insert(Drawn(k, j, r), t, j) = S
    <3>1. Without(S, t, j) \in SUBSET (0 .. j - 1)
      BY <1>1, WithoutOne
    <3> QED BY <1>1, <2>1, <2>4, <3>1, InsertUndone
  <2>9. d \in D
    BY <2>6, <2>7, <2>8 DEF Leading
  <2>10. rest[d] = r
    <3>1. rest[d] = [m \in N - k .. j - 1 |-> d[m]]
      BY <2>9 DEF Before
    <3>2. r = [m \in N - k .. j - 1 |-> r[m]]
      BY <2>2
    <3> HIDE DEF rest
    <3> QED BY <2>3, <3>1, <3>2
  <2>11. first[d] = t
    BY <2>3, <2>9
  <2> QED BY <2>9, <2>10, <2>11
<1>6. ASSUME NEW d \in D, NEW e \in D, first[d] = first[e], rest[d] = rest[e]
      PROVE  d = e
  <2>1. DOMAIN d = N - k .. j /\ DOMAIN e = N - k .. j
    BY <1>4
  <2>2. d[j] = e[j] /\ \A m \in N - k .. j - 1 : d[m] = e[m]
    <3>1. \A m \in N - k .. j - 1 : d[m] = rest[d][m] /\ e[m] = rest[e][m]
      BY <1>4
    <3>2. d[j] = first[d] /\ e[j] = first[e]
      BY <1>4
    <3> HIDE DEF first, rest, D
    <3> QED BY <1>6, <3>1, <3>2
  <2>3. \A m \in N - k .. j : d[m] = e[m]
    BY <1>1, <2>2
  <2>4. d = [m \in N - k .. j |-> d[m]] /\ e = [m \in N - k .. j |-> e[m]]
    <3>1. d \in [N - k .. j -> Positions] /\ e \in [N - k .. j -> Positions]
      BY <1>1 DEF Leading, Sequences
    <3> QED BY <3>1
  <2> QED BY <2>3, <2>4
<1> HIDE DEF D, first, rest, L
<1>7. IsFiniteSet(D) /\ Cardinality(D) = Cardinality(S) * c
  <2>1. \A t \in S : IsFiniteSet(L[t]) /\ Cardinality(L[t]) = c
    BY <1>3
  <2>2. \A d \in D : first[d] \in S /\ rest[d] \in L[first[d]]
    BY <1>4
  <2>3. \A d, e \in D : first[d] = first[e] /\ rest[d] = rest[e] => d = e
    BY <1>6
  <2>4. \A t \in S : \A r \in L[t] : \E d \in D : first[d] = t /\ rest[d] = r
    BY <1>5
  <2>5. Parts(D, S, c, first, rest, L)
    BY <2>1, <2>2, <2>3, <2>4 DEF Parts
  <2> QED BY <1>2, <2>5, CountedByParts
<1> QED BY <1>7 DEF D

\* At every iteration, each set of the size reached by then comes from the same
\* number of sequences of draws.
LEMMA Uniform ==
  ASSUME NEW k \in 1 .. N, NEW j \in N - k .. N
  PROVE  \E c \in Nat : \A S \in SUBSET (0 .. j - 1) :
            Cardinality(S) = j - (N - k) => Likelihood(k, j, S) = c
<1> DEFINE T == {n \in Nat : N - k + n <= N => \E c \in Nat : Even(k, N - k + n, c)}
<1>1. N \in Int /\ k \in Int /\ N - k \in Nat /\ N - k <= N
  BY NAssumption
<1>2. 0 \in T
  <2>0. PICK l \in Nat : l = N - k
    BY <1>1
  <2>1. N - k + 0 = l /\ l - (N - k) = 0
    BY <1>1, <2>0
  <2>2. ASSUME NEW S \in SUBSET (0 .. l - 1), Cardinality(S) = 0
        PROVE  IsFiniteSet(Leading(k, l, S)) /\ Cardinality(Leading(k, l, S)) = 1
    <3>1. S = {}
      <4>1. S \in SUBSET Positions
        BY <1>1, <2>0 DEF Positions
      <4> QED BY <2>2, <4>1, Subset, FS_EmptySet
    <3>2. \A m \in l .. l - 1 : FALSE
      BY <2>1
    <3>3. PICK e : e = [m \in l .. l - 1 |-> 0]
      OBVIOUS
    <3>4. e \in [l .. l - 1 -> Positions] /\ \A d \in [l .. l - 1 -> Positions] : d = e
      BY <3>2, <3>3
    <3>5. Sequences(k, l) = {e}
      BY <2>0, <3>2, <3>4 DEF Sequences
    <3>6. Drawn(k, l, e) = {}
      BY <2>0, DrawnStart
    <3>7. Leading(k, l, S) = {e}
      BY <3>1, <3>5, <3>6 DEF Leading
    <3> QED BY <3>7, FS_Singleton
  <2>3. Even(k, l, 1)
    <3>1. \A S \in SUBSET (0 .. l - 1) :
              Cardinality(S) = l - (N - k) =>
                 IsFiniteSet(Leading(k, l, S)) /\ Cardinality(Leading(k, l, S)) = 1
      BY <2>1, <2>2
    <3> QED BY <3>1 DEF Even
  <2> QED BY <2>1, <2>3
<1>3. ASSUME NEW n \in T
      PROVE  n + 1 \in T
  <2>0. PICK l \in Nat : l = N - k + n
    BY <1>1
  <2> SUFFICES ASSUME l + 1 <= N PROVE \E c \in Nat : Even(k, l + 1, c)
    <3>1. N - k + (n + 1) = l + 1 /\ n + 1 \in Nat
      BY <1>1, <2>0
    <3> QED BY <3>1
  <2>1. l \in N - k .. N - 1 /\ (l + 1) - 1 = l /\ (l + 1) - (N - k) = n + 1
    BY <1>1, <2>0
  <2>2. PICK c \in Nat : Even(k, l, c)
    <3>1. N - k + n <= N => \E c \in Nat : Even(k, N - k + n, c)
      OBVIOUS
    <3>2. N - k + n <= N
      BY <1>1, <2>0
    <3> QED BY <2>0, <3>1, <3>2
  <2>3. (n + 1) * c \in Nat
    OBVIOUS
  <2>4. ASSUME NEW S \in SUBSET (0 .. (l + 1) - 1), Cardinality(S) = (l + 1) - (N - k)
        PROVE  /\ IsFiniteSet(Leading(k, l + 1, S))
               /\ Cardinality(Leading(k, l + 1, S)) = (n + 1) * c
    <3>1. S \in SUBSET (0 .. l)
      BY <2>1
    <3>2. /\ IsFiniteSet(Leading(k, l + 1, S))
          /\ Cardinality(Leading(k, l + 1, S)) = Cardinality(S) * c
      BY <2>1, <2>2, <2>4, <3>1, OneDrawMore
    <3> QED BY <2>1, <2>4, <3>2
  <2>5. Even(k, l + 1, (n + 1) * c)
    BY <2>4 DEF Even
  <2> QED BY <2>3, <2>5
<1>4. T = Nat
  <2>1. T \in SUBSET Nat
    OBVIOUS
  <2> HIDE DEF T
  <2> QED BY <1>2, <1>3, <2>1, Induct
<1>5. j - (N - k) \in T /\ N - k + (j - (N - k)) = j /\ j <= N
  BY <1>4, Iterations
<1>6. \E c \in Nat : Even(k, j, c)
  <2> QED BY <1>5
<1> QED BY <1>6, LikelihoodCounts DEF Even

\* Floyd's algorithm is fair: at every iteration, whatever it has chosen so far,
\* any other set of the same size was as likely (sample.go:8-38).
THEOREM SampleIsFair == Spec => []SampleIsUniform
<1>1. ASSUME IInv, at = "draw", NEW S \in SUBSET (0 .. i - 1),
             Cardinality(S) = Cardinality(select.idx)
      PROVE  Odds[select.k][i][S] = Odds[select.k][i][select.idx]
  <2>1. /\ select.idx \in SUBSET (0 .. i - 1)
        /\ Cardinality(select.idx) = i - (N - select.k)
        /\ select.k \in 1 .. N /\ i \in 0 .. N /\ i >= N - select.k
    BY <1>1 DEF IInv, FarEnough, TypeOK, Stages
  <2>2. PICK k \in 1 .. N : k = select.k
    BY <2>1
  <2>3. i \in N - k .. N
    BY <2>1, <2>2, NAssumption
  <2>4. PICK c \in Nat : \A C \in SUBSET (0 .. i - 1) :
           Cardinality(C) = i - (N - k) => Likelihood(k, i, C) = c
    BY <2>3, Uniform
  <2>5. Likelihood(k, i, S) = c /\ Likelihood(k, i, select.idx) = c
    BY <1>1, <2>1, <2>2, <2>4
  <2>6. S \in SUBSET Positions /\ select.idx \in SUBSET Positions
    <3>1. 0 .. i - 1 \subseteq Positions
      BY <2>1, NAssumption DEF Positions
    <3> QED BY <2>1, <3>1
  <2>7. /\ Odds[k][i][S] = Likelihood(k, i, S)
        /\ Odds[k][i][select.idx] = Likelihood(k, i, select.idx)
    BY <2>3, <2>6 DEF Odds
  <2> QED BY <2>2, <2>5, <2>7
<1>2. IInv => SampleIsUniform
  BY <1>1 DEF SampleIsUniform
<1> QED BY <1>2, Inductive, PTL

=============================================================================
