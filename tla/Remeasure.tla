----------------------------- MODULE Remeasure -----------------------------
(***************************************************************************)
(* A census after the first: `report` sums up the earlier result file      *)
(* (report.Build), `scan -recheck` or `scan -sample` picks the positions   *)
(* to probe (scan.RecheckIndices, scan.SampleIndices), a scan probes them  *)
(* into a new file, and `diff` compares the two (report.Diff).  Each loop  *)
(* of the code goes one element a step.                                    *)
(*                                                                         *)
(* Between the two scans a site may change.  A site is the record of a     *)
(* probe that nothing disturbed; stalls, lost queries, an interrupt and a  *)
(* kill make others of it.  Both files are fresh: a position is stored     *)
(* once.  Positions do not depend on each other, so they are probed in     *)
(* feeding order; ScanRun has the workers.                                 *)
(***************************************************************************)
EXTENDS Record, FiniteSets

CONSTANTS
    N,          \* the size of the corpus
    Sites,      \* what may be found at a domain
    Stalls,     \* sides a ladder leaves that died of the scan, not of the site
    Tears,      \* fields stored after the status when a kill cut a store short
    Strides,    \* the values of -recheck-stride
    Restless,   \* bound: where sites change and probes find something else
    MaxSpoilt   \* bound: how many probes of both scans do that

Positions == 0 .. N - 1

\* What Probe's LadderIsClimbed says of every side it returns.
Whole(x) == x \in Side /\ Climbed(x) /\ ~Half(x)

Blank == [status |-> "unattempted", wildcard |-> "unchecked",
          canonical |-> "unknown", delegation |-> "unchecked",
          apex |-> NoSide, www |-> NoSide]

ASSUME NAssumption == N \in Nat \ {0}
ASSUME SitesAssumption ==
    \A r \in Sites : r \in Record /\ Conclusive(r) /\ \A x \in Sides(r) : Whole(x)
ASSUME StallsAssumption == \A y \in Stalls : Whole(y) /\ ~SideConclusive(y)
ASSUME TearsAssumption == Tears \subseteq Nat
ASSUME StridesAssumption == Strides \subseteq Nat
ASSUME RestlessAssumption == Restless \subseteq Positions
ASSUME MaxSpoiltAssumption == MaxSpoilt \in Nat

VARIABLES
    prev,       \* the earlier result file
    next,       \* the later one
    at,         \* which loop runs
    i,          \* and how far it is
    summary,    \* report.Build's of the earlier file
    select,     \* what selects, and what it has selected
    todo,       \* positions still to feed
    changes,    \* report.Diff's
    was,        \* history: what was there when the earlier scan probed,
    site        \* ... and the later one; Blank at a position not probed

vars == <<prev, next, at, i, summary, select, todo, changes, was, site>>

-----------------------------------------------------------------------------
(* What a probe may make of a site.                                        *)

\* The name stalled, and the record will tell.
Stalled(x) == {y \in Stalls : /\ y.resolve = "ok" => x.resolve = "ok"
                             /\ y.tcp = "ok" => x.tcp = "ok"}

\* It will not: one of A and AAAA was lost and the other found no address; the
\* plaintext walk was lost; the chain of redirects broke off past its start.
Misheard(x) ==
    {y \in {[NoSide EXCEPT !.resolve = t] : t \in {"nodata", "nxdomain"}} :
        x.resolve \in {"ok", "nodata"}}
    \cup {y \in {[x EXCEPT !.http = "none", !.terminal = "none", !.hops = 0]} :
        x.tls \notin {"unattempted", "ok"}}
    \cup {y \in [resolve : {x.resolve}, tcp : {x.tcp}, tls : {x.tls}, http : {"redirect"},
                 terminal : Terminal \ {"none"}, hops : 0 .. x.hops - 1] :
              /\ x.http # "none"
              /\ y.hops = 0 => y.terminal = "self"}

Heard(x) == {x} \cup Stalled(x) \cup Misheard(x)

\* The forms classifyCanonical may give two sides that are not the site's own.
Forms(a, w) ==
    CASE ServesOK(a) /\ ServesOK(w)   -> {"www-to-apex", "apex-to-www", "both-serve"}
      [] ServesOK(a) /\ ~ServesOK(w)  -> {"apex-only"}
      [] ~ServesOK(a) /\ ServesOK(w)  -> {"www-only"}
      [] ~ServesOK(a) /\ ~ServesOK(w) -> {"both-fail"}

\* A lost wildcard check sets no flag; a lost NS query reads as broken servers.
Returned(s) ==
    {s} \cup
    {r \in [status : {"complete", "aborted"}, wildcard : {s.wildcard, "unchecked"},
            canonical : Canonical,
            delegation : {s.delegation} \cup
                (IF s.delegation = "unchecked" THEN {} ELSE {"broken"}),
            apex : Heard(s.apex), www : Heard(s.www)] :
        /\ r.www.resolve # "ok" => r.wildcard = "unchecked"
        /\ r.canonical \in IF r.apex = s.apex /\ r.www = s.www THEN {s.canonical}
                           ELSE Forms(r.apex, r.www)}

\* The first k fields of a side, in the order of encodeSide.
Begun(x, k) ==
    [resolve  |-> IF k > 0 THEN x.resolve ELSE NoSide.resolve,
     tcp      |-> IF k > 1 THEN x.tcp ELSE NoSide.tcp,
     tls      |-> IF k > 2 THEN x.tls ELSE NoSide.tls,
     http     |-> IF k > 3 THEN x.http ELSE NoSide.http,
     terminal |-> IF k > 4 THEN x.terminal ELSE NoSide.terminal,
     hops     |-> IF k > 5 THEN x.hops ELSE NoSide.hops]

\* The status and the first k fields after it, in the order of Encode.
Stored(r, k) ==
    [status     |-> r.status,
     wildcard   |-> IF k > 0 THEN r.wildcard ELSE Blank.wildcard,
     canonical  |-> IF k > 1 THEN r.canonical ELSE Blank.canonical,
     delegation |-> IF k > 2 THEN r.delegation ELSE Blank.delegation,
     apex       |-> Begun(r.apex, k - 3),
     www        |-> Begun(r.www, k - 9)]

\* What the file may hold of a site once it was probed.
Outcomes ==
    [s \in Sites |->
        Returned(s) \cup {Stored(r, k) : r \in Returned(s), k \in Tears}]

\* How many probes left something else than the site (for the bound only).
Spoilt == Cardinality({p \in Positions : prev[p] # was[p]})
              + Cardinality({p \in Positions : next[p] # site[p]})

Registrations ==
    {"not-delegated", "nameservers-broken", "no-ns-records",
     "points-somewhere", "pointed-nowhere", "apex-missing",
     "lookup-failed", "unknown"}

Nothing == [unattempted |-> 0, attempted |-> 0, apexServes |-> 0, supported |-> 0,
            ofServing |-> 0, broken |-> 0, unknown |-> 0, wildcardOnly |-> 0,
            registration |-> [s \in Registrations |-> 0]]

Summary == [unattempted : Nat, attempted : Nat, apexServes : Nat, supported : Nat,
            ofServing : Nat, broken : Nat, unknown : Nat, wildcardOnly : Nat,
            registration : [Registrations -> Nat]]

Init ==
    /\ was \in [Positions -> Sites \cup {Blank}]
    /\ \E T \in {S \in SUBSET {p \in Restless : was[p] # Blank} :
                    Cardinality(S) <= MaxSpoilt} :
          \E t \in [T -> UNION {Outcomes[s] : s \in Sites}] :
             /\ \A p \in T : t[p] \in Outcomes[was[p]]
             /\ prev = [p \in Positions |-> IF p \in T THEN t[p] ELSE was[p]]
    /\ next = [p \in Positions |-> Blank]
    /\ at = "build"
    /\ i = 0
    /\ summary = Nothing
    /\ select = [by |-> "", filter |-> "", stride |-> 1, k |-> 0, seen |-> 0,
                 idx |-> {}]
    /\ todo = {}
    /\ changes = {}
    /\ site = [p \in Positions |-> Blank]

-----------------------------------------------------------------------------
(* report.Build.                                                           *)

If(b, n) == IF b THEN n + 1 ELSE n

\* A plausible mistake, no part of the model: what stalled counted as broken.
CountedAsBroken(s, r) ==
    IF r.status = "unattempted" THEN [s EXCEPT !.unattempted = @ + 1]
    ELSE [s EXCEPT
        !.attempted = @ + 1,
        !.apexServes = If(ApexServes(r), @),
        !.ofServing = If(ApexServes(r) /\ WWWSupported(r), @),
        !.broken = If(ApexServes(r) /\ ~WWWSupported(r), @)]

\* The summary with one more record in it.
Counted(s, r) ==
    IF r.status = "unattempted" THEN [s EXCEPT !.unattempted = @ + 1]
    ELSE [s EXCEPT
        !.attempted = @ + 1,
        !.registration[RegistrationState(r)] = @ + 1,
        !.supported = If(WWWSupported(r), @),
        !.wildcardOnly = If(~WWWSupported(r) /\ r.www.resolve = "ok"
                              /\ r.wildcard = "present", @),
        !.apexServes = If(ApexServes(r), @),
        !.unknown = If(Bucket(r) = "unknown", @),
        !.ofServing = If(Bucket(r) = "supported", @),
        !.broken = If(Bucket(r) = "broken", @)]

Build ==
    /\ at = "build"
    /\ IF i = N THEN /\ at' = "choose" /\ i' = 0 /\ UNCHANGED summary
       ELSE /\ summary' = Counted(summary, prev[i])
            /\ i' = i + 1
            /\ UNCHANGED at
    /\ UNCHANGED <<prev, next, select, todo, changes, was, site>>

-----------------------------------------------------------------------------
(* The work list.                                                          *)

OnlySelect == UNCHANGED <<prev, next, summary, changes, was, site>>

\* -recheck with a filter; a stride below 1 is 1.
Recheck(f, stride) ==
    /\ at = "choose"
    /\ at' = "match"
    /\ select' = [select EXCEPT !.by = "recheck", !.filter = f,
                                !.stride = IF stride < 1 THEN 1 ELSE stride]
    /\ UNCHANGED <<i, todo>>
    /\ OnlySelect

\* A plausible mistake, no part of the model: counting what was taken.
MatchTaken ==
    /\ at = "match" /\ i < N
    /\ select' = IF ~RecheckMatches(select.filter, prev[i]) THEN select
                 ELSE IF select.seen % select.stride = 0
                      THEN [select EXCEPT !.idx = @ \cup {i}, !.seen = @ + 1]
                      ELSE select
    /\ i' = i + 1
    /\ UNCHANGED <<at, todo>>
    /\ OnlySelect

\* RecheckIndices: every stride-th match.
Match ==
    /\ at = "match" /\ i < N
    /\ select' = IF ~RecheckMatches(select.filter, prev[i]) THEN select
                 ELSE [select EXCEPT !.seen = @ + 1,
                        !.idx = IF select.seen % select.stride = 0 THEN @ \cup {i} ELSE @]
    /\ i' = i + 1
    /\ UNCHANGED <<at, todo>>
    /\ OnlySelect

\* -sample k.  i is the loop's j.
Sample(k) ==
    /\ at = "choose"
    /\ k \in 1 .. N
    /\ at' = "draw"
    /\ IF k = N
       THEN /\ select' = [select EXCEPT !.by = "sample", !.k = k, !.idx = Positions]
            /\ i' = N
       ELSE /\ select' = [select EXCEPT !.by = "sample", !.k = k]
            /\ i' = N - k
    /\ UNCHANGED todo
    /\ OnlySelect

\* A plausible mistake, no part of the model: r.IntN(j).
DrawsFewer(j) == 0 .. IF j = 0 THEN 0 ELSE j - 1

\* What r.IntN(j + 1) may return.
Draws(j) == 0 .. j

\* A plausible mistake, no part of the model: a taken position drawn twice.
InsertTwice(chosen, t, j) == chosen \cup {t}

\* Floyd's algorithm: t, or j if t is taken.
Insert(chosen, t, j) == chosen \cup {IF t \in chosen THEN j ELSE t}

Draw ==
    /\ at = "draw" /\ i < N
    /\ \E t \in Draws(i) : select' = [select EXCEPT !.idx = Insert(@, t, i)]
    /\ i' = i + 1
    /\ UNCHANGED <<at, todo>>
    /\ OnlySelect

\* The list is complete; a recheck with nothing to do is refused.
Selected ==
    /\ at \in {"match", "draw"} /\ i = N
    /\ at' = IF select.idx = {} THEN "refused" ELSE "probe"
    /\ todo' = select.idx
    /\ i' = 0
    /\ UNCHANGED select
    /\ OnlySelect

-----------------------------------------------------------------------------
(* The second scan, into a fresh file, and the comparison.                 *)

Probe ==
    /\ at = "probe"
    /\ \E p \in todo, s \in Sites :
          /\ \A q \in todo : p <= q
          /\ p \in Restless \/ was[p] \in {s, Blank}
          /\ site' = [site EXCEPT ![p] = s]
          /\ \E r \in IF p \in Restless /\ Spoilt < MaxSpoilt THEN Outcomes[s] ELSE {s} :
                next' = [next EXCEPT ![p] = r]
          /\ todo' = todo \ {p}
    /\ UNCHANGED <<prev, at, i, summary, select, changes, was>>

\* Done, interrupted or killed.
ScanEnds ==
    /\ at = "probe"
    /\ at' = "diff"
    /\ todo' = {}
    /\ UNCHANGED <<prev, next, i, summary, select, changes, was, site>>

\* A plausible mistake, no part of the model: what was not probed compared too.
DiffersBlank(a, b) == WWWSupported(a) # WWWSupported(b) \/ a.canonical # b.canonical

\* A plausible mistake, no part of the model: canonical forms compared alone.
DiffersCanonical(a, b) ==
    /\ a.status # "unattempted" /\ b.status # "unattempted"
    /\ a.canonical # b.canonical

Differs(a, b) ==
    /\ a.status # "unattempted" /\ b.status # "unattempted"
    /\ WWWSupported(a) # WWWSupported(b) \/ a.canonical # b.canonical

Diff ==
    /\ at = "diff"
    /\ IF i = N THEN at' = "done" /\ UNCHANGED <<i, changes>>
       ELSE /\ changes' = IF Differs(prev[i], next[i]) THEN changes \cup {i} ELSE changes
            /\ i' = i + 1
            /\ UNCHANGED at
    /\ UNCHANGED <<prev, next, summary, select, todo, was, site>>

Done == at \in {"done", "refused"} /\ UNCHANGED vars

Next == \/ Build
        \/ \E f \in RecheckFilters, s \in Strides : Recheck(f, s)
        \/ Match
        \/ \E k \in Positions \cup {N} : Sample(k)
        \/ Draw
        \/ Selected
        \/ Probe
        \/ ScanEnds
        \/ Diff
        \/ Done

Spec == Init /\ [][Next]_vars

-----------------------------------------------------------------------------
(* Properties.                                                             *)

Looked(loop) == IF at = loop THEN 0 .. i - 1 ELSE Positions

TypeOK ==
    /\ prev \in [Positions -> Record] /\ next \in [Positions -> Record]
    /\ at \in {"build", "choose", "match", "draw", "refused", "probe", "diff", "done"}
    /\ i \in 0 .. N
    /\ summary \in Summary
    /\ select \in [by : {"", "recheck", "sample"}, filter : RecheckFilters \cup {""},
                   stride : Nat \ {0}, k : 0 .. N, seen : Nat, idx : SUBSET Positions]
    /\ todo \in SUBSET Positions /\ changes \in SUBSET Positions
    /\ was \in [Positions -> Record] /\ site \in [Positions -> Record]

\* The store of r was cut short.
Torn(r) == r.status = "complete" /\ \E x \in Sides(r) : Half(x)

\* report.go:84-116: every record is attempted or not; every apex that serves is
\* supported, broken or unknown, the first two only on conclusive evidence; what
\* a wildcard alone answers for is not also supported; and a registration is
\* unknown only where the probe was in doubt, or its record is torn, which
\* Conclusive does not see.
SummaryAddsUp ==
    LET read == {p \in Looked("build") : prev[p].status # "unattempted"}
        r    == summary.registration
    IN  /\ summary.unattempted + summary.attempted = Cardinality(Looked("build"))
        /\ summary.attempted = Cardinality(read)
        /\ summary.apexServes = summary.unknown + summary.ofServing + summary.broken
        /\ summary.ofServing + summary.broken <=
              Cardinality({p \in read : Conclusive(prev[p])})
        /\ summary.supported + summary.wildcardOnly <=
              Cardinality({p \in read : prev[p].www.resolve = "ok"})
        /\ r["unknown"] + r["lookup-failed"] <=
              Cardinality({p \in read : ~Conclusive(prev[p]) \/ Torn(prev[p])})

\* recheck.go:80: a stride "takes every Nth match": the matches with a multiple
\* of it before them, the first one among them.
EveryNthMatch ==
    select.by = "recheck" =>
        LET match == {p \in Positions : RecheckMatches(select.filter, prev[p])}
        IN  select.idx = {p \in match \cap Looked("match") :
                Cardinality({q \in match : q < p}) % select.stride = 0}

\* What the report counts as broken is what a recheck of the broken probes, or
\* as large a part of it as the stride says.
ReportedIsRechecked ==
    select.filter = "broken" /\ at # "match" =>
        Cardinality(select.idx) = (summary.broken + select.stride - 1) \div select.stride

\* sample.go:8: k distinct positions.
SampleIsExact ==
    select.by = "sample" =>
        /\ select.idx \subseteq Looked("draw")
        /\ at # "draw" => Cardinality(select.idx) = select.k

\* The sets that all the draws of a sample of k lead to before iteration j, each
\* as often as there are sequences of draws that do.
Drawn(k, j, d) ==
    LET chosen[m \in N - k .. j] ==
            IF m = N - k THEN {} ELSE Insert(chosen[m - 1], d[m - 1], m - 1)
    IN  chosen[j]

Likelihood(k, j, S) ==
    Cardinality({d \in [N - k .. j - 1 -> Positions] :
        (\A m \in N - k .. j - 1 : d[m] \in Draws(m)) /\ Drawn(k, j, d) = S})

\* The same, tabulated.
Odds == [k \in 1 .. N |-> [j \in N - k .. N |->
            [S \in SUBSET Positions |-> Likelihood(k, j, S)]]]

\* sample.go:8: uniformly at random.  However far the loop is, every set of
\* positions it may have chosen by then is as likely as the one it has.
SampleIsUniform ==
    at = "draw" =>
        \A S \in SUBSET (0 .. i - 1) :
            Cardinality(S) = Cardinality(select.idx) =>
                Odds[select.k][i][S] = Odds[select.k][i][select.idx]

Fixed(p) == ~WWWSupported(prev[p]) /\ WWWSupported(next[p])
Broke(p) == WWWSupported(prev[p]) /\ ~WWWSupported(next[p])

\* The site may support www although r does not say so: r is in doubt, torn, or
\* rests on a lookup of which one half may be lost.
MayHide(r) == ~Conclusive(r) \/ Torn(r) \/ r.www.resolve \in {"nodata", "nxdomain"}

\* r may say so although the site does not: the chain may have broken off.
MayFeign(r) == r.www.http = "redirect"

\* report.go:352, main.go:582: what diff prints as fixed supports www now and did
\* not before, what it prints as broken the other way round, unless one of the
\* two records is of the few kinds that may mislead about its site; diff looks
\* at no record's doubt.  A recheck of the broken finds nothing broken, one of
\* the working nothing fixed.
DiffIsHonest ==
    \A p \in changes :
        /\ p \in select.idx
        /\ Fixed(p) => /\ WWWSupported(site[p]) \/ MayFeign(next[p])
                       /\ ~WWWSupported(was[p]) \/ MayHide(prev[p])
                       /\ select.filter # "working"
        /\ Broke(p) => /\ ~WWWSupported(site[p]) \/ MayHide(next[p])
                       /\ WWWSupported(was[p]) \/ MayFeign(prev[p])
                       /\ select.filter # "broken"

\* A site that gained or lost www is in the diff, whatever spoilt other probes,
\* when neither of its own two records is of those kinds.
DiffIsComplete ==
    at = "done" =>
        \A p \in Positions :
            /\ \A r \in {prev[p], next[p]} : ~MayHide(r) /\ ~MayFeign(r)
            /\ WWWSupported(was[p]) # WWWSupported(site[p])
            => p \in changes
=============================================================================
