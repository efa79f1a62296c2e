------------------------------- MODULE Probe -------------------------------
(***************************************************************************)
(* internal/probe.Probe: one call, for one domain.  Two ladders climb at   *)
(* the same time, one per name (the apex and www), each a DNS lookup, a    *)
(* chain of requests walked by hand and possibly the same walk again in    *)
(* plaintext; then the caller joins them, checks for a wildcard, decides   *)
(* the canonical form and looks at the context one last time.              *)
(*                                                                         *)
(* The network answers as it likes.  A URL is its scheme, which host it    *)
(* names relative to the domain, and which of two paths; net/http and the  *)
(* dialer are external and appear as the classes of error the code tells   *)
(* apart.                                                                  *)
(***************************************************************************)
EXTENDS Record

CONSTANTS
    MaxHops,         \* cfg.MaxHops
    Targets,         \* the Location values servers may send
    WildcardCheck, CheckDelegation, HTTPFallback

Names == {"apex", "www"}

URL == [scheme : {"https", "http"}, host : {"apex", "www", "sub", "ext", "ext2"},
        path : {"/", "/home"}]

ASSUME MaxHopsAssumption == MaxHops \in Nat
ASSUME TargetsAssumption == Targets \subseteq URL
ASSUME SwitchesAssumption ==
    {WildcardCheck, CheckDelegation, HTTPFallback} \subseteq BOOLEAN

VARIABLES
    ladder,     \* where each name's goroutine is, and what it has found
    caller,     \* where Probe itself is
    cancelled,  \* ctx.Err() # nil
    rec         \* the record being built

vars == <<ladder, caller, cancelled, rec>>

Start(scheme, n) == [scheme |-> scheme, host |-> n, path |-> "/"]

Init ==
    /\ ladder = [n \in Names |->
          [at       |-> "lookup",          \* lookup, walk, rest, done
           side     |-> NoSide,            \* the Side of the current walk
           secure   |-> NoSide,            \* the https walk's, once it failed
           url      |-> Start("https", n),
           hop      |-> 0,
           last     |-> "",                \* lastHost: the last that answered
           fellBack |-> FALSE,
           cut      |-> FALSE]]            \* history: a step ran cancelled
    /\ caller = "join"
    /\ cancelled = FALSE
    /\ rec = [status |-> "unattempted", wildcard |-> "unchecked",
              canonical |-> "unknown", delegation |-> "unchecked",
              apex |-> NoSide, www |-> NoSide]

-----------------------------------------------------------------------------
(* Classification.                                                         *)

ClassifyTerminal(terminal, origin) ==
    CASE terminal = ""                           -> "none"
      [] terminal # "" /\ terminal = origin      -> "self"
      [] terminal \in Names \ {origin}           -> terminal
      [] terminal = "sub"                        -> "same-site"
      [] terminal \in {"ext", "ext2"}            -> "external"

\* What can go wrong below HTTP.  The dialer resolves the name again, so a
\* DNS failure is among them; "silent" is a host that accepts, completes the
\* handshake and never answers.
DialErrors == {"dns-timeout", "dns-failed", "refused", "unreachable", "dropped",
               "dial-error", "reset", "silent"}

CertErrors == {"name-mismatch", "expired", "unknown-authority",
               "handshake-fail"}

TransportErrors(scheme) ==
    DialErrors \cup (IF scheme = "https"
                     THEN CertErrors \cup {"tls-timeout", "tls-error"} ELSE {})
               \cup (IF cancelled THEN {"cancelled"} ELSE {})

\* A plausible mistake, no part of the model: a reset during the handshake
\* recorded without its TLS half.
ClassifyTransportErrNoReset(side, e, wasTLS) ==
    CASE e \in CertErrors  -> [side EXCEPT !.tcp = "ok", !.tls = e]
      [] e = "tls-timeout" -> [side EXCEPT !.tcp = "ok", !.tls = "timeout"]
      [] e = "tls-error"   -> [side EXCEPT !.tcp = "ok", !.tls = "error"]
      [] e = "reset"       -> [side EXCEPT !.tcp = "ok"]
      [] e \in {"refused", "unreachable"} -> [side EXCEPT !.tcp = e]
      [] e \in {"dropped", "silent", "dns-timeout"} -> [side EXCEPT !.tcp = "timeout"]
      [] e \in {"dial-error", "dns-failed", "cancelled"} -> [side EXCEPT !.tcp = "error"]

ClassifyTransportErr(side, e, wasTLS) ==
    CASE e \in CertErrors  -> [side EXCEPT !.tcp = "ok", !.tls = e]
      [] e = "tls-timeout" -> [side EXCEPT !.tcp = "ok", !.tls = "timeout"]
      [] e = "tls-error"   -> [side EXCEPT !.tcp = "ok", !.tls = "error"]
      [] e = "reset"       -> [side EXCEPT !.tcp = "ok",
                                 !.tls = IF wasTLS THEN "handshake-fail" ELSE @]
      [] e \in {"refused", "unreachable"} -> [side EXCEPT !.tcp = e]
      [] e \in {"dropped", "silent", "dns-timeout"} -> [side EXCEPT !.tcp = "timeout"]
      [] e \in {"dial-error", "dns-failed", "cancelled"} -> [side EXCEPT !.tcp = "error"]

\* A plausible mistake, no part of the model: any www that moved taken to have
\* joined the apex.
ClassifyCanonicalAnyMove(apex, www, apexTerm, wwwTerm) ==
    IF ~ServesOK(apex) /\ ~ServesOK(www) THEN "both-fail"
    ELSE IF ~ServesOK(www)  THEN "apex-only"
    ELSE IF ~ServesOK(apex) THEN "www-only"
    ELSE IF apexTerm = "www" /\ www.hops = 0 /\ wwwTerm = "www" THEN "apex-to-www"
    ELSE IF www.hops > 0 \/ wwwTerm # "www" THEN "www-to-apex"
    ELSE "both-serve"

ClassifyCanonical(apex, www, apexTerm, wwwTerm) ==
    LET wwwMoved == www.hops > 0 \/ wwwTerm # "www"
        apexMoved == apex.hops > 0 \/ apexTerm # "apex"
    IN  IF ~ServesOK(apex) /\ ~ServesOK(www) THEN "both-fail"
        ELSE IF ~ServesOK(www)  THEN "apex-only"
        ELSE IF ~ServesOK(apex) THEN "www-only"
        ELSE IF wwwMoved /\ wwwTerm = "apex" /\ ~apexMoved  THEN "www-to-apex"
        ELSE IF apexMoved /\ apexTerm = "www" /\ ~wwwMoved  THEN "apex-to-www"
        ELSE IF wwwMoved /\ wwwTerm = "apex" /\ apexMoved /\ apexTerm = "www"
             THEN "both-serve"
        ELSE IF wwwTerm = apexTerm /\ wwwMoved THEN "www-to-apex"
        ELSE "both-serve"

-----------------------------------------------------------------------------
(* One name's ladder.                                                      *)

\* Whatever a goroutine does after the cancellation is marked.
Step(n, l) ==
    /\ ladder' = [ladder EXCEPT ![n] = [l EXCEPT !.cut = @ \/ cancelled]]
    /\ UNCHANGED <<caller, cancelled, rec>>

\* probeName's Lookup.  A cancelled lookup reports a timeout.
LookupName(n) ==
    LET l == ladder[n] IN
    /\ l.at = "lookup"
    /\ \E s \in Resolve \ {"unattempted"} :
          Step(n, [l EXCEPT !.side.resolve = s,
                            !.at = IF s = "ok" THEN "walk" ELSE "done"])

\* A plausible mistake, no part of the model: a failure three redirects deep
\* classified as this name's own.
RequestFailsAnyHop(n) ==
    LET l == ladder[n] IN
    /\ l.at = "walk"
    /\ \E e \in TransportErrors(l.url.scheme) :
          Step(n, [l EXCEPT !.at = "rest",
                      !.side = ClassifyTransportErr(@, e, l.url.scheme = "https")])

\* Only the first hop says anything about this name's transport.  A request
\* that cannot be built (a URL that does not parse) is "dial-error" there; the
\* URL of a later hop was parsed and printed by resolveRef.
RequestFails(n) ==
    LET l == ladder[n] IN
    /\ l.at = "walk"
    /\ \E e \in TransportErrors(l.url.scheme) :
          Step(n, IF l.hop = 0
                  THEN [l EXCEPT !.at = "rest",
                          !.side = ClassifyTransportErr(@, e, l.url.scheme = "https")]
                  ELSE [l EXCEPT !.at = "rest"])

\* What an answer with status class c leaves in the ladder.
Answered(l, c) ==
    [l EXCEPT !.side.tls = IF l.url.scheme = "https" THEN "ok" ELSE @,
              !.side.tcp = "ok", !.side.http = c, !.side.hops = l.hop,
              !.last = l.url.host]

\* The chain rests here: no redirect, no usable Location, or the same URL.
RequestEnds(n) ==
    LET l == ladder[n] IN
    /\ l.at = "walk"
    /\ \E c \in HTTP \ {"none"} :
          Step(n, [Answered(l, c) EXCEPT !.at = "rest"])

\* A plausible mistake, no part of the model: following without counting.
RequestRedirectsForever(n) ==
    LET l == ladder[n] IN
    /\ l.at = "walk"
    /\ \E t \in Targets \ {l.url} :
          Step(n, [Answered(l, "redirect") EXCEPT !.url = t])

\* The chain goes on, unless this was the last hop allowed.
RequestRedirects(n) ==
    LET l == ladder[n] IN
    /\ l.at = "walk"
    /\ \E t \in Targets \ {l.url} :
          Step(n, IF l.hop < MaxHops
                  THEN [Answered(l, "redirect") EXCEPT !.url = t, !.hop = @ + 1]
                  ELSE [Answered(l, "redirect") EXCEPT !.at = "rest"])

IsTLSFailure(t) == t \notin {"unattempted", "ok"}

\* The https walk is over.  A TLS failure says nothing about whether the host
\* serves, so the walk starts again in plaintext.
FallBack(n) ==
    LET l == ladder[n] IN
    /\ l.at = "rest" /\ l.secure = NoSide
    /\ HTTPFallback /\ l.side.http = "none" /\ IsTLSFailure(l.side.tls)
    /\ Step(n, [l EXCEPT !.at = "walk", !.secure = l.side, !.url = Start("http", n),
                         !.hop = 0,
                         !.side = [NoSide EXCEPT !.resolve = l.side.resolve]])

Terminated(l, n) ==
    [l.side EXCEPT !.terminal =
        IF l.side.http = "none" THEN "none" ELSE ClassifyTerminal(l.last, n)]

\* A plausible mistake, no part of the model: the plaintext walk's own TLS
\* field kept.
RestLosesReason(n) ==
    LET l == ladder[n]
        fell == l.secure # NoSide
    IN  /\ l.at = "rest"
        /\ fell \/ ~(HTTPFallback /\ l.side.http = "none" /\ IsTLSFailure(l.side.tls))
        /\ Step(n, IF fell /\ l.side.http # "none"
                   THEN [l EXCEPT !.at = "done", !.fellBack = TRUE,
                                  !.side = Terminated(l, n)]
                   ELSE [l EXCEPT !.at = "done",
                                  !.side = IF fell THEN l.secure ELSE Terminated(l, n)])

\* probeName returns: the plaintext walk counts only if something answered,
\* and then keeps the reason https failed.
Rest(n) ==
    LET l == ladder[n]
        fell == l.secure # NoSide
    IN  /\ l.at = "rest"
        /\ fell \/ ~(HTTPFallback /\ l.side.http = "none" /\ IsTLSFailure(l.side.tls))
        /\ Step(n, IF fell /\ l.side.http # "none"
                   THEN [l EXCEPT !.at = "done", !.fellBack = TRUE,
                                  !.side = [Terminated(l, n) EXCEPT !.tls = l.secure.tls]]
                   ELSE [l EXCEPT !.at = "done",
                                  !.side = IF fell THEN l.secure ELSE Terminated(l, n)])

Climb(n) == \/ LookupName(n)
            \/ RequestFails(n)
            \/ RequestEnds(n)
            \/ RequestRedirects(n)
            \/ FallBack(n)
            \/ Rest(n)

-----------------------------------------------------------------------------
(* Probe itself.                                                           *)

\* Both ladders, and the NS query that rides along, are in.
Join ==
    /\ caller = "join"
    /\ \A n \in Names : ladder[n].at = "done"
    /\ \E d \in IF CheckDelegation THEN Delegation \ {"unchecked"} ELSE {"unchecked"} :
          rec' = [rec EXCEPT !.apex = ladder["apex"].side, !.www = ladder["www"].side,
                             !.delegation = d]
    /\ caller' = "wildcard"
    /\ UNCHANGED <<ladder, cancelled>>

\* Worth asking only when www resolved; an inconclusive answer sets no flag.
CheckWildcard ==
    /\ caller = "wildcard"
    /\ \E w \in IF WildcardCheck /\ rec.www.resolve = "ok"
                THEN {"unchecked", "absent", "present"} ELSE {"unchecked"} :
          rec' = [rec EXCEPT !.wildcard = w]
    /\ caller' = "finish"
    /\ UNCHANGED <<ladder, cancelled>>

\* A plausible mistake, no part of the model: the context not looked at.
FinishBlind ==
    /\ caller = "finish"
    /\ rec' = [rec EXCEPT
          !.canonical = ClassifyCanonical(rec.apex, rec.www, ladder["apex"].last,
                                          ladder["www"].last),
          !.status = "complete"]
    /\ caller' = "done"
    /\ UNCHANGED <<ladder, cancelled>>

Finish ==
    /\ caller = "finish"
    /\ rec' = [rec EXCEPT
          !.canonical = ClassifyCanonical(rec.apex, rec.www, ladder["apex"].last,
                                          ladder["www"].last),
          !.status = IF cancelled THEN "aborted" ELSE "complete"]
    /\ caller' = "done"
    /\ UNCHANGED <<ladder, cancelled>>

Cancel ==
    /\ caller # "done"
    /\ ~cancelled
    /\ cancelled' = TRUE
    /\ UNCHANGED <<ladder, caller, rec>>

Done == caller = "done" /\ UNCHANGED vars

Next == (\E n \in Names : Climb(n)) \/ Join \/ CheckWildcard \/ Finish \/ Cancel \/ Done

Spec == Init /\ [][Next]_vars

\* Every rung has a timeout, so every goroutine of the probe keeps moving.
FairSpec == /\ Spec
            /\ \A n \in Names : WF_vars(Climb(n))
            /\ WF_vars(Join \/ CheckWildcard \/ Finish)

-----------------------------------------------------------------------------
(* Properties.  They speak of the record Probe returns.                    *)

Returned == caller = "done"

Climber ==
    [at : {"lookup", "walk", "rest", "done"}, side : Side, secure : Side, url : URL,
     hop : 0 .. MaxHops, last : {"", "apex", "www", "sub", "ext", "ext2"},
     fellBack : BOOLEAN, cut : BOOLEAN]

TypeOK ==
    /\ ladder \in [Names -> Climber]
    /\ caller \in {"join", "wildcard", "finish", "done"}
    /\ cancelled \in BOOLEAN
    /\ rec \in Record

\* conclusive_test.go: "Conclusive and Stall are two views of one decision and
\* must never disagree."
StallAgreesWithConclusive == (Stall(rec) = "") <=> Conclusive(rec)

\* A lower rung of the record is never better than the one it stands on, even
\* after redirects and a second, plaintext walk; no probe stops half way up, so
\* a side that did is the store's doing (Remeasure); and a chain came to rest
\* exactly when something answered.
LadderIsClimbed ==
    Returned => \A s \in Sides(rec) :
        /\ Climbed(s) /\ ~Half(s)
        /\ s.terminal = "none" <=> s.http = "none"
        /\ s.hops <= MaxHops

\* A plaintext answer never hides why https failed, so a name that only serves
\* plaintext is never counted as supported.
FallbackKeepsReason ==
    Returned => \A n \in Names :
        ladder[n].fellBack => /\ IsTLSFailure(rec[n].tls)
                              /\ n = "www" => ~WWWSupported(rec)
                              /\ n = "apex" => ~ApexServes(rec)

\* Every domain the report counts as broken is broken on a rung that a census
\* can name: a doubtful outcome never is the reason, and "unclassified" stands
\* for a status below 200 and nothing else.
BrokenIsExplained ==
    Returned /\ Bucket(rec) = "broken" =>
        BrokenReason(rec) \in
            {"no dns record at all (nxdomain)", "name exists, no address record",
             "resolves, nothing listening", "tcp " \o "unreachable",
             "cert has no SAN for www", "cert expired", "serves, returns an error"}
            \cup {"tls " \o t : t \in {"unknown-authority", "handshake-fail", "error"}}
            \cup (IF rec.www.http = "informational" THEN {"unclassified"} ELSE {})

\* The cohorts of a recheck split what the probe can return: each serving
\* domain is in exactly one of broken, working and stalled, and the broken
\* cohort is the population the report counts as broken.  The rows exported
\* under that name are more: this cohort is what is left of them without the
\* stalled ones and those whose apex has no good certificate.
CohortsPartition ==
    Returned =>
        LET in == {f \in {"broken", "working", "stalled"} : RecheckMatches(f, rec)}
        IN  /\ \A f, g \in in : f = g
            /\ RecheckMatches("serving", rec) => in # {}
            /\ RecheckMatches("broken", rec) <=> Bucket(rec) = "broken"
            /\ RecheckMatches("broken", rec) <=>
                  CSVBroken(rec) /\ Conclusive(rec) /\ rec.apex.tls = "ok"

\* A record marked complete owes nothing to a cancellation.
CompleteIsUncut ==
    Returned /\ rec.status = "complete" => \A n \in Names : ~ladder[n].cut

\* Every probe returns: no chain of redirects goes on for ever.
Terminates == <>Returned

\* probe.go:300: when both names answer, a canonical form is declared exactly if
\* they came to rest on one and the same host, and www is the winner only if it
\* stayed where it was.  A www that moved and came to rest on www all the same
\* is filed under "www-to-apex", as is any third host.
OneHostOneWinner ==
    Returned /\ ServesOK(rec.apex) /\ ServesOK(rec.www) =>
        LET shared == ladder["apex"].last = ladder["www"].last
            stayed == ladder["www"].last = "www" /\ rec.www.hops = 0
        IN  /\ rec.canonical = "apex-to-www" <=> shared /\ stayed
            /\ rec.canonical = "www-to-apex" <=> shared /\ ~stayed
=============================================================================
