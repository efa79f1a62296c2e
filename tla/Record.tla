------------------------------- MODULE Record -------------------------------
(***************************************************************************)
(* internal/record: the fields of a result record and every judgement that *)
(* is made from them (Conclusive, Stall, WWWSupported), with the ones that *)
(* internal/report and internal/scan make on top (the broken, working and  *)
(* stalled cohorts, and the reason a www name is broken).                  *)
(*                                                                         *)
(* An HTTP status is its class: no response, below 200 (net/http hands a   *)
(* 101 back as the answer), success, redirect or error.  A status line of  *)
(* 000, which the code cannot tell from no response, is left out.          *)
(***************************************************************************)
EXTENDS Naturals, Sequences

Status == {"unattempted", "complete", "aborted"}

Resolve == {"unattempted", "ok", "nxdomain", "nodata", "timeout", "servfail",
            "refused", "error"}

TCP == {"unattempted", "ok", "refused", "timeout", "unreachable", "error"}

TLS == {"unattempted", "ok", "name-mismatch", "expired", "unknown-authority",
        "handshake-fail", "timeout", "error"}

HTTP == {"none", "informational", "success", "redirect", "error"}

Terminal == {"none", "self", "apex", "www", "same-site", "external"}

Canonical == {"unknown", "both-fail", "apex-only", "www-only", "www-to-apex",
              "apex-to-www", "both-serve"}

Delegation == {"unchecked", "ok", "none", "nodata", "broken"}

\* One name's ladder.  RRTypes and DurationM only feed histograms.
Side == [resolve : Resolve, tcp : TCP, tls : TLS, http : HTTP,
         terminal : Terminal, hops : Nat]

Record == [status : Status, wildcard : {"unchecked", "absent", "present"},
           canonical : Canonical, delegation : Delegation,
           apex : Side, www : Side]

\* The zero value of a Side: what a file that was never written holds.
NoSide == [resolve |-> "unattempted", tcp |-> "unattempted",
           tls |-> "unattempted", http |-> "none", terminal |-> "none",
           hops |-> 0]

Sides(r) == {r.apex, r.www}

\* A status from 200 to 399.
ServesOK(s) == s.http \in {"success", "redirect"}

-----------------------------------------------------------------------------
(* internal/record                                                         *)

\* A plausible mistake, no part of the model: REFUSED counted as a finding.
SideConclusiveNoRefused(s) ==
    /\ s.resolve \notin {"timeout", "error", "servfail"}
    /\ s.tcp \notin {"timeout", "error"}
    /\ s.tls # "timeout"

SideConclusive(s) ==
    /\ s.resolve \notin {"timeout", "error", "servfail", "refused"}
    /\ s.tcp \notin {"timeout", "error"}
    /\ s.tls # "timeout"

Conclusive(r) == r.status = "complete" /\ \A s \in Sides(r) : SideConclusive(s)

\* The label a side gets in the first loop of Stall.
DNSStall(s) ==
    CASE s.resolve \in {"timeout", "error"}      -> "dns-timeout"
      [] s.resolve \in {"servfail", "refused"}   -> s.resolve
      [] OTHER                                   -> ""

\* Rung by rung, on each rung the apex first.
Stall(r) ==
    IF r.status # "complete"                     THEN "incomplete"
    ELSE IF DNSStall(r.apex) # ""                THEN DNSStall(r.apex)
    ELSE IF DNSStall(r.www) # ""                 THEN DNSStall(r.www)
    ELSE IF \E s \in Sides(r) : s.tcp = "timeout" THEN "tcp-timeout"
    ELSE IF \E s \in Sides(r) : s.tcp = "error"  THEN "tcp-error"
    ELSE IF \E s \in Sides(r) : s.tls = "timeout" THEN "tls-timeout"
    ELSE ""

WWWSupported(r) ==
    /\ r.status = "complete"
    /\ r.www.resolve = "ok"
    /\ r.www.tls = "ok"
    /\ ServesOK(r.www)

\* The bucket of a census of registered domains; with no delegation looked up
\* it is what the address lookup implies.
RegistrationState(r) ==
    LET a == r.apex.resolve IN
    CASE r.delegation = "none"   -> "not-delegated"
      [] r.delegation = "broken" -> "nameservers-broken"
      [] r.delegation = "nodata" -> "no-ns-records"
      [] r.delegation \in {"unchecked", "ok"} ->
           CASE a = "ok"       -> "points-somewhere"
             [] a = "nodata"   -> "pointed-nowhere"
             [] a = "nxdomain" -> IF r.delegation = "ok" THEN "apex-missing"
                                  ELSE "not-delegated"
             [] OTHER          -> IF r.delegation = "ok" THEN "lookup-failed"
                                  ELSE "unknown"

-----------------------------------------------------------------------------
(* internal/report and internal/scan/recheck.go, on top of the record.     *)

ApexServes(r) == ServesOK(r.apex) /\ r.apex.tls = "ok"

\* Which of WWWUnknown, WWWSupportedOfServing and WWWBroken Build counts an
\* attempted record under, "" for none.
Bucket(r) ==
    CASE r.status = "unattempted" \/ ~ApexServes(r) -> ""
      [] OTHER -> IF ~Conclusive(r) THEN "unknown"
                  ELSE IF WWWSupported(r) THEN "supported" ELSE "broken"

\* The first rung that gave way.
BrokenReason(r) ==
    LET w == r.www IN
    CASE w.resolve = "nxdomain" -> "no dns record at all (nxdomain)"
      [] w.resolve = "nodata"   -> "name exists, no address record"
      [] w.resolve \notin {"ok", "nxdomain", "nodata"} -> "dns"
      [] w.resolve = "ok" ->
           IF w.tcp = "refused" THEN "resolves, nothing listening"
           ELSE IF w.tcp = "timeout" THEN "resolves, connection hangs"
           ELSE IF w.tcp # "ok" THEN "tcp " \o w.tcp
           ELSE IF w.tls = "name-mismatch" THEN "cert has no SAN for www"
           ELSE IF w.tls = "expired" THEN "cert expired"
           ELSE IF w.tls # "ok" THEN "tls " \o w.tls
           ELSE IF w.http = "error" THEN "serves, returns an error"
           ELSE "unclassified"

\* The cohorts a recheck of an earlier result file may select.
RecheckFilters == {"broken", "working", "stalled", "serving", "all"}

\* A plausible mistake, no part of the model: a doubtful www counted as broken.
RecheckMatchesDoubtful(f, r) ==
    /\ r.status # "unattempted"
    /\ CASE f = "broken"  -> ApexServes(r) /\ ~WWWSupported(r)
         [] f = "working" -> Conclusive(r) /\ ApexServes(r) /\ WWWSupported(r)
         [] f = "stalled" -> ~Conclusive(r)
         [] f = "serving" -> ApexServes(r)
         [] f = "all"     -> TRUE

RecheckMatches(f, r) ==
    /\ r.status # "unattempted"
    /\ CASE f = "broken"  -> Conclusive(r) /\ ApexServes(r) /\ ~WWWSupported(r)
         [] f = "working" -> Conclusive(r) /\ ApexServes(r) /\ WWWSupported(r)
         [] f = "stalled" -> ~Conclusive(r)
         [] f = "serving" -> ApexServes(r)
         [] f = "all"     -> TRUE

\* The rows `report -only broken` exports.
CSVBroken(r) ==
    r.status # "unattempted" /\ ServesOK(r.apex) /\ ~WWWSupported(r)

-----------------------------------------------------------------------------
(* What the properties say of a side.                                      *)

\* Each rung stands on the one below.
Climbed(s) ==
    /\ s.tcp # "unattempted" => s.resolve = "ok"
    /\ s.tls # "unattempted" => s.tcp = "ok"
    /\ s.http # "none" => s.tls # "unattempted"

\* The rung above the last good one was never tried.
Half(s) == \/ s.resolve = "unattempted"
           \/ s.resolve = "ok" /\ s.tcp = "unattempted"
           \/ s.tcp = "ok" /\ s.tls = "unattempted"
           \/ s.tls = "ok" /\ s.http = "none"
=============================================================================
