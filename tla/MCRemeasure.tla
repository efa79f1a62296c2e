---------------------------- MODULE MCRemeasure ----------------------------
(* Small instances of Remeasure.                                           *)
EXTENDS Remeasure

Serves(where, hops) == [resolve |-> "ok", tcp |-> "ok", tls |-> "ok",
                        http |-> "success", terminal |-> where, hops |-> hops]

Complete(apex, www, canonical, wildcard) ==
    [status |-> "complete", wildcard |-> wildcard, canonical |-> canonical,
     delegation |-> "unchecked", apex |-> apex, www |-> www]

\* www sends to the apex over TLS; or answers to a wildcard with a certificate
\* for another name and sends to the apex in plaintext; or sends to a page of its
\* own that fails.
Works == Complete(Serves("self", 0), Serves("apex", 1), "www-to-apex", "unchecked")
Wild == Complete(Serves("self", 0), [Serves("apex", 1) EXCEPT !.tls = "name-mismatch"],
                 "www-to-apex", "present")
Fails == Complete(Serves("self", 0), [Serves("self", 1) EXCEPT !.http = "error"],
                  "apex-only", "unchecked")

WorksOrNot == {Works, Wild, Fails}

Timeouts == {[NoSide EXCEPT !.resolve = "timeout"],
             [NoSide EXCEPT !.resolve = "ok", !.tcp = "timeout"],
             [NoSide EXCEPT !.resolve = "ok", !.tcp = "ok", !.tls = "timeout"]}

\* Nothing but the status; everything but www; www up to its certificate.
HereAndThere == {0, 9, 12}

OneOrTwo == {0, 2}

TheMiddle == {1}
=============================================================================
