----------------------------- MODULE MCDnsConn -----------------------------
(* Small instances of DnsConn.                                             *)
EXTENDS DnsConn, TLC

CONSTANTS q1, q2, q3, a, aaaa

\* Two calls ask the same question (a retry), one another.
OneAskedTwice == (q1 :> a) @@ (q2 :> a) @@ (q3 :> aaaa)
TwoAsked == (q1 :> a) @@ (q2 :> aaaa)
=============================================================================
