----------------------------- MODULE MCResolver -----------------------------
(* Small instances of Resolver.                                            *)
EXTENDS Resolver

CONSTANTS s1, s2

\* Two upstreams with two sockets each, in the order newPool opens them, and
\* the legacy path, where the NS query rides along.
PooledAndLegacy ==
    {[conns |-> <<s1, s1, s2, s2>>, pooled |-> TRUE, attempts |-> 2,
      checkDelegation |-> FALSE],
     [conns |-> <<s1, s2>>, pooled |-> FALSE, attempts |-> 1,
      checkDelegation |-> TRUE]}
=============================================================================
