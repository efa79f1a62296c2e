------------------------------ MODULE MCProbe ------------------------------
(* Small instances of Probe.                                               *)
EXTENDS Probe

At(scheme, host, path) == [scheme |-> scheme, host |-> host, path |-> path]

\* Redirects between the two names, within one name, down to plaintext and to
\* two places away from the site.
EveryTarget == {At("https", "apex", "/"), At("https", "www", "/home"),
                At("http", "apex", "/"), At("https", "ext", "/"),
                At("https", "ext2", "/")}
=============================================================================
