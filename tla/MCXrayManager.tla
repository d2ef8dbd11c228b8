---------------------------- MODULE MCXrayManager ----------------------------
(* Small instances of the connection manager for TLC.                      *)
EXTENDS XrayManager, TLC

\* Requests are interchangeable: every one may make any call.
Symmetry == Permutations(Requests)
=============================================================================
