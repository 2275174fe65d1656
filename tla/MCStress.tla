------------------------------ MODULE MCStress ------------------------------
(* Instances of Stress for TLC. *)
EXTENDS Stress

\* An earlier run left the first failure log in the output directory.
MCOldLogs == {<<"fail", 0>>}
=============================================================================
