------------------------------ MODULE MCGopool ------------------------------
(* Instances of Gopool for TLC. *)
EXTENDS Gopool, TLC

\* Processes and names are interchangeable.
Symmetry == Permutations(Procs) \cup Permutations(Names)
=============================================================================
