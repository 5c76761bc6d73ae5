------------------------------ MODULE MCScaleUp ------------------------------
(* Small instances of ScaleUp. *)
EXTENDS ScaleUp, TLC

CONSTANTS b1, b2

\* The bindings are interchangeable; used where no liveness property is checked.
Symmetry == Permutations(Bindings)
=============================================================================
