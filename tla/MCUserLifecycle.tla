--------------------------- MODULE MCUserLifecycle ---------------------------
(* Instances of UserLifecycle for TLC. *)
EXTENDS UserLifecycle, TLC

CONSTANTS r1, r2, n1, n2

\* Requests are interchangeable, and so are names.
Interchangeable == Permutations({r1, r2}) \cup Permutations({n1, n2})
=============================================================================
