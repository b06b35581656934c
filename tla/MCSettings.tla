----------------------------- MODULE MCSettings ------------------------------
(* Instances of Settings for TLC. *)
EXTENDS Settings, TLC

CONSTANTS r1, r2, w1, w2

\* Requests are interchangeable; the worker of an idle request is not.
Interchangeable == Permutations({r1, r2})
==============================================================================
