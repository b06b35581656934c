------------------------------ MODULE MCLockout ------------------------------
(* Instances of Lockout for TLC. *)
EXTENDS Lockout, TLC

CONSTANTS r1, r2, r3

\* Requests are interchangeable.
Interchangeable == Permutations(Requests)
=============================================================================
