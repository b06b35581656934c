-------------------------- MODULE MCVersionControl --------------------------
(* Instances of VersionControl for TLC. *)
EXTENDS VersionControl, TLC

CONSTANTS r1, r2, account, payee, profile, d1, d2, a1, a2

Three == account :> "ACCOUNT" @@ payee :> "BENEFICIARY" @@ profile :> "USER_PROFILE"
AccountOnly == account :> "ACCOUNT"
PayeeOnly == payee :> "BENEFICIARY"
ProfileOnly == profile :> "USER_PROFILE"

\* Requests are interchangeable.
Interchangeable == Permutations({r1, r2})
=============================================================================
