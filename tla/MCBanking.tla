------------------------------ MODULE MCBanking ------------------------------
(* Small instances of Banking: every account has an owner of its own, except *)
(* in the instances that give two accounts to one user.                      *)
EXTENDS Banking, TLC

CONSTANTS r1, r2, a1, a2, u1, u2

TwoRequests == {r1, r2}
OneRequest  == {r1}
TwoAccounts == {a1, a2}
FirstOpen   == {a1}
TwoUsers    == {u1, u2}

OwnerEach == a1 :> u1 @@ a2 :> u2

RequestsAlike == Permutations(TwoRequests)
==============================================================================
