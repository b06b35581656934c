----------------------------- MODULE MCStatement -----------------------------
(* Instances of Statement: two accounts of one user, one of another.         *)
EXTENDS Statement, TLC

CONSTANTS r1, a1, a2, a3, u1, u2

OneRequest    == {r1}
ThreeAccounts == {a1, a2, a3}
TwoUsers      == {u1, u2}

\* The two accounts of one user are interchangeable.
AccountsAlike == Permutations({a1, a2})

OwnerOfTwo == a1 :> u1 @@ a2 :> u1 @@ a3 :> u2

\* Statements over all rows and over a past range, each of one kind or both, and
\* of the rows a search finds, one row of a transfer without the other included.
AnyRow == 1 .. 6

SomeFilters ==
    {[first |-> 1, last |-> 6, found |-> AnyRow, kind |-> k] : k \in {"ALL", "DEBIT"}}
      \cup {[first |-> 2, last |-> 3, found |-> AnyRow, kind |-> k] : k \in {"ALL", "CREDIT"}}
      \cup {[first |-> 1, last |-> 6, found |-> {1, 4}, kind |-> "ALL"]}
==============================================================================
