-------------------------------- MODULE Ledger --------------------------------
(***************************************************************************)
(* What the financial operations promise, without requests, snapshots,     *)
(* locks or versions: every operation takes effect at one instant, on the  *)
(* balances of that instant, and appends what it did to a journal.  Only a *)
(* correction may take an account below zero, and an entry is corrected at *)
(* most once.  Spec has the corrections the docstrings promise, SpecAsBuilt *)
(* the ones the code makes.                                                *)
(***************************************************************************)
EXTENDS Integers, Sequences

CONSTANT Accounts

VARIABLES
    balance,   \* The balance of every account.
    journal    \* Entries [account, kind, change, corrects]; corrects is 0 or an entry.

Line(a, k, x, i) == [account |-> a, kind |-> k, change |-> x, corrects |-> i]

Init == balance = [a \in Accounts |-> 0] /\ journal = <<>>

\* A deposit (x > 0), or a withdrawal that the balance covers.
Post(a, x) ==
    /\ x # 0
    /\ x < 0 => balance[a] + x >= 0
    /\ balance' = [balance EXCEPT ![a] = @ + x]
    /\ journal' = Append(journal, Line(a, "post", x, 0))

\* Both legs of a transfer, or neither.
Move(s, d, x) ==
    /\ s # d
    /\ x > 0
    /\ balance[s] >= x
    /\ balance' = [balance EXCEPT ![s] = @ - x, ![d] = @ + x]
    /\ journal' = journal \o <<Line(s, "move", -x, 0), Line(d, "move", x, 0)>>

Corrected(i) == \E k \in DOMAIN journal : journal[k].corrects = i

Adjust(i, x) ==
    /\ ~Corrected(i)
    /\ balance' = [balance EXCEPT ![journal[i].account] = @ + x]
    /\ journal' = Append(journal, Line(journal[i].account, "correction", x, i))

\* The promise: a correction is equal and opposite to the entry.
Correct(i) == Adjust(i, -journal[i].change)

\* What the code does instead with a debit that is no withdrawal, the sending
\* leg of a transfer or a correction that took money: it debits once more.
Repeat(i) ==
    /\ journal[i].change < 0
    /\ journal[i].kind # "post"
    /\ Adjust(i, journal[i].change)

\* TLC evaluates these quantifiers against the steps of an implementation, so
\* they range over what the step itself determines.
PostAny == \E a \in Accounts : Post(a, balance'[a] - balance[a])

MoveAny == \E s, d \in Accounts : Move(s, d, balance[s] - balance'[s])

CorrectAny == \E i \in DOMAIN journal : Correct(i)

RepeatAny == \E i \in DOMAIN journal : Repeat(i)

\* As the docstrings of the services promise it.
Next == PostAny \/ MoveAny \/ CorrectAny

\* As it is built: the same, except that a debit may be repeated, not undone,
\* where a withdrawal would be undone.
Undone(i) == journal[i].change > 0 \/ journal[i].kind = "post"

NextAsBuilt ==
    \/ PostAny
    \/ MoveAny
    \/ \E i \in DOMAIN journal : Undone(i) /\ Correct(i)
    \/ RepeatAny

Spec == Init /\ [][Next]_<<balance, journal>>

SpecAsBuilt == Init /\ [][NextAsBuilt]_<<balance, journal>>
===============================================================================
