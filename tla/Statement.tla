------------------------------- MODULE Statement -------------------------------
(***************************************************************************)
(* What the pages compute from the rows that Banking writes: the account   *)
(* statement of the customer pages, printed, exported or as e-passbook     *)
(* (_calculate_statement_data in app/routes/customer.py), the statement of *)
(* app/services/statement_service.py, the thirty days on the dashboard,    *)
(* the analytics of app/routes/api.py, and the two listings of rows.       *)
(*                                                                         *)
(* A page loads the account first and queries the transactions later; what *)
(* commits in between is in the rows and not in the loaded balance.        *)
(***************************************************************************)
EXTENDS Banking, FiniteSetsExt

CONSTANTS
    NoPage,     \* No statement is being computed.
    Filters,    \* What a statement is asked for: dates, search and kind of row.
    ListLimit   \* The rows of a listing of the API at most.

\* A statement shows the rows of a range of dates that the search finds, of one
\* kind or both.  Rows are in the order of their dates, so a date is a row
\* number, and an absent one a number no row has reached.
FilterKinds == {"ALL", "CREDIT", "DEBIT"}

ASSUME FiltersAssumption ==
    /\ Filters \subseteq [first : Nat, last : Nat, found : SUBSET Nat, kind : FilterKinds]
    /\ ListLimit \in Nat

VARIABLE page  \* The account of a statement as loaded, with the rows of then.

svars == <<vars, page>>

Page == [account : Accounts, balance : Int, rows : Nat]

SInit == Init /\ page = NoPage

OwnedBy(u) == {a \in db.opened : Owner[a] = u}

\* The page shows the account asked for if the user owns it, and otherwise an
\* account of the user.
Selected(u, asked) == IF asked \in OwnedBy(u) THEN {asked} ELSE OwnedBy(u)

OpenPage ==
    /\ page = NoPage
    /\ \E u \in Users, asked \in Accounts : \E a \in Selected(u, asked) :
          page' = [account |-> a, balance |-> db.acct[a].balance, rows |-> Len(db.txn)]
    /\ UNCHANGED vars

ClosePage == page # NoPage /\ page' = NoPage /\ UNCHANGED vars

SNext == (Next /\ UNCHANGED page) \/ OpenPage \/ ClosePage

StatementSpec == SInit /\ [][SNext]_svars /\ Fairness

-----------------------------------------------------------------------------
(* Rows and sums                                                            *)

Amount(rows) == MapThenSumSet(LAMBDA t : db.txn[t].amount, rows)

Change(rows) == MapThenSumSet(LAMBDA t : db.txn[t].change, rows)

OfType(rows, type) == {t \in rows : db.txn[t].type = type}

Completed(rows) == {t \in rows : db.txn[t].status = "COMPLETED"}

\* The rows that name one of the accounts on either side.
Naming(accounts) ==
    {t \in DOMAIN db.txn : db.txn[t].account \in accounts \/ db.txn[t].counterparty \in accounts}

RowsOn(accounts) == {t \in DOMAIN db.txn : db.txn[t].account \in accounts}

-----------------------------------------------------------------------------
(* The statements                                                           *)

\* _calculate_statement_data
IsCredit(t, a) ==
    \/ db.txn[t].type = "DEPOSIT"
    \/ db.txn[t].type = "TRANSFER" /\ db.txn[t].counterparty = a

ShownAs(t, a) == IF IsCredit(t, a) THEN "CREDIT" ELSE "DEBIT"

Records(a, f) ==
    {t \in Naming({a}) : /\ f.first <= t /\ t <= f.last
                         /\ t \in f.found
                         /\ f.kind # "ALL" => ShownAs(t, a) = f.kind}

\* Every row from row `since' on.
From(since) ==
    [first |-> since, last |-> Len(db.txn), found |-> DOMAIN db.txn, kind |-> "ALL"]

Credits(a, rows) == Amount({t \in rows : IsCredit(t, a)})

Debits(a, rows) == Amount({t \in rows : ~IsCredit(t, a)})

\* Fault: debits are taken off like credits.
OpeningUnsigned(p, rows) == p.balance - Credits(p.account, rows) - Debits(p.account, rows)

OpeningBalance(p, rows) == p.balance - Credits(p.account, rows) + Debits(p.account, rows)

\* Fault: the end date is today at midnight, so the newest row is left out.
PassbookUntilMidnight(p) ==
    Records(p.account, [From(1) EXCEPT !.last = Len(db.txn) - 1])

\* epassbook and its exports: all rows of the account.
Passbook(p) == Records(p.account, From(1))

\* generate_statement_data
ServiceIsCredit(t, a) == db.txn[t].counterparty = a \/ db.txn[t].type = "DEPOSIT"

ServiceRecords(a, w, type) ==
    {t \in Naming({a}) : /\ w.first <= t /\ t <= w.last
                         /\ type # "ALL" => db.txn[t].type = type}

ServiceCredits(a, rows) == Amount({t \in rows : ServiceIsCredit(t, a)})

ServiceDebits(a, rows) == Amount({t \in rows : ~ServiceIsCredit(t, a)})

ServiceOpening(p, rows) ==
    LET opening == p.balance - ServiceCredits(p.account, rows) + ServiceDebits(p.account, rows)
    IN  IF opening > 0 THEN opening ELSE 0

-----------------------------------------------------------------------------
(* The dashboard, the analytics and the listings                            *)

\* The completed rows of the last thirty days, which begin at row `since'.
Recent(accounts, since) == {t \in Completed(Naming(accounts)) : t >= since}

\* Fault: what somebody else sent is counted as well.
SentByAnyone(accounts, since) ==
    Amount({t \in Recent(accounts, since) : db.txn[t].type \in {"WITHDRAWAL", "TRANSFER"}})

MonthlySent(accounts, since) ==
    Amount({t \in Recent(accounts, since) : /\ db.txn[t].type \in {"WITHDRAWAL", "TRANSFER"}
                                            /\ db.txn[t].account \in accounts})

MonthlyReceived(accounts, since) ==
    Amount({t \in Recent(accounts, since) :
              \/ db.txn[t].type = "DEPOSIT"
              \/ db.txn[t].type = "TRANSFER" /\ db.txn[t].counterparty \in accounts})

Income(accounts) ==
    LET rows == Completed(RowsOn(accounts))
    IN  Amount(OfType(rows, "DEPOSIT")) + Amount(OfType(rows, "REVERSAL"))

\* Fault: transfers are a category of their own and no expense.
ExpensesWithoutTransfers(accounts) ==
    Amount(OfType(Completed(RowsOn(accounts)), "WITHDRAWAL"))

Expenses(accounts) ==
    LET rows == Completed(RowsOn(accounts))
    IN  Amount(OfType(rows, "WITHDRAWAL")) + Amount(OfType(rows, "TRANSFER"))

NetBalanceChange(accounts) == Income(accounts) - Expenses(accounts)

\* The last n of some rows: order_by(created_at desc).limit(n).
Newest(rows, n) == {t \in rows : Cardinality({k \in rows : k > t}) < n}

\* list_transactions, for one account, all of a customer, or all there are.
Listing(accounts, type) ==
    Newest(IF type = "ALL" THEN RowsOn(accounts) ELSE OfType(RowsOn(accounts), type), ListLimit)

\* download_transactions_csv, and the rows a customer can get a receipt for.
Export(accounts) == Naming(accounts)

-----------------------------------------------------------------------------
(* Properties of what the pages show; a page may overlap any request.  The    *)
(* opening balance and the analytics need that requests do not overlap each  *)
(* other, the rest holds whenever they commit                                *)

\* Every variable has its type.
STypeOK == TypeOK /\ page \in Page \cup {NoPage}

\* How far the opening balance of a statement is from the balance before its
\* first row.  Own rows that an end date, the search or the kind leaves out
\* stay in it; money that came in by a transfer or by the correction of a
\* withdrawal counts as a debit, so it is in twice over; the other party's row
\* of a transfer counts as a credit; and rows committed after the account was
\* loaded are taken off a balance they never changed
\* (_calculate_statement_data).
OpeningOff ==
    page # NoPage =>
        \A f \in Filters :
            LET a       == page.account
                shown   == Records(a, f)
                late    == {t \in shown : t > page.rows}
                own     == {t \in RowsOn({a}) : t <= page.rows}
                before  == {t \in own : t < f.first}
                left    == {t \in own : t >= f.first} \ shown
                misread == {t \in own \cap shown : /\ db.txn[t].type \in {"TRANSFER", "REVERSAL"}
                                                   /\ db.txn[t].change > 0}
                mirrors == shown \ (own \cup late)
            IN  OpeningBalance(page, shown)
                  = Change(before) + Change(left) + 2 * Change(misread) - Amount(mirrors)
                      - Credits(a, late) + Debits(a, late)

\* The running-balance column of a passbook ends at what the account holds when
\* the rows are read, in its last line or, after a transfer the account sent,
\* in the line before.  That is the balance at the head of the passbook unless
\* a row of the account committed after the account was loaded
\* (epassbook, download_epassbook_csv).
PassbookEnds ==
    page # NoPage /\ Passbook(page) # {} =>
        LET a    == page.account
            last == CHOOSE t \in Passbook(page) : \A k \in Passbook(page) : k <= t
            own  == IF db.txn[last].account = a THEN last ELSE last - 1
        IN  /\ own \in RowsOn({a})
            /\ db.txn[own].after = db.acct[a].balance
            /\ db.txn[own].after # page.balance => own > page.rows

\* The ranges of dates that statements are asked for.
Windows == {[first |-> f.first, last |-> f.last] : f \in Filters}

\* The two statements of the code classify every row alike, although one asks
\* for the type of the row and the other for its counterparty alone: only rows
\* of transfers have a counterparty.  So they have the same opening balance,
\* or zero stands for a negative one (generate_statement_data,
\* _calculate_statement_data).
StatementsAgree ==
    page # NoPage =>
        \A w \in Windows, type \in TransactionTypes \cup {"ALL"} :
            LET a    == page.account
                rows == ServiceRecords(a, w, type)
            IN  /\ \A t \in rows : ServiceIsCredit(t, a) <=> IsCredit(t, a)
                /\ \/ ServiceOpening(page, rows) = OpeningBalance(page, rows)
                   \/ ServiceOpening(page, rows) = 0 /\ OpeningBalance(page, rows) < 0

\* No row from `since' on that names one of the accounts was reversed or
\* reverses another.
Settled(accounts, since) ==
    \A t \in Naming(accounts) :
        t >= since => db.txn[t].status = "COMPLETED" /\ db.txn[t].type # "REVERSAL"

\* What the statements of some accounts show from row `since' on.
DebitsShown(accounts, since) ==
    MapThenSumSet(LAMBDA a : Debits(a, Records(a, From(since))), accounts)

CreditsShown(accounts, since) ==
    MapThenSumSet(LAMBDA a : Credits(a, Records(a, From(since))), accounts)

\* As long as the thirty days hold no reversal, whatever day they begin on, the
\* dashboard shows as sent and received what the statements of the user's
\* accounts over the same days show as debits and credits, transfers between two
\* accounts of the user included (dashboard).
DashboardAgrees ==
    \A u \in Users, since \in {w.first : w \in Windows} :
        LET mine == OwnedBy(u)
        IN  Settled(mine, since) =>
              /\ MonthlySent(mine, since) = DebitsShown(mine, since)
              /\ MonthlyReceived(mine, since) = CreditsShown(mine, since)

\* As long as nothing was reversed, the analytics' net change misses what the
\* accounts hold by twice the transfers that came in: the receiving row of a
\* transfer is counted as an expense like the sending one (get_analytics).
AnalyticsOff ==
    \A u \in Users :
        LET mine     == OwnedBy(u)
            incoming == {t \in OfType(RowsOn(mine), "TRANSFER") : db.txn[t].change > 0}
        IN  Settled(mine, 1) =>
              NetBalanceChange(mine)
                = MapThenSumSet(LAMBDA a : db.acct[a].balance, mine) - 2 * Amount(incoming)

\* The transfers that some accounts sent to others or had from them.
Abroad(accounts) ==
    {t \in RowsOn(accounts) : /\ db.txn[t].type = "TRANSFER"
                              /\ db.txn[t].counterparty \notin accounts}

\* What the export shows and the listing of the API does not: for every transfer
\* with somebody else the row of the other party, and own rows older than all
\* that are listed, if there are more than the limit
\* (download_transactions_csv, list_transactions).
ExportAddsPartnerRows ==
    \A u \in Users :
        LET mine    == OwnedBy(u)
            listed  == Listing(mine, "ALL")
            partner == Export(mine) \ RowsOn(mine)
            older   == Export(mine) \ (listed \cup partner)
        IN  /\ listed \subseteq Export(mine)
            /\ \A t \in older, k \in listed : t < k
            /\ older # {} => Cardinality(listed) = ListLimit
            /\ Cardinality(partner) = Cardinality(Abroad(mine))
            /\ Change(partner) = -Change(Abroad(mine))

\* The limit never hides a row that a narrower listing could show: what is
\* listed is listed by type and by account too, and such a listing leaves rows
\* out only when it holds as many as the limit allows (list_transactions).
ListingsNest ==
    \A u \in Users, type \in TransactionTypes :
        LET mine == OwnedBy(u)
            rows == OfType(RowsOn(mine), type)
            some == Listing(mine, type)
        IN  /\ OfType(Listing(mine, "ALL"), type) \subseteq some
            /\ \A a \in mine : RowsOn({a}) \cap some \subseteq Listing({a}, type)
            /\ some # rows => Cardinality(some) = ListLimit

\* The pages show one set of rows in different ways and agree: the two
\* statements with each other, the dashboard with the statements, the export
\* with the listing (customer.py, statement_service.py, api.py).
PagesAgree == StatementsAgree /\ DashboardAgrees /\ ExportAddsPartnerRows /\ ListingsNest
=============================================================================
