------------------------------- MODULE Finance --------------------------------
(***************************************************************************)
(* The professional finance pages (routers/finance_router.py): income and  *)
(* expense, transfers between accounts, and debts, receivable and payable, *)
(* with their payments.                                                    *)
(*                                                                         *)
(* A request reads the rows it changes FOR UPDATE, one after another, and  *)
(* keeps them locked until it commits or fails; it writes what it has      *)
(* computed from what it read.  Documents are only added: an account and a *)
(* debt are followed by the sums of theirs.  Amounts are whole numbers.    *)
(***************************************************************************)
EXTENDS Integers

CONSTANTS
    Wallets, Outside,     \* finance_accounts, and the world outside
    Opening,              \* per account: its opening balance
    Foreign,              \* the accounts that are not kept in so'm
    Inactive,             \* the accounts that are switched off
    Debts, NoDebt,        \* finance_obligations
    Cashiers,             \* requests handled at a time
    MaxAmount,            \* bound: amount of a document
    Commissions,          \* commissions of transfers; the code refuses none
    MaxFunds              \* bound: balance of an account

ASSUME FinanceAssumption ==
    /\ Outside \notin Wallets /\ NoDebt \notin Debts /\ Wallets \cap Debts = {}
    /\ Opening \in [Wallets -> Nat] /\ MaxAmount \in Nat /\ Commissions \subseteq Int

VARIABLES
    funds,    \* per account: current_balance
    booked,   \* per account: what its documents sum up to, incoming less outgoing
    debt,     \* per debt: its row
    settled,  \* per debt: the sum of its payments
    paying    \* per cashier: document, and what it read in the rows it holds; or NoPayment

financeVars == <<funds, booked, debt, settled, paying>>

Kinds == {"receivable", "payable"}
NoRecord == [kind |-> "none"]
NoPayment == [doc |-> "none"]

FinanceInit ==
    /\ funds = Opening
    /\ booked = [a \in Wallets |-> 0]
    /\ debt = [o \in Debts |-> NoRecord]
    /\ settled = [o \in Debts |-> 0]
    /\ paying = [c \in Cashiers |-> NoPayment]

IsDebt(o) == debt[o] # NoRecord

-----------------------------------------------------------------------------
(* Debts as they are entered.                                              *)

\* A debt paid in part when it is entered is "open", too.
CreateObligation(o) ==
    /\ ~IsDebt(o)
    /\ \E kind \in Kinds, foreign \in BOOLEAN, original \in 1 .. MaxAmount : \E paid \in 0 .. original :
         debt' = [debt EXCEPT ![o] =
                    [kind |-> kind, foreign |-> foreign, original |-> original, initial |-> paid, paid |-> paid,
                     status |-> IF paid >= original THEN "paid" ELSE "open"]]
    /\ UNCHANGED <<funds, booked, settled, paying>>

-----------------------------------------------------------------------------
(* Documents.  Money goes from one account to another, or from or to the   *)
(* outside; a payment is for a debt, and may bypass the accounts.          *)

Document(op, from, to, for, amount, fee) ==
    [op |-> op, from |-> from, to |-> to, for |-> for, amount |-> amount, fee |-> fee]

Incomes == {Document("income", Outside, a, NoDebt, n, 0) : a \in Wallets, n \in 1 .. MaxAmount}
Expenses == {Document("expense", a, Outside, NoDebt, n, 0) : a \in Wallets, n \in 1 .. MaxAmount}

\* Source and destination differ.
Transfers ==
    {d \in {Document("transfer", a, b, NoDebt, n, fee) :
                a \in Wallets, b \in Wallets, n \in 1 .. MaxAmount, fee \in Commissions} : d.from # d.to}

\* What is owed to us comes in, what we owe goes out; either may bypass the accounts.
Owed(kind) == {o \in Debts : debt[o].kind = kind}

Payments ==
    {Document("payment", Outside, a, o, n, 0) :
         a \in Wallets \cup {Outside}, o \in Owed("receivable"), n \in 1 .. MaxAmount}
    \cup {Document("payment", a, Outside, o, n, 0) :
              a \in Wallets \cup {Outside}, o \in Owed("payable"), n \in 1 .. MaxAmount}

Touched(d) == ({d.from, d.to} \cap Wallets) \cup ({d.for} \cap Debts)

-----------------------------------------------------------------------------
(* A request: rows locked and read, one by one, and the commit.            *)

Submit(c, d) ==
    /\ paying[c] = NoPayment
    /\ paying' = [paying EXCEPT ![c] = [doc |-> d, held |-> {}, seen |-> [r \in {} |-> 0]]]
    /\ UNCHANGED <<funds, booked, debt, settled>>

IsPaying(c) == paying[c] # NoPayment

\* Mutant: the rows are read, but not FOR UPDATE.
Anyway(r) == TRUE

Free(r) == \A c \in Cashiers : IsPaying(c) => r \notin paying[c].held

\* What a row says that changes: the balance of an account, what is paid of a debt.
Content(r) == IF r \in Wallets THEN funds[r] ELSE debt[r].paid

\* A payment reads its debt first; a transfer reads both accounts at once, in no order.
LockRow(c, r) ==
    LET p == paying[c] IN
    /\ IsPaying(c) /\ r \in Touched(p.doc) \ p.held /\ Free(r)
    /\ p.doc.for \in p.held \cup {r, NoDebt}
    /\ paying' = [paying EXCEPT ![c] =
            [doc |-> p.doc, held |-> p.held \cup {r},
             seen |-> [x \in p.held \cup {r} |-> IF x = r THEN Content(r) ELSE p.seen[x]]]]
    /\ UNCHANGED <<funds, booked, debt, settled>>

\* What a handler checks before it writes: an account that is on (a transfer does not ask) and
\* keeps the currency, what is left to pay, and that there is enough.
Permitted(d, seen) ==
    LET wallets == {d.from, d.to} \cap Wallets IN
    /\ d.op # "transfer" => wallets \cap Inactive = {}
    /\ d.op = "transfer" => (d.from \in Foreign <=> d.to \in Foreign)
    /\ d.from \in Wallets => seen[d.from] >= d.amount + d.fee
    /\ d.for \in Debts =>
         /\ d.amount <= debt[d.for].original - seen[d.for]
         /\ \A a \in wallets : a \in Foreign <=> debt[d.for].foreign

Balance(d, a, before) ==
    CASE a = d.from -> before - (d.amount + d.fee)
      [] a = d.to -> before + d.amount
      [] OTHER -> before

StatusPaid(paid, original) == IF paid >= original THEN "paid" ELSE IF paid > 0 THEN "partial" ELSE "open"

Commit(c) ==
    LET p == paying[c]
        d == p.doc
        paid == p.seen[d.for] + d.amount
    IN
    /\ IsPaying(c) /\ p.held = Touched(d) /\ Permitted(d, p.seen)
    /\ \A a \in {d.to} \cap Wallets : p.seen[a] + d.amount <= MaxFunds
    /\ funds' = [a \in Wallets |-> IF a \in p.held THEN Balance(d, a, p.seen[a]) ELSE funds[a]]
    /\ booked' = [a \in Wallets |-> Balance(d, a, booked[a])]
    /\ debt' = IF d.for \in Debts
               THEN [debt EXCEPT ![d.for].paid = paid,
                                 ![d.for].status = StatusPaid(paid, debt[d.for].original)]
               ELSE debt
    /\ settled' = [o \in Debts |-> IF o = d.for THEN settled[o] + d.amount ELSE settled[o]]
    /\ paying' = [paying EXCEPT ![c] = NoPayment]

\* Refused, or chosen to break a deadlock of two transfers.
GiveUp(c) ==
    /\ IsPaying(c)
    /\ paying' = [paying EXCEPT ![c] = NoPayment]
    /\ UNCHANGED <<funds, booked, debt, settled>>

FinanceNext ==
    \/ \E o \in Debts : CreateObligation(o)
    \/ \E c \in Cashiers :
         \/ \E d \in Incomes \cup Expenses \cup Transfers \cup Payments : Submit(c, d)
         \/ \E r \in Wallets \cup Debts : LockRow(c, r)
         \/ Commit(c) \/ GiveUp(c)

FinanceSpec == FinanceInit /\ [][FinanceNext]_financeVars

-----------------------------------------------------------------------------
(* What the pages show of the receivables.                                 *)

Remaining(o) == debt[o].original - debt[o].paid

\* The dashboard goes by the status, in so'm alone; the summary of receivables by the amounts.
OnDashboard == {o \in Owed("receivable") : debt[o].status \notin {"paid", "cancelled"} /\ ~debt[o].foreign}
OnSummary == {o \in Owed("receivable") : Remaining(o) > 0}

\* The balance of an account is its opening balance and its documents, and never below zero; of a
\* debt, no more is paid than there was to pay, and all of it is by payments or was so entered;
\* and the two pages that show what is still owed agree about every debt in so'm.
BooksBalance ==
    /\ \A a \in Wallets : funds[a] = Opening[a] + booked[a] /\ funds[a] >= 0
    /\ \A o \in Debts : IsDebt(o) =>
         debt[o].paid = debt[o].initial + settled[o] /\ debt[o].paid <= debt[o].original
    /\ OnDashboard = {o \in OnSummary : ~debt[o].foreign}
===============================================================================
