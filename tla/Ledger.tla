------------------------------- MODULE Ledger -------------------------------
(***************************************************************************)
(* The money engine: services/ledger.js, the handlers that only post       *)
(* through it (transfers and reversals, bank deposits, card-link payments) *)
(* and the account status changes of controllers/accountController.js.     *)
(*                                                                         *)
(* A handler's DB transaction locks the account rows it reads, so its      *)
(* check-and-write part is one step here.  What a handler reads WITHOUT a  *)
(* lock is a step of its own: startCardLink looks at the account's status  *)
(* before it inserts the pending payment (CheckLinkTarget, StartCardLink). *)
(*                                                                         *)
(* A transaction is named by its idempotency_key, which the table declares *)
(* UNIQUE NOT NULL, and an account's ledger_entries are kept in the order  *)
(* in which they were written.                                             *)
(***************************************************************************)
EXTENDS Integers, Sequences

CONSTANTS
  Key,        \* idempotency keys, one per transaction that may be recorded
  Wallet,     \* customers' accounts
  System,     \* clearing accounts (is_system), which may go below zero
  Currency,   \* Currency[a]: the currency account a holds
  MaxAmount,  \* bound: amounts are 1..MaxAmount minor units
  NoKey,      \* "reverses nothing" (reverses_transaction_id IS NULL)
  NoTxn       \* "no row with this key"

Account == Wallet \cup System

ASSUME KeyAssumption      == NoKey \notin Key
ASSUME AccountAssumption  == Wallet \cap System = {}
ASSUME AmountAssumption   == MaxAmount \in Nat \ {0}

ASSUME CurrencyAssumption == Currency \in [Account -> STRING]

Amount == 1 .. MaxAmount

TxnType   == {"transfer", "refund", "card_payment", "bank_deposit",
              "goal_contribution", "goal_withdrawal", "payroll_payment"}
TxnStatus == {"pending", "settled", "failed", "reversed"}

\* A row of transactions; its key is the index it is stored under.
Txn ==
  [type: TxnType, sender: Account, receiver: Account, amount: Amount,
   status: TxnStatus, reverses: Key \cup {NoKey}]

ASSUME NoTxnAssumption == NoTxn \notin Txn

\* A row of ledger_entries, stored under the account it belongs to.
Entry ==
  [txn: Key, direction: {"DEBIT", "CREDIT"}, amount: Amount, after: Int]

VARIABLES
  status,    \* status[a]: account_status
  balance,   \* balance[a]: the cached balance_minor
  txn,       \* txn[k]: the transactions row with idempotency_key k
  entries,   \* entries[a]: the account's ledger entries, oldest first
  linking    \* card links whose target account was read but not yet inserted

vars == <<status, balance, txn, entries, linking>>

TypeOK ==
  /\ status  \in [Account -> {"active", "frozen", "closed"}]
  /\ balance \in [Account -> Int]
  /\ txn     \in [Key -> Txn \cup {NoTxn}]
  /\ entries \in [Account -> Seq(Entry)]
  /\ linking \in SUBSET (Key \X Wallet)

Init ==
  /\ status  = [a \in Account |-> "active"]
  /\ balance = [a \in Account |-> 0]
  /\ txn     = [k \in Key |-> NoTxn]
  /\ entries = [a \in Account |-> << >>]
  /\ linking = {}

Recorded(k) == txn[k] # NoTxn

(***************************************************************************)
(* The posting routine.                                                    *)
(***************************************************************************)

\* Defects that the properties below must catch are named after what they
\* leave out; no action uses them.
CanPost_NoClosedCheck(s, r, m, c) ==
  /\ s # r
  /\ status[s] = "active"
  /\ Currency[s] = c /\ Currency[r] = c
  /\ s \in System \/ balance[s] >= m

\* lockAndCheckAccounts: both accounts can take part and the sender can
\* afford it.  txn_distinct_accounts makes the two accounts differ.
CanPost(s, r, m, c) ==
  /\ s # r
  /\ status[s] = "active"
  /\ status[r] # "closed"
  /\ Currency[s] = c /\ Currency[r] = c
  /\ s \in System \/ balance[s] >= m

WriteEntries_BalancesSwapped(k, s, r, m) ==
  /\ entries' = [entries EXCEPT
       ![s] = Append(@, [txn |-> k, direction |-> "DEBIT", amount |-> m,
                         after |-> balance[s] - m]),
       ![r] = Append(@, [txn |-> k, direction |-> "CREDIT", amount |-> m,
                         after |-> balance[r] + m])]
  /\ balance' = [balance EXCEPT ![s] = balance[r] + m, ![r] = balance[s] - m]

\* writeEntriesAndSettle, the entries and the two cached balances.
WriteEntries(k, s, r, m) ==
  /\ entries' = [entries EXCEPT
       ![s] = Append(@, [txn |-> k, direction |-> "DEBIT", amount |-> m,
                         after |-> balance[s] - m]),
       ![r] = Append(@, [txn |-> k, direction |-> "CREDIT", amount |-> m,
                         after |-> balance[r] + m])]
  /\ balance' = [balance EXCEPT ![s] = @ - m, ![r] = @ + m]

Row(type, s, r, m, st, reverses) ==
  [type |-> type, sender |-> s, receiver |-> r, amount |-> m,
   status |-> st, reverses |-> reverses]

\* postTransaction: all the steps at once, for money that settles now.
PostTransaction(k, type, s, r, m) ==
  /\ ~Recorded(k)
  /\ CanPost(s, r, m, Currency[s])
  /\ WriteEntries(k, s, r, m)
  /\ txn' = [txn EXCEPT ![k] = Row(type, s, r, m, "settled", NoKey)]

(***************************************************************************)
(* The handlers.                                                           *)
(***************************************************************************)

\* createTransfer.  A key that is already recorded is answered by postOnce
\* without touching the database, so it is not an action.
Transfer(k, s, r, m) ==
  /\ PostTransaction(k, "transfer", s, r, m)
  /\ UNCHANGED <<status, linking>>

\* creditBankDeposit: keyed on the processor's transaction id.
BankDeposit(k, c, r, m) ==
  /\ PostTransaction(k, "bank_deposit", c, r, m)
  /\ UNCHANGED <<status, linking>>

\* startCardLink up to its INSERT: the account is read with no lock.
CheckLinkTarget(k, a) ==
  /\ ~Recorded(k)
  /\ \A l \in linking : l[1] # k
  /\ status[a] = "active"
  /\ linking' = linking \cup {<<k, a>>}
  /\ UNCHANGED <<status, balance, txn, entries>>

\* startCardLink's INSERT and COMMIT: a pending payment from the clearing
\* account, with no ledger entries (createPendingTransaction).
StartCardLink(k, c, a, m) ==
  /\ <<k, a>> \in linking
  /\ ~Recorded(k)
  /\ Currency[c] = Currency[a]
  /\ txn' = [txn EXCEPT ![k] = Row("card_payment", c, a, m, "pending", NoKey)]
  /\ linking' = linking \ {<<k, a>>}
  /\ UNCHANGED <<status, balance, entries>>

SettlePending_NoPendingCheck(k) ==
  /\ Recorded(k)
  /\ txn[k].type = "card_payment"
  /\ CanPost(txn[k].sender, txn[k].receiver, txn[k].amount, Currency[txn[k].sender])
  /\ WriteEntries(k, txn[k].sender, txn[k].receiver, txn[k].amount)
  /\ txn' = [txn EXCEPT ![k].status = "settled"]
  /\ UNCHANGED <<status, linking>>

\* settlePendingTransaction: a confirmed payment whose accounts can still
\* take part.  One that is no longer pending changes nothing.
SettlePending(k) ==
  /\ Recorded(k)
  /\ txn[k].status = "pending"
  /\ CanPost(txn[k].sender, txn[k].receiver, txn[k].amount, Currency[txn[k].sender])
  /\ WriteEntries(k, txn[k].sender, txn[k].receiver, txn[k].amount)
  /\ txn' = [txn EXCEPT ![k].status = "settled"]
  /\ UNCHANGED <<status, linking>>

FailPending_NoPendingCheck(k) ==
  /\ Recorded(k)
  /\ txn[k].type = "card_payment"
  /\ txn' = [txn EXCEPT ![k].status = "failed"]
  /\ UNCHANGED <<status, balance, entries, linking>>

\* failPendingTransaction: a declined payment, or a confirmed one whose
\* account can no longer take it (flagged for a manual refund).
FailPending(k) ==
  /\ Recorded(k)
  /\ txn[k].status = "pending"
  /\ txn' = [txn EXCEPT ![k].status = "failed"]
  /\ UNCHANGED <<status, balance, entries, linking>>

\* The original keeps the status it had, or gets one the table does not know.
Reverse_Marking(k, o, mark) ==
  LET t == txn[o] IN
  /\ ~Recorded(k) /\ Recorded(o)
  /\ t.type = "transfer" /\ t.status = "settled"
  /\ CanPost(t.receiver, t.sender, t.amount, Currency[t.sender])
  /\ WriteEntries(k, t.receiver, t.sender, t.amount)
  /\ txn' = [txn EXCEPT
       ![k] = Row("refund", t.receiver, t.sender, t.amount, "settled", o),
       ![o].status = mark]
  /\ UNCHANGED <<status, linking>>

Reverse_OriginalNotMarked(k, o) == Reverse_Marking(k, o, "settled")

\* reverseTransaction: the receiver returns a settled transfer as a new
\* transaction; the original's row is locked while it is checked.
Reverse(k, o) ==
  LET t == txn[o] IN
  /\ ~Recorded(k)
  /\ Recorded(o)
  /\ t.type = "transfer" /\ t.status = "settled"
  /\ t.receiver \in Wallet
  /\ CanPost(t.receiver, t.sender, t.amount, Currency[t.sender])
  /\ WriteEntries(k, t.receiver, t.sender, t.amount)
  /\ txn' = [txn EXCEPT
       ![k] = Row("refund", t.receiver, t.sender, t.amount, "settled", o),
       ![o].status = "reversed"]
  /\ UNCHANGED <<status, linking>>

PendingInto(a) ==
  \E k \in Key : Recorded(k) /\ txn[k].status = "pending" /\ txn[k].receiver = a

\* changeStatus: the row is locked, the legal transitions only.  Closing
\* also needs an empty account with no payment into it still on its way.
FreezeAccount(a) ==
  /\ status[a] = "active"
  /\ status' = [status EXCEPT ![a] = "frozen"]
  /\ UNCHANGED <<balance, txn, entries, linking>>

UnfreezeAccount(a) ==
  /\ status[a] = "frozen"
  /\ status' = [status EXCEPT ![a] = "active"]
  /\ UNCHANGED <<balance, txn, entries, linking>>

CloseAccount(a) ==
  /\ status[a] \in {"active", "frozen"}
  /\ balance[a] = 0
  /\ ~PendingInto(a)
  /\ status' = [status EXCEPT ![a] = "closed"]
  /\ UNCHANGED <<balance, txn, entries, linking>>

Next ==
  \/ \E k \in Key, s \in Wallet, r \in Wallet, m \in Amount : Transfer(k, s, r, m)
  \/ \E k \in Key, c \in System, r \in Wallet, m \in Amount : BankDeposit(k, c, r, m)
  \/ \E k \in Key, a \in Wallet : CheckLinkTarget(k, a)
  \/ \E k \in Key, c \in System, a \in Wallet, m \in Amount : StartCardLink(k, c, a, m)
  \/ \E k \in Key : SettlePending(k)
  \/ \E k \in Key : FailPending(k)
  \/ \E k \in Key, o \in Key : Reverse(k, o)
  \/ \E a \in Wallet : FreezeAccount(a)
  \/ \E a \in Wallet : UnfreezeAccount(a)
  \/ \E a \in Wallet : CloseAccount(a)

Spec == Init /\ [][Next]_vars

(***************************************************************************)
(* Properties.                                                             *)
(***************************************************************************)

\* Where the entries of transaction k stand: <<account, position>>.
EntriesOf(k) ==
  UNION {{a} \X {i \in DOMAIN entries[a] : entries[a][i].txn = k} : a \in Account}

Moved(k) == Recorded(k) /\ txn[k].status \in {"settled", "reversed"}

\* A settled or reversed transaction has exactly two entries, one DEBIT at
\* its sender and one CREDIT at its receiver, and any other has none: in
\* whatever order payments are posted, settled, failed and reversed, no
\* money is written twice, half, or for a failed payment, and none changes
\* its currency, so that in every currency the balances add up to zero.
DoubleEntry ==
  \A k \in Key :
    IF Moved(k)
    THEN LET s == txn[k].sender
             r == txn[k].receiver
             m == txn[k].amount
         IN  /\ Currency[s] = Currency[r]
             /\ \E i \in DOMAIN entries[s], j \in DOMAIN entries[r] :
               /\ EntriesOf(k) = {<<s, i>>, <<r, j>>}
               /\ entries[s][i].direction = "DEBIT"  /\ entries[s][i].amount = m
               /\ entries[r][j].direction = "CREDIT" /\ entries[r][j].amount = m
    ELSE EntriesOf(k) = {}

\* What entry e makes of the balance b it was written over.
Applied(b, e) == IF e.direction = "DEBIT" THEN b - e.amount ELSE b + e.amount

AfterEntry(a, i) == IF i = 0 THEN 0 ELSE entries[a][i].after

\* Every running_balance_after_minor continues the one before it and the
\* cached balance_minor is the last of them, so the ledger alone rebuilds
\* every balance an account ever had (docs: the balance cache never drifts).
BalanceIsLedger ==
  \A a \in Account :
    /\ \A i \in 1 .. Len(entries[a]) :
         entries[a][i].after = Applied(AfterEntry(a, i - 1), entries[a][i])
    /\ balance[a] = AfterEntry(a, Len(entries[a]))

\* No customer's account ever goes below zero, at any entry of its history:
\* a payment confirmed late or a reversal of spent money is refused instead.
NoOverdraft ==
  \A a \in Wallet :
    /\ balance[a] >= 0
    /\ \A i \in 1 .. Len(entries[a]) : entries[a][i].after >= 0

\* A closed account is empty and stays so, although payments into it and
\* reversals towards it may still arrive after the close.
ClosedIsEmpty ==
  \A a \in Account : status[a] = "closed" => balance[a] = 0

\* The two together, and the rows' types: what the code's checks of balances
\* and statuses, each made under a lock, promise of every account.
BalancesAllowed == TypeOK /\ NoOverdraft /\ ClosedIsEmpty

Refunds(o) == {k \in Key : Recorded(k) /\ txn[k].reverses = o}

\* A transfer is marked reversed exactly when one refund of it was posted,
\* of the same amount and the other way round (uq_txn_reverses): two
\* attempts to reverse it can never give the money back twice.
ReversedOnce ==
  \A o \in Key : Recorded(o) =>
    /\ Refunds(o) # {} <=> txn[o].status = "reversed"
    /\ \A k \in Refunds(o), l \in Refunds(o) : k = l
    /\ \A k \in Refunds(o) :
         /\ txn[k].status = "settled"
         /\ txn[k].sender = txn[o].receiver /\ txn[k].receiver = txn[o].sender
         /\ txn[k].amount = txn[o].amount

\* History is never rewritten: entries are only appended, and a transaction
\* that left "pending" never changes again except settled -> reversed.
HistoryStep ==
  /\ \A a \in Account :
       /\ Len(entries'[a]) >= Len(entries[a])
       /\ \A i \in 1 .. Len(entries[a]) : entries'[a][i] = entries[a][i]
  /\ \A k \in Key :
       Recorded(k) /\ txn[k].status # "pending" =>
         \/ txn'[k] = txn[k]
         \/ /\ txn[k].status = "settled"
            /\ txn'[k] = [txn[k] EXCEPT !.status = "reversed"]

HistoryKept == [][HistoryStep]_vars

=============================================================================
