------------------------------- MODULE Payroll -------------------------------
(***************************************************************************)
(* Pay runs (controllers/payrollController.js, services/payroll.js) of one *)
(* customer.  A payee is somebody else's wallet, at most one payee per     *)
(* wallet (uq_payee_wallet), so it is named by it.                         *)
(*                                                                         *)
(* An attempt to run the payroll looks for an earlier run under its key,   *)
(* reads the payees without a lock, and then, in one transaction with all  *)
(* the wallets locked, stores the run and posts every payment.  Attempts   *)
(* overlap and may die; a retry is another attempt with the same key.      *)
(***************************************************************************)
EXTENDS Ledger, FiniteSets, Functions

CONSTANTS
  Payee,      \* wallets that may be payees
  Attempt,    \* POST /v1/payroll/runs requests; also the ids of the runs
  RunKey,     \* their Idempotency-Keys
  Body,       \* what may be asked: [source, items], items a sequence of
              \* [payee, amount] with no payee twice (runSchema)
  AtRate,     \* an item without an amount is paid at the payee's rate
  Rate,       \* bound: payees' rates, and amounts that come and go otherwise
  OtherKey,   \* keys of payments that are not payroll's
  MaxPayees,  \* MAX_PAYEES
  MaxEdits,   \* bound: changes of a payee
  NoRun       \* no row of payroll_runs

Item == [payee: Payee, amount: Amount]

ASSUME PayeeAssumption  == Payee \subseteq Wallet
ASSUME RateAssumption   == Rate \subseteq Amount /\ Rate # {} /\ AtRate \notin Amount
ASSUME EditsAssumption  == MaxEdits \in Nat
ASSUME BodyAssumption   ==
  \A b \in Body :
    /\ b.source \in Wallet \ Payee
    /\ b.items \in Seq([payee: Payee, amount: Amount \cup {AtRate}]) /\ b.items # << >>
    /\ \A i, j \in DOMAIN b.items : b.items[i].payee = b.items[j].payee => i = j

\* The idempotency key of item i: payroll:<run>:<index>.
PaymentKey(x, i) == <<x, i>>

ASSUME KeysAssumption ==
  /\ OtherKey \subseteq Key
  /\ \A x \in Attempt, b \in Body : \A i \in DOMAIN b.items :
       PaymentKey(x, i) \in Key \ OtherKey

VARIABLES
  payees,   \* payees[p]: status and rate, "none" before there is a row
  run,      \* run[x]: the payroll_runs row and its payroll_payments
  attempt,  \* attempt[x]: an attempt that was made
  edits     \* changes of payees so far

payroll == <<payees, run, attempt, edits>>

\* A payee's row.
PayeeRow == [status: {"none", "active", "inactive"}, rate: Rate]

\* A run: its key, its wallet, what it paid to whom, and total_minor.
Run == [key: RunKey, source: Wallet, items: Seq(Item), total: Nat \ {0}]

ASSUME NoRunAssumption == NoRun \notin Run

\* An attempt that was made: where it stands, its request, and what it will pay.
Request ==
  [pc: {"load", "pay", "raced", "paid", "replayed", "refused", "conflict", "lost"},
   key: RunKey, body: Body, items: Seq(Item)]

PayrollTypeOK ==
  /\ payees  \in [Payee -> PayeeRow]
  /\ run     \in [Attempt -> Run \cup {NoRun}]
  /\ DOMAIN attempt \subseteq Attempt
  /\ \A x \in DOMAIN attempt : attempt[x] \in Request
  /\ edits \in 0 .. MaxEdits

PayrollInit ==
  /\ payees = [p \in Payee |-> [status |-> "none", rate |-> CHOOSE r \in Rate : TRUE]]
  /\ run    = [x \in Attempt |-> NoRun]
  /\ attempt = [x \in {} |-> NoRun]
  /\ edits  = 0

(***************************************************************************)
(* Payees.                                                                 *)
(***************************************************************************)

Added == {p \in Payee : payees[p].status # "none"}

\* createPayee, counted under the user's lock.  The wallet was looked up
\* before without one, and may have been closed since.
CreatePayee(p, rate) ==
  /\ payees[p].status = "none"
  /\ Cardinality(Added) < MaxPayees
  /\ payees' = [payees EXCEPT ![p] = [status |-> "active", rate |-> rate]]
  /\ UNCHANGED <<vars, run, attempt, edits>>

\* updatePayee writes the whole row, and takes what it was not asked to change
\* from a row it read earlier without a lock: any row may come of it.
UpdatePayee(p, row) ==
  /\ payees[p].status # "none" /\ row.status # "none"
  /\ edits < MaxEdits
  /\ edits' = edits + 1
  /\ payees' = [payees EXCEPT ![p] = row]
  /\ UNCHANGED <<vars, run, attempt>>

(***************************************************************************)
(* Pay runs.                                                               *)
(***************************************************************************)

Goto(x, pc) == attempt' = [attempt EXCEPT ![x].pc = pc]

StoredUnder(k) == {y \in Attempt : run[y] # NoRun /\ run[y].key = k}

\* sameItems: every item was paid to that payee, and at that amount if it
\* names one.
SameItems(row, body) ==
  /\ row.source = body.source
  /\ Len(row.items) = Len(body.items)
  /\ \A i \in DOMAIN body.items : \E j \in DOMAIN row.items :
       /\ row.items[j].payee = body.items[i].payee
       /\ body.items[i].amount \in {AtRate, row.items[j].amount}

\* replayRun: what is stored under the key answers the attempt, or the key
\* was used for something else.
Replay(k, body) ==
  IF \E y \in StoredUnder(k) : SameItems(run[y], body) THEN "replayed" ELSE "conflict"

\* A request arrives and looks for an earlier run.
StartRun(x, k, body) ==
  /\ x \notin DOMAIN attempt
  /\ LET new == [pc |-> IF StoredUnder(k) = {} THEN "load" ELSE Replay(k, body),
                 key |-> k, body |-> body, items |-> << >>]
     IN  attempt' = [y \in DOMAIN attempt \cup {x} |-> IF y = x THEN new ELSE attempt[y]]
  /\ UNCHANGED <<vars, payees, run, edits>>

Source == {b.source : b \in Body}

Payable(p, s) ==
  payees[p].status = "active" /\ Currency[p] = Currency[s] /\ status[p] # "closed"

AmountOf(item) == IF item.amount = AtRate THEN payees[item.payee].rate ELSE item.amount

\* The payees and their wallets are read and checked, with no lock.
LoadPayees(x) ==
  LET body == attempt[x].body IN
  /\ attempt[x].pc = "load"
  /\ \/ /\ \A i \in DOMAIN body.items : Payable(body.items[i].payee, body.source)
        /\ attempt' = [attempt EXCEPT
             ![x].pc    = "pay",
             ![x].items = [i \in DOMAIN body.items |->
                             [payee |-> body.items[i].payee, amount |-> AmountOf(body.items[i])]]]
     \/ /\ \E i \in DOMAIN body.items : ~Payable(body.items[i].payee, body.source)
        /\ Goto(x, "refused")
  /\ UNCHANGED <<vars, payees, run, edits>>

\* SumTo(items)[i]: what the first i of them come to.
SumTo(items) ==
  LET sum[i \in 0 .. Len(items)] == IF i = 0 THEN 0 ELSE sum[i - 1] + items[i].amount
  IN  sum

Total(items) == SumTo(items)[Len(items)]

\* postTransaction for one item after the other, from account s.
PostItems(x, s, items) ==
  LET sum     == SumTo(items)
      debits  == [i \in DOMAIN items |->
                    [txn |-> PaymentKey(x, i), direction |-> "DEBIT",
                     amount |-> items[i].amount, after |-> balance[s] - sum[i]]]
      ItemTo(a) == {i \in DOMAIN items : items[i].payee = a}
      Paid(a, i) == [txn |-> PaymentKey(x, i), direction |-> "CREDIT",
                     amount |-> items[i].amount, after |-> balance[a] + items[i].amount]
  IN
  /\ \A i \in DOMAIN items : ~Recorded(PaymentKey(x, i))
  /\ txn' = [k \in Key |->
               IF \E i \in DOMAIN items : k = PaymentKey(x, i)
               THEN Row("payroll_payment", s, items[k[2]].payee, items[k[2]].amount, "settled", NoKey)
               ELSE txn[k]]
  /\ entries' = [a \in Account |->
                   IF a = s THEN entries[a] \o debits
                   ELSE IF ItemTo(a) = {} THEN entries[a]
                   ELSE Append(entries[a], Paid(a, CHOOSE i \in ItemTo(a) : TRUE))]
  /\ balance' = [a \in Account |->
                   IF a = s THEN balance[a] - Total(items)
                   ELSE IF ItemTo(a) = {} THEN balance[a]
                   ELSE balance[a] + items[CHOOSE i \in ItemTo(a) : TRUE].amount]

\* Under the locks: can the wallet pay the whole run, and every payee take it?
Affordable(s, items) == status[s] = "active" /\ balance[s] >= Total(items)
AllOpen(items) == \A i \in DOMAIN items : status[items[i].payee] # "closed"

StoreRun(x, items) ==
  run' = [run EXCEPT ![x] = [key |-> attempt[x].key, source |-> attempt[x].body.source,
                             items |-> items, total |-> Total(items)]]

PayRun_SkipsClosed(x) ==
  LET s == attempt[x].body.source
      items == attempt[x].items
  IN
  /\ attempt[x].pc = "pay"
  /\ Affordable(s, items)
  /\ StoredUnder(attempt[x].key) = {}
  /\ StoreRun(x, items)
  /\ PostItems(x, s, SelectSeq(items, LAMBDA i : status[i.payee] # "closed"))
  /\ Goto(x, "paid")
  /\ UNCHANGED <<status, linking, payees, edits>>

\* createRun's transaction: the run and all its payments.
PayRun(x) ==
  LET s == attempt[x].body.source
      items == attempt[x].items
  IN
  /\ attempt[x].pc = "pay"
  /\ Affordable(s, items) /\ AllOpen(items)
  /\ StoredUnder(attempt[x].key) = {}
  /\ StoreRun(x, items)
  /\ PostItems(x, s, items)
  /\ Goto(x, "paid")
  /\ UNCHANGED <<status, linking, payees, edits>>

\* It is rolled back: too little money, or a payee's wallet closed meanwhile.
PayRefused(x) ==
  LET s == attempt[x].body.source
      items == attempt[x].items
  IN
  /\ attempt[x].pc = "pay"
  /\ \/ ~Affordable(s, items)
     \/ StoredUnder(attempt[x].key) = {} /\ ~AllOpen(items)
  /\ Goto(x, "refused")
  /\ UNCHANGED <<vars, payees, run, edits>>

\* It is rolled back: another attempt stored its run under the key.
PayRaced(x) ==
  /\ attempt[x].pc = "pay"
  /\ Affordable(attempt[x].body.source, attempt[x].items)
  /\ StoredUnder(attempt[x].key) # {}
  /\ Goto(x, "raced")
  /\ UNCHANGED <<vars, payees, run, edits>>

AnswerRaced(x) ==
  /\ attempt[x].pc = "raced"
  /\ Goto(x, Replay(attempt[x].key, attempt[x].body))
  /\ UNCHANGED <<vars, payees, run, edits>>

\* The process dies, or its answer never arrives.
LoseAttempt(x) ==
  /\ attempt[x].pc \in {"load", "pay", "raced", "paid"}
  /\ Goto(x, "lost")
  /\ UNCHANGED <<vars, payees, run, edits>>

\* What else happens to the wallets.
MoneyComes(k, c, a, m) == BankDeposit(k, c, a, m) /\ UNCHANGED payroll
MoneyGoes(k, s, a, m)  == Transfer(k, s, a, m) /\ UNCHANGED payroll
SourceChange(s) == (FreezeAccount(s) \/ UnfreezeAccount(s)) /\ UNCHANGED payroll
PayeeCloses(p)  == CloseAccount(p) /\ UNCHANGED payroll

PayrollNext ==
  \/ \E p \in Payee, rate \in Rate : CreatePayee(p, rate)
  \/ \E p \in Payee, row \in PayeeRow : UpdatePayee(p, row)
  \/ \E x \in Attempt, k \in RunKey, b \in Body : StartRun(x, k, b)
  \/ \E x \in DOMAIN attempt :
       \/ LoadPayees(x) \/ PayRun(x) \/ PayRefused(x)
       \/ PayRaced(x) \/ AnswerRaced(x) \/ LoseAttempt(x)
  \/ \E k \in OtherKey, c \in System, s \in Source, m \in Rate : MoneyComes(k, c, s, m)
  \/ \E k \in OtherKey, s \in Source, p \in Payee, m \in Rate : MoneyGoes(k, s, p, m)
  \/ \E s \in Source : SourceChange(s)
  \/ \E p \in Payee : PayeeCloses(p)

PayrollSpec == Init /\ PayrollInit /\ [][PayrollNext]_<<vars, payroll>>

(***************************************************************************)
(* Properties.                                                             *)
(***************************************************************************)

PaymentsOf(x) == {PaymentKey(x, i) : i \in DOMAIN run[x].items}

\* A key pays for one run, however many attempts carry it and whatever became
\* of the earlier ones, and an attempt that is told it worked was: the run
\* under its key paid exactly the payees it asked for, at the amounts it named.
PaidAsAsked ==
  /\ \A x, y \in Attempt :
       run[x] # NoRun /\ run[y] # NoRun /\ run[x].key = run[y].key => x = y
  /\ \A x \in DOMAIN attempt : attempt[x].pc \in {"paid", "replayed"} =>
       \E y \in StoredUnder(attempt[x].key) :
         /\ run[y].source = attempt[x].body.source
         /\ {run[y].items[i].payee : i \in DOMAIN run[y].items} =
              {attempt[x].body.items[i].payee : i \in DOMAIN attempt[x].body.items}
         /\ \A i \in DOMAIN attempt[x].body.items, j \in DOMAIN run[y].items :
              LET asked == attempt[x].body.items[i]
                  paid  == run[y].items[j]
              IN  asked.payee = paid.payee => asked.amount \in {AtRate, paid.amount}

\* A run is paid as a whole or not there at all ("every payment goes through,
\* or none does"): each of its items is a settled payment from its wallet to
\* that payee, its total is what left the wallet, and no payroll payment is
\* outside a run, although payees close their wallets, attempts race and
\* processes die while it is being paid.  And PaidAsAsked.
RunIsWhole ==
  /\ PayrollTypeOK
  /\ PaidAsAsked
  /\ \A x \in Attempt : run[x] # NoRun =>
       /\ \A i \in DOMAIN run[x].items :
            txn[PaymentKey(x, i)] =
              Row("payroll_payment", run[x].source, run[x].items[i].payee,
                  run[x].items[i].amount, "settled", NoKey)
       /\ run[x].total = Total(run[x].items)
  /\ \A k \in Key :
       Recorded(k) /\ txn[k].type = "payroll_payment" =>
         \E x \in Attempt : run[x] # NoRun /\ k \in PaymentsOf(x)

=============================================================================
