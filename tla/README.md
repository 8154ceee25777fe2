# A formal model of the vergePay API

vergePay is a Node.js service over PostgreSQL: wallets with a double-entry
ledger, bank withdrawals and card payments through Flutterwave, invoices,
recurring plans, loans, and brokerage accounts that are synced in the
background; and what is around them, from signing in to the email that says a
payment has arrived. The API and its workers are several processes; a request
is interleaved with every other request, with webhooks and with the workers'
jobs at each `await`. This directory models those parts in TLA+, checks them
with TLC on small instances, and proves nearly all of their safety properties
with TLAPS for instances of any size.

Paths below are relative to the repository's root. `PROJECT.json` maps every
definition to the lines it stands for.

## The system

| Part | State it keeps | Operations | Talks to | What makes it correct |
|---|---|---|---|---|
| Ledger and accounts (`services/ledger.js`, `controllers/transactionController.js`, `accountController.js`) | `account`, `transactions`, `ledger_entries` | post, settle, fail, reverse; freeze, unfreeze, close | everything that moves money posts through it, inside its own DB transaction | double entry, the balance cache equals the ledger, nobody is overdrawn, one refund per transfer, history is append-only |
| Idempotency and DB transactions (`utils/idempotency.js`, `db/withTransaction.js`, `postOnce`) | `idempotency_keys` and the `UNIQUE` key of `transactions` | claim, replay, take over, record, release | wraps every handler that moves money | money moves once per key; an answered success is real; the client can find out |
| Withdrawals and payouts (`withdrawalController.js`, `services/payouts.js`) | `withdrawals`, the clearing accounts | create, submit, sync, settle, worker batch | ledger, Flutterwave, webhooks, worker | the money is in one place, books match the rows, an outcome is final |
| Card payments and webhooks (`cardController.js`, `processorPayments.js`, `webhookController.js`) | pending `transactions`, `card_links`, `cards`, `webhook_events` | link, charge, block, remove, sync, deliver | ledger, Flutterwave, clients that poll | a payment is credited once and never forgotten; a card funds one account |
| Invoices and pay links (`invoiceController.js`, `payLinkController.js`, `services/invoices.js`) | `invoices`, `invoice_counters`, their `transactions` | draft, edit, send, cancel, pay, check out, refund | ledger, card payments, recurring plans | a paid invoice was paid in full by one payment, any other payment is returned |
| Recurring plans (`recurringPlanController.js`, `services/recurring.js`) | `recurring_plans` | create, bill, pause, resume, cancel | creates invoices; worker | each cycle is billed once, none for paused time |
| Loans (`loanController.js`, `services/loanRepayments.js`, `loanJobs.js`) | `loan_applications`, `loans`, `loan_repayment_schedule` | apply, decide, disburse, repay, pay off; the job's three passes | ledger, accounts, worker | the balance is the schedule, money is applied once, fees, collections and defaults are due |
| Brokerage links and sync (`brokerageController.js`, `services/brokerageSync.js`, `services/queue.js`, `worker.js`) | `oauth_states`, `external_brokerage_links`, `vault_secrets`, `holdings`, the queue's jobs | callback, disconnect, enqueue, sync, expire | the brokerage, BullMQ, the vault | no token or holding outlives its link, one active link per account, holdings converge |
| Goals (`services/goals.js`, `goalController.js`) | `goals`, each with a savings account of its own | create, edit, contribute, withdraw, close | ledger, accounts | a goal and its account close together, and what was saved has gone back by then |
| Payroll (`payrollController.js`, `services/payroll.js`) | `payees`, `payroll_runs`, `payroll_payments` | add and edit payees, pay a run | ledger, idempotency by the run's own key | a run pays all or none, once per key, as it was asked |
| Email (`services/email.js`, `queue.js`, `worker.js`) | `email_log` and its job | queue after the commit, deliver, retry, give up | every handler that tells somebody something; the mail server | an email goes out once and its row says so; none is forgotten but by a mishap |
| Sign-in, sessions, two-factor (`authController.js`, `twoFactorController.js`, `utils/session.js`, `jwt.js`, `totp.js`) | `users`, `refresh_tokens`, two cookies per browser | sign up, in and out, refresh, enable, verify, disable | every handler asks for its access cookie | a full session was proved, a code wins once |
| Password reset and email change (`passwordResetController.js`, `emailChangeController.js`) | `password_reset_codes`, `email_change_codes` | send, resend, confirm, cancel | sessions, email | a reset signs out, an address is read by who has it |
| KYC and the profile (`kycController.js`, `services/kyc.js`, `userController.js`) | `kyc_verification`, the name in `users` | submit, decide, edit | a timer in the process | a verified name is the approved one |
| Opening and closing (`services/accountOpening.js`, `accountController.js`, `virtualAccountController.js`) | `account`, `bank_accounts`, `virtual_accounts` | open, freeze, close, save and remove a bank account, ask for a number | invoices, cards, withdrawals and loans that need a wallet; Flutterwave | one wallet of a kind, one number, none closed while it is needed |
| Lists (`transactionController.js`, `invoiceController.js`, `utils/pagination.js`) | none of their own | page by page with a cursor, balance history | the rows others write meanwhile | no row twice, none left out |
| Notifications and realtime (`services/notifications.js`, `realtime.js`, `realtime/`) | `notifications`, open sockets | record, publish, read, read all, connect | Redis, browsers | the badge counts the unread rows once events have gone out |
| Clients (`services/clients.js`) | `clients` | health score, worked out on read | invoices | in range, at risk when long overdue, monotonic |
| The assistant, developer endpoints, server wiring, Postman | none another part reads | – | – | left out |

### What is hard here

* **Checks and writes in different transactions.** Money is recorded as
  pending, committed, and only then sent; whoever learns the outcome first
  (the request, the client's sync, a webhook, the worker) applies it, each
  after an unlocked read.
* **Answers that do not come.** A transfer, a charge or a COMMIT may have
  happened although its caller heard an error, or nothing.
* **Retries and takeovers.** An idempotency claim older than 60 seconds is
  taken over while its request may still be running.
* **Jobs that read first and lock later.** The loan job, the recurring
  worker and the brokerage sync choose their work without a lock.
* **Rights that outlive what granted them.** An access cookie is believed
  without a look at the database, a request has read a password that is
  changed, a wallet is checked open and then closed.
* **Clocks that do not agree.** `created_at` is when a DB transaction began,
  not when it committed; events of several processes overtake one another.
* **Long sequences.** Early, partial and late loan payments; checkouts that
  are paid after the invoice was cancelled; reversals of spent money.

`PROJECT.json` lists these hazards at the lines where they bite.

## Modules

| Module | Models | Steps |
|---|---|---|
| `Ledger` | the posting routine, transfers and reversals, bank deposits, card-link payments, account status | one per DB transaction; `startCardLink`'s unlocked check of the account is a step of its own |
| `Requests` | one idempotency key's life: middleware, `postOnce`, the DB transaction, the recorded response | one per SQL statement outside the handler's transaction, one for the transaction |
| `Payouts` | a customer's withdrawals: request, webhook, customer's sync, worker's batch, Flutterwave | one per DB transaction and one per call to Flutterwave |
| `PayoutPromise` | what a withdrawal promises: the money is in the wallet, in transit, or at the bank | abstract; `Payouts` implements it (`PromiseKept`) |
| `CardPayments` | linking, charging, blocking, removing, sync, webhook events, closing accounts | as in `Payouts` |
| `Invoices` | drafts to refunds of one issuer | one per handler: each locks the invoice for the whole of its transaction |
| `Recurring` | one plan and its worker, EXTENDS `Invoices` | handlers, and the worker's pick, billing and error note apart |
| `Loans` | one loan and the three passes of the job | handlers one step each; every pass reads first and then handles item by item |
| `Goals` | goals, their accounts and the wallets around them, EXTENDS `Ledger` | a payment is one step; closing reads the balance in one and commits in another |
| `Payroll` | payees and pay runs, EXTENDS `Ledger` | one per DB transaction and one per unlocked read |
| `Brokerage` | links to one brokerage account, the queue, the workers | one per statement, vault call, queue call and call to the brokerage |
| `Amortization` | a loan's schedule and its level installment, in exact numbers; `Loans` draws its schedules from it | operators |
| `Delivery` | emails: the row, the job, the worker or the API that delivers it, the mail server | one per statement and one per call to the queue or the mail server |
| `Sessions` | one user's devices, requests, sessions, two-factor and reset | one per statement or DB transaction; what is read before it is remembered |
| `Addresses` | who signs in with which address: signing up, changing, confirming | one per request: each is one DB transaction or statement |
| `Identity` | one user's name, its submissions, verdicts and edits | submissions and verdicts are one step each, an edit's look and its write are two |
| `Accounts` | one customer's wallets, bank accounts and numbers, and the claims that need a wallet | locking the user, looking and inserting are steps; an unlocked check and the commit after it are two |
| `Lists` | a walk through a list while DB transactions write to it; the closing balance | one per page, one per row written, one per commit |
| `Alerts` | rows, events, sockets and badges of one user | the row with the DB transaction it tells of, each event and its delivery |
| `Clients` | the health score | operators |
| `LedgerProofs` | theorems about `Ledger` | |
| `RetriesProofs` | theorems about `Requests`, `Payouts` (and that it implements `PayoutPromise`) and `Delivery` | |
| `CardPaymentsProofs` | theorems about `CardPayments` | |
| `RecurringProofs` | theorems about `Invoices` and `Recurring` | |
| `JobsProofs` | theorems about `Brokerage`, `Loans` and `Amortization` | |
| `ProductsProofs` | theorems about `Goals` and `Payroll` | |
| `CustomersProofs` | theorems about `Sessions`, `Addresses`, `Identity`, `Accounts`, `Alerts`, `Lists` and `Clients` | |
| `Sums` | lemmas about sums over finite sets | |
| `MC_*` | small instances for TLC | |

Names of variables follow the tables: `txn[k]` is the `transactions` row with
idempotency key `k`, `wd[w]` a `withdrawals` row, `pay[k]` a card payment's
row, `inv[i]` an invoice, `rows` the loan's schedule, `link[l]` a brokerage
link. Where an operation is spread over several steps, the process that runs
it has a program counter (`req`, `call`, `job`, `run`, `round`, `attempt`, `delivery`, `opener`) and remembers what it
read: `call[x].reply` is the answer of Flutterwave that process `x` has not
applied yet, `run[w].ref` the token reference that worker `w` read. History
variables are marked as such where they are declared; no guard looks at them.

What was decided throughout:

* A DB transaction that locks the rows it decides on is one step. `SELECT ...
  FOR UPDATE` makes a second one wait, and what it then reads is what the
  first one committed. Two transactions that lock the same rows in a
  different order can deadlock; PostgreSQL aborts one, and an aborted
  transaction is a request that no action takes.
* Whatever is read without a lock is a step of its own, and may be stale when
  it is used.
* Flutterwave, the brokerage, the queue and the payers are modelled as far as
  the code relies on them: one payment or transfer per reference, a second
  one refused as a duplicate, answers that may be lost, a job added once per
  id. They are `"external"` in the map.
* Faults (lost or unreadable answers, dead processes, failing statements) are
  counted in a variable and bounded by `MaxFaults`, `MaxCardFaults`,
  `MaxDeaths`, `MaxMishaps` or `MaxLost`.
* Passwords, two-factor secrets and codes are numbers, hashes and signatures
  are right. What decides is who knows a number and when.
* Amounts are small integers. Where the code rounds (fees with fractions of a
  kobo, waived interest) the model rounds the same way.
* A definition named `Action_WhatIsWrong` is a plausible mistake in `Action`.
  No action uses it. Replacing `Action`'s body by it makes the property named
  beside it in `PROJECT.json` fail, which shows that the property depends on
  that line of code.

## What is checked

Deadlock is not checked: each of the systems may stop for good, with every key
used, every withdrawal settled, the last day reached. Components that share no
state are explored by one run, a part in each behaviour: the run's variable
`part` (`product` in `MC_Products`) is chosen at the start and the others do
not move.

| Run | Shows | States |
|---|---|---|
| `ledger` | *Ledger*: `DoubleEntry`, `BalanceIsLedger`, `BalancesAllowed`, `ReversedOnce`, `HistoryKept` for three transactions among two naira wallets, a dollar wallet and their clearing accounts. *Loans*: `BalanceIsSchedule`, `OwedAsAgreed`, `CollectedAsAgreed` for three installments, five days, every amount, two overlapping runs of the job | 632,000 |
| `retries` | what is done again when it was not heard to be done. *Requests*: `MovedOnce`, `SuccessIsReal`, `LearnsOutcome` for two requests with one key, two payloads, money for either but not both, one of which may die. *Payouts*: `PromiseKept` (the refinement) and `DecidedIsSettled` (liveness) for two withdrawals whose answers may be lost, with a worker that looks at one of them at a time. *Email*: `SentOnce`, `EverySettled` (liveness) for one email, two deliveries, two attempts, two mishaps | 131,000 |
| `processor` | *Payouts*: `BooksMatch`, `RefundedUnlessMisread`, `WithinLimit`, `OutcomeIsFinal` for two withdrawals of either size and fee, with a request or webhook and the worker, two faults of any kind. *Card payments*: `CreditedOnce`, `CapturedIsKept`, `CardFundsOpenAccount` for two payments, two accounts, one card, two processes, one fault | 3,519,000 |
| `payouts_torn_reply` | `RefundedIsNotSent` fails: see the findings | |
| `payouts_full_batch` | `WorkerReachesAll` fails: see the findings | |
| `billing` | `NoPaymentForgotten`, `BilledOnce`, `SentStands`, `PausedTimeNotBilled`: two invoices, two payments, a plan whose amount changes, three days | 3,751,000 |
| `loans_default_race` | `DefaultedWhenOverdue` fails: see the findings | |
| `brokerage` | `NothingLeftBehind`, `SyncsInOrder`, `FinallyInStep`: one brokerage account connected twice, for two wallets, with two workers, one trade and one fault | 680,000 |
| `brokerage_reconnect` | `OnlyRefusedExpires` fails: see the findings | |
| `products` | `SavingsComeBack` for two goals and one wallet that closings and deposits race; `RunIsWhole` for two attempts to pay two people | 913,000 |
| `customers` | *Sessions*: `ResetSignsOut`, `FullMeansProved`, `NoCodeTwice`. *Addresses*: `AddressProved`. *Identity*: `NameIsVerified`. *Accounts*: `OneOfEach`, `ClosedIsFree`. *Lists*: `PagesComplete`. *Alerts*: `BadgeIsRight` | 3,653,000 |
| `closing_balance` | `ClosingIsBalance` fails: see the findings | |

A module's type invariant is a conjunct of one of its invariants, so
that it is checked wherever they are.

Two algorithms without state are checked by assumptions that TLC evaluates
when it starts. `LevelAssumption` (`MC_Ledger`): 900 loans have schedules whose
principal adds up and whose installments are within two units of the level
one. `HealthAssumption` (`MC_Customers`): for 2,401 books of four invoices, the
health score of a client is within 0 and 100, at most 49 with an invoice more
than 30 days overdue, not raised by one that turns overdue, by 1 or by 31 days,
and not lowered by one that is paid in time. Both are proved as well, without
these bounds.

The code has a list of its own: `GET /v1/dev/invariants`
(`controllers/devController.js:269-410`) counts what is out of place in a
database. The runs check the same for every reachable state, in stronger
forms: `unbalanced_transactions` and the two about processor money are
`DoubleEntry`, `cached_balance_drift` is `BalanceIsLedger`,
`loan_balance_drift` is `BalanceIsSchedule`, the ones about installments and
repayments are `BalanceIsSchedule` too (with `MoneyIsApplied`, a conjunct of
it), `invoice_mismatch` and `refund_mismatch` are `NoPaymentForgotten` (with
`PaidInFull`) and `ReversedOnce`, the ones about payroll are `RunIsWhole`,
`withdrawal_mismatch` and `payout_in_transit_drift` are `BooksMatch`. `goal_account_mismatch` and `goal_transaction_mismatch` hold
only as far as `SavingsComeBack` says; see below.

### Why the bounds are enough

* *Ledger*: a reversal needs two transactions and a third can spend the money
  in between; a third wallet in another currency makes the currency checks
  matter. The theorems below remove the bound.
* *Requests*: two slots are the slow attempt and the one that takes over. The
  wallet can afford the smaller payload twice, so that a double payment would
  show, and not both payloads, so that the slower twin can be refused.
* *Payouts*: two withdrawals share the limit (2) and the balance (3); with the
  fee each of them binds for some amounts. The worker and one caller are two
  actors on one withdrawal; two faults are a lost answer followed by a torn or
  unstored one, or by a crash. In `retries` the worker's batch (`LIMIT 100`)
  has room for one of the two, so that one that is held for review can crowd
  the other out; `processor` has room for both. The reply that breaks off is
  checked with two callers. The theorems below remove the bounds of `OutcomeIsFinal` and
  `PromiseKept`.
* *Email*: two deliveries are the worker that was lost and the one that got
  its job; two attempts are one that is repeated and one that is the last; two
  mishaps lose a job twice, which is when the queue gives it up.
* *CardPayments*: two slots are any two of the charge, the poll and the
  webhook. One fault is enough for each way of losing an answer; a second
  adds only repetitions of the first. A daily limit of two is both payments.
* *Billing*: two payments are the one that settles the invoice and the one
  that comes too late; three days at a period of one day leave room to fall
  behind by two cycles, `MaxCycles` of one run, and be paused.
* *Loans*: three installments are one past, one current and one future when
  the loan is paid in the middle of it, with interest that is rounded; the
  grace and default periods are as short as they can be and still differ. The
  theorems below remove the bounds.
* *Brokerage*: with one attempt per job, one fault is the last attempt that
  fails; two attempts and two faults were also explored once (3,000,000
  states, no error), which takes too long for every day. Without trades
  `FinallyInStep` could hold by accident, hence the one trade. The finding
  needs no fault.
* *Products*: four keys
  and two goals, of which one may be active, let a goal be filled, raced and
  closed, and another opened after it. For payroll, two attempts under one
  key or two, three bodies of which one leaves the amount to the payee's rate,
  one edit of a payee, and amounts of one and two, so that another body is
  another total.
* *Sessions* (2,070,000 of the states): one browser and two requests race each
  other, which is a device with two tabs; of three sessions one can be
  replaced and one more opened around a reset; two secrets are one that was
  used and turned off and one set up beside it. The proofs remove all bounds.
* *Addresses* (4,000): two people, three addresses of which one is wanted by
  both; two codes are a first and a second one.
* *Identity* (113,000): two fields, two values, two edits, two submissions.
* *Accounts*: two rows and two openers, one saved bank account of two, two
  numbers, one claim of any kind. The proofs remove these bounds.
* *Lists* (614,000): three rows by two DB transactions, pages of one row, so
  that a page can end at any row; a third row is what a cursor could skip.
* *Alerts* (45,000): two alerts, two tabs of which one has a socket, three
  events: two created and one read, in any order.

Symmetry is used only in runs without liveness properties.

### Fairness

* `Requests`: `WF` on serving a request (the event loop runs what it can), on
  a claim growing old (the clock), and on the retry of a client that was not
  told. Without the retry nothing would ever tell the client. `LearnsOutcome`
  excepts a key that keeps being used for another payment. In `MC_Retries` the
  fairness of each part is conjoined; a part that was not chosen has nothing
  enabled but what its fairness names, and the retry is asked for only in its
  own part.
* `Payouts`: `WF` on every process's next step, on the worker's repeated job
  (BullMQ schedules it) and on the bank's decision. Nothing makes a customer
  or a webhook come, so the worker must be enough.
* `Delivery`: `WF` on handing each email on (the enqueue callback, the queue)
  and on each delivery's next step; nothing revives what a mishap ended.
* `Brokerage`: `WF` on the scheduler, on the queue handing a waiting job to a
  worker, and on the worker's next step. Nothing makes a user reconnect.

The others have no liveness properties: what moves them is a customer or the
calendar. For card payments that is a fact about the code: there is no worker
for them and a webhook is not looked at twice, so a payment that a webhook
could not confirm waits until its client asks.

## What is proved

Nearly every invariant and action property of the runs, for every value of the
constants under the assumptions named at the end. An invariant is proved from
an inductive one, which adds what the processes under way know; TLC checked
each of those on the run of its module before it was proved.

`LedgerProofs`, for any accounts, keys, currencies and amounts:

* `TypeCorrect` (`TypeOK`).
* `BalancesCorrect` (`BalanceIsLedger`, `NoOverdraft`, `ClosedIsEmpty`), and
  `BalancesStayAllowed` (`BalancesAllowed`: the last two of them, and the types).
  Every step is one of two kinds (`StepKinds`): it posts one amount from one
  account to another, or it leaves money alone and changes a status at most.
  The three invariants are proved together as `BalanceInv`, per kind instead
  of per handler. They need each other: that an entry's running balance is
  not negative follows from the sender's cached balance, which `CanPost`
  looks at, only if the cache is the last entry's; and a closed account stays
  empty because `CanPost` refuses it, not because its balance is compared.
* `HistoryIsKept` (`HistoryKept`). Entries only grow because a posting step
  appends one to each of two accounts; rows keep their outcome because every
  handler looks at the status it is about to change.
* `ReversalsCorrect` (`ReversedOnce`). It is not inductive: a refund of a
  refund, or of a row that is not there, has to be excluded first.
  `RefundInv` says that a row that reverses something is a settled refund of
  a recorded transfer that is marked reversed, and that two refunds differ in
  what they reverse.
* `DoubleEntryKept` (`DoubleEntry`). Inductive as it stands: a row that has
  not moved has no entries, so the two that are appended when it moves
  (`WriteEntriesOf`) are all; and a row that moved keeps its money and never
  moves again (`MoneySteps`).

`RetriesProofs`, about `Requests`, `Payouts` and `Delivery`:

* `RequestsTyped` (`TypeOK`), `MoneyMovesOnce` (`MovedOnce`) and
  `SuccessesAreReal` (`SuccessIsReal`), for any requests, keys, payloads and
  deaths. `RequestInv` adds that a transaction is there exactly when money
  moved for its key, that what is stored under a key is about that
  transaction, and that so is what each request is about to be told. This is
  what makes it harmless that a response is stored under a claim that has
  changed hands.
* `OutcomesAreFinal` (`OutcomeIsFinal`), for any withdrawals and processes and
  every kind of fault. `PayoutsInv` adds what a process knows: it works on a
  row that exists, and when it is about to mark it paid, the bank has paid it.
  That is never taken back, so an unlocked look may be late but not wrong.
* `BooksAlwaysMatch` (`BooksMatch`) and `LimitIsKept` (`WithinLimit`).
  `Balanced` says what each of the four accounts is a sum of. A step changes
  the state of one withdrawal, which moves one summand from one sum to
  another. The limit is kept because the check and the insert are one DB
  transaction under the wallet's lock, and a withdrawal never comes back from
  having failed.
* `KeepsPromise` (`PromiseKept`), in every behaviour in which nothing is
  `misread`: answers may be lost and processes may die, but no answer is torn,
  every transfer's id that comes is stored, and no transfer is refused once and
  accepted at another try. Each of the three breaks it, as `payouts_torn_reply`
  shows for the first. Creating maps to `Accept`, the bank's decision to
  `Arrive`, a failed settlement to `GiveBack`; all other steps stutter.
* `RefundsAreRight` (`RefundedUnlessMisread`) says the same of each withdrawal
  without any condition on the others: only one that was itself misread is
  refunded although it was sent. `Held` is the reason: whoever is about to fail
  a withdrawal that was not misread knows that there is no transfer.
* `EmailsSentOnce` (`SentOnce`). `Alone` says what is so of an email that met
  no mishap and no second delivery: there is one delivery that has read its
  row, and it read it before the mail server took the email.

`CardPaymentsProofs`, for any payments, tokens, cards, accounts and faults:

* `PaymentsCreditedOnce` (`CreditedOnce`) and `PaymentsKept`
  (`CapturedIsKept`). `Known` says what a request that has asked the processor
  may believe of its answer (a decision is never taken back), that one request
  alone calls the processor for a payment (`Alone`), and why each failed
  payment is not owed to its customer (`Unpaid`).
* `CardsFundOpenAccounts` (`CardFundsOpenAccount`). It is not implied by the
  rest: `Lasting`, a fact about steps, says that a linked card's account can
  be closed only by the step that looks for linked cards.

`RecurringProofs`, about `Invoices` and `Recurring`, for any invoices,
payments, periods and days:

* `PaymentsAccountedFor` (`NoPaymentForgotten`). `Accounted` places every
  payment: it pays its invoice, was reported to the issuer, or is a refund,
  and no two refunds return the same payment.
* `SentInvoicesStand` (`SentStands`). The numbers have no gaps because the
  next one is the count of those given (`NoGaps`).
* `CyclesBilledOnce` (`BilledOnce`) and `PauseIsNotBilled`
  (`PausedTimeNotBilled`). `Cycles` says that what was billed lies before the
  plan's next date and a whole number of periods apart from it.

`JobsProofs`, about `Brokerage`, for any connections, wallets, workers and faults:

* `LinksAreClean` (`NothingLeftBehind`). `Linked` and `Brought` say whose token
  a link holds and that a connection brings one once. The proof did not go
  through at first: `Reconnect` lacked a guard of the code's, which finds a
  link of the same brokerage account before it takes it over.
* `OlderNeverWins` (`SyncsInOrder`). While no worker lost its job, a run is
  that of its link's job (`OneRun`), so what it read is as new as what the
  link was told (`Newer`).

and about `Loans` and `Amortization`, for any terms, periods, fees and days and
any number of overlapping runs of the job:

* `SchedulesAddUp`: the principal of the installments that `BuildSchedule`
  works out is what is lent, and no amount is negative. The sum telescopes
  (`SumOfSteps`); what is repaid grows from 0 to the principal (`RepaidGrows`)
  because (1 + rate) ^ k does.
* `InstallmentsAreLevel` (`IsLevel`), for rates up to 200 percent a month, where
  the table allows 100 a year. Before rounding, every installment is the level
  payment (`ExactlyLevel`). Of the four numbers that are rounded one, the
  principal repaid before, is counted twice, the second time with the interest
  on it: in all that is less than 2 + rate / 2 (`RoundingIsSmall`), and so less
  than 3.
* `BalanceAlwaysMatches` (`BalanceIsSchedule`). `LoansInv` adds the shape of the
  schedule (`Schedule`) to the books (`Books`). The hard part is a payment: its
  parts have turns that differ (`TurnsDiffer`), so what is shared out in turn
  comes to the amount that was paid (`SharedOut`), as long as that much is
  asked for, which what is due and what paying off costs are (`AskedCovers`);
  and what is waived on an installment leaves what is owed on it at 0 or more
  (`WaivedRange`).
* `OwedChangesAsAgreed` (`OwedAsAgreed`). `FoundLate`: an installment that a run
  found late still is when it is charged, however much later; whether it was
  paid or charged since is what the charge looks at again.
* `CollectsAsAgreed` (`CollectedAsAgreed`). That the switch is on and something
  is due is looked at again under the lock. That no second collection follows on
  the same day is not because of the attempt's date, which switching the
  collection off and on resets, nor of its key, which names the oldest
  installment at the time: it is because what is due is paid before anything
  else (`DueComesFirst`), so a collection leaves nothing due that day
  (`NothingLeftToday`).

`ProductsProofs`, about `Goals` and `Payroll`, which post to the ledger:

* `SavingsAlwaysComeBack` (`SavingsComeBack`). The obvious invariant, that a
  goal's account holds what was saved, is false: strangers pay in, and the
  closing reads the balance without a lock. `Covered` is what is needed: the
  balance is at least what was saved, and what a closing has read and is about
  to withdraw is too, whatever happens in between.
* `RunsAreWhole` (`RunIsWhole`). `RunStands` says that every payment of a
  stored run is in the ledger. That there is no other is by counting: what an
  attempt paid under its key is as many rows as it has items
  (`NothingElsePaid`).

`CustomersProofs`, about `Sessions`, `Addresses`, `Identity`, `Accounts`,
`Alerts`, `Lists` and `Clients`:

* `SessionsAreProved` (`FullMeansProved`) and `ResetsSignOut`
  (`ResetSignsOut`), for any devices, requests, sessions and times. Neither is
  inductive: the rows come from requests that are still under way, so the
  invariant says the same of them (`CallsProved`, `CallsCrossed`).
* `CodesWinOnce` (`NoCodeTwice`). `CodesUsed` holds used codes against the
  secret in use, whose steps only grow, and against the one being set up,
  which is always fresh.
* `AddressesProved` (`AddressProved`) rests on codes being numbered and sent
  to one address each; `NamesAreVerified` (`NameIsVerified`) on edits that
  looked after the last submission having found nothing pending.
* `OpenedOnce` (`OneOfEach`), for any wallets, banks, requests, claims and
  numbers. The invariant is about the user's lock: who has looked holds it,
  and what was looked at stays true until the insert, because whatever else
  happens meanwhile only closes wallets and removes banks.
* `ClosingIsSafe` (`ClosedIsFree`). The exceptions of the property are the
  ones the proof cannot do without: a wallet that was checked without a lock.
* `BadgesAreRight` (`BadgeIsRight`). `LatestAgrees` is about each alert and
  each tab: what the badge says of an alert is what its row says, or the last
  event about it is under way, or was lost or overtaken since the tab read the
  list. Events are numbered as they are raised (`Numbered`), and what has gone
  out is behind what is still in flight unless it overtook it (`InFlight`).
* `PagesAreComplete` (`PagesComplete`), for any rows, times, ids, filters and
  page sizes. `Walked` says that what is due and was not shown lies past the
  cursor, and what was shown does not. It needs `IdsAreUnique` and that a page
  of a finite list has a last row, before which lies nothing that is left
  over (`PageHasLast`).
* `ScoresAreFair`: what `HealthAssumption` checks of 2,401 books holds of any
  client's invoices (`ScoreIsFair`). Scores are fractions of different
  denominators, rounded: that one is no more than another is a comparison of
  products (`NearestGrows`), which `MarksFall` and `MarksRise` make.

`Sums` has what these proofs need of sums over finite sets: that the fold of the
community modules adds up, that a sum grows by what is added, that it is
monotonic, and that an amount shared out in turn is used up (`SumSharedOut`).
Induction is done there on the least counterexample (`LeastOf`,
`SmallestSet`), because the induction theorems of the library take an operator,
which the prover's backends cannot instantiate.

The assumptions are those named in the modules: values that mean "none" are
none of the values they stand beside, wallets and clearing accounts are
different, amounts and bounds are natural numbers, installments are at least a
day apart and there is at least one, there is a browser and a rate of pay, and
the sets of withdrawals and of DB transactions that write to a list are finite.
TLC evaluates them in every run.

Only model-checked: all liveness, which with ENABLED is out of the prover's
reach, and what the runs that expect a violation refute.

## Where the code and its comments part

Shown by a run:

* **A torn answer refunds a transfer that is sent** (`payouts_torn_reply`).
  `services/flutterwave.js:51` reads the body outside its `try`; an answer
  that breaks off after its headers is thrown as an ordinary error, which
  `submitWithdrawal` takes for a refusal. The withdrawal is refunded and paid.
  The comment at `services/payouts.js:183` wants the money held.
* **The worker's batch is full** (`payouts_full_batch`). The worker looks at the
  oldest 100 pending withdrawals (`services/payouts.js:230`). One whose transfer
  was accepted and the answer lost is answered "reference already used" ever
  after and "held for a person to match up" (`:189-195`): as many as the batch
  has room for, and no later one is looked at, although `:226` says "every
  withdrawal pending longer than `olderThanMs`". `DecidedIsSettled` says that
  nothing else starves one.
* **Defaulted after catching up** (`loans_default_race`). `markDefaults`
  (`services/loanJobs.js:182`) finds overdue loans unlocked and then checks
  only that the loan is still active, so a payment in between does not help
  the borrower. The comment at `loanJobs.js:22` says no run can race a payment.
* **A reconnected link expires** (`brokerage_reconnect`). A sync that read the
  old token before a reconnection has it refused, and `expireLink`
  (`services/brokerageSync.js:47`) expires whatever active link it finds.
* **A chart closes with the balance before a fee** (`closing_balance`).
  `getBalanceHistory` (`controllers/transactionController.js:370`) takes the
  last entry by `created_at` and id. The amount and the fee of a withdrawal
  have one `created_at` and random ids, so the "closing balance" of its comment
  (`:331`) may be the one between them; entries of two DB transactions that got
  the wallet's lock in the other order do the same.

Met while modelling, not the subject of a run:

* `utils/idempotency.js:118-121`: a slow request whose claim was taken over
  stores its response, or deletes the row, by key alone. A stored response
  can then be that of the other payload (never of another transaction:
  `SuccessIsReal`), and a delete lets a third attempt in while the second runs.
* `services/ledger.js:328`: the slower of two attempts with one key can be
  refused for want of the money the faster one moved, instead of being
  answered with its transaction.
* `services/payouts.js:163` and `:174`: if the first try was accepted and its
  answer lost, a second try that is refused for another reason, or an accepted
  try whose id could not be stored, ends in a refund of money that is sent
  (`misread` in `RefundedUnlessMisread`).
* `controllers/webhookController.js:60,107`: an event is marked processed
  although the processor could not confirm it yet, so a redelivery is ignored
  and the payment waits for a client that polls.
* `controllers/cardController.js:482`: a charge that never reached the
  processor stays pending for ever. `services/flutterwave.js:56-64`: a 2xx
  answer that is not JSON fails a charge that was taken (`CapturedIsKept`
  excepts these, and only these, through the history variable `unread`).
* `controllers/cardController.js:171`: the account of a card link is read
  unlocked, and a closed account can be left with a pending payment into it;
  the payment is then refused and flagged for a refund, so the account stays
  empty (`BalancesAllowed`).
* `controllers/cardController.js:414-421`: marking a card as expired is rolled
  back by the error that reports it.
* `controllers/accountController.js:256-258`: the account of a defaulted loan
  can be closed; the query looks for approved and active loans.
* `controllers/invoiceController.js:531-536`: whether a repeated payment is
  the same one is decided without comparing the invoice.
* `controllers/invoiceController.js:490,515`: `payInvoice` takes the object
  that `payFromWallet` returns for the flag in it ("Returns true if this was a
  replay", line 527), so every answer says `Idempotent-Replayed: true`.
* `controllers/goalController.js:343`: closing reads the goal's balance without
  locking its account, and a goal's account takes money past the goal, although
  `README.md:110-112` wants it to move only through the goal: bank deposits
  (`virtualAccountController.js:74`), card links (`cardController.js:178`),
  invoices (`services/invoices.js:266`) and loans (`loanController.js:52`)
  accept any savings account. A deposit between that read and the commit stays
  in the closed account, and the two counts of `devController.js:346-362`
  would show it. `markClosed` does not look at linked cards, pending payments,
  open invoices or loans of the account either. `SavingsComeBack` is about the
  goal's own money.
* `controllers/payrollController.js:278`: a second attempt that races the first
  can be refused for want of the money the first one paid, although its run
  was paid. `payrollController.js:172-180`: an edit of a payee writes the whole
  row from a read that may be stale, and can undo another edit.
* `controllers/recurringPlanController.js:171`: resuming starts from today,
  which also skips cycles that fell due while the plan was active and had not
  been billed. `services/recurring.js:211`: the billing error is written after
  the lock was given up, perhaps onto a plan that was resumed meanwhile.
* `controllers/withdrawalController.js:257`: a withdrawal locks the wallet
  before the clearing account and a refund may lock them the other way round;
  PostgreSQL resolves the deadlock by failing one of them.
* `services/brokerageSync.js`: a sync that finds its link gone can leave the
  status text at "running"; a reconnection's job is swallowed when one with
  its id is running, and the scheduler makes up for it (`FinallyInStep`).
* `services/email.js:97`: an email whose process dies between the commit and
  the enqueueing stays queued for ever; so does one whose job was lost twice
  or whose last failure could not be written. Two deliveries of one email that
  overlap can send it twice, or leave "failed" on one that was sent. Each is an
  exception in `SentOnce` or `EverySettled`, tied to the mishap that causes it.
* `controllers/goalController.js:211-214`: a goal is edited after an unlocked
  check that it is active, so a closed one can be.
* `controllers/passwordResetController.js:127,141`: "sign out every device"
  misses a session whose request was under way, and one that an access token
  still valid carries over by verifying or disabling two-factor. Both are
  `crossed` in `ResetSignsOut`. `:57`: the address the code is mailed to is
  read before the user is locked (`:81`).
* `controllers/twoFactorController.js:165`: what the comment says of the other
  sessions' tokens is so of this browser's only.
* `controllers/emailChangeController.js`: starting a change locks the user and
  then the code, confirming one the code and then the user; PostgreSQL ends one
  of two that meet.
* `controllers/userController.js:39,111`: the verified name is protected by an
  unlocked look at `kyc_status`, so an edit that began earlier can change it
  (`overtaken` in `NameIsVerified`).
* `services/kyc.js:91`: the sandbox's verdict waits on a timer in the process.
  When that dies the submission stays pending, and a pending one blocks the
  next.
* `controllers/accountController.js:256,269-270`: invoices are sent, card links
  started and loans approved after an unlocked look at the wallet, so each can
  be open on a closed one (`late` in `ClosedIsFree`); approving a loan does not
  look at the account again.
* `services/realtime.js:52`: a "read all" event published after a newer alert's
  event clears a badge that should show one (`stale` in `BadgeIsRight`), until
  the tab reads the list again or the next event comes in its turn.
* `controllers/clientController.js:112-131`: an edit of a client writes back
  every field it read; of two edits at once one is lost.
* `services/clients.js`: paying an overdue invoice can lower the score of who
  paid it, since from then on it counts as slow and not only as overdue.
* `utils/pagination.js`: rows of one DB transaction are listed in the order of
  their random ids.

## What is not modelled

* Floating-point error: `Amortization` and `Clients` compute with exact
  fractions, the code with doubles. The calendar (`addMonths`): due dates are
  days of an installment.
* Passwords, codes, tokens, signatures and the vault's encryption: what they
  decide is a guard that may pass or fail, or a number that somebody knows.
* Texts, formats, analytics, rate limits, validation: no state depends on them.
* Plain rows that one owner reads and writes: the client book, settings,
  profile photos, an invoice's lines and due date, a goal's name, target and
  date, a payee's particulars, a card's controls but its daily limit, the
  income and savings figures of a wallet (`updateAccount`). No property of
  another part is about them; where an edit of one races something, it is
  described above.
* Reminders of invoices: they change a timestamp and send an email.
* The brokerage account shared for tests (`linkSharedAccount`), the developer
  endpoints and seeds, and the Postman collection: not part of a production
  server. Their largest files are generated or test data.
* The assistant: read-only tools around a language model, whose answers cannot
  be enumerated.
* Routes, startup and shutdown: wiring. What a signal does to a job is a death
  of its process, which the modules with faults have.
* A system of all components at once: the modules are composed where they share
  state (`Recurring` with `Invoices`, `Goals` and `Payroll` with `Ledger`,
  `Payouts` with its specification); elsewhere what one needs of another is
  external to it.

## The order of the work, and what is left

The order was that of what could be lost: first the ledger, then the retry
protocol over it, then money that leaves (payouts) and arrives (cards), then
what bills and lends, then the background work, and last what surrounds a
customer: email, sessions, addresses, names, wallets, lists and alerts.

What is left: the assistant's tools, should any of them ever write.
