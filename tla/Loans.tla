-------------------------------- MODULE Loans --------------------------------
(***************************************************************************)
(* One loan from its application to its last payment:                      *)
(* controllers/loanController.js, services/loanRepayments.js and           *)
(* services/loanJobs.js.                                                   *)
(*                                                                         *)
(* A handler locks the loan's row and then its schedule, so it is one      *)
(* step.  The workers' runs are not: what is to be collected, charged or   *)
(* defaulted is read without a lock, and handled later, item by item, in   *)
(* DB transactions of their own, while the borrower and other workers act. *)
(*                                                                         *)
(* Days count from the disbursement, and a loan is split into installments *)
(* by Amortization.  What the wallet holds is left to chance.              *)
(***************************************************************************)
EXTENDS Amortization, Functions

CONSTANTS
  Runner,        \* runs of the loan job at work at the same time
  Offers,        \* terms an application may be approved with
  Period,        \* days from one installment to the next
  GraceDays,     \* env.loans.graceDays
  DefaultAfter,  \* env.loans.defaultAfterDays
  LateFee,       \* the fee of one installment
  MinRepayment,  \* env.loans.minRepaymentMinor
  MaxDay,        \* bound: the days that are looked at
  None

ASSUME OffersAssumption == Offers \subseteq Terms /\ None \notin Offers
ASSUME DaysAssumption   == Period \in Nat \ {0} /\ {GraceDays, DefaultAfter, MaxDay} \subseteq Nat
ASSUME FeeAssumption    == {LateFee, MinRepayment} \subseteq Nat

VARIABLES
  application,  \* loan_applications.status
  loan,         \* the loans row
  rows,         \* its loan_repayment_schedule rows, in order
  account,      \* the status of the account it is paid into
  today,        \* the borrower's date
  round,        \* round[w]: where run w of the job is, and what it has read
  taken,        \* loan_repayment transactions: what was taken in all ...
  collected     \* ... and the automatic ones: their keys, and the days (history)

loans == <<application, loan, rows, account, today, round, taken, collected>>

(***************************************************************************)
(* Installments.                                                           *)
(***************************************************************************)
DueDay(k) == k * Period

OwedFee(r)       == r.fee - r.feePaid
OwedInterest(r)  == r.interest - r.interestPaid - r.waived
OwedPrincipal(r) == r.principal - r.principalPaid
Owed(r)          == OwedFee(r) + OwedInterest(r) + OwedPrincipal(r)

NewRow(a) == [principal |-> a.principal, interest |-> a.interest, principalPaid |-> 0,
              interestPaid |-> 0, waived |-> 0, fee |-> 0, feePaid |-> 0,
              charged |-> FALSE, paid |-> FALSE]

\* The table's CHECK (schedule_amounts_add_up), without which nothing is disbursed.
MayBeInserted(a) == a.principal >= 0 /\ a.interest >= 0 /\ a.principal + a.interest > 0

Unpaid == {k \in DOMAIN rows : ~rows[k].paid}
Due    == {k \in Unpaid : DueDay(k) <= today}
Future == {k \in Unpaid : DueDay(k) > today}

\* Those after the next installment, and that one: future.slice(1) and future[0].
Later     == {k \in Future : \E j \in Future : j < k}
IsNext(k) == k \in Future \ Later

OwedOn(ks) == SumFunctionOnSet([k \in DOMAIN rows |-> Owed(rows[k])], ks)

DueNow == OwedOn(Due)

Overdue(days) == \E k \in Unpaid : DueDay(k) + days < today

Smaller(a, b) == IF a < b THEN a ELSE b
AtLeast0(a)   == IF a < 0 THEN 0 ELSE a

\* payoffQuote: interest on the current period for the days that have passed.
InterestToDate(k) ==
  LET elapsed == AtLeast0(today - DueDay(k - 1))
      accrued == (rows[k].interest * Smaller(elapsed, Period)) \div Period
  IN AtLeast0(Smaller(OwedInterest(rows[k]), accrued - rows[k].interestPaid))

\* What an installment costs when all is paid off, and how much of that is interest.
PayoffInterest(k) ==
  IF k \in Due THEN OwedInterest(rows[k]) ELSE IF IsNext(k) THEN InterestToDate(k) ELSE 0

PayoffOf(k) ==
  (IF k \in Due THEN OwedFee(rows[k]) ELSE 0) + PayoffInterest(k) + OwedPrincipal(rows[k])

PayoffTotal == SumFunctionOnSet([k \in DOMAIN rows |-> PayoffOf(k)], Unpaid)

(***************************************************************************)
(* How a payment is applied.                                               *)
(***************************************************************************)

\* What there is to pay, and how much of it allocate looks at.
Parts == {"fee", "interest", "principal"} \X DOMAIN rows

Asked_SecondNextSkipped(part) ==
  LET k == part[2] IN
  CASE part[1] = "fee"       -> IF k \in Due THEN OwedFee(rows[k]) ELSE 0
    [] part[1] = "interest"  -> IF k \in Due \/ IsNext(k) THEN OwedInterest(rows[k]) ELSE 0
    [] part[1] = "principal" -> IF k \in Unpaid /\ k - 1 \notin Future THEN OwedPrincipal(rows[k]) ELSE 0

Asked(part) ==
  LET k == part[2] IN
  CASE part[1] = "fee"       -> IF k \in Due THEN OwedFee(rows[k]) ELSE 0
    [] part[1] = "interest"  -> IF k \in Due \/ IsNext(k) THEN OwedInterest(rows[k]) ELSE 0
    [] part[1] = "principal" -> IF k \in Unpaid THEN OwedPrincipal(rows[k]) ELSE 0

\* Its order: late fees; the installments due and the next one, interest before
\* principal; then the last ones' principal, newest first.
Turn(part) ==
  LET k == part[2]
      n == loan.terms.months
  IN CASE part[1] = "fee"       -> k
       [] part[1] = "interest"  -> n + 2 * k
       [] part[1] = "principal" -> IF k \in Later THEN 5 * n + 1 - k ELSE n + 2 * k + 1

AskedOf(parts) == SumFunctionOnSet([p \in Parts |-> Asked(p)], parts)

\* Each part takes what is left of the payment when its turn comes.
Ahead(turn) == {p \in Parts : Turn(p) < turn}

Paid(amount) ==
  [p \in Parts |-> Smaller(Asked(p), AtLeast0(amount - AskedOf(Ahead(Turn(p)))))]

LeftOver(amount) == AtLeast0(amount - AskedOf(Parts))

\* The last installments' interest is waived in proportion.
Waives(k, paid) ==
  IF paid = 0 \/ k \notin Later THEN 0
  ELSE IF paid = OwedPrincipal(rows[k]) THEN OwedInterest(rows[k])
  ELSE (OwedInterest(rows[k]) * paid) \div OwedPrincipal(rows[k])

Add(k, fee, interest, principal) ==
  [rows[k] EXCEPT !.feePaid       = @ + fee,
                  !.interestPaid  = @ + interest,
                  !.principalPaid = @ + principal,
                  !.waived        = @ + Waives(k, principal)]

Allocate(amount) ==
  LET paid == Paid(amount) IN
  [k \in DOMAIN rows |-> Add(k, paid[<<"fee", k>>], paid[<<"interest", k>>], paid[<<"principal", k>>])]

\* allocatePayoff: everything, with the interest of later days waived.
Payoff ==
  [k \in DOMAIN rows |->
     IF rows[k].paid THEN rows[k]
     ELSE [rows[k] EXCEPT !.feePaid       = IF k \in Due THEN rows[k].fee ELSE @,
                          !.principalPaid = rows[k].principal,
                          !.interestPaid  = @ + PayoffInterest(k),
                          !.waived        = @ + OwedInterest(rows[k]) - PayoffInterest(k)]]

Settled(r, was) == IF r = was THEN r ELSE [r EXCEPT !.paid = Owed(r) = 0]

\* postRepayment: the rows a payment touched are paid once nothing is left on
\* them, and the payment that catches up cures a default.
PostRepayment(base, amount, applied) ==
  /\ rows' = [k \in DOMAIN rows |-> Settled(applied[k], rows[k])]
  /\ taken' = taken + amount
  /\ LET balance == OwedOn(Unpaid)'
         overdue == \E k \in Unpaid' : DueDay(k) < today
     IN loan' = [base EXCEPT
          !.balance = balance,
          !.status  = IF balance = 0 THEN "repaid"
                      ELSE IF @ = "defaulted" /\ ~overdue THEN "active" ELSE @]

(***************************************************************************)
(* The borrower, the underwriter and the back office.                      *)
(***************************************************************************)
Apply ==
  /\ application = "none" /\ account = "active"
  /\ application' = "pending_review"
  /\ UNCHANGED <<loan, rows, account, today, round, taken, collected>>

\* approveApplication sets the terms, and does not look at the account again.
Approve(terms) ==
  /\ application = "pending_review"
  /\ application' = "approved"
  /\ loan' = [loan EXCEPT !.status = "approved", !.autoDebit = TRUE, !.terms = terms]
  /\ UNCHANGED <<rows, account, today, round, taken, collected>>

Reject ==
  /\ application = "pending_review"
  /\ application' = "rejected"
  /\ UNCHANGED <<loan, rows, account, today, round, taken, collected>>

Disburse ==
  /\ loan.status = "approved" /\ account = "active"
  /\ LET schedule == BuildSchedule(loan.terms) IN
     /\ \A k \in DOMAIN schedule : MayBeInserted(schedule[k])
     /\ rows' = [k \in DOMAIN schedule |-> NewRow(schedule[k])]
  /\ loan' = [loan EXCEPT !.status = "active", !.balance = OwedOn(DOMAIN rows)']
  /\ UNCHANGED <<application, account, today, round, taken, collected>>

Repayable == loan.status \in {"active", "defaulted"}

\* checkRepaymentAmount: what may be paid at once.
RepaymentAmounts == Smaller(MinRepayment, PayoffTotal) .. PayoffTotal

Repay(amount) ==
  /\ Repayable
  /\ amount \in RepaymentAmounts
  /\ PostRepayment(loan, amount, IF amount = PayoffTotal THEN Payoff ELSE Allocate(amount))
  /\ UNCHANGED <<application, account, today, round, collected>>

PayOff ==
  /\ Repayable /\ PayoffTotal > 0
  /\ PostRepayment(loan, PayoffTotal, Payoff)
  /\ UNCHANGED <<application, account, today, round, collected>>

SetAutoDebit(on) ==
  /\ loan.status \notin {"none", "repaid"} /\ loan.autoDebit # on
  /\ loan' = [loan EXCEPT !.autoDebit = on, !.lastAttempt = None]
  /\ UNCHANGED <<application, rows, account, today, round, taken, collected>>

\* The account's own checks are the business of Ledger; what matters here is
\* which loans keep it open.
CloseLoanAccount ==
  /\ account = "active" /\ loan.status \notin {"approved", "active"}
  /\ account' = "closed"
  /\ UNCHANGED <<application, loan, rows, today, round, taken, collected>>

(***************************************************************************)
(* The loan job (runLoanJobs): collect, charge late fees, mark defaults.   *)
(***************************************************************************)
Goto(w, pc) == round' = [round EXCEPT ![w] = [@ EXCEPT !.pc = pc]]

\* loansToCollect
ToCollect ==
  /\ loan.autoDebit /\ Repayable /\ Due # {}
  /\ loan.lastAttempt = None \/ loan.lastAttempt < today

\* The scheduler has a worker run the job, from loan to loan.
StartRun(w) ==
  /\ round[w].pc = "idle" /\ loan.status # "none"
  /\ Goto(w, IF ToCollect THEN "key" ELSE "findFees")
  /\ UNCHANGED <<application, loan, rows, account, today, taken, collected>>

\* collectLoan: the key is read first, without a lock.
OldestUnpaid == CHOOSE k \in Unpaid : \A j \in Unpaid : k <= j

ReadKey(w) ==
  /\ round[w].pc = "key"
  /\ round' = [round EXCEPT ![w] =
       IF Unpaid = {} THEN [@ EXCEPT !.pc = "findFees"]
       ELSE [@ EXCEPT !.pc = "collect", !.key = <<today, OldestUnpaid>>]]
  /\ UNCHANGED <<application, loan, rows, account, today, taken, collected>>

TakeWhatIsDue(w) ==
  LET tried == [loan EXCEPT !.lastAttempt = today] IN
  \/ /\ loan' = tried   \* the wallet is short, or not active
     /\ UNCHANGED <<rows, taken, collected>>
  \/ /\ account = "active"
     /\ PostRepayment(tried, DueNow, Allocate(DueNow))
     /\ collected' = collected \cup {[key |-> round[w].key, day |-> today]}

Collect_NotReadAgain(w) ==
  /\ round[w].pc = "collect"
  /\ IF round[w].key \notin {c.key : c \in collected} /\ DueNow > 0
     THEN TakeWhatIsDue(w)
     ELSE UNCHANGED <<loan, rows, taken, collected>>
  /\ Goto(w, "findFees")
  /\ UNCHANGED <<application, account, today>>

Collect(w) ==
  /\ round[w].pc = "collect"
  /\ IF round[w].key \notin {c.key : c \in collected} /\ ToCollect /\ DueNow > 0
     THEN TakeWhatIsDue(w)
     ELSE UNCHANGED <<loan, rows, taken, collected>>
  /\ Goto(w, "findFees")
  /\ UNCHANGED <<application, account, today>>

\* chargeLateFees: first the installments, without a lock ...
FindFees(w) ==
  /\ round[w].pc = "findFees"
  /\ LET late == {k \in DOMAIN rows : /\ Repayable /\ ~rows[k].paid /\ ~rows[k].charged
                                     /\ DueDay(k) + GraceDays < today}
     IN round' = [round EXCEPT ![w] = [@ EXCEPT !.pc = "fees", !.late = late]]
  /\ UNCHANGED <<application, loan, rows, account, today, taken, collected>>

Charge(k) ==
  /\ rows' = [rows EXCEPT ![k].fee = @ + LateFee, ![k].charged = TRUE]
  /\ loan' = [loan EXCEPT !.balance = @ + LateFee]

\* ... then one by one, each looked at again under the lock.
ChargeLateFee_NotReadAgain(w, k) ==
  /\ round[w].pc = "fees" /\ k \in round[w].late
  /\ Charge(k)
  /\ round' = [round EXCEPT ![w].late = @ \ {k}]
  /\ UNCHANGED <<application, account, today, taken, collected>>

ChargeLateFee(w, k) ==
  /\ round[w].pc = "fees" /\ k \in round[w].late
  /\ \/ ~rows[k].paid /\ ~rows[k].charged /\ Charge(k)
     \/ (rows[k].paid \/ rows[k].charged) /\ UNCHANGED <<rows, loan>>
  /\ round' = [round EXCEPT ![w].late = @ \ {k}]
  /\ UNCHANGED <<application, account, today, taken, collected>>

\* markDefaults: the loans, without a lock ...
FindDefaults(w) ==
  /\ round[w].pc = "fees" /\ round[w].late = {}
  /\ Goto(w, IF loan.status = "active" /\ Overdue(DefaultAfter) THEN "default" ELSE "idle")
  /\ UNCHANGED <<application, loan, rows, account, today, taken, collected>>

\* ... then each one, whose status alone is looked at again.
MarkDefault(w) ==
  /\ round[w].pc = "default"
  /\ loan' = IF loan.status = "active" THEN [loan EXCEPT !.status = "defaulted"] ELSE loan
  /\ Goto(w, "idle")
  /\ UNCHANGED <<application, rows, account, today, taken, collected>>

\* The calendar starts with the loan.
NextDay ==
  /\ rows # <<>> /\ today < MaxDay
  /\ today' = today + 1
  /\ UNCHANGED <<application, loan, rows, account, round, taken, collected>>

NotRunning == [pc |-> "idle", key |-> <<0, 0>>, late |-> {}]

LoansInit ==
  /\ application = "none"
  /\ loan = [status |-> "none", balance |-> 0, autoDebit |-> FALSE, lastAttempt |-> None,
             terms |-> None]
  /\ rows = <<>>
  /\ account = "active"
  /\ today = 0
  /\ round = [w \in Runner |-> NotRunning]
  /\ taken = 0
  /\ collected = {}

LoansNext ==
  \/ Apply \/ Reject \/ Disburse \/ CloseLoanAccount \/ PayOff \/ NextDay
  \/ \E terms \in Offers : Approve(terms)
  \/ \E amount \in 1 .. PayoffTotal : Repay(amount)
  \/ \E on \in BOOLEAN : SetAutoDebit(on)
  \/ \E w \in Runner :
       \/ StartRun(w) \/ ReadKey(w) \/ Collect(w)
       \/ FindFees(w) \/ FindDefaults(w) \/ MarkDefault(w)
       \/ \E k \in DOMAIN rows : ChargeLateFee(w, k)

LoansSpec == LoansInit /\ [][LoansNext]_loans

(***************************************************************************)
(* Properties.                                                             *)
(***************************************************************************)

LoansTypeOK ==
  /\ application \in {"none", "pending_review", "approved", "rejected"}
  /\ loan \in [status: {"none", "approved", "active", "defaulted", "repaid"}, balance: Nat,
               autoDebit: BOOLEAN, lastAttempt: 0 .. MaxDay \cup {None},
               terms: Offers \cup {None}]
  /\ \A k \in DOMAIN rows :
       /\ rows[k] \in [principal: Nat, interest: Nat, principalPaid: Nat, interestPaid: Nat,
                       waived: Nat, fee: {0, LateFee}, feePaid: Nat,
                       charged: BOOLEAN, paid: BOOLEAN]
       /\ OwedFee(rows[k]) >= 0 /\ OwedInterest(rows[k]) >= 0 /\ OwedPrincipal(rows[k]) >= 0
  /\ account \in {"active", "closed"}
  /\ today \in 0 .. MaxDay
  /\ taken \in Nat

PaidOn(r) == r.feePaid + r.interestPaid + r.principalPaid

\* Every unit that was taken paid for something, and for one thing only, and
\* any amount a borrower or the worker may pay finds its place:
\* "Repayment allocation left ... unallocated" is never thrown.
MoneyIsApplied ==
  /\ taken = SumFunctionOnSet([k \in DOMAIN rows |-> PaidOn(rows[k])], DOMAIN rows)
  /\ Repayable /\ PayoffTotal > 1 => LeftOver(PayoffTotal - 1) = 0

\* What the loan says is left is what its installments say, an installment is
\* paid when nothing is left on it, and the loan when nothing is left at all;
\* the installments' principal is what was lent; the rows are well-typed, and
\* MoneyIsApplied.
BalanceIsSchedule ==
  /\ LoansTypeOK
  /\ MoneyIsApplied
  /\ loan.balance = OwedOn(DOMAIN rows)
  /\ rows # <<>> =>
       SumFunctionOnSet([k \in DOMAIN rows |-> rows[k].principal], DOMAIN rows) = loan.terms.principal
  /\ \A k \in DOMAIN rows : rows[k].paid <=> Owed(rows[k]) = 0
  /\ loan.status = "repaid" <=> rows # <<>> /\ loan.balance = 0

\* What is owed changes by a late fee and by waived interest only.  A late fee
\* is charged once, while the installment is late: not if it was paid, or
\* charged by another worker, since this one looked.  Interest is given up
\* for the days to come only.
OwedAsAgreed ==
  [][\A k \in DOMAIN rows :
       /\ rows'[k].fee # rows[k].fee =>
            ~rows[k].charged /\ ~rows[k].paid /\ DueDay(k) + GraceDays < today
       /\ rows'[k].waived # rows[k].waived => DueDay(k) > today
       /\ rows'[k].principal = rows[k].principal /\ rows'[k].interest = rows[k].interest]_loans

\* Money is taken automatically once a day at most, and only while the
\* borrower has it switched on, although two workers run and the switch, the
\* day and the debt change under them.
CollectedAsAgreed ==
  [][\A c \in collected' \ collected :
       loan.autoDebit /\ Due # {} /\ \A d \in collected : d.day # c.day]_loans

\* loanJobs.js: "Each loan is handled in its own DB transaction with its row
\* locked, so a run can't race a borrower's payment": a loan is defaulted only
\* while an installment is long overdue.
DefaultedWhenOverdue ==
  [][loan.status = "active" /\ loan'.status = "defaulted" => Overdue(DefaultAfter)]_loans

=============================================================================
