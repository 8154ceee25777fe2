------------------------------- MODULE Payouts -------------------------------
(***************************************************************************)
(* Withdrawals to bank accounts: controllers/withdrawalController.js,      *)
(* services/payouts.js, and the worker that syncs the pending ones.        *)
(*                                                                         *)
(* A withdrawal is debited and recorded in one DB transaction, sent to     *)
(* Flutterwave after it commits, and settled later by whoever learns its   *)
(* outcome first: the request itself, the customer's sync, a webhook or    *)
(* the worker.  They run at the same time, each reading the row without a  *)
(* lock before it calls Flutterwave; only settle locks it.                 *)
(*                                                                         *)
(* Flutterwave (external) is what payouts.js takes it for: it keeps one    *)
(* transfer per reference and refuses a second one, its answers may be     *)
(* lost, and its bank takes its time.                                      *)
(***************************************************************************)
EXTENDS Integers, FiniteSets, Functions

CONSTANTS
  Withdrawal,  \* withdrawals that may be made (one Idempotency-Key each)
  Caller,      \* requests and webhooks at the server at once
  Worker,      \* the payouts worker (one batch at a time)
  Deposit,       \* what the customer's wallet holds at the start
  MaxAmount,   \* bound: amounts are 1..MaxAmount
  FeeTenths,   \* Flutterwave's fees, in tenths of a minor unit
  DailyLimit,  \* WITHDRAWAL_DAILY_LIMIT
  BatchLimit,  \* withdrawals one run of the worker looks at (100)
  MaxFaults,   \* bound: lost replies, crashes and database errors
  Faults,      \* which of "torn", "store", "second_try" can happen, see SendTransfer
  NoRow

ASSUME WorkerAssumption == Worker \notin Caller
ASSUME FaultAssumption  == Faults \subseteq {"torn", "store", "second_try"}
ASSUME LimitAssumption  == BatchLimit \in Nat \ {0} /\ DailyLimit \in Nat
ASSUME BoundAssumption  == FeeTenths \subseteq Nat /\ {Deposit, MaxAmount, MaxFaults} \subseteq Nat
ASSUME FiniteAssumption == IsFiniteSet(Withdrawal)

Process == Caller \cup {Worker}
Amount  == 1 .. MaxAmount

VARIABLES
  wd,       \* wd[w]: the withdrawals row
  money,    \* balances: the wallet, SYS-PAYOUT, SYS-FEES, SYS-FLW
  call,     \* call[x]: what process x is doing, and for which withdrawal
  batch,    \* withdrawals the worker's current run has left to look at
  flw,      \* flw[w]: Flutterwave's transfer with w's reference
  refused,  \* references Flutterwave has refused
  misread,  \* history: withdrawals of which a wrong answer is believed, see SendTransfer
  faults    \* faults so far

payouts == <<wd, money, call, batch, flw, refused, misread, faults>>

Row == [status: {"pending", "successful", "failed"}, sent: BOOLEAN,
        amount: Amount, customerFee: Nat, processorFee: Nat, at: Nat]   \* at: created_at

ASSUME NoRowAssumption == NoRow \notin Row

Reply == {"none", "accepted", "failed", "refused", "duplicate", "unavailable", "torn"}

Call == [pc: {"idle", "submit", "send", "reply", "sync", "get", "paid", "fail"},
         w: Withdrawal, reply: Reply]

PayoutsTypeOK ==
  /\ wd      \in [Withdrawal -> Row \cup {NoRow}]
  /\ money   \in [{"wallet", "payout", "fees", "flw"} -> Int]
  /\ money["wallet"] >= 0
  /\ call    \in [Process -> Call]
  /\ batch   \subseteq Withdrawal
  /\ flw     \in [Withdrawal -> {"none", "moving", "successful", "failed"}]
  /\ refused \in SUBSET Withdrawal
  /\ misread \in SUBSET Withdrawal
  /\ faults  \in 0 .. MaxFaults

PayoutsInit ==
  /\ wd      = [w \in Withdrawal |-> NoRow]
  /\ money   = [wallet |-> Deposit, payout |-> 0, fees |-> 0, flw |-> -Deposit]
  /\ \E w \in Withdrawal :
       call = [x \in Process |-> [pc |-> "idle", w |-> w, reply |-> "none"]]
  /\ batch   = {}
  /\ flw     = [w \in Withdrawal |-> "none"]
  /\ refused = {}
  /\ misread = {}
  /\ faults  = 0

MoveTo(x, pc) == call' = [call EXCEPT ![x].pc = pc, ![x].reply = "none"]
Begin(x, pc, w) == call' = [call EXCEPT ![x] = [pc |-> pc, w |-> w, reply |-> "none"]]

Fault == faults < MaxFaults /\ faults' = faults + 1
NoFault == UNCHANGED faults

IsPending(w) == wd[w] # NoRow /\ wd[w].status = "pending"

(***************************************************************************)
(* createWithdrawal.                                                       *)
(***************************************************************************)

\* quoteFee: the processor's fee rounded to the kobo, half of the exact fee
\* rounded down for the customer.
ProcessorFee(t) == (t + 5) \div 10
CustomerFee(t)  ==
  LET half == t \div 20 IN IF half < ProcessorFee(t) THEN half ELSE ProcessorFee(t)

Made == {w \in Withdrawal : wd[w] # NoRow}
Live == {w \in Withdrawal : wd[w] # NoRow /\ wd[w].status # "failed"}

Amounts == [w \in Made |-> wd[w].amount]

\* What it writes, and the submitWithdrawal that follows its COMMIT.
Accepted(x, w, m, t) ==
  LET fee == CustomerFee(t) IN
  /\ money' = [money EXCEPT !["wallet"] = @ - m - fee, !["payout"] = @ + m, !["fees"] = @ + fee]
  /\ wd' = [wd EXCEPT ![w] = [status |-> "pending", sent |-> FALSE, amount |-> m,
                              customerFee |-> fee, processorFee |-> ProcessorFee(t), at |-> Cardinality(Made)]]
  /\ Begin(x, "submit", w)
  /\ UNCHANGED <<batch, flw, refused, misread, faults>>

\* Defects the properties must catch are named after what they leave out.
Create_LimitPerWithdrawal(x, w, m, t) ==
  /\ x \in Caller /\ call[x].pc = "idle" /\ wd[w] = NoRow
  /\ m <= DailyLimit
  /\ money["wallet"] >= m + CustomerFee(t)
  /\ Accepted(x, w, m, t)

\* The DB transaction: the user's row, then the wallet, are locked, so one
\* withdrawal at a time is checked against the limit and the balance.
Create(x, w, m, t) ==
  /\ x \in Caller /\ call[x].pc = "idle"
  /\ wd[w] = NoRow
  /\ SumFunctionOnSet(Amounts, Live) + m <= DailyLimit
  /\ money["wallet"] >= m + CustomerFee(t)
  /\ Accepted(x, w, m, t)

(***************************************************************************)
(* submitWithdrawal.                                                       *)
(***************************************************************************)

\* Its unlocked read: only a pending withdrawal with no transfer is sent.
LoadToSubmit(x) ==
  LET w == call[x].w IN
  /\ call[x].pc = "submit"
  /\ MoveTo(x, IF IsPending(w) /\ ~wd[w].sent THEN "send" ELSE "idle")
  /\ UNCHANGED <<wd, money, batch, flw, refused, misread, faults>>

\* What Flutterwave makes of a transfer request (external).  A reference it
\* refused may be accepted on a second try only with the fault "second_try"
\* (a refusal for want of platform balance, say, is not for ever).
Processed(w, reply) ==
  \/ /\ reply \in {"accepted", "failed"}
     /\ flw[w] = "none"
     /\ w \in refused => "second_try" \in Faults
     /\ flw' = [flw EXCEPT ![w] = IF reply = "accepted" THEN "moving" ELSE "failed"]
     /\ UNCHANGED refused
  \/ /\ reply = "refused"
     /\ flw[w] = "none"
     /\ refused' = refused \cup {w}
     /\ UNCHANGED flw
  \/ /\ reply = "duplicate"
     /\ flw[w] # "none"
     /\ UNCHANGED <<flw, refused>>

\* createTransfer, and the answer as flutterwave.js reports it: a timeout, a
\* refused connection or a 5xx is "unavailable", but a body that breaks off
\* after the headers came is an error of its own ("torn").  Remembered are
\* the two that are believed against what Flutterwave does: an answer that was
\* torn, and a refusal that a second try has overtaken.
SendTransfer(x) ==
  LET w == call[x].w IN
  /\ call[x].pc = "send"
  /\ \/ \E r \in Reply : /\ Processed(w, r)
                         /\ call' = [call EXCEPT ![x].pc = "reply", ![x].reply = r]
                         /\ NoFault
     \/ /\ Fault
        /\ (\E r \in Reply : Processed(w, r)) \/ UNCHANGED <<flw, refused>>
        /\ call' = [call EXCEPT ![x].pc = "reply", ![x].reply = "unavailable"]
     \/ /\ Fault /\ "torn" \in Faults
        /\ \E r \in Reply : Processed(w, r)
        /\ call' = [call EXCEPT ![x].pc = "reply", ![x].reply = "torn"]
  /\ misread' = IF call'[x].reply = "torn" \/ (w \in refused /\ flw'[w] # "none")
                THEN misread \cup {w} ELSE misread
  /\ UNCHANGED <<wd, money, batch>>

\* The transfer's id is stored; one that failed at once is settled.  If the
\* UPDATE itself fails ("store"), the catch below takes that for a refusal.
StoreTransfer(x) ==
  LET w == call[x].w IN
  /\ call[x].pc = "reply" /\ call[x].reply \in {"accepted", "failed"}
  /\ \/ /\ wd' = [wd EXCEPT ![w].sent = TRUE]
        /\ MoveTo(x, IF call[x].reply = "failed" THEN "fail" ELSE "idle")
        /\ NoFault
        /\ UNCHANGED misread
     \/ /\ Fault /\ "store" \in Faults
        /\ MoveTo(x, "fail")
        /\ misread' = misread \cup {w}
        /\ UNCHANGED wd
  /\ UNCHANGED <<money, batch, flw, refused>>

\* The catch: no answer and a used reference leave the money held; whatever
\* else went wrong counts as refused outright.
HandleError_NoAnswerRefunds(x) ==
  /\ call[x].pc = "reply"
  /\ call[x].reply \in {"unavailable", "duplicate", "refused", "torn"}
  /\ MoveTo(x, IF call[x].reply = "duplicate" THEN "idle" ELSE "fail")
  /\ UNCHANGED <<wd, money, batch, flw, refused, misread, faults>>

HandleError(x) ==
  /\ call[x].pc = "reply"
  /\ call[x].reply \in {"unavailable", "duplicate", "refused", "torn"}
  /\ MoveTo(x, IF call[x].reply \in {"unavailable", "duplicate"} THEN "idle" ELSE "fail")
  /\ UNCHANGED <<wd, money, batch, flw, refused, misread, faults>>

(***************************************************************************)
(* syncWithdrawal: the customer's request, a webhook, or the worker.       *)
(***************************************************************************)

StartSync(x, w) ==
  /\ x \in Caller /\ call[x].pc = "idle"
  /\ wd[w] # NoRow
  /\ Begin(x, "sync", w)
  /\ UNCHANGED <<wd, money, batch, flw, refused, misread, faults>>

LoadToSync(x) ==
  LET w == call[x].w IN
  /\ call[x].pc = "sync"
  /\ \/ ~IsPending(w) /\ MoveTo(x, "idle")
     \/ IsPending(w) /\ ~wd[w].sent /\ MoveTo(x, "submit")
     \/ IsPending(w) /\ wd[w].sent /\ MoveTo(x, "get")
  /\ UNCHANGED <<wd, money, batch, flw, refused, misread, faults>>

\* getTransfer: the outcome as Flutterwave has it now; an error is no outcome.
Get(x) ==
  /\ call[x].pc = "get"
  /\ \/ /\ MoveTo(x, CASE flw[call[x].w] = "successful" -> "paid"
                     [] flw[call[x].w] = "failed"     -> "fail"
                     [] OTHER                         -> "idle")
        /\ NoFault
     \/ Fault /\ MoveTo(x, "idle")
  /\ UNCHANGED <<wd, money, batch, flw, refused, misread>>

(***************************************************************************)
(* settle: the row is locked and read again.                               *)
(***************************************************************************)

MarkPaid(w) ==
  /\ wd' = [wd EXCEPT ![w].status = "successful"]
  /\ money' = [money EXCEPT !["payout"] = @ - wd[w].amount,
                            !["fees"]   = @ - wd[w].processorFee,
                            !["flw"]    = @ + wd[w].amount + wd[w].processorFee]

MarkFailed_FeeKept(w) ==
  /\ wd' = [wd EXCEPT ![w].status = "failed"]
  /\ money' = [money EXCEPT !["payout"] = @ - wd[w].amount, !["wallet"] = @ + wd[w].amount]

MarkFailed(w) ==
  /\ wd' = [wd EXCEPT ![w].status = "failed"]
  /\ money' = [money EXCEPT !["payout"] = @ - wd[w].amount,
                            !["fees"]   = @ - wd[w].customerFee,
                            !["wallet"] = @ + wd[w].amount + wd[w].customerFee]

Settle_NotReadAgain(x) ==
  LET w == call[x].w IN
  /\ \/ call[x].pc = "paid" /\ MarkPaid(w)
     \/ call[x].pc = "fail" /\ MarkFailed(w)
  /\ MoveTo(x, "idle")
  /\ UNCHANGED <<batch, flw, refused, misread, faults>>

Settle(x) ==
  LET w == call[x].w IN
  /\ call[x].pc \in {"paid", "fail"}
  /\ \/ IsPending(w) /\ call[x].pc = "paid" /\ MarkPaid(w)
     \/ IsPending(w) /\ call[x].pc = "fail" /\ MarkFailed(w)
     \/ ~IsPending(w) /\ UNCHANGED <<wd, money>>
  /\ MoveTo(x, "idle")
  /\ UNCHANGED <<batch, flw, refused, misread, faults>>

\* A process dies, or a database error ends what it was doing (for the
\* worker, its whole run: nothing in the loop catches it).
Crash(x) ==
  /\ call[x].pc # "idle"
  /\ Fault
  /\ MoveTo(x, "idle")
  /\ batch' = IF x = Worker THEN {} ELSE batch
  /\ UNCHANGED <<wd, money, flw, refused, misread>>

(***************************************************************************)
(* The worker and the bank.                                                *)
(***************************************************************************)

PendingBefore(w) == {v \in Withdrawal : IsPending(v) /\ wd[v].at < wd[w].at}

WorkerStart_AnyOrder ==
  /\ call[Worker].pc = "idle" /\ batch = {}
  /\ \E some \in SUBSET {w \in Withdrawal : IsPending(w)} :
       some # {} /\ Cardinality(some) <= BatchLimit /\ batch' = some
  /\ UNCHANGED <<wd, money, call, flw, refused, misread, faults>>

\* syncPendingWithdrawals: the oldest BatchLimit pending withdrawals, ...
WorkerStart ==
  /\ call[Worker].pc = "idle" /\ batch = {}
  /\ \E w \in Withdrawal : IsPending(w)
  /\ batch' = {w \in Withdrawal : IsPending(w) /\ Cardinality(PendingBefore(w)) < BatchLimit}
  /\ UNCHANGED <<wd, money, call, flw, refused, misread, faults>>

\* ... the oldest first.
WorkerNext ==
  /\ call[Worker].pc = "idle"
  /\ \E w \in batch : /\ \A v \in batch : wd[w].at <= wd[v].at
                      /\ Begin(Worker, "sync", w)
                      /\ batch' = batch \ {w}
  /\ UNCHANGED <<wd, money, flw, refused, misread, faults>>

\* The bank accepts or returns the transfer (external).
BankDecides(w) ==
  /\ flw[w] = "moving"
  /\ \E outcome \in {"successful", "failed"} : flw' = [flw EXCEPT ![w] = outcome]
  /\ UNCHANGED <<wd, money, call, batch, refused, misread, faults>>

Step(x) ==
  \/ LoadToSubmit(x) \/ SendTransfer(x) \/ StoreTransfer(x) \/ HandleError(x)
  \/ LoadToSync(x) \/ Get(x) \/ Settle(x)

PayoutsNext ==
  \/ \E x \in Caller, w \in Withdrawal, m \in Amount, t \in FeeTenths : Create(x, w, m, t)
  \/ \E x \in Caller, w \in Withdrawal : StartSync(x, w)
  \/ \E x \in Process : Step(x)
  \/ \E x \in Process : Crash(x)
  \/ WorkerStart
  \/ WorkerNext
  \/ \E w \in Withdrawal : BankDecides(w)

PayoutsSpec == PayoutsInit /\ [][PayoutsNext]_payouts

\* Node runs what is runnable, BullMQ starts the worker's job again and again,
\* and the bank decides.  Nothing makes a customer or a webhook come.
PayoutsFairness ==
  /\ \A x \in Process : WF_payouts(Step(x))
  /\ WF_payouts(WorkerStart) /\ WF_payouts(WorkerNext)
  /\ \A w \in Withdrawal : WF_payouts(BankDecides(w))

FairPayouts == PayoutsSpec /\ PayoutsFairness

(***************************************************************************)
(* Properties.                                                             *)
(***************************************************************************)

With(status) == {w \in Withdrawal : wd[w] # NoRow /\ wd[w].status = status}
CustomerFees  == [w \in Made |-> wd[w].customerFee]
ProcessorFees == [w \in Made |-> wd[w].processorFee]

\* The four accounts tell the same story as the rows (withdrawals.sql: "So
\* SYS-PAYOUT holds exactly the money on its way to banks, and SYS-FEES holds
\* what customers paid in fees less what Flutterwave charged"): however many
\* checks arrive together, no outcome is applied twice or in part.
BooksMatch ==
  /\ PayoutsTypeOK
  /\ money["payout"] = SumFunctionOnSet(Amounts, With("pending"))
  /\ money["fees"]   = SumFunctionOnSet(CustomerFees, Live) - SumFunctionOnSet(ProcessorFees, With("successful"))
  /\ money["flw"]    = SumFunctionOnSet(Amounts, With("successful"))
                         + SumFunctionOnSet(ProcessorFees, With("successful")) - Deposit
  /\ money["wallet"] = Deposit - SumFunctionOnSet(Amounts, Live) - SumFunctionOnSet(CustomerFees, Live)

\* A withdrawal whose money went back to the wallet is not on its way to the
\* bank nor there: the customer never gets it twice.  ("The outcome is
\* unknown, so the money stays held", payouts.js.)
RefundedIsNotSent ==
  \A w \in Withdrawal : wd[w] # NoRow /\ wd[w].status = "failed" => flw[w] \in {"none", "failed"}

\* The same of each withdrawal by itself, whatever the faults: only one of
\* which an answer was torn or could not be stored, or which was refused and
\* then accepted after all, is ever refunded although it was sent.
RefundedUnlessMisread ==
  \A w \in Withdrawal \ misread :
    wd[w] # NoRow /\ wd[w].status = "failed" => flw[w] \in {"none", "failed"}

\* Also that the wallet is charged and repaid in step with it, as an
\* implementation of PayoutPromise: a withdrawal's money is in one place.
Place(w) ==
  IF wd[w] = NoRow THEN "none"
  ELSE IF flw[w] = "successful" THEN "bank"
  ELSE IF wd[w].status = "failed" THEN "returned" ELSE "transit"

Places == [w \in Withdrawal |-> Place(w)]
Taken  == [w \in Withdrawal |-> IF wd[w] = NoRow THEN 0 ELSE wd[w].amount + wd[w].customerFee]

Prices == {m + CustomerFee(t) : m \in Amount, t \in FeeTenths}

Promise == INSTANCE PayoutPromise WITH
  Price  <- Prices,
  place  <- Places,
  taken  <- Taken,
  wallet <- money["wallet"]

PromiseKept == Promise!Spec

\* A withdrawal is marked paid only after the bank has really paid it; a
\* settled outcome is final, and the transfer id, once known, is kept.
OutcomeIsFinal ==
  [][\A w \in Withdrawal : wd[w] # NoRow =>
       /\ wd'[w] # NoRow
       /\ wd[w].status # "pending" => wd'[w].status = wd[w].status
       /\ wd'[w].status = "successful" => flw[w] = "successful"
       /\ wd[w].sent => wd'[w].sent]_payouts

\* What has left or is leaving the wallet today stays within the limit, with
\* withdrawals racing and failing (a failed one frees its share, and never
\* comes back to life after another has used it).
WithinLimit == SumFunctionOnSet(Amounts, Live) <= DailyLimit

\* What submitWithdrawal leaves "held for a person to match up": Flutterwave
\* has the transfer and its id was lost, so no try gets beyond "duplicate".
NeedsReview(w) == IsPending(w) /\ ~wd[w].sent /\ flw[w] # "none"

\* Those that need review and are older than w fill every batch of the worker.
CrowdedOut(w) == Cardinality({v \in PendingBefore(w) : NeedsReview(v)}) >= BatchLimit

Decided(w) == IsPending(w) /\ wd[w].sent /\ flw[w] \in {"successful", "failed"}

\* A withdrawal whose transfer is known and decided does not stay pending,
\* with no webhook and no customer to ask, although the worker looks at the
\* oldest BatchLimit only; unless as many as that are held for good before it.
DecidedIsSettled ==
  \A w \in Withdrawal : Decided(w) ~> (~IsPending(w) \/ []CrowdedOut(w))

\* payouts.js:226, of the worker: "every withdrawal pending longer than
\* olderThanMs" is brought up to date, so none whose transfer is decided stays
\* pending.
WorkerReachesAll == \A w \in Withdrawal : Decided(w) ~> ~IsPending(w)

=============================================================================
