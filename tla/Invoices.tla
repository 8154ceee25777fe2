------------------------------- MODULE Invoices -------------------------------
(***************************************************************************)
(* Invoices of one issuer and the payments they get:                       *)
(* controllers/invoiceController.js, payLinkController.js and              *)
(* services/invoices.js.                                                   *)
(*                                                                         *)
(* Every handler locks the invoice's row for the whole of its DB           *)
(* transaction, so each is one step; a pay link's checkout goes on after   *)
(* the commit, and its payment is settled whenever the processor's answer  *)
(* is synced, which may be after the invoice was paid by other means or    *)
(* cancelled.                                                              *)
(*                                                                         *)
(* Accounts and how a sync is run are the business of Ledger and of        *)
(* CardPayments.  Here an account check may pass or fail at any time, and  *)
(* a sync verifies and applies in one step.                                *)
(***************************************************************************)
EXTENDS Integers, FiniteSets

CONSTANTS
  Invoice,    \* invoices that may be made
  Payment,    \* transactions that may be recorded about them
  MaxAmount,  \* bound: amounts are 1..MaxAmount
  None

ASSUME BoundAssumption == MaxAmount \in Nat \ {0}

VARIABLES
  inv,      \* inv[i]: the invoices row
  counter,  \* invoice_counters.last_number of the issuer
  pay,      \* pay[p]: the transactions row
  proc,     \* proc[p]: the processor's checkout for payment p
  extra     \* payments the issuer was told to return (invoice_extra_payment)

billing == <<inv, counter, pay, proc, extra>>

\* priceItems: a line that comes to nothing is refused, so no total is 0.
Amount == 1 .. MaxAmount

Status == {"none", "draft", "open", "paid", "refunded", "cancelled", "deleted"}

\* cycle is set by a recurring plan only.
Row == [status: Status, amount: Amount, settling: Payment \cup {None},
        number: Nat, cycle: Nat \cup {None}]

Txn == [invoice: Invoice, amount: Amount, via: {"wallet", "checkout", "refund"},
        status: {"pending", "settled", "failed", "reversed"},
        reverses: Payment \cup {None}]

ASSUME NoneAssumption == None \notin Payment \cup Txn /\ None \notin Nat

TypeOK ==
  /\ inv     \in [Invoice -> Row]
  /\ counter \in Nat
  /\ pay     \in [Payment -> Txn \cup {None}]
  /\ proc    \in [Payment -> {"absent", "open", "successful", "failed"}]
  /\ extra   \subseteq Payment

Init ==
  /\ inv     = [i \in Invoice |-> [status |-> "none", amount |-> 1, settling |-> None,
                                   number |-> 0, cycle |-> None]]
  /\ counter = 0
  /\ pay     = [p \in Payment |-> None]
  /\ proc    = [p \in Payment |-> "absent"]
  /\ extra   = {}

Recorded(p) == pay[p] # None

(***************************************************************************)
(* The issuer's side.                                                      *)
(***************************************************************************)

\* markSent: the number comes from the issuer's counter, in the DB
\* transaction that sends the invoice.
MarkSent(row, number) == [row EXCEPT !.status = "open", !.number = number]

Editable(i) == inv[i].status = "draft"

CreateDraft(i, m) ==
  /\ inv[i].status = "none"
  /\ inv' = [inv EXCEPT ![i].status = "draft", ![i].amount = m]
  /\ UNCHANGED <<counter, pay, proc, extra>>

\* Created and sent at once: to an account, or to a client with send = true.
CreateAndSend(i, m) ==
  /\ inv[i].status = "none"
  /\ inv' = [inv EXCEPT ![i] = MarkSent([@ EXCEPT !.amount = m], counter + 1)]
  /\ counter' = counter + 1
  /\ UNCHANGED <<pay, proc, extra>>

\* Defects the properties must catch are named after what they leave out.
UpdateInvoice_NotOnlyDrafts(i, m) ==
  /\ inv[i].status \in {"draft", "open"}
  /\ inv' = [inv EXCEPT ![i].amount = m]
  /\ UNCHANGED <<counter, pay, proc, extra>>

UpdateInvoice(i, m) ==
  /\ Editable(i)
  /\ inv' = [inv EXCEPT ![i].amount = m]
  /\ UNCHANGED <<counter, pay, proc, extra>>

DeleteInvoice(i) ==
  /\ Editable(i)
  /\ inv' = [inv EXCEPT ![i].status = "deleted"]
  /\ UNCHANGED <<counter, pay, proc, extra>>

SendInvoice(i) ==
  /\ Editable(i)
  /\ inv' = [inv EXCEPT ![i] = MarkSent(@, counter + 1)]
  /\ counter' = counter + 1
  /\ UNCHANGED <<pay, proc, extra>>

CancelInvoice(i) ==
  /\ inv[i].status = "open"
  /\ inv' = [inv EXCEPT ![i].status = "cancelled"]
  /\ UNCHANGED <<counter, pay, proc, extra>>

\* A payment that came from a wallet is returned by a transaction p.
RefundInvoice(i, p) ==
  /\ inv[i].status = "paid" /\ ~Recorded(p)
  /\ pay[inv[i].settling].via = "wallet"
  /\ pay' = [pay EXCEPT
       ![inv[i].settling].status = "reversed",
       ![p] = [pay[inv[i].settling] EXCEPT !.via = "refund", !.reverses = inv[i].settling]]
  /\ inv' = [inv EXCEPT ![i].status = "refunded"]
  /\ UNCHANGED <<counter, proc, extra>>

(***************************************************************************)
(* The payer's side.                                                       *)
(***************************************************************************)

SettleInvoice_NotLookedAt(i, p) ==
  /\ inv' = [inv EXCEPT ![i].status = "paid", ![i].settling = p]
  /\ UNCHANGED extra

\* The invoice is paid by p; if it is no longer open, the money has arrived
\* all the same and the issuer is told.
SettleInvoice(i, p) ==
  \/ /\ inv[i].status = "open"
     /\ inv' = [inv EXCEPT ![i].status = "paid", ![i].settling = p]
     /\ UNCHANGED extra
  \/ /\ inv[i].status # "open"
     /\ extra' = extra \cup {p}
     /\ UNCHANGED inv

NewPayment(p, i, via, status) ==
  pay' = [pay EXCEPT ![p] = [invoice |-> i, amount |-> inv[i].amount, via |-> via,
                             status |-> status, reverses |-> None]]

PayFromWallet(p, i) ==
  /\ ~Recorded(p)
  /\ inv[i].status = "open"
  /\ NewPayment(p, i, "wallet", "settled")
  /\ SettleInvoice(i, p)
  /\ UNCHANGED <<counter, proc>>

\* Two ways to the same payment: the owner of the billed account, or any
\* customer who holds the pay link; a draft is not there for either.  Which
\* invoices bill an account is not told apart.
PayInvoice(p, i)        == inv[i].status # "draft" /\ PayFromWallet(p, i)
PayLinkFromWallet(p, i) == inv[i].status # "draft" /\ PayFromWallet(p, i)

\* startCheckout's DB transaction ...
StartCheckout(p, i) ==
  /\ ~Recorded(p)
  /\ inv[i].status = "open"
  /\ NewPayment(p, i, "checkout", "pending")
  /\ UNCHANGED <<inv, counter, proc, extra>>

Unsent(p) == Recorded(p) /\ pay[p].status = "pending" /\ proc[p] = "absent"

\* ... and after its commit the hosted checkout, or the payment is failed.
\* (A process that dies in between leaves it pending with no checkout.)
CreateCheckout(p) ==
  /\ Unsent(p)
  /\ proc' = [proc EXCEPT ![p] = "open"]
  /\ UNCHANGED <<inv, counter, pay, extra>>

FailCheckout(p) ==
  /\ Unsent(p)
  /\ pay' = [pay EXCEPT ![p].status = "failed"]
  /\ UNCHANGED <<inv, counter, proc, extra>>

\* The payer at the processor's page (external).
PayAtCheckout(p) ==
  /\ proc[p] = "open"
  /\ \E outcome \in {"successful", "failed"} : proc' = [proc EXCEPT ![p] = outcome]
  /\ UNCHANGED <<inv, counter, pay, extra>>

\* syncCardPayment of an invoice payment: the invoice's row is locked, then
\* the transaction's.  A payment the issuing account cannot take is failed
\* (for a manual refund).
SyncPayment(p) ==
  /\ Recorded(p) /\ pay[p].status = "pending"
  /\ \/ /\ proc[p] \in {"successful", "failed"}
        /\ pay' = [pay EXCEPT ![p].status = "failed"]
        /\ UNCHANGED <<inv, extra>>
     \/ /\ proc[p] = "successful"
        /\ pay' = [pay EXCEPT ![p].status = "settled"]
        /\ SettleInvoice(pay[p].invoice, p)
  /\ UNCHANGED <<counter, proc>>

\* The holder of the link asks, for a payment of that link's invoice only (a
\* webhook asks for any).
SyncPayLink(p) ==
  /\ Recorded(p) /\ pay[p].via = "checkout"
  /\ inv[pay[p].invoice].status # "draft"
  /\ SyncPayment(p)

InvoiceNext ==
  \/ \E i \in Invoice, m \in Amount :
       CreateDraft(i, m) \/ CreateAndSend(i, m) \/ UpdateInvoice(i, m)
  \/ \E i \in Invoice : DeleteInvoice(i) \/ SendInvoice(i) \/ CancelInvoice(i)
  \/ \E i \in Invoice, p \in Payment : RefundInvoice(i, p)
  \/ \E i \in Invoice, p \in Payment : 
       PayInvoice(p, i) \/ PayLinkFromWallet(p, i) \/ StartCheckout(p, i)
  \/ \E p \in Payment :
       CreateCheckout(p) \/ FailCheckout(p) \/ PayAtCheckout(p)
       \/ SyncPayment(p) \/ SyncPayLink(p)

(***************************************************************************)
(* Properties.                                                             *)
(***************************************************************************)

Sent == {i \in Invoice : inv[i].status \in {"open", "paid", "refunded", "cancelled"}}

\* A paid invoice was paid in full by a payment of its own; a refunded one
\* gave exactly that back, once, to the wallet it came from.
PaidInFull ==
  \A i \in Invoice :
    LET p == inv[i].settling
        refunds == {q \in Payment : Recorded(q) /\ pay[q].reverses = p}
    IN
    /\ (inv[i].status \in {"paid", "refunded"}) <=> (p # None)
    /\ p # None =>
         /\ pay[p].invoice = i /\ pay[p].amount = inv[i].amount
         /\ pay[p].status = (IF inv[i].status = "paid" THEN "settled" ELSE "reversed")
         /\ Cardinality(refunds) = (IF inv[i].status = "paid" THEN 0 ELSE 1)
         /\ \A q \in refunds : pay[q].amount = inv[i].amount /\ pay[p].via = "wallet"

\* Every payment that arrived is accounted for: it settled its invoice, or
\* the issuer was told to return it, never both; and only a checkout that was
\* started while the invoice was open can arrive too late ("the money has
\* still arrived: the issuer is told to return it").  And PaidInFull.
NoPaymentForgotten ==
  /\ PaidInFull
  /\ \A p \in Payment : Recorded(p) /\ pay[p].via # "refund" =>
       LET settles == inv[pay[p].invoice].settling = p IN
       /\ pay[p].status \in {"settled", "reversed"} <=> settles \/ p \in extra
       /\ ~(settles /\ p \in extra)
       /\ p \in extra => pay[p].via = "checkout"

\* What was sent stands: its amount is what the client was shown when it was
\* sent, its number is its own for ever and the numbers have no gaps
\* (invoice.sql: "drafts that are deleted leave no gaps").
SentStands ==
  [][/\ {inv'[i].number : i \in Sent'} = 1 .. Cardinality(Sent')
     /\ \A i \in Sent :
          /\ i \in Sent'
          /\ inv'[i].amount = inv[i].amount /\ inv'[i].number = inv[i].number]_billing

=============================================================================
