---------------------------- MODULE CardPayments ----------------------------
(***************************************************************************)
(* Money that comes in by card: controllers/cardController.js,             *)
(* services/processorPayments.js and controllers/webhookController.js.     *)
(*                                                                         *)
(* A payment is recorded as pending and committed, then the processor is   *)
(* called; its outcome is applied by syncCardPayment, which a request, the *)
(* customer's client and webhooks may run at the same time.  Each reads    *)
(* the transaction and asks the processor without a lock, and applies what *)
(* it was told in a DB transaction later.                                  *)
(*                                                                         *)
(* The processor (external) keeps one payment per reference; payments are  *)
(* of one unit each, so limits count payments.  An account can be emptied  *)
(* at any time by other parts of the system.                               *)
(***************************************************************************)
EXTENDS Integers, FiniteSets

CONSTANTS
  Payment,     \* transactions (one Idempotency-Key each)
  Account,     \* customers' wallets
  Token,       \* cards, by the token the processor knows them by
  Slot,        \* requests and webhook deliveries at the server at once
  CardLimit,  \* card_controls.daily_limit_minor of every card
  MaxCardFaults,   \* bound: outages, crashes and database errors
  None

ASSUME CardFaultAssumption == MaxCardFaults \in Nat

VARIABLES
  pay,       \* pay[k]: the transactions row
  link,      \* link[k]: status of the card_links row of payment k
  card,      \* card[k]: the cards row saved when link payment k settled
  closed,    \* accounts that are closed
  credited,  \* credited[k]: how often payment k was credited
  req,       \* req[x]: what the request in slot x is doing
  event,     \* event[k]: outcome of the webhook_events row about payment k
  proc,      \* proc[k]: the processor's payment with k's reference
  used,      \* used[k]: the card that pays k at the processor
  unread,    \* history: the charges it took whose answer could not be read
  cardFaults     \* cardFaults so far

cardVars == <<pay, link, card, closed, credited, req, event, proc, used, unread, cardFaults>>
rows == <<pay, link, card, closed, credited>>

PaymentRow == [kind: {"link", "charge"}, account: Account, card: Payment \cup {None},
        status: {"pending", "settled", "failed"}, refund: BOOLEAN]

Card == [token: Token, account: Account, status: {"active", "blocked", "removed"}]

ASSUME NoneAssumption == None \notin Payment \cup Token \cup PaymentRow \cup Card

Where == {"idle", "insert", "checkout", "nocheckout", "charge", "rejected", "sync",
          "verify", "apply", "event"}

\* What the processor can say of a payment that was tried.
Decision == {"successful", "mismatched", "failed"}
Answer   == Decision \cup {"pending"}

Request == [pc: Where, of: Payment, account: Account, seen: Answer \cup {"none"},
            webhook: BOOLEAN, outcome: {"none", "processed", "failed"}]

CardTypeOK ==
  /\ pay      \in [Payment -> PaymentRow \cup {None}]
  /\ link     \in [Payment -> {"none", "pending", "linked", "failed"}]
  /\ card     \in [Payment -> Card \cup {None}]
  /\ closed   \in SUBSET Account
  /\ credited \in [Payment -> Nat]
  /\ req      \in [Slot -> Request]
  /\ event    \in [Payment -> {"none", "null", "processed", "failed"}]
  /\ proc     \in [Payment -> {"absent", "open"} \cup Answer]
  /\ used     \in [Payment -> Token \cup {None}]
  /\ unread   \in SUBSET Payment
  /\ cardFaults   \in 0 .. MaxCardFaults

CardInit ==
  /\ pay      = [k \in Payment |-> None]
  /\ link     = [k \in Payment |-> "none"]
  /\ card     = [k \in Payment |-> None]
  /\ closed   = {}
  /\ credited = [k \in Payment |-> 0]
  /\ \E k \in Payment, a \in Account :
       req = [x \in Slot |-> [pc |-> "idle", of |-> k, account |-> a, seen |-> "none",
                              webhook |-> FALSE, outcome |-> "none"]]
  /\ event    = [k \in Payment |-> "none"]
  /\ proc     = [k \in Payment |-> "absent"]
  /\ used     = [k \in Payment |-> None]
  /\ unread   = {}
  /\ cardFaults   = 0

Idle(x) == req[x].pc = "idle"
Goto(x, pc) == req' = [req EXCEPT ![x].pc = pc]
BeginRequest(x, pc, k, a) ==
  req' = [req EXCEPT ![x] = [pc |-> pc, of |-> k, account |-> a, seen |-> "none",
                             webhook |-> FALSE, outcome |-> "none"]]

CardFault   == cardFaults < MaxCardFaults /\ cardFaults' = cardFaults + 1
NoCardFault == UNCHANGED cardFaults

Pending(k) == pay[k] # None /\ pay[k].status = "pending"

(***************************************************************************)
(* startCardLink.                                                          *)
(***************************************************************************)

\* The target account is read, not locked.
CheckTarget(x, k, a) ==
  /\ Idle(x) /\ pay[k] = None
  /\ a \notin closed
  /\ BeginRequest(x, "insert", k, a)
  /\ UNCHANGED <<rows, event, proc, used, unread, cardFaults>>

\* A second request with the same key breaks on the key's uniqueness.
InsertLink(x) ==
  LET k == req[x].of IN
  /\ req[x].pc = "insert" /\ pay[k] = None
  /\ pay' = [pay EXCEPT ![k] = [kind |-> "link", account |-> req[x].account, card |-> None,
                                status |-> "pending", refund |-> FALSE]]
  /\ link' = [link EXCEPT ![k] = "pending"]
  /\ Goto(x, "checkout")
  /\ UNCHANGED <<card, closed, credited, event, proc, used, unread, cardFaults>>

InsertRefused(x) ==
  /\ req[x].pc = "insert" /\ pay[req[x].of] # None
  /\ Goto(x, "idle")
  /\ UNCHANGED <<rows, event, proc, used, unread, cardFaults>>

\* createPaymentLink, after the commit: the customer gets a checkout page, or
\* the link is given up.
CreateCheckout(x) ==
  LET k == req[x].of IN
  /\ req[x].pc = "checkout"
  /\ \/ /\ proc' = [proc EXCEPT ![k] = "open"]
        /\ Goto(x, "idle")
        /\ NoCardFault
     \/ /\ CardFault
        /\ Goto(x, "nocheckout")
        /\ UNCHANGED proc
  /\ UNCHANGED <<rows, event, used, unread>>

\* failPendingTransaction: only a payment that is still pending fails.
Fails(k) == [pay EXCEPT ![k].status = IF Pending(k) THEN "failed" ELSE @]

GiveUpLink(x) ==
  LET k == req[x].of IN
  /\ req[x].pc = "nocheckout"
  /\ pay'  = Fails(k)
  /\ link' = [link EXCEPT ![k] = "failed"]
  /\ Goto(x, "idle")
  /\ UNCHANGED <<card, closed, credited, event, proc, used, unread, cardFaults>>

(***************************************************************************)
(* chargeCard and the card's own operations.                               *)
(***************************************************************************)

Linked(c) == card[c] # None /\ card[c].status # "removed"

ChargedTo(c) ==
  {k \in Payment : pay[k] # None /\ pay[k].card = c /\ pay[k].status \in {"pending", "settled"}}

\* The DB transaction: the card's row is locked, its controls checked, and
\* today's pending and settled charges counted.
StartCharge(x, k, c) ==
  /\ Idle(x) /\ pay[k] = None
  /\ card[c] # None /\ card[c].status = "active" /\ card[c].account \notin closed
  /\ Cardinality(ChargedTo(c)) < CardLimit
  /\ pay' = [pay EXCEPT ![k] = [kind |-> "charge", account |-> card[c].account, card |-> c,
                                status |-> "pending", refund |-> FALSE]]
  /\ BeginRequest(x, "charge", k, card[c].account)
  /\ UNCHANGED <<link, card, closed, credited, event, proc, used, unread, cardFaults>>

\* chargeCardToken: the processor takes the charge (and may know at once that
\* it succeeded, which is synced straight away), or rejects it.  An outage
\* may come before or after it took it, and leaves the payment pending.  A
\* charge it took but answered with something that is not JSON reads as a
\* rejection.
Charge(x) ==
  LET k == req[x].of
      Takes(s) == proc' = [proc EXCEPT ![k] = s] /\ used' = [used EXCEPT ![k] = card[pay[k].card].token]
  IN
  /\ req[x].pc = "charge"
  /\ \/ Takes("pending") /\ Goto(x, "idle") /\ NoCardFault /\ UNCHANGED unread
     \/ Takes("successful") /\ Goto(x, "sync") /\ NoCardFault /\ UNCHANGED unread
     \/ Goto(x, "rejected") /\ UNCHANGED <<proc, used, unread>> /\ NoCardFault
     \/ CardFault /\ Goto(x, "idle") /\ (Takes("pending") \/ UNCHANGED <<proc, used>>) /\ UNCHANGED unread
     \/ CardFault /\ Goto(x, "rejected") /\ Takes("pending") /\ unread' = unread \cup {k}
  /\ UNCHANGED <<rows, event>>

RejectCharge(x) ==
  /\ req[x].pc = "rejected"
  /\ pay' = Fails(req[x].of)
  /\ Goto(x, "idle")
  /\ UNCHANGED <<link, card, closed, credited, event, proc, used, unread, cardFaults>>

\* block, unblock and remove, each under the card's lock.
ChangeCard(c) ==
  /\ Linked(c)
  /\ \E status \in {"active", "blocked", "removed"} \ {card[c].status} :
       card' = [card EXCEPT ![c].status = status]
  /\ UNCHANGED <<pay, link, closed, credited, req, event, proc, used, unread, cardFaults>>

\* closeAccount, as far as cards are concerned.
CloseAccount(a) ==
  /\ a \notin closed
  /\ \A k \in Payment : Pending(k) => pay[k].account # a
  /\ \A c \in Payment : Linked(c) => card[c].account # a
  /\ closed' = closed \cup {a}
  /\ UNCHANGED <<pay, link, card, credited, req, event, proc, used, unread, cardFaults>>

(***************************************************************************)
(* syncCardPayment.                                                        *)
(***************************************************************************)

\* POST /transactions/:id/sync, and the replay of a charge.
StartCardSync(x, k) ==
  /\ Idle(x) /\ pay[k] # None
  /\ BeginRequest(x, "sync", k, pay[k].account)
  /\ UNCHANGED <<rows, event, proc, used, unread, cardFaults>>

\* Where a sync goes when it is done: a webhook records its outcome first.
Done(x, outcome) ==
  req' = [req EXCEPT ![x].pc = IF req[x].webhook THEN "event" ELSE "idle",
                     ![x].outcome = IF req[x].webhook THEN outcome ELSE "none"]

\* The unlocked read: a payment that is no longer pending is left alone.
LoadCardSync(x) ==
  LET k == req[x].of IN
  /\ req[x].pc = "sync"
  /\ \/ Pending(k) /\ Goto(x, "verify")
     \/ ~Pending(k) /\ Done(x, "processed")
  /\ UNCHANGED <<rows, event, proc, used, unread, cardFaults>>

\* verifyTransaction or verifyByReference: what the processor says now.  A
\* refusal ("not paid yet", but also any other 4xx or an unreadable answer)
\* changes nothing; an outage is thrown to the caller.
Verify(x) ==
  LET k == req[x].of IN
  /\ req[x].pc = "verify"
  /\ \/ /\ proc[k] \in Answer
        /\ req' = [req EXCEPT ![x].pc = "apply", ![x].seen = proc[k]]
        /\ NoCardFault
     \/ /\ proc[k] \in {"absent", "open"}
        /\ Done(x, "processed")
        /\ NoCardFault
     \/ /\ proc[k] \in Answer /\ CardFault
        /\ Done(x, "processed")
     \/ CardFault /\ Done(x, "failed")
  /\ UNCHANGED <<rows, event, proc, used, unread>>

\* attachLinkedCard: a card that is already saved is reused for the same
\* account and refused for another, and the processor may return no reusable
\* card; otherwise the card is saved.  The payment counts either way.
AttachCard(k) ==
  LET a     == pay[k].account
      Saved == {c \in Payment : Linked(c) /\ card[c].token = used[k]}
      Settled(status, c) ==
        /\ pay'  = [pay EXCEPT ![k].status = "settled", ![k].card = c]
        /\ link' = [link EXCEPT ![k] = status]
  IN
  \/ /\ Saved = {}
     /\ card' = [card EXCEPT ![k] = [token |-> used[k], account |-> a, status |-> "active"]]
     /\ Settled("linked", k)
  \/ /\ \E c \in Saved : card[c].account = a
     /\ Settled("linked", None)
     /\ UNCHANGED card
  \/ /\ Saved = {} \/ \E c \in Saved : card[c].account # a
     /\ Settled("failed", None)
     /\ UNCHANGED card

LinkFails(k) == [link EXCEPT ![k] = IF @ = "none" THEN "none" ELSE "failed"]

Credit(k) == credited' = [credited EXCEPT ![k] = @ + 1]

SettleSuccessful_RefundNotFlagged(k) ==
  \/ /\ pay[k].account \in closed
     /\ pay'  = [pay EXCEPT ![k].status = "failed"]
     /\ link' = LinkFails(k)
     /\ UNCHANGED <<card, credited>>
  \/ /\ pay[k].account \notin closed
     /\ Credit(k)
     /\ \/ pay[k].kind = "link" /\ AttachCard(k)
        \/ /\ pay[k].kind = "charge"
           /\ pay' = [pay EXCEPT ![k].status = "settled"]
           /\ UNCHANGED <<card, link>>

SettleSuccessful_AccountNotLocked(k) ==
  /\ Credit(k)
  /\ \/ pay[k].kind = "link" /\ AttachCard(k)
     \/ /\ pay[k].kind = "charge"
        /\ pay' = [pay EXCEPT ![k].status = "settled"]
        /\ UNCHANGED <<card, link>>

\* settlePendingTransaction, then the card link if there is one.  The account
\* may have been closed by now: the payment is failed for a manual refund.
SettleSuccessful(k) ==
  \/ /\ pay[k].account \in closed
     /\ pay'  = [pay EXCEPT ![k].status = "failed", ![k].refund = TRUE]
     /\ link' = LinkFails(k)
     /\ UNCHANGED <<card, credited>>
  \/ /\ pay[k].account \notin closed
     /\ Credit(k)
     /\ \/ pay[k].kind = "link" /\ AttachCard(k)
        \/ /\ pay[k].kind = "charge"
           /\ pay' = [pay EXCEPT ![k].status = "settled"]
           /\ UNCHANGED <<card, link>>

\* The DB transaction that applies what was seen; the transaction's row is
\* locked and read again.
Apply_NotReadAgain(x) ==
  LET k == req[x].of IN
  /\ req[x].pc = "apply"
  /\ \/ /\ req[x].seen \in {"mismatched", "failed"}
        /\ pay' = [pay EXCEPT ![k].status = "failed"]
        /\ link' = LinkFails(k)
        /\ UNCHANGED <<card, credited>>
     \/ req[x].seen = "successful" /\ SettleSuccessful(k)
     \/ req[x].seen = "pending" /\ UNCHANGED <<pay, link, card, credited>>
  /\ Done(x, "processed")
  /\ UNCHANGED <<closed, event, proc, used, unread, cardFaults>>

Apply(x) ==
  LET k == req[x].of IN
  /\ req[x].pc = "apply"
  /\ \/ /\ Pending(k) /\ req[x].seen \in {"mismatched", "failed"}
        /\ pay'  = Fails(k)
        /\ link' = LinkFails(k)
        /\ UNCHANGED <<card, credited>>
     \/ Pending(k) /\ req[x].seen = "successful" /\ SettleSuccessful(k)
     \/ /\ ~Pending(k) \/ req[x].seen = "pending"
        /\ UNCHANGED <<pay, link, card, credited>>
  /\ Done(x, "processed")
  /\ UNCHANGED <<closed, event, proc, used, unread, cardFaults>>

\* ROLLBACK: a database error, such as two links saving one token at once.
ApplyRollsBack(x) ==
  /\ req[x].pc = "apply"
  /\ CardFault
  /\ Done(x, "failed")
  /\ UNCHANGED <<rows, event, proc, used, unread>>

(***************************************************************************)
(* The webhook.                                                            *)
(***************************************************************************)

\* charge.completed arrives, perhaps again, once the payment is decided.  Its
\* row is inserted first; a delivery of one already handled is acknowledged.
Deliver(x, k) ==
  /\ Idle(x) /\ pay[k] # None
  /\ proc[k] \in Decision
  /\ event[k] # "processed"
  /\ event' = [event EXCEPT ![k] = IF @ = "none" THEN "null" ELSE @]
  /\ req' = [req EXCEPT ![x] = [pc |-> "sync", of |-> k, account |-> pay[k].account,
                                seen |-> "none", webhook |-> TRUE, outcome |-> "none"]]
  /\ UNCHANGED <<rows, proc, used, unread, cardFaults>>

RecordEvent(x) ==
  /\ req[x].pc = "event"
  /\ event' = [event EXCEPT ![req[x].of] = req[x].outcome]
  /\ Goto(x, "idle")
  /\ UNCHANGED <<rows, proc, used, unread, cardFaults>>

\* A request dies between two of its steps.
Die(x) ==
  /\ ~Idle(x) /\ CardFault
  /\ Goto(x, "idle")
  /\ UNCHANGED <<rows, event, proc, used, unread>>

(***************************************************************************)
(* The processor and the customer at its page (external).                  *)
(***************************************************************************)

PayAtCheckout(k, t) ==
  /\ proc[k] = "open"
  /\ proc' = [proc EXCEPT ![k] = "pending"]
  /\ used' = [used EXCEPT ![k] = t]
  /\ UNCHANGED <<rows, req, event, unread, cardFaults>>

Decide(k) ==
  /\ proc[k] = "pending"
  /\ \E s \in Decision : proc' = [proc EXCEPT ![k] = s]
  /\ UNCHANGED <<rows, req, event, used, unread, cardFaults>>

CardStep(x) ==
  \/ InsertLink(x) \/ InsertRefused(x) \/ CreateCheckout(x) \/ GiveUpLink(x)
  \/ Charge(x) \/ RejectCharge(x)
  \/ LoadCardSync(x) \/ Verify(x) \/ Apply(x) \/ ApplyRollsBack(x) \/ RecordEvent(x)

CardNext ==
  \/ \E x \in Slot, k \in Payment, a \in Account : CheckTarget(x, k, a)
  \/ \E x \in Slot, k, c \in Payment : StartCharge(x, k, c)
  \/ \E x \in Slot, k \in Payment : StartCardSync(x, k)
  \/ \E x \in Slot, k \in Payment : Deliver(x, k)
  \/ \E x \in Slot : CardStep(x)
  \/ \E x \in Slot : Die(x)
  \/ \E c \in Payment : ChangeCard(c)
  \/ \E a \in Account : CloseAccount(a)
  \/ \E k \in Payment, t \in Token : PayAtCheckout(k, t)
  \/ \E k \in Payment : Decide(k)

CardSpec == CardInit /\ [][CardNext]_cardVars

(***************************************************************************)
(* Properties.                                                             *)
(***************************************************************************)

\* A payment is credited once if it settled and never otherwise, however the
\* webhook, the client's polling and the charge itself race to apply it, and
\* only if the processor confirms it in full ("Value is given only on what
\* Flutterwave's verify endpoint says").
CreditedOnce ==
  \A k \in Payment :
    /\ credited[k] = (IF pay[k] # None /\ pay[k].status = "settled" THEN 1 ELSE 0)
    /\ credited[k] > 0 => proc[k] = "successful"

\* A payment the customer really made is credited, still pending, or marked
\* for a manual refund: it is never just forgotten.  The exception is a charge
\* whose 2xx answer was not JSON, which flutterwave.js reads as a rejection.
CapturedIsKept ==
  /\ CardTypeOK
  /\ \A k \in Payment :
       pay[k] # None /\ proc[k] = "successful" =>
         pay[k].status \in {"pending", "settled"} \/ pay[k].refund \/ k \in unread

\* A card funds one account that is open.  Links that race never save one
\* token twice ("This card is already linked to another account"), and one
\* that settles while its account is being closed leaves no card behind
\* (closeAccount: "a linked card would keep funding a closed account").
CardFundsOpenAccount ==
  /\ \A c, d \in Payment :
       Linked(c) /\ Linked(d) /\ card[c].token = card[d].token => c = d
  /\ \A c \in Payment : Linked(c) => card[c].account \notin closed

=============================================================================
