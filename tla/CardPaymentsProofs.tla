-------------------------- MODULE CardPaymentsProofs --------------------------
(***************************************************************************)
(* What CardPayments promises for any payments, accounts, cards and        *)
(* requests, and for any number of faults: a payment is credited once and  *)
(* only if it was made, one that was made is not forgotten, and a card     *)
(* funds one account that is open.                                         *)
(***************************************************************************)
EXTENDS CardPayments, FiniteSetTheorems, TLAPS

\* The request of a payment that calls the processor for it.
Calling == {"checkout", "nocheckout", "charge", "rejected"}

\* What request r rests on: its payment is recorded, the call it is about to
\* make was not made yet, one it gives up was not taken as far as it can read
\* the answer, and what it saw the processor decide stands.
Fit(r) ==
  /\ r.pc \notin {"idle", "insert"} => pay[r.of] # None
  /\ r.pc = "charge" => pay[r.of].kind = "charge"
  /\ r.pc = "apply" => r.seen \in Answer /\ (r.seen \in Decision => proc[r.of] = r.seen)
  /\ r.pc \in {"checkout", "nocheckout", "charge"} => proc[r.of] = "absent"
  /\ r.pc = "rejected" => proc[r.of] = "absent" \/ r.of \in unread

\* One request alone calls the processor for a payment.
Alone ==
  \A x, y \in Slot :
    req[x].pc \in Calling /\ req[y].pc \in Calling /\ req[x].of = req[y].of => x = y

\* What the rows and the processor's payments rest on.
Grounded(k) ==
  /\ pay[k] = None => proc[k] = "absent"
  /\ pay[k] # None /\ pay[k].kind = "charge" =>
       pay[k].card \in Payment /\ card[pay[k].card] # None
  /\ proc[k] \in Answer => used[k] \in Token

\* Why a payment that failed is not owed to the customer: it is marked for a
\* refund, was taken without a word that could be read, was decided against,
\* or the processor never heard of it and nobody is going to tell it.
Unpaid(k) ==
  \/ pay[k].refund
  \/ k \in unread
  \/ proc[k] \in {"mismatched", "failed"}
  \/ /\ proc[k] = "absent"
     /\ \A x \in Slot : req[x].pc \in Calling => req[x].of # k

Known ==
  /\ \A x \in Slot : Fit(req[x])
  /\ Alone
  /\ \A k \in Payment :
       /\ Grounded(k)
       /\ pay[k] # None /\ pay[k].status = "failed" => Unpaid(k)

Inv == CardTypeOK /\ Known /\ CreditedOnce


LEMMA InitInv == CardInit => Inv /\ CardFundsOpenAccount
<1> SUFFICES ASSUME CardInit PROVE Inv /\ CardFundsOpenAccount
  OBVIOUS
<1>1. CardTypeOK
  BY CardFaultAssumption DEF CardInit, CardTypeOK, Request, Where
<1>2. Known
  BY NoneAssumption DEF CardInit, Known, Fit, Alone, Calling, Grounded, Answer, Decision
<1>3. CreditedOnce /\ CardFundsOpenAccount
  BY DEF CardInit, CreditedOnce, CardFundsOpenAccount, Linked
<1> QED
  BY <1>1, <1>2, <1>3 DEF Inv

\* A request goes on, stops, or is done with its sync; or a slot begins one.
LEMMA RequestTyped ==
  ASSUME CardTypeOK, NEW x \in Slot, NEW pc \in Where
  PROVE  /\ Goto(x, pc) => req' \in [Slot -> Request]
         /\ \A k \in Payment, a \in Account :
              BeginRequest(x, pc, k, a) => req' \in [Slot -> Request]
         /\ \A outcome \in {"none", "processed", "failed"} :
              Done(x, outcome) => req' \in [Slot -> Request]
<1> USE DEF CardTypeOK
<1>1. req[x] \in Request
  OBVIOUS
<1>2. [req[x] EXCEPT !.pc = pc] \in Request
  BY <1>1 DEF Request
<1>3. Goto(x, pc) => req' \in [Slot -> Request]
  BY <1>2 DEF Goto
<1>4. \A k \in Payment, a \in Account : BeginRequest(x, pc, k, a) => req' \in [Slot -> Request]
  BY DEF BeginRequest, Request
<1>5. ASSUME NEW outcome \in {"none", "processed", "failed"}, Done(x, outcome)
      PROVE  req' \in [Slot -> Request]
  <2>1. \A w \in {"event", "idle"}, o \in {"none", "processed", "failed"} :
          [req[x] EXCEPT !.pc = w, !.outcome = o] \in Request
    BY <1>1 DEF Request, Where
  <2>2. req' = [req EXCEPT ![x] = [req[x] EXCEPT
                  !.pc = IF req[x].webhook THEN "event" ELSE "idle",
                  !.outcome = IF req[x].webhook THEN outcome ELSE "none"]]
    BY <1>5 DEF Done
  <2> QED
    BY <2>1, <2>2
<1> QED
  BY <1>3, <1>4, <1>5

\* Where a request's step leads.
LEMMA RequestMoves ==
  ASSUME CardTypeOK, NEW x \in Slot
  PROVE  /\ \A pc \in Where : Goto(x, pc) => req'[x] = [req[x] EXCEPT !.pc = pc]
         /\ \A outcome : Done(x, outcome) =>
              req'[x].pc \in {"event", "idle"} /\ req'[x].of = req[x].of
         /\ \A pc, k, a, outcome : Goto(x, pc) \/ Done(x, outcome) \/ BeginRequest(x, pc, k, a) =>
              \A y \in Slot : y # x => req'[y] = req[y]
  BY DEF CardTypeOK, Goto, Done, BeginRequest, Request

\* What a settlement does to the rows.
LEMMA SettleParts ==
  ASSUME CardTypeOK, NEW k \in Payment, Grounded(k), Pending(k), proc[k] \in Answer,
         SettleSuccessful(k)
  PROVE  /\ pay' \in [Payment -> PaymentRow \cup {None}]
         /\ link' \in [Payment -> {"none", "pending", "linked", "failed"}]
         /\ \/ /\ card' = card
               /\ pay[k].kind = "charge" => pay'[k].card = pay[k].card
            \/ /\ pay[k].kind = "link" /\ pay[k].account \notin closed
               /\ \A c \in Payment : Linked(c) => card[c].token # used[k]
               /\ card' = [card EXCEPT ![k] =
                             [token |-> used[k], account |-> pay[k].account, status |-> "active"]]
         /\ \/ pay'[k].status = "failed" /\ pay'[k].refund /\ credited' = credited
            \/ pay'[k].status = "settled" /\ Credit(k)
         /\ pay'[k] # None /\ pay'[k].kind = pay[k].kind
         /\ \A l \in Payment : l # k => pay'[l] = pay[l]
<1> USE DEF CardTypeOK
<1>1. pay[k] \in PaymentRow
  BY DEF Pending
<1>2. CASE pay[k].account \in closed
  <2>1. pay' = [pay EXCEPT ![k] = [pay[k] EXCEPT !.status = "failed", !.refund = TRUE]]
        /\ link' = LinkFails(k) /\ card' = card /\ credited' = credited
    BY <1>2 DEF SettleSuccessful
  <2>2. [pay[k] EXCEPT !.status = "failed", !.refund = TRUE] \in PaymentRow
    BY <1>1 DEF PaymentRow
  <2>3. link' \in [Payment -> {"none", "pending", "linked", "failed"}]
    BY <2>1 DEF LinkFails
  <2> QED
    BY <1>1, <2>1, <2>2, <2>3, NoneAssumption DEF PaymentRow
<1>3. CASE pay[k].account \notin closed
  <2>1. \A c \in Payment \cup {None} :
          [pay[k] EXCEPT !.status = "settled", !.card = c] \in PaymentRow
    BY <1>1 DEF PaymentRow
  <2>2. CASE pay[k].kind = "charge"
    <3>1. /\ pay' = [pay EXCEPT ![k] = [pay[k] EXCEPT !.status = "settled"]]
          /\ card' = card /\ link' = link /\ Credit(k)
      BY <1>3, <2>2 DEF SettleSuccessful
    <3>2. [pay[k] EXCEPT !.status = "settled"] \in PaymentRow
      BY <1>1 DEF PaymentRow
    <3>3. pay'[k] = [pay[k] EXCEPT !.status = "settled"]
      BY <3>1
    <3>4. pay'[k].status = "settled" /\ pay'[k].kind = pay[k].kind /\ pay'[k].card = pay[k].card
      BY <1>1, <3>3 DEF PaymentRow
    <3> QED
      BY <3>1, <3>2, <3>3, <3>4, NoneAssumption
  <2>3. CASE pay[k].kind # "charge"
    <3>1. pay[k].kind = "link" /\ AttachCard(k) /\ Credit(k)
      BY <1>1, <1>3, <2>3 DEF SettleSuccessful, PaymentRow
    <3>2. PICK c \in Payment \cup {None}, st \in {"linked", "failed"} :
            /\ pay' = [pay EXCEPT ![k].status = "settled", ![k].card = c]
            /\ link' = [link EXCEPT ![k] = st]
      BY <3>1, Zenon DEF AttachCard
    <3>3. pay' = [pay EXCEPT ![k] = [pay[k] EXCEPT !.status = "settled", !.card = c]]
      BY <3>2
    <3>4. \/ card' = card
          \/ /\ \A d \in Payment : Linked(d) => card[d].token # used[k]
             /\ card' = [card EXCEPT ![k] =
                           [token |-> used[k], account |-> pay[k].account, status |-> "active"]]
      BY <3>1 DEF AttachCard
    <3>5. pay'[k] = [pay[k] EXCEPT !.status = "settled", !.card = c]
      BY <3>3
    <3>6. pay'[k].status = "settled" /\ pay'[k].kind = pay[k].kind
      BY <1>1, <3>5 DEF PaymentRow
    <3>7. pay'[k] \in PaymentRow
      BY <2>1, <3>5
    <3> QED
      BY <1>3, <2>1, <2>3, <3>1, <3>2, <3>3, <3>4, <3>6, <3>7, NoneAssumption
  <2> QED
    BY <2>2, <2>3
<1> QED
  BY <1>2, <1>3

\* failPendingTransaction.
LEMMA FailParts ==
  ASSUME CardTypeOK, NEW k \in Payment, pay[k] # None, pay' = Fails(k)
  PROVE  /\ pay' \in [Payment -> PaymentRow \cup {None}]
         /\ pay'[k].status = IF pay[k].status = "pending" THEN "failed" ELSE pay[k].status
         /\ pay'[k].kind = pay[k].kind /\ pay'[k].card = pay[k].card
         /\ pay'[k].refund = pay[k].refund
         /\ pay'[k] # None
         /\ \A l \in Payment : l # k => pay'[l] = pay[l]
<1> USE DEF CardTypeOK
<1>1. pay[k] \in PaymentRow
  OBVIOUS
<1>2. \A st \in {"pending", "settled", "failed"} : [pay[k] EXCEPT !.status = st] \in PaymentRow
  BY <1>1 DEF PaymentRow
<1>3. pay' = [pay EXCEPT ![k] = [pay[k] EXCEPT !.status =
                IF pay[k].status = "pending" THEN "failed" ELSE pay[k].status]]
  BY DEF Fails, Pending
<1>4. pay[k].status \in {"pending", "settled", "failed"}
  BY <1>1 DEF PaymentRow
<1> QED
  BY <1>1, <1>2, <1>3, <1>4, NoneAssumption DEF PaymentRow

LEMMA TypeStep ==
  ASSUME Inv, [CardNext]_cardVars
  PROVE  CardTypeOK'
<1> USE DEF Inv, CardTypeOK, rows
<1>0. ASSUME CardFault \/ NoCardFault
      PROVE  cardFaults' \in 0 .. MaxCardFaults
  BY <1>0, CardFaultAssumption DEF CardFault, NoCardFault
<1>a. \A x \in Slot : req[x] \in Request /\ req[x].of \in Payment
  BY DEF Request
<1>b. ASSUME NEW k \in Payment, NEW s \in {"absent", "open"} \cup Answer
      PROVE  [proc EXCEPT ![k] = s] \in [Payment -> {"absent", "open"} \cup Answer]
  OBVIOUS
<1>1. ASSUME NEW x \in Slot, NEW k \in Payment, NEW a \in Account, CheckTarget(x, k, a)
      PROVE  CardTypeOK'
  <2>1. req' \in [Slot -> Request]
    BY <1>1, RequestTyped DEF CheckTarget, Where
  <2> QED
    BY <1>1, <2>1 DEF CheckTarget
<1>2. ASSUME NEW x \in Slot, NEW k \in Payment, NEW c \in Payment, StartCharge(x, k, c)
      PROVE  CardTypeOK'
  <2>1. card[c] \in Card /\ card[c].account \in Account
    BY <1>2 DEF StartCharge, Card
  <2>2. [kind |-> "charge", account |-> card[c].account, card |-> c,
         status |-> "pending", refund |-> FALSE] \in PaymentRow
    BY <2>1 DEF PaymentRow
  <2>3. req' \in [Slot -> Request]
    BY <1>2, <2>1, RequestTyped DEF StartCharge, Where
  <2> QED
    BY <1>2, <2>2, <2>3 DEF StartCharge
<1>3. ASSUME NEW x \in Slot, NEW k \in Payment, StartCardSync(x, k)
      PROVE  CardTypeOK'
  <2>1. pay[k].account \in Account
    BY <1>3 DEF StartCardSync, PaymentRow
  <2>2. req' \in [Slot -> Request]
    BY <1>3, <2>1, RequestTyped DEF StartCardSync, Where
  <2> QED
    BY <1>3, <2>2 DEF StartCardSync
<1>4. ASSUME NEW x \in Slot, NEW k \in Payment, Deliver(x, k)
      PROVE  CardTypeOK'
  <2>1. pay[k].account \in Account
    BY <1>4 DEF Deliver, PaymentRow
  <2>2. [pc |-> "sync", of |-> k, account |-> pay[k].account,
         seen |-> "none", webhook |-> TRUE, outcome |-> "none"] \in Request
    BY <2>1 DEF Request, Where
  <2> QED
    BY <1>4, <2>2 DEF Deliver
<1>5. ASSUME NEW x \in Slot, CardStep(x)
      PROVE  CardTypeOK'
  <2> DEFINE k == req[x].of
  <2>0. k \in Payment /\ req[x] \in Request
    BY <1>a
  <2>1. CASE InsertLink(x)
    <3>1. [kind |-> "link", account |-> req[x].account, card |-> None,
           status |-> "pending", refund |-> FALSE] \in PaymentRow
      BY <2>0 DEF PaymentRow, Request
    <3>2. req' \in [Slot -> Request]
      BY <2>1, RequestTyped DEF InsertLink, Where
    <3> QED
      BY <2>0, <2>1, <3>1, <3>2 DEF InsertLink
  <2>2. CASE InsertRefused(x)
    <3>1. req' \in [Slot -> Request]
      BY <2>2, RequestTyped DEF InsertRefused, Where
    <3> QED
      BY <2>2, <3>1 DEF InsertRefused
  <2>3. CASE CreateCheckout(x)
    <3>1. req' \in [Slot -> Request]
      BY <2>3, RequestTyped DEF CreateCheckout, Where
    <3>2. CardFault \/ NoCardFault
      BY <2>3 DEF CreateCheckout
    <3> QED
      BY <1>0, <1>b, <2>0, <2>3, <3>1, <3>2 DEF CreateCheckout
  <2>4. CASE GiveUpLink(x)
    <3>1. req' \in [Slot -> Request]
      BY <2>4, RequestTyped DEF GiveUpLink, Where
    <3>2. pay' \in [Payment -> PaymentRow \cup {None}]
      BY <2>0, <2>4, FailParts DEF GiveUpLink, Known, Fit
    <3> QED
      BY <2>0, <2>4, <3>1, <3>2 DEF GiveUpLink
  <2>5. CASE Charge(x)
    <3>1. req' \in [Slot -> Request]
      BY <2>5, RequestTyped DEF Charge, Where
    <3>2. card[pay[k].card].token \in Token
      <4>1. pay[k] # None /\ pay[k].kind = "charge"
        BY <2>5 DEF Charge, Known, Fit
      <4>2. pay[k].card \in Payment /\ card[pay[k].card] # None
        BY <2>0, <4>1 DEF Known, Grounded
      <4> QED
        BY <4>2 DEF Card
    <3>3. \/ proc' = proc /\ used' = used
          \/ \E s \in Answer : /\ proc' = [proc EXCEPT ![k] = s]
                              /\ used' = [used EXCEPT ![k] = card[pay[k].card].token]
      BY <2>5 DEF Charge, Answer, Decision
    <3>4. unread' = unread \/ unread' = unread \cup {k}
      BY <2>5 DEF Charge
    <3>5. CardFault \/ NoCardFault
      BY <2>5 DEF Charge
    <3> QED
      BY <1>0, <2>0, <2>5, <3>1, <3>2, <3>3, <3>4, <3>5 DEF Charge
  <2>6. CASE RejectCharge(x)
    <3>1. req' \in [Slot -> Request]
      BY <2>6, RequestTyped DEF RejectCharge, Where
    <3>2. pay' \in [Payment -> PaymentRow \cup {None}]
      BY <2>0, <2>6, FailParts DEF RejectCharge, Known, Fit
    <3> QED
      BY <2>0, <2>6, <3>1, <3>2 DEF RejectCharge
  <2>7. CASE LoadCardSync(x)
    <3>1. req' \in [Slot -> Request]
      BY <2>7, RequestTyped DEF LoadCardSync, Where
    <3> QED
      BY <2>7, <3>1 DEF LoadCardSync
  <2>8. CASE Verify(x)
    <3>1. CASE proc[k] \in Answer /\ req' = [req EXCEPT ![x].pc = "apply", ![x].seen = proc[k]]
      <4>1. [req[x] EXCEPT !.pc = "apply", !.seen = proc[k]] \in Request
        BY <2>0, <3>1 DEF Request, Where
      <4>2. req' = [req EXCEPT ![x] = [req[x] EXCEPT !.pc = "apply", !.seen = proc[k]]]
        BY <3>1
      <4> QED
        BY <1>0, <2>8, <4>1, <4>2 DEF Verify
    <3>2. CASE \E o \in {"none", "processed", "failed"} : Done(x, o)
      <4>1. req' \in [Slot -> Request]
        BY <3>2, RequestTyped DEF Where
      <4> QED
        BY <1>0, <2>8, <4>1 DEF Verify
    <3> QED
      BY <2>8, <3>1, <3>2 DEF Verify
  <2>9. CASE Apply(x)
    <3>1. req' \in [Slot -> Request]
      BY <2>9, RequestTyped DEF Apply, Where
    <3>2. pay[k] # None
      BY <2>9 DEF Apply, Known, Fit
    <3>3. CASE UNCHANGED <<pay, link, card, credited>>
      BY <2>9, <3>1, <3>3 DEF Apply
    <3>4. CASE pay' = Fails(k) /\ link' = LinkFails(k) /\ UNCHANGED <<card, credited>>
      <4>1. pay' \in [Payment -> PaymentRow \cup {None}]
        BY <2>0, <3>2, <3>4, FailParts
      <4> QED
        BY <2>0, <2>9, <3>1, <3>4, <4>1 DEF Apply, LinkFails
    <3>5. CASE Pending(k) /\ req[x].seen = "successful" /\ SettleSuccessful(k)
      <4>1. Grounded(k) /\ proc[k] \in Answer /\ used[k] \in Token
        BY <2>0, <2>9, <3>5 DEF Apply, Known, Fit, Grounded, Answer, Decision
      <4>2. card' \in [Payment -> Card \cup {None}]
        <5>1. pay[k].account \in Account
          BY <2>0, <3>2 DEF PaymentRow
        <5>2. [token |-> used[k], account |-> pay[k].account, status |-> "active"] \in Card
          BY <4>1, <5>1 DEF Card
        <5> QED
          BY <2>0, <3>5, <4>1, <5>2, SettleParts
      <4>3. credited' \in [Payment -> Nat]
        BY <2>0, <3>5, <4>1, SettleParts DEF Credit
      <4> QED
        BY <2>0, <2>9, <3>1, <3>5, <4>1, <4>2, <4>3, SettleParts DEF Apply
    <3> QED
      BY <2>9, <3>3, <3>4, <3>5 DEF Apply
  <2>10. CASE ApplyRollsBack(x)
    <3>1. req' \in [Slot -> Request]
      BY <2>10, RequestTyped DEF ApplyRollsBack, Where
    <3> QED
      BY <1>0, <2>10, <3>1 DEF ApplyRollsBack
  <2>11. CASE RecordEvent(x)
    <3>1. req' \in [Slot -> Request]
      BY <2>11, RequestTyped DEF RecordEvent, Where
    <3> QED
      BY <2>0, <2>11, <3>1 DEF RecordEvent, Request
  <2> QED
    BY <1>5, <2>1, <2>2, <2>3, <2>4, <2>5, <2>6, <2>7, <2>8, <2>9, <2>10, <2>11 DEF CardStep
<1>6. ASSUME NEW x \in Slot, Die(x)
      PROVE  CardTypeOK'
  <2>1. req' \in [Slot -> Request]
    BY <1>6, RequestTyped DEF Die, Where
  <2> QED
    BY <1>0, <1>6, <2>1 DEF Die
<1>7. ASSUME NEW c \in Payment, ChangeCard(c)
      PROVE  CardTypeOK'
  <2>1. PICK st \in {"active", "blocked", "removed"} :
          card' = [card EXCEPT ![c] = [card[c] EXCEPT !.status = st]]
    BY <1>7 DEF ChangeCard
  <2>2. [card[c] EXCEPT !.status = st] \in Card
    BY <1>7 DEF ChangeCard, Linked, Card
  <2> QED
    BY <1>7, <2>1, <2>2 DEF ChangeCard
<1>8. ASSUME NEW a \in Account, CloseAccount(a)
      PROVE  CardTypeOK'
  BY <1>8 DEF CloseAccount
<1>9. ASSUME NEW k \in Payment, NEW t \in Token, PayAtCheckout(k, t)
      PROVE  CardTypeOK'
  BY <1>9 DEF PayAtCheckout, Answer
<1>10. ASSUME NEW k \in Payment, Decide(k)
       PROVE  CardTypeOK'
  BY <1>10 DEF Decide, Answer
<1>11. CASE UNCHANGED cardVars
  BY <1>11 DEF cardVars
<1> QED
  BY <1>1, <1>2, <1>3, <1>4, <1>5, <1>6, <1>7, <1>8, <1>9, <1>10, <1>11 DEF CardNext

\* A step in which the slots X (one at most) move keeps what is known if it
\* keeps to the following: of the requests ...
Orderly(X) ==
  /\ \A x, y \in X : x = y
  /\ \A x \in Slot \ X : req'[x] = req[x]
  /\ \A x \in X :
       /\ Fit(req[x])'
       /\ req'[x].pc \in Calling =>
            \/ req[x].pc \in Calling /\ req'[x].of = req[x].of
            \/ pay[req'[x].of] = None

\* ... of the processor's payments and the cards ...
Told(X) ==
  /\ unread \subseteq unread'
  /\ \A k \in Payment :
       /\ \/ proc'[k] = proc[k]
          \/ proc[k] \in {"open", "pending"}
          \/ \E x \in X : req[x].of = k /\ req[x].pc \in {"checkout", "charge"}
       /\ proc[k] \in Decision => proc'[k] = proc[k]
       /\ proc'[k] \in Answer => (proc[k] \in Answer /\ used'[k] = used[k]) \/ used'[k] \in Token
       /\ card[k] # None => card'[k] # None

\* ... and of the payments' rows.
Lasting ==
  \A k \in Payment :
    /\ pay[k] # None =>
         /\ pay'[k] # None /\ pay'[k].kind = pay[k].kind
         /\ pay[k].kind = "charge" => pay'[k].card = pay[k].card
         /\ pay[k].status = "failed" => pay'[k] = pay[k]
         /\ pay[k].status # "failed" /\ pay'[k].status = "failed" => Unpaid(k)'
    /\ pay[k] = None /\ pay'[k] # None =>
         /\ pay'[k].status = "pending"
         /\ pay'[k].kind = "charge" => pay'[k].card \in Payment /\ card[pay'[k].card] # None

LEMMA KnownKept ==
  ASSUME Inv, CardTypeOK', NEW X \in SUBSET Slot, Orderly(X), Told(X), Lasting
  PROVE  Known'
<1>0. \A x \in Slot : req[x].of \in Payment /\ req'[x].of \in Payment
  BY DEF Inv, CardTypeOK, Request
<1>1. ASSUME NEW x \in Slot
      PROVE  Fit(req[x])'
  <2>1. CASE x \in X
    BY <2>1 DEF Orderly
  <2>2. CASE x \notin X
    <3> DEFINE k == req[x].of
    <3>1. req'[x] = req[x] /\ k \in Payment /\ Fit(req[x])
      BY <1>0, <2>2 DEF Orderly, Inv, Known
    <3>2. pay[k] # None => pay'[k] # None /\ pay'[k].kind = pay[k].kind
      BY <3>1 DEF Lasting
    <3>3. proc[k] \in Decision => proc'[k] = proc[k]
      BY <3>1 DEF Told
    <3>4. req[x].pc \in Calling /\ proc[k] = "absent" => proc'[k] = "absent"
      <4> SUFFICES ASSUME req[x].pc \in Calling, proc[k] = "absent", proc'[k] # proc[k]
                   PROVE  FALSE
        OBVIOUS
      <4>1. PICK y \in X : req[y].of = k /\ req[y].pc \in {"checkout", "charge"}
        BY <3>1 DEF Told
      <4>2. x = y
        BY <4>1 DEF Inv, Known, Alone, Calling
      <4> QED
        BY <2>2, <4>2
    <3>5. k \in unread => k \in unread'
      BY DEF Told
    <3> QED
      BY <3>1, <3>2, <3>3, <3>4, <3>5 DEF Fit, Calling
  <2> QED
    BY <2>1, <2>2
<1>2. Alone'
  <2> SUFFICES ASSUME NEW x \in Slot, NEW y \in Slot,
                      req'[x].pc \in Calling, req'[y].pc \in Calling, req'[x].of = req'[y].of
               PROVE  x = y
    BY DEF Alone
  <2>1. ASSUME NEW z \in Slot, NEW u \in Slot, z # u,
               req'[z].pc \in Calling, req'[u].pc \in Calling, req'[z].of = req'[u].of, z \in X
        PROVE  FALSE
    <3>1. u \notin X /\ req'[u] = req[u]
      BY <2>1 DEF Orderly
    <3>2. pay[req[u].of] # None
      BY <2>1, <3>1 DEF Inv, Known, Fit, Calling
    <3>3. req[z].pc \in Calling /\ req'[z].of = req[z].of
      BY <2>1, <3>1, <3>2 DEF Orderly
    <3> QED
      BY <2>1, <3>1, <3>3 DEF Inv, Known, Alone
  <2>2. CASE x \in X
    BY <2>1, <2>2
  <2>3. CASE y \in X
    BY <2>1, <2>3
  <2>4. CASE x \notin X /\ y \notin X
    BY <2>4 DEF Orderly, Inv, Known, Alone
  <2> QED
    BY <2>2, <2>3, <2>4
<1>3. ASSUME NEW k \in Payment
      PROVE  Grounded(k)'
  <2>0. Grounded(k)
    BY DEF Inv, Known
  <2>1. pay'[k] = None => proc'[k] = "absent"
    <3> SUFFICES ASSUME pay'[k] = None PROVE proc'[k] = "absent"
      OBVIOUS
    <3>1. pay[k] = None /\ proc[k] = "absent"
      BY <2>0 DEF Lasting, Grounded
    <3>2. ASSUME NEW x \in X, req[x].of = k /\ req[x].pc \in {"checkout", "charge"}
          PROVE  FALSE
      BY <3>1, <3>2 DEF Inv, Known, Fit
    <3> QED
      BY <3>1, <3>2 DEF Told
  <2>2. ASSUME pay'[k] # None, pay'[k].kind = "charge"
        PROVE  pay'[k].card \in Payment /\ card'[pay'[k].card] # None
    <3>1. pay'[k].card \in Payment /\ card[pay'[k].card] # None
      BY <2>0, <2>2 DEF Lasting, Grounded
    <3> QED
      BY <3>1 DEF Told
  <2>3. proc'[k] \in Answer => used'[k] \in Token
    BY <2>0 DEF Told, Grounded
  <2> QED
    BY <2>1, <2>2, <2>3 DEF Grounded
<1>4. ASSUME NEW k \in Payment, pay'[k] # None, pay'[k].status = "failed"
      PROVE  Unpaid(k)'
  <2>1. CASE pay[k] = None
    BY <1>4, <2>1 DEF Lasting
  <2>2. CASE pay[k] # None /\ pay[k].status # "failed"
    BY <1>4, <2>2 DEF Lasting
  <2>3. CASE pay[k] # None /\ pay[k].status = "failed"
    <3>1. Unpaid(k) /\ pay'[k] = pay[k]
      BY <2>3 DEF Lasting, Inv, Known
    <3>2. CASE proc[k] = "absent" /\ \A x \in Slot : req[x].pc \in Calling => req[x].of # k
      <4>1. proc'[k] = "absent"
        BY <3>2 DEF Told, Calling
      <4>2. ASSUME NEW x \in Slot, req'[x].pc \in Calling, req'[x].of = k
            PROVE  FALSE
        BY <2>3, <3>2, <4>2 DEF Orderly
      <4> QED
        BY <4>1, <4>2 DEF Unpaid
    <3> QED
      BY <3>1, <3>2 DEF Unpaid, Told, Decision
  <2> QED
    BY <2>1, <2>2, <2>3
<1> QED
  BY <1>1, <1>2, <1>3, <1>4 DEF Known

\* Most of a request's steps change nothing but where it is.
LEMMA QuietStep ==
  ASSUME Inv, CardTypeOK', NEW x \in Slot, UNCHANGED <<pay, card, proc, used, unread>>,
         \A y \in Slot : y # x => req'[y] = req[y],
         req'[x].pc \notin Calling, Fit(req[x])'
  PROVE  Known'
<1>1. Orderly({x}) /\ Told({x}) /\ Lasting
  BY DEF Orderly, Told, Lasting
<1> QED
  BY <1>1, KnownKept

\* One that stops, or is done with its sync.
LEMMA LeaveStep ==
  ASSUME Inv, CardTypeOK', NEW x \in Slot, UNCHANGED <<pay, card, proc, used, unread>>,
         \/ Goto(x, "idle")
         \/ req[x].pc \notin {"idle", "insert"} /\ \E o \in {"none", "processed", "failed"} : Done(x, o)
  PROVE  Known'
<1>1. /\ \A y \in Slot : y # x => req'[y] = req[y]
      /\ req'[x].pc \in {"idle", "event"} /\ req'[x].of = req[x].of
      /\ req'[x].pc = "idle" \/ req[x].pc \notin {"idle", "insert"}
  BY DEF Inv, CardTypeOK, Goto, Done, Request
<1>2. Fit(req[x])'
  BY <1>1 DEF Fit, Inv, Known
<1> QED
  BY <1>1, <1>2, QuietStep DEF Calling

LEMMA KnownStep ==
  ASSUME Inv, CardTypeOK', [CardNext]_cardVars
  PROVE  Known'
<1> USE DEF rows
<1>0. \A x \in Slot : req[x] \in Request /\ req[x].of \in Payment
  BY DEF Inv, CardTypeOK, Request
<1>a. ASSUME NEW x \in Slot, NEW pc \in Where, Goto(x, pc)
      PROVE  /\ req'[x].pc = pc /\ req'[x].of = req[x].of /\ req'[x].seen = req[x].seen
             /\ \A y \in Slot : y # x => req'[y] = req[y]
  BY <1>0, <1>a DEF Inv, CardTypeOK, Goto, Request
<1>b. ASSUME NEW x \in Slot, NEW pc, NEW k, NEW a, BeginRequest(x, pc, k, a)
      PROVE  /\ req'[x].pc = pc /\ req'[x].of = k
             /\ \A y \in Slot : y # x => req'[y] = req[y]
  BY <1>b DEF Inv, CardTypeOK, BeginRequest
<1>c. \A k \in Payment : Grounded(k) /\ (pay[k] # None => pay[k] \in PaymentRow)
  BY DEF Inv, Known, CardTypeOK
<1>d. \A x \in Slot : Fit(req[x])
  BY DEF Inv, Known
<1>1. ASSUME NEW x \in Slot, NEW k \in Payment, NEW a \in Account, CheckTarget(x, k, a)
      PROVE  Known'
  <2>1. req'[x].pc = "insert" /\ \A y \in Slot : y # x => req'[y] = req[y]
    BY <1>1, <1>b DEF CheckTarget
  <2> QED
    BY <1>1, <2>1, QuietStep DEF CheckTarget, Fit, Calling
<1>2. ASSUME NEW x \in Slot, NEW k \in Payment, NEW c \in Payment, StartCharge(x, k, c)
      PROVE  Known'
  <2>1. /\ req'[x].pc = "charge" /\ req'[x].of = k
        /\ \A y \in Slot : y # x => req'[y] = req[y]
    BY <1>2, <1>b DEF StartCharge
  <2>2. /\ pay[k] = None
        /\ pay'[k] # None /\ pay'[k].kind = "charge" /\ pay'[k].status = "pending"
        /\ pay'[k].card = c /\ card[c] # None
        /\ \A l \in Payment : l # k => pay'[l] = pay[l]
    <3> DEFINE row == [kind |-> "charge", account |-> card[c].account, card |-> c,
                       status |-> "pending", refund |-> FALSE]
    <3>1. card[c] \in Card /\ row \in PaymentRow
      BY <1>2 DEF StartCharge, Inv, CardTypeOK, Card, PaymentRow
    <3>2. pay' = [pay EXCEPT ![k] = row]
      BY <1>2 DEF StartCharge
    <3>3. /\ row # None /\ row.kind = "charge" /\ row.status = "pending" /\ row.card = c
      <4>1. row.kind = "charge" /\ row.status = "pending" /\ row.card = c
        OBVIOUS
      <4> HIDE DEF row
      <4> QED
        BY <3>1, <4>1, NoneAssumption
    <3> HIDE DEF row
    <3>4. pay'[k] = row /\ \A l \in Payment : l # k => pay'[l] = pay[l]
      BY <3>2 DEF Inv, CardTypeOK
    <3>5. pay[k] = None /\ card[c] # None
      BY <1>2 DEF StartCharge
    <3> QED
      BY <3>3, <3>4, <3>5
  <2>3. proc[k] = "absent"
    BY <1>c, <2>2 DEF Grounded
  <2>4. Orderly({x})
    BY <1>2, <2>1, <2>2, <2>3 DEF StartCharge, Orderly, Fit
  <2>5. Told({x}) /\ Lasting
    BY <1>2, <2>2 DEF StartCharge, Told, Lasting
  <2> QED
    BY <2>4, <2>5, KnownKept
<1>3. ASSUME NEW x \in Slot, NEW k \in Payment, StartCardSync(x, k)
      PROVE  Known'
  <2>1. /\ req'[x].pc = "sync" /\ req'[x].of = k
        /\ \A y \in Slot : y # x => req'[y] = req[y]
    BY <1>3, <1>b DEF StartCardSync
  <2> QED
    BY <1>3, <2>1, QuietStep DEF StartCardSync, Fit, Calling
<1>4. ASSUME NEW x \in Slot, NEW k \in Payment, Deliver(x, k)
      PROVE  Known'
  <2>1. /\ req'[x].pc = "sync" /\ req'[x].of = k
        /\ \A y \in Slot : y # x => req'[y] = req[y]
    BY <1>4 DEF Deliver, Inv, CardTypeOK
  <2> QED
    BY <1>4, <2>1, QuietStep DEF Deliver, Fit, Calling
<1>5. ASSUME NEW x \in Slot, CardStep(x)
      PROVE  Known'
  <2> DEFINE k == req[x].of
  <2>0. k \in Payment
    BY <1>0
  <2>1. CASE InsertLink(x)
    <3>1. /\ req'[x].pc = "checkout" /\ req'[x].of = k
          /\ \A y \in Slot : y # x => req'[y] = req[y]
      BY <1>a, <2>1 DEF InsertLink, Where
    <3>2. /\ pay[k] = None
          /\ pay'[k] # None /\ pay'[k].kind = "link" /\ pay'[k].status = "pending"
          /\ \A l \in Payment : l # k => pay'[l] = pay[l]
      <4> DEFINE row == [kind |-> "link", account |-> req[x].account, card |-> None,
                         status |-> "pending", refund |-> FALSE]
      <4>1. row \in PaymentRow
        BY <1>0 DEF PaymentRow, Request
      <4>2. pay' = [pay EXCEPT ![k] = row]
        BY <2>1 DEF InsertLink
      <4>3. row.kind = "link" /\ row.status = "pending"
        OBVIOUS
      <4> HIDE DEF row
      <4>4. row # None
        BY <4>1, NoneAssumption
      <4>5. pay'[k] = row /\ \A l \in Payment : l # k => pay'[l] = pay[l]
        BY <2>0, <4>2 DEF Inv, CardTypeOK
      <4>6. pay[k] = None
        BY <2>1 DEF InsertLink
      <4> QED
        BY <4>3, <4>4, <4>5, <4>6
    <3>3. proc[k] = "absent"
      BY <1>c, <2>0, <3>2 DEF Grounded
    <3>4. Orderly({x})
      BY <2>1, <3>1, <3>2, <3>3 DEF InsertLink, Orderly, Fit
    <3>5. Told({x}) /\ Lasting
      BY <2>1, <3>2 DEF InsertLink, Told, Lasting
    <3> QED
      BY <3>4, <3>5, KnownKept
  <2>2. CASE InsertRefused(x)
    BY <2>2, LeaveStep DEF InsertRefused
  <2>3. CASE CreateCheckout(x)
    <3>1. proc[k] = "absent" /\ pay[k] # None
      BY <1>d, <2>3 DEF CreateCheckout, Fit
    <3>2. CASE Goto(x, "idle") /\ proc' = [proc EXCEPT ![k] = "open"]
      <4>1. /\ req'[x].pc = "idle"
            /\ \A y \in Slot : y # x => req'[y] = req[y]
        BY <1>a, <3>2 DEF Where
      <4>2. Orderly({x})
        BY <4>1 DEF Orderly, Fit, Calling
      <4>3. Told({x}) /\ Lasting
        BY <2>0, <2>3, <3>1, <3>2 DEF CreateCheckout, Told, Lasting, Inv, CardTypeOK, Answer, Decision
      <4> QED
        BY <4>2, <4>3, KnownKept
    <3>3. CASE Goto(x, "nocheckout") /\ UNCHANGED proc
      <4>1. /\ req'[x].pc = "nocheckout" /\ req'[x].of = k
            /\ \A y \in Slot : y # x => req'[y] = req[y]
        BY <1>a, <3>3 DEF Where
      <4>2. Orderly({x})
        BY <2>3, <3>1, <3>3, <4>1 DEF CreateCheckout, Orderly, Fit, Calling
      <4>3. Told({x}) /\ Lasting
        BY <2>3, <3>3 DEF CreateCheckout, Told, Lasting
      <4> QED
        BY <4>2, <4>3, KnownKept
    <3> QED
      BY <2>3, <3>2, <3>3 DEF CreateCheckout
  <2>4. ASSUME GiveUpLink(x) \/ RejectCharge(x)
        PROVE  Known'
    <3>1. req[x].pc \in {"nocheckout", "rejected"} /\ pay[k] # None
          /\ (proc[k] = "absent" \/ k \in unread)
      BY <1>d, <2>4 DEF GiveUpLink, RejectCharge, Fit
    <3>2. /\ req'[x].pc = "idle" /\ req'[x].of = k
          /\ \A y \in Slot : y # x => req'[y] = req[y]
      BY <1>a, <2>4 DEF GiveUpLink, RejectCharge, Where
    <3>3. pay' = Fails(k) /\ UNCHANGED <<card, proc, used, unread>>
      BY <2>4 DEF GiveUpLink, RejectCharge
    <3>4. ASSUME NEW y \in Slot, req'[y].pc \in Calling, req'[y].of = k
          PROVE  FALSE
      <4>1. y # x
        BY <3>2, <3>4 DEF Calling
      <4>2. req[y].pc \in Calling /\ req[y].of = req[x].of /\ req[x].pc \in Calling
        BY <3>1, <3>2, <3>4, <4>1 DEF Calling
      <4> QED
        BY <4>1, <4>2 DEF Inv, Known, Alone
    <3>5. \A l \in Payment : l = k => Unpaid(l)'
      BY <3>1, <3>3, <3>4 DEF Unpaid
    <3>6. Orderly({x}) /\ Told({x})
      BY <3>2, <3>3 DEF Orderly, Told, Fit, Calling
    <3>7. Lasting
      <4>1. /\ pay'[k].kind = pay[k].kind /\ pay'[k].card = pay[k].card /\ pay'[k] # None
            /\ \A l \in Payment : l # k => pay'[l] = pay[l]
        BY <2>0, <3>1, <3>3, FailParts DEF Inv
      <4>2. pay[k].status = "failed" => pay'[k] = pay[k]
        BY <2>0, <3>1, <3>3 DEF Fails, Pending, Inv, CardTypeOK, PaymentRow
      <4> QED
        BY <3>1, <3>5, <4>1, <4>2 DEF Lasting
    <3> QED
      BY <3>6, <3>7, KnownKept
  <2>5. CASE Charge(x)
    <3>1. /\ proc[k] = "absent" /\ pay[k] # None /\ pay[k].kind = "charge"
          /\ card[pay[k].card].token \in Token
      BY <1>c, <1>d, <2>0, <2>5 DEF Charge, Fit, Grounded, Inv, CardTypeOK, Card
    <3>2. /\ req'[x].of = k
          /\ \A y \in Slot : y # x => req'[y] = req[y]
          /\ \/ req'[x].pc \in {"idle", "sync"} /\ unread' = unread
                /\ (proc' = proc \/ (\E s \in Answer : proc' = [proc EXCEPT ![k] = s]
                                      /\ used' = [used EXCEPT ![k] = card[pay[k].card].token]))
             \/ req'[x].pc = "rejected" /\ unread' = unread /\ proc' = proc
             \/ req'[x].pc = "rejected" /\ unread' = unread \cup {k}
                /\ (\E s \in Answer : proc' = [proc EXCEPT ![k] = s]
                                      /\ used' = [used EXCEPT ![k] = card[pay[k].card].token])
      <4>1. Goto(x, "idle") => req'[x].pc = "idle" /\ req'[x].of = k
                               /\ \A y \in Slot : y # x => req'[y] = req[y]
        BY <1>a DEF Where
      <4>2. Goto(x, "sync") => req'[x].pc = "sync" /\ req'[x].of = k
                               /\ \A y \in Slot : y # x => req'[y] = req[y]
        BY <1>a DEF Where
      <4>3. Goto(x, "rejected") => req'[x].pc = "rejected" /\ req'[x].of = k
                               /\ \A y \in Slot : y # x => req'[y] = req[y]
        BY <1>a DEF Where
      <4> QED
        BY <2>5, <4>1, <4>2, <4>3 DEF Charge, Answer, Decision
    <3>3. Orderly({x})
      BY <2>5, <3>1, <3>2 DEF Charge, Orderly, Fit, Calling
    <3>4. Told({x})
      <4>1. card' = card /\ unread \subseteq unread' /\ req[x].of = k /\ req[x].pc = "charge"
        BY <2>5 DEF Charge, rows
      <4>2. proc[k] \notin Decision
        BY <3>1 DEF Decision
      <4>3. CASE proc' = proc /\ used' = used
        <5>1. \A l \in Payment : proc[l] \in Answer => used[l] = used[l]
          OBVIOUS
        <5> QED
          BY <4>1, <4>3 DEF Told
      <4>4. CASE \E s \in Answer : /\ proc' = [proc EXCEPT ![k] = s]
                                  /\ used' = [used EXCEPT ![k] = card[pay[k].card].token]
        <5>1. \A l \in Payment \ {k} : proc'[l] = proc[l] /\ used'[l] = used[l]
          BY <2>0, <4>4 DEF Inv, CardTypeOK
        <5>2. used'[k] \in Token
          BY <2>0, <3>1, <4>4 DEF Inv, CardTypeOK
        <5>3. \A l \in Payment \ {k} : proc'[l] \in Answer =>
                (proc[l] \in Answer /\ used'[l] = used[l]) \/ used'[l] \in Token
          BY <5>1
        <5> HIDE DEF Answer, Decision
        <5> QED
          BY <4>1, <4>2, <5>1, <5>2, <5>3 DEF Told
      <4> QED
        BY <2>5, <4>3, <4>4 DEF Charge, Answer, Decision
    <3>5. Lasting
      BY <2>5 DEF Charge, Lasting
    <3> QED
      BY <3>3, <3>4, <3>5, KnownKept
  <2>7. CASE LoadCardSync(x)
    <3>1. CASE Pending(k) /\ Goto(x, "verify")
      <4>1. /\ req'[x].pc = "verify" /\ req'[x].of = k
            /\ \A y \in Slot : y # x => req'[y] = req[y]
        BY <1>a, <3>1 DEF Where
      <4> QED
        BY <2>7, <3>1, <4>1, QuietStep DEF LoadCardSync, Fit, Calling, Pending
    <3> QED
      BY <2>7, <3>1, LeaveStep DEF LoadCardSync
  <2>8. CASE Verify(x)
    <3>1. CASE proc[k] \in Answer /\ req' = [req EXCEPT ![x].pc = "apply", ![x].seen = proc[k]]
      <4>1. /\ req'[x].pc = "apply" /\ req'[x].of = k /\ req'[x].seen = proc[k]
            /\ \A y \in Slot : y # x => req'[y] = req[y]
        BY <1>0, <3>1 DEF Inv, CardTypeOK, Request
      <4>2. pay[k] # None
        BY <1>d, <2>8 DEF Verify, Fit
      <4> QED
        BY <2>8, <3>1, <4>1, <4>2, QuietStep DEF Verify, Fit, Calling
    <3>2. CASE \E o \in {"none", "processed", "failed"} : Done(x, o)
      BY <2>8, <3>2, LeaveStep DEF Verify
    <3> QED
      BY <2>8, <3>1, <3>2 DEF Verify
  <2>9. CASE Apply(x)
    <3>1. /\ req'[x].pc \in {"idle", "event"} /\ req'[x].of = k
          /\ \A y \in Slot : y # x => req'[y] = req[y]
      BY <1>0, <2>9 DEF Apply, Done, Inv, CardTypeOK, Request
    <3>2. pay[k] # None /\ (req[x].seen \in Decision => proc[k] = req[x].seen)
      BY <1>d, <2>9 DEF Apply, Fit
    <3>3. UNCHANGED <<proc, used, unread>>
      BY <2>9 DEF Apply
    <3>4. /\ pay'[k] # None /\ pay'[k].kind = pay[k].kind
          /\ pay[k].kind = "charge" => pay'[k].card = pay[k].card
          /\ pay[k].status = "failed" => pay'[k] = pay[k]
          /\ pay'[k].status = "failed" /\ pay[k].status # "failed" =>
               pay'[k].refund \/ proc[k] \in {"mismatched", "failed"}
          /\ \A l \in Payment : l # k => pay'[l] = pay[l]
          /\ \A c \in Payment : card[c] # None => card'[c] # None
      <4>1. CASE UNCHANGED <<pay, card>>
        BY <3>2, <4>1
      <4>2. CASE Pending(k) /\ req[x].seen \in {"mismatched", "failed"} /\ pay' = Fails(k) /\ card' = card
        <5>1. proc[k] \in {"mismatched", "failed"}
          BY <3>2, <4>2 DEF Decision
        <5> QED
          BY <2>0, <3>2, <4>2, <5>1, FailParts DEF Inv, Pending
      <4>3. CASE Pending(k) /\ req[x].seen = "successful" /\ SettleSuccessful(k)
        <5>1. proc[k] = "successful" /\ Grounded(k) /\ proc[k] \in Answer
          BY <1>c, <2>0, <3>2, <4>3 DEF Decision, Answer
        <5>2. CardTypeOK
          BY DEF Inv
        <5>3. /\ \/ card' = card /\ (pay[k].kind = "charge" => pay'[k].card = pay[k].card)
                 \/ pay[k].kind = "link" /\ card' = [card EXCEPT ![k] =
                      [token |-> used[k], account |-> pay[k].account, status |-> "active"]]
              /\ \/ pay'[k].status = "failed" /\ pay'[k].refund
                 \/ pay'[k].status = "settled"
              /\ pay'[k] # None /\ pay'[k].kind = pay[k].kind
              /\ \A l \in Payment : l # k => pay'[l] = pay[l]
          BY <2>0, <4>3, <5>1, <5>2, SettleParts
        <5>4. \A c \in Payment : card[c] # None => card'[c] # None
          <6>1. [token |-> used[k], account |-> pay[k].account, status |-> "active"] \in Card
            BY <1>c, <2>0, <3>2, <5>1 DEF Grounded, Card, PaymentRow
          <6> QED
            BY <2>0, <5>2, <5>3, <6>1, NoneAssumption DEF CardTypeOK
        <5>5. pay[k].status = "pending"
          BY <4>3 DEF Pending
        <5> QED
          BY <5>3, <5>4, <5>5
      <4> QED
        BY <2>9, <4>1, <4>2, <4>3 DEF Apply
    <3>5. Orderly({x}) /\ Told({x})
      BY <1>d, <2>9, <3>1, <3>3, <3>4 DEF Apply, Orderly, Told, Fit, Calling
    <3>6. Lasting
      BY <2>0, <3>2, <3>3, <3>4 DEF Lasting, Unpaid
    <3> QED
      BY <3>5, <3>6, KnownKept
  <2>10. CASE ApplyRollsBack(x)
    BY <2>10, LeaveStep DEF ApplyRollsBack
  <2>11. CASE RecordEvent(x)
    BY <2>11, LeaveStep DEF RecordEvent
  <2> QED
    BY <1>5, <2>1, <2>2, <2>3, <2>4, <2>5, <2>7, <2>8, <2>9, <2>10, <2>11 DEF CardStep
<1>6. ASSUME NEW x \in Slot, Die(x)
      PROVE  Known'
  BY <1>6, LeaveStep DEF Die
<1>7. ASSUME NEW c \in Payment, ChangeCard(c)
      PROVE  Known'
  <2>1. Orderly({}) /\ Lasting
    BY <1>7 DEF ChangeCard, Orderly, Lasting
  <2>2. card' \in [Payment -> Card \cup {None}] /\ card'[c] # None
    <3>1. card[c] \in Card
      BY <1>7 DEF ChangeCard, Linked, Inv, CardTypeOK
    <3>2. PICK st \in {"active", "blocked", "removed"} :
            card' = [card EXCEPT ![c] = [card[c] EXCEPT !.status = st]]
      BY <1>7 DEF ChangeCard
    <3>3. [card[c] EXCEPT !.status = st] \in Card
      BY <3>1 DEF Card
    <3> QED
      BY <3>2, <3>3, NoneAssumption DEF Inv, CardTypeOK
  <2>3. \A l \in Payment : l # c => card'[l] = card[l]
    BY <1>7 DEF ChangeCard, Inv, CardTypeOK
  <2>4. Told({})
    BY <1>7, <2>2, <2>3 DEF ChangeCard, Told
  <2> QED
    BY <2>1, <2>4, KnownKept
<1>8. ASSUME NEW a \in Account, CloseAccount(a)
      PROVE  Known'
  <2>1. Orderly({}) /\ Told({}) /\ Lasting
    BY <1>8 DEF CloseAccount, Orderly, Told, Lasting
  <2> QED
    BY <2>1, KnownKept
<1>9. ASSUME NEW k \in Payment, NEW t \in Token, PayAtCheckout(k, t)
      PROVE  Known'
  <2>1. Orderly({}) /\ Lasting
    BY <1>9 DEF PayAtCheckout, Orderly, Lasting
  <2>2. Told({})
    BY <1>9 DEF PayAtCheckout, Told, Inv, CardTypeOK, Decision
  <2> QED
    BY <2>1, <2>2, KnownKept
<1>10. ASSUME NEW k \in Payment, Decide(k)
       PROVE  Known'
  <2>1. Orderly({}) /\ Lasting
    BY <1>10 DEF Decide, Orderly, Lasting
  <2>2. Told({})
    BY <1>10 DEF Decide, Told, Inv, CardTypeOK, Answer, Decision
  <2> QED
    BY <2>1, <2>2, KnownKept
<1>11. CASE UNCHANGED cardVars
  BY <1>11 DEF cardVars, Inv, Known, Fit, Alone, Grounded, Unpaid
<1> QED
  BY <1>1, <1>2, <1>3, <1>4, <1>5, <1>6, <1>7, <1>8, <1>9, <1>10, <1>11 DEF CardNext

\* What the processor has decided stays so.
LEMMA Decided ==
  ASSUME Inv, [CardNext]_cardVars, NEW k \in Payment, proc[k] \in Decision
  PROVE  proc'[k] = proc[k]
<1> USE DEF Decision, Inv, CardTypeOK
<1>1. ASSUME NEW x \in Slot, CardStep(x)
      PROVE  proc'[k] = proc[k]
  <2>1. req[x].of \in Payment /\ Fit(req[x])
    BY DEF Request, Known
  <2>2. CASE CreateCheckout(x)
    BY <2>1, <2>2 DEF CreateCheckout, Fit
  <2>3. CASE Charge(x)
    BY <2>1, <2>3 DEF Charge, Fit
  <2> QED
    BY <1>1, <2>2, <2>3 DEF CardStep, InsertLink, InsertRefused, GiveUpLink, RejectCharge,
       LoadCardSync, Verify, Apply, ApplyRollsBack, RecordEvent
<1>2. ASSUME NEW l \in Payment, NEW t \in Token, PayAtCheckout(l, t)
      PROVE  proc'[k] = proc[k]
  BY <1>2 DEF PayAtCheckout
<1>3. ASSUME NEW l \in Payment, Decide(l)
      PROVE  proc'[k] = proc[k]
  BY <1>3 DEF Decide
<1> QED
  BY <1>1, <1>2, <1>3 DEF CardNext, CheckTarget, StartCharge, StartCardSync, Deliver, Die,
     ChangeCard, CloseAccount, cardVars

\* A payment is credited in the DB transaction that settles it.
LEMMA CreditStep ==
  ASSUME Inv, [CardNext]_cardVars
  PROVE  CreditedOnce'
<1> USE DEF Inv, CardTypeOK, rows
<1>1. ASSUME UNCHANGED credited,
             \A k \in Payment : (pay'[k] # None /\ pay'[k].status = "settled")
                            <=> (pay[k] # None /\ pay[k].status = "settled")
      PROVE  CreditedOnce'
  BY <1>1, Decided DEF CreditedOnce, Decision
<1>2. ASSUME NEW x \in Slot, GiveUpLink(x) \/ RejectCharge(x)
      PROVE  CreditedOnce'
  <2>1. req[x].of \in Payment /\ pay[req[x].of] # None
    BY <1>2 DEF Request, Known, Fit, GiveUpLink, RejectCharge
  <2>2. pay' = Fails(req[x].of) /\ UNCHANGED credited
    BY <1>2 DEF GiveUpLink, RejectCharge
  <2> QED
    BY <1>1, <2>1, <2>2, FailParts
<1>3. ASSUME NEW x \in Slot, InsertLink(x)
      PROVE  CreditedOnce'
  <2>1. req[x].of \in Payment
    BY DEF Request
  <2> QED
    BY <1>1, <1>3, <2>1 DEF InsertLink
<1>4. ASSUME NEW x \in Slot, NEW k \in Payment, NEW c \in Payment, StartCharge(x, k, c)
      PROVE  CreditedOnce'
  BY <1>1, <1>4 DEF StartCharge
<1>5. ASSUME NEW x \in Slot, Apply(x)
      PROVE  CreditedOnce'
  <2> DEFINE k == req[x].of
  <2>1. k \in Payment /\ pay[k] # None /\ Fit(req[x]) /\ Grounded(k)
    BY <1>5 DEF Request, Known, Fit, Apply
  <2>2. CASE UNCHANGED <<pay, credited>>
    BY <1>1, <2>2
  <2>3. CASE Pending(k) /\ pay' = Fails(k) /\ UNCHANGED credited
    BY <1>1, <2>1, <2>3, FailParts
  <2>4. CASE Pending(k) /\ req[x].seen = "successful" /\ SettleSuccessful(k)
    <3>1. proc[k] = "successful" /\ proc[k] \in Answer /\ proc' = proc
      BY <1>5, <2>1, <2>4 DEF Apply, Fit, Decision, Answer
    <3>2. /\ \/ pay'[k].status = "failed" /\ credited' = credited
             \/ pay'[k].status = "settled" /\ Credit(k)
          /\ pay'[k] # None
          /\ \A l \in Payment : l # k => pay'[l] = pay[l]
      BY <2>1, <2>4, <3>1, SettleParts
    <3>3. credited[k] = 0 /\ pay[k].status = "pending"
      BY <2>1, <2>4 DEF CreditedOnce, Pending
    <3>4. CASE pay'[k].status = "failed" /\ credited' = credited
      BY <1>1, <3>2, <3>3, <3>4
    <3>5. CASE pay'[k].status = "settled" /\ Credit(k)
      <4>1. credited'[k] = 1 /\ \A l \in Payment : l # k => credited'[l] = credited[l]
        BY <2>1, <3>3, <3>5 DEF Credit
      <4>2. ASSUME NEW l \in Payment
            PROVE  /\ credited'[l] = (IF pay'[l] # None /\ pay'[l].status = "settled" THEN 1 ELSE 0)
                   /\ credited'[l] > 0 => proc'[l] = "successful"
        <5>1. CASE l = k
          BY <3>1, <3>2, <3>5, <4>1, <5>1
        <5>2. CASE l # k
          BY <3>1, <3>2, <4>1, <5>2 DEF CreditedOnce
        <5> QED
          BY <5>1, <5>2
      <4> QED
        BY <4>2 DEF CreditedOnce
    <3> QED
      BY <3>2, <3>4, <3>5
  <2> QED
    BY <1>5, <2>2, <2>3, <2>4 DEF Apply
<1>6. ASSUME NEW x \in Slot, CardStep(x)
      PROVE  CreditedOnce'
  BY <1>1, <1>2, <1>3, <1>5, <1>6 DEF CardStep, InsertRefused, CreateCheckout, Charge,
     LoadCardSync, Verify, ApplyRollsBack, RecordEvent
<1> QED
  BY <1>1, <1>4, <1>6 DEF CardNext, CheckTarget, StartCardSync, Deliver, Die,
     ChangeCard, CloseAccount, PayAtCheckout, Decide, cardVars

\* A card is saved if no other with its token is, for an account that is open;
\* and one that is saved keeps its account open.
LEMMA FundsStep ==
  ASSUME Inv, CardTypeOK', CardFundsOpenAccount, [CardNext]_cardVars
  PROVE  CardFundsOpenAccount'
<1> USE DEF Inv, CardTypeOK, rows
<1>1. CASE UNCHANGED <<card, closed>>
  BY <1>1 DEF CardFundsOpenAccount, Linked
<1>2. ASSUME NEW c \in Payment, ChangeCard(c)
      PROVE  CardFundsOpenAccount'
  <2>1. PICK st \in {"active", "blocked", "removed"} :
          card' = [card EXCEPT ![c] = [card[c] EXCEPT !.status = st]]
    BY <1>2 DEF ChangeCard
  <2>2. Linked(c) /\ card[c] \in Card /\ closed' = closed
    BY <1>2 DEF ChangeCard, Linked
  <2>3. card'[c] = [card[c] EXCEPT !.status = st]
    BY <2>1
  <2>4. card'[c].token = card[c].token /\ card'[c].account = card[c].account
    BY <2>2, <2>3 DEF Card
  <2>5. \A d \in Payment : d # c => card'[d] = card[d]
    BY <2>1
  <2>6. \A d \in Payment : Linked(d)' =>
          Linked(d) /\ card'[d].token = card[d].token /\ card'[d].account = card[d].account
    BY <2>2, <2>4, <2>5 DEF Linked
  <2> QED
    BY <2>2, <2>6 DEF CardFundsOpenAccount
<1>3. ASSUME NEW a \in Account, CloseAccount(a)
      PROVE  CardFundsOpenAccount'
  BY <1>3 DEF CloseAccount, CardFundsOpenAccount, Linked
<1>4. ASSUME NEW x \in Slot, Apply(x)
      PROVE  CardFundsOpenAccount'
  <2> DEFINE k == req[x].of
  <2>1. k \in Payment /\ pay[k] # None /\ Fit(req[x]) /\ Grounded(k) /\ closed' = closed
    BY <1>4 DEF Request, Known, Fit, Apply
  <2>2. CASE Pending(k) /\ req[x].seen = "successful" /\ SettleSuccessful(k)
    <3>1. proc[k] = "successful" /\ proc[k] \in Answer
      BY <1>4, <2>1, <2>2 DEF Apply, Fit, Decision, Answer
    <3>2. CASE pay[k].account \notin closed
               /\ (\A c \in Payment : Linked(c) => card[c].token # used[k])
               /\ card' = [card EXCEPT ![k] =
                    [token |-> used[k], account |-> pay[k].account, status |-> "active"]]
      <4>1. card'[k].token = used[k] /\ card'[k].account = pay[k].account
        BY <2>1, <3>2
      <4>2. \A c \in Payment : c # k => card'[c] = card[c] /\ (Linked(c)' => Linked(c))
        BY <2>1, <3>2 DEF Linked
      <4> QED
        BY <2>1, <3>2, <4>1, <4>2 DEF CardFundsOpenAccount
    <3> QED
      BY <1>1, <2>1, <2>2, <3>1, <3>2, SettleParts
  <2> QED
    BY <1>1, <1>4, <2>1, <2>2 DEF Apply
<1>5. ASSUME NEW x \in Slot, CardStep(x)
      PROVE  CardFundsOpenAccount'
  BY <1>1, <1>4, <1>5 DEF CardStep, InsertLink, InsertRefused, CreateCheckout, GiveUpLink, Charge,
     RejectCharge, LoadCardSync, Verify, ApplyRollsBack, RecordEvent
<1> QED
  BY <1>1, <1>2, <1>3, <1>5 DEF CardNext, CheckTarget, StartCharge, StartCardSync, Deliver, Die,
     PayAtCheckout, Decide, cardVars

\* The inductive invariant of card payments: what requests, rows and the
\* processor's payments rest on, and that credits and settlements go together.
THEOREM InvCorrect == CardSpec => [](Inv /\ CardFundsOpenAccount)
<1>1. CardInit => Inv /\ CardFundsOpenAccount
  BY InitInv
<1>2. Inv /\ CardFundsOpenAccount /\ [CardNext]_cardVars => (Inv /\ CardFundsOpenAccount)'
  BY TypeStep, KnownStep, CreditStep, FundsStep DEF Inv
<1> QED
  BY <1>1, <1>2, PTL DEF CardSpec

\* A payment is credited once, when the processor has said that it was made,
\* however requests, polls and webhooks race to apply it.
THEOREM PaymentsCreditedOnce == CardSpec => []CreditedOnce
<1>1. Inv => CreditedOnce
  BY DEF Inv
<1> QED
  BY <1>1, InvCorrect, PTL

\* A payment that was made is credited, still pending or marked for a refund,
\* unless its answer could not be read.
THEOREM PaymentsKept == CardSpec => []CapturedIsKept
<1>1. Inv => CapturedIsKept
  <2> SUFFICES ASSUME Inv, NEW k \in Payment, pay[k] # None, proc[k] = "successful",
                      pay[k].status \notin {"pending", "settled"}
               PROVE  pay[k].refund \/ k \in unread
    BY DEF CapturedIsKept, Inv
  <2>1. pay[k].status = "failed"
    BY DEF Inv, CardTypeOK, PaymentRow
  <2>2. Unpaid(k)
    BY <2>1 DEF Inv, Known
  <2> QED
    BY <2>2 DEF Unpaid
<1> QED
  BY <1>1, InvCorrect, PTL

\* No two cards that are saved have one token, and the account a card funds
\* is open.
THEOREM CardsFundOpenAccounts == CardSpec => []CardFundsOpenAccount
  BY InvCorrect, PTL

=============================================================================
