--------------------------- MODULE RecurringProofs ---------------------------
(***************************************************************************)
(* What Invoices and Recurring promise for any invoices, payments, days    *)
(* and periods: that no payment is forgotten or counted twice, that what   *)
(* was sent stands, and that a cycle is billed once and not while the plan *)
(* was paused.                                                             *)
(***************************************************************************)
EXTENDS Recurring, FiniteSetTheorems, WellFoundedInduction, TLAPS

\* Invoices that were sent bear the numbers up to the counter, each its own.
Numbered ==
  /\ \A i \in Sent : inv[i].number \in 1 .. counter
  /\ \A i, j \in Sent : inv[i].number = inv[j].number => i = j
  /\ \A n \in 1 .. counter : \E i \in Sent : inv[i].number = n

\* What payment p says, of its invoice and of the payment it returns.
Honest(p) ==
  /\ pay[p].invoice \in Sent
  /\ pay[p].amount = inv[pay[p].invoice].amount
  /\ pay[p].status = "pending" => pay[p].via = "checkout"
  /\ pay[p].via = "refund" <=> pay[p].reverses # None
  /\ pay[p].via = "refund" =>
       /\ Recorded(pay[p].reverses)
       /\ pay[pay[p].reverses].status = "reversed"
       /\ pay[pay[p].reverses].via = "wallet"
       /\ pay[pay[p].reverses].invoice = pay[p].invoice

\* Where its money went: it pays its invoice, or the issuer was told.
Settles(p) == inv[pay[p].invoice].settling = p

Placed(p) ==
  /\ pay[p].status \in {"settled", "reversed"} <=> Settles(p) \/ p \in extra
  /\ ~(Settles(p) /\ p \in extra)

\* The payment an invoice names, and the one refund of it there can be.
PaidBy(i, p) ==
  /\ Recorded(p) /\ pay[p].invoice = i /\ pay[p].via # "refund"
  /\ inv[i].status = "paid" => pay[p].status = "settled"
  /\ inv[i].status = "refunded" =>
       /\ pay[p].status = "reversed" /\ pay[p].via = "wallet"
       /\ \E q \in Payment : Recorded(q) /\ pay[q].reverses = p

Accounted ==
  /\ \A p \in Payment : Recorded(p) =>
       Honest(p) /\ (pay[p].via # "refund" => Placed(p))
  /\ \A p, q \in Payment :
       Recorded(p) /\ Recorded(q) /\ pay[p].reverses = pay[q].reverses /\ pay[p].reverses # None
         => p = q
  /\ \A p \in extra : Recorded(p) /\ pay[p].via = "checkout"
  /\ \A i \in Invoice :
       /\ inv[i].status \in {"paid", "refunded"} <=> inv[i].settling # None
       /\ inv[i].settling # None => PaidBy(i, inv[i].settling)

InvoicesInv == TypeOK /\ Numbered /\ Accounted

\* Of the plan pl: cycles before its next one were billed when they were due; those
\* from it on are not, and while it is active none of them falls on a
\* day on which it was paused.
Cycles(pl) ==
  /\ pl.status = "none" => off = {} /\ \A i \in Invoice : inv[i].cycle = None
  /\ \A i \in Invoice : inv[i].status = "none" => inv[i].cycle = None
  /\ \A i \in Invoice : inv[i].cycle # None =>
       /\ inv[i].cycle < pl.cycle
       /\ BillingDate(pl.start, inv[i].cycle) <= today
  /\ \A i, j \in Invoice : inv[i].cycle # None /\ inv[i].cycle = inv[j].cycle => i = j
  /\ \A d \in off : d < today
  /\ pl.status = "active" =>
       \A n \in Nat : n >= pl.cycle => BillingDate(pl.start, n) \notin off

Inv == InvoicesInv /\ PlanTypeOK /\ Cycles(plan)

\* What was sent stays as it was sent.
Stands ==
  \A i \in Sent : i \in Sent' /\ inv'[i].amount = inv[i].amount /\ inv'[i].number = inv[i].number

LEMMA InitInv == PlanInit => Inv
<1> SUFFICES ASSUME PlanInit PROVE Inv
  OBVIOUS
<1>1. TypeOK
  BY BoundAssumption DEF PlanInit, Init, TypeOK, Row, Status, Amount
<1>2. Sent = {}
  BY DEF PlanInit, Init, Sent
<1>3. Numbered /\ Accounted
  BY <1>2 DEF PlanInit, Init, Numbered, Accounted, Recorded
<1>4. PlanTypeOK
  BY <1>1, BoundAssumption, PeriodAssumption DEF PlanInit, PlanTypeOK, PlanRow, Amount
<1>5. Cycles(plan)
  BY DEF PlanInit, Init, Cycles
<1> QED
  BY <1>1, <1>3, <1>4, <1>5 DEF Inv, InvoicesInv

\* Invoices that are sent take the next numbers.
LEMMA NumberedGrows ==
  ASSUME InvoicesInv, NEW new \in SUBSET Invoice, NEW k \in Nat,
         counter' = counter + k,
         Sent' = Sent \cup new, Sent \cap new = {},
         \A i \in Sent : inv'[i].number = inv[i].number,
         \A i \in new : inv'[i].number \in counter + 1 .. counter + k,
         \A i, j \in new : inv'[i].number = inv'[j].number => i = j,
         \A n \in counter + 1 .. counter + k : \E i \in new : inv'[i].number = n
  PROVE  Numbered'
<1> USE DEF InvoicesInv, Numbered
<1>0. counter \in Nat
  BY DEF TypeOK
<1>1. \A i \in Sent' : inv'[i].number \in 1 .. counter'
  BY <1>0
<1>2. \A i, j \in Sent' : inv'[i].number = inv'[j].number => i = j
  BY <1>0
<1>3. ASSUME NEW n \in 1 .. counter'
      PROVE  \E i \in Sent' : inv'[i].number = n
  <2>1. CASE n \in 1 .. counter
    BY <2>1
  <2>2. CASE n \in counter + 1 .. counter + k
    BY <2>2
  <2> QED
    BY <1>0, <2>1, <2>2
<1> QED
  BY <1>1, <1>2, <1>3

\* A step that writes invoices only, and neither pays nor refunds one.
LEMMA PaperStep ==
  ASSUME InvoicesInv, UNCHANGED <<pay, extra>>, Stands,
         \A i \in Invoice :
           /\ inv'[i].settling = inv[i].settling
           /\ inv[i].status \in {"paid", "refunded"} \/ inv'[i].status \in {"paid", "refunded"}
                => inv'[i].status = inv[i].status
  PROVE  Accounted'
<1> USE DEF InvoicesInv, Accounted
<1>0. \A p \in Payment : Recorded(p) => pay[p] \in Txn /\ pay[p].invoice \in Invoice
  BY DEF TypeOK, Recorded, Txn
<1>1. ASSUME NEW p \in Payment, Recorded(p)
      PROVE  Honest(p)'
  BY <1>0, <1>1 DEF Honest, Stands, Recorded
<1>2. ASSUME NEW p \in Payment, Recorded(p), pay[p].via # "refund"
      PROVE  Placed(p)'
  BY <1>0, <1>2 DEF Placed, Settles
<1>3. ASSUME NEW i \in Invoice
      PROVE  /\ inv'[i].status \in {"paid", "refunded"} <=> inv'[i].settling # None
             /\ inv'[i].settling # None => PaidBy(i, inv[i].settling)'
  BY DEF PaidBy, Recorded
<1> QED
  BY <1>1, <1>2, <1>3 DEF Recorded

\* One invoice that is none, a draft or open is rewritten: if it is sent by
\* this, it takes the next number.
LEMMA RewriteStep ==
  ASSUME InvoicesInv, NEW i \in Invoice, NEW row \in Row,
         inv' = [inv EXCEPT ![i] = row],
         row.settling = inv[i].settling, row.cycle = inv[i].cycle,
         UNCHANGED <<pay, proc, extra>>,
         \/ /\ inv[i].status \in {"none", "draft"} /\ row.status \in {"draft", "deleted"}
            /\ UNCHANGED counter
         \/ /\ inv[i].status \in {"none", "draft"} /\ row.status = "open"
            /\ counter' = counter + 1 /\ row.number = counter + 1
         \/ /\ inv[i].status = "open" /\ row.status = "cancelled"
            /\ row.amount = inv[i].amount /\ row.number = inv[i].number
            /\ UNCHANGED counter
  PROVE  /\ InvoicesInv' /\ Stands
         /\ \A j \in Invoice : /\ inv'[j].cycle = inv[j].cycle
                               /\ inv'[j].status = "none" => inv[j].status = "none"
<1>0. TypeOK /\ counter \in Nat
  BY DEF InvoicesInv, TypeOK
<1>1. TypeOK'
  BY <1>0 DEF TypeOK
<1>2. inv'[i] = row /\ \A j \in Invoice : j # i => inv'[j] = inv[j]
  BY <1>0 DEF TypeOK
<1>3. CASE inv[i].status \in {"none", "draft"} /\ row.status \in {"draft", "deleted"} /\ UNCHANGED counter
  <2>1. Sent' = Sent /\ i \notin Sent
    BY <1>2, <1>3 DEF Sent
  <2>2. Stands
    BY <1>2, <2>1 DEF Stands, Sent
  <2>3. Numbered'
    BY <1>2, <1>3, <2>1, <2>2 DEF InvoicesInv, Numbered, Stands
  <2>4. Accounted'
    BY <1>2, <1>3, <2>2, PaperStep
  <2> QED
    BY <1>1, <1>2, <1>3, <2>2, <2>3, <2>4 DEF InvoicesInv
<1>4. CASE inv[i].status \in {"none", "draft"} /\ row.status = "open"
           /\ counter' = counter + 1 /\ row.number = counter + 1
  <2>1. Sent' = Sent \cup {i} /\ i \notin Sent
    BY <1>2, <1>4 DEF Sent
  <2>2. Stands
    BY <1>2, <2>1 DEF Stands, Sent
  <2>3. Numbered'
    <3>1. \A j \in Sent : inv'[j].number = inv[j].number
      BY <2>2 DEF Stands
    <3>2. \A n \in counter + 1 .. counter + 1 : n = counter + 1
      BY <1>0
    <3>3. inv'[i].number = counter + 1 /\ inv'[i].number \in counter + 1 .. counter + 1
      BY <1>0, <1>2, <1>4
    <3>4. /\ {i} \in SUBSET Invoice /\ Sent \cap {i} = {} /\ 1 \in Nat
          /\ \A j \in {i} : inv'[j].number \in counter + 1 .. counter + 1
          /\ \A j, l \in {i} : inv'[j].number = inv'[l].number => j = l
          /\ \A n \in counter + 1 .. counter + 1 : \E j \in {i} : inv'[j].number = n
      BY <2>1, <3>2, <3>3
    <3> QED
      BY <1>4, <2>1, <3>1, <3>4, NumberedGrows
  <2>4. Accounted'
    BY <1>2, <1>4, <2>2, PaperStep
  <2> QED
    BY <1>1, <1>2, <1>4, <2>2, <2>3, <2>4 DEF InvoicesInv
<1>5. CASE /\ inv[i].status = "open" /\ row.status = "cancelled"
           /\ row.amount = inv[i].amount /\ row.number = inv[i].number
           /\ UNCHANGED counter
  <2>1. Sent' = Sent
    BY <1>2, <1>5 DEF Sent
  <2>2. Stands
    BY <1>2, <1>5, <2>1 DEF Stands, Sent
  <2>3. Numbered'
    BY <1>5, <2>1, <2>2 DEF InvoicesInv, Numbered, Stands
  <2>4. Accounted'
    BY <1>2, <1>5, <2>2, PaperStep
  <2> QED
    BY <1>1, <1>2, <1>5, <2>2, <2>3, <2>4 DEF InvoicesInv
<1> QED
  BY <1>3, <1>4, <1>5

\* A step that sends nothing and keeps what was sent.
LEMMA NumberedKept ==
  ASSUME InvoicesInv, Sent' = Sent, Stands, UNCHANGED counter
  PROVE  Numbered'
BY DEF InvoicesInv, Numbered, Stands

\* Nothing names a payment that is not recorded yet.
LEMMA Unnamed ==
  ASSUME InvoicesInv, NEW p \in Payment, ~Recorded(p)
  PROVE  /\ p \notin extra
         /\ \A i \in Invoice : inv[i].settling # p
         /\ \A q \in Payment : Recorded(q) => pay[q].reverses # p
  <1>1. p # None
    BY NoneAssumption
  <1>2. ASSUME NEW q \in Payment, Recorded(q), pay[q].reverses = p
        PROVE  FALSE
    BY <1>1, <1>2 DEF InvoicesInv, Accounted, Honest
  <1>3. ASSUME NEW i \in Invoice, inv[i].settling = p
        PROVE  FALSE
    BY <1>1, <1>3 DEF InvoicesInv, Accounted, PaidBy
  <1> QED
    BY <1>2, <1>3 DEF InvoicesInv, Accounted

LEMMA PaymentTypes ==
  ASSUME InvoicesInv
  PROVE  /\ \A p \in Payment : Recorded(p) => pay[p] \in Txn /\ pay[p].invoice \in Invoice
         /\ \A p \in Payment : Recorded(p) => p # None
         /\ \A i \in Invoice : inv[i] \in Row /\ inv[i].amount \in Amount
  BY NoneAssumption DEF InvoicesInv, TypeOK, Recorded, Txn, Row

\* The row of an invoice is what it was but for its status and its payment.
LEMMA PaidRow ==
  ASSUME InvoicesInv, NEW i \in Invoice, NEW st \in Status, NEW p \in Payment \cup {None},
         \/ inv' = [inv EXCEPT ![i].status = st, ![i].settling = p]
         \/ inv' = [inv EXCEPT ![i].status = st] /\ p = inv[i].settling
  PROVE  /\ inv' \in [Invoice -> Row]
         /\ inv'[i].status = st /\ inv'[i].settling = p
         /\ inv'[i].amount = inv[i].amount /\ inv'[i].number = inv[i].number
         /\ inv'[i].cycle = inv[i].cycle
         /\ \A j \in Invoice : j # i => inv'[j] = inv[j]
<1>1. inv[i] \in Row /\ inv \in [Invoice -> Row]
  BY DEF InvoicesInv, TypeOK
<1> DEFINE row == [inv[i] EXCEPT !.status = st, !.settling = p]
<1>2. row \in Row /\ row.status = st /\ row.settling = p /\ row.amount = inv[i].amount
      /\ row.number = inv[i].number /\ row.cycle = inv[i].cycle
  BY <1>1 DEF Row
<1>3. inv' = [inv EXCEPT ![i] = row]
  <2>1. CASE inv' = [inv EXCEPT ![i].status = st, ![i].settling = p]
    BY <1>1, <2>1
  <2>2. CASE inv' = [inv EXCEPT ![i].status = st] /\ p = inv[i].settling
    <3>1. [inv[i] EXCEPT !.status = st] = row
      BY <1>1, <2>2 DEF Row
    <3>2. inv' = [inv EXCEPT ![i] = [inv[i] EXCEPT !.status = st]]
      BY <2>2
    <3> QED
      BY <3>1, <3>2
  <2> QED
    BY <2>1, <2>2
<1> HIDE DEF row
<1> QED
  BY <1>1, <1>2, <1>3

\* A payment whose money has not moved: one from a pay link that begins, or
\* one that fails.
LEMMA NoMoneyStep ==
  ASSUME InvoicesInv, UNCHANGED <<inv, counter, extra>>, NEW p \in Payment, NEW row \in Txn,
         pay' = [pay EXCEPT ![p] = row], row.via = "checkout", row.reverses = None,
         row.invoice \in Sent, row.amount = inv[row.invoice].amount,
         row.status \in {"pending", "failed"},
         Recorded(p) => pay[p].status = "pending" /\ pay[p].invoice = row.invoice
                        /\ pay[p].via = "checkout"
  PROVE  Numbered' /\ Accounted' /\ pay' \in [Payment -> Txn \cup {None}]
<1>0. TypeOK
  BY DEF InvoicesInv
<1>1. pay'[p] = row /\ row # None /\ \A q \in Payment : q # p => pay'[q] = pay[q]
  BY <1>0, NoneAssumption DEF TypeOK
<1>2. pay' \in [Payment -> Txn \cup {None}] /\ Sent' = Sent /\ Numbered'
  BY <1>0 DEF TypeOK, Sent, InvoicesInv, Numbered
<1>3. ~Settles(p)' /\ p \notin extra /\ \A i \in Invoice : inv[i].settling # p
  <2>1. CASE ~Recorded(p)
    BY <1>1, <2>1, Unnamed, PaymentTypes DEF Settles, Txn
  <2>2. CASE Recorded(p)
    <3>1. Placed(p) /\ pay[p].status = "pending"
      BY <2>2 DEF InvoicesInv, Accounted
    <3>2. ~Settles(p) /\ p \notin extra
      BY <3>1 DEF Placed
    <3>3. ASSUME NEW i \in Invoice, inv[i].settling = p
          PROVE  FALSE
      BY <2>2, <3>1, <3>2, <3>3, PaymentTypes DEF InvoicesInv, Accounted, PaidBy, Settles
    <3> QED
      BY <1>1, <3>2, <3>3 DEF Settles, Txn
  <2> QED
    BY <2>1, <2>2
<1>4. \A q \in Payment : Recorded(q) => pay[q].reverses # p
  <2>1. CASE ~Recorded(p)
    BY <2>1, Unnamed
  <2>2. CASE Recorded(p)
    BY <2>2, PaymentTypes DEF InvoicesInv, Accounted, Honest
  <2> QED
    BY <2>1, <2>2
<1>5. Honest(p)' /\ Placed(p)'
  BY <1>1, <1>2, <1>3 DEF Honest, Placed
<1>6. ASSUME NEW q \in Payment, q # p, Recorded(q)
      PROVE  Honest(q)' /\ (pay[q].via # "refund" => Placed(q)')
  <2>1. Honest(q) /\ (pay[q].via # "refund" => Placed(q))
    BY <1>6 DEF InvoicesInv, Accounted
  <2>2. pay'[q] = pay[q]
    BY <1>1, <1>6
  <2>3. pay[q].via = "refund" => pay'[pay[q].reverses] = pay[pay[q].reverses]
    <3> SUFFICES ASSUME pay[q].via = "refund" PROVE pay'[pay[q].reverses] = pay[pay[q].reverses]
      OBVIOUS
    <3>1. pay[q].reverses \in Payment /\ pay[q].reverses # p
      BY <1>4, <1>6, <2>1, PaymentTypes DEF Honest, Txn
    <3> QED
      BY <1>1, <3>1
  <2> QED
    BY <1>2, <2>1, <2>2, <2>3 DEF Honest, Placed, Settles, Recorded
<1>7. ASSUME NEW i \in Invoice, inv[i].settling # None
      PROVE  PaidBy(i, inv[i].settling)'
  <2> DEFINE q == inv[i].settling
  <2>1. q # p /\ q \in Payment /\ PaidBy(i, q)
    BY <1>3, <1>7, PaymentTypes DEF InvoicesInv, Accounted, Row
  <2>2. pay'[q] = pay[q] /\ inv' = inv
    BY <1>1, <2>1
  <2>3. ASSUME NEW o \in Payment, Recorded(o), pay[o].reverses = q
        PROVE  pay'[o] = pay[o]
    <3>1. o # p
      <4> SUFFICES ASSUME o = p PROVE FALSE
        OBVIOUS
      <4>1. pay[p].via = "checkout" /\ Honest(p)
        BY <2>3 DEF InvoicesInv, Accounted
      <4> QED
        BY <1>7, <2>3, <4>1 DEF Honest
    <3> QED
      BY <1>1, <3>1
  <2> QED
    BY <2>1, <2>2, <2>3 DEF PaidBy, Recorded
<1>8. \A q, o \in Payment :
        Recorded(q)' /\ Recorded(o)' /\ pay'[q].reverses = pay'[o].reverses /\ pay'[q].reverses # None
          => q = o
  BY <1>1 DEF InvoicesInv, Accounted, Recorded
<1>9. \A q \in extra : Recorded(q)' /\ pay'[q].via = "checkout"
  BY <1>1, <1>3 DEF InvoicesInv, Accounted, Recorded, TypeOK
<1>10. \A i \in Invoice : inv[i].status \in {"paid", "refunded"} <=> inv[i].settling # None
  BY DEF InvoicesInv, Accounted
<1>11. ASSUME NEW q \in Payment, Recorded(q)'
       PROVE  Honest(q)' /\ (pay'[q].via # "refund" => Placed(q)')
  BY <1>1, <1>5, <1>6, <1>11 DEF Recorded
<1>12. \A i \in Invoice :
         /\ inv'[i].status \in {"paid", "refunded"} <=> inv'[i].settling # None
         /\ inv'[i].settling # None => PaidBy(i, inv[i].settling)'
  BY <1>7, <1>10
<1> QED
  BY <1>2, <1>8, <1>9, <1>11, <1>12 DEF Accounted

\* A payment whose money arrives: it pays its invoice or goes to the extra ones.
LEMMA MoneyStep ==
  ASSUME InvoicesInv, UNCHANGED counter, NEW i \in Invoice, NEW p \in Payment, NEW row \in Txn,
         pay' = [pay EXCEPT ![p] = row], row.reverses = None, row.status = "settled",
         row.invoice = i, row.amount = inv[i].amount, i \in Sent,
         \/ ~Recorded(p) /\ inv[i].status = "open" /\ row.via = "wallet"
         \/ Recorded(p) /\ pay[p].status = "pending" /\ pay[p].invoice = i
            /\ row.via = "checkout" /\ pay[p].via = "checkout",
         SettleInvoice(i, p)
  PROVE  /\ Numbered' /\ Accounted' /\ Stands
         /\ inv' \in [Invoice -> Row] /\ pay' \in [Payment -> Txn \cup {None}]
         /\ extra' \subseteq Payment
         /\ \A j \in Invoice : /\ inv'[j].cycle = inv[j].cycle
                               /\ inv'[j].status = "none" => inv[j].status = "none"
<1>0. TypeOK
  BY DEF InvoicesInv
<1>1. pay'[p] = row /\ row # None /\ \A q \in Payment : q # p => pay'[q] = pay[q]
  BY <1>0, NoneAssumption DEF TypeOK
<1>2. pay' \in [Payment -> Txn \cup {None}]
  BY <1>0 DEF TypeOK
<1>3. inv[i].settling # p /\ p \notin extra /\ \A j \in Invoice : inv[j].settling # p
  <2>1. CASE ~Recorded(p)
    BY <2>1, Unnamed
  <2>2. CASE Recorded(p)
    <3>1. Placed(p) /\ pay[p].status = "pending"
      BY <2>2 DEF InvoicesInv, Accounted
    <3>2. ~Settles(p) /\ p \notin extra
      BY <3>1 DEF Placed
    <3>3. ASSUME NEW j \in Invoice, inv[j].settling = p
          PROVE  FALSE
      BY <2>2, <3>1, <3>2, <3>3, PaymentTypes DEF InvoicesInv, Accounted, PaidBy, Settles
    <3> QED
      BY <3>2, <3>3
  <2> QED
    BY <2>1, <2>2
<1>4. \A q \in Payment : Recorded(q) => pay[q].reverses # p
  <2>1. CASE ~Recorded(p)
    BY <2>1, Unnamed
  <2>2. CASE Recorded(p)
    BY <2>2, PaymentTypes DEF InvoicesInv, Accounted, Honest
  <2> QED
    BY <2>1, <2>2
<1>5. p # None
  BY NoneAssumption
<1>6. /\ inv' \in [Invoice -> Row] /\ Sent' = Sent /\ Stands
      /\ \A j \in Invoice : /\ inv'[j].cycle = inv[j].cycle
                            /\ inv'[j].status = "none" => inv[j].status = "none"
      /\ \A j \in Invoice : j # i => inv'[j] = inv[j]
      /\ \/ /\ inv[i].status = "open" /\ inv'[i].status = "paid" /\ inv'[i].settling = p
            /\ inv[i].settling = None /\ extra' = extra
         \/ /\ inv[i].status # "open" /\ inv' = inv /\ extra' = extra \cup {p}
            /\ Recorded(p)
  <2>1. CASE inv[i].status = "open" /\ extra' = extra
             /\ inv' = [inv EXCEPT ![i].status = "paid", ![i].settling = p]
    <3>1. /\ inv' \in [Invoice -> Row]
          /\ inv'[i].status = "paid" /\ inv'[i].settling = p
          /\ inv'[i].amount = inv[i].amount /\ inv'[i].number = inv[i].number
          /\ inv'[i].cycle = inv[i].cycle
          /\ \A j \in Invoice : j # i => inv'[j] = inv[j]
      BY <2>1, PaidRow DEF Status
    <3>2. Sent' = Sent
      BY <2>1, <3>1 DEF Sent
    <3>3. inv[i].settling = None
      BY <2>1 DEF InvoicesInv, Accounted
    <3>4. Stands
      BY <3>1, <3>2 DEF Stands, Sent
    <3> QED
      BY <2>1, <3>1, <3>2, <3>3, <3>4
  <2>2. CASE inv[i].status # "open" /\ inv' = inv /\ extra' = extra \cup {p}
    BY <1>0, <2>2 DEF Stands, Sent, TypeOK
  <2> QED
    BY <2>1, <2>2 DEF SettleInvoice
<1>7. Numbered'
  BY <1>6, NumberedKept
<1>8. Honest(p)' /\ Placed(p)'
  <2>1. Honest(p)'
    BY <1>1, <1>6 DEF Honest, Stands
  <2>2. Settles(p)' <=> inv'[i].settling = p
    BY <1>1 DEF Settles
  <2> QED
    BY <1>1, <1>3, <1>6, <2>1, <2>2 DEF Placed
<1>9. ASSUME NEW q \in Payment, q # p, Recorded(q)
      PROVE  Honest(q)' /\ (pay[q].via # "refund" => Placed(q)')
  <2>1. Honest(q) /\ (pay[q].via # "refund" => Placed(q))
    BY <1>9 DEF InvoicesInv, Accounted
  <2>2. pay'[q] = pay[q]
    BY <1>1, <1>9
  <2>3. pay[q].via = "refund" => pay'[pay[q].reverses] = pay[pay[q].reverses]
    <3> SUFFICES ASSUME pay[q].via = "refund" PROVE pay'[pay[q].reverses] = pay[pay[q].reverses]
      OBVIOUS
    <3>1. pay[q].reverses \in Payment /\ pay[q].reverses # p
      BY <1>4, <1>9, <2>1, PaymentTypes DEF Honest, Txn
    <3> QED
      BY <1>1, <3>1
  <2>4. Honest(q)'
    BY <1>6, <2>1, <2>2, <2>3 DEF Honest, Recorded, Stands
  <2>5. Settles(q)' <=> Settles(q)
    <3>1. pay[q].invoice \in Invoice /\ q # None
      BY <1>9, PaymentTypes
    <3> QED
      BY <1>6, <1>9, <2>2, <3>1 DEF Settles
  <2>6. q \in extra' <=> q \in extra
    BY <1>6, <1>9
  <2> QED
    BY <2>1, <2>2, <2>4, <2>5, <2>6 DEF Placed
<1>10. ASSUME NEW j \in Invoice, inv'[j].settling # None
       PROVE  PaidBy(j, inv[j].settling)'
  <2>1. CASE inv'[j].settling = p
    <3>1. j = i /\ inv'[i].status = "paid"
      BY <1>3, <1>6, <2>1
    <3> QED
      BY <1>1, <2>1, <3>1 DEF PaidBy, Recorded
  <2>2. CASE inv'[j].settling # p
    <3> DEFINE q == inv[j].settling
    <3>1. inv'[j] = inv[j]
      BY <1>6, <2>2
    <3>2. q # p /\ q \in Payment /\ PaidBy(j, q)
      BY <1>10, <2>2, <3>1, PaymentTypes DEF InvoicesInv, Accounted, Row
    <3>3. pay'[q] = pay[q]
      BY <1>1, <3>2
    <3>4. ASSUME NEW o \in Payment, Recorded(o), pay[o].reverses = q
          PROVE  pay'[o] = pay[o]
      <4>1. o # p
        <5> SUFFICES ASSUME o = p PROVE FALSE
          OBVIOUS
        <5>1. pay[p].via = "checkout" /\ Honest(p)
          BY <3>4 DEF InvoicesInv, Accounted
        <5> QED
          BY <1>10, <3>1, <3>4, <5>1 DEF Honest
      <4> QED
        BY <1>1, <4>1
    <3> QED
      BY <3>1, <3>2, <3>3, <3>4 DEF PaidBy, Recorded
  <2> QED
    BY <2>1, <2>2
<1>11. \A q, o \in Payment :
         Recorded(q)' /\ Recorded(o)' /\ pay'[q].reverses = pay'[o].reverses /\ pay'[q].reverses # None
           => q = o
  BY <1>1 DEF InvoicesInv, Accounted, Recorded
<1>12. \A q \in extra' : Recorded(q)' /\ pay'[q].via = "checkout"
  BY <1>0, <1>1, <1>3, <1>6 DEF InvoicesInv, Accounted, Recorded, TypeOK
<1>13. \A j \in Invoice : inv'[j].status \in {"paid", "refunded"} <=> inv'[j].settling # None
  BY <1>5, <1>6 DEF InvoicesInv, Accounted
<1>14. ASSUME NEW q \in Payment, Recorded(q)'
       PROVE  Honest(q)' /\ (pay'[q].via # "refund" => Placed(q)')
  BY <1>1, <1>8, <1>9, <1>14 DEF Recorded
<1>15. Accounted'
  BY <1>10, <1>11, <1>12, <1>13, <1>14 DEF Accounted
<1> QED
  BY <1>0, <1>2, <1>6, <1>7, <1>15 DEF TypeOK

\* The payment of an invoice is returned, once.
LEMMA RefundStep ==
  ASSUME InvoicesInv, NEW i \in Invoice, NEW p \in Payment, RefundInvoice(i, p)
  PROVE  /\ InvoicesInv' /\ Stands
         /\ \A j \in Invoice : /\ inv'[j].cycle = inv[j].cycle
                               /\ inv'[j].status = "none" => inv[j].status = "none"
<1>0. TypeOK
  BY DEF InvoicesInv
<1>s. PICK s \in Payment : s = inv[i].settling
  BY PaymentTypes DEF RefundInvoice, InvoicesInv, Accounted, Row
<1>1. /\ inv[i].status = "paid" /\ ~Recorded(p) /\ UNCHANGED <<counter, proc, extra>>
      /\ pay[s].via = "wallet"
  BY <1>s DEF RefundInvoice
<1>2. /\ s # None /\ s \in Payment /\ PaidBy(i, s) /\ Recorded(s)
      /\ pay[s] \in Txn /\ pay[s].status = "settled" /\ s # p
  BY <1>1, <1>s, PaymentTypes, NoneAssumption DEF InvoicesInv, Accounted, PaidBy
<1>3. /\ pay' \in [Payment -> Txn \cup {None}]
      /\ pay'[s] = [pay[s] EXCEPT !.status = "reversed"]
      /\ pay'[p] = [pay[s] EXCEPT !.via = "refund", !.reverses = s]
      /\ \A q \in Payment : q # s /\ q # p => pay'[q] = pay[q]
  <2>1. pay' = [pay EXCEPT ![s].status = "reversed",
                           ![p] = [pay[s] EXCEPT !.via = "refund", !.reverses = s]]
    BY <1>s DEF RefundInvoice
  <2>2. pay' = [pay EXCEPT ![s] = [pay[s] EXCEPT !.status = "reversed"],
                           ![p] = [pay[s] EXCEPT !.via = "refund", !.reverses = s]]
    BY <2>1
  <2>3. /\ [pay[s] EXCEPT !.status = "reversed"] \in Txn
        /\ [pay[s] EXCEPT !.via = "refund", !.reverses = s] \in Txn
    BY <1>2 DEF Txn
  <2> QED
    BY <1>0, <1>2, <2>2, <2>3 DEF TypeOK
<1>4. /\ pay'[s].status = "reversed" /\ pay'[s].via = "wallet" /\ pay'[s].invoice = i
      /\ pay'[s].amount = pay[s].amount /\ pay'[s].reverses = pay[s].reverses
      /\ pay'[p].status = "settled" /\ pay'[p].via = "refund" /\ pay'[p].reverses = s
      /\ pay'[p].invoice = i /\ pay'[p].amount = pay[s].amount
      /\ pay'[s] \in Txn /\ pay'[p] \in Txn
  BY <1>1, <1>2, <1>3 DEF Txn, PaidBy
<1>5. pay'[s] # None /\ pay'[p] # None /\ p # None
  BY <1>4, NoneAssumption
<1>6. /\ inv' \in [Invoice -> Row]
      /\ inv'[i].status = "refunded" /\ inv'[i].settling = s
      /\ inv'[i].amount = inv[i].amount /\ inv'[i].number = inv[i].number
      /\ inv'[i].cycle = inv[i].cycle
      /\ \A j \in Invoice : j # i => inv'[j] = inv[j]
  BY ZenonT(60), <1>2, <1>s, PaidRow DEF RefundInvoice, Status
<1>7. Sent' = Sent /\ i \in Sent
  BY <1>1, <1>6 DEF Sent
<1>8. Stands /\ Numbered'
  BY <1>1, <1>6, <1>7, NumberedKept DEF Stands, Sent
<1>9. Recorded(p)' /\ Recorded(s)' /\ \A q \in Payment : Recorded(q) => Recorded(q)'
  BY <1>2, <1>3, <1>5 DEF Recorded
<1>10. \A q \in Payment : Recorded(q) => pay[q].reverses \notin {p, s}
  <2>1. ASSUME NEW q \in Payment, Recorded(q), pay[q].reverses = s
        PROVE  FALSE
    BY <1>2, <2>1 DEF InvoicesInv, Accounted, Honest
  <2> QED
    BY <1>1, <2>1, Unnamed
<1>11. pay[s].reverses = None /\ Honest(s) /\ Placed(s) /\ s \notin extra
  <2>1. Honest(s) /\ Placed(s) /\ Settles(s)
    BY <1>1, <1>2, <1>s DEF InvoicesInv, Accounted, PaidBy, Settles
  <2> QED
    BY <1>1, <2>1 DEF Honest, Placed
<1>12. Honest(s)' /\ Honest(p)' /\ Placed(s)'
  <2>1. pay'[p].amount = inv'[i].amount /\ pay'[s].amount = inv'[i].amount
    BY <1>2, <1>4, <1>6, <1>11 DEF Honest, PaidBy
  <2>2. Honest(s)'
    BY <1>4, <1>7, <1>11, <2>1 DEF Honest
  <2>3. Honest(p)'
    BY <1>2, <1>4, <1>7, <1>9, <2>1 DEF Honest
  <2>4. Placed(s)'
    BY <1>1, <1>4, <1>6, <1>11 DEF Placed, Settles
  <2> QED
    BY <2>2, <2>3, <2>4
<1>13. ASSUME NEW q \in Payment, q # p, q # s, Recorded(q)
       PROVE  Honest(q)' /\ (pay[q].via # "refund" => Placed(q)')
  <2>1. Honest(q) /\ (pay[q].via # "refund" => Placed(q)) /\ pay'[q] = pay[q]
    BY <1>3, <1>13 DEF InvoicesInv, Accounted
  <2>2. pay[q].via = "refund" => pay'[pay[q].reverses] = pay[pay[q].reverses]
    <3> SUFFICES ASSUME pay[q].via = "refund" PROVE pay'[pay[q].reverses] = pay[pay[q].reverses]
      OBVIOUS
    <3>1. pay[q].reverses \in Payment /\ pay[q].reverses \notin {p, s}
      BY <1>10, <1>13, <2>1, PaymentTypes DEF Honest, Txn
    <3> QED
      BY <1>3, <3>1
  <2>3. Honest(q)'
    BY <1>7, <1>8, <1>9, <2>1, <2>2 DEF Honest, Stands, Recorded
  <2>4. Settles(q)' <=> Settles(q)
    BY <1>6, <1>13, <1>s, <2>1, PaymentTypes DEF Settles
  <2> QED
    BY <1>1, <2>1, <2>3, <2>4 DEF Placed
<1>14. ASSUME NEW q \in Payment, Recorded(q)'
       PROVE  Honest(q)' /\ (pay'[q].via # "refund" => Placed(q)')
  BY <1>3, <1>4, <1>12, <1>13, <1>14 DEF Recorded
<1>15. ASSUME NEW j \in Invoice
       PROVE  /\ inv'[j].status \in {"paid", "refunded"} <=> inv'[j].settling # None
              /\ inv'[j].settling # None => PaidBy(j, inv[j].settling)'
  <2>1. CASE j = i
    BY <1>2, <1>4, <1>6, <1>9, <1>s, <2>1 DEF PaidBy
  <2>2. CASE j # i
    <3> DEFINE q == inv[j].settling
    <3>1. inv'[j] = inv[j]
      BY <1>6, <2>2
    <3>2. inv[j].status \in {"paid", "refunded"} <=> q # None
      BY DEF InvoicesInv, Accounted
    <3>3. ASSUME q # None
          PROVE  PaidBy(j, inv[j].settling)'
      <4>1. PaidBy(j, q) /\ q \in Payment /\ q # s /\ q # p
        BY <1>1, <1>2, <1>s, <2>2, <3>3, PaymentTypes DEF InvoicesInv, Accounted, PaidBy, Row
      <4>2. pay'[q] = pay[q]
        BY <1>3, <4>1
      <4>3. ASSUME NEW o \in Payment, Recorded(o), pay[o].reverses = q
            PROVE  Recorded(o)' /\ pay'[o].reverses = q
        <5>1. o # s /\ o # p
          BY <1>1, <1>11, <3>3, <4>3
        <5> QED
          BY <1>3, <1>9, <4>3, <5>1
      <4> QED
        BY <1>9, <3>1, <4>1, <4>2, <4>3 DEF PaidBy
    <3> QED
      BY <3>1, <3>2, <3>3
  <2> QED
    BY <2>1, <2>2
<1>16. \A q, o \in Payment :
         Recorded(q)' /\ Recorded(o)' /\ pay'[q].reverses = pay'[o].reverses /\ pay'[q].reverses # None
           => q = o
  <2>1. ASSUME NEW q \in Payment, q # p, Recorded(q)', pay'[q].reverses # None
        PROVE  Recorded(q) /\ pay'[q].reverses = pay[q].reverses /\ pay'[q].reverses # s
    <3>1. q # s
      BY <1>4, <1>11, <2>1
    <3>2. pay'[q] = pay[q] /\ Recorded(q)
      BY <1>3, <2>1, <3>1 DEF Recorded
    <3> QED
      BY <1>10, <3>2
  <2> SUFFICES ASSUME NEW q \in Payment, NEW o \in Payment, Recorded(q)', Recorded(o)',
                      pay'[q].reverses = pay'[o].reverses, pay'[q].reverses # None
               PROVE  q = o
    OBVIOUS
  <2>2. CASE q = p
    BY <1>4, <2>1, <2>2
  <2>3. CASE o = p
    BY <1>4, <2>1, <2>3
  <2>4. CASE q # p /\ o # p
    BY <2>1, <2>4 DEF InvoicesInv, Accounted
  <2> QED
    BY <2>2, <2>3, <2>4
<1>17. \A q \in extra' : Recorded(q)' /\ pay'[q].via = "checkout"
  BY <1>0, <1>1, <1>3, <1>9, <1>11, Unnamed DEF InvoicesInv, Accounted, TypeOK
<1>18. Accounted'
  BY <1>14, <1>15, <1>16, <1>17 DEF Accounted
<1>19. TypeOK'
  BY <1>0, <1>1, <1>3, <1>6 DEF TypeOK
<1> QED
  BY <1>6, <1>8, <1>18, <1>19 DEF InvoicesInv

\* The issuer's steps rewrite one invoice's row.
LEMMA IssuerStep ==
  ASSUME InvoicesInv, NEW i \in Invoice, NEW m \in Amount,
         \/ CreateDraft(i, m) \/ CreateAndSend(i, m) \/ UpdateInvoice(i, m)
         \/ DeleteInvoice(i) \/ SendInvoice(i) \/ CancelInvoice(i)
  PROVE  /\ InvoicesInv' /\ Stands
         /\ \A j \in Invoice : /\ inv'[j].cycle = inv[j].cycle
                               /\ inv'[j].status = "none" => inv[j].status = "none"
<1>0. /\ inv[i] \in Row /\ inv \in [Invoice -> Row] /\ counter \in Nat
      /\ inv[i].amount \in Amount
  BY DEF InvoicesInv, TypeOK, Row
<1>n. PICK n \in Nat : n = counter + 1
  BY <1>0
<1>1. CASE CreateDraft(i, m)
  <2> DEFINE row == [inv[i] EXCEPT !.status = "draft", !.amount = m]
  <2>1. inv' = [inv EXCEPT ![i] = row]
    BY <1>0, <1>1 DEF CreateDraft
  <2>2. /\ row \in Row /\ row.settling = inv[i].settling /\ row.cycle = inv[i].cycle
        /\ row.status = "draft"
    BY <1>0 DEF Row, Status
  <2>3. inv[i].status = "none" /\ UNCHANGED <<counter, pay, proc, extra>>
    BY <1>1 DEF CreateDraft
  <2> HIDE DEF row
  <2> QED
    BY <2>1, <2>2, <2>3, RewriteStep
<1>2. CASE CreateAndSend(i, m)
  <2> DEFINE row == [inv[i] EXCEPT !.amount = m, !.status = "open", !.number = n]
  <2>1. inv' = [inv EXCEPT ![i] = row]
    <3>1. MarkSent([inv[i] EXCEPT !.amount = m], counter + 1) = row
      BY <1>0, <1>n DEF MarkSent, Row
    <3> QED
      BY <1>0, <1>2, <3>1 DEF CreateAndSend
  <2>2. /\ row \in Row /\ row.settling = inv[i].settling /\ row.cycle = inv[i].cycle
        /\ row.status = "open" /\ row.number = n
    BY <1>0 DEF Row, Status
  <2>3. inv[i].status = "none" /\ counter' = counter + 1 /\ UNCHANGED <<pay, proc, extra>>
    BY <1>2 DEF CreateAndSend
  <2> HIDE DEF row
  <2> QED
    BY <1>n, <2>1, <2>2, <2>3, RewriteStep
<1>3. CASE UpdateInvoice(i, m)
  <2> DEFINE row == [inv[i] EXCEPT !.amount = m]
  <2>1. inv' = [inv EXCEPT ![i] = row]
    BY <1>0, <1>3 DEF UpdateInvoice
  <2>2. inv[i].status = "draft" /\ UNCHANGED <<counter, pay, proc, extra>>
    BY <1>3 DEF UpdateInvoice, Editable
  <2>3. /\ row \in Row /\ row.settling = inv[i].settling /\ row.cycle = inv[i].cycle
        /\ row.status = "draft"
    BY <1>0, <2>2 DEF Row
  <2> HIDE DEF row
  <2> QED
    BY <2>1, <2>2, <2>3, RewriteStep
<1>4. CASE DeleteInvoice(i)
  <2> DEFINE row == [inv[i] EXCEPT !.status = "deleted"]
  <2>1. inv' = [inv EXCEPT ![i] = row]
    BY <1>0, <1>4 DEF DeleteInvoice
  <2>2. inv[i].status = "draft" /\ UNCHANGED <<counter, pay, proc, extra>>
    BY <1>4 DEF DeleteInvoice, Editable
  <2>3. /\ row \in Row /\ row.settling = inv[i].settling /\ row.cycle = inv[i].cycle
        /\ row.status = "deleted"
    BY <1>0 DEF Row, Status
  <2> HIDE DEF row
  <2> QED
    BY <2>1, <2>2, <2>3, RewriteStep
<1>5. CASE SendInvoice(i)
  <2> DEFINE row == [inv[i] EXCEPT !.status = "open", !.number = n]
  <2>1. inv' = [inv EXCEPT ![i] = row]
    BY <1>0, <1>5, <1>n DEF SendInvoice, MarkSent
  <2>2. /\ inv[i].status = "draft" /\ counter' = counter + 1
        /\ UNCHANGED <<pay, proc, extra>>
    BY <1>5 DEF SendInvoice, Editable
  <2>3. /\ row \in Row /\ row.settling = inv[i].settling /\ row.cycle = inv[i].cycle
        /\ row.status = "open" /\ row.number = n
    BY <1>0 DEF Row, Status
  <2> HIDE DEF row
  <2> QED
    BY <1>n, <2>1, <2>2, <2>3, RewriteStep
<1>6. CASE CancelInvoice(i)
  <2> DEFINE row == [inv[i] EXCEPT !.status = "cancelled"]
  <2>1. inv' = [inv EXCEPT ![i] = row]
    BY <1>0, <1>6 DEF CancelInvoice
  <2>2. inv[i].status = "open" /\ UNCHANGED <<counter, pay, proc, extra>>
    BY <1>6 DEF CancelInvoice
  <2>3. /\ row \in Row /\ row.settling = inv[i].settling /\ row.cycle = inv[i].cycle
        /\ row.status = "cancelled" /\ row.amount = inv[i].amount /\ row.number = inv[i].number
    BY <1>0 DEF Row, Status
  <2> HIDE DEF row
  <2> QED
    BY <2>1, <2>2, <2>3, RewriteStep
<1> QED
  BY <1>1, <1>2, <1>3, <1>4, <1>5, <1>6

\* A pay link's payment: begun, failed, or settled by the sync.
LEMMA CheckoutStep ==
  ASSUME InvoicesInv, NEW i \in Invoice, NEW p \in Payment,
         StartCheckout(p, i) \/ CreateCheckout(p) \/ FailCheckout(p) \/ PayAtCheckout(p)
           \/ SyncPayment(p)
  PROVE  /\ InvoicesInv' /\ Stands
         /\ \A j \in Invoice : /\ inv'[j].cycle = inv[j].cycle
                               /\ inv'[j].status = "none" => inv[j].status = "none"
<1>0. TypeOK /\ inv[i] \in Row /\ inv[i].amount \in Amount
  BY DEF InvoicesInv, TypeOK, Row
<1>u. inv' = inv => /\ Stands
                    /\ \A j \in Invoice : /\ inv'[j].cycle = inv[j].cycle
                                          /\ inv'[j].status = "none" => inv[j].status = "none"
  BY DEF Stands, Sent
<1>1. CASE StartCheckout(p, i)
  <2> DEFINE row == [invoice |-> i, amount |-> inv[i].amount, via |-> "checkout",
                     status |-> "pending", reverses |-> None]
  <2>1. /\ pay' = [pay EXCEPT ![p] = row] /\ ~Recorded(p) /\ inv[i].status = "open"
        /\ UNCHANGED <<inv, counter, proc, extra>>
    BY <1>1 DEF StartCheckout, NewPayment
  <2>2. /\ row \in Txn /\ row.via = "checkout" /\ row.reverses = None /\ row.invoice = i
        /\ row.amount = inv[i].amount /\ row.status = "pending" /\ i \in Sent
    BY <1>0, <2>1 DEF Txn, Sent
  <2> HIDE DEF row
  <2>3. Numbered' /\ Accounted' /\ pay' \in [Payment -> Txn \cup {None}]
    BY <2>1, <2>2, NoMoneyStep
  <2>4. TypeOK'
    BY <1>0, <2>1, <2>3 DEF TypeOK
  <2> QED
    BY <1>u, <2>1, <2>3, <2>4 DEF InvoicesInv
<1>2. CASE CreateCheckout(p) \/ PayAtCheckout(p)
  <2>1. UNCHANGED <<inv, counter, pay, extra>> /\ TypeOK'
    BY <1>0, <1>2 DEF CreateCheckout, PayAtCheckout, TypeOK
  <2>2. Numbered' /\ Accounted'
    BY <2>1 DEF InvoicesInv, Numbered, Accounted, Sent, Recorded, Honest, Placed, Settles, PaidBy
  <2> QED
    BY <1>u, <2>1, <2>2 DEF InvoicesInv
\* Whatever is pending is a checkout's payment, and its invoice was sent.
<1>3. ASSUME Recorded(p), pay[p].status = "pending"
      PROVE  /\ pay[p] \in Txn /\ pay[p].via = "checkout" /\ pay[p].reverses = None
             /\ pay[p].invoice \in Sent /\ pay[p].invoice \in Invoice
             /\ pay[p].amount = inv[pay[p].invoice].amount
  BY <1>3, PaymentTypes DEF InvoicesInv, Accounted, Honest
<1>4. ASSUME Recorded(p), pay[p].status = "pending", pay' = [pay EXCEPT ![p].status = "failed"],
             UNCHANGED <<inv, counter, proc, extra>>
      PROVE  InvoicesInv'
  <2> DEFINE row == [pay[p] EXCEPT !.status = "failed"]
  <2>1. pay' = [pay EXCEPT ![p] = row]
    BY <1>4
  <2>2. /\ row \in Txn /\ row.via = "checkout" /\ row.reverses = None
        /\ row.invoice = pay[p].invoice /\ row.amount = pay[p].amount /\ row.status = "failed"
    BY <1>3, <1>4 DEF Txn
  <2> HIDE DEF row
  <2>3. Numbered' /\ Accounted' /\ pay' \in [Payment -> Txn \cup {None}]
    BY <1>3, <1>4, <2>1, <2>2, NoMoneyStep
  <2>4. TypeOK'
    BY <1>0, <1>4, <2>3 DEF TypeOK
  <2> QED
    BY <2>3, <2>4 DEF InvoicesInv
<1>5. CASE FailCheckout(p)
  BY <1>4, <1>5, <1>u DEF FailCheckout, Unsent
<1>6. CASE SyncPayment(p)
  <2>1. Recorded(p) /\ pay[p].status = "pending" /\ UNCHANGED <<counter, proc>>
    BY <1>6 DEF SyncPayment
  <2>2. CASE pay' = [pay EXCEPT ![p].status = "failed"] /\ UNCHANGED <<inv, extra>>
    BY <1>4, <1>u, <2>1, <2>2
  <2>3. CASE pay' = [pay EXCEPT ![p].status = "settled"] /\ SettleInvoice(pay[p].invoice, p)
    <3> DEFINE row == [pay[p] EXCEPT !.status = "settled"]
    <3>1. pay' = [pay EXCEPT ![p] = row]
      BY <2>3
    <3>2. /\ row \in Txn /\ row.via = "checkout" /\ row.reverses = None
          /\ row.invoice = pay[p].invoice /\ row.amount = pay[p].amount /\ row.status = "settled"
      BY <1>3, <2>1 DEF Txn
    <3> HIDE DEF row
    <3>3. PICK j \in Invoice : j = pay[p].invoice
      BY <1>3, <2>1
    <3>4. /\ Numbered' /\ Accounted' /\ Stands
          /\ inv' \in [Invoice -> Row] /\ pay' \in [Payment -> Txn \cup {None}]
          /\ extra' \subseteq Payment
          /\ \A k \in Invoice : /\ inv'[k].cycle = inv[k].cycle
                                /\ inv'[k].status = "none" => inv[k].status = "none"
      BY <1>3, <2>1, <2>3, <3>1, <3>2, <3>3, MoneyStep
    <3>5. TypeOK'
      BY <1>0, <2>1, <3>4 DEF TypeOK
    <3> QED
      BY <3>4, <3>5 DEF InvoicesInv
  <2> QED
    BY <1>6, <2>2, <2>3 DEF SyncPayment
<1> QED
  BY <1>1, <1>2, <1>5, <1>6

\* An invoice that is paid from a wallet.
LEMMA WalletStep ==
  ASSUME InvoicesInv, NEW i \in Invoice, NEW p \in Payment, PayFromWallet(p, i)
  PROVE  /\ InvoicesInv' /\ Stands
         /\ \A j \in Invoice : /\ inv'[j].cycle = inv[j].cycle
                               /\ inv'[j].status = "none" => inv[j].status = "none"
<1>0. TypeOK /\ inv[i] \in Row /\ inv[i].amount \in Amount
  BY DEF InvoicesInv, TypeOK, Row
<1> DEFINE row == [invoice |-> i, amount |-> inv[i].amount, via |-> "wallet",
                   status |-> "settled", reverses |-> None]
<1>1. /\ pay' = [pay EXCEPT ![p] = row] /\ ~Recorded(p) /\ inv[i].status = "open"
      /\ SettleInvoice(i, p) /\ UNCHANGED <<counter, proc>>
  BY DEF PayFromWallet, NewPayment
<1>2. /\ row \in Txn /\ row.via = "wallet" /\ row.reverses = None /\ row.invoice = i
      /\ row.amount = inv[i].amount /\ row.status = "settled" /\ i \in Sent
  BY <1>0, <1>1 DEF Txn, Sent
<1> HIDE DEF row
<1>3. /\ Numbered' /\ Accounted' /\ Stands
      /\ inv' \in [Invoice -> Row] /\ pay' \in [Payment -> Txn \cup {None}]
      /\ extra' \subseteq Payment
      /\ \A k \in Invoice : /\ inv'[k].cycle = inv[k].cycle
                            /\ inv'[k].status = "none" => inv[k].status = "none"
  BY <1>1, <1>2, MoneyStep
<1>4. TypeOK'
  BY <1>0, <1>1, <1>3 DEF TypeOK
<1> QED
  BY <1>3, <1>4 DEF InvoicesInv

\* Every step about an invoice keeps the invariant, what was sent and whom it bills.
LEMMA InvoiceStep ==
  ASSUME InvoicesInv, InvoiceNext
  PROVE  /\ InvoicesInv' /\ Stands
         /\ \A j \in Invoice : /\ inv'[j].cycle = inv[j].cycle
                               /\ inv'[j].status = "none" => inv[j].status = "none"
<1>a. 1 \in Amount
  BY BoundAssumption DEF Amount
<1>1. CASE \E i \in Invoice, m \in Amount :
             CreateDraft(i, m) \/ CreateAndSend(i, m) \/ UpdateInvoice(i, m)
  BY <1>1, IssuerStep
<1>2. CASE \E i \in Invoice : DeleteInvoice(i) \/ SendInvoice(i) \/ CancelInvoice(i)
  BY <1>2, <1>a, IssuerStep
<1>3. CASE \E i \in Invoice, p \in Payment : RefundInvoice(i, p)
  BY <1>3, RefundStep
<1>4. CASE \E i \in Invoice, p \in Payment : PayInvoice(p, i) \/ PayLinkFromWallet(p, i)
  BY <1>4, WalletStep DEF PayInvoice, PayLinkFromWallet
<1>5. CASE \E i \in Invoice, p \in Payment : StartCheckout(p, i)
  BY <1>5, CheckoutStep
<1>6. ASSUME NEW p \in Payment,
             CreateCheckout(p) \/ FailCheckout(p) \/ PayAtCheckout(p) \/ SyncPayment(p)
               \/ SyncPayLink(p)
      PROVE  /\ InvoicesInv' /\ Stands
             /\ \A j \in Invoice : /\ inv'[j].cycle = inv[j].cycle
                                   /\ inv'[j].status = "none" => inv[j].status = "none"
  <2>1. CASE CreateCheckout(p) \/ PayAtCheckout(p)
    <3>1. UNCHANGED <<inv, counter, pay, extra>> /\ TypeOK'
      BY <2>1 DEF InvoicesInv, CreateCheckout, PayAtCheckout, TypeOK
    <3> QED
      BY <3>1 DEF InvoicesInv, Numbered, Accounted, Sent, Recorded, Honest, Placed, Settles,
                  PaidBy, Stands
  <2>2. CASE FailCheckout(p) \/ SyncPayment(p) \/ SyncPayLink(p)
    <3>1. pay[p].invoice \in Invoice
      BY <2>2, PaymentTypes DEF FailCheckout, Unsent, SyncPayment, SyncPayLink
    <3> QED
      BY <2>2, <3>1, CheckoutStep DEF SyncPayLink
  <2> QED
    BY <1>6, <2>1, <2>2
<1> QED
  BY <1>1, <1>2, <1>3, <1>4, <1>5, <1>6 DEF InvoiceNext

\* Billing in turn: a set of numbers that is not empty has a least one.
LEMMA LeastOf ==
  ASSUME NEW S \in SUBSET Nat, S # {}
  PROVE  \E m \in S : \A n \in S : m <= n
<1>1. IsWellFoundedOn(OpToRel(<, Nat), Nat)
  BY NatLessThanWellFounded
<1>2. PICK m \in S : \A n \in S : ~ (<<n, m>> \in OpToRel(<, Nat))
  BY <1>1, WFMin
<1>3. \A n \in S : ~ (n < m)
  BY <1>2 DEF OpToRel
<1> QED
  BY <1>3

LEMMA DatesGrow ==
  ASSUME NEW s \in Nat, NEW m \in Nat, NEW n \in Nat, m <= n
  PROVE  BillingDate(s, m) <= BillingDate(s, n) /\ BillingDate(s, n) \in Nat
<1>1. PICK d \in Nat : n = m + d
  <2>1. n - m \in Nat /\ n = m + (n - m)
    OBVIOUS
  <2> QED
    BY <2>1
<1>2. d * Period \in Nat /\ m * Period \in Nat /\ n * Period = m * Period + d * Period
  BY <1>1, PeriodAssumption
<1> QED
  BY <1>2 DEF BillingDate

\* What is due begins with the plan's next cycle and has no gaps.
LEMMA DueInTurn ==
  ASSUME NEW pl \in PlanRow, today \in Nat
  PROVE  \E k \in Nat : /\ DueCycles(pl) = pl.cycle .. pl.cycle + k - 1
                        /\ Cardinality(DueCycles(pl)) = k
<1>0. pl.cycle \in Nat /\ pl.start \in Nat /\ MaxCycles \in Nat \ {0}
  BY PeriodAssumption DEF PlanRow
<1> DEFINE later == {n \in Nat : /\ n >= pl.cycle
                                 /\ n = pl.cycle + MaxCycles \/ BillingDate(pl.start, n) > today}
<1>1. pl.cycle + MaxCycles \in later
  BY <1>0
<1>2. PICK m \in later : \A n \in later : m <= n
  BY <1>1, LeastOf
<1>3. m \in Nat /\ pl.cycle <= m /\ m <= pl.cycle + MaxCycles
  BY <1>1, <1>2
<1>4. ASSUME NEW n \in Nat, pl.cycle <= n, n < m
      PROVE  n \in DueCycles(pl)
  <2>1. n \notin later
    BY <1>2, <1>4
  <2>2. BillingDate(pl.start, n) \in Nat
    BY <1>0, PeriodAssumption DEF BillingDate
  <2> QED
    BY <1>0, <1>3, <1>4, <2>1, <2>2 DEF DueCycles
<1>5. ASSUME NEW n \in DueCycles(pl)
      PROVE  n < m
  <2>1. n \in Nat /\ n < pl.cycle + MaxCycles /\ BillingDate(pl.start, n) <= today
    BY <1>0 DEF DueCycles
  <2> SUFFICES ASSUME m <= n PROVE FALSE
    BY <1>3, <2>1
  <2>2. BillingDate(pl.start, m) > today
    BY <1>0, <1>2, <2>1
  <2>3. BillingDate(pl.start, m) <= BillingDate(pl.start, n) /\ BillingDate(pl.start, n) \in Nat
        /\ BillingDate(pl.start, m) \in Nat
    BY <1>0, <1>3, <2>1, DatesGrow
  <2> QED
    BY <2>1, <2>2, <2>3
<1>6. PICK k \in Nat : m = pl.cycle + k
  <2>1. m - pl.cycle \in Nat /\ m = pl.cycle + (m - pl.cycle)
    BY <1>0, <1>3
  <2> QED
    BY <2>1
<1>7. DueCycles(pl) = pl.cycle .. pl.cycle + k - 1
  BY <1>0, <1>4, <1>5, <1>6 DEF DueCycles
<1>8. Cardinality(pl.cycle .. pl.cycle + k - 1) = k
  <2>1. \A a, b \in Int : Cardinality(a .. b) = IF a > b THEN 0 ELSE b - a + 1
    BY FS_Interval
  <2>2. PICK a \in Int, b \in Int : a = pl.cycle /\ b = pl.cycle + k - 1
    BY <1>0
  <2>3. Cardinality(a .. b) = IF a > b THEN 0 ELSE b - a + 1
    BY <2>1
  <2>4. (IF a > b THEN 0 ELSE b - a + 1) = k
    BY <1>0, <2>2
  <2> QED
    BY <2>2, <2>3, <2>4
<1> QED
  BY <1>7, <1>8

\* A resumed plan goes on with a cycle whose day is not past.
LEMMA FirstFromIsNext ==
  ASSUME NEW pl \in PlanRow, today \in 0 .. MaxDay
  PROVE  /\ FirstFrom(pl) \in Nat /\ pl.cycle <= FirstFrom(pl)
         /\ BillingDate(pl.start, FirstFrom(pl)) >= today
<1>0. pl.cycle \in Nat /\ pl.start \in Nat /\ MaxDay \in Nat /\ today \in Nat
  BY PeriodAssumption DEF PlanRow
<1> DEFINE next == {n \in Nat : n >= pl.cycle /\ BillingDate(pl.start, n) >= today}
<1>1. pl.cycle + MaxDay \in next
  <2>1. (pl.cycle + MaxDay) * Period >= MaxDay
    <3>1. PICK d \in Nat : Period = 1 + d
      <4>1. Period - 1 \in Nat /\ Period = 1 + (Period - 1)
        BY PeriodAssumption
      <4> QED
        BY <4>1
    <3>2. PICK c \in Nat : c = pl.cycle + MaxDay
      BY <1>0
    <3>3. c * Period = c + c * d /\ c * d \in Nat
      BY <3>1
    <3> QED
      BY <1>0, <3>2, <3>3
  <2>2. (pl.cycle + MaxDay) * Period \in Nat
    BY <1>0, PeriodAssumption
  <2> QED
    BY <1>0, <2>1, <2>2 DEF BillingDate
<1>2. PICK m \in next : \A n \in next : m <= n
  BY <1>1, LeastOf
<1>3. m \in pl.cycle .. pl.cycle + MaxDay /\ m \in Nat
  BY <1>0, <1>1, <1>2
<1>4. ASSUME NEW o \in pl.cycle .. m - 1
      PROVE  BillingDate(pl.start, o) < today
  <2>1. o \in Nat /\ o >= pl.cycle /\ o < m
    BY <1>0, <1>3
  <2>2. BillingDate(pl.start, o) \in Nat
    BY <1>0, <2>1, DatesGrow
  <2>3. o \notin next
    BY <1>2, <2>1
  <2> QED
    BY <1>0, <2>1, <2>2, <2>3
<1>5. BillingDate(pl.start, m) >= today
  BY <1>2
<1> DEFINE First(n) == /\ BillingDate(pl.start, n) >= today
                       /\ \A o \in pl.cycle .. n - 1 : BillingDate(pl.start, o) < today
<1>6. \E n \in pl.cycle .. pl.cycle + MaxDay : First(n)
  BY <1>3, <1>4, <1>5
<1>7. FirstFrom(pl) = CHOOSE n \in pl.cycle .. pl.cycle + MaxDay : First(n)
  BY DEF FirstFrom
<1>8. FirstFrom(pl) \in pl.cycle .. pl.cycle + MaxDay /\ First(FirstFrom(pl))
  <2> HIDE DEF First
  <2> QED
    BY <1>6, <1>7
<1> QED
  BY <1>0, <1>8

\* What is due is billed: an invoice for each cycle, with the next numbers.
LEMMA BillStep ==
  ASSUME InvoicesInv, NEW pl \in PlanRow, pl.status = "active", Cycles(pl), today \in Nat,
         UNCHANGED <<pay, proc, extra, today, off>>, BillDueCycles(pl)
  PROVE  /\ InvoicesInv' /\ Stands /\ plan' \in PlanRow /\ Cycles(plan)'
         /\ plan'.status = "active" /\ plan'.start = pl.start
         /\ \A i \in Invoice : inv'[i].cycle # inv[i].cycle =>
              BillingDate(pl.start, inv'[i].cycle) \notin off
<1>0. /\ TypeOK /\ counter \in Nat /\ pl.cycle \in Nat /\ pl.amount \in Amount /\ pl.start \in Nat
      /\ Amount \subseteq Nat
  BY BoundAssumption, PeriodAssumption DEF InvoicesInv, TypeOK, PlanRow, Amount
<1>1. PICK k \in Nat : /\ DueCycles(pl) = pl.cycle .. pl.cycle + k - 1
                       /\ Cardinality(DueCycles(pl)) = k
  BY DueInTurn
<1> DEFINE D == DueCycles(pl)
<1>3. /\ D = pl.cycle .. pl.cycle + k - 1 /\ D \subseteq Nat
      /\ \A n \in D : n >= pl.cycle /\ n < pl.cycle + k /\ BillingDate(pl.start, n) <= today
  BY <1>0, <1>1 DEF DueCycles
<1>4. PICK at \in [D -> {i \in Invoice : inv[i].status = "none"}] :
        /\ \A n, o \in D : at[n] = at[o] => n = o
        /\ inv' = [i \in Invoice |->
             IF \E n \in D : at[n] = i
             THEN LET n == CHOOSE n \in D : at[n] = i IN
                  MarkSent([inv[i] EXCEPT !.amount = pl.amount, !.cycle = n],
                           counter + 1 + n - pl.cycle)
             ELSE inv[i]]
        /\ counter' = counter + Cardinality(D)
        /\ plan' = [pl EXCEPT !.cycle = @ + Cardinality(D), !.error = IF D = {} THEN @ ELSE FALSE]
  BY DEF BillDueCycles
<1>5. ASSUME NEW n \in D
      PROVE  /\ at[n] \in Invoice /\ inv[at[n]].status = "none" /\ inv'[at[n]] \in Row
             /\ inv'[at[n]].status = "open" /\ inv'[at[n]].cycle = n
             /\ inv'[at[n]].number = counter + 1 + n - pl.cycle
             /\ inv'[at[n]].settling = inv[at[n]].settling
  <2>1. PICK i \in Invoice : i = at[n]
    BY <1>4
  <2>2. inv[i].status = "none" /\ inv[i] \in Row /\ \E o \in D : at[o] = i
    BY <1>0, <1>4, <2>1 DEF TypeOK
  <2>3. (CHOOSE o \in D : at[o] = i) = n
    BY <1>4, <2>1, <2>2
  <2>4. PICK m \in Nat : m = counter + 1 + n - pl.cycle
    <3>1. counter + 1 + n - pl.cycle \in Nat
      BY <1>0, <1>3
    <3> QED
      BY <3>1
  <2>5. inv'[i] = MarkSent([inv[i] EXCEPT !.amount = pl.amount, !.cycle = n], m)
    BY <1>4, <2>2, <2>3, <2>4
  <2>6. inv'[i] = [inv[i] EXCEPT !.amount = pl.amount, !.cycle = n, !.status = "open", !.number = m]
    BY <2>5 DEF MarkSent
  <2>7. n \in Nat /\ pl.amount \in Amount
    BY <1>0, <1>3
  <2>8. /\ inv'[i] \in Row /\ inv'[i].status = "open" /\ inv'[i].cycle = n /\ inv'[i].number = m
        /\ inv'[i].settling = inv[i].settling
    BY <2>2, <2>6, <2>7 DEF Row, Status
  <2> QED
    BY <2>1, <2>2, <2>4, <2>8
<1>6. PICK new \in SUBSET Invoice : new = {at[n] : n \in D}
  BY ZenonT(60), <1>5
<1>7. \A i \in Invoice : i \notin new => inv'[i] = inv[i]
  BY <1>4, <1>6
<1>8. Sent' = Sent \cup new /\ Sent \cap new = {}
  BY <1>5, <1>6, <1>7 DEF Sent
<1>9. Stands
  BY <1>7, <1>8 DEF Stands, Sent
<1>10. Numbered'
  <2>1. \A i \in Sent : inv'[i].number = inv[i].number
    BY <1>9 DEF Stands
  <2>2. ASSUME NEW i \in new
        PROVE  inv'[i].number \in counter + 1 .. counter + k
    BY <1>0, <1>3, <1>5, <1>6
  <2>3. ASSUME NEW i \in new, NEW j \in new, inv'[i].number = inv'[j].number
        PROVE  i = j
    <3>1. PICK n \in D, o \in D : i = at[n] /\ j = at[o]
      BY <1>6
    <3>2. counter + 1 + n - pl.cycle = counter + 1 + o - pl.cycle /\ n \in Nat /\ o \in Nat
      BY <1>3, <1>5, <2>3, <3>1
    <3>3. n = o
      BY <1>0, <3>2
    <3> QED
      BY <3>1, <3>3
  <2>4. ASSUME NEW m \in counter + 1 .. counter + k
        PROVE  \E i \in new : inv'[i].number = m
    <3>1. PICK n \in D : m = counter + 1 + n - pl.cycle
      <4>1. /\ m - counter - 1 + pl.cycle \in D
            /\ m = counter + 1 + (m - counter - 1 + pl.cycle) - pl.cycle
        BY <1>0, <1>3
      <4> QED
        BY <4>1
    <3> QED
      BY <1>5, <1>6, <3>1
  <2> QED
    BY <1>1, <1>4, <1>8, <2>1, <2>2, <2>3, <2>4, NumberedGrows
<1>11. Accounted'
  <2>1. ASSUME NEW i \in Invoice
        PROVE  /\ inv'[i].settling = inv[i].settling
               /\ inv[i].status \in {"paid", "refunded"} \/ inv'[i].status \in {"paid", "refunded"}
                    => inv'[i].status = inv[i].status
    BY <1>5, <1>6, <1>7
  <2> QED
    BY <1>9, <2>1, PaperStep
<1>12. TypeOK'
  <2>1. \A i \in Invoice : inv'[i] \in Row
    BY <1>0, <1>5, <1>6, <1>7 DEF TypeOK
  <2>2. inv' \in [Invoice -> Row]
    BY <1>4, <2>1
  <2>3. counter' \in Nat
    <3>1. counter' = counter + k
      BY <1>1, <1>4
    <3> QED
      BY <1>0, <3>1
  <2> QED
    BY <1>0, <2>2, <2>3 DEF TypeOK
<1>13. /\ plan' \in PlanRow /\ plan'.status = "active" /\ plan'.start = pl.start
       /\ plan'.cycle = pl.cycle + k
  <2>1. PICK c \in Nat : c = pl.cycle + k
    BY <1>0
  <2>2. PICK e \in BOOLEAN : plan' = [pl EXCEPT !.cycle = c, !.error = e]
    BY <1>1, <1>4, <2>1 DEF PlanRow
  <2> QED
    BY <2>1, <2>2 DEF PlanRow
<1>14. \A i \in Invoice : inv[i].status = "none" => inv[i].cycle = None
  BY DEF Cycles
<1>15. \A i \in Invoice : inv[i].cycle # None =>
         inv[i].cycle \in Nat /\ inv[i].cycle < pl.cycle
           /\ BillingDate(pl.start, inv[i].cycle) <= today
  BY <1>0 DEF Cycles, TypeOK, Row
<1>16. ASSUME NEW i \in Invoice, inv'[i].cycle # None
       PROVE  /\ inv'[i].cycle \in Nat /\ inv'[i].cycle < pl.cycle + k
              /\ BillingDate(pl.start, inv'[i].cycle) <= today
              /\ inv'[i].cycle >= pl.cycle <=> i \in new
  <2>1. CASE i \in new
    BY <1>3, <1>5, <1>6, <2>1
  <2>2. CASE i \notin new
    BY <1>0, <1>7, <1>15, <1>16, <2>2
  <2> QED
    BY <2>1, <2>2
<1>17. ASSUME NEW i \in Invoice, NEW j \in Invoice, inv'[i].cycle # None,
              inv'[i].cycle = inv'[j].cycle
       PROVE  i = j
  <2>1. i \in new <=> j \in new
    BY <1>16, <1>17
  <2>2. CASE i \in new /\ j \in new
    BY <1>5, <1>6, <1>17, <2>2
  <2>3. CASE i \notin new /\ j \notin new
    BY <1>7, <1>17, <2>3 DEF Cycles
  <2> QED
    BY <2>1, <2>2, <2>3
<1>18. \A n \in Nat : n >= pl.cycle => BillingDate(pl.start, n) \notin off
  BY DEF Cycles
<1>19. Cycles(plan)'
  <2>1. \A i \in Invoice : inv'[i].status = "none" => inv'[i].cycle = None
    BY <1>5, <1>6, <1>7, <1>14
  <2>2. \A d \in off : d < today
    BY DEF Cycles
  <2>3. \A n \in Nat : n >= plan'.cycle => BillingDate(plan'.start, n) \notin off
    BY <1>0, <1>13, <1>18
  <2>4. \A i \in Invoice : inv'[i].cycle # None =>
          inv'[i].cycle < plan'.cycle /\ BillingDate(plan'.start, inv'[i].cycle) <= today
    BY <1>13, <1>16
  <2>5. today' = today /\ off' = off /\ plan'.status = "active"
    BY <1>13
  <2>6. \A s, n : BillingDate(s, n)' = BillingDate(s, n)
    BY DEF BillingDate
  <2> QED
    BY <1>17, <2>1, <2>2, <2>3, <2>4, <2>5 DEF Cycles, BillingDate
<1>20. ASSUME NEW i \in Invoice, inv'[i].cycle # inv[i].cycle
       PROVE  BillingDate(pl.start, inv'[i].cycle) \notin off
  <2>1. i \in new
    BY <1>7, <1>20
  <2> QED
    BY <1>3, <1>5, <1>6, <1>18, <2>1
<1> QED
  BY <1>9, <1>10, <1>11, <1>12, <1>13, <1>19, <1>20 DEF InvoicesInv

\* There are as many sent invoices as numbers given.
NoGaps == {inv[i].number : i \in Sent} = 1 .. Cardinality(Sent)

LEMMA NumbersCount == InvoicesInv => NoGaps
<1> SUFFICES ASSUME InvoicesInv PROVE NoGaps
  OBVIOUS
<1>1. counter \in Nat /\ Numbered
  BY DEF InvoicesInv, TypeOK
<1> DEFINE f == [n \in 1 .. counter |-> CHOOSE i \in Sent : inv[i].number = n]
<1>2. \A n \in 1 .. counter : f[n] \in Sent /\ inv[f[n]].number = n
  BY <1>1 DEF Numbered
<1>3. \A i \in Sent : inv[i].number \in 1 .. counter /\ f[inv[i].number] = i
  BY <1>1, <1>2 DEF Numbered
<1>4. f \in [1 .. counter -> Sent]
  BY <1>2
<1> HIDE DEF f
<1>5. f \in Bijection(1 .. counter, Sent)
  BY <1>2, <1>3, <1>4 DEF Bijection, Injection, Surjection, IsInjective
<1>6. Cardinality(Sent) = counter
  BY <1>1, <1>5, FS_CountingElements DEF ExistsBijection
<1> QED
  BY <1>1, <1>6 DEF Numbered, NoGaps

\* A new plan bills what is due of it at once.
LEMMA CreatePlanStep ==
  ASSUME Inv, NEW s \in 0 .. MaxDay, NEW m \in Amount, CreatePlan(s, m)
  PROVE  /\ Inv' /\ Stands
         /\ \A i \in Invoice : inv'[i].cycle # inv[i].cycle =>
              plan'.status = "active" /\ BillingDate(plan'.start, inv'[i].cycle) \notin off
<1>1. PICK pl \in PlanRow :
        pl = [status |-> "active", start |-> s, cycle |-> 0, amount |-> m, error |-> FALSE]
  BY DEF PlanRow
<1>2. /\ InvoicesInv /\ PlanTypeOK /\ Cycles(plan) /\ plan.status = "none" /\ today \in Nat
      /\ BillDueCycles(pl) /\ UNCHANGED <<pay, proc, extra, today, job, off>>
  BY <1>1, PeriodAssumption DEF Inv, CreatePlan, PlanTypeOK
<1>3. Cycles(pl)
  BY <1>1, <1>2 DEF Cycles
<1>4. /\ InvoicesInv' /\ Stands /\ plan' \in PlanRow /\ Cycles(plan)'
      /\ plan'.status = "active" /\ plan'.start = pl.start
      /\ \A i \in Invoice : inv'[i].cycle # inv[i].cycle =>
           BillingDate(pl.start, inv'[i].cycle) \notin off
  BY <1>1, <1>2, <1>3, BillStep
<1>5. PlanTypeOK'
  BY <1>2, <1>4 DEF PlanTypeOK, InvoicesInv
<1> QED
  BY <1>4, <1>5 DEF Inv

\* The worker bills the plan that it sees under the lock.
LEMMA BillPlanStep ==
  ASSUME Inv, BillPlan
  PROVE  /\ Inv' /\ Stands
         /\ \A i \in Invoice : inv'[i].cycle # inv[i].cycle =>
              plan'.status = "active" /\ BillingDate(plan'.start, inv'[i].cycle) \notin off
<1>1. /\ InvoicesInv /\ PlanTypeOK /\ Cycles(plan) /\ today \in Nat /\ plan \in PlanRow
      /\ UNCHANGED <<pay, proc, extra, today, off>> /\ job' = "idle"
  BY PeriodAssumption DEF Inv, BillPlan, PlanTypeOK
<1>2. CASE plan.status = "active" /\ BillDueCycles(plan)
  <2>1. PICK pl \in PlanRow : pl = plan
    BY <1>1
  <2>2. Cycles(pl) /\ BillDueCycles(pl) /\ pl.status = "active"
    BY <1>1, <1>2, <2>1
  <2>3. /\ InvoicesInv' /\ Stands /\ plan' \in PlanRow /\ Cycles(plan)'
        /\ plan'.status = "active" /\ plan'.start = pl.start
        /\ \A i \in Invoice : inv'[i].cycle # inv[i].cycle =>
             BillingDate(pl.start, inv'[i].cycle) \notin off
    BY <1>1, <2>2, BillStep
  <2>4. PlanTypeOK'
    BY <1>1, <2>3 DEF PlanTypeOK, InvoicesInv
  <2> QED
    BY <2>3, <2>4 DEF Inv
<1>3. CASE UNCHANGED <<inv, counter, plan>>
  <2>1. UNCHANGED billing /\ PlanTypeOK'
    BY <1>1, <1>3 DEF billing, PlanTypeOK, TypeOK
  <2>2. InvoicesInv' /\ Stands
    BY <1>1, <2>1 DEF billing, InvoicesInv, TypeOK, Numbered, Accounted, Sent, Recorded, Honest,
                      Placed, Settles, PaidBy, Stands
  <2>3. Cycles(plan)'
    BY <1>1, <1>3 DEF Cycles, BillingDate
  <2> QED
    BY <1>3, <2>1, <2>2, <2>3 DEF Inv
<1> QED
  BY <1>2, <1>3 DEF BillPlan

\* A resumed plan bills from the first cycle whose day is not past.
LEMMA ResumePlanStep ==
  ASSUME Inv, ResumePlan
  PROVE  /\ Inv' /\ Stands
         /\ \A i \in Invoice : inv'[i].cycle # inv[i].cycle =>
              plan'.status = "active" /\ BillingDate(plan'.start, inv'[i].cycle) \notin off
<1>1. /\ InvoicesInv /\ PlanTypeOK /\ Cycles(plan) /\ today \in 0 .. MaxDay /\ today \in Nat
      /\ plan \in PlanRow /\ plan.cycle \in Nat /\ plan.start \in Nat /\ off \subseteq Nat
      /\ UNCHANGED <<pay, proc, extra, today, job, off>>
  BY PeriodAssumption DEF Inv, ResumePlan, PlanTypeOK, PlanRow
<1>2. PICK first \in Nat : /\ first = FirstFrom(plan) /\ plan.cycle <= first
                           /\ BillingDate(plan.start, first) >= today
  BY <1>1, FirstFromIsNext
<1>3. PICK pl \in PlanRow : pl = [plan EXCEPT !.status = "active", !.cycle = first]
  BY <1>1, <1>2 DEF PlanRow
<1>4. BillDueCycles(pl)
  BY <1>2, <1>3 DEF ResumePlan
<1>5. pl.status = "active" /\ pl.cycle = first /\ pl.start = plan.start
  BY <1>1, <1>3 DEF PlanRow
<1>6. Cycles(pl)
  <2>1. \A i \in Invoice : inv[i].cycle # None =>
          inv[i].cycle \in Nat /\ inv[i].cycle < plan.cycle
            /\ BillingDate(pl.start, inv[i].cycle) <= today
    BY <1>1, <1>5 DEF Cycles, InvoicesInv, TypeOK, Row
  <2>2. \A i \in Invoice : inv[i].cycle # None =>
          inv[i].cycle < pl.cycle /\ BillingDate(pl.start, inv[i].cycle) <= today
    BY <1>1, <1>2, <1>5, <2>1
  <2>3. ASSUME NEW n \in Nat, n >= pl.cycle
        PROVE  BillingDate(pl.start, n) \notin off
    <3>1. /\ BillingDate(plan.start, first) <= BillingDate(plan.start, n)
          /\ BillingDate(plan.start, n) \in Nat
      BY <1>1, <1>2, <1>5, <2>3, DatesGrow
    <3>2. BillingDate(plan.start, first) \in Nat
      BY <1>1, <1>2, PeriodAssumption DEF BillingDate
    <3>3. BillingDate(plan.start, n) >= today
      BY <1>1, <1>2, <3>1, <3>2
    <3>4. \A d \in off : d < today
      BY <1>1 DEF Cycles
    <3> QED
      BY <1>1, <1>5, <3>1, <3>3, <3>4
  <2>4. /\ \A i \in Invoice : inv[i].status = "none" => inv[i].cycle = None
        /\ \A i, j \in Invoice : inv[i].cycle # None /\ inv[i].cycle = inv[j].cycle => i = j
        /\ \A d \in off : d < today
    BY <1>1 DEF Cycles
  <2> QED
    BY <1>5, <2>2, <2>3, <2>4 DEF Cycles
<1>7. /\ InvoicesInv' /\ Stands /\ plan' \in PlanRow /\ Cycles(plan)'
      /\ plan'.status = "active" /\ plan'.start = pl.start
      /\ \A i \in Invoice : inv'[i].cycle # inv[i].cycle =>
           BillingDate(pl.start, inv'[i].cycle) \notin off
  BY <1>1, <1>4, <1>5, <1>6, BillStep
<1>8. PlanTypeOK'
  BY <1>1, <1>7 DEF PlanTypeOK, InvoicesInv
<1> QED
  BY <1>7, <1>8 DEF Inv

LEMMA NextStep ==
  ASSUME Inv, [Next]_vars
  PROVE  /\ Inv' /\ Stands
         /\ \A i \in Invoice : inv'[i].cycle # inv[i].cycle =>
              plan'.status = "active" /\ BillingDate(plan'.start, inv'[i].cycle) \notin off
<1>0. /\ InvoicesInv /\ PlanTypeOK /\ TypeOK /\ Cycles(plan) /\ plan \in PlanRow
      /\ today \in 0 .. MaxDay /\ off \subseteq 0 .. MaxDay
  BY DEF Inv, PlanTypeOK
\* A step that is not about invoices.
<1>1. ASSUME UNCHANGED billing, PlanTypeOK', Cycles(plan)'
      PROVE  /\ Inv' /\ Stands
             /\ \A i \in Invoice : inv'[i].cycle # inv[i].cycle =>
                  plan'.status = "active" /\ BillingDate(plan'.start, inv'[i].cycle) \notin off
  <2>1. InvoicesInv' /\ Stands
    BY <1>0, <1>1 DEF billing, InvoicesInv, TypeOK, Numbered, Accounted, Sent, Recorded, Honest,
                      Placed, Settles, PaidBy, Stands
  <2> QED
    BY <1>1, <2>1 DEF Inv, billing
<1>2. CASE InvoiceNext /\ UNCHANGED recurring
  <2>1. /\ InvoicesInv' /\ Stands
        /\ \A j \in Invoice : /\ inv'[j].cycle = inv[j].cycle
                              /\ inv'[j].status = "none" => inv[j].status = "none"
    BY <1>0, <1>2, InvoiceStep
  <2>2. PlanTypeOK'
    BY <1>0, <1>2, <2>1 DEF PlanTypeOK, InvoicesInv, recurring
  <2>3. Cycles(plan)'
    BY <1>0, <1>2, <2>1 DEF Cycles, BillingDate, recurring
  <2> QED
    BY <2>1, <2>2, <2>3 DEF Inv
<1>3. CASE \E s \in 0 .. MaxDay, m \in Amount : CreatePlan(s, m)
  BY <1>3, CreatePlanStep
<1>4. ASSUME NEW m \in Amount, UpdatePlan(m)
      PROVE  PlanTypeOK' /\ Cycles(plan)' /\ UNCHANGED billing
  <2>1. /\ plan' \in PlanRow /\ plan'.status = plan.status /\ plan'.cycle = plan.cycle
        /\ plan'.start = plan.start /\ UNCHANGED <<billing, today, job, off>>
    BY <1>0, <1>4 DEF UpdatePlan, PlanRow
  <2> QED
    BY <1>0, <2>1 DEF PlanTypeOK, TypeOK, Cycles, BillingDate, billing
<1>5. CASE PickPlan \/ BillPlanFails
  <2>1. PlanTypeOK' /\ Cycles(plan)' /\ UNCHANGED billing
    BY <1>0, <1>5 DEF PickPlan, BillPlanFails, PlanTypeOK, TypeOK, Cycles, BillingDate, billing
  <2> QED
    BY <1>1, <2>1
<1>6. CASE BillPlan
  BY <1>6, BillPlanStep
<1>7. CASE RecordError
  <2>1. /\ plan' \in PlanRow /\ plan'.status = plan.status /\ plan'.cycle = plan.cycle
        /\ plan'.start = plan.start /\ UNCHANGED <<billing, today, off>> /\ job' = "idle"
    BY <1>0, <1>7 DEF RecordError, PlanRow
  <2>2. PlanTypeOK' /\ Cycles(plan)' /\ UNCHANGED billing
    BY <1>0, <2>1 DEF PlanTypeOK, TypeOK, Cycles, BillingDate, billing
  <2> QED
    BY <1>1, <2>2
<1>8. CASE PausePlan \/ CancelPlan
  <2>1. /\ plan' \in PlanRow /\ plan'.status \in {"paused", "cancelled"}
        /\ plan'.cycle = plan.cycle /\ plan'.start = plan.start
        /\ UNCHANGED <<billing, today, job, off>>
    BY <1>0, <1>8 DEF PausePlan, CancelPlan, PlanRow
  <2>2. PlanTypeOK' /\ Cycles(plan)' /\ UNCHANGED billing
    BY <1>0, <2>1 DEF PlanTypeOK, TypeOK, Cycles, BillingDate, billing
  <2> QED
    BY <1>1, <2>2
<1>9. CASE ResumePlan
  BY <1>9, ResumePlanStep
<1>10. CASE NextDay
  <2>1. /\ today' = today + 1 /\ today < MaxDay /\ UNCHANGED <<billing, plan, job>>
        /\ off' = IF plan.status = "paused" THEN off \cup {today} ELSE off
    BY <1>10 DEF NextDay
  <2>2. PlanTypeOK'
    BY <1>0, <2>1, PeriodAssumption DEF PlanTypeOK, TypeOK, billing
  <2>3. \A d \in off' : d < today'
    BY <1>0, <2>1, PeriodAssumption DEF Cycles
  <2>4. \A i \in Invoice : inv[i].cycle # None =>
          inv[i].cycle < plan.cycle /\ BillingDate(plan.start, inv[i].cycle) <= today'
    <3> SUFFICES ASSUME NEW i \in Invoice, inv[i].cycle # None
                 PROVE  inv[i].cycle < plan.cycle /\ BillingDate(plan.start, inv[i].cycle) <= today'
      OBVIOUS
    <3>1. inv[i].cycle < plan.cycle /\ BillingDate(plan.start, inv[i].cycle) <= today
      BY <1>0 DEF Cycles
    <3>2. BillingDate(plan.start, inv[i].cycle) \in Nat
      <4>1. PICK s \in Nat, n \in Nat : s = plan.start /\ n = inv[i].cycle
        BY <1>0, PeriodAssumption DEF TypeOK, Row, PlanRow
      <4> QED
        BY <4>1, PeriodAssumption DEF BillingDate
    <3> QED
      BY <1>0, <2>1, <3>1, <3>2, PeriodAssumption
  <2>5. inv' = inv /\ plan' = plan
    BY <2>1 DEF billing
  <2>6. Cycles(plan)'
    BY <1>0, <2>1, <2>3, <2>4, <2>5 DEF Cycles, BillingDate
  <2> QED
    BY <1>1, <2>1, <2>2, <2>6
<1>11. CASE UNCHANGED vars
  <2>1. PlanTypeOK' /\ Cycles(plan)' /\ UNCHANGED billing
    BY <1>0, <1>11 DEF vars, PlanTypeOK, TypeOK, Cycles, BillingDate, billing
  <2> QED
    BY <1>1, <2>1
<1> QED
  BY <1>1, <1>2, <1>3, <1>4, <1>5, <1>6, <1>7, <1>8, <1>9, <1>10, <1>11 DEF Next, PlanNext

\* The invariant holds of every state that can be reached.
THEOREM InvCorrect == Spec => []Inv
<1>1. Inv /\ [Next]_vars => Inv'
  BY NextStep
<1> QED
  BY InitInv, <1>1, PTL DEF Spec

\* NoPaymentForgotten: every payment that arrived paid its invoice in full or
\* was reported to the issuer, never both, and a refund gives it back once
\* (settleInvoice, refundInvoice, syncCardPayment).
THEOREM PaymentsAccountedFor == Spec => []NoPaymentForgotten
<1>1. Inv => NoPaymentForgotten
  <2> SUFFICES ASSUME InvoicesInv PROVE NoPaymentForgotten
    BY DEF Inv
  <2>1. ASSUME NEW p \in Payment, Recorded(p), pay[p].via # "refund"
        PROVE  LET settles == inv[pay[p].invoice].settling = p IN
               /\ pay[p].status \in {"settled", "reversed"} <=> settles \/ p \in extra
               /\ ~(settles /\ p \in extra)
               /\ p \in extra => pay[p].via = "checkout"
    BY <2>1 DEF InvoicesInv, Accounted, Placed, Settles
  <2>2. ASSUME NEW i \in Invoice, NEW p \in Payment, p = inv[i].settling
        PROVE  /\ pay[p].invoice = i /\ pay[p].amount = inv[i].amount
               /\ pay[p].status = (IF inv[i].status = "paid" THEN "settled" ELSE "reversed")
               /\ Cardinality({q \in Payment : Recorded(q) /\ pay[q].reverses = p})
                    = (IF inv[i].status = "paid" THEN 0 ELSE 1)
               /\ \A q \in {q \in Payment : Recorded(q) /\ pay[q].reverses = p} :
                    pay[q].amount = inv[i].amount /\ pay[p].via = "wallet"
    <3> DEFINE refunds == {q \in Payment : Recorded(q) /\ pay[q].reverses = p}
    <3>1. p # None
      BY NoneAssumption
    <3>2. /\ PaidBy(i, p) /\ Honest(p) /\ inv[i].status \in {"paid", "refunded"}
          /\ pay[p].amount = inv[i].amount
      BY <2>2, <3>1 DEF InvoicesInv, Accounted, PaidBy, Honest
    <3>3. ASSUME NEW q \in refunds
          PROVE  /\ pay[p].status = "reversed" /\ pay[p].via = "wallet"
                 /\ pay[q].amount = inv[i].amount
      <4>1. Honest(q) /\ Recorded(q) /\ pay[q].reverses = p
        BY DEF InvoicesInv, Accounted
      <4>2. pay[p].status = "reversed" /\ pay[p].via = "wallet" /\ pay[q].invoice = pay[p].invoice
        BY <3>1, <4>1 DEF Honest
      <4> QED
        BY <3>2, <4>1, <4>2 DEF Honest, PaidBy
    <3>4. CASE inv[i].status = "paid"
      <4>1. refunds = {} /\ pay[p].status = "settled"
        BY <3>2, <3>3, <3>4 DEF PaidBy
      <4> QED
        BY <3>2, <3>4, <4>1, FS_EmptySet DEF PaidBy
    <3>5. CASE inv[i].status = "refunded"
      <4>1. PICK q \in Payment : Recorded(q) /\ pay[q].reverses = p
        BY <3>2, <3>5 DEF PaidBy
      <4>2. refunds = {q}
        BY <3>1, <4>1 DEF InvoicesInv, Accounted
      <4>3. Cardinality(refunds) = 1
        BY <4>2, FS_Singleton
      <4> QED
        BY <3>2, <3>3, <3>5, <4>3 DEF PaidBy
    <3> QED
      BY <3>2, <3>4, <3>5
  <2>3. \A i \in Invoice :
          /\ inv[i].settling \in Payment \cup {None}
          /\ inv[i].status \in {"paid", "refunded"} <=> inv[i].settling # None
    BY DEF InvoicesInv, Accounted, TypeOK, Row
  <2>4. PaidInFull
    BY <2>2, <2>3 DEF PaidInFull
  <2> QED
    BY <2>1, <2>4 DEF NoPaymentForgotten
<1> QED
  BY InvCorrect, <1>1, PTL

\* SentStands: the amount and the number of a sent invoice never change, and
\* the numbers have no gaps (markSent, updateInvoice).
THEOREM SentInvoicesStand == Spec => SentStands
<1>1. Inv => NoGaps
  BY NumbersCount DEF Inv
<1>2. Inv /\ [Next]_vars => Inv' /\ Stands
  BY NextStep
<1>3. Inv' => NoGaps'
  BY <1>1, PTL
<1>4. Inv /\ [Next]_vars =>
        [/\ {inv'[i].number : i \in Sent'} = 1 .. Cardinality(Sent')
         /\ \A i \in Sent :
              /\ i \in Sent'
              /\ inv'[i].amount = inv[i].amount /\ inv'[i].number = inv[i].number]_billing
  BY <1>2, <1>3 DEF Stands, NoGaps
<1> QED
  BY InvCorrect, <1>4, PTL DEF Spec, SentStands

\* BilledOnce: a client is billed once for a cycle and not before its date
\* (billDueCycles, whoever runs it).
THEOREM CyclesBilledOnce == Spec => []BilledOnce
<1>1. Inv => BilledOnce
  BY DEF Inv, Cycles, BilledOnce
<1> QED
  BY InvCorrect, <1>1, PTL

\* PausedTimeNotBilled: only an active plan bills, and no cycle whose day
\* went by while it was paused (billPlan, resumePlan).
THEOREM PauseIsNotBilled == Spec => PausedTimeNotBilled
<1>1. Inv /\ [Next]_vars =>
        [\A i \in Invoice : inv'[i].cycle # inv[i].cycle =>
           plan'.status = "active" /\ BillingDate(plan'.start, inv'[i].cycle) \notin off]_vars
  BY NextStep
<1> QED
  BY InvCorrect, <1>1, PTL DEF Spec, PausedTimeNotBilled

=============================================================================
