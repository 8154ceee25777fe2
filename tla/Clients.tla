------------------------------- MODULE Clients -------------------------------
(***************************************************************************)
(* How reliably a client pays, from 0 to 100 (services/clients.js): worked *)
(* out from their invoices on every read.  The code computes with          *)
(* floating-point numbers, exact here.                                     *)
(***************************************************************************)
EXTENDS Integers, FiniteSets, Functions

\* late: the days an invoice was paid after its due date, or is now past it;
\* before that day it is 0 or less.
Bill == [status: {"draft", "open", "paid", "refunded", "cancelled"}, late: Int]

\* What CLIENT_SELECT counts of a client's invoices b.
OpenBills(b)    == {i \in DOMAIN b : b[i].status = "open" /\ b[i].late <= 0}
OverdueBills(b) == {i \in DOMAIN b : b[i].status = "open" /\ b[i].late > 0}
PaidBills(b)    == {i \in DOMAIN b : b[i].status = "paid"}
PaidOnTime(b)   == {i \in PaidBills(b) : b[i].late <= 0}

\* oldest_overdue_days is more than 30.
LongOverdue(b) == \E i \in OverdueBills(b) : b[i].late > 30

\* round(a / b), of numbers that are not negative
Nearest(a, b) == (2 * a + b) \div (2 * b)

\* avg_days_late, which is rounded to tenths, in tenths
DaysLate(b) ==
  LET late == [i \in PaidBills(b) |-> IF b[i].late > 0 THEN b[i].late ELSE 0]
  IN Nearest(10 * SumFunctionOnSet(late, DOMAIN late), Cardinality(DOMAIN late))

\* Nothing paid and nothing overdue: no score yet.
IsNew(b) == PaidBills(b) = {} /\ OverdueBills(b) = {}

\* Full marks (25 of them, in twelfths) at 0 days late, none at 30 and more.
Speed(b) ==
  IF PaidBills(b) = {} \/ DaysLate(b) > 300 THEN 0 ELSE 300 - DaysLate(b)

\* clientHealth: 60 for what came due and was paid on time, 25 for the speed,
\* 15 for what is not overdue.
Score(b) ==
  LET overdue == Cardinality(OverdueBills(b))
      due     == Cardinality(PaidBills(b)) + overdue
      billed  == due + Cardinality(OpenBills(b))
      score   == Nearest(720 * Cardinality(PaidOnTime(b)) * billed + Speed(b) * due * billed
                           + 180 * (billed - overdue) * due,
                         12 * due * billed)
  IN IF LongOverdue(b) /\ score > 49 THEN 49 ELSE score

Label(b) ==
  CASE IsNew(b)        -> "new"
    [] Score(b) >= 80  -> "reliable"
    [] Score(b) \in 55 .. 79 -> "watch"
    [] OTHER           -> "at_risk"

\* "How reliably a client pays, 0-100 [...] Any invoice more than 30 days
\* overdue caps the score at 49 (at risk)" (clients.js); and an invoice that
\* is overdue, by any days, never raises the score that it had while it
\* was open, nor does one paid in time lower it.
ScoreIsFair(b, days) ==
  ~IsNew(b) =>
    /\ Score(b) \in 0 .. 100
    /\ LongOverdue(b) => Label(b) = "at_risk"
    /\ \A i \in OpenBills(b) :
         /\ Score([b EXCEPT ![i].late = days]) <= Score(b)
         /\ Score([b EXCEPT ![i].status = "paid"]) >= Score(b)

=============================================================================
