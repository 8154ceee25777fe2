------------------------------ MODULE Recurring ------------------------------
(***************************************************************************)
(* A recurring plan that sends invoices: services/recurring.js and         *)
(* controllers/recurringPlanController.js, on top of Invoices.             *)
(*                                                                         *)
(* The plan's row is locked while it is billed, paused, resumed or         *)
(* cancelled.  The worker picks the plans to bill without a lock, and      *)
(* records why one could not be billed in a second DB transaction, after   *)
(* the first was rolled back.  Dates are days; the plan bills every Period *)
(* days.                                                                   *)
(***************************************************************************)
EXTENDS Invoices

CONSTANTS
  MaxDay,   \* bound: the days that are looked at
  Period,   \* days between two cycles
  MaxCycles \* MAX_CYCLES_PER_RUN

ASSUME PeriodAssumption == Period \in Nat \ {0} /\ MaxCycles \in Nat \ {0} /\ MaxDay \in Nat

VARIABLES
  today,   \* the date
  plan,    \* the recurring_plans row
  job,     \* where the worker's run is with this plan
  off      \* days that ended while the plan was paused (history)

recurring == <<today, plan, job, off>>
vars == <<inv, counter, pay, proc, extra, today, plan, job, off>>

PlanRow == [status: {"none", "active", "paused", "cancelled"}, start: 0 .. MaxDay,
            cycle: Nat, amount: Amount, error: BOOLEAN]

PlanTypeOK ==
  /\ TypeOK
  /\ today \in 0 .. MaxDay
  /\ plan  \in PlanRow
  /\ job   \in {"idle", "picked", "failed"}
  /\ off   \subseteq 0 .. MaxDay

PlanInit ==
  /\ Init
  /\ today = 0
  /\ plan  = [status |-> "none", start |-> 0, cycle |-> 0, amount |-> 1, error |-> FALSE]
  /\ job   = "idle"
  /\ off   = {}

\* recurring_billing_date
BillingDate(s, n) == s + n * Period

\* The cycles a run bills: those that are due, MaxCycles of them at most.
DueCycles(pl) ==
  {n \in pl.cycle .. pl.cycle + MaxCycles - 1 : BillingDate(pl.start, n) <= today}

BillDueCycles_CycleKept(pl) ==
  \E at \in [DueCycles(pl) -> {i \in Invoice : inv[i].status = "none"}] :
    /\ \A n, o \in DueCycles(pl) : at[n] = at[o] => n = o
    /\ inv' = [i \in Invoice |->
         IF \E n \in DueCycles(pl) : at[n] = i
         THEN LET n == CHOOSE n \in DueCycles(pl) : at[n] = i IN
              MarkSent([inv[i] EXCEPT !.amount = pl.amount, !.cycle = n], counter + 1 + n - pl.cycle)
         ELSE inv[i]]
    /\ counter' = counter + Cardinality(DueCycles(pl))
    /\ plan' = [pl EXCEPT !.error = FALSE]

\* billDueCycles: one invoice for each due cycle, in order, all in the
\* caller's DB transaction (pl is the plan as that transaction sees it).
BillDueCycles(pl) ==
  \E at \in [DueCycles(pl) -> {i \in Invoice : inv[i].status = "none"}] :
    /\ \A n, o \in DueCycles(pl) : at[n] = at[o] => n = o
    /\ inv' = [i \in Invoice |->
         IF \E n \in DueCycles(pl) : at[n] = i
         THEN LET n == CHOOSE n \in DueCycles(pl) : at[n] = i IN
              MarkSent([inv[i] EXCEPT !.amount = pl.amount, !.cycle = n], counter + 1 + n - pl.cycle)
         ELSE inv[i]]
    /\ counter' = counter + Cardinality(DueCycles(pl))
    /\ plan' = [pl EXCEPT !.cycle = @ + Cardinality(DueCycles(pl)),
                          !.error = IF DueCycles(pl) = {} THEN @ ELSE FALSE]

CreatePlan(s, m) ==
  /\ plan.status = "none" /\ s >= today
  /\ BillDueCycles([status |-> "active", start |-> s, cycle |-> 0, amount |-> m,
                    error |-> FALSE])
  /\ UNCHANGED <<pay, proc, extra, today, job, off>>

\* duePlanIds
IsDue == plan.status = "active" /\ DueCycles(plan) # {}

\* The worker's run looks for plans without a lock.
PickPlan ==
  /\ job = "idle" /\ IsDue
  /\ job' = "picked"
  /\ UNCHANGED <<billing, today, plan, off>>

\* billPlan: what is due is read again under the lock; a plan that another
\* has locked, or that is no longer active, is left alone.
BillPlan ==
  /\ job = "picked"
  /\ \/ plan.status = "active" /\ BillDueCycles(plan)
     \/ UNCHANGED <<inv, counter, plan>>
  /\ job' = "idle"
  /\ UNCHANGED <<pay, proc, extra, today, off>>

\* If the wallet, the client or the owner cannot be billed for now,
\* nothing is sent, and the reason is saved in a DB transaction of its own.
BillPlanFails ==
  /\ job = "picked" /\ IsDue
  /\ job' = "failed"
  /\ UNCHANGED <<billing, today, plan, off>>

RecordError ==
  /\ job = "failed"
  /\ plan' = [plan EXCEPT !.error = TRUE]
  /\ job' = "idle"
  /\ UNCHANGED <<billing, today, off>>

\* What a plan asks for may change; what it has sent does not.
UpdatePlan(m) ==
  /\ plan.status \in {"active", "paused"}
  /\ plan' = [plan EXCEPT !.amount = m]
  /\ UNCHANGED <<billing, today, job, off>>

PausePlan ==
  /\ plan.status = "active"
  /\ plan' = [plan EXCEPT !.status = "paused"]
  /\ UNCHANGED <<billing, today, job, off>>

\* The first cycle from the next one on whose date is not past.
FirstFrom(pl) ==
  CHOOSE n \in pl.cycle .. pl.cycle + MaxDay :
    /\ BillingDate(pl.start, n) >= today
    /\ \A o \in pl.cycle .. n - 1 : BillingDate(pl.start, o) < today

ResumePlan_CycleKept ==
  /\ plan.status = "paused"
  /\ BillDueCycles([plan EXCEPT !.status = "active"])
  /\ UNCHANGED <<pay, proc, extra, today, job, off>>

\* The paused time isn't billed; a cycle due today is, at once.
ResumePlan ==
  /\ plan.status = "paused"
  /\ BillDueCycles([plan EXCEPT !.status = "active", !.cycle = FirstFrom(plan)])
  /\ UNCHANGED <<pay, proc, extra, today, job, off>>

CancelPlan ==
  /\ plan.status \in {"active", "paused"}
  /\ plan' = [plan EXCEPT !.status = "cancelled"]
  /\ UNCHANGED <<billing, today, job, off>>

NextDay ==
  /\ today < MaxDay
  /\ today' = today + 1
  /\ off' = IF plan.status = "paused" THEN off \cup {today} ELSE off
  /\ UNCHANGED <<billing, plan, job>>

PlanNext ==
  \/ \E s \in 0 .. MaxDay, m \in Amount : CreatePlan(s, m)
  \/ \E m \in Amount : UpdatePlan(m)
  \/ PickPlan \/ BillPlan \/ BillPlanFails \/ RecordError
  \/ PausePlan \/ ResumePlan \/ CancelPlan \/ NextDay

Next == (InvoiceNext /\ UNCHANGED recurring) \/ PlanNext

Spec == PlanInit /\ [][Next]_vars

(***************************************************************************)
(* Properties.                                                             *)
(***************************************************************************)

\* A client is billed once for a cycle and not before its date, although the
\* worker, a new plan and a resume all bill.
BilledOnce ==
  /\ PlanTypeOK
  /\ \A i, j \in Invoice : inv[i].cycle # None =>
       /\ inv[i].cycle = inv[j].cycle => i = j
       /\ BillingDate(plan.start, inv[i].cycle) <= today

\* Whatever the worker picked before, a plan sends an invoice only while it
\* is active, and never for a cycle whose day went by while it was paused.
PausedTimeNotBilled ==
  [][\A i \in Invoice : inv'[i].cycle # inv[i].cycle =>
       plan'.status = "active" /\ BillingDate(plan'.start, inv'[i].cycle) \notin off]_vars

=============================================================================
