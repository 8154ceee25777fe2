----------------------------- MODULE MC_Retries -----------------------------
(***************************************************************************)
(* What is done again when it was not heard to be done: a request that is  *)
(* retried under its key, a transfer that is asked after, an email that a  *)
(* queue's job sends.  The three share no state, so each behaviour is one  *)
(* of one of them.                                                         *)
(*                                                                         *)
(* Requests: one key that two requests fight over with two payloads; the   *)
(* wallet can afford either, the smaller one twice, but not both.          *)
(* Payouts: two withdrawals, a caller and the worker; replies may be lost. *)
(* Email: one, and two that may be busy with it.                           *)
(***************************************************************************)
EXTENDS Requests, Payouts, Delivery, TLC

CONSTANTS x1, x2, k1, pay, other, w1, w2, c1

TwoSlots   == {x1, x2}
OneKey     == {k1}
Payloads   == {pay, other}
OneAndTwo  == (pay :> 1) @@ (other :> 2)

TwoWithdrawals == {w1, w2}
OneCaller      == {c1}

\* 2.5 minor units: 3 for the processor, of which the customer pays 1.
OneFee         == {25}
LostOnly       == {}

VARIABLE part  \* which of the three this behaviour is of

all == <<vars, payouts, mails, part>>

MCInit ==
  /\ part \in {"requests", "payouts", "email"}
  /\ Init /\ PayoutsInit /\ DeliveryInit
  /\ part # "requests" => \A x \in Slot : req[x].payload = pay

MCNext ==
  /\ part' = part
  /\ \/ part = "requests" /\ Next         /\ UNCHANGED <<payouts, mails>>
     \/ part = "payouts"  /\ PayoutsNext  /\ UNCHANGED <<vars, mails>>
     \/ part = "email"    /\ DeliveryNext /\ UNCHANGED <<vars, payouts>>

\* Each part's own fairness.  A client retries only where there are clients;
\* in the other two parts nothing is enabled before it is begun.
MCFairness ==
  /\ \A x \in Slot : /\ WF_vars(Serve(x))
                     /\ WF_vars(part = "requests" /\ Retry(x))
  /\ \A k \in Key : WF_vars(GrowOld(k))
  /\ PayoutsFairness
  /\ DeliveryFairness

MCSpec == MCInit /\ [][MCNext]_all /\ MCFairness

=============================================================================
