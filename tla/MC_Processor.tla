---------------------------- MODULE MC_Processor ----------------------------
(***************************************************************************)
(* Money that goes out through the payment processor and money that comes  *)
(* in.  The two meet in the balance of a wallet alone, so each behaviour   *)
(* is one of one of them: of two withdrawals of one customer, with the     *)
(* worker next to a request, or of two card payments, two accounts, one    *)
(* card and two requests.                                                  *)
(***************************************************************************)
EXTENDS Payouts, CardPayments, TLC

CONSTANTS w1, w2, c1, p1, p2, a1, a2, t1, x1, x2

TwoWithdrawals == {w1, w2}
OneCaller      == {c1}

\* 2.5 minor units: 3 for the processor, of which the customer pays 1; and
\* half a unit, of which the customer pays nothing.
TwoFees    == {5, 25}
Everything == {"torn", "store", "second_try"}

TwoPayments == {p1, p2}
TwoAccounts == {a1, a2}
OneToken    == {t1}
TwoSlots    == {x1, x2}

VARIABLE way  \* which of the two this behaviour is of

MCInit ==
  /\ way \in {"out", "in"}
  /\ PayoutsInit /\ CardInit

MCNext ==
  /\ way' = way
  /\ \/ way = "out" /\ PayoutsNext /\ UNCHANGED cardVars
     \/ way = "in"  /\ CardNext    /\ UNCHANGED payouts

MCSpec == MCInit /\ [][MCNext]_<<payouts, cardVars, way>>

AnyName == Permutations(Withdrawal) \cup Permutations(Payment)
             \cup Permutations(Account) \cup Permutations(Slot)

=============================================================================
