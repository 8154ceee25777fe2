----------------------------- MODULE MC_Payouts -----------------------------
(* One customer, two withdrawals, and the worker next to two requests.      *)
EXTENDS Payouts, TLC

CONSTANTS w1, w2, c1, c2

TwoWithdrawals == {w1, w2}
OneWithdrawal  == {w1}
TwoCallers     == {c1, c2}
OneCaller      == {c1}

\* 2.5 minor units: 3 for the processor, of which the customer pays 1; and
\* half a unit, of which the customer pays nothing.
OneFee  == {25}
TwoFees == {5, 25}

Everything == {"torn", "store", "second_try"}
None       == {}
TornReply  == {"torn"}

AnyName == Permutations(Withdrawal) \cup Permutations(Caller)

=============================================================================
