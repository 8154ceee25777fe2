----------------------------- MODULE MC_Ledger -----------------------------
(***************************************************************************)
(* Accounts and the loans that are paid into them.  What an account holds  *)
(* is left to chance in Loans, so the two share no state, and each         *)
(* behaviour is one of one of them.                                        *)
(*                                                                         *)
(* Ledger: a small bank in two currencies: two naira accounts, a dollar    *)
(* account and a clearing account for each currency, with room for three   *)
(* transactions.                                                           *)
(* Loans: a short loan, of which every installment matters.  Its rate is   *)
(* scaled like its amount, or the interest on a few units would be rounded *)
(* away: 2 and 2, 2 and 2, 3 and 1 are its installments.                   *)
(***************************************************************************)
EXTENDS Ledger, Loans, TLC

CONSTANTS k1, k2, k3, ada, bola, usd, clearNGN, clearUSD

ThreeKeys == {k1, k2, k3}

Naira   == {ada, bola}
Wallets == {ada, bola, usd}

Clearings     == {clearNGN, clearUSD}

HeldCurrency == [a \in Account |-> IF a \in {usd, clearUSD} THEN "USD" ELSE "NGN"]

Seven == {[principal |-> 7, months |-> 3, rate |-> [num |-> 1, den |-> 3]]}

\* "The principal portions then add up to exactly the principal"
\* (amortization.js:8), of many loans.
Small ==
  [principal: 1 .. 60, months: 1 .. 5,
   rate: {[num |-> 0, den |-> 1], [num |-> 1, den |-> 24],
          [num |-> 1, den |-> 12]}]

ASSUME LevelAssumption ==
  \A t \in Small :
    LET schedule == BuildSchedule(t) IN
    /\ SumFunctionOnSet([k \in 1 .. t.months |-> schedule[k].principal], 1 .. t.months) = t.principal
    /\ \A k \in 1 .. t.months : schedule[k].principal >= 0
    /\ IsLevel(t)

VARIABLE part  \* which of the two this behaviour is of

MCInit ==
  /\ part \in {"ledger", "loans"}
  /\ Init /\ LoansInit

MCNext ==
  /\ part' = part
  /\ \/ part = "ledger" /\ Next      /\ UNCHANGED loans
     \/ part = "loans"  /\ LoansNext /\ UNCHANGED vars

MCSpec == MCInit /\ [][MCNext]_<<vars, loans, part>>

\* Keys are interchangeable, and so are the two naira accounts, and the runs
\* of the loan job.
Interchangeable == Permutations(Key) \cup Permutations(Naira) \cup Permutations(Runner)

=============================================================================
