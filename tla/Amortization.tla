----------------------------- MODULE Amortization -----------------------------
(***************************************************************************)
(* Loans repaid in equal monthly installments (services/amortization.js).  *)
(* Amounts are integers; a rate is that of a month, a fraction             *)
(* [num, den].  The code computes the same with floating-point numbers,    *)
(* exact here.                                                             *)
(*                                                                         *)
(* What is repaid after each installment is rounded, and not the           *)
(* installment itself, so that the principal comes out exactly.            *)
(***************************************************************************)
EXTENDS Integers

Terms == [principal: Nat, months: Nat \ {0}, rate: [num: Nat, den: Nat \ {0}]]

\* Math.round(a / b)
Rounded(a, b) == (2 * a + b) \div (2 * b)

Power(a, n) == LET upTo[k \in 0 .. n] == IF k = 0 THEN 1 ELSE a * upTo[k - 1] IN upTo[n]

\* With den ^ n taken out of (1 + rate) ^ n.
Grown(t, n) == Power(t.rate.den + t.rate.num, n)
Growth(t, n) == Grown(t, n) - Power(t.rate.den, n)

\* cumulativePrincipal, rounded: what is repaid after k installments.
Repaid(t, k) ==
  IF k = t.months THEN t.principal
  ELSE IF t.rate.num = 0 THEN Rounded(t.principal * k, t.months)
  ELSE Rounded(t.principal * Growth(t, k) * Power(t.rate.den, t.months - k), Growth(t, t.months))

\* buildSchedule
BuildSchedule(t) ==
  [k \in 1 .. t.months |->
     [principal |-> Repaid(t, k) - Repaid(t, k - 1),
      interest  |-> Rounded((t.principal - Repaid(t, k - 1)) * t.rate.num, t.rate.den)]]

\* monthlyInstallment, the level payment that the borrower is told.
MonthlyInstallment(t) ==
  IF t.rate.num = 0 THEN Rounded(t.principal, t.months)
  ELSE Rounded(t.principal * t.rate.num * Grown(t, t.months), t.rate.den * Growth(t, t.months))

\* "every installment is within a minor unit or two of the level payment"
\* (amortization.js:9)
IsLevel(t) ==
  \A k \in 1 .. t.months :
    BuildSchedule(t)[k].principal + BuildSchedule(t)[k].interest - MonthlyInstallment(t) \in -2 .. 2

=============================================================================
