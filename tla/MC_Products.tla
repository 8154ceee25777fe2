---------------------------- MODULE MC_Products ----------------------------
(* A customer with one wallet who either saves towards a goal or pays two   *)
(* people: the bound "product".  Both lock the wallet they share, and to    *)
(* each the other is no more than money that comes and goes.                *)
EXTENDS Goals, Payroll, TLC

CONSTANTS shop, house, car, ngozi, tunde, bank, k1, k2, d1, d2, x1, x2, rk1, rk2

VARIABLE product

TwoGoals    == {house, car}
Shop        == {shop}
Payees      == {ngozi, tunde}
Wallets     == {shop, house, car, ngozi, tunde}
OneBank     == {bank}
OtherKeys   == {d1, d2}
GoalKeys    == OtherKeys \cup {k1, k2}
Attempts    == {x1, x2}
Keys        == GoalKeys \cup (Attempts \X {1, 2})
OneCurrency == [a \in Account |-> "NGN"]
RunKeys     == {rk1, rk2}
OneOrTwo    == {1, 2}

\* Both people, one of them at the usual rate or at a named amount; or only
\* that one.
Bodies ==
  {[source |-> shop, items |-> <<[payee |-> ngozi, amount |-> 1],
                                 [payee |-> tunde, amount |-> AtRate]>>],
   [source |-> shop, items |-> <<[payee |-> ngozi, amount |-> 1],
                                 [payee |-> tunde, amount |-> 2]>>],
   [source |-> shop, items |-> <<[payee |-> tunde, amount |-> 2]>>]}

MCInit ==
  /\ Init /\ GoalsInit /\ PayrollInit
  /\ product \in {"goals", "payroll"}

MCNext ==
  \/ product = "goals" /\ GoalsNext /\ UNCHANGED <<payroll, product>>
  \/ product = "payroll" /\ PayrollNext /\ UNCHANGED <<goals, product>>

AnyName == Permutations({k1, k2}) \cup Permutations(OtherKey)
             \cup Permutations(Attempt) \cup Permutations(RunKey) \cup Permutations(Goal)

MCSpec == MCInit /\ [][MCNext]_<<vars, goals, payroll, product>>

=============================================================================
