------------------------------ MODULE MC_Loans ------------------------------
(* A loan of two installments, of which the first may be long overdue.      *)
EXTENDS Loans, TLC

Five == {[principal |-> 5, months |-> 2, rate |-> [num |-> 2, den |-> 5]]}

=============================================================================
