---------------------------- MODULE MC_Recurring ----------------------------
(***************************************************************************)
(* A few invoices and payments of one issuer with one recurring plan.      *)
(***************************************************************************)
EXTENDS Recurring, TLC

\* Invoices and payments are interchangeable: nothing tells two unused ones
\* apart.
Interchangeable == Permutations(Invoice) \cup Permutations(Payment)

=============================================================================
