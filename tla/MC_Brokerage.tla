---------------------------- MODULE MC_Brokerage ----------------------------
(***************************************************************************)
(* One user with two investment wallets who connects one brokerage account *)
(* twice, for each.                                                        *)
(***************************************************************************)
EXTENDS Brokerage, TLC

CONSTANTS c1, c2, w1, w2, u1

Twice == {c1, c2}
OneEach == (c1 :> w1) @@ (c2 :> w2)
TwoWallets == {w1, w2}
OneUser == (w1 :> u1) @@ (w2 :> u1)

=============================================================================
