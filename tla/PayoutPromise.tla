---------------------------- MODULE PayoutPromise ----------------------------
(***************************************************************************)
(* What a withdrawal promises its customer: the money is in one place at a *)
(* time.  It leaves the wallet with the fee, is on its way, and ends up    *)
(* either at the bank or, fee included, back in the wallet; and it stays   *)
(* where it ended up.                                                      *)
(***************************************************************************)
EXTENDS Integers

CONSTANTS Withdrawal, Price   \* Price: what a withdrawal may take out

VARIABLES
  place,   \* place[w]: where the money of withdrawal w is
  taken,   \* taken[w]: what it took out of the wallet
  wallet   \* what the customer's wallet holds

Init ==
  /\ place = [w \in Withdrawal |-> "none"]
  /\ taken = [w \in Withdrawal |-> 0]
  /\ wallet \in Nat

Accept(w) ==
  \E p \in Price :
    /\ place[w] = "none" /\ wallet >= p
    /\ place'  = [place EXCEPT ![w] = "transit"]
    /\ taken'  = [taken EXCEPT ![w] = p]
    /\ wallet' = wallet - p

Arrive(w) ==
  /\ place[w] = "transit"
  /\ place' = [place EXCEPT ![w] = "bank"]
  /\ UNCHANGED <<taken, wallet>>

GiveBack(w) ==
  /\ place[w] = "transit"
  /\ place'  = [place EXCEPT ![w] = "returned"]
  /\ wallet' = wallet + taken[w]
  /\ UNCHANGED taken

Next == \E w \in Withdrawal : Accept(w) \/ Arrive(w) \/ GiveBack(w)

Spec == Init /\ [][Next]_<<place, taken, wallet>>

=============================================================================
