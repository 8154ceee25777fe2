---------------------------- MODULE MC_Customers ----------------------------
(***************************************************************************)
(* What the system does for a customer beside moving money: sessions, the  *)
(* address, the verified name, wallets and what they are kept open for,    *)
(* lists and alerts.  These share no state but the users row, of which     *)
(* each has columns of its own, so each behaviour is one of one of them.   *)
(***************************************************************************)
EXTENDS Sessions, Addresses, Identity, Accounts, Lists, Alerts, Clients, TLC

CONSTANTS a1, a2, a3, p1, p2, c1, c2, r1, r2, x1, x2

\* The first user signs up with one address and wants the third; the second
\* has their own.
TwoPersons     == {p1, p2}
ThreeAddresses == {a1, a2, a3}
MailReaders    == (a1 :> p1) @@ (a2 :> p2) @@ (a3 :> p1)

TwoCalls   == {c1, c2}
TwoWallets == {r1, r2}
TwoOpeners == {x1, x2}

VARIABLE part  \* which of them this behaviour is of

all == <<auth, addresses, identity, accounts, lists, bell, part>>

MCInit ==
  /\ part \in {"sessions", "addresses", "identity", "accounts", "lists", "alerts"}
  /\ SessionsInit /\ AddressesInit /\ IdentityInit /\ AccountsInit /\ AlertsInit /\ ListsInit
  /\ part # "lists"    => list = [name |-> "entries", mine |-> TRUE, status |-> "any"]
  /\ part # "identity" => profile = [f \in Field |-> NoEdit.value]

MCNext ==
  /\ part' = part
  /\ \/ /\ part = "sessions" /\ SessionsNext
        /\ UNCHANGED <<addresses, identity, accounts, lists, bell>>
     \/ /\ part = "addresses" /\ AddressesNext
        /\ UNCHANGED <<auth, identity, accounts, lists, bell>>
     \/ /\ part = "identity" /\ IdentityNext
        /\ UNCHANGED <<auth, addresses, accounts, lists, bell>>
     \/ /\ part = "accounts" /\ AccountsNext
        /\ UNCHANGED <<auth, addresses, identity, lists, bell>>
     \/ /\ part = "lists" /\ ListsNext /\ walk.pc # "done"   \* until the last page is read
        /\ UNCHANGED <<auth, addresses, identity, accounts, bell>>
     \/ /\ part = "alerts" /\ AlertsNext
        /\ UNCHANGED <<auth, addresses, identity, accounts, lists>>

\* Four invoices of one client.
Books ==
  [1 .. 4 -> {[status |-> "open", late |-> 0], [status |-> "open", late |-> 1],
              [status |-> "open", late |-> 31], [status |-> "paid", late |-> 0],
              [status |-> "paid", late |-> 7], [status |-> "paid", late |-> 40],
              [status |-> "refunded", late |-> 0]}]

ASSUME HealthAssumption == \A b \in Books, days \in {1, 31} : ScoreIsFair(b, days)

AnyName == Permutations(Call) \cup Permutations(Row)

MCSpec == MCInit /\ [][MCNext]_all

=============================================================================
