------------------------------- MODULE Accounts -------------------------------
(***************************************************************************)
(* What one customer has, apart from the money: wallets, saved bank        *)
(* accounts, the number that bank transfers to a wallet go to, and what    *)
(* keeps a wallet open (services/accountOpening, controllers/              *)
(* accountController, virtualAccountController, the bank accounts of       *)
(* withdrawalController and the first wallet of brokerageController).      *)
(*                                                                         *)
(* A wallet or a bank account is added in a DB transaction that looks at   *)
(* those there are under the user's lock; the lock, the look and the       *)
(* insert are steps here.  What a wallet is needed for is committed by     *)
(* handlers that read the wallet: a withdrawal locks it, an invoice, a     *)
(* card payment and a loan do not, so their check and their commit are     *)
(* two steps.                                                              *)
(***************************************************************************)
EXTENDS Naturals, FiniteSets

CONSTANTS
  Kind,       \* personal, business and ...
  Investment, \* ... the one the holdings of a brokerage sit in
  Row,       \* rows of account
  Bank,      \* bank accounts at banks
  Opener,    \* requests under way at once
  Claim,     \* invoices, card payments, withdrawals and loans
  NoOne,     \* no row, no number, nobody
  MaxBanks,  \* MAX_BANK_ACCOUNTS
  MaxNumbers \* bound: account numbers the processor gives

Use == {"invoice", "card", "withdrawal", "loan"}

ASSUME InvestmentAssumption == Investment \in Kind
ASSUME BanksAssumption == {MaxBanks, MaxNumbers} \subseteq Nat

VARIABLES
  wallet,   \* wallet[r]: the kind and status of a row of account
  saved,    \* rows of bank_accounts that are not removed
  userLock, \* who has the user's row locked
  opener,   \* opener[x]: a request
  number,   \* number[r]: the row of virtual_accounts
  numbers,  \* numbers the processor has given
  told,     \* the numbers that requests were answered with (history)
  claim,    \* claim[h]: what it is, for which wallet, and how far it has come
  late      \* claims that did not keep their wallet from closing (history)

opening == <<wallet, saved, userLock, opener>>
giving  == <<number, numbers, told>>
holding == <<claim, late>>
accounts == <<opening, giving, holding>>

WalletRow == [kind: Kind, status: {"active", "frozen", "closed"}]
OpenerRow == [pc: {"idle", "locked", "insert", "ask", "store"},
              what: Kind \cup Bank \cup Row \cup {NoOne}, number: 0 .. MaxNumbers]
ClaimRow  == [pc: {"none", "checked", "live", "defaulted", "over"}, use: Use, on: Row \cup {NoOne}]
NoOpener  == [pc |-> "idle", what |-> NoOne, number |-> 0]

ASSUME NoOneAssumption == NoOne \notin WalletRow /\ NoOne \notin Opener

AccountsTypeOK ==
  /\ wallet   \in [Row -> WalletRow \cup {NoOne}]
  /\ saved    \subseteq Bank
  /\ userLock \in Opener \cup {NoOne}
  /\ opener   \in [Opener -> OpenerRow]
  /\ number   \in [Row -> 0 .. MaxNumbers]
  /\ numbers  \in 0 .. MaxNumbers
  /\ told     \subseteq Row \X (1 .. MaxNumbers)
  /\ claim    \in [Claim -> ClaimRow]
  /\ late     \subseteq Claim

AccountsInit ==
  /\ wallet   = [r \in Row |-> NoOne]
  /\ saved    = {}
  /\ userLock = NoOne
  /\ opener   = [x \in Opener |-> NoOpener]
  /\ number   = [r \in Row |-> 0]
  /\ numbers  = 0
  /\ told     = {}
  /\ claim    = [h \in Claim |-> [pc |-> "none", use |-> "invoice", on |-> NoOne]]
  /\ late     = {}

Is(r, status) == wallet[r] # NoOne /\ wallet[r].status = status
IsOpen(r)     == wallet[r] # NoOne /\ wallet[r].status # "closed"

(***************************************************************************)
(* Opening a wallet and saving a bank account.                             *)
(***************************************************************************)

At(x, pc, what) == opener' = [opener EXCEPT ![x] = [pc |-> pc, what |-> what, number |-> 0]]
Leave(x) ==
  /\ opener' = [opener EXCEPT ![x] = NoOpener]
  /\ userLock' = IF userLock = x THEN NoOne ELSE userLock

LockUser_NotTaken(x, what) ==
  /\ opener[x].pc = "idle"
  /\ At(x, "locked", what)
  /\ UNCHANGED <<wallet, saved, userLock, giving, holding>>

\* lockUserForAccountOpening
LockUser(x, what) ==
  /\ opener[x].pc = "idle"
  /\ userLock = NoOne
  /\ userLock' = x
  /\ At(x, "locked", what)
  /\ UNCHANGED <<wallet, saved, giving, holding>>

\* A customer opens a wallet, which the first brokerage link does for them, or
\* saves a bank account, after the name enquiry.
OpenAccount(x, kind)      == kind # Investment /\ LockUser(x, kind)
EnsureInvestmentWallet(x) == LockUser(x, Investment)
SaveBankAccount(x, b)     == LockUser(x, b)

Has(kind) == \E r \in Row : IsOpen(r) /\ wallet[r].kind = kind

\* findOpenAccount, or the two looks at the saved bank accounts: neither is
\* there already, nor are there too many.
MayAdd(what) ==
  IF what \in Kind THEN ~Has(what) ELSE Cardinality(saved) < MaxBanks /\ what \notin saved

Look(x) ==
  /\ opener[x].pc = "locked"
  /\ IF MayAdd(opener[x].what)
     THEN At(x, "insert", opener[x].what) /\ UNCHANGED userLock
     ELSE Leave(x)
  /\ UNCHANGED <<wallet, saved, giving, holding>>

\* insertAccount under a number that is free, or the new bank account, which
\* a unique index keeps from being saved twice; and the commit.
Insert(x) ==
  LET what == opener[x].what IN
  /\ opener[x].pc = "insert"
  /\ IF what \in Kind
     THEN /\ \E r \in Row : /\ wallet[r] = NoOne
                            /\ wallet' = [wallet EXCEPT ![r] = [kind |-> what, status |-> "active"]]
          /\ UNCHANGED saved
     ELSE /\ saved' = saved \cup {what}
          /\ UNCHANGED wallet
  /\ Leave(x)
  /\ UNCHANGED <<giving, holding>>

\* A statement fails or the process dies: ROLLBACK.
GiveUp(x) ==
  /\ opener[x].pc # "idle"
  /\ Leave(x)
  /\ UNCHANGED <<wallet, saved, giving, holding>>

\* removeBankAccount, one UPDATE
RemoveBank(b) ==
  /\ b \in saved
  /\ saved' = saved \ {b}
  /\ UNCHANGED <<wallet, userLock, opener, giving, holding>>

(***************************************************************************)
(* The number for bank transfers: createVirtualAccount.                    *)
(***************************************************************************)

\* The reads before the call: a number that is there is the answer.
AskNumber(x, r) ==
  /\ opener[x].pc = "idle"
  /\ wallet[r] # NoOne
  /\ \/ number[r] # 0 /\ told' = told \cup {<<r, number[r]>>} /\ UNCHANGED opener
     \/ number[r] = 0 /\ Is(r, "active") /\ At(x, "ask", r) /\ UNCHANGED told
  /\ UNCHANGED <<wallet, saved, userLock, number, numbers, holding>>

\* createStaticVirtualAccount: each call may bring another number.
GiveNumber(x) ==
  /\ opener[x].pc = "ask"
  /\ numbers < MaxNumbers
  /\ numbers' = numbers + 1
  /\ opener' = [opener EXCEPT ![x].pc = "store", ![x].number = numbers + 1]
  /\ UNCHANGED <<wallet, saved, userLock, number, told, holding>>

\* The INSERT; the loser of a race answers with what the winner stored.
StoreNumber(x) ==
  LET r == opener[x].what IN
  /\ opener[x].pc = "store"
  /\ number' = IF number[r] = 0 THEN [number EXCEPT ![r] = opener[x].number] ELSE number
  /\ told' = told \cup {<<r, number'[r]>>}
  /\ Leave(x)
  /\ UNCHANGED <<wallet, saved, numbers, holding>>

(***************************************************************************)
(* What a wallet is needed for, and its status.                            *)
(***************************************************************************)

\* The handler reads an active wallet: checkIssuerAccount in sendInvoice,
\* startCardLink, approveApplication (which relies on the application's
\* check), or createWithdrawal, which locks it and commits.
CheckWallet(h, use, r) ==
  /\ claim[h].pc = "none"
  /\ Is(r, "active")
  /\ claim' = [claim EXCEPT ![h] = [pc  |-> IF use = "withdrawal" THEN "live" ELSE "checked",
                                    use |-> use, on |-> r]]
  /\ UNCHANGED <<opening, giving, late>>

\* ... and commits an invoice that is open, a pending payment, or a loan.
Commit(h) ==
  /\ claim[h].pc = "checked"
  /\ claim' = [claim EXCEPT ![h].pc = "live"]
  /\ UNCHANGED <<opening, giving, late>>

\* A loan is defaulted (markDefaults), or a payment cures that (postRepayment).
Default(h) ==
  /\ claim[h].use = "loan" /\ claim[h].pc \in {"live", "defaulted"}
  /\ claim' = [claim EXCEPT ![h].pc = IF @ = "live" THEN "defaulted" ELSE "live"]
  /\ UNCHANGED <<opening, giving, late>>

\* It is paid, settled, cancelled or given up.
End(h) ==
  /\ claim[h].pc \in {"checked", "live", "defaulted"}
  /\ claim' = [claim EXCEPT ![h].pc = "over"]
  /\ UNCHANGED <<opening, giving, late>>

ClaimsOn(r, pc) == {h \in Claim : claim[h].on = r /\ claim[h].pc = pc}

SetStatus(r, status) ==
  /\ wallet' = [wallet EXCEPT ![r].status = status]
  /\ UNCHANGED <<saved, userLock, opener, giving, claim>>

\* changeStatus, which locks the wallet.
Freeze(r)   == Is(r, "active") /\ SetStatus(r, "frozen") /\ UNCHANGED late
Unfreeze(r) == Is(r, "frozen") /\ SetStatus(r, "active") /\ UNCHANGED late

Close_InvoicesForgotten(r) ==
  /\ IsOpen(r)
  /\ \A h \in ClaimsOn(r, "live") : claim[h].use = "invoice"
  /\ SetStatus(r, "closed")
  /\ late' = late \cup ClaimsOn(r, "checked") \cup ClaimsOn(r, "defaulted")

\* An empty wallet (the balance is Ledger's) that nothing committed is for;
\* of the loans, the approved and active ones are looked for.
Close(r) ==
  /\ IsOpen(r)
  /\ ClaimsOn(r, "live") = {}
  /\ SetStatus(r, "closed")
  /\ late' = late \cup ClaimsOn(r, "checked") \cup ClaimsOn(r, "defaulted")

AccountsNext ==
  \/ \E x \in Opener :
       \/ \E kind \in Kind : OpenAccount(x, kind)
       \/ \E b \in Bank : SaveBankAccount(x, b)
       \/ EnsureInvestmentWallet(x)
  \/ \E b \in Bank : RemoveBank(b)
  \/ \E x \in Opener, r \in Row : AskNumber(x, r)
  \/ \E x \in Opener : Look(x) \/ Insert(x) \/ GiveUp(x) \/ GiveNumber(x) \/ StoreNumber(x)
  \/ \E h \in Claim : Commit(h) \/ Default(h) \/ End(h) \/ \E use \in Use, r \in Row : CheckWallet(h, use, r)
  \/ \E r \in Row : Freeze(r) \/ Unfreeze(r) \/ Close(r)

AccountsSpec == AccountsInit /\ [][AccountsNext]_accounts

(***************************************************************************)
(* Properties.                                                             *)
(***************************************************************************)

\* "Two quick taps can't open two" (openAccount): one open wallet of a kind
\* and at most so many saved bank accounts, whoever opens, saves,
\* links a brokerage, closes and removes at the same time; and every request
\* for a wallet's number is told the one that was stored, which stays.
OneOfEach ==
  /\ AccountsTypeOK
  /\ \A r, q \in Row : IsOpen(r) /\ IsOpen(q) /\ wallet[r].kind = wallet[q].kind => r = q
  /\ Cardinality(saved) <= MaxBanks
  /\ \A r \in Row, n \in 1 .. MaxNumbers : <<r, n>> \in told => number[r] = n

\* changeStatus: "The account a loan is paid into stays open for the life of
\* the loan", and with open invoices it "has to stay open until they're paid
\* or cancelled".  That is so unless the handler of the loan or the invoice
\* had read the wallet without a lock before it closed and committed after
\* that, or the loan was in default by then: and always for a withdrawal,
\* which locks the wallet.
ClosedIsFree ==
  \A h \in Claim :
    claim[h].pc = "live" /\ ~IsOpen(claim[h].on) => h \in late /\ claim[h].use # "withdrawal"

=============================================================================
