---------------------------- MODULE LedgerProofs ----------------------------
(***************************************************************************)
(* What Ledger promises for any number of accounts, keys and currencies.   *)
(*                                                                         *)
(* Every step of the ledger is one of three kinds (lemma StepKinds): it    *)
(* posts one amount from one account to another, it changes an account's   *)
(* status, or it leaves both balances and statuses alone.  The invariants  *)
(* are proved once per kind instead of once per handler.                   *)
(***************************************************************************)
EXTENDS Ledger, TLAPS

\* One amount moves; the accounts' statuses stay.
PostingStep ==
  /\ \E k \in Key, s \in Account, r \in Account, m \in Amount :
       CanPost(s, r, m, Currency[s]) /\ WriteEntries(k, s, r, m)
  /\ UNCHANGED status

\* No money moves and an account is closed only if it is empty.
StatusStep ==
  /\ UNCHANGED <<balance, entries>>
  /\ status' \in [Account -> {"active", "frozen", "closed"}]
  /\ \A a \in Account :
       status'[a] = "closed" => status[a] = "closed" \/ balance[a] = 0

\* A recorded row keeps everything but its status.
LEMMA RowType ==
  ASSUME NEW t \in Txn, NEW st \in TxnStatus
  PROVE  [t EXCEPT !.status = st] \in Txn
  BY DEF Txn

\* A row that is not absent is a transaction.
LEMMA RecordedIsTxn ==
  ASSUME TypeOK, NEW k \in Key, Recorded(k)
  PROVE  txn[k] \in Txn
  BY DEF TypeOK, Recorded

\* Every step moves money once or not at all.
LEMMA StepKinds ==
  ASSUME TypeOK, [Next]_vars
  PROVE  PostingStep \/ StatusStep
<1> USE DEF Account
<1>1. CASE UNCHANGED vars
  BY <1>1 DEF vars, StatusStep, TypeOK
<1>2. CASE \E k \in Key, s \in Wallet, r \in Wallet, m \in Amount : Transfer(k, s, r, m)
  BY <1>2 DEF Transfer, PostTransaction, PostingStep
<1>3. CASE \E k \in Key, c \in System, r \in Wallet, m \in Amount : BankDeposit(k, c, r, m)
  BY <1>3 DEF BankDeposit, PostTransaction, PostingStep
<1>4. CASE \E k \in Key, a \in Wallet : CheckLinkTarget(k, a)
  BY <1>4 DEF CheckLinkTarget, StatusStep, TypeOK
<1>5. CASE \E k \in Key, c \in System, a \in Wallet, m \in Amount : StartCardLink(k, c, a, m)
  BY <1>5 DEF StartCardLink, StatusStep, TypeOK
<1>6. CASE \E k \in Key : SettlePending(k)
  <2>1. PICK k \in Key : SettlePending(k)
    BY <1>6
  <2>2. txn[k] \in Txn
    BY <2>1, RecordedIsTxn DEF SettlePending
  <2>3. txn[k].sender \in Account /\ txn[k].receiver \in Account /\ txn[k].amount \in Amount
    BY <2>2 DEF Txn
  <2> QED
    BY <2>1, <2>3 DEF SettlePending, PostingStep
<1>7. CASE \E k \in Key : FailPending(k)
  BY <1>7 DEF FailPending, StatusStep, TypeOK
<1>8. CASE \E k \in Key, o \in Key : Reverse(k, o)
  <2>1. PICK k \in Key, o \in Key : Reverse(k, o)
    BY <1>8
  <2>2. txn[o] \in Txn
    BY <2>1, RecordedIsTxn DEF Reverse
  <2>3. txn[o].sender \in Account /\ txn[o].receiver \in Account /\ txn[o].amount \in Amount
    BY <2>2 DEF Txn
  <2>4. CanPost(txn[o].receiver, txn[o].sender, txn[o].amount, Currency[txn[o].receiver])
    BY <2>1 DEF Reverse, CanPost
  <2> QED
    BY <2>1, <2>3, <2>4 DEF Reverse, PostingStep
<1>9. CASE \E a \in Wallet : FreezeAccount(a) \/ UnfreezeAccount(a) \/ CloseAccount(a)
  BY <1>9 DEF FreezeAccount, UnfreezeAccount, CloseAccount, StatusStep, TypeOK
<1> QED
  BY <1>1, <1>2, <1>3, <1>4, <1>5, <1>6, <1>7, <1>8, <1>9 DEF Next

\* What a posting step does to one account: nothing, or one more entry that
\* moves the cached balance by its amount.
OneMoreEntry(a) ==
  \E e \in Entry :
    /\ entries'[a] = Append(entries[a], e)
    /\ e.after = Applied(balance[a], e)
    /\ balance'[a] = e.after
    /\ a \in Wallet => e.after >= 0
    /\ status[a] # "closed"

LEMMA PostingPerAccount ==
  ASSUME TypeOK, PostingStep, \A a \in Wallet : balance[a] >= 0, NEW a \in Account
  PROVE  \/ entries'[a] = entries[a] /\ balance'[a] = balance[a]
         \/ OneMoreEntry(a)
<1>1. PICK k \in Key, s \in Account, r \in Account, m \in Amount :
        CanPost(s, r, m, Currency[s]) /\ WriteEntries(k, s, r, m)
  BY DEF PostingStep
<1> DEFINE d == [txn |-> k, direction |-> "DEBIT", amount |-> m, after |-> balance[s] - m]
           c == [txn |-> k, direction |-> "CREDIT", amount |-> m, after |-> balance[r] + m]
<1>2. m \in Int /\ m > 0 /\ balance[s] \in Int /\ balance[r] \in Int /\ s # r
  BY <1>1, AmountAssumption DEF TypeOK, Amount, CanPost
<1>3. d \in Entry /\ c \in Entry
  BY <1>2 DEF Entry
<1>4. CASE a = s
  <2>1. entries'[s] = Append(entries[s], d) /\ balance'[s] = balance[s] - m
    BY <1>1, <1>2 DEF WriteEntries, TypeOK
  <2>2. s \in Wallet => balance[s] - m >= 0
    BY <1>1, <1>2, AccountAssumption DEF CanPost
  <2>3. d.after = Applied(balance[s], d)
    BY DEF Applied
  <2> QED
    BY <1>1, <1>3, <1>4, <2>1, <2>2, <2>3 DEF OneMoreEntry, CanPost
<1>5. CASE a = r
  <2>1. entries'[r] = Append(entries[r], c) /\ balance'[r] = balance[r] + m
    BY <1>1, <1>2 DEF WriteEntries, TypeOK
  <2>2. r \in Wallet => balance[r] + m >= 0
    BY <1>2
  <2>3. c.after = Applied(balance[r], c)
    BY DEF Applied
  <2> QED
    BY <1>1, <1>3, <1>5, <2>1, <2>2, <2>3 DEF OneMoreEntry, CanPost
<1>6. CASE a # s /\ a # r
  BY <1>1, <1>6 DEF WriteEntries, TypeOK
<1> QED
  BY <1>4, <1>5, <1>6

(***************************************************************************)
(* Types.                                                                  *)
(***************************************************************************)

\* A posting step keeps balances and entries well typed.
LEMMA PostingTypes ==
  ASSUME TypeOK, NEW k \in Key, NEW s \in Account, NEW r \in Account, NEW m \in Amount,
         WriteEntries(k, s, r, m)
  PROVE  /\ balance' \in [Account -> Int]
         /\ entries' \in [Account -> Seq(Entry)]
<1>1. m \in Int /\ balance[s] \in Int /\ balance[r] \in Int
  BY AmountAssumption DEF TypeOK, Amount
<1>2. balance' \in [Account -> Int]
  BY <1>1 DEF TypeOK, WriteEntries
<1> DEFINE d == [txn |-> k, direction |-> "DEBIT", amount |-> m, after |-> balance[s] - m]
           c == [txn |-> k, direction |-> "CREDIT", amount |-> m, after |-> balance[r] + m]
           once == [entries EXCEPT ![s] = Append(@, d)]
<1>3. d \in Entry /\ c \in Entry
  BY <1>1 DEF Entry
<1>4. once \in [Account -> Seq(Entry)]
  BY <1>3 DEF TypeOK
<1>5. entries' = [once EXCEPT ![r] = Append(entries[r], c)]
  BY DEF WriteEntries
<1>6. Append(entries[r], c) \in Seq(Entry)
  BY <1>3 DEF TypeOK
<1>7. entries' \in [Account -> Seq(Entry)]
  <2> HIDE DEF once, c
  <2> QED
    BY <1>4, <1>5, <1>6
<1> QED
  BY <1>2, <1>7

\* A row built by a handler is a transaction.
LEMMA NewRow ==
  ASSUME NEW type \in TxnType, NEW s \in Account, NEW r \in Account, NEW m \in Amount,
         NEW st \in TxnStatus, NEW o \in Key \cup {NoKey}
  PROVE  Row(type, s, r, m, st, o) \in Txn
  BY DEF Row, Txn

LEMMA TypeStep ==
  ASSUME TypeOK, [Next]_vars
  PROVE  TypeOK'
<1> USE DEF Account
<1>1. CASE UNCHANGED vars
  BY <1>1 DEF vars, TypeOK
<1>2. ASSUME NEW k \in Key, NEW type \in {"transfer", "bank_deposit"},
             NEW s \in Account, NEW r \in Account, NEW m \in Amount,
             PostTransaction(k, type, s, r, m), UNCHANGED <<status, linking>>
      PROVE  TypeOK'
  <2>1. Row(type, s, r, m, "settled", NoKey) \in Txn
    BY NewRow DEF TxnType, TxnStatus
  <2>2. txn' \in [Key -> Txn \cup {NoTxn}]
    BY <1>2, <2>1 DEF PostTransaction, TypeOK
  <2> QED
    BY <1>2, <2>2, PostingTypes DEF PostTransaction, TypeOK
<1>3. CASE \E k \in Key, s \in Wallet, r \in Wallet, m \in Amount : Transfer(k, s, r, m)
  BY <1>2, <1>3 DEF Transfer
<1>4. CASE \E k \in Key, c \in System, r \in Wallet, m \in Amount : BankDeposit(k, c, r, m)
  BY <1>2, <1>4 DEF BankDeposit
<1>5. CASE \E k \in Key, a \in Wallet : CheckLinkTarget(k, a)
  BY <1>5 DEF CheckLinkTarget, TypeOK
<1>6. CASE \E k \in Key, c \in System, a \in Wallet, m \in Amount : StartCardLink(k, c, a, m)
  <2>1. PICK k \in Key, c \in System, a \in Wallet, m \in Amount : StartCardLink(k, c, a, m)
    BY <1>6
  <2>2. Row("card_payment", c, a, m, "pending", NoKey) \in Txn
    BY NewRow DEF TxnType, TxnStatus
  <2> QED
    BY <2>1, <2>2 DEF StartCardLink, TypeOK
<1>7. CASE \E k \in Key : SettlePending(k)
  <2>1. PICK k \in Key : SettlePending(k)
    BY <1>7
  <2>2. txn[k] \in Txn
    BY <2>1, RecordedIsTxn DEF SettlePending
  <2>3. txn[k].sender \in Account /\ txn[k].receiver \in Account /\ txn[k].amount \in Amount
    BY <2>2 DEF Txn
  <2>4. [txn[k] EXCEPT !.status = "settled"] \in Txn
    BY <2>2, RowType DEF TxnStatus
  <2>5. txn' \in [Key -> Txn \cup {NoTxn}]
    BY <2>1, <2>4 DEF SettlePending, TypeOK
  <2> QED
    BY <2>1, <2>3, <2>5, PostingTypes DEF SettlePending, TypeOK
<1>8. CASE \E k \in Key : FailPending(k)
  <2>1. PICK k \in Key : FailPending(k)
    BY <1>8
  <2>2. [txn[k] EXCEPT !.status = "failed"] \in Txn
    BY <2>1, RecordedIsTxn, RowType DEF FailPending, TxnStatus
  <2> QED
    BY <2>1, <2>2 DEF FailPending, TypeOK
<1>9. CASE \E k \in Key, o \in Key : Reverse(k, o)
  <2>1. PICK k \in Key, o \in Key : Reverse(k, o)
    BY <1>9
  <2>2. txn[o] \in Txn
    BY <2>1, RecordedIsTxn DEF Reverse
  <2>3. txn[o].sender \in Account /\ txn[o].receiver \in Account /\ txn[o].amount \in Amount
    BY <2>2 DEF Txn
  <2> DEFINE refund == Row("refund", txn[o].receiver, txn[o].sender, txn[o].amount, "settled", o)
             marked == [txn[o] EXCEPT !.status = "reversed"]
  <2>4. refund \in Txn
    BY <2>3, NewRow DEF TxnType, TxnStatus
  <2>5. marked \in Txn
    BY <2>2, RowType DEF TxnStatus
  <2>6. txn' = [txn EXCEPT ![k] = refund, ![o] = marked]
    BY <2>1 DEF Reverse, Recorded
  <2>7. txn' \in [Key -> Txn \cup {NoTxn}]
    BY <2>4, <2>5, <2>6 DEF TypeOK
  <2> QED
    BY <2>1, <2>3, <2>7, PostingTypes DEF Reverse, TypeOK
<1>10. CASE \E a \in Wallet : FreezeAccount(a) \/ UnfreezeAccount(a) \/ CloseAccount(a)
  BY <1>10 DEF FreezeAccount, UnfreezeAccount, CloseAccount, TypeOK
<1> QED
  BY <1>1, <1>3, <1>4, <1>5, <1>6, <1>7, <1>8, <1>9, <1>10 DEF Next

\* Every variable keeps its type, whatever order the handlers run in.
THEOREM TypeCorrect == Spec => []TypeOK
<1>1. Init => TypeOK
  BY DEF Init, TypeOK
<1>2. TypeOK /\ [Next]_vars => TypeOK'
  BY TypeStep
<1> QED
  BY <1>1, <1>2, PTL DEF Spec

(***************************************************************************)
(* Balances.  The invariant is inductive together with the types: a        *)
(* posting step needs the sender's balance to be the one its last entry    *)
(* recorded, and a wallet's balance not to be negative already.            *)
(***************************************************************************)

BalanceInv == TypeOK /\ BalanceIsLedger /\ NoOverdraft /\ ClosedIsEmpty

\* Appending an entry leaves the earlier ones where they were.
LEMMA AppendEntry ==
  ASSUME TypeOK, NEW a \in Account, NEW e \in Entry, entries'[a] = Append(entries[a], e)
  PROVE  /\ Len(entries'[a]) = Len(entries[a]) + 1
         /\ Len(entries[a]) \in Nat
         /\ \A i \in 1 .. Len(entries[a]) : entries'[a][i] = entries[a][i]
         /\ entries'[a][Len(entries[a]) + 1] = e
         /\ \A i \in 0 .. Len(entries[a]) : AfterEntry(a, i)' = AfterEntry(a, i)
<1>1. entries[a] \in Seq(Entry)
  BY DEF TypeOK
<1>2. /\ Len(entries'[a]) = Len(entries[a]) + 1
      /\ Len(entries[a]) \in Nat
      /\ \A i \in 1 .. Len(entries[a]) : entries'[a][i] = entries[a][i]
      /\ entries'[a][Len(entries[a]) + 1] = e
  BY <1>1
<1>3. \A i \in 0 .. Len(entries[a]) : i = 0 \/ i \in 1 .. Len(entries[a])
  BY <1>2
<1> QED
  BY <1>2, <1>3 DEF AfterEntry

\* An account that is left alone, or gains one entry, keeps its promises.
LEMMA AccountStep ==
  ASSUME BalanceInv, TypeOK', NEW a \in Account,
         \/ entries'[a] = entries[a] /\ balance'[a] = balance[a]
         \/ OneMoreEntry(a)
  PROVE  /\ \A i \in 1 .. Len(entries'[a]) :
              entries'[a][i].after = Applied(AfterEntry(a, i - 1)', entries'[a][i])
         /\ balance'[a] = AfterEntry(a, Len(entries[a]))'
         /\ a \in Wallet =>
              /\ balance'[a] >= 0
              /\ \A i \in 1 .. Len(entries'[a]) : entries'[a][i].after >= 0
<1>0. /\ TypeOK
      /\ \A i \in 1 .. Len(entries[a]) :
           entries[a][i].after = Applied(AfterEntry(a, i - 1), entries[a][i])
      /\ balance[a] = AfterEntry(a, Len(entries[a]))
      /\ a \in Wallet =>
           /\ balance[a] >= 0
           /\ \A i \in 1 .. Len(entries[a]) : entries[a][i].after >= 0
  BY DEF BalanceInv, BalanceIsLedger, NoOverdraft
<1>1. CASE entries'[a] = entries[a] /\ balance'[a] = balance[a]
  <2>1. \A i : AfterEntry(a, i)' = AfterEntry(a, i)
    BY <1>1 DEF AfterEntry
  <2> QED
    BY <1>0, <1>1, <2>1
<1>2. CASE OneMoreEntry(a)
  <2>1. PICK e \in Entry : /\ entries'[a] = Append(entries[a], e)
                           /\ e.after = Applied(balance[a], e)
                           /\ balance'[a] = e.after
                           /\ a \in Wallet => e.after >= 0
    BY <1>2 DEF OneMoreEntry
  <2> PICK n \in Nat : n = Len(entries[a])
    BY <1>0 DEF TypeOK
  <2>2. /\ Len(entries'[a]) = n + 1
        /\ n \in Nat
        /\ \A i \in 1 .. n : entries'[a][i] = entries[a][i]
        /\ entries'[a][n + 1] = e
        /\ \A i \in 0 .. n : AfterEntry(a, i)' = AfterEntry(a, i)
    BY <1>0, <2>1, AppendEntry
  <2>3. AfterEntry(a, n + 1)' = e.after
    BY <2>2 DEF AfterEntry
  <2>4. AfterEntry(a, n)' = balance[a]
    BY <1>0, <2>2
  <2>5. ASSUME NEW i \in 1 .. Len(entries'[a])
        PROVE  entries'[a][i].after = Applied(AfterEntry(a, i - 1)', entries'[a][i])
    <3>1. CASE i = n + 1
      <4>1. AfterEntry(a, i - 1)' = balance[a]
        BY <2>2, <2>4, <3>1 DEF AfterEntry
      <4> QED
        BY <2>1, <2>2, <3>1, <4>1
    <3>2. CASE i \in 1 .. n
      <4>1. i - 1 \in 0 .. n /\ entries'[a][i] = entries[a][i]
        BY <2>2, <3>2
      <4>2. AfterEntry(a, i - 1)' = AfterEntry(a, i - 1)
        BY <2>2, <4>1
      <4> QED
        BY <1>0, <3>2, <4>1, <4>2
    <3> QED
      BY <2>2, <3>1, <3>2
  <2>6. a \in Wallet => \A i \in 1 .. Len(entries'[a]) : entries'[a][i].after >= 0
    BY <1>0, <2>1, <2>2
  <2>7. balance'[a] = AfterEntry(a, Len(entries[a]))'
    BY <2>1, <2>2, <2>3 DEF AfterEntry
  <2> QED
    BY <2>1, <2>5, <2>6, <2>7
<1> QED
  BY <1>1, <1>2

LEMMA BalanceStep ==
  ASSUME BalanceInv, [Next]_vars
  PROVE  BalanceInv'
<1>1. TypeOK /\ TypeOK'
  BY TypeStep DEF BalanceInv
<1>2. \A a \in Wallet : balance[a] >= 0
  BY DEF BalanceInv, NoOverdraft
<1>3. PostingStep \/ StatusStep
  BY <1>1, StepKinds
<1>4. \A a \in Account :
        \/ entries'[a] = entries[a] /\ balance'[a] = balance[a]
        \/ PostingStep /\ OneMoreEntry(a)
  BY <1>1, <1>2, <1>3, PostingPerAccount DEF StatusStep
<1>5. BalanceIsLedger' /\ NoOverdraft'
  BY <1>1, <1>4, AccountStep DEF BalanceIsLedger, NoOverdraft, Account
<1>6. ASSUME NEW a \in Account, status'[a] = "closed" PROVE balance'[a] = 0
  <2>1. status[a] = "closed" => balance[a] = 0
    BY DEF BalanceInv, ClosedIsEmpty
  <2>2. CASE PostingStep
    BY <1>4, <1>6, <2>1, <2>2 DEF PostingStep, OneMoreEntry
  <2>3. CASE StatusStep
    BY <1>6, <2>1, <2>3 DEF StatusStep
  <2> QED
    BY <1>3, <2>2, <2>3
<1>7. ClosedIsEmpty'
  BY <1>6 DEF ClosedIsEmpty
<1> QED
  BY <1>1, <1>5, <1>7 DEF BalanceInv

LEMMA BalanceInit == Init => BalanceInv
<1> SUFFICES ASSUME Init PROVE BalanceInv
  OBVIOUS
<1>1. TypeOK
  BY DEF Init, TypeOK
<1>2. \A a \in Account : Len(entries[a]) = 0 /\ balance[a] = 0 /\ status[a] = "active"
  BY DEF Init
<1>3. BalanceIsLedger /\ NoOverdraft /\ ClosedIsEmpty
  BY <1>2 DEF BalanceIsLedger, NoOverdraft, ClosedIsEmpty, AfterEntry, Account
<1> QED
  BY <1>1, <1>3 DEF BalanceInv

\* The three balance invariants hold for every number of accounts and keys.
THEOREM BalancesCorrect ==
  Spec => [](BalanceIsLedger /\ NoOverdraft /\ ClosedIsEmpty)
<1>1. Init => BalanceInv
  BY BalanceInit
<1>2. BalanceInv /\ [Next]_vars => BalanceInv'
  BY BalanceStep
<1>3. BalanceInv => BalanceIsLedger /\ NoOverdraft /\ ClosedIsEmpty
  BY DEF BalanceInv
<1> QED
  BY <1>1, <1>2, <1>3, PTL DEF Spec

\* What the run checks of balances and statuses, for any bank.
COROLLARY BalancesStayAllowed == Spec => []BalancesAllowed
<1>1. TypeOK /\ NoOverdraft /\ ClosedIsEmpty => BalancesAllowed
  BY DEF BalancesAllowed
<1> QED
  BY <1>1, TypeCorrect, BalancesCorrect, PTL

(***************************************************************************)
(* History.  Entries are kept because a step appends at most one to each   *)
(* account, rows because every handler looks at the status it changes.     *)
(***************************************************************************)

\* What one step may do to a row that is no longer pending.
LEMMA SettledRowStep ==
  ASSUME TypeOK, [Next]_vars, NEW k \in Key, Recorded(k), txn[k].status # "pending"
  PROVE  \/ txn'[k] = txn[k]
         \/ /\ txn[k].status = "settled"
            /\ txn'[k] = [txn[k] EXCEPT !.status = "reversed"]
<1>1. CASE UNCHANGED vars
  BY <1>1 DEF vars
<1>2. ASSUME NEW l \in Key, ~Recorded(l), NEW row, txn' = [txn EXCEPT ![l] = row]
      PROVE  txn'[k] = txn[k]
  BY <1>2 DEF TypeOK
<1>3. CASE \E l \in Key, s \in Wallet, r \in Wallet, m \in Amount : Transfer(l, s, r, m)
  BY <1>2, <1>3 DEF Transfer, PostTransaction
<1>4. CASE \E l \in Key, c \in System, r \in Wallet, m \in Amount : BankDeposit(l, c, r, m)
  BY <1>2, <1>4 DEF BankDeposit, PostTransaction
<1>5. CASE \E l \in Key, a \in Wallet : CheckLinkTarget(l, a)
  BY <1>5 DEF CheckLinkTarget
<1>6. CASE \E l \in Key, c \in System, a \in Wallet, m \in Amount : StartCardLink(l, c, a, m)
  BY <1>2, <1>6 DEF StartCardLink
<1>7. CASE \E l \in Key : SettlePending(l)
  BY <1>7 DEF SettlePending, TypeOK
<1>8. CASE \E l \in Key : FailPending(l)
  BY <1>8 DEF FailPending, TypeOK
<1>9. CASE \E l \in Key, o \in Key : Reverse(l, o)
  <2>1. PICK l \in Key, o \in Key : Reverse(l, o)
    BY <1>9
  <2>2. l # k /\ l # o /\ txn[o].status = "settled"
    BY <2>1 DEF Reverse
  <2>3. CASE k = o
    BY <2>1, <2>2, <2>3 DEF Reverse, TypeOK
  <2>4. CASE k # o
    BY <2>1, <2>2, <2>4 DEF Reverse, TypeOK
  <2> QED
    BY <2>3, <2>4
<1>10. CASE \E a \in Wallet : FreezeAccount(a) \/ UnfreezeAccount(a) \/ CloseAccount(a)
  BY <1>10 DEF FreezeAccount, UnfreezeAccount, CloseAccount
<1> QED
  BY <1>1, <1>3, <1>4, <1>5, <1>6, <1>7, <1>8, <1>9, <1>10 DEF Next

LEMMA HistoryOfStep ==
  ASSUME BalanceInv, [Next]_vars
  PROVE  HistoryStep
<1>1. TypeOK /\ \A a \in Wallet : balance[a] >= 0
  BY DEF BalanceInv, NoOverdraft
<1>2. PostingStep \/ StatusStep
  BY <1>1, StepKinds
<1>3. ASSUME NEW a \in Account
      PROVE  /\ Len(entries'[a]) >= Len(entries[a])
             /\ \A i \in 1 .. Len(entries[a]) : entries'[a][i] = entries[a][i]
  <2>1. Len(entries[a]) \in Nat
    BY <1>1 DEF TypeOK
  <2>2. CASE entries'[a] = entries[a]
    BY <2>1, <2>2
  <2>3. CASE OneMoreEntry(a)
    BY <1>1, <2>1, <2>3, AppendEntry DEF OneMoreEntry
  <2> QED
    BY <1>1, <1>2, <2>2, <2>3, PostingPerAccount DEF StatusStep
<1> QED
  BY <1>1, <1>3, SettledRowStep DEF HistoryStep

\* No step rewrites an entry, or a transaction that has left "pending" except
\* to mark it reversed: for any accounts, keys and currencies.
THEOREM HistoryIsKept == Spec => HistoryKept
<1>1. Init => BalanceInv
  BY BalanceInit
<1>2. BalanceInv /\ [Next]_vars => BalanceInv'
  BY BalanceStep
<1>3. BalanceInv /\ [Next]_vars => [HistoryStep]_vars
  BY HistoryOfStep
<1> QED
  BY <1>1, <1>2, <1>3, PTL DEF Spec, HistoryKept

(***************************************************************************)
(* What a step does to the rows, whoever takes it.                         *)
(***************************************************************************)

\* A row is added that reverses nothing: pending, or settled at once.
AddsRow(k) ==
  \E t \in Txn :
    /\ ~Recorded(k)
    /\ t.reverses = NoKey /\ t.status \in {"pending", "settled"}
    /\ txn' = [txn EXCEPT ![k] = t]

\* A pending row gets its outcome.
DecidesRow(k) ==
  /\ Recorded(k) /\ txn[k].status = "pending"
  /\ \E st \in {"settled", "failed"} : txn' = [txn EXCEPT ![k].status = st]

LEMMA RowSteps ==
  ASSUME TypeOK, [Next]_vars
  PROVE  \/ UNCHANGED txn
         \/ \E k \in Key : AddsRow(k) \/ DecidesRow(k)
         \/ \E k, o \in Key : Reverse(k, o)
<1> USE DEF Account
<1>1. CASE UNCHANGED vars
  BY <1>1 DEF vars
<1>2. ASSUME NEW k \in Key, NEW type \in TxnType, NEW s \in Account, NEW r \in Account,
             NEW m \in Amount, PostTransaction(k, type, s, r, m)
      PROVE  AddsRow(k)
  <2>1. Row(type, s, r, m, "settled", NoKey) \in Txn
    BY NewRow DEF TxnStatus
  <2> QED
    BY <1>2, <2>1 DEF PostTransaction, AddsRow, Row
<1>3. CASE \E k \in Key, s \in Wallet, r \in Wallet, m \in Amount : Transfer(k, s, r, m)
  BY <1>2, <1>3 DEF Transfer, TxnType
<1>4. CASE \E k \in Key, c \in System, r \in Wallet, m \in Amount : BankDeposit(k, c, r, m)
  BY <1>2, <1>4 DEF BankDeposit, TxnType
<1>5. CASE \E k \in Key, a \in Wallet : CheckLinkTarget(k, a)
  BY <1>5 DEF CheckLinkTarget
<1>6. CASE \E k \in Key, c \in System, a \in Wallet, m \in Amount : StartCardLink(k, c, a, m)
  <2>1. PICK k \in Key, c \in System, a \in Wallet, m \in Amount : StartCardLink(k, c, a, m)
    BY <1>6
  <2>2. Row("card_payment", c, a, m, "pending", NoKey) \in Txn
    BY NewRow DEF TxnStatus, TxnType
  <2>3. AddsRow(k)
    BY <2>1, <2>2 DEF StartCardLink, AddsRow, Row
  <2> QED
    BY <2>3
<1>7. CASE \E k \in Key : SettlePending(k) \/ FailPending(k)
  BY <1>7 DEF SettlePending, FailPending, DecidesRow
<1>8. CASE \E k \in Key, o \in Key : Reverse(k, o)
  BY <1>8
<1>9. CASE \E a \in Wallet : FreezeAccount(a) \/ UnfreezeAccount(a) \/ CloseAccount(a)
  BY <1>9 DEF FreezeAccount, UnfreezeAccount, CloseAccount
<1> QED
  BY <1>1, <1>3, <1>4, <1>5, <1>6, <1>7, <1>8, <1>9 DEF Next

(***************************************************************************)
(* Refunds.  ReversedOnce is inductive once it is known that a refund's    *)
(* row names a recorded transfer, and that a refund is no transfer itself. *)
(***************************************************************************)

IsRefundOf(k, o) ==
  /\ txn[k].type = "refund" /\ txn[k].status = "settled"
  /\ Recorded(o) /\ txn[o].status = "reversed"
  /\ txn[k].sender = txn[o].receiver /\ txn[k].receiver = txn[o].sender
  /\ txn[k].amount = txn[o].amount

RefundInv ==
  /\ \A k, o \in Key : Recorded(k) /\ txn[k].reverses = o => IsRefundOf(k, o)
  /\ \A k, l, o \in Key :
       /\ Recorded(k) /\ Recorded(l)
       /\ txn[k].reverses = o /\ txn[l].reverses = o
       => k = l
  /\ \A o \in Key : Recorded(o) /\ txn[o].status = "reversed" =>
       \E k \in Key : Recorded(k) /\ txn[k].reverses = o

LEMMA RefundStep ==
  ASSUME TypeOK, RefundInv, [Next]_vars
  PROVE  RefundInv'
<1> USE KeyAssumption
<1>1. CASE UNCHANGED txn
  BY <1>1 DEF RefundInv, IsRefundOf, Recorded
<1>2. CASE \E k \in Key : AddsRow(k)
  <2>1. PICK n \in Key, t \in Txn :
          /\ ~Recorded(n) /\ t.reverses = NoKey /\ t.status \in {"pending", "settled"}
          /\ txn' = [txn EXCEPT ![n] = t]
    BY <1>2 DEF AddsRow
  <2>2. txn'[n] = t /\ \A k \in Key \ {n} : txn'[k] = txn[k]
    BY <2>1 DEF TypeOK
  <2>3. ASSUME NEW k \in Key, NEW o \in Key, Recorded(k)', txn'[k].reverses = o
        PROVE  Recorded(k) /\ txn'[k] = txn[k] /\ IsRefundOf(k, o)'
    <3>1. k # n /\ Recorded(k) /\ txn'[k] = txn[k]
      BY <2>1, <2>2, <2>3 DEF Recorded
    <3>2. IsRefundOf(k, o)
      BY <2>3, <3>1 DEF RefundInv
    <3> QED
      BY <2>1, <2>2, <3>1, <3>2 DEF IsRefundOf, Recorded
  <2>4. ASSUME NEW o \in Key, Recorded(o)', txn'[o].status = "reversed"
        PROVE  \E k \in Key : Recorded(k)' /\ txn'[k].reverses = o
    <3>1. o # n /\ Recorded(o) /\ txn[o].status = "reversed"
      BY <2>1, <2>2, <2>4 DEF Recorded
    <3>2. PICK k \in Key : Recorded(k) /\ txn[k].reverses = o
      BY <3>1 DEF RefundInv
    <3> QED
      BY <2>1, <2>2, <3>2 DEF Recorded
  <2>5. ASSUME NEW k \in Key, NEW l \in Key, NEW o \in Key, Recorded(k)', Recorded(l)',
               txn'[k].reverses = o, txn'[l].reverses = o
        PROVE  k = l
    <3>1. Recorded(k) /\ Recorded(l) /\ txn'[k] = txn[k] /\ txn'[l] = txn[l]
      BY <2>3, <2>5
    <3> QED
      BY <2>5, <3>1 DEF RefundInv
  <2> QED
    BY <2>3, <2>4, <2>5 DEF RefundInv
<1>3. CASE \E k \in Key : DecidesRow(k)
  <2>1. PICK n \in Key, st \in {"settled", "failed"} :
          /\ Recorded(n) /\ txn[n].status = "pending"
          /\ txn' = [txn EXCEPT ![n].status = st]
    BY <1>3 DEF DecidesRow
  <2>2. txn[n] \in Txn
    BY <2>1, RecordedIsTxn
  <2>3. /\ txn'[n] = [txn[n] EXCEPT !.status = st]
        /\ \A k \in Key \ {n} : txn'[k] = txn[k]
    BY <2>1 DEF TypeOK
  <2>4. txn[n].reverses = NoKey
    BY <2>1, <2>2 DEF RefundInv, IsRefundOf, Txn
  <2>5. \A k \in Key : Recorded(k)' <=> Recorded(k)
    <3>1. txn'[n] \in Txn
      BY <2>1, <2>2, <2>3, RowType DEF TxnStatus
    <3> QED
      BY <2>1, <2>3, <3>1, NoTxnAssumption DEF Recorded
  <2>6. \A k \in Key : Recorded(k) => txn'[k].reverses = txn[k].reverses
    BY <2>2, <2>3 DEF Txn
  <2>7. ASSUME NEW k \in Key, NEW o \in Key, Recorded(k)', txn'[k].reverses = o
        PROVE  IsRefundOf(k, o)'
    <3>1. IsRefundOf(k, o)
      BY <2>5, <2>6, <2>7 DEF RefundInv
    <3>2. k # n /\ o # n
      BY <2>1, <3>1 DEF IsRefundOf
    <3> QED
      BY <2>3, <2>5, <3>1, <3>2 DEF IsRefundOf
  <2>8. ASSUME NEW o \in Key, Recorded(o)', txn'[o].status = "reversed"
        PROVE  \E k \in Key : Recorded(k)' /\ txn'[k].reverses = o
    <3>1. Recorded(o) /\ txn[o].status = "reversed"
      BY <2>2, <2>3, <2>5, <2>8 DEF Txn
    <3> QED
      BY <2>5, <2>6, <3>1 DEF RefundInv
  <2>9. \A k, l, o \in Key :
          /\ Recorded(k)' /\ Recorded(l)'
          /\ txn'[k].reverses = o /\ txn'[l].reverses = o
          => k = l
    BY <2>5, <2>6 DEF RefundInv
  <2> QED
    BY <2>7, <2>8, <2>9 DEF RefundInv
<1>4. CASE \E k, o \in Key : Reverse(k, o)
  <2>1. PICK n \in Key, p \in Key : Reverse(n, p)
    BY <1>4
  <2> DEFINE t == Row("refund", txn[p].receiver, txn[p].sender, txn[p].amount, "settled", p)
  <2>2. ~Recorded(n) /\ Recorded(p) /\ n # p /\ txn[p] \in Txn
        /\ txn[p].type = "transfer" /\ txn[p].status = "settled"
    BY <2>1, RecordedIsTxn DEF Reverse
  <2>3. /\ txn'[n] = t
        /\ txn'[p] = [txn[p] EXCEPT !.status = "reversed"]
        /\ \A k \in Key \ {n, p} : txn'[k] = txn[k]
    BY <2>1, <2>2 DEF Reverse, TypeOK
  <2>4. t \in Txn
    BY <2>2, NewRow DEF Txn, TxnType, TxnStatus
  <2>5. [txn[p] EXCEPT !.status = "reversed"] \in Txn
    BY <2>2, RowType DEF TxnStatus
  <2>6. Recorded(n)' /\ Recorded(p)' /\ \A k \in Key \ {n} : Recorded(k)' <=> Recorded(k)
    BY <2>2, <2>3, <2>4, <2>5, NoTxnAssumption DEF Recorded
  <2>7. txn[p].reverses = NoKey /\ txn'[p].reverses = NoKey
    BY <2>2, <2>3 DEF RefundInv, IsRefundOf, Txn
  <2>8. \A k \in Key : Recorded(k) => txn[k].reverses # p
    BY <2>2 DEF RefundInv, IsRefundOf
  <2>9. txn'[n].reverses = p /\ IsRefundOf(n, p)'
    BY <2>2, <2>3, <2>6 DEF IsRefundOf, Row, Txn
  <2>10. ASSUME NEW k \in Key, NEW o \in Key, k # n, Recorded(k)', txn'[k].reverses = o
         PROVE  txn'[k] = txn[k] /\ Recorded(k) /\ IsRefundOf(k, o)' /\ o # p
    <3>1. k # p /\ txn'[k] = txn[k] /\ Recorded(k)
      BY <2>3, <2>6, <2>7, <2>10
    <3>2. IsRefundOf(k, o) /\ o # p /\ o # n
      BY <2>2, <2>8, <2>10, <3>1 DEF RefundInv, IsRefundOf
    <3> QED
      BY <2>3, <2>6, <3>1, <3>2 DEF IsRefundOf
  <2>11. ASSUME NEW o \in Key, Recorded(o)', txn'[o].status = "reversed"
         PROVE  \E k \in Key : Recorded(k)' /\ txn'[k].reverses = o
    <3>1. CASE o = p
      BY <2>6, <2>9, <3>1
    <3>2. CASE o = n
      BY <2>3, <2>11, <3>2 DEF Row
    <3>3. CASE o # p /\ o # n
      <4>1. PICK k \in Key : Recorded(k) /\ txn[k].reverses = o
        BY <2>3, <2>6, <2>11, <3>3 DEF RefundInv
      <4>2. k # n /\ k # p
        BY <2>2, <2>7, <4>1
      <4> QED
        BY <2>3, <2>6, <4>1, <4>2
    <3> QED
      BY <3>1, <3>2, <3>3
  <2>12. ASSUME NEW k \in Key, NEW l \in Key, NEW o \in Key, Recorded(k)', Recorded(l)',
                txn'[k].reverses = o, txn'[l].reverses = o
         PROVE  k = l
    <3>1. CASE k = n \/ l = n
      BY <2>9, <2>10, <2>12, <3>1
    <3>2. CASE k # n /\ l # n
      BY <2>10, <2>12, <3>2 DEF RefundInv
    <3> QED
      BY <3>1, <3>2
  <2>13. ASSUME NEW k \in Key, NEW o \in Key, Recorded(k)', txn'[k].reverses = o
         PROVE  IsRefundOf(k, o)'
    BY <2>9, <2>10, <2>13
  <2> QED
    BY <2>11, <2>12, <2>13 DEF RefundInv
<1> QED
  BY <1>1, <1>2, <1>3, <1>4, RowSteps

\* No transfer is given back twice, and a refund is the transfer the other
\* way round: for any number of transactions and attempts.
THEOREM ReversalsCorrect == Spec => []ReversedOnce
<1>1. Init => TypeOK /\ RefundInv
  BY BalanceInit DEF Init, RefundInv, Recorded, BalanceInv
<1>2. TypeOK /\ RefundInv /\ [Next]_vars => (TypeOK /\ RefundInv)'
  BY TypeStep, RefundStep
<1>3. TypeOK /\ RefundInv => ReversedOnce
  <2> SUFFICES ASSUME TypeOK, RefundInv, NEW o \in Key, Recorded(o)
               PROVE  /\ Refunds(o) # {} <=> txn[o].status = "reversed"
                      /\ \A k \in Refunds(o), l \in Refunds(o) : k = l
                      /\ \A k \in Refunds(o) : IsRefundOf(k, o)
    BY DEF ReversedOnce, IsRefundOf
  <2>1. o # NoKey
    BY KeyAssumption
  <2>2. \A k \in Refunds(o) : IsRefundOf(k, o)
    BY <2>1 DEF Refunds, RefundInv
  <2>3. \A k \in Refunds(o), l \in Refunds(o) : k = l
    BY <2>1 DEF Refunds, RefundInv
  <2>4. Refunds(o) # {} <=> txn[o].status = "reversed"
    BY <2>2 DEF Refunds, RefundInv, IsRefundOf
  <2> QED
    BY <2>2, <2>3, <2>4
<1> QED
  BY <1>1, <1>2, <1>3, PTL DEF Spec

(***************************************************************************)
(* Double entry.  DoubleEntry is inductive as it stands: a transaction     *)
(* that has moved nothing has no entry yet, so the two that a posting step *)
(* appends are all it ever gets.                                           *)
(***************************************************************************)

\* EntriesOf and the entries themselves, for any entries e.
EntriesIn(e, k) ==
  UNION {{a} \X {i \in DOMAIN e[a] : e[a][i].txn = k} : a \in Account}

WrittenIn(e, k, s, r, m) ==
  \E i \in DOMAIN e[s], j \in DOMAIN e[r] :
    /\ EntriesIn(e, k) = {<<s, i>>, <<r, j>>}
    /\ e[s][i].direction = "DEBIT"  /\ e[s][i].amount = m
    /\ e[r][j].direction = "CREDIT" /\ e[r][j].amount = m

LEMMA InEntries ==
  ASSUME NEW e, NEW k, NEW a, NEW i
  PROVE  <<a, i>> \in EntriesIn(e, k) <=>
           a \in Account /\ i \in DOMAIN e[a] /\ e[a][i].txn = k
  BY DEF EntriesIn

LEMMA EntriesArePairs ==
  ASSUME NEW e, NEW k, NEW p \in EntriesIn(e, k)
  PROVE  \E a, i : p = <<a, i>>
  BY DEF EntriesIn

\* Two sets of places are equal when they have the same places.
LEMMA SameEntries ==
  ASSUME NEW e, NEW f, NEW k,
         \A a \in Account : \A i :
           i \in DOMAIN e[a] /\ e[a][i].txn = k <=> i \in DOMAIN f[a] /\ f[a][i].txn = k
  PROVE  EntriesIn(e, k) = EntriesIn(f, k)
<1>1. ASSUME NEW a, NEW i
      PROVE  <<a, i>> \in EntriesIn(e, k) <=> <<a, i>> \in EntriesIn(f, k)
  <2>1. <<a, i>> \in EntriesIn(e, k) <=> a \in Account /\ i \in DOMAIN e[a] /\ e[a][i].txn = k
    BY InEntries
  <2>2. <<a, i>> \in EntriesIn(f, k) <=> a \in Account /\ i \in DOMAIN f[a] /\ f[a][i].txn = k
    BY InEntries
  <2> QED
    BY <2>1, <2>2
<1> QED
  BY <1>1, EntriesArePairs

\* Writing transaction k appends its two entries and touches no other.
LEMMA WriteEntriesOf ==
  ASSUME TypeOK, NEW k \in Key, NEW s \in Account, NEW r \in Account, NEW m \in Amount,
         s # r, WriteEntries(k, s, r, m)
  PROVE  /\ \A a \in Account : \A i \in DOMAIN entries[a] :
              i \in DOMAIN entries'[a] /\ entries'[a][i] = entries[a][i]
         /\ \A l \in Key \ {k} : EntriesIn(entries', l) = EntriesIn(entries, l)
         /\ EntriesIn(entries, k) = {} => WrittenIn(entries', k, s, r, m)
<1> DEFINE d == [txn |-> k, direction |-> "DEBIT", amount |-> m, after |-> balance[s] - m]
           c == [txn |-> k, direction |-> "CREDIT", amount |-> m, after |-> balance[r] + m]
<1>1. /\ entries'[s] = Append(entries[s], d)
      /\ entries'[r] = Append(entries[r], c)
      /\ \A a \in Account \ {s, r} : entries'[a] = entries[a]
  BY DEF WriteEntries, TypeOK
<1>2. d \in Entry /\ c \in Entry
  <2>1. balance[s] \in Int /\ balance[r] \in Int /\ m \in Int
    BY AmountAssumption DEF TypeOK, Amount
  <2> QED
    BY <2>1 DEF Entry
<1>3. d.txn = k /\ c.txn = k /\ d.direction = "DEBIT" /\ c.direction = "CREDIT"
      /\ d.amount = m /\ c.amount = m
  OBVIOUS
<1> HIDE DEF d, c
<1>4. PICK x \in Nat, y \in Nat :
        /\ DOMAIN entries[s] = 1 .. x /\ DOMAIN entries'[s] = 1 .. x + 1
        /\ DOMAIN entries[r] = 1 .. y /\ DOMAIN entries'[r] = 1 .. y + 1
        /\ entries'[s][x + 1] = d /\ entries'[r][y + 1] = c
        /\ \A i \in 1 .. x : entries'[s][i] = entries[s][i]
        /\ \A i \in 1 .. y : entries'[r][i] = entries[r][i]
  <2>1. entries[s] \in Seq(Entry) /\ entries[r] \in Seq(Entry)
    BY DEF TypeOK
  <2>2. /\ DOMAIN entries[s] = 1 .. Len(entries[s])
        /\ DOMAIN entries'[s] = 1 .. Len(entries[s]) + 1
        /\ entries'[s][Len(entries[s]) + 1] = d
        /\ Len(entries[s]) \in Nat
        /\ \A i \in 1 .. Len(entries[s]) : entries'[s][i] = entries[s][i]
    BY <1>1, <1>2, <2>1
  <2>3. /\ DOMAIN entries[r] = 1 .. Len(entries[r])
        /\ DOMAIN entries'[r] = 1 .. Len(entries[r]) + 1
        /\ entries'[r][Len(entries[r]) + 1] = c
        /\ Len(entries[r]) \in Nat
        /\ \A i \in 1 .. Len(entries[r]) : entries'[r][i] = entries[r][i]
    BY <1>1, <1>2, <2>1
  <2> QED
    BY <2>2, <2>3
<1>5. \A a \in Account : \A i \in DOMAIN entries[a] :
        i \in DOMAIN entries'[a] /\ entries'[a][i] = entries[a][i]
  <2> TAKE a \in Account
  <2>1. CASE a = s
    BY <1>4, <2>1
  <2>2. CASE a = r
    BY <1>4, <2>2
  <2>3. CASE a # s /\ a # r
    BY <1>1, <2>3
  <2> QED
    BY <2>1, <2>2, <2>3
<1>6. \A a \in Account : \A i :
        i \in DOMAIN entries'[a] <=>
          i \in DOMAIN entries[a] \/ <<a, i>> = <<s, x + 1>> \/ <<a, i>> = <<r, y + 1>>
  <2> TAKE a \in Account
  <2>1. CASE a = s
    BY <1>4, <2>1
  <2>2. CASE a = r
    BY <1>4, <2>2
  <2>3. CASE a # s /\ a # r
    BY <1>1, <2>3
  <2> QED
    BY <2>1, <2>2, <2>3
<1>7. ASSUME NEW l \in Key \ {k}
      PROVE  EntriesIn(entries', l) = EntriesIn(entries, l)
  <2>1. \A a \in Account : \A i :
          i \in DOMAIN entries'[a] /\ entries'[a][i].txn = l
            <=> i \in DOMAIN entries[a] /\ entries[a][i].txn = l
    BY <1>3, <1>4, <1>5, <1>6
  <2> QED
    BY <2>1, SameEntries
<1>8. ASSUME EntriesIn(entries, k) = {}
      PROVE  WrittenIn(entries', k, s, r, m)
  <2>1. \A a \in Account : \A i \in DOMAIN entries[a] : entries[a][i].txn # k
    BY <1>8, InEntries
  <2>2. ASSUME NEW a, NEW i
        PROVE  <<a, i>> \in EntriesIn(entries', k)
                 <=> <<a, i>> = <<s, x + 1>> \/ <<a, i>> = <<r, y + 1>>
    <3>1. <<a, i>> \in EntriesIn(entries', k)
            <=> a \in Account /\ i \in DOMAIN entries'[a] /\ entries'[a][i].txn = k
      BY InEntries
    <3>2. CASE a \in Account /\ i \in DOMAIN entries[a]
      <4>1. entries'[a][i].txn # k
        BY <1>5, <2>1, <3>2
      <4>2. <<a, i>> # <<s, x + 1>> /\ <<a, i>> # <<r, y + 1>>
        BY <1>4, <3>2
      <4> QED
        BY <3>1, <4>1, <4>2
    <3>3. CASE a \in Account /\ i \notin DOMAIN entries[a]
      BY <1>3, <1>4, <1>6, <3>1, <3>3
    <3>4. CASE a \notin Account
      BY <3>1, <3>4
    <3> QED
      BY <3>2, <3>3, <3>4
  <2>3. EntriesIn(entries', k) = {<<s, x + 1>>, <<r, y + 1>>}
    BY <2>2, EntriesArePairs
  <2>4. x + 1 \in DOMAIN entries'[s] /\ y + 1 \in DOMAIN entries'[r]
    BY <1>4
  <2> QED
    BY <1>3, <1>4, <2>3, <2>4 DEF WrittenIn
<1> QED
  BY <1>5, <1>7, <1>8

\* What a row says of its money.
SameMoney(l) ==
  /\ Moved(l)' <=> Moved(l)
  /\ Moved(l) => /\ txn'[l].sender = txn[l].sender
                 /\ txn'[l].receiver = txn[l].receiver
                 /\ txn'[l].amount = txn[l].amount

\* Transaction k moves its money now.
Moves(k) ==
  \E t \in Txn :
    /\ ~Moved(k)
    /\ t.status = "settled" /\ txn'[k] = t
    /\ CanPost(t.sender, t.receiver, t.amount, Currency[t.sender])
    /\ WriteEntries(k, t.sender, t.receiver, t.amount)
    /\ \A l \in Key \ {k} : SameMoney(l)

LEMMA MoneySteps ==
  ASSUME TypeOK, [Next]_vars
  PROVE  \/ UNCHANGED entries /\ \A l \in Key : SameMoney(l)
         \/ \E k \in Key : Moves(k)
<1> USE DEF Account
<1>1. CASE UNCHANGED vars
  BY <1>1 DEF vars, SameMoney, Moved, Recorded
<1>2. ASSUME NEW k \in Key, NEW type \in TxnType, NEW s \in Account, NEW r \in Account,
             NEW m \in Amount, PostTransaction(k, type, s, r, m)
      PROVE  Moves(k)
  <2> DEFINE t == Row(type, s, r, m, "settled", NoKey)
  <2>1. t \in Txn
    BY NewRow DEF TxnStatus
  <2>2. txn'[k] = t /\ \A l \in Key \ {k} : txn'[l] = txn[l]
    BY <1>2 DEF PostTransaction, TypeOK
  <2>3. t.status = "settled" /\ t.sender = s /\ t.receiver = r /\ t.amount = m
    BY DEF Row
  <2>4. \A l \in Key \ {k} : SameMoney(l)
    BY <2>2 DEF SameMoney, Moved, Recorded
  <2> QED
    BY <1>2, <2>1, <2>2, <2>3, <2>4 DEF PostTransaction, Moves, Moved
<1>3. CASE \E k \in Key, s \in Wallet, r \in Wallet, m \in Amount : Transfer(k, s, r, m)
  BY <1>2, <1>3 DEF Transfer, TxnType
<1>4. CASE \E k \in Key, c \in System, r \in Wallet, m \in Amount : BankDeposit(k, c, r, m)
  BY <1>2, <1>4 DEF BankDeposit, TxnType
<1>5. CASE \E k \in Key, a \in Wallet : CheckLinkTarget(k, a)
  BY <1>5 DEF CheckLinkTarget, SameMoney, Moved, Recorded
<1>6. CASE \E k \in Key, c \in System, a \in Wallet, m \in Amount : StartCardLink(k, c, a, m)
  <2>1. PICK k \in Key, c \in System, a \in Wallet, m \in Amount : StartCardLink(k, c, a, m)
    BY <1>6
  <2>2. /\ txn'[k].status = "pending"
        /\ \A l \in Key \ {k} : txn'[l] = txn[l]
    BY <2>1 DEF StartCardLink, TypeOK, Row
  <2> QED
    BY <2>1, <2>2 DEF StartCardLink, SameMoney, Moved, Recorded
<1>7. CASE \E k \in Key : SettlePending(k)
  <2>1. PICK k \in Key : SettlePending(k)
    BY <1>7
  <2> DEFINE t == [txn[k] EXCEPT !.status = "settled"]
  <2>2. txn[k] \in Txn
    BY <2>1, RecordedIsTxn DEF SettlePending
  <2>3. t \in Txn
    BY <2>2, RowType DEF TxnStatus
  <2>4. txn'[k] = t /\ \A l \in Key \ {k} : txn'[l] = txn[l]
    BY <2>1 DEF SettlePending, TypeOK
  <2>5. /\ t.status = "settled" /\ t.sender = txn[k].sender
        /\ t.receiver = txn[k].receiver /\ t.amount = txn[k].amount
    BY <2>2 DEF Txn
  <2>6. \A l \in Key \ {k} : SameMoney(l)
    BY <2>4 DEF SameMoney, Moved, Recorded
  <2>7. Moves(k)
    BY <2>1, <2>3, <2>4, <2>5, <2>6 DEF SettlePending, Moves, Moved
  <2> QED
    BY <2>7
<1>8. CASE \E k \in Key : FailPending(k)
  <2>1. PICK k \in Key : FailPending(k)
    BY <1>8
  <2>2. txn[k] \in Txn
    BY <2>1, RecordedIsTxn DEF FailPending
  <2>3. txn'[k].status = "failed" /\ \A l \in Key \ {k} : txn'[l] = txn[l]
    BY <2>1, <2>2 DEF FailPending, TypeOK, Txn
  <2> QED
    BY <2>1, <2>3 DEF FailPending, SameMoney, Moved, Recorded
<1>9. CASE \E k \in Key, o \in Key : Reverse(k, o)
  <2>1. PICK k \in Key, o \in Key : Reverse(k, o)
    BY <1>9
  <2> DEFINE t == Row("refund", txn[o].receiver, txn[o].sender, txn[o].amount, "settled", o)
  <2>2. k # o /\ ~Recorded(k) /\ Recorded(o) /\ txn[o] \in Txn /\ txn[o].status = "settled"
    BY <2>1, RecordedIsTxn DEF Reverse
  <2>3. t \in Txn
    BY <2>2, NewRow DEF Txn, TxnType, TxnStatus
  <2>4. /\ txn'[k] = t
        /\ txn'[o] = [txn[o] EXCEPT !.status = "reversed"]
        /\ \A l \in Key \ {k, o} : txn'[l] = txn[l]
    BY <2>1, <2>2 DEF Reverse, TypeOK
  <2>5. /\ t.status = "settled" /\ t.sender = txn[o].receiver
        /\ t.receiver = txn[o].sender /\ t.amount = txn[o].amount
    BY DEF Row
  <2>6. SameMoney(o)
    <3>1. txn'[o] \in Txn
      BY <2>2, <2>4, RowType DEF TxnStatus
    <3>2. Recorded(o)'
      BY <3>1, NoTxnAssumption DEF Recorded
    <3> QED
      BY <2>2, <2>4, <3>2 DEF SameMoney, Moved, Txn
  <2>7. \A l \in Key \ {k} : SameMoney(l)
    BY <2>4, <2>6 DEF SameMoney, Moved, Recorded
  <2>8. CanPost(t.sender, t.receiver, t.amount, Currency[t.sender])
    <3>1. CanPost(txn[o].receiver, txn[o].sender, txn[o].amount, Currency[txn[o].sender])
      BY <2>1 DEF Reverse
    <3> QED
      BY <2>5, <3>1 DEF CanPost
  <2>9. Moves(k)
    BY <2>1, <2>2, <2>3, <2>4, <2>5, <2>7, <2>8 DEF Reverse, Moves, Moved
  <2> QED
    BY <2>9
<1>10. CASE \E a \in Wallet : FreezeAccount(a) \/ UnfreezeAccount(a) \/ CloseAccount(a)
  BY <1>10 DEF FreezeAccount, UnfreezeAccount, CloseAccount, SameMoney, Moved, Recorded
<1> QED
  BY <1>1, <1>3, <1>4, <1>5, <1>6, <1>7, <1>8, <1>9, <1>10 DEF Next

LEMMA DoubleEntryStep ==
  ASSUME TypeOK, DoubleEntry, [Next]_vars
  PROVE  DoubleEntry'
<1>1. ASSUME NEW k \in Key
      PROVE  IF Moved(k)
             THEN /\ Currency[txn[k].sender] = Currency[txn[k].receiver]
                  /\ WrittenIn(entries, k, txn[k].sender, txn[k].receiver, txn[k].amount)
             ELSE EntriesIn(entries, k) = {}
  BY DEF DoubleEntry, WrittenIn, EntriesIn, EntriesOf
<1>2. SUFFICES ASSUME NEW k \in Key
               PROVE  IF Moved(k)'
                      THEN /\ Currency[txn'[k].sender] = Currency[txn'[k].receiver]
                           /\ WrittenIn(entries', k, txn'[k].sender, txn'[k].receiver, txn'[k].amount)
                      ELSE EntriesIn(entries', k) = {}
  BY DEF DoubleEntry, WrittenIn, EntriesIn, EntriesOf
<1>3. CASE UNCHANGED entries /\ \A l \in Key : SameMoney(l)
  BY <1>1, <1>3 DEF SameMoney
<1>4. CASE \E n \in Key : Moves(n)
  <2>1. PICK n \in Key, t \in Txn :
          /\ ~Moved(n)
          /\ t.status = "settled" /\ txn'[n] = t
          /\ CanPost(t.sender, t.receiver, t.amount, Currency[t.sender])
          /\ WriteEntries(n, t.sender, t.receiver, t.amount)
          /\ \A l \in Key \ {n} : SameMoney(l)
    BY <1>4 DEF Moves
  <2>2. /\ t.sender \in Account /\ t.receiver \in Account /\ t.amount \in Amount
        /\ t.sender # t.receiver /\ Currency[t.sender] = Currency[t.receiver]
    BY <2>1 DEF Txn, CanPost
  <2>3. /\ \A a \in Account : \A i \in DOMAIN entries[a] :
             i \in DOMAIN entries'[a] /\ entries'[a][i] = entries[a][i]
        /\ \A l \in Key \ {n} : EntriesIn(entries', l) = EntriesIn(entries, l)
        /\ EntriesIn(entries, n) = {}
             => WrittenIn(entries', n, t.sender, t.receiver, t.amount)
    BY <2>1, <2>2, WriteEntriesOf
  <2>4. CASE k = n
    <3>1. Moved(n)'
      BY <2>1, NoTxnAssumption DEF Moved, Recorded
    <3> QED
      BY <1>1, <2>1, <2>2, <2>3, <2>4, <3>1
  <2>5. CASE k # n /\ Moved(k)
    <3> DEFINE s == txn[k].sender
               r == txn[k].receiver
               m == txn[k].amount
    <3>1. txn[k] \in Txn
      BY <2>5, RecordedIsTxn DEF Moved
    <3>2. s \in Account /\ r \in Account
      BY <3>1 DEF Txn
    <3>3. WrittenIn(entries, k, s, r, m) /\ Currency[s] = Currency[r]
      BY <1>1, <2>5
    <3>4. SameMoney(k)
      BY <2>1, <2>5
    <3>5. Moved(k)' /\ txn'[k].sender = s /\ txn'[k].receiver = r /\ txn'[k].amount = m
      BY <2>5, <3>4 DEF SameMoney
    <3>6. EntriesIn(entries', k) = EntriesIn(entries, k)
      BY <2>3, <2>5
    <3> HIDE DEF s, r, m
    <3>7. WrittenIn(entries', k, s, r, m)
      BY <2>3, <3>2, <3>3, <3>6 DEF WrittenIn
    <3> QED
      BY <3>3, <3>5, <3>7
  <2>6. CASE k # n /\ ~Moved(k)
    BY <1>1, <2>1, <2>3, <2>6 DEF SameMoney
  <2> QED
    BY <2>4, <2>5, <2>6
<1> QED
  BY <1>3, <1>4, MoneySteps

\* Every transaction that moved money has its two entries and no other has
\* any: for any accounts, currencies, keys and orders of the handlers.
THEOREM DoubleEntryKept == Spec => []DoubleEntry
<1>1. Init => TypeOK /\ DoubleEntry
  <2> SUFFICES ASSUME Init PROVE DoubleEntry
    BY BalanceInit DEF BalanceInv
  <2>1. \A a \in Account : DOMAIN entries[a] = {}
    BY DEF Init
  <2>2. \A k \in Key : EntriesOf(k) = {}
    BY <2>1 DEF EntriesOf
  <2>3. \A k \in Key : ~Moved(k)
    BY DEF Init, Moved, Recorded
  <2> QED
    BY <2>2, <2>3 DEF DoubleEntry
<1>2. TypeOK /\ DoubleEntry /\ [Next]_vars => (TypeOK /\ DoubleEntry)'
  BY TypeStep, DoubleEntryStep
<1> QED
  BY <1>1, <1>2, PTL DEF Spec

=============================================================================
