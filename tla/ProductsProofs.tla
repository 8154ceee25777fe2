--------------------------- MODULE ProductsProofs ---------------------------
(***************************************************************************)
(* What Goals and Payroll promise for any goals, payees, attempts and      *)
(* amounts: what was saved comes back when a goal closes, and a pay run is *)
(* paid as a whole or not at all.  Both post to the ledger, so the types   *)
(* of its rows and entries are kept by the lemmas of LedgerProofs.         *)
(***************************************************************************)
EXTENDS Goals, Payroll, LedgerProofs, Sums

(***************************************************************************)
(* Goals: savings come back (SavingsComeBack).                             *)
(*                                                                         *)
(* A goal's account holds at least what was contributed and not withdrawn  *)
(* (more, if money came past the goal), and a closing that read its        *)
(* balance has kept the goal from moving since: so what it gives back is   *)
(* at least that, too.                                                     *)
(***************************************************************************)

Saved(g) == Contributed(g) - Withdrawn(g)

\* The account of goal g and what a closing of it read cover what was saved.
Covered(g) ==
  /\ goal[g] = "closed" <=> status[g] = "closed"
  /\ balance[g] >= 0 /\ Saved(g) <= balance[g]
  /\ closing[g] # NotClosing => goal[g] = "active" /\ Saved(g) <= closing[g].left
  /\ goal[g] = "closed" => Saved(g) <= 0

Rows == {k \in Key : Recorded(k)}

GoalsInv ==
  /\ TypeOK /\ GoalsTypeOK
  /\ IsFiniteSet(Rows)
  /\ \A g \in Goal : Covered(g)

\* What is summed up is a whole number, over finitely many rows.
LEMMA RowSums ==
  ASSUME TypeOK, IsFiniteSet(Rows), NEW g
  PROVE  /\ IsFiniteSet(ContributionsTo(g)) /\ IsFiniteSet(WithdrawalsFrom(g))
         /\ \A k \in Rows : RowAmounts[k] \in Int
         /\ Contributed(g) \in Int /\ Withdrawn(g) \in Int
<1>1. ContributionsTo(g) \subseteq Rows /\ WithdrawalsFrom(g) \subseteq Rows
  BY DEF ContributionsTo, WithdrawalsFrom, Rows
<1>2. IsFiniteSet(ContributionsTo(g)) /\ IsFiniteSet(WithdrawalsFrom(g))
  BY <1>1, FS_Subset
<1>3. \A k \in Rows : RowAmounts[k] \in Int
  <2> TAKE k \in Rows
  <2>1. txn[k] \in Txn
    BY RecordedIsTxn DEF Rows
  <2>2. txn[k].amount \in Int
    BY <2>1, AmountAssumption DEF Txn, Amount
  <2> QED
    BY <2>2 DEF RowAmounts, Rows
<1>4. Contributed(g) \in Int
  BY <1>1, <1>2, <1>3, SumIsInt DEF Contributed
<1>5. Withdrawn(g) \in Int
  BY <1>1, <1>2, <1>3, SumIsInt DEF Withdrawn
<1> QED
  BY <1>2, <1>3, <1>4, <1>5

\* A new row adds its amount to the sum it belongs to, if any.
LEMMA RowAdded ==
  ASSUME TypeOK, IsFiniteSet(Rows), NEW k \in Key, ~Recorded(k), NEW row \in Txn,
         txn' = [txn EXCEPT ![k] = row], NEW g
  PROVE  /\ IsFiniteSet(Rows')
         /\ Contributed(g)' = Contributed(g)
              + (IF row.type = "goal_contribution" /\ row.receiver = g THEN row.amount ELSE 0)
         /\ Withdrawn(g)' = Withdrawn(g)
              + (IF row.type = "goal_withdrawal" /\ row.sender = g THEN row.amount ELSE 0)
<1>1. row.amount \in Int /\ row # NoTxn
  BY AmountAssumption, NoTxnAssumption DEF Txn, Amount
<1>2. Rows' = Rows \cup {k} /\ k \notin Rows
  BY <1>1 DEF Rows, Recorded, TypeOK
<1>3. IsFiniteSet(Rows')
  BY <1>2, FS_AddElement
<1>4. txn'[k] = row /\ \A l \in Key : l # k => txn'[l] = txn[l]
  BY DEF TypeOK
<1>5. RowAmounts'[k] = row.amount /\ \A l \in Rows : RowAmounts'[l] = RowAmounts[l]
  BY <1>2, <1>4 DEF RowAmounts, Rows
<1>6. Contributed(g)' = Contributed(g)
        + (IF row.type = "goal_contribution" /\ row.receiver = g THEN row.amount ELSE 0)
  <2> DEFINE C == ContributionsTo(g)
  <2>1. IsFiniteSet(C) /\ C \subseteq Rows /\ k \notin C /\ \A l \in C : RowAmounts[l] \in Int
    BY <1>2, RowSums DEF ContributionsTo, Rows
  <2>2. CASE row.type = "goal_contribution" /\ row.receiver = g
    <3>1. ContributionsTo(g)' = C \cup {k}
      BY <1>1, <1>4, <2>2 DEF ContributionsTo, Recorded
    <3> HIDE DEF C
    <3>2. SumFunctionOnSet(RowAmounts', C \cup {k}) = SumFunctionOnSet(RowAmounts, C) + RowAmounts'[k]
      BY <1>1, <1>5, <2>1, SumGrows
    <3> QED
      BY <1>5, <2>2, <3>1, <3>2 DEF Contributed, C
  <2>3. CASE ~ (row.type = "goal_contribution" /\ row.receiver = g)
    <3>1. ContributionsTo(g)' = C
      BY <1>1, <1>4, <2>3 DEF ContributionsTo, Recorded
    <3> HIDE DEF C
    <3>2. SumFunctionOnSet(RowAmounts', C) = SumFunctionOnSet(RowAmounts, C)
      BY <1>5, <2>1, SumOfSame
    <3>3. Contributed(g)' = Contributed(g)
      BY <3>1, <3>2 DEF Contributed, C
    <3> QED
      BY <2>3, <3>3, RowSums
  <2> QED
    BY <2>2, <2>3
<1>7. Withdrawn(g)' = Withdrawn(g)
        + (IF row.type = "goal_withdrawal" /\ row.sender = g THEN row.amount ELSE 0)
  <2> DEFINE W == WithdrawalsFrom(g)
  <2>1. IsFiniteSet(W) /\ W \subseteq Rows /\ k \notin W /\ \A l \in W : RowAmounts[l] \in Int
    BY <1>2, RowSums DEF WithdrawalsFrom, Rows
  <2>2. CASE row.type = "goal_withdrawal" /\ row.sender = g
    <3>1. WithdrawalsFrom(g)' = W \cup {k}
      BY <1>1, <1>4, <2>2 DEF WithdrawalsFrom, Recorded
    <3> HIDE DEF W
    <3>2. SumFunctionOnSet(RowAmounts', W \cup {k}) = SumFunctionOnSet(RowAmounts, W) + RowAmounts'[k]
      BY <1>1, <1>5, <2>1, SumGrows
    <3> QED
      BY <1>5, <2>2, <3>1, <3>2 DEF Withdrawn, W
  <2>3. CASE ~ (row.type = "goal_withdrawal" /\ row.sender = g)
    <3>1. WithdrawalsFrom(g)' = W
      BY <1>1, <1>4, <2>3 DEF WithdrawalsFrom, Recorded
    <3> HIDE DEF W
    <3>2. SumFunctionOnSet(RowAmounts', W) = SumFunctionOnSet(RowAmounts, W)
      BY <1>5, <2>1, SumOfSame
    <3>3. Withdrawn(g)' = Withdrawn(g)
      BY <3>1, <3>2 DEF Withdrawn, W
    <3> QED
      BY <2>3, <3>3, RowSums
  <2> QED
    BY <2>2, <2>3
<1> QED
  BY <1>3, <1>6, <1>7

\* A posting for goal g's account.
LEMMA GoalPosting ==
  ASSUME TypeOK, IsFiniteSet(Rows), NEW k \in Key, NEW type \in TxnType,
         NEW s \in Account, NEW r \in Account, NEW m \in Amount,
         PostTransaction(k, type, s, r, m)
  PROVE  /\ balance' \in [Account -> Int] /\ entries' \in [Account -> Seq(Entry)]
         /\ txn' \in [Key -> Txn \cup {NoTxn}]
         /\ IsFiniteSet(Rows')
         /\ \A g \in Account :
              /\ Contributed(g)' = Contributed(g)
                   + (IF type = "goal_contribution" /\ r = g THEN m ELSE 0)
              /\ Withdrawn(g)' = Withdrawn(g)
                   + (IF type = "goal_withdrawal" /\ s = g THEN m ELSE 0)
              /\ balance'[g] = IF g = s THEN balance[g] - m
                               ELSE IF g = r THEN balance[g] + m ELSE balance[g]
<1> DEFINE row == Row(type, s, r, m, "settled", NoKey)
<1>1. row \in Txn
  BY NewRow DEF TxnStatus
<1>2. row.type = type /\ row.sender = s /\ row.receiver = r /\ row.amount = m
  BY DEF Row
<1>3. ~Recorded(k) /\ txn' = [txn EXCEPT ![k] = row] /\ WriteEntries(k, s, r, m) /\ s # r
  BY DEF PostTransaction, CanPost
<1> HIDE DEF row
<1>4. balance' \in [Account -> Int] /\ entries' \in [Account -> Seq(Entry)]
  BY <1>3, PostingTypes
<1>5. txn' \in [Key -> Txn \cup {NoTxn}]
  BY <1>1, <1>3 DEF TypeOK
<1>6. IsFiniteSet(Rows')
  BY <1>1, <1>3, RowAdded
<1>7. ASSUME NEW g \in Account
      PROVE  /\ Contributed(g)' = Contributed(g)
                  + (IF type = "goal_contribution" /\ r = g THEN m ELSE 0)
             /\ Withdrawn(g)' = Withdrawn(g)
                  + (IF type = "goal_withdrawal" /\ s = g THEN m ELSE 0)
             /\ balance'[g] = IF g = s THEN balance[g] - m
                              ELSE IF g = r THEN balance[g] + m ELSE balance[g]
  <2>1. /\ Contributed(g)' = Contributed(g)
             + (IF row.type = "goal_contribution" /\ row.receiver = g THEN row.amount ELSE 0)
        /\ Withdrawn(g)' = Withdrawn(g)
             + (IF row.type = "goal_withdrawal" /\ row.sender = g THEN row.amount ELSE 0)
    BY <1>1, <1>3, RowAdded
  <2>2. balance'[g] = IF g = s THEN balance[g] - m
                      ELSE IF g = r THEN balance[g] + m ELSE balance[g]
    BY <1>3 DEF WriteEntries, TypeOK
  <2> QED
    BY <1>2, <2>1, <2>2
<1> QED
  BY <1>4, <1>5, <1>6, <1>7

\* A step that leaves the rows alone leaves the sums alone.
LEMMA SameRows ==
  ASSUME txn' = txn, NEW g
  PROVE  Contributed(g)' = Contributed(g) /\ Withdrawn(g)' = Withdrawn(g) /\ Rows' = Rows
  BY DEF Contributed, Withdrawn, RowAmounts, ContributionsTo, WithdrawalsFrom, Rows, Recorded

\* What a step of the goals does to the ledger, and what it needs to do it.
Moving(k, type, s, r, m) ==
  /\ PostTransaction(k, type, s, r, m)
  /\ UNCHANGED <<status, linking, goals>>

\* A payment that is none of a goal's, or comes to it past the goal, or was
\* made by a goal that nobody is closing.
LEMMA MovingStep ==
  ASSUME GoalsInv, NEW k \in Key, NEW s \in Account, NEW r \in Account, NEW m \in Amount,
         NEW type \in TxnType, Moving(k, type, s, r, m),
         r \in Goal => \/ type = "bank_deposit"
                       \/ type = "goal_contribution" /\ CanLock(r),
         s \in Goal => type = "goal_withdrawal" /\ CanLock(s)
  PROVE  GoalsInv'
<1>1. /\ PostTransaction(k, type, s, r, m) /\ TypeOK /\ GoalsTypeOK /\ IsFiniteSet(Rows)
      /\ UNCHANGED <<status, linking, goal, closing>>
  BY DEF Moving, GoalsInv, goals
<1>2. TypeOK' /\ GoalsTypeOK' /\ IsFiniteSet(Rows')
  BY <1>1, GoalPosting DEF TypeOK, GoalsTypeOK
<1>3. ASSUME NEW g \in Goal PROVE Covered(g)'
  <2>1. g \in Account /\ m \in Int /\ m > 0 /\ s # r
    BY <1>1, GoalAssumption, AmountAssumption DEF Account, Amount, PostTransaction, CanPost
  <2>2. PICK b, c, w \in Int : b = balance[g] /\ c = Contributed(g) /\ w = Withdrawn(g)
    BY <1>1, <2>1, RowSums DEF TypeOK
  <2>3. /\ Contributed(g)' = c + (IF type = "goal_contribution" /\ r = g THEN m ELSE 0)
        /\ Withdrawn(g)' = w + (IF type = "goal_withdrawal" /\ s = g THEN m ELSE 0)
        /\ balance'[g] = IF g = s THEN b - m ELSE IF g = r THEN b + m ELSE b
    BY <1>1, <2>1, <2>2, GoalPosting
  <2>4. Covered(g)
    BY DEF GoalsInv
  <2>5. Saved(g)' = Contributed(g)' - Withdrawn(g)'
    BY DEF Saved
  <2>6. CASE g = s
    <3>1. type = "goal_withdrawal" /\ goal[g] = "active" /\ closing[g] = NotClosing
      BY <2>6 DEF CanLock
    <3>2. Saved(g)' = c - w - m /\ balance'[g] = b - m /\ b >= m
      <4>1. b >= m
        BY <1>1, <2>2, <2>6, GoalAssumption, AccountAssumption DEF PostTransaction, CanPost
      <4> QED
        BY <2>1, <2>3, <2>5, <2>6, <3>1, <4>1
    <3> QED
      BY <1>1, <2>1, <2>2, <2>4, <3>1, <3>2 DEF Covered, Saved
  <2>7. CASE g = r /\ type = "bank_deposit"
    <3>1. Saved(g)' = c - w /\ balance'[g] = b + m
      BY <2>1, <2>3, <2>5, <2>7
    <3> QED
      BY <1>1, <2>1, <2>2, <2>4, <3>1 DEF Covered, Saved
  <2>8. CASE g = r /\ type = "goal_contribution"
    <3>1. goal[g] = "active" /\ closing[g] = NotClosing
      BY <2>8 DEF CanLock
    <3>2. Saved(g)' = c - w + m /\ balance'[g] = b + m
      BY <2>1, <2>3, <2>5, <2>8
    <3> QED
      BY <1>1, <2>1, <2>2, <2>4, <3>1, <3>2 DEF Covered, Saved
  <2>9. CASE g # s /\ g # r
    <3>1. Saved(g)' = c - w /\ balance'[g] = b
      BY <2>2, <2>3, <2>5, <2>9
    <3> QED
      BY <1>1, <2>2, <2>4, <3>1 DEF Covered, Saved
  <2> QED
    BY <2>6, <2>7, <2>8, <2>9
<1> QED
  BY <1>2, <1>3 DEF GoalsInv

\* A step that moves no money.
LEMMA StillStep ==
  ASSUME GoalsInv, UNCHANGED <<balance, txn, entries, linking>>,
         status' \in [Account -> {"active", "frozen", "closed"}], GoalsTypeOK',
         \A g \in Goal :
           /\ goal'[g] = "closed" <=> status'[g] = "closed"
           /\ goal'[g] = "closed" => goal[g] = "closed"
           /\ closing'[g] # NotClosing =>
                \/ closing'[g] = closing[g] /\ goal'[g] = goal[g]
                \/ goal'[g] = "active" /\ closing'[g].left = balance[g]
  PROVE  GoalsInv'
<1>1. TypeOK' /\ IsFiniteSet(Rows')
  BY DEF GoalsInv, TypeOK, Rows, Recorded
<1>2. ASSUME NEW g \in Goal PROVE Covered(g)'
  <2>1. Saved(g)' = Saved(g)
    BY SameRows DEF Saved
  <2>2. Covered(g)
    BY DEF GoalsInv
  <2> QED
    BY <2>1, <2>2 DEF Covered
<1> QED
  BY <1>1, <1>2 DEF GoalsInv

\* The goal and its account close, and what the closing read goes back.
LEMMA FinishCloseStep ==
  ASSUME GoalsInv, NEW g \in Goal, FinishClose(g)
  PROVE  GoalsInv'
<1> DEFINE c == closing[g]
<1>1. TypeOK /\ GoalsTypeOK /\ IsFiniteSet(Rows) /\ Covered(g)
  BY DEF GoalsInv
<1>2. c # NotClosing /\ MarkClosed(g) /\ UNCHANGED linking
  BY DEF FinishClose
<1>3. c \in Closing
  BY <1>1, <1>2 DEF GoalsTypeOK
<1>4. /\ c.key \in Key /\ c.to \in Account /\ c.to \notin Goal /\ g \in Account /\ g # c.to
      /\ c.left \in 0 .. MaxAmount
  BY <1>3, GoalAssumption, AskedAssumption DEF Closing, Account
<1>5. /\ status' \in [Account -> {"active", "frozen", "closed"}] /\ GoalsTypeOK'
      /\ goal'[g] = "closed" /\ status'[g] = "closed" /\ closing'[g] = NotClosing
      /\ \A h \in Goal : h # g =>
           goal'[h] = goal[h] /\ status'[h] = status[h] /\ closing'[h] = closing[h]
  BY <1>1, <1>2, <1>4, GoalAssumption DEF MarkClosed, TypeOK, GoalsTypeOK, Account
<1>6. c.left \in Int /\ Saved(g) <= c.left /\ Saved(g) <= balance[g]
  BY <1>1, <1>2, <1>4, AmountAssumption DEF Covered
<1> HIDE DEF c
<1>7. CASE c.left = 0 /\ UNCHANGED <<balance, txn, entries>>
  <2>1. TypeOK' /\ IsFiniteSet(Rows')
    BY <1>1, <1>2, <1>5, <1>7 DEF TypeOK, Rows, Recorded
  <2>2. ASSUME NEW h \in Goal PROVE Covered(h)'
    <3>1. Saved(h)' = Saved(h) /\ balance'[h] = balance[h]
      BY <1>7, SameRows DEF Saved
    <3>2. Covered(h)
      BY DEF GoalsInv
    <3> QED
      BY <1>5, <1>6, <1>7, <3>1, <3>2 DEF Covered
  <2> QED
    BY <1>5, <2>1, <2>2 DEF GoalsInv
<1>8. CASE c.left > 0 /\ PostTransaction(c.key, "goal_withdrawal", g, c.to, c.left)
  <2>1. PICK m \in Amount : m = c.left
    BY <1>4, <1>8, AmountAssumption DEF Amount
  <2>2. PostTransaction(c.key, "goal_withdrawal", g, c.to, m)
    BY <1>8, <2>1
  <2>3. /\ balance' \in [Account -> Int] /\ entries' \in [Account -> Seq(Entry)]
        /\ txn' \in [Key -> Txn \cup {NoTxn}] /\ IsFiniteSet(Rows')
        /\ \A h \in Account :
             /\ Contributed(h)' = Contributed(h)
             /\ Withdrawn(h)' = Withdrawn(h) + (IF g = h THEN m ELSE 0)
             /\ balance'[h] = IF h = g THEN balance[h] - m
                              ELSE IF h = c.to THEN balance[h] + m ELSE balance[h]
    <3>1. "goal_withdrawal" \in TxnType
      BY DEF TxnType
    <3>2. \A h \in Account : Contributed(h) + 0 = Contributed(h)
      BY <1>1, RowSums
    <3> QED
      BY <1>1, <1>4, <2>2, <3>1, <3>2, GoalPosting
  <2>4. TypeOK'
    BY <1>1, <1>2, <1>5, <2>3 DEF TypeOK
  <2>5. ASSUME NEW h \in Goal PROVE Covered(h)'
    <3>1. PICK b, con, w \in Int : b = balance[h] /\ con = Contributed(h) /\ w = Withdrawn(h)
      BY <1>1, GoalAssumption, RowSums DEF TypeOK, Account
    <3>2. h \in Account /\ h # c.to /\ m \in Int /\ m > 0
      BY <1>4, GoalAssumption, AmountAssumption DEF Account, Amount
    <3>3. Covered(h)
      BY DEF GoalsInv
    <3>4. CASE h = g
      <4>1. balance'[h] = b - m /\ Saved(h)' = con - (w + m) /\ Saved(h) = con - w
        BY <2>3, <3>1, <3>2, <3>4 DEF Saved
      <4>2. con - w <= m /\ con - w <= b /\ b >= m
        BY <1>6, <2>1, <2>2, <3>1, <3>4, <4>1, GoalAssumption, AccountAssumption
        DEF PostTransaction, CanPost
      <4>3. Saved(h)' <= balance'[h] /\ Saved(h)' <= 0 /\ balance'[h] >= 0
        BY <3>1, <3>2, <4>1, <4>2
      <4> QED
        BY <1>5, <3>4, <4>3 DEF Covered
    <3>5. CASE h # g
      <4>1. balance'[h] = b /\ Saved(h)' = con - w /\ Saved(h) = con - w
        BY <2>3, <3>1, <3>2, <3>5 DEF Saved
      <4> QED
        BY <1>5, <3>1, <3>3, <3>5, <4>1 DEF Covered
    <3> QED
      BY <3>4, <3>5
  <2> QED
    BY <1>5, <2>3, <2>4, <2>5 DEF GoalsInv
<1> QED
  BY <1>7, <1>8 DEF FinishClose, c

LEMMA GoalsInitInv == Init /\ GoalsInit => GoalsInv
<1> SUFFICES ASSUME Init, GoalsInit PROVE GoalsInv
  OBVIOUS
<1>1. TypeOK /\ GoalsTypeOK
  BY DEF Init, GoalsInit, TypeOK, GoalsTypeOK
<1>2. Rows = {}
  BY DEF Init, Rows, Recorded
<1>3. ASSUME NEW g \in Goal PROVE Covered(g)
  <2>1. ContributionsTo(g) = {} /\ WithdrawalsFrom(g) = {}
    BY <1>2 DEF ContributionsTo, WithdrawalsFrom, Rows
  <2>2. Saved(g) = 0
    BY <2>1, SumOfNone DEF Saved, Contributed, Withdrawn
  <2> QED
    BY <2>2, GoalAssumption DEF Covered, Init, GoalsInit, Account
<1> QED
  BY <1>1, <1>2, <1>3, FS_EmptySet DEF GoalsInv

LEMMA GoalsStep ==
  ASSUME GoalsInv, [GoalsNext]_<<vars, goals>>
  PROVE  GoalsInv'
<1>0. TypeOK /\ GoalsTypeOK /\ \A g \in Goal : Covered(g)
  BY DEF GoalsInv
<1>1. /\ Goal \subseteq Wallet /\ Current \subseteq Wallet /\ Goal \cap Current = {}
      /\ Goal \cap System = {} /\ Wallet \subseteq Account /\ System \subseteq Account
      /\ GoalKey \subseteq Key /\ Asked \subseteq Amount
  BY GoalAssumption, AskedAssumption, AccountAssumption DEF Account
<1>2. CASE UNCHANGED <<vars, goals>>
  BY <1>0, <1>2, StillStep DEF vars, goals, GoalsTypeOK, TypeOK, Covered
<1>3. ASSUME NEW g \in Goal, CreateGoal(g) PROVE GoalsInv'
  <2>1. /\ GoalsTypeOK' /\ goal'[g] = "active" /\ goal[g] = "none" /\ closing' = closing
        /\ \A h \in Goal : h # g => goal'[h] = goal[h]
    BY <1>0, <1>3 DEF CreateGoal, GoalsTypeOK
  <2>2. Covered(g)
    BY <1>0
  <2> QED
    BY <1>0, <1>3, <2>1, <2>2, StillStep DEF CreateGoal, vars, TypeOK, Covered
<1>4. ASSUME NEW g \in Goal, AbortClose(g) PROVE GoalsInv'
  <2>1. /\ GoalsTypeOK' /\ closing'[g] = NotClosing /\ goal' = goal
        /\ \A h \in Goal : h # g => closing'[h] = closing[h]
    BY <1>0, <1>4 DEF AbortClose, GoalsTypeOK
  <2> QED
    BY <1>0, <1>4, <2>1, StillStep DEF AbortClose, vars, TypeOK, Covered
<1>5. ASSUME NEW k \in GoalKey, NEW w \in Current, NEW g \in Goal, StartClose(k, g, w)
      PROVE  GoalsInv'
  <2> DEFINE c == [key |-> k, to |-> w, left |-> balance[g]]
  <2>1. goal[g] = "active" /\ closing' = [closing EXCEPT ![g] = c] /\ balance[g] <= MaxAmount
    BY <1>5 DEF StartClose, CanLock
  <2>2. c \in Closing
    BY <1>0, <1>1, <2>1, AmountAssumption DEF Closing, TypeOK, Covered
  <2>3. c # NotClosing /\ c.left = balance[g]
    BY <2>2, ClosingAssumption
  <2> HIDE DEF c
  <2>4. /\ GoalsTypeOK' /\ closing'[g] = c /\ goal' = goal
        /\ \A h \in Goal : h # g => closing'[h] = closing[h]
    BY <1>0, <1>5, <2>1, <2>2 DEF StartClose, GoalsTypeOK
  <2> QED
    BY <1>0, <1>5, <2>1, <2>3, <2>4, StillStep DEF StartClose, vars, TypeOK, Covered
<1>6. ASSUME NEW k \in GoalKey, NEW w \in Current, NEW g \in Goal, NEW m \in Asked,
             Contribute(k, w, g, m) \/ Withdraw(k, g, w, m)
      PROVE  GoalsInv'
  <2>1. CASE Contribute(k, w, g, m)
    <3>1. Moving(k, "goal_contribution", w, g, m) /\ CanLock(g) /\ "goal_contribution" \in TxnType
      BY <2>1 DEF Contribute, Moving, TxnType
    <3> QED
      BY <1>1, <3>1, MovingStep
  <2>2. CASE Withdraw(k, g, w, m)
    <3>1. Moving(k, "goal_withdrawal", g, w, m) /\ CanLock(g) /\ "goal_withdrawal" \in TxnType
      BY <2>2 DEF Withdraw, Moving, TxnType
    <3> QED
      BY <1>1, <3>1, MovingStep
  <2> QED
    BY <1>6, <2>1, <2>2
<1>7. ASSUME NEW k \in GoalKey, NEW c \in System, NEW a \in Wallet, NEW m \in Asked,
             BankDeposit(k, c, a, m), UNCHANGED goals
      PROVE  GoalsInv'
  <2>1. Moving(k, "bank_deposit", c, a, m) /\ "bank_deposit" \in TxnType
    BY <1>7 DEF BankDeposit, Moving, TxnType
  <2> QED
    BY <1>1, <2>1, MovingStep
<1>8. ASSUME NEW w \in Current, WalletChange(w) PROVE GoalsInv'
  <2>1. /\ status' \in [Account -> {"active", "frozen", "closed"}]
        /\ \A g \in Goal : status'[g] = status[g]
        /\ UNCHANGED <<balance, txn, entries, linking, goal, closing>>
    BY <1>0, <1>1, <1>8
    DEF WalletChange, FreezeAccount, UnfreezeAccount, CloseAccount, goals, TypeOK
  <2> QED
    BY <1>0, <2>1, StillStep DEF GoalsTypeOK, Covered
<1> QED
  BY <1>1, <1>2, <1>3, <1>4, <1>5, <1>6, <1>7, <1>8, FinishCloseStep
  DEF GoalsNext, OutsideDeposit, WalletDeposit

\* Savings come back, for any goals, wallets, keys and amounts, whatever a
\* closing races with.
THEOREM SavingsAlwaysComeBack == GoalsSpec => []SavingsComeBack
<1>1. ASSUME GoalsInv PROVE SavingsComeBack
  <2>1. TypeOK /\ GoalsTypeOK /\ IsFiniteSet(Rows) /\ \A g \in Goal : Covered(g)
    BY <1>1 DEF GoalsInv
  <2>2. \A g \in Goal : Contributed(g) \in Int /\ Withdrawn(g) \in Int
    BY <2>1, RowSums
  <2> QED
    BY <2>1, <2>2 DEF SavingsComeBack, Covered, Saved
<1>2. Init /\ GoalsInit => GoalsInv
  BY GoalsInitInv
<1>3. GoalsInv /\ [GoalsNext]_<<vars, goals>> => GoalsInv'
  BY GoalsStep
<1> QED
  BY <1>1, <1>2, <1>3, PTL DEF GoalsSpec

(***************************************************************************)
(* Payroll: runs are whole (RunIsWhole).                                   *)
(*                                                                         *)
(* What an attempt is told about a run rests on SameItems, which looks for *)
(* each item that was asked for among those that were paid.  That nothing  *)
(* else was paid follows by counting: they are as many, and no payee is    *)
(* asked for twice.                                                        *)
(***************************************************************************)

LEMMA ItemTypes ==
  ASSUME NEW items \in Seq(Item)
  PROVE  /\ DOMAIN items = 1 .. Len(items)
         /\ \A i \in 1 .. Len(items) :
              /\ items[i].payee \in Payee /\ items[i].amount \in Amount
              /\ items[i].amount \in Int /\ items[i].amount > 0
<1>1. DOMAIN items = 1 .. Len(items) /\ \A i \in 1 .. Len(items) : items[i] \in Item
  OBVIOUS
<1>2. \A i \in 1 .. Len(items) : items[i].payee \in Payee /\ items[i].amount \in Amount
  BY <1>1 DEF Item
<1>3. \A m \in Amount : m \in Int /\ m > 0
  BY AmountAssumption DEF Amount
<1> QED
  BY <1>1, <1>2, <1>3

\* What a run comes to, item by item.
LEMMA RunningTotal ==
  ASSUME NEW items \in Seq(Item)
  PROVE  SumTo(items) = [i \in 0 .. Len(items) |->
                           IF i = 0 THEN 0 ELSE SumTo(items)[i - 1] + items[i].amount]
<1> DEFINE Adds(sum) == sum = [i \in 0 .. Len(items) |->
                                 IF i = 0 THEN 0 ELSE sum[i - 1] + items[i].amount]
           f == [i \in 1 .. Len(items) |-> items[i].amount]
           first == [i \in 0 .. Len(items) |-> SumFunctionOnSet(f, 1 .. i)]
<1> PICK n \in Nat : n = Len(items)
  OBVIOUS
<1>1. \A i \in 1 .. n : f[i] \in Int /\ f[i] = items[i].amount
  BY ItemTypes
<1>2. first[0] = 0
  <2>1. 1 .. 0 = {}
    OBVIOUS
  <2> QED
    BY <2>1, SumOfNone
<1>3. ASSUME NEW i \in 1 .. n
      PROVE  first[i] = first[i - 1] + items[i].amount
  <2> HIDE DEF f
  <2>0. i \in Int /\ i - 1 \in Int /\ i \in 1 .. i /\ (1 .. i) \ {i} = 1 .. (i - 1)
    OBVIOUS
  <2>1. IsFiniteSet(1 .. i) /\ IsFiniteSet(1 .. (i - 1))
    BY <2>0, FS_Interval
  <2>2. \A j \in 1 .. (i - 1) : f[j] \in Int
    BY <1>1
  <2>3. \A j \in 1 .. i : f[j] \in Int
    BY <1>1
  <2>4. SumFunctionOnSet(f, 1 .. i) = f[i] + SumFunctionOnSet(f, 1 .. (i - 1))
    <3>1. SumFunctionOnSet(f, 1 .. i) = f[i] + SumFunctionOnSet(f, (1 .. i) \ {i})
      BY <2>0, <2>1, <2>3, SumWithout
    <3> QED
      BY <2>0, <3>1
  <2>5. SumFunctionOnSet(f, 1 .. (i - 1)) \in Int
    BY <2>1, <2>2, SumIsInt
  <2> QED
    BY <1>1, <2>4, <2>5
<1>4. Adds(first)
  <2>1. DOMAIN first = 0 .. n /\ first = [i \in 0 .. n |-> first[i]]
    OBVIOUS
  <2> HIDE DEF first
  <2> QED
    BY <1>2, <1>3, <2>1
<1>5. Adds(CHOOSE sum : Adds(sum))
  <2> HIDE DEF Adds, first
  <2> QED
    BY <1>4
<1> QED
  BY <1>5 DEF SumTo

LEMMA TotalType ==
  ASSUME NEW items \in Seq(Item)
  PROVE  /\ \A i \in 0 .. Len(items) : SumTo(items)[i] \in Int
         /\ items # << >> => Total(items) \in Nat \ {0}
<1> DEFINE sum == SumTo(items)
           Bad == {i \in 0 .. Len(items) : ~ (sum[i] \in Int /\ sum[i] >= i)}
<1> PICK n \in Nat : n = Len(items)
  OBVIOUS
<1>1. /\ sum[0] = 0
      /\ \A i \in 1 .. n : sum[i] = sum[i - 1] + items[i].amount
  BY RunningTotal
<1>2. \A i \in 1 .. n : items[i].amount \in Int /\ items[i].amount > 0
  BY ItemTypes
<1> HIDE DEF sum
<1>3. Bad = {}
  <2>1. SUFFICES ASSUME Bad # {} PROVE FALSE
    OBVIOUS
  <2>2. PICK i \in Bad : \A j \in Bad : i <= j
    <3> Bad \in SUBSET Nat
      OBVIOUS
    <3> HIDE DEF Bad
    <3> QED
      BY <2>1, LeastOf
  <2>3. i # 0
    BY <1>1
  <2>4. i - 1 \in 0 .. n /\ i - 1 \notin Bad /\ i \in 1 .. n
    BY <2>2, <2>3
  <2>5. sum[i - 1] \in Int /\ sum[i - 1] >= i - 1
    BY <2>4
  <2> QED
    BY <1>1, <1>2, <2>2, <2>4, <2>5
<1>4. \A i \in 0 .. n : sum[i] \in Int /\ sum[i] >= i
  BY <1>3
<1>5. items # << >> => n > 0
  OBVIOUS
<1> QED
  BY <1>4, <1>5 DEF Total, sum

NoPayeeTwice(items) ==
  \A i, j \in DOMAIN items : items[i].payee = items[j].payee => i = j

\* A run that has all that was asked for has nothing else.
LEMMA NothingElsePaid ==
  ASSUME NEW body \in Body, NEW row \in Run, NoPayeeTwice(row.items), SameItems(row, body)
  PROVE  /\ {row.items[i].payee : i \in DOMAIN row.items} =
              {body.items[i].payee : i \in DOMAIN body.items}
         /\ \A i \in DOMAIN body.items, j \in DOMAIN row.items :
              body.items[i].payee = row.items[j].payee =>
                body.items[i].amount \in {AtRate, row.items[j].amount}
<1> PICK n \in Nat : n = Len(body.items)
  BY BodyAssumption
<1>1. DOMAIN body.items = 1 .. n /\ DOMAIN row.items = 1 .. n
  BY BodyAssumption DEF SameItems, Run
<1>2. \A i \in 1 .. n : \E j \in 1 .. n :
        /\ row.items[j].payee = body.items[i].payee
        /\ body.items[i].amount \in {AtRate, row.items[j].amount}
  BY <1>1 DEF SameItems
<1> DEFINE Paid(i, j) == row.items[j].payee = body.items[i].payee
           at == [i \in 1 .. n |-> CHOOSE j \in 1 .. n : Paid(i, j)]
<1>3. \A i \in 1 .. n : at[i] \in 1 .. n /\ row.items[at[i]].payee = body.items[i].payee
  <2>1. \A i \in 1 .. n : \E j \in 1 .. n : Paid(i, j)
    BY <1>2
  <2> HIDE DEF Paid
  <2>2. \A i \in 1 .. n : at[i] \in 1 .. n /\ Paid(i, at[i])
    BY <2>1
  <2> QED
    BY <2>2 DEF Paid
<1>4. at \in Injection(1 .. n, 1 .. n)
  <2>1. at \in [1 .. n -> 1 .. n]
    BY <1>3
  <2>2. \A i, j \in 1 .. n : body.items[i].payee = body.items[j].payee => i = j
    BY <1>1, BodyAssumption
  <2> HIDE DEF at
  <2>3. \A i, j \in 1 .. n : at[i] = at[j] => i = j
    BY <1>3, <2>2
  <2> QED
    BY <2>1, <2>3 DEF Injection, IsInjective
<1> HIDE DEF at
<1>5. at \in Surjection(1 .. n, 1 .. n)
  BY <1>4, FS_Interval, FS_Injection
<1>6. \A j \in 1 .. n : \E i \in 1 .. n : row.items[j].payee = body.items[i].payee
  <2>1. \A j \in 1 .. n : \E i \in 1 .. n : at[i] = j
    BY <1>5 DEF Surjection
  <2> TAKE j \in 1 .. n
  <2>2. PICK i \in 1 .. n : at[i] = j
    BY <2>1
  <2>3. row.items[at[i]].payee = body.items[i].payee
    BY <1>3
  <2> QED
    BY <2>2, <2>3
<1>7. {row.items[i].payee : i \in 1 .. n} = {body.items[i].payee : i \in 1 .. n}
  <2> DEFINE paid(i) == row.items[i].payee
             asked(i) == body.items[i].payee
  <2>1. /\ \A i \in 1 .. n : \E j \in 1 .. n : paid(i) = asked(j)
        /\ \A i \in 1 .. n : \E j \in 1 .. n : asked(i) = paid(j)
    <3>1. \A i \in 1 .. n : \E j \in 1 .. n : row.items[j].payee = body.items[i].payee
      BY <1>2
    <3> QED
      BY <1>6, <3>1
  <2> HIDE DEF paid, asked
  <2>2. {paid(i) : i \in 1 .. n} = {asked(i) : i \in 1 .. n}
    BY <2>1
  <2> QED
    BY <2>2 DEF paid, asked
<1>8. ASSUME NEW i \in 1 .. n, NEW j \in 1 .. n, body.items[i].payee = row.items[j].payee
      PROVE  body.items[i].amount \in {AtRate, row.items[j].amount}
  <2>1. PICK l \in 1 .. n : /\ row.items[l].payee = body.items[i].payee
                            /\ body.items[i].amount \in {AtRate, row.items[l].amount}
    BY <1>2
  <2>2. l = j
    BY <1>1, <1>8, <2>1 DEF NoPayeeTwice
  <2> QED
    BY <2>1, <2>2
<1> QED
  BY <1>1, <1>7, <1>8

\* Row i of run x, once it is posted from account s.
PaymentRow(s, items, i) ==
  Row("payroll_payment", s, items[i].payee, items[i].amount, "settled", NoKey)

LEMMA PaymentRowType ==
  ASSUME NEW s \in Wallet, NEW items \in Seq(Item), NEW i \in DOMAIN items
  PROVE  /\ PaymentRow(s, items, i) \in Txn /\ PaymentRow(s, items, i) # NoTxn
         /\ PaymentRow(s, items, i).type = "payroll_payment"
<1>1. items[i].payee \in Account /\ items[i].amount \in Amount /\ s \in Account
  BY ItemTypes, PayeeAssumption DEF Account
<1>2. PaymentRow(s, items, i) \in Txn
  BY <1>1, NewRow DEF PaymentRow, TxnType, TxnStatus
<1> QED
  BY <1>2, NoTxnAssumption DEF PaymentRow, Row

\* All payments of a run are posted at once, each under its own key.
LEMMA ItemsPosted ==
  ASSUME TypeOK, NEW x \in Attempt, NEW s \in Wallet, NEW items \in Seq(Item), PostItems(x, s, items)
  PROVE  /\ \A i \in DOMAIN items :
              PaymentKey(x, i) \in Key =>
                ~Recorded(PaymentKey(x, i)) /\ txn'[PaymentKey(x, i)] = PaymentRow(s, items, i)
         /\ \A k \in Key : (\A i \in DOMAIN items : k # PaymentKey(x, i)) => txn'[k] = txn[k]
         /\ txn' \in [Key -> Txn \cup {NoTxn}]
<1>1. /\ \A i \in DOMAIN items : ~Recorded(PaymentKey(x, i))
      /\ txn' = [k \in Key |->
                   IF \E i \in DOMAIN items : k = PaymentKey(x, i)
                   THEN PaymentRow(s, items, k[2]) ELSE txn[k]]
  BY DEF PostItems, PaymentRow
<1>2. \A i \in DOMAIN items : PaymentKey(x, i)[2] = i
  BY DEF PaymentKey
<1>3. \A i \in DOMAIN items : PaymentRow(s, items, i) \in Txn
  BY PaymentRowType
<1> HIDE DEF PaymentKey
<1>4. txn' \in [Key -> Txn \cup {NoTxn}]
  BY <1>1, <1>2, <1>3 DEF TypeOK
<1>5. ASSUME NEW i \in DOMAIN items, PaymentKey(x, i) \in Key
      PROVE  txn'[PaymentKey(x, i)] = PaymentRow(s, items, i)
  BY <1>1, <1>2, <1>5
<1>6. ASSUME NEW k \in Key, \A i \in DOMAIN items : k # PaymentKey(x, i)
      PROVE  txn'[k] = txn[k]
  BY <1>1, <1>6
<1> QED
  BY <1>1, <1>4, <1>5, <1>6

\* They keep the types of the balances and entries they change.
LEMMA ItemsPostedTypes ==
  ASSUME TypeOK, NEW x \in Attempt, NEW s \in Wallet, NEW items \in Seq(Item), PostItems(x, s, items),
         \A i \in DOMAIN items : PaymentKey(x, i) \in Key
  PROVE  balance' \in [Account -> Int] /\ entries' \in [Account -> Seq(Entry)]
<1> DEFINE sum == SumTo(items)
           debits == [i \in DOMAIN items |->
                        [txn |-> PaymentKey(x, i), direction |-> "DEBIT",
                         amount |-> items[i].amount, after |-> balance[s] - sum[i]]]
           ItemTo(a) == {i \in DOMAIN items : items[i].payee = a}
           first(a) == CHOOSE i \in ItemTo(a) : TRUE
           paid(a, i) == [txn |-> PaymentKey(x, i), direction |-> "CREDIT",
                          amount |-> items[i].amount, after |-> balance[a] + items[i].amount]
<1>1. /\ entries' = [a \in Account |->
                       IF a = s THEN entries[a] \o debits
                       ELSE IF ItemTo(a) = {} THEN entries[a]
                       ELSE Append(entries[a], paid(a, first(a)))]
      /\ balance' = [a \in Account |->
                       IF a = s THEN balance[a] - Total(items)
                       ELSE IF ItemTo(a) = {} THEN balance[a]
                       ELSE balance[a] + items[first(a)].amount]
  BY DEF PostItems
<1>2. s \in Account /\ \A a \in Account : balance[a] \in Int /\ entries[a] \in Seq(Entry)
  BY DEF TypeOK, Account
<1>3. \A i \in DOMAIN items : items[i].amount \in Amount /\ items[i].amount \in Int
  BY ItemTypes
<1>4. \A i \in DOMAIN items : sum[i] \in Int
  BY ItemTypes, TotalType
<1>5. Total(items) \in Int
  <2>1. Len(items) \in 0 .. Len(items)
    OBVIOUS
  <2> QED
    BY <2>1, TotalType DEF Total
<1>6. \A a \in Account : ItemTo(a) # {} => first(a) \in DOMAIN items
  OBVIOUS
<1>7. debits \in Seq(Entry)
  <2> PICK n \in Nat : n = Len(items)
    OBVIOUS
  <2>1. DOMAIN items = 1 .. n
    OBVIOUS
  <2> DEFINE debit(i) == [txn |-> PaymentKey(x, i), direction |-> "DEBIT",
                          amount |-> items[i].amount, after |-> balance[s] - sum[i]]
  <2>2. \A i \in 1 .. n : debit(i) \in Entry
    BY <1>2, <1>3, <1>4, <2>1 DEF Entry
  <2>3. debits = [i \in 1 .. n |-> debit(i)]
    BY <2>1
  <2> HIDE DEF debit, debits
  <2> QED
    BY <2>2, <2>3
<1>8. \A a \in Account : \A i \in DOMAIN items : paid(a, i) \in Entry
  BY <1>2, <1>3 DEF Entry
<1> HIDE DEF debits, paid, first, ItemTo, sum
<1>9. ASSUME NEW a \in Account
      PROVE  balance'[a] \in Int /\ entries'[a] \in Seq(Entry)
  <2>1. CASE a = s
    <3>1. balance'[a] = balance[a] - Total(items) /\ entries'[a] = entries[a] \o debits
      BY <1>1, <2>1
    <3> QED
      BY <1>2, <1>5, <1>7, <3>1
  <2>2. CASE a # s /\ ItemTo(a) = {}
    BY <1>1, <1>2, <2>2
  <2>3. CASE a # s /\ ItemTo(a) # {}
    <3>1. /\ balance'[a] = balance[a] + items[first(a)].amount
          /\ entries'[a] = Append(entries[a], paid(a, first(a)))
      BY <1>1, <2>3
    <3>2. items[first(a)].amount \in Int /\ paid(a, first(a)) \in Entry
      BY <1>3, <1>6, <1>8, <2>3
    <3> QED
      BY <1>2, <3>1, <3>2
  <2> QED
    BY <2>1, <2>2, <2>3
<1> QED
  BY <1>1, <1>9

\* What an attempt will pay is what it asked for.
PaidBy(items, body) ==
  /\ Len(items) = Len(body.items)
  /\ \A i \in DOMAIN body.items :
       /\ items[i].payee = body.items[i].payee
       /\ body.items[i].amount \in {AtRate, items[i].amount}

AttemptStands(x) ==
  /\ attempt[x].pc = "pay" => PaidBy(attempt[x].items, attempt[x].body)
  /\ attempt[x].pc \in {"paid", "replayed"} =>
       \E y \in StoredUnder(attempt[x].key) : SameItems(run[y], attempt[x].body)

\* A stored run is the one its attempt made, and every payment of it is there.
RunStands(x) ==
  /\ x \in DOMAIN attempt /\ run[x].key = attempt[x].key
  /\ NoPayeeTwice(run[x].items)
  /\ \A i \in DOMAIN run[x].items :
       /\ PaymentKey(x, i) \in Key
       /\ txn[PaymentKey(x, i)] = PaymentRow(run[x].source, run[x].items, i)
  /\ run[x].total = Total(run[x].items)

OneRunPerKey ==
  \A x, y \in Attempt : run[x] # NoRun /\ run[y] # NoRun /\ run[x].key = run[y].key => x = y

NoStrayPayment ==
  \A k \in Key : Recorded(k) /\ txn[k].type = "payroll_payment" =>
    \E x \in Attempt : run[x] # NoRun /\ k \in PaymentsOf(x)

PayrollInv ==
  /\ TypeOK /\ PayrollTypeOK
  /\ \A x \in DOMAIN attempt : AttemptStands(x)
  /\ \A x \in Attempt : run[x] # NoRun => RunStands(x)
  /\ OneRunPerKey
  /\ NoStrayPayment

\* Payees and the rest of the ledger do not touch runs.
LEMMA OutsideStep ==
  ASSUME PayrollInv, TypeOK', PayrollTypeOK', UNCHANGED <<run, attempt>>,
         \A k \in Key : \/ txn'[k] = txn[k]
                        \/ ~Recorded(k) /\ txn'[k].type # "payroll_payment"
  PROVE  PayrollInv'
<1>1. ASSUME NEW x \in DOMAIN attempt' PROVE AttemptStands(x)'
  <2>1. AttemptStands(x)
    BY <1>1 DEF PayrollInv
  <2> QED
    BY <2>1 DEF AttemptStands, StoredUnder
<1>2. ASSUME NEW x \in Attempt, run'[x] # NoRun PROVE RunStands(x)'
  <2>1. RunStands(x) /\ run[x] \in Run
    BY <1>2 DEF PayrollInv, PayrollTypeOK
  <2>2. run[x].source \in Wallet /\ run[x].items \in Seq(Item)
    BY <2>1 DEF Run
  <2>3. ASSUME NEW i \in DOMAIN run[x].items
        PROVE  txn'[PaymentKey(x, i)] = PaymentRow(run[x].source, run[x].items, i)
    <3>1. /\ PaymentKey(x, i) \in Key
          /\ txn[PaymentKey(x, i)] = PaymentRow(run[x].source, run[x].items, i)
      BY <2>1 DEF RunStands
    <3>2. Recorded(PaymentKey(x, i))
      BY <2>2, <3>1, PaymentRowType DEF Recorded
    <3> QED
      BY <3>1, <3>2
  <2> QED
    BY <2>1, <2>3 DEF RunStands
<1>3. OneRunPerKey'
  BY DEF PayrollInv, OneRunPerKey
<1>4. NoStrayPayment'
  BY DEF PayrollInv, NoStrayPayment, Recorded, PaymentsOf
<1> QED
  BY <1>1, <1>2, <1>3, <1>4 DEF PayrollInv

\* An attempt is made, or goes on without writing anything.
LEMMA AttemptStep ==
  ASSUME PayrollInv, UNCHANGED <<vars, payees, run, edits>>, NEW x \in Attempt,
         NEW new \in Request,
         DOMAIN attempt' = DOMAIN attempt \cup {x},
         attempt'[x] = new,
         \A y \in DOMAIN attempt : y # x => attempt'[y] = attempt[y],
         x \in DOMAIN attempt => new.key = attempt[x].key,
         new.pc = "pay" => PaidBy(new.items, new.body),
         new.pc \in {"paid", "replayed"} =>
           \E y \in StoredUnder(new.key) : SameItems(run[y], new.body)
  PROVE  PayrollInv'
<1>1. TypeOK' /\ PayrollTypeOK'
  BY DEF PayrollInv, TypeOK, PayrollTypeOK, vars
<1>2. ASSUME NEW y \in DOMAIN attempt' PROVE AttemptStands(y)'
  <2>1. \A k : StoredUnder(k)' = StoredUnder(k)
    BY DEF StoredUnder
  <2>2. CASE y = x
    BY <2>1, <2>2 DEF AttemptStands
  <2>3. CASE y # x
    <3>1. AttemptStands(y) /\ attempt'[y] = attempt[y]
      BY <1>2, <2>3 DEF PayrollInv
    <3> QED
      BY <2>1, <3>1 DEF AttemptStands
  <2> QED
    BY <2>2, <2>3
<1>3. ASSUME NEW y \in Attempt, run'[y] # NoRun PROVE RunStands(y)'
  <2>1. RunStands(y)
    BY <1>3 DEF PayrollInv
  <2>2. y \in DOMAIN attempt' /\ attempt'[y].key = attempt[y].key
    BY <2>1 DEF RunStands
  <2> QED
    BY <2>1, <2>2 DEF RunStands, vars
<1>4. OneRunPerKey' /\ NoStrayPayment'
  BY DEF PayrollInv, OneRunPerKey, NoStrayPayment, PaymentsOf, Recorded, vars
<1> QED
  BY <1>1, <1>2, <1>3, <1>4 DEF PayrollInv

\* The run and all its payments are stored at once.
LEMMA PayRunStep ==
  ASSUME PayrollInv, NEW x \in DOMAIN attempt, PayRun(x)
  PROVE  PayrollInv'
<1> DEFINE body == attempt[x].body
           s == body.source
           items == attempt[x].items
           row == [key |-> attempt[x].key, source |-> s, items |-> items, total |-> Total(items)]
<1>1. /\ TypeOK /\ PayrollTypeOK /\ AttemptStands(x)
      /\ x \in Attempt /\ attempt[x] \in Request
  BY DEF PayrollInv, PayrollTypeOK
<1>2. attempt[x].key \in RunKey /\ body \in Body /\ s \in Wallet /\ items \in Seq(Item)
  BY <1>1, BodyAssumption DEF Request
<1>3. /\ attempt[x].pc = "pay" /\ PostItems(x, s, items)
      /\ run' = [run EXCEPT ![x] = row]
      /\ attempt' = [attempt EXCEPT ![x].pc = "paid"]
      /\ StoredUnder(attempt[x].key) = {}
      /\ UNCHANGED <<status, linking, payees, edits>>
  BY DEF PayRun, StoreRun, Goto
<1>4. PaidBy(items, body)
  BY <1>1, <1>3 DEF AttemptStands
<1>5. /\ body.items \in Seq([payee: Payee, amount: Amount \cup {AtRate}]) /\ body.items # << >>
      /\ DOMAIN items = DOMAIN body.items /\ Len(items) = Len(body.items) /\ items # << >>
  <2>1. body.items \in Seq([payee: Payee, amount: Amount \cup {AtRate}]) /\ body.items # << >>
    BY <1>2, BodyAssumption
  <2>2. Len(items) = Len(body.items)
    BY <1>4 DEF PaidBy
  <2> HIDE DEF items, body
  <2>3. DOMAIN items = 1 .. Len(items) /\ DOMAIN body.items = 1 .. Len(body.items)
    BY <1>2, <2>1
  <2>4. Len(body.items) # 0
    BY <2>1
  <2> QED
    BY <2>1, <2>2, <2>3, <2>4
<1>6. \A i \in DOMAIN items : PaymentKey(x, i) \in Key
  BY <1>1, <1>2, <1>5, KeysAssumption
<1>7. NoPayeeTwice(items)
  BY <1>2, <1>4, <1>5, BodyAssumption DEF PaidBy, NoPayeeTwice
<1>8. /\ row \in Run /\ row # NoRun
      /\ row.key = attempt[x].key /\ row.source = s /\ row.items = items /\ row.total = Total(items)
  BY <1>2, <1>5, TotalType, NoRunAssumption DEF Run
<1>9. SameItems(row, body)
  <2> DEFINE Match(i, j) == /\ items[j].payee = body.items[i].payee
                            /\ body.items[i].amount \in {AtRate, items[j].amount}
  <2>1. \A i \in DOMAIN body.items : Match(i, i) /\ i \in DOMAIN items
    BY <1>4, <1>5 DEF PaidBy
  <2>2. \A i \in DOMAIN body.items : \E j \in DOMAIN items : Match(i, j)
    <3> HIDE DEF Match
    <3> QED
      BY <2>1
  <2> QED
    BY <1>5, <1>8, <2>2 DEF SameItems
<1>10. run[x] = NoRun
  <2>1. run[x] # NoRun => run[x].key = attempt[x].key
    BY <1>1 DEF PayrollInv, RunStands
  <2> QED
    BY <1>1, <1>3, <2>1 DEF StoredUnder
<1> HIDE DEF row, items, s, body
<1>11. /\ run' \in [Attempt -> Run \cup {NoRun}] /\ run'[x] = row
       /\ \A y \in Attempt : y # x => run'[y] = run[y]
  BY <1>1, <1>3, <1>8 DEF PayrollTypeOK
<1>12. /\ DOMAIN attempt' = DOMAIN attempt
       /\ attempt'[x] = [attempt[x] EXCEPT !.pc = "paid"]
       /\ \A y \in DOMAIN attempt : y # x => attempt'[y] = attempt[y]
  BY <1>3
<1>13. /\ attempt'[x] \in Request /\ attempt'[x].pc = "paid"
       /\ attempt'[x].key = attempt[x].key /\ attempt'[x].body = body
  BY <1>1, <1>12 DEF Request, body
<1>14. /\ \A i \in DOMAIN items : txn'[PaymentKey(x, i)] = PaymentRow(s, items, i)
       /\ \A k \in Key : (\A i \in DOMAIN items : k # PaymentKey(x, i)) => txn'[k] = txn[k]
       /\ txn' \in [Key -> Txn \cup {NoTxn}]
  BY <1>1, <1>2, <1>3, <1>6, ItemsPosted
<1>15. TypeOK'
  BY <1>1, <1>2, <1>3, <1>6, <1>14, ItemsPostedTypes DEF TypeOK
<1>16. PayrollTypeOK'
  <2>1. \A y \in DOMAIN attempt' : attempt'[y] \in Request
    BY <1>1, <1>12, <1>13 DEF PayrollTypeOK
  <2> QED
    BY <1>1, <1>3, <1>11, <1>12, <2>1 DEF PayrollTypeOK
<1>17. ASSUME NEW y \in DOMAIN attempt' PROVE AttemptStands(y)'
  <2>1. CASE y = x
    <3>1. \A k : k = row.key => x \in StoredUnder(k)'
      BY <1>1, <1>8, <1>11 DEF StoredUnder
    <3> QED
      BY <1>8, <1>9, <1>11, <1>13, <2>1, <3>1 DEF AttemptStands
  <2>2. CASE y # x
    <3>1. AttemptStands(y) /\ attempt'[y] = attempt[y]
      BY <1>12, <1>17, <2>2 DEF PayrollInv
    <3>2. \A k : \A z \in StoredUnder(k) : z \in StoredUnder(k)' /\ run'[z] = run[z]
      BY <1>10, <1>11 DEF StoredUnder
    <3> QED
      BY <3>1, <3>2 DEF AttemptStands
  <2> QED
    BY <2>1, <2>2
<1>18. ASSUME NEW y \in Attempt, run'[y] # NoRun PROVE RunStands(y)'
  <2>1. CASE y = x
    BY <1>6, <1>7, <1>8, <1>11, <1>12, <1>13, <1>14, <2>1 DEF RunStands
  <2>2. CASE y # x
    <3>1. RunStands(y) /\ run'[y] = run[y]
      BY <1>11, <1>18, <2>2 DEF PayrollInv
    <3>2. ASSUME NEW i \in DOMAIN run[y].items
          PROVE  txn'[PaymentKey(y, i)] = txn[PaymentKey(y, i)]
      <4>1. \A j \in DOMAIN items : PaymentKey(y, i) # PaymentKey(x, j)
        BY <2>2 DEF PaymentKey
      <4> QED
        BY <1>14, <3>1, <4>1 DEF RunStands
    <3>3. y \in DOMAIN attempt' /\ attempt'[y].key = attempt[y].key
      BY <1>12, <2>2, <3>1 DEF RunStands
    <3> QED
      BY <3>1, <3>2, <3>3 DEF RunStands
  <2> QED
    BY <2>1, <2>2
<1>19. OneRunPerKey'
  <2>1. \A y \in Attempt : y # x /\ run'[y] # NoRun => run'[y].key # row.key
    BY <1>3, <1>8, <1>11 DEF StoredUnder
  <2>2. OneRunPerKey
    BY DEF PayrollInv
  <2> QED
    BY <1>11, <2>1, <2>2 DEF OneRunPerKey
<1>20. ASSUME NEW k \in Key, txn'[k] # NoTxn, txn'[k].type = "payroll_payment"
       PROVE  \E y \in Attempt : run'[y] # NoRun /\ k \in PaymentsOf(y)'
  <2>1. CASE \E i \in DOMAIN items : k = PaymentKey(x, i)
    <3>1. k \in PaymentsOf(x)'
      BY <1>8, <1>11, <2>1 DEF PaymentsOf
    <3> QED
      BY <1>1, <1>8, <1>11, <3>1
  <2>2. CASE \A i \in DOMAIN items : k # PaymentKey(x, i)
    <3>1. txn'[k] = txn[k]
      BY <1>14, <2>2
    <3>2. PICK y \in Attempt : run[y] # NoRun /\ k \in PaymentsOf(y)
      BY <1>20, <3>1 DEF PayrollInv, NoStrayPayment, Recorded
    <3>3. y # x
      BY <1>10, <3>2
    <3> QED
      BY <1>11, <3>2, <3>3 DEF PaymentsOf
  <2> QED
    BY <2>1, <2>2
<1> QED
  BY <1>15, <1>16, <1>17, <1>18, <1>19, <1>20 DEF PayrollInv, NoStrayPayment, Recorded

LEMMA ReplayIsStored ==
  ASSUME NEW k, NEW body
  PROVE  /\ Replay(k, body) \in {"replayed", "conflict"}
         /\ Replay(k, body) = "replayed" => \E y \in StoredUnder(k) : SameItems(run[y], body)
  BY DEF Replay

\* An attempt that only changes where it stands.
LEMMA GotoStep ==
  ASSUME PayrollInv, NEW x \in DOMAIN attempt, NEW pc, Goto(x, pc),
         UNCHANGED <<vars, payees, run, edits>>,
         pc \in {"raced", "refused", "lost", Replay(attempt[x].key, attempt[x].body)}
  PROVE  PayrollInv'
<1> DEFINE new == [attempt[x] EXCEPT !.pc = pc]
<1>1. x \in Attempt /\ attempt[x] \in Request
  BY DEF PayrollInv, PayrollTypeOK
<1>2. pc \in {"raced", "refused", "lost", "replayed", "conflict"}
  BY ReplayIsStored
<1>3. /\ new \in Request /\ new.pc = pc /\ new.key = attempt[x].key
      /\ new.body = attempt[x].body
  BY <1>1, <1>2 DEF Request
<1>4. /\ DOMAIN attempt' = DOMAIN attempt \cup {x} /\ attempt'[x] = new
      /\ \A y \in DOMAIN attempt : y # x => attempt'[y] = attempt[y]
  BY DEF Goto
<1> HIDE DEF new
<1>5. new.pc \in {"paid", "replayed"} =>
        \E y \in StoredUnder(new.key) : SameItems(run[y], new.body)
  BY <1>2, <1>3, ReplayIsStored
<1> QED
  BY <1>1, <1>2, <1>3, <1>4, <1>5, AttemptStep

LEMMA StartRunStep ==
  ASSUME PayrollInv, NEW x \in Attempt, NEW k \in RunKey, NEW body \in Body, StartRun(x, k, body)
  PROVE  PayrollInv'
<1> DEFINE pc == IF StoredUnder(k) = {} THEN "load" ELSE Replay(k, body)
           new == [pc |-> pc, key |-> k, body |-> body, items |-> << >>]
<1>1. pc \in {"load", "replayed", "conflict"}
  BY ReplayIsStored
<1>2. pc = "replayed" => \E y \in StoredUnder(k) : SameItems(run[y], body)
  BY ReplayIsStored
<1>3. /\ x \notin DOMAIN attempt
      /\ attempt' = [y \in DOMAIN attempt \cup {x} |-> IF y = x THEN new ELSE attempt[y]]
      /\ UNCHANGED <<vars, payees, run, edits>>
  BY DEF StartRun
<1> HIDE DEF pc
<1>4. new \in Request /\ new.pc = pc /\ new.key = k /\ new.body = body
  BY <1>1 DEF Request
<1> HIDE DEF new
<1>5. /\ DOMAIN attempt' = DOMAIN attempt \cup {x} /\ attempt'[x] = new
      /\ \A y \in DOMAIN attempt : y # x => attempt'[y] = attempt[y]
  BY <1>3
<1> QED
  BY <1>1, <1>2, <1>3, <1>4, <1>5, AttemptStep

LEMMA LoadPayeesStep ==
  ASSUME PayrollInv, NEW x \in DOMAIN attempt, LoadPayees(x)
  PROVE  PayrollInv'
<1> DEFINE body == attempt[x].body
           item(i) == [payee |-> body.items[i].payee, amount |-> AmountOf(body.items[i])]
           items == [i \in DOMAIN body.items |-> item(i)]
           new == [[attempt[x] EXCEPT !.pc = "pay"] EXCEPT !.items = items]
<1>1. x \in Attempt /\ attempt[x] \in Request /\ PayrollTypeOK
  BY DEF PayrollInv, PayrollTypeOK
<1>2. body \in Body
  BY <1>1 DEF Request
<1>3. body.items \in Seq([payee: Payee, amount: Amount \cup {AtRate}])
  BY <1>2, BodyAssumption
<1>4. CASE Goto(x, "refused")
  BY <1>4, GotoStep DEF LoadPayees
<1>5. CASE attempt' = [attempt EXCEPT ![x].pc = "pay", ![x].items = items]
  <2> PICK n \in Nat : n = Len(body.items)
    BY <1>3
  <2>1. /\ DOMAIN body.items = 1 .. n
        /\ \A i \in 1 .. n : body.items[i] \in [payee: Payee, amount: Amount \cup {AtRate}]
    <3> DEFINE Wanted == [payee: Payee, amount: Amount \cup {AtRate}]
    <3> HIDE DEF Wanted
    <3>1. \A its \in Seq(Wanted) : /\ DOMAIN its = 1 .. Len(its)
                                    /\ \A i \in 1 .. Len(its) : its[i] \in Wanted
      OBVIOUS
    <3>2. body.items \in Seq(Wanted)
      BY <1>3 DEF Wanted
    <3>3. \A i \in 1 .. n : body.items[i] \in Wanted
      BY <3>1, <3>2
    <3>4. DOMAIN body.items = 1 .. n
      BY <3>1, <3>2
    <3> QED
      BY <3>3, <3>4 DEF Wanted
  <2>2. ASSUME NEW i \in 1 .. n
        PROVE  /\ item(i) \in Item /\ item(i).payee = body.items[i].payee
               /\ body.items[i].amount \in {AtRate, item(i).amount}
    <3>1. body.items[i].payee \in Payee /\ body.items[i].amount \in Amount \cup {AtRate}
      BY <2>1
    <3>2. AmountOf(body.items[i]) \in Amount
      BY <1>1, <3>1, RateAssumption DEF AmountOf, PayrollTypeOK, PayeeRow
    <3> QED
      BY <3>1, <3>2 DEF Item, AmountOf
  <2>3. items = [i \in 1 .. n |-> item(i)]
    BY <2>1
  <2> HIDE DEF item, items
  <2>4. items \in Seq(Item) /\ Len(items) = n
    BY <2>2, <2>3
  <2>5. PaidBy(items, body)
    BY <2>1, <2>2, <2>3, <2>4 DEF PaidBy
  <2>6. /\ new \in Request /\ new.pc = "pay" /\ new.key = attempt[x].key
        /\ new.body = body /\ new.items = items
    BY <1>1, <2>4 DEF Request
  <2>7. /\ DOMAIN attempt' = DOMAIN attempt \cup {x} /\ attempt'[x] = new
        /\ \A y \in DOMAIN attempt : y # x => attempt'[y] = attempt[y]
    BY <1>5
  <2> HIDE DEF new, body
  <2> QED
    BY <1>1, <2>5, <2>6, <2>7, AttemptStep DEF LoadPayees
<1> QED
  BY <1>4, <1>5 DEF LoadPayees

LEMMA PayrollStep ==
  ASSUME PayrollInv, [PayrollNext]_<<vars, payroll>>
  PROVE  PayrollInv'
<1>0. TypeOK /\ PayrollTypeOK
  BY DEF PayrollInv
<1>1. CASE UNCHANGED <<vars, payroll>>
  BY <1>0, <1>1, OutsideStep DEF vars, payroll, TypeOK, PayrollTypeOK
<1>2. ASSUME NEW p \in Payee, NEW rate \in Rate, CreatePayee(p, rate) PROVE PayrollInv'
  <2>1. [status |-> "active", rate |-> rate] \in PayeeRow
    BY DEF PayeeRow
  <2> QED
    BY <1>0, <1>2, <2>1, OutsideStep DEF CreatePayee, vars, TypeOK, PayrollTypeOK
<1>3. ASSUME NEW p \in Payee, NEW row \in PayeeRow, UpdatePayee(p, row) PROVE PayrollInv'
  <2>1. edits' \in 0 .. MaxEdits
    BY <1>0, <1>3, EditsAssumption DEF UpdatePayee, PayrollTypeOK
  <2> QED
    BY <1>0, <1>3, <2>1, OutsideStep DEF UpdatePayee, vars, TypeOK, PayrollTypeOK
<1>4. ASSUME NEW x \in DOMAIN attempt,
             PayRefused(x) \/ PayRaced(x) \/ AnswerRaced(x) \/ LoseAttempt(x)
      PROVE  PayrollInv'
  BY <1>4, GotoStep DEF PayRefused, PayRaced, AnswerRaced, LoseAttempt
<1>5. Source \subseteq Wallet
  BY BodyAssumption DEF Source
<1>6. ASSUME NEW k \in OtherKey, NEW c \in System, NEW s \in Source, NEW m \in Rate,
             MoneyComes(k, c, s, m)
      PROVE  PayrollInv'
  <2>1. k \in Key /\ s \in Wallet /\ m \in Amount /\ BankDeposit(k, c, s, m)
    BY <1>5, <1>6, KeysAssumption, RateAssumption DEF MoneyComes
  <2>2. TypeOK'
    BY <1>0, <2>1, TypeStep DEF Next
  <2>3. \A l \in Key : \/ txn'[l] = txn[l]
                       \/ ~Recorded(l) /\ txn'[l].type # "payroll_payment"
    BY <1>0, <2>1 DEF BankDeposit, PostTransaction, Row, TypeOK
  <2> QED
    BY <1>0, <1>6, <2>2, <2>3, OutsideStep DEF MoneyComes, payroll, PayrollTypeOK
<1>7. ASSUME NEW k \in OtherKey, NEW s \in Source, NEW p \in Payee, NEW m \in Rate,
             MoneyGoes(k, s, p, m)
      PROVE  PayrollInv'
  <2>1. k \in Key /\ s \in Wallet /\ p \in Wallet /\ m \in Amount /\ Transfer(k, s, p, m)
    BY <1>5, <1>7, KeysAssumption, RateAssumption, PayeeAssumption DEF MoneyGoes
  <2>2. TypeOK'
    BY <1>0, <2>1, TypeStep DEF Next
  <2>3. \A l \in Key : \/ txn'[l] = txn[l]
                       \/ ~Recorded(l) /\ txn'[l].type # "payroll_payment"
    BY <1>0, <2>1 DEF Transfer, PostTransaction, Row, TypeOK
  <2> QED
    BY <1>0, <1>7, <2>2, <2>3, OutsideStep DEF MoneyGoes, payroll, PayrollTypeOK
<1>8. ASSUME NEW a \in Wallet, FreezeAccount(a) \/ UnfreezeAccount(a) \/ CloseAccount(a),
             UNCHANGED payroll
      PROVE  PayrollInv'
  <2>1. TypeOK'
    BY <1>0, <1>8, TypeStep DEF Next
  <2>2. txn' = txn
    BY <1>8 DEF FreezeAccount, UnfreezeAccount, CloseAccount
  <2> QED
    BY <1>0, <1>8, <2>1, <2>2, OutsideStep DEF payroll, PayrollTypeOK
<1>9. CASE \E s \in Source : SourceChange(s)
  BY <1>5, <1>8, <1>9 DEF SourceChange
<1>10. CASE \E p \in Payee : PayeeCloses(p)
  BY <1>8, <1>10, PayeeAssumption DEF PayeeCloses
<1> QED
  BY <1>1, <1>2, <1>3, <1>4, <1>6, <1>7, <1>9, <1>10, StartRunStep, LoadPayeesStep, PayRunStep
  DEF PayrollNext

LEMMA PayrollInitInv == Init /\ PayrollInit => PayrollInv
<1> SUFFICES ASSUME Init, PayrollInit PROVE PayrollInv
  OBVIOUS
<1>1. TypeOK
  BY DEF Init, TypeOK
<1>2. [status |-> "none", rate |-> CHOOSE r \in Rate : TRUE] \in PayeeRow
  BY RateAssumption DEF PayeeRow
<1>3. PayrollTypeOK /\ DOMAIN attempt = {}
  <2>1. DOMAIN attempt = {}
    BY DEF PayrollInit
  <2>2. payees \in [Payee -> PayeeRow]
    <3> DEFINE row == [status |-> "none", rate |-> CHOOSE r \in Rate : TRUE]
    <3> HIDE DEF row
    <3>1. payees = [p \in Payee |-> row]
      BY DEF PayrollInit, row
    <3>2. row \in PayeeRow
      BY <1>2 DEF row
    <3> QED
      BY <3>1, <3>2
  <2>3. run \in [Attempt -> Run \cup {NoRun}] /\ edits \in 0 .. MaxEdits
    BY EditsAssumption DEF PayrollInit
  <2> QED
    BY <2>1, <2>2, <2>3 DEF PayrollTypeOK
<1>4. \A x \in Attempt : run[x] = NoRun
  BY DEF PayrollInit
<1>5. \A k \in Key : ~Recorded(k)
  BY DEF Init, Recorded
<1> QED
  BY <1>1, <1>3, <1>4, <1>5 DEF PayrollInv, OneRunPerKey, NoStrayPayment

\* Runs are whole and paid once per key, as they were asked for, for any
\* payees, attempts, keys and amounts.
THEOREM RunsAreWhole == PayrollSpec => []RunIsWhole
<1>1. ASSUME PayrollInv PROVE RunIsWhole
  <2>1. /\ TypeOK /\ PayrollTypeOK /\ OneRunPerKey /\ NoStrayPayment
        /\ \A x \in DOMAIN attempt : AttemptStands(x)
        /\ \A x \in Attempt : run[x] # NoRun => RunStands(x)
    BY <1>1 DEF PayrollInv
  <2>2. ASSUME NEW x \in DOMAIN attempt, attempt[x].pc \in {"paid", "replayed"}
        PROVE  \E y \in StoredUnder(attempt[x].key) :
                 /\ run[y].source = attempt[x].body.source
                 /\ {run[y].items[i].payee : i \in DOMAIN run[y].items} =
                      {attempt[x].body.items[i].payee : i \in DOMAIN attempt[x].body.items}
                 /\ \A i \in DOMAIN attempt[x].body.items, j \in DOMAIN run[y].items :
                      attempt[x].body.items[i].payee = run[y].items[j].payee =>
                        attempt[x].body.items[i].amount \in {AtRate, run[y].items[j].amount}
    <3>1. attempt[x].body \in Body
      BY <2>1 DEF PayrollTypeOK, Request
    <3>2. PICK y \in StoredUnder(attempt[x].key) : SameItems(run[y], attempt[x].body)
      BY <2>1, <2>2 DEF AttemptStands
    <3>3. run[y] \in Run /\ NoPayeeTwice(run[y].items)
      BY <2>1 DEF StoredUnder, RunStands, PayrollTypeOK
    <3>4. run[y].source = attempt[x].body.source
      BY <3>2 DEF SameItems
    <3> QED
      BY <3>1, <3>2, <3>3, <3>4, NothingElsePaid
  <2>3. PaidAsAsked
    BY <2>1, <2>2 DEF PaidAsAsked, OneRunPerKey
  <2>4. \A x \in Attempt : run[x] # NoRun =>
          /\ \A i \in DOMAIN run[x].items :
               txn[PaymentKey(x, i)] =
                 Row("payroll_payment", run[x].source, run[x].items[i].payee,
                     run[x].items[i].amount, "settled", NoKey)
          /\ run[x].total = Total(run[x].items)
    BY <2>1 DEF RunStands, PaymentRow
  <2> QED
    BY <2>1, <2>3, <2>4 DEF RunIsWhole, NoStrayPayment
<1>2. Init /\ PayrollInit => PayrollInv
  BY PayrollInitInv
<1>3. PayrollInv /\ [PayrollNext]_<<vars, payroll>> => PayrollInv'
  BY PayrollStep
<1> QED
  BY <1>1, <1>2, <1>3, PTL DEF PayrollSpec

=============================================================================
