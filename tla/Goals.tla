-------------------------------- MODULE Goals --------------------------------
(***************************************************************************)
(* Savings goals (controllers/goalController.js, services/goals.js).  A    *)
(* goal keeps its money in a savings account of its own, which is named    *)
(* like the goal here: goals.account_id is UNIQUE and never changes.       *)
(*                                                                         *)
(* Contributions and withdrawals lock the goal's row and post one ledger   *)
(* transaction, a step each.  Closing locks the goal, reads the account's  *)
(* balance WITHOUT locking the account, and then posts what it read and    *)
(* closes both: it is two steps, between which money may reach the account *)
(* past the goal.  Bank transfers are one such way; invoices, card links   *)
(* and loans, which accept savings accounts too, are others.               *)
(*                                                                         *)
(* requireVerifiedKyc and the other checks on the caller can refuse anyone *)
(* at any time, which is a step not taken.                                 *)
(***************************************************************************)
EXTENDS Ledger, FiniteSets, Functions

CONSTANTS
  Goal,           \* goals, which are also the names of their accounts
  Current,        \* the customer's wallets (account_type current)
  GoalKey,        \* keys of the payments in this module
  Asked,          \* bound: amounts that are asked for or deposited
  MaxActiveGoals, \* MAX_ACTIVE_GOALS
  NotClosing      \* no transaction of closeGoal is open

ASSUME GoalAssumption    == Goal \subseteq Wallet /\ Current \subseteq Wallet \ Goal
ASSUME AskedAssumption   == GoalKey \subseteq Key /\ Asked \subseteq Amount
ASSUME LimitAssumption   == MaxActiveGoals \in Nat

VARIABLES
  goal,     \* goal[g]: goal_status, "none" before there is a row
  closing   \* closing[g]: the closeGoal transaction that holds the goal's row

goals == <<goal, closing>>

Closing == [key: GoalKey, to: Current, left: 0 .. MaxAmount]

ASSUME ClosingAssumption == NotClosing \notin Closing

GoalsTypeOK ==
  /\ goal    \in [Goal -> {"none", "active", "closed"}]
  /\ closing \in [Goal -> Closing \cup {NotClosing}]

GoalsInit ==
  /\ goal    = [g \in Goal |-> "none"]
  /\ closing = [g \in Goal |-> NotClosing]

ActiveGoals == {g \in Goal : goal[g] = "active"}

\* createGoal: the goal and its account, counted under the user's lock.
CreateGoal(g) ==
  /\ goal[g] = "none"
  /\ Cardinality(ActiveGoals) < MaxActiveGoals
  /\ goal' = [goal EXCEPT ![g] = "active"]
  /\ UNCHANGED <<vars, closing>>

\* lockGoal, and the check that the goal is active.
CanLock(g) == goal[g] = "active" /\ closing[g] = NotClosing

Contribute_GoalNotLocked(k, w, g, m) ==
  /\ goal[g] = "active"
  /\ PostTransaction(k, "goal_contribution", w, g, m)
  /\ UNCHANGED <<status, linking, goals>>

\* moveMoney("in").
Contribute(k, w, g, m) ==
  /\ CanLock(g)
  /\ PostTransaction(k, "goal_contribution", w, g, m)
  /\ UNCHANGED <<status, linking, goals>>

\* moveMoney("out").
Withdraw(k, g, w, m) ==
  /\ CanLock(g)
  /\ PostTransaction(k, "goal_withdrawal", g, w, m)
  /\ UNCHANGED <<status, linking, goals>>

\* closeGoal up to the balance it reads (bound: MaxAmount).
StartClose(k, g, w) ==
  /\ CanLock(g)
  /\ ~Recorded(k)
  /\ balance[g] <= MaxAmount
  /\ closing' = [closing EXCEPT ![g] = [key |-> k, to |-> w, left |-> balance[g]]]
  /\ UNCHANGED <<vars, goal>>

\* markClosed, in the transaction that gave the money back.
MarkClosed(g) ==
  /\ status'  = [status EXCEPT ![g] = "closed"]
  /\ goal'    = [goal EXCEPT ![g] = "closed"]
  /\ closing' = [closing EXCEPT ![g] = NotClosing]

\* The rest of closeGoal: what was read goes to the wallet, if anything.
FinishClose(g) ==
  /\ closing[g] # NotClosing
  /\ LET c == closing[g] IN
     \/ c.left = 0 /\ UNCHANGED <<balance, txn, entries>>
     \/ c.left > 0 /\ PostTransaction(c.key, "goal_withdrawal", g, c.to, c.left)
  /\ MarkClosed(g)
  /\ UNCHANGED linking

\* No wallet was named, it cannot take the money, the key was used meanwhile,
\* or the process died: everything is rolled back.
AbortClose(g) ==
  /\ closing[g] # NotClosing
  /\ closing' = [closing EXCEPT ![g] = NotClosing]
  /\ UNCHANGED <<vars, goal>>

\* Money that comes past the goal, once it has an account; the account number
\* it is paid to outlives the goal.
OutsideDeposit(k, c, g, m) ==
  /\ goal[g] # "none"
  /\ BankDeposit(k, c, g, m)
  /\ UNCHANGED goals

\* What else happens to the customer's wallets.  createTransfer and
\* changeStatus refuse a goal's account (isGoalAccount).
WalletDeposit(k, c, w, m) == BankDeposit(k, c, w, m) /\ UNCHANGED goals
WalletChange(w) ==
  /\ FreezeAccount(w) \/ UnfreezeAccount(w) \/ CloseAccount(w)
  /\ UNCHANGED goals

GoalsNext ==
  \/ \E g \in Goal : CreateGoal(g) \/ FinishClose(g) \/ AbortClose(g)
  \/ \E k \in GoalKey, w \in Current, g \in Goal, m \in Asked :
       Contribute(k, w, g, m) \/ Withdraw(k, g, w, m)
  \/ \E k \in GoalKey, w \in Current, g \in Goal : StartClose(k, g, w)
  \/ \E k \in GoalKey, c \in System, g \in Goal, m \in Asked : OutsideDeposit(k, c, g, m)
  \/ \E k \in GoalKey, c \in System, w \in Current, m \in Asked : WalletDeposit(k, c, w, m)
  \/ \E w \in Current : WalletChange(w)

GoalsSpec == Init /\ GoalsInit /\ [][GoalsNext]_<<vars, goals>>

(***************************************************************************)
(* Properties.                                                             *)
(***************************************************************************)

RowAmounts == [k \in {k \in Key : Recorded(k)} |-> txn[k].amount]

ContributionsTo(g) ==
  {k \in Key : Recorded(k) /\ txn[k].type = "goal_contribution" /\ txn[k].receiver = g}
WithdrawalsFrom(g) ==
  {k \in Key : Recorded(k) /\ txn[k].type = "goal_withdrawal" /\ txn[k].sender = g}

Contributed(g) == SumFunctionOnSet(RowAmounts, ContributionsTo(g))
Withdrawn(g)   == SumFunctionOnSet(RowAmounts, WithdrawalsFrom(g))

\* "Closing gives the money back" (README): a goal and its account close
\* together, and by then all that was ever contributed has gone back to the
\* wallets, whatever moved on the goal, or around it, between the balance the
\* closing read and its commit.  What a closed account may still hold, against
\* that document, came to it past the goal.
SavingsComeBack ==
  /\ TypeOK /\ GoalsTypeOK
  /\ \A g \in Goal :
       /\ goal[g] = "closed" <=> status[g] = "closed"
       /\ goal[g] = "closed" => Contributed(g) <= Withdrawn(g)

=============================================================================
