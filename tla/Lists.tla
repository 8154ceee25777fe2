-------------------------------- MODULE Lists --------------------------------
(***************************************************************************)
(* What a customer reads page by page: the entries of a wallet, invoices   *)
(* and notifications; and the closing balance a chart shows for a wallet   *)
(* (controllers/transactionController, invoiceController and               *)
(* notificationController, utils/pagination).                              *)
(*                                                                         *)
(* A page is read without a lock, while rows are written and change.  Rows *)
(* carry the time at which their DB transaction began, which is not the    *)
(* order in which they were written: what is written in one DB transaction *)
(* has one time, and one that began early may get the wallet's lock late.  *)
(* The ids, which decide between rows of one time, are random.             *)
(***************************************************************************)
EXTENDS Integers, FiniteSets

CONSTANTS
  Writing,    \* DB transactions that write rows to the list
  RowId,      \* ids of rows: a set of numbers, in their order
  NoRowRead,  \* a walk that is at the first page
  PageSize,   \* limit
  Filter,     \* bound: states that are asked for
  MostRows,   \* bound: rows that one DB transaction writes
  MostMoney   \* bound: what the wallet holds

ASSUME PageAssumption    == PageSize \in Nat \ {0} /\ RowId \subseteq Nat
ASSUME WritingAssumption == IsFiniteSet(Writing) /\ MostMoney \in Nat

\* What a cursor says of the last row that was shown.
Cursor == [id: RowId, at: 0 .. Cardinality(Writing)]

ASSUME NoRowReadAssumption == NoRowRead \notin Cursor

VARIABLES
  list,    \* which list is read, by whom, and with what filter
  items,    \* its committed rows
  writing, \* writing[w]: a DB transaction
  latest,     \* the time of the last one that began
  holds,   \* account.balance_minor of the wallet
  walk     \* a reader on its way through the list

lists == <<list, items, writing, latest, holds, walk>>

(***************************************************************************)
(* The lists.                                                              *)
(***************************************************************************)

\* The states a row of the list goes through; those of an invoice are the ones
\* it reads as, and it turns overdue by itself.
StatesOf(name) ==
  CASE name = "entries"       -> {"settled", "reversed"}
    [] name = "invoices"      -> {"draft", "open", "overdue", "paid", "refunded", "cancelled"}
    [] name = "notifications" -> {"unread", "read"}

FirstStates(name) ==
  CASE name = "entries"       -> {"settled"}
    [] name = "invoices"      -> {"draft", "open"}
    [] name = "notifications" -> {"unread"}

NextStates(state) ==
  CASE state = "settled" -> {"reversed"}
    [] state = "draft"   -> {"open"}
    [] state = "open"    -> {"overdue", "paid", "cancelled"}
    [] state = "overdue" -> {"paid", "cancelled"}
    [] state = "paid"    -> {"refunded"}
    [] state = "unread"  -> {"read"}
    [] OTHER             -> {}

\* What the WHERE of each list lets through, apart from the cursor:
\* listAccountTransactions, the entries of transactions with a status;
EntryFits(state) == list.status \in {"any", state}

\* listInvoices, those that read as a status, but nobody else's draft;
InvoiceFits(state) == list.status \in {"any", state} /\ (list.mine \/ state # "draft")

\* listNotifications, all or the unread ones.
NotificationFits(state) == list.status = "any" \/ state = "unread"

Fits(r) ==
  CASE list.name = "entries"       -> EntryFits(r.state)
    [] list.name = "invoices"      -> InvoiceFits(r.state)
    [] list.name = "notifications" -> NotificationFits(r.state)

Status == UNION {StatesOf(name) : name \in {"entries", "invoices", "notifications"}}
List   == [name: {"entries", "invoices", "notifications"}, mine: BOOLEAN, status: Status \cup {"any"}]

\* The filters that can be asked for.
MayBeAsked(l) ==
  /\ l.status \in {"any"} \cup ((StatesOf(l.name) \ {"read"}) \cap Filter)
  /\ l.name # "invoices" => l.mine

ListRow == [id: RowId, at: 0 .. Cardinality(Writing), after: 0 .. MostMoney, state: Status]

NotBegun == [pc |-> "none", at |-> 0, rows |-> {}, holds |-> 0]
NoWalk   == [pc |-> "none", last |-> NoRowRead, seen |-> {}, due |-> {}, again |-> FALSE]

ListsTypeOK ==
  /\ list \in List /\ MayBeAsked(list)
  /\ items \subseteq ListRow
  /\ writing \in [Writing -> [pc: {"none", "begun", "writes", "over"}, at: 0 .. Cardinality(Writing),
                              rows: SUBSET ListRow, holds: 0 .. MostMoney]]
  /\ latest \in 0 .. Cardinality(Writing)
  /\ holds \in 0 .. MostMoney
  /\ walk \in [pc: {"none", "walks", "done"}, last: Cursor \cup {NoRowRead},
               seen: SUBSET RowId, due: SUBSET RowId, again: BOOLEAN]

ListsInit ==
  /\ list    \in {l \in List : MayBeAsked(l)}
  /\ items    = {}
  /\ writing = [w \in Writing |-> NotBegun]
  /\ latest     = 0
  /\ holds   = 0
  /\ walk    = NoWalk

(***************************************************************************)
(* Rows are written and change.                                            *)
(***************************************************************************)

\* BEGIN, which sets the time of all that the DB transaction writes.
BeginWriting(w) ==
  /\ writing[w].pc = "none"
  /\ latest' \in {latest, latest + 1}
  /\ writing' = [writing EXCEPT ![w].pc = "begun", ![w].at = latest']
  /\ UNCHANGED <<list, items, holds, walk>>

\* Ids are given once; that of a draft that was deleted unseen may serve again.
Given  == {r.id : r \in items \cup UNION {writing[w].rows : w \in Writing}} \cup walk.seen
Amount == IF list.name = "entries" THEN {-1, 1} ELSE {0}

\* Entries of a wallet are written while its row is locked; the others need
\* no lock.
MayWrite(w) ==
  list.name = "entries" => \A other \in Writing \ {w} : writing[other].pc # "writes"

\* A row is inserted.  For an entry, it says what the wallet holds after it;
\* the entries one DB transaction writes to a wallet all go the same way (an
\* amount and its fee, the payments of a run).
WriteRow(w, id, state, amount) ==
  LET before == IF writing[w].pc = "begun" THEN holds ELSE writing[w].holds
      row    == [id |-> id, at |-> writing[w].at, after |-> before + amount, state |-> state]
  IN /\ writing[w].pc \in {"begun", "writes"} /\ MayWrite(w)
     /\ Cardinality(writing[w].rows) < MostRows
     /\ id \notin Given
     /\ before + amount \in 0 .. MostMoney
     /\ (before - holds) * amount >= 0
     /\ writing' = [writing EXCEPT ![w].pc = "writes", ![w].rows = @ \cup {row},
                                   ![w].holds = before + amount]
     /\ UNCHANGED <<list, items, latest, holds, walk>>

\* COMMIT, or ROLLBACK.
EndWriting(w, commits) ==
  /\ writing[w].pc = "writes"
  /\ writing' = [writing EXCEPT ![w] = [NotBegun EXCEPT !.pc = "over"]]
  /\ IF commits
     THEN items' = items \cup writing[w].rows /\ holds' = writing[w].holds
     ELSE UNCHANGED <<items, holds>>
  /\ UNCHANGED <<list, latest, walk>>

\* A payment is reversed, an invoice sent, due, paid, refunded or cancelled, a
\* notification read.  A row that a walk does not have to show any more is not due.
ChangeState(r, state) ==
  /\ state \in NextStates(r.state)
  /\ items' = (items \ {r}) \cup {[r EXCEPT !.state = state]}
  /\ walk' = [walk EXCEPT !.due = IF list.status = "any" THEN @ ELSE @ \ {r.id}]
  /\ UNCHANGED <<list, writing, latest, holds>>

\* deleteInvoice: a draft's row is gone, and with it what it was due.
DeleteDraft(r) ==
  /\ r.state = "draft"
  /\ items' = items \ {r}
  /\ walk' = [walk EXCEPT !.due = @ \ {r.id}]
  /\ UNCHANGED <<list, writing, latest, holds>>

(***************************************************************************)
(* The reader.                                                             *)
(***************************************************************************)

\* (created_at, id) < (...)
Precedes(r, q) == r.at < q.at \/ (r.at = q.at /\ r.id < q.id)

PastCursor_TimeAlone(r) == walk.last = NoRowRead \/ r.at < walk.last.at

\* What decodeCursor makes of next_cursor (encodeCursor).
PastCursor(r) == walk.last = NoRowRead \/ Precedes(r, walk.last)

Rest  == {r \in items : Fits(r) /\ PastCursor(r)}
Page  == {r \in Rest : Cardinality({q \in Rest : Precedes(r, q)}) < PageSize}
HasMore == Cardinality(Rest) > PageSize

\* The first page is asked for: what fits by then is due.
StartWalk ==
  /\ walk.pc = "none"
  /\ walk' = [NoWalk EXCEPT !.pc = "walks", !.due = {r.id : r \in {q \in items : Fits(q)}}]
  /\ UNCHANGED <<list, items, writing, latest, holds>>

\* The query, of which the last row shown is the next page's cursor.
ReadPage ==
  /\ walk.pc = "walks"
  /\ walk' = [walk EXCEPT
       !.pc    = IF HasMore THEN "walks" ELSE "done",
       !.last  = IF ~HasMore THEN @
                 ELSE LET r == CHOOSE r \in Page : \A q \in Page : q = r \/ Precedes(r, q)
                      IN [id |-> r.id, at |-> r.at],
       !.seen  = @ \cup {r.id : r \in Page},
       !.again = @ \/ \E r \in Page : r.id \in walk.seen]
  /\ UNCHANGED <<list, items, writing, latest, holds>>

ListAccountTransactions == list.name = "entries" /\ ReadPage
ListInvoices            == list.name = "invoices" /\ ReadPage
ListNotifications       == list.name = "notifications" /\ ReadPage

\* getBalanceHistory: what a period that ends after `end` closes with.
Closing(end) ==
  LET upTo == {r \in items : r.at <= end}
      last == CHOOSE r \in upTo : \A q \in upTo : q = r \/ Precedes(q, r)
  IN IF upTo = {} THEN 0 ELSE last.after

ListsNext ==
  \/ \E w \in Writing :
       \/ BeginWriting(w)
       \/ \E id \in RowId, state \in FirstStates(list.name), amount \in Amount :
            WriteRow(w, id, state, amount)
       \/ \E commits \in BOOLEAN : EndWriting(w, commits)
  \/ \E r \in items : DeleteDraft(r) \/ \E state \in StatesOf(list.name) : ChangeState(r, state)
  \/ StartWalk
  \/ ListAccountTransactions \/ ListInvoices \/ ListNotifications

ListsSpec == ListsInit /\ [][ListsNext]_lists

(***************************************************************************)
(* Properties.                                                             *)
(***************************************************************************)

\* Keyset pagination (pagination.js): a walk through a list shows no row
\* twice, and each row that was there at its start and fitted all the while,
\* although rows are written, with times before and after the cursor's and
\* equal to it, and change between two pages.
PagesComplete ==
  /\ ListsTypeOK
  /\ ~walk.again
  /\ walk.pc = "done" => walk.due \subseteq walk.seen

\* getBalanceHistory: "Closing balance per day/week/month": the last period
\* closes with what the wallet holds.
ClosingIsBalance == list.name = "entries" => Closing(latest) = holds

=============================================================================
