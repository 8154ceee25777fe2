------------------------------ MODULE Addresses ------------------------------
(***************************************************************************)
(* Who signs in with which email address: signUp (authController) and the  *)
(* change of an address (controllers/emailChangeController.js).            *)
(*                                                                         *)
(* Every request is one DB transaction, or one statement.  Those of one    *)
(* user lock the users row and the row of the code, although in opposite   *)
(* orders: when two wait for each other the database ends one of them,     *)
(* which changes nothing.  Users' addresses are kept apart by the unique   *)
(* index alone, which the last writer loses.                               *)
(*                                                                         *)
(* A code is known by its number.  The password and the recent two-factor  *)
(* code that a change asks for are Sessions' subject: here whoever starts  *)
(* a change has them.                                                      *)
(***************************************************************************)
EXTENDS Naturals

CONSTANTS
  Person,      \* who signs up
  Address,     \* email addresses, in lower case
  NoAddress,   \* not signed up; no change in progress
  ReaderOf,    \* ReaderOf[a]: who can read the mail of a (outside the system)
  ChangeTries, \* CODE_TRIES
  ChangeLife,  \* CODE_MINUTES, in time steps; RESEND_AFTER_SECONDS is one
  MaxCodes,    \* bound: codes that are sent
  MaxTime      \* bound: time steps

ASSUME ReaderAssumption  == ReaderOf \in [Address -> Person]
ASSUME ChangeAssumption  == ChangeTries \in Nat \ {0} /\ {ChangeLife, MaxCodes, MaxTime} \subseteq Nat

VARIABLES
  email,   \* email[p]: the users row
  change,  \* change[p]: the live row of email_change_codes
  mailed,  \* the codes that were mailed, and to where
  sent,    \* how many there are
  clock,   \* time
  signed   \* history: the address p signed up with, while p has it

addresses == <<email, change, mailed, sent, clock, signed>>

Change == [to: Address, code: 1 .. MaxCodes, attempts: 0 .. ChangeTries, at: 0 .. MaxTime]

AddressesTypeOK ==
  /\ email  \in [Person -> Address \cup {NoAddress}]
  /\ change \in [Person -> Change \cup {NoAddress}]
  /\ mailed \subseteq (1 .. MaxCodes) \X Address
  /\ sent   \in 0 .. MaxCodes
  /\ clock  \in 0 .. MaxTime
  /\ signed \in [Person -> Address \cup {NoAddress}]

AddressesInit ==
  /\ email  = [p \in Person |-> NoAddress]
  /\ change = [p \in Person |-> NoAddress]
  /\ mailed = {}
  /\ sent   = 0
  /\ clock  = 0
  /\ signed = [p \in Person |-> NoAddress]

Taken(a) == \E p \in Person : email[p] = a

\* signUp: nobody is asked to prove the address.
SignUp(p, a) ==
  /\ email[p] = NoAddress
  /\ ~Taken(a)
  /\ email'  = [email EXCEPT ![p] = a]
  /\ signed' = [signed EXCEPT ![p] = a]
  /\ UNCHANGED <<change, mailed, sent, clock>>

\* emailChangeEmail for a new code, queued in the same DB transaction.
Mail(a) == mailed' = mailed \cup {<<sent + 1, a>>} /\ sent' = sent + 1

\* Less than a minute since the last code, if that was not used.
JustSent(p) == change[p] # NoAddress /\ change[p].at = clock

MayStart(p, a) ==
  /\ email[p] # NoAddress
  /\ ~Taken(a)
  /\ ~JustSent(p)
  /\ sent < MaxCodes

Started(p, a) ==
  change' = [change EXCEPT ![p] = [to |-> a, code |-> sent + 1, attempts |-> 0, at |-> clock]]

StartChange_MailsTheOld(p, a) ==
  /\ MayStart(p, a)
  /\ Started(p, a)
  /\ Mail(email[p])
  /\ UNCHANGED <<email, clock, signed>>

\* startEmailChange: a new code replaces the one before, and goes to the
\* address that is to be proved.
StartChange(p, a) ==
  /\ MayStart(p, a)
  /\ Started(p, a)
  /\ Mail(a)
  /\ UNCHANGED <<email, clock, signed>>

LiveChange(p) ==
  /\ change[p] # NoAddress
  /\ clock - change[p].at < ChangeLife
  /\ change[p].attempts < ChangeTries

\* confirmEmailChange with the code of row change[p], by one who has read it.
\* If the address has been taken since, nothing changes and the code stays.
ConfirmChange(p) ==
  LET to == change[p].to IN
  /\ LiveChange(p)
  /\ \E a \in Address : ReaderOf[a] = p /\ <<change[p].code, a>> \in mailed
  /\ ~Taken(to)
  /\ email'  = [email EXCEPT ![p] = to]
  /\ signed' = [signed EXCEPT ![p] = NoAddress]
  /\ change' = [change EXCEPT ![p] = NoAddress]
  /\ UNCHANGED <<mailed, sent, clock>>

\* confirmEmailChange with any other code: the try is counted although the
\* request fails.
WrongCode(p) ==
  /\ LiveChange(p)
  /\ change' = [change EXCEPT ![p].attempts = @ + 1]
  /\ UNCHANGED <<email, mailed, sent, clock, signed>>

\* cancelEmailChange
CancelChange(p) ==
  /\ change[p] # NoAddress
  /\ change' = [change EXCEPT ![p] = NoAddress]
  /\ UNCHANGED <<email, mailed, sent, clock, signed>>

PassTime ==
  /\ clock < MaxTime
  /\ clock' = clock + 1
  /\ UNCHANGED <<email, change, mailed, sent, signed>>

AddressesNext ==
  \/ \E p \in Person, a \in Address : SignUp(p, a) \/ StartChange(p, a)
  \/ \E p \in Person : ConfirmChange(p) \/ WrongCode(p) \/ CancelChange(p)
  \/ PassTime

AddressesSpec == AddressesInit /\ [][AddressesNext]_addresses

(***************************************************************************)
(* Properties.                                                             *)
(***************************************************************************)

\* "The email doesn't change yet" (startEmailChange): whoever
\* has an address that is not the one of the sign-up can read the mail that
\* goes there, with changes that are begun again, cancelled, confirmed late
\* and raced for by two users and by sign-ups.  No two users have one
\* address, and a code belongs to the one address it was sent to.
AddressProved ==
  /\ AddressesTypeOK
  /\ \A p \in Person :
       email[p] \notin {NoAddress, signed[p]} => ReaderOf[email[p]] = p
  /\ \A p, q \in Person : email[p] = email[q] /\ email[p] # NoAddress => p = q
  /\ \A p \in Person, a \in Address :
       change[p] # NoAddress /\ <<change[p].code, a>> \in mailed => a = change[p].to

=============================================================================
