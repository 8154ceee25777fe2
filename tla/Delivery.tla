------------------------------- MODULE Delivery -------------------------------
(***************************************************************************)
(* Outgoing email: services/email.js, the email part of services/queue.js  *)
(* and of worker.js.                                                       *)
(*                                                                         *)
(* An email is a row of email_log, written in the DB transaction of what   *)
(* it tells of, and a job that is added after the commit.  The worker, or  *)
(* the API process when the queue cannot be reached, hands it to the mail  *)
(* server and then records how that went.                                  *)
(*                                                                         *)
(* The queue (BullMQ) is known by what this code asks of it: one job under *)
(* an id, so many attempts, the job of a worker it has lost to another.    *)
(* It gives up a job that it has lost twice (its default).                 *)
(***************************************************************************)
EXTENDS Naturals

CONSTANTS
  Email,        \* the rows of email_log
  Sender,         \* deliveries that can be under way at once
  EmailAttempts, \* EMAIL_ATTEMPTS
  MaxMishaps,   \* bound: deaths, failing statements and lost workers
  Nobody

ASSUME EmailAttemptsAssumption == EmailAttempts \in Nat \ {0} /\ MaxMishaps \in Nat

VARIABLES
  mail,      \* mail[e]: the status of e's row
  due,       \* emails whose enqueue callback has not run
  post,      \* post[e]: e's job
  delivery,  \* delivery[s]: a call of deliverEmail
  taken,     \* taken[e]: how often the mail server took e (history)
  hit,       \* emails that a mishap befell (history)
  met,       \* emails that two deliveries were about at once (history)
  mishaps    \* counted up to MaxMishaps

mails == <<mail, due, post, delivery, taken, hit, met, mishaps>>

PostJob   == [state: {"none", "waiting", "active"}, by: Sender \cup {Nobody},
           made: 0 .. EmailAttempts - 1, lost: 0 .. 1]
NoPost == [state |-> "none", by |-> Nobody, made |-> 0, lost |-> 0]

\* last: lastAttempt, always true in the API process.
Sending   == [pc: {"idle", "look", "send", "taken", "refused"}, email: Email \cup {Nobody},
           last: BOOLEAN]
NotSending == [pc |-> "idle", email |-> Nobody, last |-> FALSE]

DeliveryTypeOK ==
  /\ mail \in [Email -> {"none", "queued", "sent", "failed"}]
  /\ due \subseteq Email
  /\ post \in [Email -> PostJob]
  /\ delivery \in [Sender -> Sending]
  /\ taken \in [Email -> Nat]
  /\ hit \subseteq Email
  /\ met \subseteq Email
  /\ mishaps \in 0 .. MaxMishaps

DeliveryInit ==
  /\ mail = [e \in Email |-> "none"]
  /\ due = {}
  /\ post = [e \in Email |-> NoPost]
  /\ delivery = [s \in Sender |-> NotSending]
  /\ taken = [e \in Email |-> 0]
  /\ hit = {}
  /\ met = {}
  /\ mishaps = 0

Mishap(e) ==
  /\ mishaps < MaxMishaps
  /\ mishaps' = mishaps + 1
  /\ hit' = hit \cup {e}

(***************************************************************************)
(* Saving and queueing.                                                    *)
(***************************************************************************)

\* queueEmail, and the commit of the DB transaction it is called in.
QueueEmail(e) ==
  /\ mail[e] = "none"
  /\ mail' = [mail EXCEPT ![e] = "queued"]
  /\ due' = due \cup {e}
  /\ UNCHANGED <<post, delivery, taken, hit, met, mishaps>>

Added(e) ==
  post' = IF post[e].state = "none" THEN [post EXCEPT ![e].state = "waiting"] ELSE post

Start(s, e, last) ==
  /\ delivery[s].pc = "idle"
  /\ delivery' = [delivery EXCEPT ![s] = [pc |-> "look", email |-> e, last |-> last]]

\* enqueue: the job is added; or the queue cannot be reached, or was and its
\* answer got lost, and the email is sent from here.
EnqueueEmail(s, e, added, answered) ==
  /\ e \in due
  /\ due' = due \ {e}
  /\ IF added THEN Added(e) ELSE UNCHANGED post
  /\ IF answered THEN added /\ UNCHANGED delivery ELSE Start(s, e, TRUE)
  /\ UNCHANGED <<mail, taken, hit, met, mishaps>>

\* The process dies after the commit: callbacks are kept nowhere else.
LoseEnqueue(e) ==
  /\ e \in due
  /\ due' = due \ {e}
  /\ Mishap(e)
  /\ UNCHANGED <<mail, post, delivery, taken, met>>

TakePost_NeverLast(s, e) ==
  /\ post[e].state = "waiting"
  /\ post' = [post EXCEPT ![e].state = "active", ![e].by = s]
  /\ Start(s, e, post[e].made >= EmailAttempts)
  /\ UNCHANGED <<mail, due, taken, hit, met, mishaps>>

\* The worker takes the job.
TakePost(s, e) ==
  /\ post[e].state = "waiting"
  /\ post' = [post EXCEPT ![e].state = "active", ![e].by = s]
  /\ Start(s, e, post[e].made + 1 >= EmailAttempts)
  /\ UNCHANGED <<mail, due, taken, hit, met, mishaps>>

(***************************************************************************)
(* deliverEmail.                                                           *)
(***************************************************************************)

\* The job of delivery s ends as p, if it is s's job (still).
EndPost(s, p) ==
  LET e == delivery[s].email IN
  post' = IF post[e].by = s THEN [post EXCEPT ![e] = p] ELSE post

\* It ended well, or badly: then the queue tries again, so many times.
Done(s)  == EndPost(s, NoPost) /\ delivery' = [delivery EXCEPT ![s] = NotSending]
Threw(s) ==
  LET p == post[delivery[s].email] IN
  /\ EndPost(s, IF p.made + 1 < EmailAttempts
                THEN [p EXCEPT !.state = "waiting", !.by = Nobody, !.made = @ + 1] ELSE NoPost)
  /\ delivery' = [delivery EXCEPT ![s] = NotSending]

Under(e) == {s \in Sender : delivery[s].email = e /\ delivery[s].pc \notin {"idle", "look"}}

\* s reads the row while another delivery that has read it goes on.
Meets(s) ==
  met' = IF Under(delivery[s].email) = {} THEN met ELSE met \cup {delivery[s].email}

LookAtMail_Unread(s) ==
  /\ delivery[s].pc = "look"
  /\ delivery' = [delivery EXCEPT ![s].pc = "send"]
  /\ UNCHANGED post
  /\ Meets(s)
  /\ UNCHANGED <<mail, due, taken, hit, mishaps>>

\* The row, read without a lock: one that was sent is left alone.
LookAtMail(s) ==
  /\ delivery[s].pc = "look"
  /\ \/ mail[delivery[s].email] = "sent" /\ Done(s)
     \/ /\ mail[delivery[s].email] # "sent"
        /\ delivery' = [delivery EXCEPT ![s].pc = "send"]
        /\ UNCHANGED post
  /\ Meets(s)
  /\ UNCHANGED <<mail, due, taken, hit, mishaps>>

\* sendMail
SendMail(s, accepted) ==
  /\ delivery[s].pc = "send"
  /\ delivery' = [delivery EXCEPT ![s].pc = IF accepted THEN "taken" ELSE "refused"]
  /\ taken' = IF accepted THEN [taken EXCEPT ![delivery[s].email] = @ + 1] ELSE taken
  /\ UNCHANGED <<mail, due, post, hit, met, mishaps>>

RecordSent(s) ==
  /\ delivery[s].pc = "taken"
  /\ mail' = [mail EXCEPT ![delivery[s].email] = "sent"]
  /\ Done(s)
  /\ UNCHANGED <<due, taken, hit, met, mishaps>>

\* The last attempt's failure is written over whatever the row says by now.
RecordFailed(s) ==
  /\ delivery[s].pc = "refused"
  /\ mail' = IF delivery[s].last THEN [mail EXCEPT ![delivery[s].email] = "failed"] ELSE mail
  /\ Threw(s)
  /\ UNCHANGED <<due, taken, hit, met, mishaps>>

\* A statement fails: what the mail server took is recorded as a failure, and
\* a failure not at all.
StatementFails(s) ==
  /\ delivery[s].pc \in {"look", "taken", "refused"}
  /\ Mishap(delivery[s].email)
  /\ IF delivery[s].pc = "taken"
     THEN delivery' = [delivery EXCEPT ![s].pc = "refused"] /\ UNCHANGED post
     ELSE Threw(s)
  /\ UNCHANGED <<mail, due, taken, met>>

(***************************************************************************)
(* Deaths.                                                                 *)
(***************************************************************************)

\* The process that runs delivery s dies.
DieDelivering(s) ==
  /\ delivery[s].pc # "idle"
  /\ Mishap(delivery[s].email)
  /\ EndPost(s, [post[delivery[s].email] EXCEPT !.by = Nobody])
  /\ delivery' = [delivery EXCEPT ![s] = NotSending]
  /\ UNCHANGED <<mail, due, taken, met>>

Reassigned(e) ==
  post' = [post EXCEPT ![e] = IF @.lost = 0 THEN [@ EXCEPT !.state = "waiting", !.by = Nobody, !.lost = 1]
                              ELSE NoPost]

\* The queue notices that a job's worker is dead ...
Reassign(e) ==
  /\ post[e].state = "active"
  /\ post[e].by = Nobody
  /\ Reassigned(e)
  /\ UNCHANGED <<mail, due, delivery, taken, hit, met, mishaps>>

\* ... or has not heard from one that lives, and goes on.
LoseTouch(e) ==
  /\ post[e].state = "active"
  /\ post[e].by # Nobody
  /\ Mishap(e)
  /\ Reassigned(e)
  /\ UNCHANGED <<mail, due, delivery, taken, met>>

Deliver(s) ==
  \/ LookAtMail(s) \/ RecordSent(s) \/ RecordFailed(s)
  \/ \E accepted \in BOOLEAN : SendMail(s, accepted)

Hand(e) ==
  \/ Reassign(e)
  \/ \E s \in Sender : TakePost(s, e)
  \/ \E s \in Sender, added, answered \in BOOLEAN : EnqueueEmail(s, e, added, answered)

DeliveryNext ==
  \/ \E e \in Email : QueueEmail(e) \/ LoseEnqueue(e) \/ Hand(e) \/ LoseTouch(e)
  \/ \E s \in Sender : Deliver(s) \/ StatementFails(s) \/ DieDelivering(s)

DeliverySpec == DeliveryInit /\ [][DeliveryNext]_mails

\* Callbacks run, workers take what waits, and calls and statements end.
DeliveryFairness ==
  /\ \A e \in Email : WF_mails(Hand(e))
  /\ \A s \in Sender : WF_mails(Deliver(s))

(***************************************************************************)
(* Properties.                                                             *)
(***************************************************************************)

\* Nobody is going to deliver e any more.
Forsaken(e) ==
  /\ e \notin due
  /\ post[e].state = "none"
  /\ \A s \in Sender : delivery[s].email # e

\* An email goes out once, and its row says so: one that the mail server took
\* twice, or that stays "failed" although it was taken, was in two deliveries
\* at once (deliverEmail looks at the row without a lock, and adds its outcome
\* to what another has written) or in a mishap between the mail server and
\* the row.
SentOnce ==
  /\ DeliveryTypeOK
  /\ \A e \in Email :
       /\ mail[e] = "sent" => taken[e] > 0
       /\ taken[e] > 1 => e \in hit \cup met
       /\ mail[e] = "failed" /\ taken[e] > 0 /\ Under(e) = {} => e \in hit \cup met

\* "Retried ... before the email is marked failed" (queue.js): every email is
\* in the end sent or marked failed, or else nobody has it any more because of
\* a mishap: the API process died before its job was added or while it
\* sent the email itself, a worker was lost twice, or the last attempt's
\* failure could not be written.
EverySettled ==
  \A e \in Email :
    mail[e] = "queued" ~> mail[e] \in {"sent", "failed"} \/ (Forsaken(e) /\ e \in hit)

=============================================================================
