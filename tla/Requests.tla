------------------------------ MODULE Requests ------------------------------
(***************************************************************************)
(* The life of a money-moving request: the idempotency middleware          *)
(* (utils/idempotency.js), the handler's postOnce (services/ledger.js) and *)
(* the DB transaction it runs (db/withTransaction.js), for attempts that   *)
(* carry the same Idempotency-Key at the same time.                        *)
(*                                                                         *)
(* Every SQL statement outside the handler's DB transaction is a step of   *)
(* its own; the transaction, which locks what it reads, is one step.  A    *)
(* request may be slow, may die at any step, and its client may retry.     *)
(* A key is already scoped to its caller and a payload stands for all that *)
(* is hashed or compared; the amount a payload moves is Cost[p].           *)
(***************************************************************************)
EXTENDS Integers, FiniteSets

CONSTANTS
  Slot,        \* requests that can be at the server at once
  Key,         \* scoped idempotency keys
  Payload,     \* method, path and body of a request
  Cost,        \* Cost[p]: minor units payload p moves out of the wallet
  Funds,       \* what the wallet holds at the start
  MaxDeaths,   \* bound: requests that die before they answer
  None         \* no row, no response (NULL), no transaction

ASSUME NoneAssumption  == None \notin Payload
ASSUME CostAssumption  == Cost \in [Payload -> Nat]
ASSUME FundsAssumption == Funds \in Nat
ASSUME DeathAssumption == MaxDeaths \in Nat

VARIABLES
  claim,    \* claim[k]: the idempotency_keys row, None when there is none
  txn,      \* txn[k]: payload of the transaction posted under key k
  moved,    \* moved[k]: how often money was moved for key k
  funds,    \* the wallet's balance
  req,      \* req[x]: the request in slot x
  deaths    \* requests that died so far

vars == <<claim, txn, moved, funds, req, deaths>>

\* created_at against the 60 seconds of STALE_IN_FLIGHT_SECONDS and the 24
\* hours of expires_at.
Age == {"fresh", "stale", "expired"}

ClaimRow == [hash: Payload, response: Payload \cup {None}, age: Age]

\* A slot's request: where it stands, what it asked, what it will be (or was)
\* told, which payload that answer is about, and whether the claim it made
\* has outlived the stale window.
Where   == {"idle", "clear", "claim", "inspect", "lookup", "work", "raced",
            "record", "answered"}
Outcome == {"none", "ok", "stored", "refused", "mismatch", "in_flight", "error"}
Request == [pc: Where, key: Key, payload: Payload, outcome: Outcome,
            of: Payload \cup {None}, slow: BOOLEAN]

TypeOK ==
  /\ claim  \in [Key -> ClaimRow \cup {None}]
  /\ txn    \in [Key -> Payload \cup {None}]
  /\ moved  \in [Key -> Nat]
  /\ funds  \in Nat
  /\ req    \in [Slot -> Request]
  /\ deaths \in 0 .. MaxDeaths

Init ==
  /\ claim  = [k \in Key |-> None]
  /\ txn    = [k \in Key |-> None]
  /\ moved  = [k \in Key |-> 0]
  /\ funds  = Funds
  /\ req \in [Slot -> {[pc |-> "idle", key |-> k, payload |-> p, outcome |-> "none",
                        of |-> None, slow |-> FALSE] : k \in Key, p \in Payload}]
  /\ \A x, y \in Slot : req[x] = req[y]
  /\ deaths = 0

InHandler(x) == req[x].pc \in {"lookup", "work", "raced", "record"}

Goto(x, pc) == req' = [req EXCEPT ![x].pc = pc]

\* The request will be answered with this, after the middleware's record.
Finish(x, outcome, of) ==
  req' = [req EXCEPT ![x].pc = "record", ![x].outcome = outcome, ![x].of = of]

\* The middleware answers by itself; the handler never runs.
AnswerEarly(x, outcome, of) ==
  req' = [req EXCEPT ![x].pc = "answered", ![x].outcome = outcome, ![x].of = of]

(***************************************************************************)
(* The client and the clock.                                               *)
(***************************************************************************)

\* A request arrives, the first one or a retry.
Send(x, k, p) ==
  /\ req[x].pc \in {"idle", "answered"}
  /\ req' = [req EXCEPT ![x] = [pc |-> "clear", key |-> k, payload |-> p,
                                outcome |-> "none", of |-> None, slow |-> FALSE]]
  /\ UNCHANGED <<claim, txn, moved, funds, deaths>>

\* Time passes for a claim.  Whoever is in a handler under this key claimed
\* it no later than the row was written, so all of them are slow now.
GrowOld(k) ==
  /\ claim[k] # None
  /\ \/ /\ claim[k].age = "fresh"
        /\ claim' = [claim EXCEPT ![k].age = "stale"]
     \/ /\ claim[k].age = "stale"
        /\ claim' = [claim EXCEPT ![k].age = "expired"]
  /\ req' = [x \in Slot |->
               IF req[x].key = k /\ InHandler(x) THEN [req[x] EXCEPT !.slow = TRUE]
               ELSE req[x]]
  /\ UNCHANGED <<txn, moved, funds, deaths>>

\* The process dies under a request: what was committed stays, nobody is told.
Die(x) ==
  /\ req[x].pc \notin {"idle", "answered"}
  /\ deaths < MaxDeaths
  /\ req' = [req EXCEPT ![x].pc = "idle", ![x].outcome = "none", ![x].of = None]
  /\ deaths' = deaths + 1
  /\ UNCHANGED <<claim, txn, moved, funds>>

(***************************************************************************)
(* The middleware before the handler.                                      *)
(***************************************************************************)

\* Defects the properties must catch are named after what they leave out.
Clear_NeverUnanswered(x) ==
  LET row == claim[req[x].key] IN
  /\ req[x].pc = "clear"
  /\ claim' = [claim EXCEPT ![req[x].key] =
       IF row # None /\ row.age = "expired" /\ row.response # None THEN None ELSE row]
  /\ Goto(x, "claim")
  /\ UNCHANGED <<txn, moved, funds, deaths>>

\* DELETE: the key has expired, or its request is taken for dead.
Clear(x) ==
  LET row == claim[req[x].key] IN
  /\ req[x].pc = "clear"
  /\ claim' = [claim EXCEPT ![req[x].key] =
       IF row # None /\ (row.age = "expired" \/ (row.age = "stale" /\ row.response = None))
       THEN None ELSE row]
  /\ Goto(x, "claim")
  /\ UNCHANGED <<txn, moved, funds, deaths>>

\* INSERT ... ON CONFLICT DO NOTHING: one of the racers gets the key.
Claim(x) ==
  /\ req[x].pc = "claim"
  /\ \/ /\ claim[req[x].key] = None
        /\ claim' = [claim EXCEPT ![req[x].key] =
             [hash |-> req[x].payload, response |-> None, age |-> "fresh"]]
        /\ Goto(x, "lookup")
     \/ /\ claim[req[x].key] # None
        /\ UNCHANGED claim
        /\ Goto(x, "inspect")
  /\ UNCHANGED <<txn, moved, funds, deaths>>

\* The SELECT of a request that did not get the key.
Inspect(x) ==
  LET row == claim[req[x].key] IN
  /\ req[x].pc = "inspect"
  /\ \/ row = None /\ AnswerEarly(x, "in_flight", None)
     \/ row # None /\ row.hash # req[x].payload /\ AnswerEarly(x, "mismatch", None)
     \/ row # None /\ row.hash = req[x].payload /\ row.response = None
          /\ AnswerEarly(x, "in_flight", None)
     \/ row # None /\ row.hash = req[x].payload /\ row.response # None
          /\ AnswerEarly(x, "stored", row.response)
  /\ UNCHANGED <<claim, txn, moved, funds, deaths>>

(***************************************************************************)
(* The handler: postOnce.                                                  *)
(***************************************************************************)

Replay_AnyPayload(x) == Finish(x, "ok", txn[req[x].key])

\* replay(): a transaction stored under this key is the answer if it was the
\* same operation.
Replay(x) ==
  \/ txn[req[x].key] = req[x].payload /\ Finish(x, "ok", txn[req[x].key])
  \/ txn[req[x].key] # req[x].payload /\ Finish(x, "mismatch", None)

\* The lookup before the work, outside its DB transaction.
Lookup(x) ==
  /\ req[x].pc = "lookup"
  /\ \/ txn[req[x].key] = None /\ Goto(x, "work")
     \/ txn[req[x].key] # None /\ Replay(x)
  /\ UNCHANGED <<claim, txn, moved, funds, deaths>>

\* lockAndCheckAccounts comes before the INSERT that the unique key guards:
\* without the money the request is refused, whoever spent it.
Refuse(x) ==
  /\ req[x].pc = "work"
  /\ funds < Cost[req[x].payload]
  /\ Finish(x, "refused", None)
  /\ UNCHANGED <<claim, txn, moved, funds, deaths>>

Post_NoUniqueKey(x) ==
  LET k == req[x].key
      p == req[x].payload
  IN
  /\ req[x].pc = "work"
  /\ funds >= Cost[p]
  /\ txn'   = [txn EXCEPT ![k] = p]
  /\ moved' = [moved EXCEPT ![k] = @ + 1]
  /\ funds' = funds - Cost[p]
  /\ Finish(x, "ok", p) \/ Finish(x, "error", None)
  /\ UNCHANGED <<claim, deaths>>

\* COMMIT.  The connection may break under it, and then the handler answers
\* an error for a transaction that is in the database.
Post(x) ==
  LET k == req[x].key
      p == req[x].payload
  IN
  /\ req[x].pc = "work"
  /\ funds >= Cost[p]
  /\ txn[k] = None
  /\ txn'   = [txn EXCEPT ![k] = p]
  /\ moved' = [moved EXCEPT ![k] = @ + 1]
  /\ funds' = funds - Cost[p]
  /\ Finish(x, "ok", p) \/ Finish(x, "error", None)
  /\ UNCHANGED <<claim, deaths>>

\* 23505 on transactions_idempotency_key_key: ROLLBACK and look again.
HitUniqueKey(x) ==
  /\ req[x].pc = "work"
  /\ funds >= Cost[req[x].payload]
  /\ txn[req[x].key] # None
  /\ Goto(x, "raced")
  /\ UNCHANGED <<claim, txn, moved, funds, deaths>>

\* Any other database error: ROLLBACK.
FailWork(x) ==
  /\ req[x].pc = "work"
  /\ Finish(x, "error", None)
  /\ UNCHANGED <<claim, txn, moved, funds, deaths>>

Raced(x) ==
  /\ req[x].pc = "raced"
  /\ Replay(x)
  /\ UNCHANGED <<claim, txn, moved, funds, deaths>>

(***************************************************************************)
(* The middleware after the handler (the wrapped res.json).                *)
(***************************************************************************)

\* A 2xx response is stored under the key, any other releases it, whoever
\* holds the key by now.
Record(x) ==
  LET k == req[x].key IN
  /\ req[x].pc = "record"
  /\ claim' = [claim EXCEPT ![k] =
       IF req[x].outcome # "ok" \/ claim[k] = None THEN None
       ELSE [claim[k] EXCEPT !.response = req[x].of]]
  /\ Goto(x, "answered")
  /\ UNCHANGED <<txn, moved, funds, deaths>>

\* The write fails: it is logged and the client is answered all the same.
RecordFails(x) ==
  /\ req[x].pc = "record"
  /\ Goto(x, "answered")
  /\ UNCHANGED <<claim, txn, moved, funds, deaths>>

Serve(x) ==
  \/ Clear(x) \/ Claim(x) \/ Inspect(x)
  \/ Lookup(x) \/ Refuse(x) \/ Post(x) \/ HitUniqueKey(x) \/ FailWork(x) \/ Raced(x)
  \/ Record(x) \/ RecordFails(x)

Next ==
  \/ \E x \in Slot, k \in Key, p \in Payload : Send(x, k, p)
  \/ \E k \in Key : GrowOld(k)
  \/ \E x \in Slot : Die(x)
  \/ \E x \in Slot : Serve(x)

Spec == Init /\ [][Next]_vars

\* The event loop runs every request that is at the server, the clock never
\* stops, and a client that was not told the outcome asks again.
Retry(x) == req[x].outcome \notin {"ok", "stored"} /\ Send(x, req[x].key, req[x].payload)

Fairness ==
  /\ \A x \in Slot : WF_vars(Serve(x)) /\ WF_vars(Retry(x))
  /\ \A k \in Key : WF_vars(GrowOld(k))

FairSpec == Spec /\ Fairness

(***************************************************************************)
(* Properties.                                                             *)
(***************************************************************************)

\* Money moves at most once per key, although two attempts may be in the
\* handler at once (a crash, or a request slower than the stale window).
MovedOnce == \A k \in Key : moved[k] <= 1

Told(x) == req[x].pc = "answered" /\ req[x].outcome \in {"ok", "stored"}

\* A client that is told "created" can rely on it: the money moved under its
\* key, for the very payload the answer describes, which is its own if it was
\* the handler that answered.
SuccessIsReal ==
  \A x \in Slot : Told(x) =>
    /\ moved[req[x].key] = 1 /\ txn[req[x].key] = req[x].of
    /\ req[x].outcome = "ok" => req[x].of = req[x].payload

\* Once money moved, some client learns it, unless others keep using its key
\* for another payment: crashed claims age away, and a retry is answered from
\* the store or from the transaction itself.
KeyIsShared(k) == \E x \in Slot : req[x].key = k /\ req[x].payload # txn[k]

LearnsOutcome ==
  \A k \in Key :
    \/ []<>KeyIsShared(k)
    \/ moved[k] = 1 ~> \E x \in Slot : Told(x) /\ req[x].key = k

=============================================================================
