---------------------------- MODULE RetriesProofs ----------------------------
(***************************************************************************)
(* What Requests, Payouts and Delivery promise of what is tried again: for *)
(* any requests, keys, payloads and deaths money moves once per key; for   *)
(* any withdrawals, processes and faults the books match, the limit holds  *)
(* and an outcome is final; and for any emails, deliveries and mishaps an  *)
(* email goes out once.                                                    *)
(***************************************************************************)
EXTENDS Requests, Payouts, Delivery, Sums

(***************************************************************************)
(* Requests: money moves once per key (MovedOnce) and a success that is    *)
(* told is real (SuccessIsReal).                                           *)
(*                                                                         *)
(* Neither is inductive: that money moved once rests on the transaction    *)
(* being there exactly when it did, and what is told rests on what was     *)
(* stored under the key, perhaps by an attempt that had lost its claim.    *)
(***************************************************************************)

\* Money moved for a key when its transaction is there.
Once == \A k \in Key : moved[k] = IF txn[k] = None THEN 0 ELSE 1

\* What is stored under a key is about the key's transaction.
StoredIsReal ==
  \A k \in Key : claim[k] # None /\ claim[k].response # None => claim[k].response = txn[k]

\* What request x will be told, or was told, is about the key's transaction.
AnswerIsReal(x) ==
  /\ req[x].outcome = "ok" => req[x].of = req[x].payload /\ req[x].of = txn[req[x].key]
  /\ req[x].outcome = "stored" => req[x].of # None /\ req[x].of = txn[req[x].key]

RequestInv == TypeOK /\ Once /\ StoredIsReal /\ \A x \in Slot : AnswerIsReal(x)

(***************************************************************************)
(* Types.                                                                  *)
(***************************************************************************)

\* Request x changes where it stands and what it will be told.
Changed(x, pc, o, p) ==
  req' = [req EXCEPT ![x] = [req[x] EXCEPT !.pc = pc, !.outcome = o, !.of = p]]

LEMMA RequestParts ==
  ASSUME TypeOK, NEW x \in Slot
  PROVE  /\ req[x] \in Request
         /\ req[x].key \in Key /\ req[x].payload \in Payload
         /\ req[x].outcome \in Outcome /\ req[x].of \in Payload \cup {None}
  BY DEF TypeOK, Request

LEMMA GotoChanges ==
  ASSUME TypeOK, NEW x \in Slot, NEW pc \in Where, Goto(x, pc)
  PROVE  Changed(x, pc, req[x].outcome, req[x].of)
<1>1. req[x] \in Request
  BY RequestParts
<1>2. [req[x] EXCEPT !.pc = pc]
        = [req[x] EXCEPT !.pc = pc, !.outcome = req[x].outcome, !.of = req[x].of]
  BY <1>1 DEF Request
<1> QED
  BY <1>2 DEF Goto, Changed

LEMMA FinishChanges ==
  ASSUME TypeOK, NEW x \in Slot, NEW o, NEW p
  PROVE  /\ Finish(x, o, p) => Changed(x, "record", o, p)
         /\ AnswerEarly(x, o, p) => Changed(x, "answered", o, p)
  BY DEF Finish, AnswerEarly, Changed, TypeOK

LEMMA ChangedType ==
  ASSUME TypeOK, NEW x \in Slot, NEW pc \in Where, NEW o \in Outcome,
         NEW p \in Payload \cup {None}, Changed(x, pc, o, p)
  PROVE  /\ req' \in [Slot -> Request]
         /\ req'[x].outcome = o /\ req'[x].of = p /\ req'[x].pc = pc
         /\ req'[x].key = req[x].key /\ req'[x].payload = req[x].payload
         /\ \A y \in Slot \ {x} : req'[y] = req[y]
<1> DEFINE new == [req[x] EXCEPT !.pc = pc, !.outcome = o, !.of = p]
<1>1. req[x] \in Request
  BY RequestParts
<1>2. /\ new \in Request /\ new.outcome = o /\ new.of = p /\ new.pc = pc
      /\ new.key = req[x].key /\ new.payload = req[x].payload
  BY <1>1 DEF Request
<1> HIDE DEF new
<1>3. req' = [req EXCEPT ![x] = new]
  BY DEF Changed, new
<1> QED
  BY <1>2, <1>3 DEF TypeOK

LEMMA ClaimParts ==
  ASSUME TypeOK, NEW k \in Key, claim[k] # None
  PROVE  /\ claim[k] \in ClaimRow
         /\ \A age \in Age : [claim[k] EXCEPT !.age = age] \in ClaimRow
         /\ \A p \in Payload : [claim[k] EXCEPT !.response = p] \in ClaimRow
  BY DEF TypeOK, ClaimRow

(***************************************************************************)
(* Steps.                                                                  *)
(***************************************************************************)

\* A transaction, once posted, is never replaced.
PostedStays == \A k \in Key : txn[k] # None => txn'[k] = txn[k]

LEMMA AnswersStayReal ==
  ASSUME RequestInv, PostedStays, txn' \in [Key -> Payload \cup {None}],
         NEW x \in Slot, NEW pc \in Where, NEW o \in Outcome, NEW p \in Payload \cup {None},
         Changed(x, pc, o, p),
         o = "ok" => p = req[x].payload /\ p = txn'[req[x].key],
         o = "stored" => p # None /\ p = txn'[req[x].key]
  PROVE  req' \in [Slot -> Request] /\ \A y \in Slot : AnswerIsReal(y)'
<1>1. /\ req' \in [Slot -> Request]
      /\ req'[x].outcome = o /\ req'[x].of = p
      /\ req'[x].key = req[x].key /\ req'[x].payload = req[x].payload
      /\ \A y \in Slot \ {x} : req'[y] = req[y]
  BY ChangedType DEF RequestInv
<1>2. ASSUME NEW y \in Slot PROVE AnswerIsReal(y)'
  <2>1. CASE y = x
    BY <1>1, <2>1 DEF AnswerIsReal
  <2>2. CASE y # x
    <3>1. req'[y] = req[y] /\ req[y].key \in Key /\ req[y].payload \in Payload
      BY <1>1, <2>2, RequestParts DEF RequestInv
    <3>2. AnswerIsReal(y)
      BY DEF RequestInv
    <3>3. req[y].outcome \in {"ok", "stored"} => txn'[req[y].key] = txn[req[y].key]
      BY <3>1, <3>2, NoneAssumption DEF AnswerIsReal, PostedStays
    <3> QED
      BY <3>1, <3>2, <3>3 DEF AnswerIsReal
  <2> QED
    BY <2>1, <2>2
<1> QED
  BY <1>1, <1>2

\* A request only moves on: it was told nothing yet, or is told it again.
LEMMA GotoKeepsAnswers ==
  ASSUME RequestInv, UNCHANGED txn, NEW x \in Slot, NEW pc \in Where, Goto(x, pc)
  PROVE  req' \in [Slot -> Request] /\ \A y \in Slot : AnswerIsReal(y)'
<1>1. Changed(x, pc, req[x].outcome, req[x].of)
  BY GotoChanges DEF RequestInv
<1>2. /\ req[x].outcome \in Outcome /\ req[x].of \in Payload \cup {None}
      /\ AnswerIsReal(x)
  BY RequestParts DEF RequestInv
<1>3. txn' \in [Key -> Payload \cup {None}] /\ PostedStays
  BY DEF RequestInv, TypeOK, PostedStays
<1> QED
  BY <1>1, <1>2, <1>3, AnswersStayReal DEF AnswerIsReal

\* A request is refused, or answered with a failure.
LEMMA FailureKeepsAnswers ==
  ASSUME RequestInv, UNCHANGED txn, NEW x \in Slot, NEW o \in Outcome \ {"ok", "stored"},
         Finish(x, o, None) \/ AnswerEarly(x, o, None)
  PROVE  req' \in [Slot -> Request] /\ \A y \in Slot : AnswerIsReal(y)'
<1>1. \E pc \in Where : Changed(x, pc, o, None)
  BY FinishChanges DEF RequestInv, Where
<1>2. txn' \in [Key -> Payload \cup {None}] /\ PostedStays
  BY DEF RequestInv, TypeOK, PostedStays
<1> QED
  BY <1>1, <1>2, AnswersStayReal

\* replay() answers with the key's transaction or not at all.
LEMMA ReplayKeepsAnswers ==
  ASSUME RequestInv, UNCHANGED txn, NEW x \in Slot, Replay(x)
  PROVE  req' \in [Slot -> Request] /\ \A y \in Slot : AnswerIsReal(y)'
<1>1. req[x].key \in Key /\ req[x].payload \in Payload
  BY RequestParts DEF RequestInv
<1>2. CASE txn[req[x].key] = req[x].payload /\ Finish(x, "ok", txn[req[x].key])
  <2>1. Changed(x, "record", "ok", req[x].payload)
    BY <1>2, FinishChanges DEF RequestInv
  <2>2. txn' \in [Key -> Payload \cup {None}] /\ PostedStays
    BY DEF RequestInv, TypeOK, PostedStays
  <2> QED
    BY <1>1, <1>2, <2>1, <2>2, AnswersStayReal DEF Where, Outcome
<1>3. CASE Finish(x, "mismatch", None)
  BY <1>3, FailureKeepsAnswers DEF Outcome
<1> QED
  BY <1>2, <1>3 DEF Replay

\* The rows of claims stay typed and real.
LEMMA ClaimKept ==
  ASSUME RequestInv, PostedStays, NEW k \in Key, NEW row \in ClaimRow \cup {None},
         claim' = [claim EXCEPT ![k] = row],
         row # None /\ row.response # None =>
           \/ row.response = txn'[k]
           \/ claim[k] # None /\ row.response = claim[k].response
  PROVE  claim' \in [Key -> ClaimRow \cup {None}] /\ StoredIsReal'
<1>1. claim' \in [Key -> ClaimRow \cup {None}]
  BY DEF RequestInv, TypeOK
<1>2. \A l \in Key : claim[l] # None /\ claim[l].response # None => claim[l].response = txn'[l]
  BY DEF RequestInv, StoredIsReal, PostedStays
<1>3. claim'[k] = row /\ \A l \in Key \ {k} : claim'[l] = claim[l]
  BY DEF RequestInv, TypeOK
<1> QED
  BY <1>1, <1>2, <1>3 DEF StoredIsReal

\* Everything but the transaction: no money moves.
LEMMA NoMoneyMoves ==
  ASSUME RequestInv, UNCHANGED <<txn, moved, funds>>, deaths' \in 0 .. MaxDeaths,
         req' \in [Slot -> Request], \A y \in Slot : AnswerIsReal(y)',
         claim' \in [Key -> ClaimRow \cup {None}], StoredIsReal'
  PROVE  RequestInv'
<1>1. TypeOK' /\ Once'
  BY DEF RequestInv, TypeOK, Once
<1> QED
  BY <1>1 DEF RequestInv

LEMMA ClaimUnchanged ==
  ASSUME RequestInv, PostedStays, UNCHANGED claim
  PROVE  claim' \in [Key -> ClaimRow \cup {None}] /\ StoredIsReal'
  BY DEF RequestInv, TypeOK, StoredIsReal, PostedStays

\* COMMIT: the one step that moves money.
LEMMA PostKeeps ==
  ASSUME RequestInv, NEW x \in Slot, Post(x)
  PROVE  RequestInv'
<1> DEFINE k == req[x].key
           p == req[x].payload
<1>1. k \in Key /\ p \in Payload
  BY RequestParts DEF RequestInv
<1>2. /\ txn[k] = None /\ txn' = [txn EXCEPT ![k] = p]
      /\ moved' = [moved EXCEPT ![k] = moved[k] + 1]
      /\ funds' = funds - Cost[p] /\ funds >= Cost[p]
      /\ UNCHANGED <<claim, deaths>>
      /\ Finish(x, "ok", p) \/ Finish(x, "error", None)
  BY DEF Post
<1> HIDE DEF k, p
<1>3. /\ txn' \in [Key -> Payload \cup {None}] /\ PostedStays
      /\ txn'[k] = p
  BY <1>1, <1>2 DEF RequestInv, TypeOK, PostedStays
<1>4. /\ moved' \in [Key -> Nat] /\ Once'
  BY <1>1, <1>2, NoneAssumption DEF RequestInv, TypeOK, Once
<1>5. funds' \in Nat
  BY <1>1, <1>2, CostAssumption DEF RequestInv, TypeOK
<1>6. req' \in [Slot -> Request] /\ \A y \in Slot : AnswerIsReal(y)'
  <2>1. CASE Finish(x, "ok", p)
    <3>1. Changed(x, "record", "ok", p)
      BY <2>1, FinishChanges DEF RequestInv
    <3> QED
      BY <1>1, <1>3, <3>1, AnswersStayReal DEF k, p, Where, Outcome
  <2>2. CASE Finish(x, "error", None)
    <3>1. Changed(x, "record", "error", None)
      BY <2>2, FinishChanges DEF RequestInv
    <3> QED
      BY <1>3, <3>1, AnswersStayReal DEF Where, Outcome
  <2> QED
    BY <1>2, <2>1, <2>2
<1>7. claim' \in [Key -> ClaimRow \cup {None}] /\ StoredIsReal'
  BY <1>2, <1>3, ClaimUnchanged
<1>8. deaths' \in 0 .. MaxDeaths
  BY <1>2 DEF RequestInv, TypeOK
<1> QED
  BY <1>3, <1>4, <1>5, <1>6, <1>7, <1>8 DEF RequestInv, TypeOK

\* The middleware's record of an answer, under a key that may have changed
\* hands: a success is real whoever's row it is written to.
LEMMA RecordKeeps ==
  ASSUME RequestInv, NEW x \in Slot, Record(x)
  PROVE  RequestInv'
<1> DEFINE k == req[x].key
           row == IF req[x].outcome # "ok" \/ claim[k] = None THEN None
                  ELSE [claim[k] EXCEPT !.response = req[x].of]
<1>1. k \in Key /\ req[x].payload \in Payload
  BY RequestParts DEF RequestInv
<1>2. claim' = [claim EXCEPT ![k] = row] /\ Goto(x, "answered")
      /\ UNCHANGED <<txn, moved, funds, deaths>>
  BY DEF Record
<1>3. PostedStays
  BY <1>2 DEF PostedStays
<1>4. AnswerIsReal(x)
  BY DEF RequestInv
<1>5. row \in ClaimRow \cup {None}
      /\ (row # None /\ row.response # None => row.response = txn'[k])
  <2>1. CASE req[x].outcome # "ok" \/ claim[k] = None
    BY <2>1
  <2>2. CASE req[x].outcome = "ok" /\ claim[k] # None
    <3>1. req[x].of = req[x].payload /\ req[x].of = txn[k]
      BY <1>4, <2>2 DEF AnswerIsReal
    <3>2. row = [claim[k] EXCEPT !.response = req[x].of] /\ claim[k] \in ClaimRow
      BY <1>1, <2>2, ClaimParts DEF RequestInv
    <3>3. row \in ClaimRow /\ row.response = req[x].of
      BY <1>1, <3>1, <3>2 DEF ClaimRow
    <3> QED
      BY <1>2, <3>1, <3>3
  <2> QED
    BY <2>1, <2>2
<1> HIDE DEF k, row
<1>6. claim' \in [Key -> ClaimRow \cup {None}] /\ StoredIsReal'
  BY <1>1, <1>2, <1>3, <1>5, ClaimKept
<1>7. req' \in [Slot -> Request] /\ \A y \in Slot : AnswerIsReal(y)'
  BY <1>2, GotoKeepsAnswers DEF Where
<1> QED
  BY <1>2, <1>6, <1>7, NoMoneyMoves DEF RequestInv, TypeOK

\* The middleware and the handler before and after the COMMIT.
LEMMA ServeKeeps ==
  ASSUME RequestInv, NEW x \in Slot, Serve(x)
  PROVE  RequestInv'
<1> USE DEF Where, Outcome
<1>0. req[x].key \in Key /\ req[x].payload \in Payload /\ deaths \in 0 .. MaxDeaths
  BY RequestParts DEF RequestInv, TypeOK
<1>1. UNCHANGED txn => PostedStays
  BY DEF PostedStays
<1>2. UNCHANGED <<claim, txn>> => claim' \in [Key -> ClaimRow \cup {None}] /\ StoredIsReal'
  BY <1>1, ClaimUnchanged
<1>3. CASE Clear(x)
  <2> DEFINE k == req[x].key
             row == IF claim[k] # None /\ (claim[k].age = "expired"
                           \/ (claim[k].age = "stale" /\ claim[k].response = None))
                    THEN None ELSE claim[k]
  <2>1. claim' = [claim EXCEPT ![k] = row] /\ Goto(x, "claim")
        /\ UNCHANGED <<txn, moved, funds, deaths>>
    BY <1>3 DEF Clear
  <2>2. row \in ClaimRow \cup {None} /\ row \in {None, claim[k]}
    BY <1>0 DEF RequestInv, TypeOK
  <2> HIDE DEF k, row
  <2>3. claim' \in [Key -> ClaimRow \cup {None}] /\ StoredIsReal'
    BY <1>0, <1>1, <2>1, <2>2, ClaimKept DEF k
  <2> QED
    BY <1>0, <2>1, <2>3, GotoKeepsAnswers, NoMoneyMoves
<1>4. CASE Claim(x)
  <2>1. CASE claim[req[x].key] # None
    BY <1>0, <1>2, <1>4, <2>1, GotoKeepsAnswers, NoMoneyMoves DEF Claim
  <2>2. CASE claim[req[x].key] = None
    <3> DEFINE row == [hash |-> req[x].payload, response |-> None, age |-> "fresh"]
    <3>1. row \in ClaimRow \cup {None} /\ row.response = None
      BY <1>0 DEF ClaimRow, Age
    <3>2. claim' = [claim EXCEPT ![req[x].key] = row] /\ Goto(x, "lookup")
          /\ UNCHANGED <<txn, moved, funds, deaths>>
      BY <1>4, <2>2 DEF Claim
    <3> HIDE DEF row
    <3>3. claim' \in [Key -> ClaimRow \cup {None}] /\ StoredIsReal'
      BY <1>0, <1>1, <3>1, <3>2, ClaimKept
    <3> QED
      BY <1>0, <3>2, <3>3, GotoKeepsAnswers, NoMoneyMoves
  <2> QED
    BY <2>1, <2>2
<1>5. CASE Inspect(x)
  <2>1. UNCHANGED <<claim, txn, moved, funds, deaths>>
    BY <1>5 DEF Inspect
  <2>2. CASE AnswerEarly(x, "in_flight", None) \/ AnswerEarly(x, "mismatch", None)
    BY <1>0, <1>2, <2>1, <2>2, FailureKeepsAnswers, NoMoneyMoves
  <2>3. CASE /\ claim[req[x].key] # None /\ claim[req[x].key].response # None
             /\ AnswerEarly(x, "stored", claim[req[x].key].response)
    <3>1. /\ claim[req[x].key].response = txn'[req[x].key]
          /\ claim[req[x].key].response \in Payload \cup {None}
      BY <1>0, <2>1, <2>3, ClaimParts DEF RequestInv, StoredIsReal, ClaimRow
    <3>2. Changed(x, "answered", "stored", claim[req[x].key].response)
      BY <2>3, <3>1, FinishChanges DEF RequestInv
    <3>3. txn' \in [Key -> Payload \cup {None}]
      BY <2>1 DEF RequestInv, TypeOK
    <3>4. req' \in [Slot -> Request] /\ \A y \in Slot : AnswerIsReal(y)'
      BY <1>1, <2>1, <2>3, <3>1, <3>2, <3>3, AnswersStayReal
    <3> QED
      BY <1>0, <1>2, <2>1, <3>4, NoMoneyMoves
  <2> QED
    BY <1>5, <2>2, <2>3 DEF Inspect
<1>6. CASE Lookup(x)
  BY <1>0, <1>2, <1>6, GotoKeepsAnswers, ReplayKeepsAnswers, NoMoneyMoves DEF Lookup
<1>7. CASE Refuse(x) \/ FailWork(x)
  BY <1>0, <1>2, <1>7, FailureKeepsAnswers, NoMoneyMoves DEF Refuse, FailWork
<1>8. CASE Post(x)
  BY <1>8, PostKeeps
<1>9. CASE HitUniqueKey(x) \/ RecordFails(x)
  BY <1>0, <1>2, <1>9, GotoKeepsAnswers, NoMoneyMoves DEF HitUniqueKey, RecordFails
<1>10. CASE Raced(x)
  BY <1>0, <1>2, <1>10, ReplayKeepsAnswers, NoMoneyMoves DEF Raced
<1>11. CASE Record(x)
  BY <1>11, RecordKeeps
<1> QED
  BY <1>3, <1>4, <1>5, <1>6, <1>7, <1>8, <1>9, <1>10, <1>11 DEF Serve

\* A new request, or a retry, has been told nothing.
LEMMA SendKeeps ==
  ASSUME RequestInv, NEW x \in Slot, NEW k \in Key, NEW p \in Payload, Send(x, k, p)
  PROVE  RequestInv'
<1> DEFINE new == [pc |-> "clear", key |-> k, payload |-> p,
                   outcome |-> "none", of |-> None, slow |-> FALSE]
<1>1. new \in Request /\ new.outcome = "none"
  BY DEF Request, Where, Outcome
<1>2. req' = [req EXCEPT ![x] = new] /\ UNCHANGED <<claim, txn, moved, funds, deaths>>
  BY DEF Send
<1> HIDE DEF new
<1>3. req' \in [Slot -> Request] /\ req'[x] = new /\ \A y \in Slot \ {x} : req'[y] = req[y]
  BY <1>1, <1>2 DEF RequestInv, TypeOK
<1>4. \A y \in Slot : AnswerIsReal(y)'
  BY <1>1, <1>2, <1>3 DEF RequestInv, AnswerIsReal
<1>5. PostedStays /\ deaths' \in 0 .. MaxDeaths
  BY <1>2 DEF PostedStays, RequestInv, TypeOK
<1> QED
  BY <1>2, <1>3, <1>4, <1>5, ClaimUnchanged, NoMoneyMoves

\* Time changes what a claim may be taken for, and nothing that it says.
LEMMA GrowOldKeeps ==
  ASSUME RequestInv, NEW k \in Key, GrowOld(k)
  PROVE  RequestInv'
<1>1. UNCHANGED <<txn, moved, funds, deaths>> /\ claim[k] # None
  BY DEF GrowOld
<1>2. PostedStays /\ deaths' \in 0 .. MaxDeaths
  BY <1>1 DEF PostedStays, RequestInv, TypeOK
<1>3. claim' \in [Key -> ClaimRow \cup {None}] /\ StoredIsReal'
  <2>1. PICK age \in Age : claim' = [claim EXCEPT ![k].age = age]
    BY DEF GrowOld, Age
  <2> DEFINE row == [claim[k] EXCEPT !.age = age]
  <2>2. claim[k] \in ClaimRow /\ row \in ClaimRow
    BY <1>1, ClaimParts DEF RequestInv
  <2>3. row.response = claim[k].response
    BY <2>2 DEF ClaimRow
  <2>4. claim' = [claim EXCEPT ![k] = row]
    BY <2>1
  <2> HIDE DEF row
  <2> QED
    BY <1>1, <1>2, <2>2, <2>3, <2>4, ClaimKept
<1>4. ASSUME NEW y \in Slot
      PROVE  req'[y] \in Request /\ AnswerIsReal(y)'
  <2>1. req[y] \in Request /\ AnswerIsReal(y)
    BY RequestParts DEF RequestInv
  <2>2. req'[y] \in {req[y], [req[y] EXCEPT !.slow = TRUE]}
    BY DEF GrowOld
  <2>3. /\ req'[y] \in Request /\ req'[y].outcome = req[y].outcome
        /\ req'[y].of = req[y].of /\ req'[y].key = req[y].key
        /\ req'[y].payload = req[y].payload
    BY <2>1, <2>2 DEF Request
  <2> QED
    BY <1>1, <2>1, <2>3 DEF AnswerIsReal
<1>5. req' \in [Slot -> Request]
  BY <1>4 DEF GrowOld
<1> QED
  BY <1>1, <1>2, <1>3, <1>4, <1>5, NoMoneyMoves

\* A request that dies is told nothing.
LEMMA DieKeeps ==
  ASSUME RequestInv, NEW x \in Slot, Die(x)
  PROVE  RequestInv'
<1>1. /\ UNCHANGED <<claim, txn, moved, funds>>
      /\ deaths' = deaths + 1 /\ deaths < MaxDeaths
      /\ req' = [req EXCEPT ![x].pc = "idle", ![x].outcome = "none", ![x].of = None]
  BY DEF Die
<1>2. deaths' \in 0 .. MaxDeaths
  BY <1>1, DeathAssumption DEF RequestInv, TypeOK
<1>3. Changed(x, "idle", "none", None)
  BY <1>1 DEF Changed, RequestInv, TypeOK
<1>4. PostedStays /\ txn' \in [Key -> Payload \cup {None}]
  BY <1>1 DEF PostedStays, RequestInv, TypeOK
<1>5. req' \in [Slot -> Request] /\ \A y \in Slot : AnswerIsReal(y)'
  BY <1>3, <1>4, AnswersStayReal DEF Where, Outcome
<1> QED
  BY <1>1, <1>2, <1>4, <1>5, ClaimUnchanged, NoMoneyMoves

LEMMA RequestStep ==
  ASSUME RequestInv, [Next]_vars
  PROVE  RequestInv'
<1>1. CASE UNCHANGED vars
  BY <1>1 DEF vars, RequestInv, TypeOK, Once, StoredIsReal, AnswerIsReal
<1>2. CASE Next
  BY <1>2, SendKeeps, GrowOldKeeps, DieKeeps, ServeKeeps DEF Next
<1> QED
  BY <1>1, <1>2

LEMMA RequestInit == Init => RequestInv
<1> SUFFICES ASSUME Init PROVE RequestInv
  OBVIOUS
<1>1. ASSUME NEW x \in Slot
      PROVE  req[x] \in Request /\ req[x].outcome = "none"
  <2>1. PICK k \in Key, p \in Payload :
          req[x] = [pc |-> "idle", key |-> k, payload |-> p,
                    outcome |-> "none", of |-> None, slow |-> FALSE]
    BY DEF Init
  <2> QED
    BY <2>1 DEF Request, Where, Outcome
<1>2. req \in [Slot -> Request]
  BY <1>1 DEF Init
<1>3. TypeOK
  BY <1>2, FundsAssumption, DeathAssumption DEF Init, TypeOK
<1>4. Once /\ StoredIsReal /\ \A x \in Slot : AnswerIsReal(x)
  BY <1>1 DEF Init, Once, StoredIsReal, AnswerIsReal
<1> QED
  BY <1>3, <1>4 DEF RequestInv

\* Rows, requests and balances stay typed: the wallet is never overdrawn.
THEOREM RequestsTyped == Spec => []TypeOK
<1>1. RequestInv => TypeOK
  BY DEF RequestInv
<1> QED
  BY <1>1, RequestInit, RequestStep, PTL DEF Spec

\* However many attempts are in the handler with one key, slow, retried or
\* dead, money moves for it once.
THEOREM MoneyMovesOnce == Spec => []MovedOnce
<1>1. RequestInv => MovedOnce
  BY DEF RequestInv, Once, MovedOnce
<1> QED
  BY <1>1, RequestInit, RequestStep, PTL DEF Spec

\* Whoever is told that a payment was made can rely on it, for the payload
\* the answer describes.
THEOREM SuccessesAreReal == Spec => []SuccessIsReal
<1>1. RequestInv => SuccessIsReal
  <2> SUFFICES ASSUME RequestInv, NEW x \in Slot, Told(x)
               PROVE  /\ moved[req[x].key] = 1 /\ txn[req[x].key] = req[x].of
                      /\ req[x].outcome = "ok" => req[x].of = req[x].payload
    BY DEF SuccessIsReal
  <2>1. AnswerIsReal(x) /\ req[x].key \in Key /\ req[x].payload \in Payload
    BY RequestParts DEF RequestInv
  <2>2. txn[req[x].key] # None /\ txn[req[x].key] = req[x].of
    BY <2>1, NoneAssumption DEF Told, AnswerIsReal
  <2> QED
    BY <2>1, <2>2 DEF RequestInv, Once, AnswerIsReal
<1> QED
  BY <1>1, RequestInit, RequestStep, PTL DEF Spec

(***************************************************************************)
(* Payouts: an outcome is final, the books match, and a withdrawal keeps   *)
(* its promise unless it was misread: an answer about it was torn or could *)
(* not be stored, or it was refused and then accepted.                     *)
(***************************************************************************)

\* A process works on a withdrawal that is recorded, and takes one for paid
\* that the bank has paid; the same holds of the row.
Known ==
  /\ \A x \in Process :
       /\ call[x].pc \in {"send", "reply", "get", "paid", "fail"} => wd[call[x].w] # NoRow
       /\ call[x].pc = "paid" => flw[call[x].w] = "successful"
  /\ \A w \in Withdrawal :
       wd[w] # NoRow /\ wd[w].status = "successful" => flw[w] = "successful"

\* There is no transfer of a withdrawal that failed, is going to be marked
\* so, was refused or is not recorded, unless it was misread.
NotSent(w) == flw[w] = "failed" \/ w \in refused

HeldRow(w) ==
  /\ w \in refused => flw[w] = "none"
  /\ wd[w] # NoRow /\ wd[w].status = "failed" => NotSent(w)

HeldCall(x) ==
  /\ call[x].pc = "fail" => NotSent(call[x].w)
  /\ call[x].pc = "reply" =>
       /\ call[x].reply \notin {"torn", "none"}
       /\ call[x].reply \in {"failed", "refused"} => NotSent(call[x].w)

Held ==
  /\ \A w \in Withdrawal : wd[w] = NoRow => flw[w] = "none"
  /\ \A w \in Withdrawal \ misread : HeldRow(w)
  /\ \A x \in Process : call[x].w \notin misread => HeldCall(x)

PayoutsInv == PayoutsTypeOK /\ Known

LEMMA FeesAreNat ==
  ASSUME NEW t \in FeeTenths
  PROVE  ProcessorFee(t) \in Nat /\ CustomerFee(t) \in Nat
<1>1. t \in Nat
  BY BoundAssumption
<1>2. ProcessorFee(t) \in Nat /\ t \div 20 \in Nat
  BY <1>1 DEF ProcessorFee
<1> QED
  BY <1>2 DEF CustomerFee

LEMMA PayoutsInitInv == PayoutsInit => PayoutsInv /\ Held
<1> SUFFICES ASSUME PayoutsInit PROVE PayoutsInv /\ Held
  OBVIOUS
<1>1. PayoutsTypeOK
  BY BoundAssumption DEF PayoutsInit, PayoutsTypeOK, Call, Reply
<1>2. Known /\ Held
  BY DEF PayoutsInit, Known, Held, HeldRow, HeldCall
<1> QED
  BY <1>1, <1>2 DEF PayoutsInv

LEMMA TypeStep ==
  ASSUME PayoutsInv, [PayoutsNext]_payouts
  PROVE  PayoutsTypeOK'
<1> USE DEF PayoutsTypeOK, PayoutsInv
<1>0. ASSUME Fault \/ NoFault
      PROVE  faults' \in 0 .. MaxFaults
  BY <1>0, BoundAssumption DEF Fault, NoFault
<1>1. ASSUME NEW x \in Process, NEW w \in Withdrawal,
             NEW pc \in {"idle", "submit", "send", "sync", "get", "paid", "fail"},
             Begin(x, pc, w) \/ MoveTo(x, pc)
      PROVE  call' \in [Process -> Call]
  BY <1>1 DEF Begin, MoveTo, Call, Reply
<1>2. ASSUME NEW x \in Caller, NEW w \in Withdrawal, NEW m \in Amount, NEW t \in FeeTenths,
             Create(x, w, m, t)
      PROVE  PayoutsTypeOK'
  <2> DEFINE fee == CustomerFee(t)
  <2>1. fee \in Nat /\ ProcessorFee(t) \in Nat /\ m \in Nat
    BY FeesAreNat, BoundAssumption DEF Amount
  <2>2. Cardinality(Made) \in Nat
    BY FiniteAssumption, FS_Subset, FS_CardinalityType DEF Made
  <2>3. wd' \in [Withdrawal -> Row \cup {NoRow}]
    BY <1>2, <2>1, <2>2 DEF Create, Accepted, Row
  <2>4. money' \in [{"wallet", "payout", "fees", "flw"} -> Int] /\ money'["wallet"] >= 0
    <3> HIDE DEF fee
    <3>1. money["wallet"] >= m + fee
      BY <1>2 DEF Create, fee
    <3>2. money' = [money EXCEPT !["wallet"] = @ - m - fee, !["payout"] = @ + m, !["fees"] = @ + fee]
      BY <1>2 DEF Create, Accepted, fee
    <3> QED
      BY <2>1, <3>1, <3>2
  <2> QED
    BY <1>1, <1>2, <2>3, <2>4 DEF Create, Accepted, Process
<1>3. ASSUME NEW x \in Process, Step(x)
      PROVE  PayoutsTypeOK'
  <2>0. call[x].w \in Withdrawal /\ call[x] \in Call
    BY DEF Call
  <2>1. CASE LoadToSubmit(x) \/ HandleError(x) \/ LoadToSync(x)
    <3>1. call' \in [Process -> Call]
      BY <1>1, <2>0, <2>1 DEF LoadToSubmit, HandleError, LoadToSync
    <3> QED
      BY <2>1, <3>1 DEF LoadToSubmit, HandleError, LoadToSync
  <2>2. CASE Get(x)
    <3>1. call' \in [Process -> Call]
      BY <1>1, <2>0, <2>2 DEF Get
    <3> QED
      BY <1>0, <2>2, <3>1 DEF Get
  <2>3. CASE SendTransfer(x)
    <3>1. call' \in [Process -> Call]
      BY <2>0, <2>3 DEF SendTransfer, Call, Reply
    <3>2. flw' \in [Withdrawal -> {"none", "moving", "successful", "failed"}] /\ refused' \in SUBSET Withdrawal
      BY <2>0, <2>3 DEF SendTransfer, Processed
    <3>3. Fault \/ NoFault
      BY <2>3 DEF SendTransfer
    <3>4. misread' \in SUBSET Withdrawal
      BY <2>0, <2>3 DEF SendTransfer
    <3>5. faults' \in 0 .. MaxFaults
      BY <1>0, <3>3
    <3>6. UNCHANGED <<wd, money, batch>>
      BY <2>3 DEF SendTransfer
    <3> QED
      BY <3>1, <3>2, <3>4, <3>5, <3>6
  <2>4. CASE StoreTransfer(x)
    <3>1. call' \in [Process -> Call]
      BY <1>1, <2>0, <2>4 DEF StoreTransfer
    <3>2. wd' \in [Withdrawal -> Row \cup {NoRow}]
      <4> DEFINE w == call[x].w
      <4>1. wd[w] \in Row
        BY <2>0, <2>4 DEF StoreTransfer, Known
      <4>2. [wd[w] EXCEPT !.sent = TRUE] \in Row
        BY <4>1 DEF Row
      <4>3. wd' = [wd EXCEPT ![w] = [wd[w] EXCEPT !.sent = TRUE]] \/ wd' = wd
        BY <2>4 DEF StoreTransfer
      <4> QED
        BY <2>0, <4>2, <4>3
    <3>3. Fault \/ NoFault
      BY <2>4 DEF StoreTransfer
    <3>4. misread' \in SUBSET Withdrawal
      BY <2>0, <2>4 DEF StoreTransfer
    <3>5. faults' \in 0 .. MaxFaults
      BY <1>0, <3>3
    <3>6. UNCHANGED <<money, batch, flw, refused>>
      BY <2>4 DEF StoreTransfer
    <3> QED
      BY <3>1, <3>2, <3>4, <3>5, <3>6
  <2>5. CASE Settle(x)
    <3> DEFINE w == call[x].w
    <3>1. CASE ~IsPending(w)
      BY <1>1, <2>0, <2>5, <3>1 DEF Settle, IsPending
    <3>2. CASE IsPending(w)
      <4>1. /\ wd[w] \in Row /\ wd[w].amount \in Nat
            /\ wd[w].customerFee \in Nat /\ wd[w].processorFee \in Nat
        BY <2>0, <3>2, BoundAssumption DEF IsPending, Row, Amount
      <4>2. money' \in [{"wallet", "payout", "fees", "flw"} -> Int] /\ money'["wallet"] >= 0
        BY <2>5, <3>2, <4>1 DEF Settle, MarkPaid, MarkFailed
      <4>3. wd' \in [Withdrawal -> Row \cup {NoRow}]
        BY <2>0, <2>5, <3>2, <4>1 DEF Settle, MarkPaid, MarkFailed, Row
      <4> QED
        BY <1>1, <2>0, <2>5, <4>2, <4>3 DEF Settle
    <3> QED
      BY <3>1, <3>2
  <2> QED
    BY <1>3, <2>1, <2>2, <2>3, <2>4, <2>5 DEF Step
<1>4. ASSUME NEW x \in Process, Crash(x)
      PROVE  PayoutsTypeOK'
  BY <1>1, <1>4, BoundAssumption DEF Crash, Fault, Call
<1>5. ASSUME NEW x \in Caller, NEW w \in Withdrawal, StartSync(x, w)
      PROVE  PayoutsTypeOK'
  BY <1>1, <1>5 DEF StartSync, Process
<1>6. CASE WorkerStart
  BY <1>6 DEF WorkerStart
<1>7. CASE WorkerNext
  BY <1>1, <1>7 DEF WorkerNext, Process
<1>8. ASSUME NEW w \in Withdrawal, BankDecides(w)
      PROVE  PayoutsTypeOK'
  BY <1>8 DEF BankDecides
<1>9. CASE UNCHANGED payouts
  BY <1>9 DEF payouts
<1> QED
  BY <1>2, <1>3, <1>4, <1>5, <1>6, <1>7, <1>8, <1>9 DEF PayoutsNext

\* What MoveTo and Begin leave behind.
LEMMA Moved ==
  ASSUME PayoutsTypeOK, NEW x \in Process, NEW pc, MoveTo(x, pc)
  PROVE  /\ call'[x].pc = pc /\ call'[x].w = call[x].w /\ call'[x].reply = "none"
         /\ \A y \in Process : y # x => call'[y] = call[y]
  BY DEF PayoutsTypeOK, MoveTo, Call

LEMMA Begun ==
  ASSUME PayoutsTypeOK, NEW x \in Process, NEW pc, NEW w, Begin(x, pc, w)
  PROVE  /\ call'[x].pc = pc /\ call'[x].w = w /\ call'[x].reply = "none"
         /\ \A y \in Process : y # x => call'[y] = call[y]
  BY DEF PayoutsTypeOK, Begin

\* What a step does to the rows: they stay, and settle alone changes a status.
LEMMA RowsKept ==
  ASSUME PayoutsTypeOK, Known, NEW x \in Process, StoreTransfer(x) \/ Settle(x)
  PROVE  /\ \A w \in Withdrawal : wd'[w] = NoRow <=> wd[w] = NoRow
         /\ \A w \in Withdrawal : wd[w] # NoRow /\ wd'[w].status # wd[w].status =>
              /\ Settle(x) /\ w = call[x].w /\ wd[w].status = "pending"
              /\ \/ call[x].pc = "paid" /\ wd'[w].status = "successful"
                 \/ call[x].pc = "fail" /\ wd'[w].status = "failed"
         /\ \A w \in Withdrawal : wd[w] # NoRow /\ wd[w].sent => wd'[w].sent
<1> DEFINE v == call[x].w
<1> USE DEF PayoutsTypeOK
<1>0. v \in Withdrawal
  BY DEF Call
<1>1. \A w \in Withdrawal : wd[w] # NoRow => wd[w] \in Row
  OBVIOUS
<1>2. wd' = wd \/ (wd[v] # NoRow /\ \E row \in Row : wd' = [wd EXCEPT ![v] = row])
  <2>1. ASSUME wd[v] # NoRow, NEW st \in {"pending", "successful", "failed"}
        PROVE  [wd[v] EXCEPT !.status = st] \in Row /\ [wd[v] EXCEPT !.sent = TRUE] \in Row
    BY <1>0, <2>1 DEF Row
  <2>2. CASE StoreTransfer(x)
    <3>1. wd[v] # NoRow
      BY <2>2 DEF StoreTransfer, Known
    <3>2. wd' = wd \/ wd' = [wd EXCEPT ![v] = [wd[v] EXCEPT !.sent = TRUE]]
      BY <2>2 DEF StoreTransfer
    <3> QED
      BY <2>1, <3>1, <3>2
  <2>3. CASE Settle(x)
    <3>1. wd' = wd \/ (wd[v] # NoRow /\ \E st \in {"successful", "failed"} :
                         wd' = [wd EXCEPT ![v] = [wd[v] EXCEPT !.status = st]])
      BY <2>3 DEF Settle, MarkPaid, MarkFailed, IsPending
    <3> QED
      BY <2>1, <3>1
  <2> QED
    BY <2>2, <2>3
<1>3. \A w \in Withdrawal : wd'[w] = NoRow <=> wd[w] = NoRow
  BY <1>0, <1>2, NoRowAssumption
<1>4. \A w \in Withdrawal : w # v => wd'[w] = wd[w]
  BY <1>0, <1>2
<1>5. CASE StoreTransfer(x)
  <2>1. wd[v] # NoRow
    BY <1>5 DEF StoreTransfer, Known
  <2>2. wd' = wd \/ wd'[v] = [wd[v] EXCEPT !.sent = TRUE]
    BY <1>0, <1>5 DEF StoreTransfer
  <2>3. wd[v] \in Row
    BY <1>0, <1>1, <2>1
  <2>4. wd'[v].status = wd[v].status
    BY <2>2, <2>3 DEF Row
  <2>5. wd[v].sent => wd'[v].sent
    BY <2>2, <2>3 DEF Row
  <2> QED
    BY <1>3, <1>4, <2>4, <2>5
<1>6. CASE Settle(x)
  <2>1. CASE wd' = wd
    BY <2>1
  <2>2. CASE wd' # wd
    <3>1. wd[v] # NoRow /\ wd[v].status = "pending"
      BY <1>6, <2>2 DEF Settle, IsPending
    <3>2. wd[v] \in Row
      BY <1>0, <1>1, <3>1
    <3>3. \/ call[x].pc = "paid" /\ wd' = [wd EXCEPT ![v].status = "successful"]
          \/ call[x].pc = "fail" /\ wd' = [wd EXCEPT ![v].status = "failed"]
      BY <1>6, <2>2 DEF Settle, MarkPaid, MarkFailed
    <3>4. wd[v].sent => wd'[v].sent
      BY <1>0, <3>2, <3>3 DEF Row
    <3>5. \/ call[x].pc = "paid" /\ wd'[v].status = "successful"
          \/ call[x].pc = "fail" /\ wd'[v].status = "failed"
      BY <1>0, <3>2, <3>3 DEF Row
    <3> QED
      BY <1>3, <1>4, <1>6, <3>1, <3>4, <3>5
  <2> QED
    BY <2>1, <2>2
<1> QED
  BY <1>5, <1>6

\* Each process's own knowledge changes with its own step; what others know is
\* not taken back: a row stays, and a transfer the bank has paid stays paid.
LEMMA KnownStep ==
  ASSUME PayoutsInv, [PayoutsNext]_payouts
  PROVE  Known'
<1> USE DEF PayoutsTypeOK, PayoutsInv
<1>1. ASSUME NEW x \in Process, UNCHANGED flw,
             \A w \in Withdrawal : wd[w] # NoRow => wd'[w] # NoRow,
             \A w \in Withdrawal : wd'[w] # NoRow /\ wd'[w].status = "successful" =>
               flw[w] = "successful",
             \A y \in Process : y # x => call'[y] = call[y],
             call'[x].pc \in {"send", "reply", "get", "paid", "fail"} => wd[call'[x].w] # NoRow,
             call'[x].w \in Withdrawal,
             call'[x].pc = "paid" => flw[call'[x].w] = "successful"
      PROVE  Known'
  BY <1>1 DEF Known, Call
<1>2. \A x \in Process : call[x].w \in Withdrawal
  BY DEF Call
<1>3. ASSUME NEW x \in Process, NEW pc, MoveTo(x, pc), UNCHANGED <<wd, flw>>,
             pc \in {"send", "reply", "get", "paid", "fail"} => wd[call[x].w] # NoRow,
             pc = "paid" => flw[call[x].w] = "successful"
      PROVE  Known'
  <2>1. \A w \in Withdrawal : wd'[w] # NoRow /\ wd'[w].status = "successful" => flw[w] = "successful"
    BY <1>3 DEF Known
  <2> QED
    BY <1>1, <1>2, <1>3, <2>1, Moved
<1>4. ASSUME NEW x \in Process, NEW w \in Withdrawal, NEW pc \in {"sync", "submit"},
             Begin(x, pc, w), UNCHANGED flw,
             \A v \in Withdrawal : wd[v] # NoRow => wd'[v] = wd[v],
             \A v \in Withdrawal : wd[v] = NoRow /\ wd'[v] # NoRow => wd'[v].status = "pending"
      PROVE  Known'
  <2>1. \A v \in Withdrawal : wd'[v] # NoRow /\ wd'[v].status = "successful" => flw[v] = "successful"
    BY <1>4 DEF Known
  <2> QED
    BY <1>1, <1>4, <2>1, Begun
<1>5. ASSUME NEW x \in Caller, NEW w \in Withdrawal, NEW m \in Amount, NEW t \in FeeTenths,
             Create(x, w, m, t)
      PROVE  Known'
  <2>1. \A v \in Withdrawal : wd[v] # NoRow => wd'[v] = wd[v]
    BY <1>5 DEF Create, Accepted
  <2>2. \A v \in Withdrawal : wd[v] = NoRow /\ wd'[v] # NoRow => wd'[v].status = "pending"
    BY <1>5 DEF Create, Accepted
  <2> QED
    BY <1>4, <1>5, <2>1, <2>2 DEF Create, Accepted, Process
<1>6. ASSUME NEW x \in Process, Step(x)
      PROVE  Known'
  <2>1. CASE LoadToSubmit(x)
    BY <1>3, <2>1 DEF LoadToSubmit, IsPending
  <2>2. CASE HandleError(x)
    BY <1>3, <2>2 DEF HandleError, Known
  <2>3. CASE LoadToSync(x)
    BY <1>3, <2>3 DEF LoadToSync, IsPending
  <2>4. CASE Get(x)
    BY <1>3, <2>4 DEF Get, Known
  <2>5. CASE SendTransfer(x)
    <3>1. /\ \A y \in Process : y # x => call'[y] = call[y]
          /\ call'[x].w = call[x].w /\ call'[x].pc = "reply"
      BY <2>5 DEF SendTransfer, Call
    <3>2. \A v \in Withdrawal : flw[v] = "successful" => flw'[v] = "successful"
      BY <1>2, <2>5 DEF SendTransfer, Processed
    <3>3. wd' = wd /\ wd[call[x].w] # NoRow
      BY <2>5 DEF SendTransfer, Known
    <3> QED
      BY <1>2, <3>1, <3>2, <3>3 DEF Known
  <2>6. CASE StoreTransfer(x)
    <3>1. /\ \A w \in Withdrawal : wd[w] # NoRow => wd'[w] # NoRow
          /\ \A w \in Withdrawal : wd'[w] # NoRow /\ wd'[w].status = "successful" => flw[w] = "successful"
      BY <2>6, RowsKept DEF Known, StoreTransfer, Settle
    <3>2. PICK pc \in {"idle", "fail"} : MoveTo(x, pc)
      BY <2>6 DEF StoreTransfer
    <3>3. wd[call[x].w] # NoRow /\ flw' = flw
      BY <2>6 DEF StoreTransfer, Known
    <3> QED
      BY <1>1, <1>2, <3>1, <3>2, <3>3, Moved
  <2>7. CASE Settle(x)
    <3>1. \A w \in Withdrawal : wd[w] # NoRow => wd'[w] # NoRow
      BY <2>7, RowsKept
    <3>2. \A w \in Withdrawal : wd'[w] # NoRow /\ wd'[w].status = "successful" => flw[w] = "successful"
      BY <2>7, RowsKept DEF Known
    <3>3. MoveTo(x, "idle") /\ flw' = flw
      BY <2>7 DEF Settle
    <3> QED
      BY <1>1, <1>2, <3>1, <3>2, <3>3, Moved
  <2> QED
    BY <1>6, <2>1, <2>2, <2>3, <2>4, <2>5, <2>6, <2>7 DEF Step
<1>7. ASSUME NEW x \in Process, Crash(x)
      PROVE  Known'
  BY <1>3, <1>7 DEF Crash
<1>8. ASSUME NEW x \in Caller, NEW w \in Withdrawal, StartSync(x, w)
      PROVE  Known'
  BY <1>4, <1>8 DEF StartSync, Process
<1>9. CASE WorkerStart
  BY <1>9 DEF WorkerStart, Known
<1>10. CASE WorkerNext
  BY <1>4, <1>10 DEF WorkerNext, Process
<1>11. ASSUME NEW w \in Withdrawal, BankDecides(w)
       PROVE  Known'
  BY <1>11 DEF BankDecides, Known
<1>12. CASE UNCHANGED payouts
  BY <1>12 DEF payouts, Known
<1> QED
  BY <1>5, <1>6, <1>7, <1>8, <1>9, <1>10, <1>11, <1>12 DEF PayoutsNext

\* A transfer that is refused is never made, and nobody gives up one that is,
\* but for those that are misread: a step that believes a wrong answer adds to
\* them the withdrawal it is of.
LEMMA HeldStep ==
  ASSUME PayoutsInv, Held, [PayoutsNext]_payouts
  PROVE  Held'
<1> USE DEF PayoutsTypeOK, PayoutsInv
<1>1. ASSUME NEW x \in Process, UNCHANGED <<flw, refused>>, misread \subseteq misread',
             \A w \in Withdrawal : wd'[w] = NoRow => wd[w] = NoRow,
             \A w \in Withdrawal \ misread : wd'[w] # NoRow /\ wd'[w].status = "failed" => NotSent(w),
             \A y \in Process : y # x => call'[y] = call[y],
             call'[x].pc # "reply",
             call'[x].w \in Withdrawal,
             call'[x].pc = "fail" /\ call'[x].w \notin misread' => NotSent(call'[x].w)
      PROVE  Held'
  <2>1. \A w \in Withdrawal \ misread' : HeldRow(w)'
    BY <1>1 DEF Held, HeldRow, NotSent
  <2>2. \A y \in Process : call'[y].w \notin misread' => HeldCall(y)'
    BY <1>1 DEF Held, HeldCall, NotSent, Call
  <2> QED
    BY <1>1, <2>1, <2>2 DEF Held
<1>2. \A x \in Process : call[x].w \in Withdrawal
  BY DEF Call
<1>3. ASSUME NEW x \in Process, NEW pc, MoveTo(x, pc), UNCHANGED <<wd, flw, refused, misread>>,
             pc # "reply", pc = "fail" /\ call[x].w \notin misread => NotSent(call[x].w)
      PROVE  Held'
  <2>1. \A w \in Withdrawal \ misread : wd'[w] # NoRow /\ wd'[w].status = "failed" => NotSent(w)
    BY <1>3 DEF Held, HeldRow
  <2> QED
    BY <1>1, <1>2, <1>3, <2>1, Moved
<1>4. ASSUME NEW x \in Process, NEW w \in Withdrawal, NEW pc \in {"sync", "submit"},
             Begin(x, pc, w), UNCHANGED <<flw, refused, misread>>,
             \A v \in Withdrawal : wd[v] # NoRow => wd'[v] = wd[v],
             \A v \in Withdrawal : wd[v] = NoRow /\ wd'[v] # NoRow => wd'[v].status = "pending"
      PROVE  Held'
  <2>1. \A v \in Withdrawal \ misread : wd'[v] # NoRow /\ wd'[v].status = "failed" => NotSent(v)
    BY <1>4 DEF Held, HeldRow
  <2> QED
    BY <1>1, <1>4, <2>1, Begun
<1>5. ASSUME NEW x \in Caller, NEW w \in Withdrawal, NEW m \in Amount, NEW t \in FeeTenths,
             Create(x, w, m, t)
      PROVE  Held'
  <2>1. \A v \in Withdrawal : wd[v] # NoRow => wd'[v] = wd[v]
    BY <1>5 DEF Create, Accepted
  <2>2. \A v \in Withdrawal : wd[v] = NoRow /\ wd'[v] # NoRow => wd'[v].status = "pending"
    BY <1>5 DEF Create, Accepted
  <2> QED
    BY <1>4, <1>5, <2>1, <2>2 DEF Create, Accepted, Process
<1>6. ASSUME NEW x \in Process, Step(x)
      PROVE  Held'
  <2>1. CASE LoadToSubmit(x)
    BY <1>3, <2>1 DEF LoadToSubmit
  <2>2. CASE HandleError(x)
    BY <1>3, <2>2 DEF HandleError, Held, HeldCall
  <2>3. CASE LoadToSync(x)
    BY <1>3, <2>3 DEF LoadToSync
  <2>4. CASE Get(x)
    BY <1>2, <1>3, <2>4 DEF Get, NotSent
  <2>5. CASE SendTransfer(x)
    <3>w. PICK w \in Withdrawal : w = call[x].w
      BY <1>2
    <3> DEFINE Answered(r) == call' = [call EXCEPT ![x].pc = "reply", ![x].reply = r]
    <3>0. /\ {"unavailable", "torn"} \subseteq Reply
          /\ \/ \E r \in Reply : Processed(w, r) /\ Answered(r)
             \/ (\E r \in Reply : Processed(w, r)) /\ Answered("unavailable")
             \/ UNCHANGED <<flw, refused>> /\ Answered("unavailable")
             \/ (\E r \in Reply : Processed(w, r)) /\ Answered("torn")
      BY <3>w, <2>5 DEF SendTransfer, Reply
    <3> HIDE DEF Answered
    <3>1. PICK r \in Reply, s \in {"unavailable", "torn"} :
            /\ Processed(w, r) \/ (r = "unavailable" /\ UNCHANGED <<flw, refused>>)
            /\ Answered(r) \/ Answered(s)
      BY <3>0
    <3> USE DEF Answered
    <3>2. /\ \A y \in Process : y # x => call'[y] = call[y]
          /\ call'[x].w = w /\ call'[x].pc = "reply" /\ call'[x].reply \in {r, s}
      BY <3>w, <3>1 DEF Call
    <3>3. wd' = wd /\ wd[w] # NoRow
      BY <3>w, <2>5 DEF SendTransfer, Known
    <3>4. /\ \A v \in Withdrawal : v # w => flw'[v] = flw[v] /\ (v \in refused' <=> v \in refused)
          /\ misread \subseteq misread'
          /\ w \notin misread' => call'[x].reply # "torn" /\ ~(w \in refused /\ flw'[w] # "none")
      BY <1>2, <3>w, <2>5, <3>1 DEF SendTransfer, Processed
    <3>5. \A v \in Withdrawal : wd'[v] = NoRow => flw'[v] = "none"
      BY <3>3, <3>4 DEF Held
    <3>6. \A v \in Withdrawal \ misread' : NotSent(v) => NotSent(v)'
      BY <1>2, <3>1, <3>4 DEF Processed, NotSent
    <3>7. \A v \in Withdrawal \ misread' : HeldRow(v)'
      <4>1. ASSUME NEW v \in Withdrawal \ misread', v # w PROVE HeldRow(v)'
        BY <3>3, <3>4, <3>6, <4>1 DEF Held, HeldRow
      <4>2. ASSUME w \notin misread' PROVE HeldRow(w)'
        <5>1. w \in refused' => flw'[w] = "none"
          BY <1>2, <3>1, <3>4, <4>2 DEF Processed
        <5>2. wd[w].status = "failed" => NotSent(w)'
          BY <1>2, <3>3, <3>4, <3>6, <4>2 DEF Held, HeldRow
        <5> QED
          BY <3>3, <5>1, <5>2 DEF HeldRow
      <4> QED
        BY <4>1, <4>2
    <3>8. \A y \in Process : call'[y].w \notin misread' => HeldCall(y)'
      <4>1. ASSUME NEW y \in Process, y # x, call'[y].w \notin misread' PROVE HeldCall(y)'
        BY <1>2, <3>2, <3>4, <3>6, <4>1 DEF Held, HeldCall
      <4>2. ASSUME w \notin misread' PROVE HeldCall(x)'
        <5>1. call'[x].reply \in {r, "unavailable"} /\ r \notin {"torn", "none"}
          BY <3>1, <3>2, <3>4, <4>2 DEF Processed
        <5>2. r \in {"failed", "refused"} => NotSent(w)'
          BY <1>2, <3>1 DEF Processed, NotSent
        <5> QED
          BY <3>2, <5>1, <5>2 DEF HeldCall, NotSent
      <4> QED
        BY <3>2, <4>1, <4>2
    <3> QED
      BY <3>5, <3>7, <3>8 DEF Held
  <2>6. CASE StoreTransfer(x)
    <3>1. /\ \A w \in Withdrawal : wd'[w] = NoRow => wd[w] = NoRow
          /\ \A w \in Withdrawal \ misread : wd'[w] # NoRow /\ wd'[w].status = "failed" => NotSent(w)
      BY <2>6, RowsKept DEF Held, HeldRow, StoreTransfer, Settle
    <3>2. PICK pc \in {"idle", "fail"} :
            MoveTo(x, pc) /\ (pc = "fail" => call[x].reply = "failed" \/ call[x].w \in misread')
      BY <2>6 DEF StoreTransfer
    <3>3. /\ call[x].reply = "failed" /\ call[x].w \notin misread => NotSent(call[x].w)
          /\ UNCHANGED <<flw, refused>> /\ misread \subseteq misread'
      BY <2>6 DEF StoreTransfer, Held, HeldCall
    <3> QED
      BY <1>1, <1>2, <3>1, <3>2, <3>3, Moved
  <2>7. CASE Settle(x)
    <3>1. MoveTo(x, "idle") /\ UNCHANGED <<flw, refused, misread>>
      BY <2>7 DEF Settle
    <3>2. /\ \A w \in Withdrawal : wd'[w] = NoRow => wd[w] = NoRow
          /\ \A w \in Withdrawal \ misread : wd'[w] # NoRow /\ wd'[w].status = "failed" => NotSent(w)
      BY <2>7, RowsKept DEF Held, HeldRow, HeldCall
    <3> QED
      BY <1>1, <1>2, <3>1, <3>2, Moved
  <2> QED
    BY <1>6, <2>1, <2>2, <2>3, <2>4, <2>5, <2>6, <2>7 DEF Step
<1>7. ASSUME NEW x \in Process, Crash(x)
      PROVE  Held'
  BY <1>3, <1>7 DEF Crash
<1>8. ASSUME NEW x \in Caller, NEW w \in Withdrawal, StartSync(x, w)
      PROVE  Held'
  BY <1>4, <1>8 DEF StartSync, Process
<1>9. CASE WorkerStart
  BY <1>9 DEF WorkerStart, Held, HeldRow, HeldCall, NotSent
<1>10. CASE WorkerNext
  BY <1>4, <1>10 DEF WorkerNext, Process
<1>11. ASSUME NEW w \in Withdrawal, BankDecides(w)
       PROVE  Held'
  BY <1>11 DEF BankDecides, Held, HeldRow, HeldCall, NotSent
<1>12. CASE UNCHANGED payouts
  BY <1>12 DEF payouts, Held, HeldRow, HeldCall, NotSent
<1> QED
  BY <1>5, <1>6, <1>7, <1>8, <1>9, <1>10, <1>11, <1>12 DEF PayoutsNext

\* Rows, calls and balances stay well-typed, the wallet is never overdrawn,
\* and what a process or a row says was paid was paid.
THEOREM PayoutsInvCorrect == PayoutsSpec => []PayoutsInv
<1>1. PayoutsInv /\ [PayoutsNext]_payouts => PayoutsInv'
  BY TypeStep, KnownStep DEF PayoutsInv
<1> QED
  BY PayoutsInitInv, <1>1, PTL DEF PayoutsSpec

\* Whatever faults there are, and however many requests, webhooks and workers
\* settle one withdrawal: it is marked paid only after the bank has paid it,
\* its outcome is final, and the id of its transfer is kept.
THEOREM OutcomesAreFinal == PayoutsSpec => OutcomeIsFinal
<1> DEFINE Final ==
      \A w \in Withdrawal : wd[w] # NoRow =>
        /\ wd'[w] # NoRow
        /\ wd[w].status # "pending" => wd'[w].status = wd[w].status
        /\ wd'[w].status = "successful" => flw[w] = "successful"
        /\ wd[w].sent => wd'[w].sent
<1>1. ASSUME PayoutsInv, [PayoutsNext]_payouts
      PROVE  Final
  <2>1. ASSUME UNCHANGED wd
        PROVE  Final
    BY <1>1, <2>1 DEF PayoutsInv, Known
  <2>2. ASSUME NEW x \in Caller, NEW w \in Withdrawal, NEW m \in Amount, NEW t \in FeeTenths,
               Create(x, w, m, t)
        PROVE  Final
    <3>1. \A v \in Withdrawal : wd[v] # NoRow => wd'[v] = wd[v]
      BY <1>1, <2>2 DEF Create, Accepted, PayoutsInv, PayoutsTypeOK
    <3> QED
      BY <1>1, <3>1 DEF PayoutsInv, Known
  <2>3. ASSUME NEW x \in Process, StoreTransfer(x) \/ Settle(x)
        PROVE  Final
    BY <1>1, <2>3, RowsKept DEF PayoutsInv, Known
  <2>4. ASSUME NEW x \in Process, Step(x)
        PROVE  Final
    BY <2>1, <2>3, <2>4 DEF Step, LoadToSubmit, SendTransfer, HandleError, LoadToSync, Get
  <2> QED
    BY <1>1, <2>1, <2>2, <2>4
       DEF PayoutsNext, Crash, StartSync, WorkerStart, WorkerNext, BankDecides, payouts
<1>2. PayoutsInv /\ [PayoutsNext]_payouts => [Final]_payouts
  BY <1>1
<1> QED
  BY PayoutsInvCorrect, <1>2, PTL DEF PayoutsSpec, OutcomeIsFinal

(***************************************************************************)
(* The books: the four balances are sums over the rows (BooksMatch).       *)
(***************************************************************************)

Balanced ==
  /\ money["payout"] = SumFunctionOnSet(Amounts, With("pending"))
  /\ money["fees"]   = SumFunctionOnSet(CustomerFees, Live)
                         - SumFunctionOnSet(ProcessorFees, With("successful"))
  /\ money["flw"]    = SumFunctionOnSet(Amounts, With("successful"))
                         + SumFunctionOnSet(ProcessorFees, With("successful")) - Deposit
  /\ money["wallet"] = Deposit - SumFunctionOnSet(Amounts, Live) - SumFunctionOnSet(CustomerFees, Live)

\* What there is to add up.
LEMMA Summands ==
  ASSUME PayoutsTypeOK
  PROVE  /\ IsFiniteSet(Made) /\ IsFiniteSet(Live)
         /\ IsFiniteSet(With("pending")) /\ IsFiniteSet(With("successful"))
         /\ Live \subseteq Made /\ With("pending") \subseteq Made /\ With("successful") \subseteq Made
         /\ \A w \in Made : /\ wd[w] \in Row
                            /\ Amounts[w] = wd[w].amount /\ wd[w].amount \in Nat
                            /\ CustomerFees[w] = wd[w].customerFee /\ wd[w].customerFee \in Nat
                            /\ ProcessorFees[w] = wd[w].processorFee /\ wd[w].processorFee \in Nat
<1>1. IsFiniteSet(Made) /\ IsFiniteSet(Live)
      /\ IsFiniteSet(With("pending")) /\ IsFiniteSet(With("successful"))
  BY FiniteAssumption, FS_Subset DEF Made, Live, With
<1>2. ASSUME NEW w \in Made
      PROVE  /\ wd[w] \in Row /\ wd[w].amount \in Nat
             /\ wd[w].customerFee \in Nat /\ wd[w].processorFee \in Nat
  BY BoundAssumption DEF PayoutsTypeOK, Made, Row, Amount
<1> QED
  BY <1>1, <1>2 DEF Made, Live, With, Amounts, CustomerFees, ProcessorFees

LEMMA SumsAreNat ==
  ASSUME PayoutsTypeOK
  PROVE  /\ SumFunctionOnSet(Amounts, With("pending")) \in Nat
         /\ SumFunctionOnSet(Amounts, With("successful")) \in Nat
         /\ SumFunctionOnSet(Amounts, Live) \in Nat
         /\ SumFunctionOnSet(CustomerFees, Live) \in Nat
         /\ SumFunctionOnSet(ProcessorFees, With("successful")) \in Nat
  BY Summands, SumIsNat

LEMMA BalancedInit == PayoutsInit => Balanced /\ WithinLimit
<1> SUFFICES ASSUME PayoutsInit PROVE Balanced /\ WithinLimit
  OBVIOUS
<1>1. With("pending") = {} /\ With("successful") = {} /\ Live = {}
  BY DEF PayoutsInit, With, Live
<1>2. /\ SumFunctionOnSet(Amounts, With("pending")) = 0
      /\ SumFunctionOnSet(Amounts, With("successful")) = 0
      /\ SumFunctionOnSet(Amounts, Live) = 0
      /\ SumFunctionOnSet(CustomerFees, Live) = 0
      /\ SumFunctionOnSet(ProcessorFees, With("successful")) = 0
  BY <1>1, SumOfNone
<1>3. /\ money["wallet"] = Deposit /\ money["payout"] = 0
      /\ money["fees"] = 0 /\ money["flw"] = -Deposit
  BY DEF PayoutsInit
<1> QED
  BY <1>2, <1>3, LimitAssumption, BoundAssumption DEF Balanced, WithinLimit

\* Nothing happens to the money, and to the rows at most that one is sent.
LEMMA BooksUntouched ==
  ASSUME PayoutsTypeOK, PayoutsTypeOK', Balanced, WithinLimit, UNCHANGED money,
         \A w \in Withdrawal :
           \/ wd'[w] = wd[w]
           \/ wd[w] # NoRow /\ wd'[w] # NoRow /\ wd'[w] = [wd[w] EXCEPT !.sent = TRUE]
  PROVE  Balanced' /\ WithinLimit'
<1>1. ASSUME NEW w \in Withdrawal
      PROVE  /\ wd'[w] = NoRow <=> wd[w] = NoRow
             /\ wd[w] # NoRow =>
                  /\ wd'[w].status = wd[w].status /\ wd'[w].amount = wd[w].amount
                  /\ wd'[w].customerFee = wd[w].customerFee
                  /\ wd'[w].processorFee = wd[w].processorFee
  <2>1. CASE wd'[w] = wd[w]
    BY <2>1
  <2>2. CASE wd[w] # NoRow /\ wd'[w] # NoRow /\ wd'[w] = [wd[w] EXCEPT !.sent = TRUE]
    BY <2>2, <1>1 DEF PayoutsTypeOK, Row
  <2> QED
    BY <1>1, <2>1, <2>2
<1>2. /\ Made' = Made /\ Live' = Live
      /\ With("pending")' = With("pending") /\ With("successful")' = With("successful")
  BY <1>1 DEF Made, Live, With
<1>3. Amounts' = Amounts /\ CustomerFees' = CustomerFees /\ ProcessorFees' = ProcessorFees
  BY <1>1, <1>2 DEF Amounts, CustomerFees, ProcessorFees, Made
<1> QED
  BY <1>2, <1>3 DEF Balanced, WithinLimit

LEMMA BooksCreate ==
  ASSUME PayoutsTypeOK, PayoutsTypeOK', Balanced, WithinLimit,
         NEW x \in Caller, NEW w \in Withdrawal, NEW m \in Amount, NEW t \in FeeTenths,
         Create(x, w, m, t)
  PROVE  Balanced' /\ WithinLimit'
<1> DEFINE fee == CustomerFee(t)
           row == wd'[w]
<1>1. fee \in Nat /\ ProcessorFee(t) \in Nat /\ m \in Nat
  BY FeesAreNat, BoundAssumption DEF Amount
<1>2. /\ wd[w] = NoRow /\ row # NoRow
      /\ row.status = "pending" /\ row.amount = m /\ row.customerFee = fee
      /\ \A v \in Withdrawal \ {w} : wd'[v] = wd[v]
  <2> DEFINE new == [status |-> "pending", sent |-> FALSE, amount |-> m, customerFee |-> fee,
                     processorFee |-> ProcessorFee(t), at |-> Cardinality(Made)]
  <2>2. new \in Row
    <3>1. Cardinality(Made) \in Nat
      BY Summands, FS_CardinalityType
    <3> QED
      BY <1>1, <3>1 DEF Row
  <2>3. wd' = [wd EXCEPT ![w] = new] /\ wd[w] = NoRow
    BY DEF Create, Accepted
  <2>4. new.status = "pending" /\ new.amount = m /\ new.customerFee = fee
    OBVIOUS
  <2> HIDE DEF new, fee
  <2> QED
    BY <2>2, <2>3, <2>4, NoRowAssumption DEF PayoutsTypeOK
<1> HIDE DEF fee, row
<1>3. /\ Made' = Made \cup {w} /\ Live' = Live \cup {w} /\ With("pending")' = With("pending") \cup {w}
      /\ With("successful")' = With("successful")
      /\ w \notin Made /\ w \notin Live /\ w \notin With("pending")
  BY <1>2 DEF Made, Live, With, row
<1>4. /\ \A v \in Made : /\ Amounts'[v] = Amounts[v] /\ CustomerFees'[v] = CustomerFees[v]
                         /\ ProcessorFees'[v] = ProcessorFees[v]
      /\ Amounts'[w] = m /\ CustomerFees'[w] = fee
  BY <1>2, <1>3 DEF Amounts, CustomerFees, ProcessorFees, Made, row
<1>5. SumFunctionOnSet(Amounts', With("pending")') = SumFunctionOnSet(Amounts, With("pending")) + m
  BY <1>1, <1>3, <1>4, Summands, SumGrows
<1>6. SumFunctionOnSet(Amounts', Live') = SumFunctionOnSet(Amounts, Live) + m
  BY <1>1, <1>3, <1>4, Summands, SumGrows
<1>7. SumFunctionOnSet(CustomerFees', Live') = SumFunctionOnSet(CustomerFees, Live) + fee
  BY <1>1, <1>3, <1>4, Summands, SumGrows
<1>8. /\ SumFunctionOnSet(Amounts', With("successful")') = SumFunctionOnSet(Amounts, With("successful"))
      /\ SumFunctionOnSet(ProcessorFees', With("successful")')
           = SumFunctionOnSet(ProcessorFees, With("successful"))
  BY <1>3, <1>4, Summands, SumOfSame
<1>9. /\ money'["wallet"] = money["wallet"] - m - fee /\ money'["payout"] = money["payout"] + m
      /\ money'["fees"] = money["fees"] + fee /\ money'["flw"] = money["flw"]
  BY <1>1 DEF Create, Accepted, PayoutsTypeOK, fee
<1>10. SumFunctionOnSet(Amounts, Live) + m <= DailyLimit
  BY DEF Create
<1>11. Balanced'
  BY <1>1, <1>5, <1>6, <1>7, <1>8, <1>9, SumsAreNat, BoundAssumption DEF Balanced
<1>12. WithinLimit'
  BY <1>6, <1>10 DEF WithinLimit
<1> QED
  BY <1>11, <1>12

LEMMA BooksSettle ==
  ASSUME PayoutsTypeOK, PayoutsTypeOK', Balanced, WithinLimit,
         NEW w \in Withdrawal, IsPending(w), MarkPaid(w) \/ MarkFailed(w)
  PROVE  Balanced' /\ WithinLimit'
<1>1. PICK row \in Row : row = wd[w] /\ row.status = "pending"
  BY DEF IsPending, PayoutsTypeOK
<1>2. PICK m, customer, processor \in Nat :
        m = row.amount /\ customer = row.customerFee /\ processor = row.processorFee
  BY BoundAssumption DEF Row, Amount
<1>3. PICK st \in {"successful", "failed"} :
        /\ wd' = [wd EXCEPT ![w].status = st]
        /\ IF st = "successful" THEN MarkPaid(w) ELSE MarkFailed(w)
  BY DEF MarkPaid, MarkFailed
<1>4. /\ w \in Made /\ w \in Live /\ w \in With("pending") /\ w \notin With("successful")
      /\ \A v \in Withdrawal : wd'[v] = NoRow <=> wd[v] = NoRow
      /\ \A v \in Withdrawal \ {w} : wd'[v] = wd[v]
      /\ wd'[w].status = st /\ wd'[w].amount = m
      /\ wd'[w].customerFee = customer /\ wd'[w].processorFee = processor
  <2>1. wd[w] # NoRow /\ wd[w].status = "pending"
    BY DEF IsPending
  <2>2. [wd[w] EXCEPT !.status = st] \in Row
    BY <1>1 DEF Row
  <2>3. wd'[w] = [wd[w] EXCEPT !.status = st] /\ \A v \in Withdrawal \ {w} : wd'[v] = wd[v]
    BY <1>3 DEF PayoutsTypeOK
  <2>4. /\ wd'[w].status = st /\ wd'[w].amount = m
        /\ wd'[w].customerFee = customer /\ wd'[w].processorFee = processor
    BY <1>1, <1>2, <2>3 DEF Row
  <2>5. wd'[w] # NoRow
    BY <2>2, <2>3, NoRowAssumption
  <2> QED
    BY <2>1, <2>3, <2>4, <2>5 DEF Made, Live, With
<1>5. Made' = Made /\ With("pending")' = With("pending") \ {w}
  BY <1>4 DEF Made, With
<1>6. \A v \in Made : /\ Amounts'[v] = Amounts[v] /\ CustomerFees'[v] = CustomerFees[v]
                      /\ ProcessorFees'[v] = ProcessorFees[v]
  <2>1. ASSUME NEW v \in Made
        PROVE  /\ wd'[v].amount = wd[v].amount /\ wd'[v].customerFee = wd[v].customerFee
               /\ wd'[v].processorFee = wd[v].processorFee
    BY <1>1, <1>2, <1>4 DEF Made
  <2> QED
    BY <1>5, <2>1 DEF Amounts, CustomerFees, ProcessorFees
<1>7. Amounts[w] = m /\ CustomerFees[w] = customer /\ ProcessorFees[w] = processor
  BY <1>1, <1>2, <1>4 DEF Amounts, CustomerFees, ProcessorFees
<1>8. SumFunctionOnSet(Amounts', With("pending")') = SumFunctionOnSet(Amounts, With("pending")) - m
  BY <1>4, <1>5, <1>6, <1>7, Summands, SumShrinks
<1>9. CASE st = "successful"
  <2>1. Live' = Live /\ With("successful")' = With("successful") \cup {w}
    BY <1>4, <1>9 DEF Live, With
  <2>2. /\ SumFunctionOnSet(Amounts', Live') = SumFunctionOnSet(Amounts, Live)
        /\ SumFunctionOnSet(CustomerFees', Live') = SumFunctionOnSet(CustomerFees, Live)
    BY <1>6, <2>1, Summands, SumOfSame
  <2>3. /\ SumFunctionOnSet(Amounts', With("successful")')
             = SumFunctionOnSet(Amounts, With("successful")) + m
        /\ SumFunctionOnSet(ProcessorFees', With("successful")')
             = SumFunctionOnSet(ProcessorFees, With("successful")) + processor
    BY <1>4, <1>6, <1>7, <2>1, Summands, SumGrows
  <2>4. /\ money'["wallet"] = money["wallet"] /\ money'["payout"] = money["payout"] - m
        /\ money'["fees"] = money["fees"] - processor
        /\ money'["flw"] = money["flw"] + m + processor
    BY <1>1, <1>2, <1>3, <1>9 DEF MarkPaid, PayoutsTypeOK
  <2> QED
    BY <1>8, <2>2, <2>3, <2>4, SumsAreNat, BoundAssumption DEF Balanced, WithinLimit
<1>10. CASE st = "failed"
  <2>1. Live' = Live \ {w} /\ With("successful")' = With("successful")
    BY <1>4, <1>10 DEF Live, With
  <2>2. /\ SumFunctionOnSet(Amounts', Live') = SumFunctionOnSet(Amounts, Live) - m
        /\ SumFunctionOnSet(CustomerFees', Live') = SumFunctionOnSet(CustomerFees, Live) - customer
    BY <1>4, <1>6, <1>7, <2>1, Summands, SumShrinks
  <2>3. /\ SumFunctionOnSet(Amounts', With("successful")')
             = SumFunctionOnSet(Amounts, With("successful"))
        /\ SumFunctionOnSet(ProcessorFees', With("successful")')
             = SumFunctionOnSet(ProcessorFees, With("successful"))
    BY <1>6, <2>1, Summands, SumOfSame
  <2>4. /\ money'["wallet"] = money["wallet"] + m + customer
        /\ money'["payout"] = money["payout"] - m
        /\ money'["fees"] = money["fees"] - customer /\ money'["flw"] = money["flw"]
    BY <1>1, <1>2, <1>3, <1>10 DEF MarkFailed, PayoutsTypeOK
  <2> QED
    BY <1>8, <2>2, <2>3, <2>4, SumsAreNat, BoundAssumption, LimitAssumption
       DEF Balanced, WithinLimit
<1> QED
  BY <1>9, <1>10

LEMMA BooksStep ==
  ASSUME PayoutsInv, PayoutsInv', Balanced, WithinLimit, [PayoutsNext]_payouts
  PROVE  Balanced' /\ WithinLimit'
<1> USE DEF PayoutsInv
<1>1. ASSUME NEW x \in Process, Step(x)
      PROVE  Balanced' /\ WithinLimit'
  <2>0. call[x].w \in Withdrawal
    BY DEF PayoutsTypeOK, Call
  <2>1. CASE StoreTransfer(x)
    <3>1. \A w \in Withdrawal :
            \/ wd'[w] = wd[w]
            \/ wd[w] # NoRow /\ wd'[w] # NoRow /\ wd'[w] = [wd[w] EXCEPT !.sent = TRUE]
      <4>1. wd[call[x].w] # NoRow
        BY <2>1 DEF StoreTransfer, Known
      <4>2. \A w \in Withdrawal : wd[w] # NoRow => wd'[w] # NoRow
        BY <2>1, RowsKept
      <4>3. wd' = wd \/ wd' = [wd EXCEPT ![call[x].w] = [wd[call[x].w] EXCEPT !.sent = TRUE]]
        BY <2>1 DEF StoreTransfer
      <4> QED
        BY <2>0, <4>1, <4>2, <4>3 DEF PayoutsTypeOK
    <3> QED
      BY <2>1, <3>1, BooksUntouched DEF StoreTransfer
  <2>2. CASE Settle(x)
    <3>1. CASE IsPending(call[x].w)
      BY <2>0, <2>2, <3>1, BooksSettle DEF Settle
    <3>2. CASE ~IsPending(call[x].w)
      BY <2>2, <3>2, BooksUntouched DEF Settle
    <3> QED
      BY <3>1, <3>2
  <2>3. CASE UNCHANGED <<wd, money>>
    BY <2>3, BooksUntouched
  <2> QED
    BY <1>1, <2>1, <2>2, <2>3
       DEF Step, LoadToSubmit, SendTransfer, HandleError, LoadToSync, Get
<1>2. ASSUME NEW x \in Caller, NEW w \in Withdrawal, NEW m \in Amount, NEW t \in FeeTenths,
             Create(x, w, m, t)
      PROVE  Balanced' /\ WithinLimit'
  BY <1>2, BooksCreate
<1>3. CASE UNCHANGED <<wd, money>>
  BY <1>3, BooksUntouched
<1>4. CASE UNCHANGED payouts
  BY <1>3, <1>4 DEF payouts
<1> QED
  BY <1>1, <1>2, <1>3, <1>4
     DEF PayoutsNext, StartSync, Crash, WorkerStart, WorkerNext, BankDecides

\* However many requests, webhooks and syncs settle withdrawals at the same
\* time, the four accounts hold what the rows say (BooksMatch).
THEOREM BooksAlwaysMatch == PayoutsSpec => []BooksMatch
<1>1. PayoutsInit => Balanced
  BY BalancedInit
<1>2. PayoutsInit => WithinLimit
  BY BalancedInit
<1>3. PayoutsInv /\ PayoutsInv' /\ (Balanced /\ WithinLimit) /\ [PayoutsNext]_payouts => (Balanced /\ WithinLimit)'
  BY BooksStep
<1>4. PayoutsInv /\ Balanced => BooksMatch
  BY DEF PayoutsInv, Balanced, BooksMatch
<1> QED
  BY <1>1, <1>2, <1>3, <1>4, PayoutsInvCorrect, PTL DEF PayoutsSpec

\* Withdrawals that race for the last of the daily limit do not exceed it
\* together, and a failed one frees its share for good (WithinLimit).
THEOREM LimitIsKept == PayoutsSpec => []WithinLimit
<1>1. PayoutsInit => Balanced
  BY BalancedInit
<1>2. PayoutsInit => WithinLimit
  BY BalancedInit
<1>3. PayoutsInv /\ PayoutsInv' /\ (Balanced /\ WithinLimit) /\ [PayoutsNext]_payouts => (Balanced /\ WithinLimit)'
  BY BooksStep
<1> QED
  BY <1>1, <1>2, <1>3, PayoutsInvCorrect, PTL DEF PayoutsSpec

\* A step that leaves the rows' amounts, the places and the wallet alone is a
\* stutter of the promise.
LEMMA SameMoney ==
  ASSUME \A w \in Withdrawal : /\ Place(w)' = Place(w)
                               /\ wd'[w] = NoRow <=> wd[w] = NoRow
                               /\ wd[w] # NoRow => /\ wd'[w].amount = wd[w].amount
                                                   /\ wd'[w].customerFee = wd[w].customerFee,
         UNCHANGED money
  PROVE  UNCHANGED <<Places, Taken, money["wallet"]>>
  BY DEF Places, Taken

\* The places when the money of one withdrawal alone has moved.
LEMMA PlaceMoved ==
  ASSUME NEW w \in Withdrawal, NEW to, Place(w)' = to,
         \A v \in Withdrawal : v # w => Place(v)' = Place(v)
  PROVE  Places' = [Places EXCEPT ![w] = to]
  BY DEF Places

\* While no withdrawal is misread, a step of the payouts is a step of the
\* promise, or moves no money at all.
LEMMA PromiseStep ==
  ASSUME misread = {}, PayoutsInv, Held, [PayoutsNext]_payouts
  PROVE  [Promise!Next]_<<Places, Taken, money["wallet"]>>
<1> USE DEF PayoutsTypeOK, PayoutsInv
<1>1. \A x \in Process : call[x].w \in Withdrawal
  BY DEF Call
<1>2. \A w \in Withdrawal : wd[w] # NoRow => wd[w] \in Row /\ wd[w].amount \in Int /\ wd[w].customerFee \in Nat
  BY BoundAssumption DEF Row, Amount
<1>3. ASSUME UNCHANGED <<wd, flw, money>>
      PROVE  UNCHANGED <<Places, Taken, money["wallet"]>>
  BY <1>3, SameMoney DEF Place
<1>4. ASSUME NEW x \in Caller, NEW w \in Withdrawal, NEW m \in Amount, NEW t \in FeeTenths,
             Create(x, w, m, t)
      PROVE  Promise!Next
  <2> DEFINE fee == CustomerFee(t)
             row == [status |-> "pending", sent |-> FALSE, amount |-> m,
                     customerFee |-> fee, processorFee |-> ProcessorFee(t), at |-> Cardinality(Made)]
  <2>1. fee \in Nat /\ m \in Int
    BY FeesAreNat, BoundAssumption DEF Amount
  <2>2. wd[w] = NoRow /\ flw[w] = "none" /\ flw' = flw /\ money["wallet"] >= m + fee
    BY <1>4 DEF Create, Accepted, Held
  <2>3. wd' = [wd EXCEPT ![w] = row]
    BY <1>4 DEF Create, Accepted
  <2>4. money'["wallet"] = money["wallet"] - (m + fee)
    <3> HIDE DEF fee
    <3>1. money' = [money EXCEPT !["wallet"] = @ - m - fee, !["payout"] = @ + m, !["fees"] = @ + fee]
      BY <1>4 DEF Create, Accepted, fee
    <3>2. money'["wallet"] = money["wallet"] - m - fee
      BY <3>1
    <3> QED
      BY <2>1, <3>2
  <2>5. wd'[w] # NoRow /\ wd'[w].status = "pending" /\ wd'[w].amount = m /\ wd'[w].customerFee = fee
    <3>1. row \in Row
      <4>1. Cardinality(Made) \in Nat
        BY FiniteAssumption, FS_Subset, FS_CardinalityType DEF Made
      <4> QED
        BY <2>1, <4>1, FeesAreNat DEF Row
    <3> QED
      BY <2>3, <3>1, NoRowAssumption
  <2> HIDE DEF fee, row
  <2>6. \A v \in Withdrawal : v # w => wd'[v] = wd[v]
    BY <2>3
  <2>7. Places' = [Places EXCEPT ![w] = "transit"] /\ Places[w] = "none"
    <3>1. Place(w)' = "transit" /\ Place(w) = "none"
      BY <2>2, <2>5 DEF Place
    <3>2. \A v \in Withdrawal : v # w => Place(v)' = Place(v)
      BY <2>2, <2>6 DEF Place
    <3>3. Places[w] = "none"
      BY <3>1 DEF Places
    <3> QED
      BY <3>1, <3>2, <3>3, PlaceMoved
  <2>8. Taken' = [Taken EXCEPT ![w] = m + fee]
    BY <2>5, <2>6 DEF Taken
  <2>9. m + fee \in Prices
    BY DEF Prices, fee
  <2>10. Promise!Accept(w)
    BY <2>2, <2>4, <2>7, <2>8, <2>9 DEF Promise!Accept
  <2> QED
    BY <2>10 DEF Promise!Next
<1>5. ASSUME NEW x \in Process, SendTransfer(x)
      PROVE  UNCHANGED <<Places, Taken, money["wallet"]>>
  <2>1. \A v \in Withdrawal : flw'[v] = flw[v] \/ (flw[v] = "none" /\ flw'[v] # "successful")
    BY <1>1, <1>5 DEF SendTransfer, Processed
  <2>2. wd' = wd /\ money' = money
    BY <1>5 DEF SendTransfer
  <2>3. \A v \in Withdrawal : Place(v)' = Place(v)
    BY <2>1, <2>2 DEF Place
  <2> QED
    BY <2>2, <2>3, SameMoney
<1>6. ASSUME NEW x \in Process, StoreTransfer(x)
      PROVE  UNCHANGED <<Places, Taken, money["wallet"]>>
  <2> DEFINE w == call[x].w
  <2>1. wd[w] # NoRow /\ flw' = flw /\ money' = money
    BY <1>6 DEF StoreTransfer, Known
  <2>2. wd' = wd \/ wd' = [wd EXCEPT ![w] = [wd[w] EXCEPT !.sent = TRUE]]
    BY <1>6 DEF StoreTransfer
  <2>3. CASE wd' # wd
    <3>0. wd[w] \in Row
      BY <1>1, <1>2, <2>1
    <3>1. [wd[w] EXCEPT !.sent = TRUE] \in Row
      BY <3>0 DEF Row
    <3>2. wd'[w] = [wd[w] EXCEPT !.sent = TRUE] /\ \A v \in Withdrawal : v # w => wd'[v] = wd[v]
      BY <1>1, <2>2, <2>3
    <3>3. /\ wd'[w] # NoRow
          /\ wd'[w].status = wd[w].status
          /\ wd'[w].amount = wd[w].amount
          /\ wd'[w].customerFee = wd[w].customerFee
      BY <1>1, <1>2, <2>1, <3>1, <3>2, NoRowAssumption DEF Row
    <3>4. \A v \in Withdrawal : Place(v)' = Place(v)
      BY <1>1, <2>1, <3>2, <3>3 DEF Place
    <3> QED
      BY <1>1, <2>1, <3>2, <3>3, <3>4, SameMoney
  <2> QED
    BY <1>3, <2>1, <2>3
<1>7. ASSUME NEW x \in Process, Settle(x)
      PROVE  [Promise!Next]_<<Places, Taken, money["wallet"]>>
  <2> DEFINE w == call[x].w
  <2>1. flw' = flw
    BY <1>7 DEF Settle
  <2>2. CASE ~IsPending(w)
    BY <1>3, <1>7, <2>1, <2>2 DEF Settle
  <2>3. ASSUME IsPending(w), NEW st \in {"successful", "failed"},
               wd' = [wd EXCEPT ![w].status = st]
        PROVE  /\ \A v \in Withdrawal : v # w => wd'[v] = wd[v]
               /\ wd[w] # NoRow /\ wd[w].status = "pending"
               /\ wd'[w] # NoRow /\ wd'[w].status = st
               /\ wd'[w].amount = wd[w].amount /\ wd'[w].customerFee = wd[w].customerFee
    <3>1. wd[w] \in Row /\ wd[w].status = "pending"
      BY <1>1, <1>2, <2>3 DEF IsPending
    <3>2. [wd[w] EXCEPT !.status = st] \in Row
      BY <3>1 DEF Row
    <3>3. wd'[w] = [wd[w] EXCEPT !.status = st] /\ \A v \in Withdrawal : v # w => wd'[v] = wd[v]
      BY <1>1, <2>3
    <3> QED
      BY <3>1, <3>2, <3>3, NoRowAssumption DEF Row
  <2>4. CASE IsPending(w) /\ call[x].pc = "paid"
    <3>1. flw[w] = "successful" /\ MarkPaid(w)
      BY <1>7, <2>4 DEF Settle, Known
    <3>2. money'["wallet"] = money["wallet"]
      BY <3>1 DEF MarkPaid
    <3>3. \A v \in Withdrawal : Place(v)' = Place(v)
      BY <1>1, <2>1, <2>3, <2>4, <3>1 DEF MarkPaid, Place
    <3>4. Taken' = Taken
      BY <1>1, <2>3, <2>4, <3>1 DEF MarkPaid, Taken
    <3> QED
      BY <3>2, <3>3, <3>4 DEF Places
  <2>5. CASE IsPending(w) /\ call[x].pc = "fail"
    <3>1. flw[w] # "successful" /\ MarkFailed(w)
      BY <1>1, <1>7, <2>5 DEF Settle, Held, HeldRow, HeldCall, NotSent
    <3>2. Taken[w] = wd[w].amount + wd[w].customerFee
      BY <1>1, <2>5 DEF Taken, IsPending
    <3>3. money'["wallet"] = money["wallet"] + Taken[w]
      <4>1. money'["wallet"] = money["wallet"] + wd[w].amount + wd[w].customerFee
        BY <3>1 DEF MarkFailed
      <4> QED
        BY <1>1, <1>2, <2>5, <3>2, <4>1 DEF IsPending
    <3>4. Places' = [Places EXCEPT ![w] = "returned"] /\ Places[w] = "transit"
      BY <1>1, <2>1, <2>3, <2>5, <3>1 DEF MarkFailed, Places, Place
    <3>5. Taken' = Taken
      BY <1>1, <2>3, <2>5, <3>1 DEF MarkFailed, Taken
    <3>6. Promise!GiveBack(w)
      BY <3>3, <3>4, <3>5 DEF Promise!GiveBack
    <3> QED
      BY <1>1, <3>6 DEF Promise!Next
  <2> QED
    BY <1>7, <2>2, <2>4, <2>5 DEF Settle
<1>8. ASSUME NEW w \in Withdrawal, BankDecides(w)
      PROVE  [Promise!Next]_<<Places, Taken, money["wallet"]>>
  <2>1. flw[w] = "moving" /\ wd' = wd /\ money' = money
    BY <1>8 DEF BankDecides
  <2>2. \A v \in Withdrawal : v # w => flw'[v] = flw[v]
    BY <1>8 DEF BankDecides
  <2>3. wd[w] # NoRow /\ wd[w].status # "failed"
    BY <2>1 DEF Held, HeldRow, NotSent
  <2>4. CASE flw'[w] = "successful"
    <3>1. Places' = [Places EXCEPT ![w] = "bank"] /\ Places[w] = "transit"
      <4>1. Place(w)' = "bank" /\ Place(w) = "transit"
        BY <2>1, <2>3, <2>4 DEF Place
      <4>2. \A v \in Withdrawal : v # w => Place(v)' = Place(v)
        BY <2>1, <2>2 DEF Place
      <4>3. Places[w] = "transit"
        BY <4>1 DEF Places
      <4> QED
        BY <4>1, <4>2, <4>3, PlaceMoved
    <3>2. Taken' = Taken
      BY <2>1 DEF Taken
    <3>3. Promise!Arrive(w)
      BY <2>1, <3>1, <3>2 DEF Promise!Arrive
    <3> QED
      BY <3>3 DEF Promise!Next
  <2>5. CASE flw'[w] = "failed"
    <3>1. \A v \in Withdrawal : Place(v)' = Place(v)
      BY <2>1, <2>2, <2>5 DEF Place
    <3> QED
      BY <2>1, <3>1, SameMoney
  <2> QED
    BY <1>8, <2>4, <2>5 DEF BankDecides
<1>9. ASSUME NEW x \in Process, Step(x)
      PROVE  [Promise!Next]_<<Places, Taken, money["wallet"]>>
  BY <1>3, <1>5, <1>6, <1>7, <1>9 DEF Step, LoadToSubmit, HandleError, LoadToSync, Get
<1> QED
  BY <1>3, <1>4, <1>8, <1>9
     DEF PayoutsNext, Crash, StartSync, WorkerStart, WorkerNext, payouts

\* No withdrawal is refunded although it was sent, whatever is lost, fails or
\* crashes, unless it was misread: an answer about it was torn, its id could
\* not be stored, or it was refused and accepted on a second try.
THEOREM RefundsAreRight == PayoutsSpec => []RefundedUnlessMisread
<1>1. PayoutsInv /\ Held /\ [PayoutsNext]_payouts => (PayoutsInv /\ Held)'
  BY TypeStep, KnownStep, HeldStep DEF PayoutsInv
<1>2. Held => RefundedUnlessMisread
  BY DEF Held, HeldRow, NotSent, RefundedUnlessMisread
<1> QED
  BY PayoutsInitInv, <1>1, <1>2, PTL DEF PayoutsSpec

\* In every behaviour in which nothing is misread - no answer of Flutterwave is
\* torn, no transfer's id fails to be stored, no refused withdrawal is accepted
\* on a second try -, the money of a withdrawal is in one place, lost answers,
\* crashes and all the processes that settle it at once notwithstanding: it
\* leaves the wallet with the fee, and ends up at the bank or, fee included,
\* back in the wallet.
THEOREM KeepsPromise == PayoutsSpec /\ [](misread = {}) => PromiseKept
<1>1. PayoutsInv /\ Held /\ [PayoutsNext]_payouts => (PayoutsInv /\ Held)'
  BY TypeStep, KnownStep, HeldStep DEF PayoutsInv
<1>2. misread = {} /\ PayoutsInv /\ Held /\ [PayoutsNext]_payouts =>
        [Promise!Next]_<<Places, Taken, money["wallet"]>>
  BY PromiseStep
<1>3. PayoutsInit => Promise!Init
  <2>1. PayoutsInit => Places = [w \in Withdrawal |-> "none"]
    BY DEF PayoutsInit, Places, Place
  <2>2. PayoutsInit => Taken = [w \in Withdrawal |-> 0]
    BY DEF PayoutsInit, Taken
  <2>3. PayoutsInit => money["wallet"] \in Nat
    BY BoundAssumption DEF PayoutsInit
  <2> QED
    BY <2>1, <2>2, <2>3 DEF Promise!Init
<1> QED
  BY PayoutsInitInv, <1>1, <1>2, <1>3, PTL DEF PayoutsSpec, PromiseKept, Promise!Spec

(***************************************************************************)
(* Delivery: an email goes out once (SentOnce).                            *)
(*                                                                         *)
(* Of an email that met no mishap and was never in two deliveries at once  *)
(* there is one delivery that has read its row, and it found neither the   *)
(* row sent nor the email taken.                                           *)
(***************************************************************************)

\* What holds of every email: what is recorded as sent was taken.
Truthful ==
  /\ \A s \in Sender : delivery[s].pc # "idle" => delivery[s].email \in Email
  /\ \A s \in Sender : delivery[s].pc = "taken" => taken[delivery[s].email] > 0
  /\ \A e \in Email : mail[e] = "sent" => taken[e] > 0

\* What holds of e while nothing has come in between.
Alone(e) ==
  /\ \A s, z \in Under(e) : s = z
  /\ taken[e] <= 1
  /\ taken[e] > 0 => mail[e] = "sent" \/ \E s \in Under(e) : delivery[s].pc = "taken"
  /\ \A s \in Under(e) : mail[e] # "sent" /\ (delivery[s].pc # "taken" => taken[e] = 0)

DeliveryInv ==
  /\ DeliveryTypeOK /\ Truthful
  /\ \A e \in Email : e \notin hit \cup met => Alone(e)

LEMMA DeliveryInitInv == DeliveryInit => DeliveryInv
  BY EmailAttemptsAssumption
     DEF DeliveryInit, DeliveryInv, DeliveryTypeOK, Truthful, Alone, Under, PostJob, NoPost,
         Sending, NotSending

LEMMA DeliveryTypes ==
  ASSUME DeliveryInv
  PROVE  /\ \A e \in Email : post[e] \in PostJob
         /\ \A s \in Sender : delivery[s] \in Sending
         /\ NoPost \in PostJob /\ NotSending \in Sending
         /\ \A s \in Sender : delivery[s].pc # "idle" => delivery[s].email \in Email
  BY EmailAttemptsAssumption
     DEF DeliveryInv, DeliveryTypeOK, Truthful, PostJob, NoPost, Sending, NotSending

\* A job is rewritten, and stays one.
LEMMA PostEnds ==
  ASSUME DeliveryInv, NEW s \in Sender, delivery[s].pc # "idle", NEW p \in PostJob, EndPost(s, p)
  PROVE  post' \in [Email -> PostJob]
  BY DeliveryTypes DEF EndPost, DeliveryInv, DeliveryTypeOK

LEMMA ThrewTypes ==
  ASSUME DeliveryInv, NEW s \in Sender, delivery[s].pc # "idle", Threw(s)
  PROVE  post' \in [Email -> PostJob]
<1> DEFINE e == delivery[s].email
           q == [post[e] EXCEPT !.state = "waiting", !.by = Nobody, !.made = @ + 1]
<1>1. e \in Email /\ post[e] \in PostJob /\ NoPost \in PostJob
  BY DeliveryTypes
<1>2. post[e].made + 1 < EmailAttempts => q \in PostJob
  <2> SUFFICES ASSUME post[e].made + 1 < EmailAttempts PROVE q \in PostJob
    OBVIOUS
  <2>1. PICK m \in 0 .. EmailAttempts - 1 : m = post[e].made + 1
    BY <1>1, EmailAttemptsAssumption DEF PostJob
  <2>2. q = [post[e] EXCEPT !.state = "waiting", !.by = Nobody, !.made = m]
    BY <2>1
  <2> QED
    BY <1>1, <2>2 DEF PostJob
<1>3. EndPost(s, IF post[e].made + 1 < EmailAttempts THEN q ELSE NoPost)
  BY DEF Threw
<1>4. (IF post[e].made + 1 < EmailAttempts THEN q ELSE NoPost) \in PostJob
  BY <1>1, <1>2
<1> QED
  BY <1>3, <1>4, PostEnds

\* Of e nothing changes that Alone speaks of.
Apart(e) ==
  /\ Under(e)' = Under(e)
  /\ \A s \in Under(e) : delivery'[s].pc = delivery[s].pc
  /\ taken'[e] = taken[e]
  /\ mail'[e] = mail[e]

LEMMA AloneStays ==
  ASSUME NEW e \in Email, Alone(e), Apart(e)
  PROVE  Alone(e)'
  BY DEF Alone, Apart

\* A delivery that has not read the row, or has ended, is not under way.
LEMMA UnderMoves ==
  ASSUME DeliveryInv, NEW s \in Sender, NEW d, delivery' = [delivery EXCEPT ![s] = d],
         NEW e \in Email
  PROVE  /\ \A z \in Under(e) \ {s} : z \in Under(e)' /\ delivery'[z] = delivery[z]
         /\ \A z \in Under(e)' \ {s} : z \in Under(e)
         /\ delivery'[s] = d
         /\ s \in Under(e)' <=> d.email = e /\ d.pc \notin {"idle", "look"}
         /\ s \in Under(e) <=> delivery[s].email = e /\ delivery[s].pc \notin {"idle", "look"}
  BY DEF DeliveryInv, DeliveryTypeOK, Under

\* A step of delivery s leaves the other emails as they were.
LEMMA OthersApart ==
  ASSUME DeliveryInv, NEW s \in Sender, NEW d, delivery' = [delivery EXCEPT ![s] = d],
         NEW e \in Email,
         delivery[s].email # e \/ delivery[s].pc \in {"idle", "look"},
         d.email # e \/ d.pc \in {"idle", "look"},
         taken'[e] = taken[e], mail'[e] = mail[e]
  PROVE  Apart(e)
<1>1. s \notin Under(e) /\ s \notin Under(e)'
  BY UnderMoves
<1>2. \A z \in Sender : z \in Under(e) <=> z \in Under(e)'
  BY <1>1, UnderMoves
<1>3. Under(e) \subseteq Sender /\ Under(e)' \subseteq Sender
  BY DEF Under
<1>4. Under(e)' = Under(e)
  BY <1>2, <1>3
<1>5. \A z \in Under(e) : delivery'[z] = delivery[z]
  BY <1>1, UnderMoves
<1> QED
  BY <1>4, <1>5 DEF Apart

\* Where no delivery changes, and what was taken and the rows do not either.
LEMMA QuietKeeps ==
  ASSUME DeliveryInv, UNCHANGED <<mail, delivery, taken>>, DeliveryTypeOK',
         hit \subseteq hit', met \subseteq met'
  PROVE  DeliveryInv'
<1>1. Truthful'
  BY DEF DeliveryInv, Truthful
<1>2. ASSUME NEW e \in Email, e \notin hit' \cup met'
      PROVE  Alone(e)'
  BY <1>2 DEF DeliveryInv, Alone, Under
<1> QED
  BY <1>1, <1>2 DEF DeliveryInv

LEMMA MishapMarks ==
  ASSUME DeliveryInv, NEW e \in Email, Mishap(e)
  PROVE  mishaps' \in 0 .. MaxMishaps /\ hit' \subseteq Email /\ hit \subseteq hit' /\ e \in hit'
  BY EmailAttemptsAssumption DEF DeliveryInv, DeliveryTypeOK, Mishap

LEMMA QueueEmailKeeps ==
  ASSUME DeliveryInv, NEW e \in Email, QueueEmail(e)
  PROVE  DeliveryInv'
<1>1. DeliveryTypeOK'
  BY DEF DeliveryInv, DeliveryTypeOK, QueueEmail
<1>2. Truthful'
  BY DEF DeliveryInv, DeliveryTypeOK, Truthful, QueueEmail
<1>3. ASSUME NEW x \in Email, x \notin hit' \cup met'
      PROVE  Alone(x)'
  BY <1>3 DEF DeliveryInv, DeliveryTypeOK, QueueEmail, Alone, Under
<1> QED
  BY <1>1, <1>2, <1>3 DEF DeliveryInv

LEMMA ReassignedTypes ==
  ASSUME DeliveryInv, NEW e \in Email, Reassigned(e)
  PROVE  post' \in [Email -> PostJob]
<1> DEFINE q == [post[e] EXCEPT !.state = "waiting", !.by = Nobody, !.lost = 1]
<1>1. post[e] \in PostJob /\ NoPost \in PostJob
  BY DeliveryTypes
<1>2. q \in PostJob
  <2>1. PICK n \in 0 .. 1 : n = 1
    OBVIOUS
  <2>2. q = [post[e] EXCEPT !.state = "waiting", !.by = Nobody, !.lost = n]
    BY <2>1
  <2> HIDE DEF q
  <2> QED
    BY <1>1, <2>2 DEF PostJob
<1> HIDE DEF q
<1>3. post' = [post EXCEPT ![e] = IF post[e].lost = 0 THEN q ELSE NoPost]
  BY DEF Reassigned, q
<1> QED
  BY <1>1, <1>2, <1>3 DEF DeliveryInv, DeliveryTypeOK

LEMMA ReassignKeeps ==
  ASSUME DeliveryInv, NEW e \in Email, Reassign(e)
  PROVE  DeliveryInv'
<1>1. DeliveryTypeOK'
  BY ReassignedTypes DEF DeliveryInv, DeliveryTypeOK, Reassign
<1> QED
  BY <1>1, QuietKeeps DEF Reassign

LEMMA LoseTouchKeeps ==
  ASSUME DeliveryInv, NEW e \in Email, LoseTouch(e)
  PROVE  DeliveryInv'
<1>1. DeliveryTypeOK'
  BY ReassignedTypes, MishapMarks DEF DeliveryInv, DeliveryTypeOK, LoseTouch
<1> QED
  BY <1>1, QuietKeeps, MishapMarks DEF LoseTouch

LEMMA LoseEnqueueKeeps ==
  ASSUME DeliveryInv, NEW e \in Email, LoseEnqueue(e)
  PROVE  DeliveryInv'
<1>1. DeliveryTypeOK'
  BY MishapMarks DEF DeliveryInv, DeliveryTypeOK, LoseEnqueue
<1> QED
  BY <1>1, QuietKeeps, MishapMarks DEF LoseEnqueue

\* A delivery begins, and has not read the row.
LEMMA StartKeeps ==
  ASSUME DeliveryInv, NEW s \in Sender, NEW e \in Email, NEW last \in BOOLEAN,
         Start(s, e, last), UNCHANGED <<mail, taken, hit, met, mishaps>>,
         due' \subseteq Email, post' \in [Email -> PostJob]
  PROVE  DeliveryInv'
<1> DEFINE d == [pc |-> "look", email |-> e, last |-> last]
<1>1. delivery' = [delivery EXCEPT ![s] = d] /\ delivery[s].pc = "idle"
  BY DEF Start
<1>2. d \in Sending /\ d.pc = "look" /\ d.email = e
  BY DEF Sending
<1> HIDE DEF d
<1>3. DeliveryTypeOK'
  BY <1>1, <1>2 DEF DeliveryInv, DeliveryTypeOK
<1>4. Truthful'
  BY <1>1, <1>2 DEF DeliveryInv, DeliveryTypeOK, Truthful
<1>5. ASSUME NEW x \in Email, x \notin hit' \cup met'
      PROVE  Alone(x)'
  <2>1. Apart(x)
    BY <1>1, <1>2, OthersApart
  <2> QED
    BY <1>5, <2>1, AloneStays DEF DeliveryInv
<1> QED
  BY <1>3, <1>4, <1>5 DEF DeliveryInv

LEMMA EnqueueEmailKeeps ==
  ASSUME DeliveryInv, NEW s \in Sender, NEW e \in Email, NEW added \in BOOLEAN,
         NEW answered \in BOOLEAN, EnqueueEmail(s, e, added, answered)
  PROVE  DeliveryInv'
<1>1. post' \in [Email -> PostJob]
  BY DEF EnqueueEmail, Added, DeliveryInv, DeliveryTypeOK, PostJob
<1>2. due' \subseteq Email
  BY DEF EnqueueEmail, DeliveryInv, DeliveryTypeOK
<1>3. CASE answered
  <2>1. DeliveryTypeOK'
    BY <1>1, <1>2, <1>3 DEF EnqueueEmail, DeliveryInv, DeliveryTypeOK
  <2> QED
    BY <1>3, <2>1, QuietKeeps DEF EnqueueEmail
<1>4. CASE ~answered
  BY <1>1, <1>2, <1>4, StartKeeps DEF EnqueueEmail
<1> QED
  BY <1>3, <1>4

LEMMA TakePostKeeps ==
  ASSUME DeliveryInv, NEW s \in Sender, NEW e \in Email, TakePost(s, e)
  PROVE  DeliveryInv'
<1>1. post' \in [Email -> PostJob]
  BY DEF TakePost, DeliveryInv, DeliveryTypeOK, PostJob
<1>2. due' \subseteq Email
  BY DEF TakePost, DeliveryInv, DeliveryTypeOK
<1> DEFINE last == post[e].made + 1 >= EmailAttempts
<1>3. last \in BOOLEAN
  OBVIOUS
<1>4. Start(s, e, last) /\ UNCHANGED <<mail, taken, hit, met, mishaps>>
  BY Zenon DEF TakePost
<1> HIDE DEF last
<1> QED
  BY <1>1, <1>2, <1>3, <1>4, StartKeeps

\* A delivery that ends, or goes on, without a word about what was taken: the
\* email may stay Alone, and the others do.
LEMMA DeliveryMoves ==
  ASSUME DeliveryInv, NEW s \in Sender, NEW d \in Sending, delivery[s].pc # "idle",
         NEW e \in Email, e = delivery[s].email,
         delivery' = [delivery EXCEPT ![s] = d],
         d.pc = "idle" \/ d.email = e,
         DeliveryTypeOK', hit \subseteq hit', met \subseteq met',
         \A x \in Email : x # e => taken'[x] = taken[x] /\ mail'[x] = mail[x],
         taken'[e] >= taken[e],
         mail'[e] = "sent" => taken'[e] > 0,
         d.pc = "taken" => taken'[e] > 0,
         e \notin hit' \cup met' => Alone(e)'
  PROVE  DeliveryInv'
<1>2. Truthful'
  <2>1. ASSUME NEW x \in Email
        PROVE  taken[x] \in Nat /\ taken'[x] \in Nat /\ taken'[x] >= taken[x]
               /\ (mail'[x] = "sent" => taken'[x] > 0)
    BY <2>1 DEF DeliveryInv, DeliveryTypeOK, Truthful
  <2>2. ASSUME NEW z \in Sender
        PROVE  /\ delivery'[z].pc # "idle" => delivery'[z].email \in Email
               /\ delivery'[z].pc = "taken" => taken'[delivery'[z].email] > 0
    <3>1. CASE z = s
      BY <3>1, <2>1 DEF DeliveryInv, DeliveryTypeOK, Truthful
    <3>2. CASE z # s
      <4>1. delivery'[z] = delivery[z]
        BY <3>2 DEF DeliveryInv, DeliveryTypeOK
      <4>2. delivery[z].pc = "taken" => delivery[z].email \in Email /\ taken[delivery[z].email] > 0
        BY DEF DeliveryInv, Truthful
      <4> QED
        BY <4>1, <4>2, <2>1 DEF DeliveryInv, Truthful
    <3> QED
      BY <3>1, <3>2
  <2> QED
    BY <2>1, <2>2 DEF Truthful
<1>3. ASSUME NEW x \in Email, x \notin hit' \cup met'
      PROVE  Alone(x)'
  <2>1. CASE x = e
    BY <2>1, <1>3
  <2>2. CASE x # e
    <3>1. Apart(x)
      BY <2>2, OthersApart
    <3> QED
      BY <1>3, <3>1, AloneStays DEF DeliveryInv
  <2> QED
    BY <2>1, <2>2
<1> QED
  BY <1>2, <1>3 DEF DeliveryInv

\* A mishap: the email itself is given up to it.
LEMMA MishapKeeps ==
  ASSUME DeliveryInv, NEW s \in Sender, NEW d \in Sending, delivery[s].pc # "idle",
         Mishap(delivery[s].email), delivery' = [delivery EXCEPT ![s] = d],
         d.pc = "idle" \/ d.email = delivery[s].email, d.pc # "taken",
         post' \in [Email -> PostJob], UNCHANGED <<mail, due, taken, met>>
  PROVE  DeliveryInv'
<1>1. delivery[s].email \in Email /\ delivery[s].email \in hit'
  BY DeliveryTypes, MishapMarks
<1>2. DeliveryTypeOK'
  BY <1>1, MishapMarks DEF DeliveryInv, DeliveryTypeOK
<1>3. hit \subseteq hit'
  BY <1>1, MishapMarks
<1>4. mail[delivery[s].email] = "sent" => taken[delivery[s].email] > 0
  BY <1>1 DEF DeliveryInv, Truthful
<1>5. taken[delivery[s].email] \in Nat
  BY <1>1 DEF DeliveryInv, DeliveryTypeOK
<1>6. taken'[delivery[s].email] >= taken[delivery[s].email]
  BY <1>5
<1>7. PICK e \in Email : e = delivery[s].email
  BY <1>1
<1> QED
  BY <1>1, <1>2, <1>3, <1>4, <1>6, <1>7, DeliveryMoves

LEMMA DieDeliveringKeeps ==
  ASSUME DeliveryInv, NEW s \in Sender, DieDelivering(s)
  PROVE  DeliveryInv'
<1> DEFINE p == [post[delivery[s].email] EXCEPT !.by = Nobody]
<1>1. p \in PostJob
  BY DeliveryTypes DEF DieDelivering, PostJob
<1>2. EndPost(s, p) /\ delivery[s].pc # "idle"
  BY DEF DieDelivering
<1> HIDE DEF p
<1>3. post' \in [Email -> PostJob]
  BY <1>1, <1>2, PostEnds
<1>4. NotSending \in Sending /\ NotSending.pc = "idle"
  BY DeliveryTypes DEF NotSending
<1> QED
  BY <1>2, <1>3, <1>4, MishapKeeps DEF DieDelivering

LEMMA StatementFailsKeeps ==
  ASSUME DeliveryInv, NEW s \in Sender, StatementFails(s)
  PROVE  DeliveryInv'
<1>1. delivery[s].pc # "idle" /\ delivery[s] \in Sending
  BY DeliveryTypes DEF StatementFails
<1>2. CASE delivery[s].pc = "taken"
  <2> DEFINE d == [delivery[s] EXCEPT !.pc = "refused"]
  <2>1. d \in Sending /\ d.pc = "refused" /\ d.email = delivery[s].email
    BY <1>1 DEF Sending
  <2>2. delivery' = [delivery EXCEPT ![s] = d]
    BY <1>2 DEF StatementFails
  <2> HIDE DEF d
  <2>3. post' \in [Email -> PostJob]
    BY <1>2 DEF StatementFails, DeliveryInv, DeliveryTypeOK
  <2> QED
    BY <1>1, <2>1, <2>2, <2>3, MishapKeeps DEF StatementFails
<1>3. CASE delivery[s].pc # "taken"
  <2>1. Threw(s) /\ delivery' = [delivery EXCEPT ![s] = NotSending]
    BY <1>3 DEF StatementFails, Threw
  <2>2. NotSending \in Sending /\ NotSending.pc = "idle"
    BY DeliveryTypes DEF NotSending
  <2>3. post' \in [Email -> PostJob]
    BY <1>1, <2>1, ThrewTypes
  <2> QED
    BY <1>1, <2>1, <2>2, <2>3, MishapKeeps DEF StatementFails
<1> QED
  BY <1>2, <1>3

\* The row is read: the email is in another delivery by now (Meets), or the
\* row, which says whether it was taken, was not "sent".
LEMMA LookAtMailKeeps ==
  ASSUME DeliveryInv, NEW s \in Sender, LookAtMail(s)
  PROVE  DeliveryInv'
<1>1. PICK e \in Email : e = delivery[s].email
  BY DeliveryTypes DEF LookAtMail
<1>2. delivery[s].pc = "look" /\ delivery[s] \in Sending
  BY DeliveryTypes DEF LookAtMail
<1>3. PICK d \in Sending :
        /\ delivery' = [delivery EXCEPT ![s] = d]
        /\ post' \in [Email -> PostJob]
        /\ d.pc # "taken"
        /\ d.pc = "idle" \/ (d.email = e /\ mail[e] # "sent")
  <2>1. CASE Done(s)
    <3>1. NotSending \in Sending /\ NotSending.pc = "idle"
      BY DeliveryTypes DEF NotSending
    <3>2. post' \in [Email -> PostJob]
      BY <2>1, <1>2, DeliveryTypes, PostEnds DEF Done
    <3> QED
      BY <2>1, <3>1, <3>2 DEF Done
  <2>2. CASE mail[e] # "sent" /\ delivery' = [delivery EXCEPT ![s].pc = "send"] /\ UNCHANGED post
    <3> DEFINE d == [delivery[s] EXCEPT !.pc = "send"]
    <3>1. d \in Sending /\ d.pc = "send" /\ d.email = e
      BY <1>1, <1>2 DEF Sending
    <3>2. delivery' = [delivery EXCEPT ![s] = d]
      BY <2>2
    <3> HIDE DEF d
    <3>3. post' \in [Email -> PostJob]
      BY <2>2 DEF DeliveryInv, DeliveryTypeOK
    <3> QED
      BY <2>2, <3>1, <3>2, <3>3
  <2> QED
    BY <1>1, <2>1, <2>2 DEF LookAtMail
<1>4. met \subseteq met' /\ met' \subseteq Email
  BY <1>1 DEF LookAtMail, Meets, DeliveryInv, DeliveryTypeOK
<1>5. UNCHANGED <<mail, due, taken, hit, mishaps>>
  BY DEF LookAtMail
<1>6. DeliveryTypeOK'
  BY <1>3, <1>4, <1>5 DEF DeliveryInv, DeliveryTypeOK
<1>7. ASSUME e \notin hit' \cup met'
      PROVE  Alone(e)'
  <2>1. Under(e) = {}
    BY <1>1, <1>7 DEF LookAtMail, Meets
  <2>2. Alone(e)
    BY <1>4, <1>5, <1>7 DEF DeliveryInv
  <2>3. \A z \in Under(e)' : z = s
    <3>1. delivery' = [delivery EXCEPT ![s] = d]
      BY <1>3
    <3>2. \A z \in Under(e)' \ {s} : z \in Under(e)
      BY <3>1, UnderMoves
    <3> QED
      BY <3>2, <2>1
  <2>4. taken[e] \in Nat /\ (taken[e] > 0 => mail[e] = "sent")
    BY <2>1, <2>2 DEF Alone, DeliveryInv, DeliveryTypeOK
  <2>5. delivery'[s] = d
    BY <1>3, UnderMoves
  <2>6. s \in Under(e)' => mail[e] # "sent" /\ taken[e] = 0
    <3>1. delivery' = [delivery EXCEPT ![s] = d]
      BY <1>3
    <3>2. s \in Under(e)' => d.pc # "idle"
      BY <3>1, UnderMoves
    <3> QED
      BY <1>3, <3>2, <2>4
  <2> QED
    BY <1>5, <2>2, <2>3, <2>4, <2>5, <2>6 DEF Alone
<1>8. (mail[e] = "sent" => taken[e] > 0) /\ taken[e] \in Nat
  BY DEF DeliveryInv, DeliveryTypeOK, Truthful
<1>9. taken'[e] >= taken[e]
  BY <1>5, <1>8
<1> QED
  BY <1>1, <1>2, <1>3, <1>4, <1>5, <1>6, <1>7, <1>8, <1>9, DeliveryMoves

\* The mail server takes the email, or does not.
LEMMA SendMailKeeps ==
  ASSUME DeliveryInv, NEW s \in Sender, NEW accepted \in BOOLEAN, SendMail(s, accepted)
  PROVE  DeliveryInv'
<1>1. PICK e \in Email : e = delivery[s].email
  BY DeliveryTypes DEF SendMail
<1>2. delivery[s].pc = "send" /\ delivery[s] \in Sending /\ taken[e] \in Nat
  BY DeliveryTypes DEF SendMail, DeliveryInv, DeliveryTypeOK
<1> DEFINE d == [delivery[s] EXCEPT !.pc = IF accepted THEN "taken" ELSE "refused"]
<1>3. /\ d \in Sending /\ d.email = e
      /\ d.pc = IF accepted THEN "taken" ELSE "refused"
  BY <1>1, <1>2 DEF Sending
<1>4. delivery' = [delivery EXCEPT ![s] = d]
  BY DEF SendMail
<1> HIDE DEF d
<1>5. taken' = [taken EXCEPT ![e] = IF accepted THEN taken[e] + 1 ELSE taken[e]]
  BY <1>1 DEF SendMail, DeliveryInv, DeliveryTypeOK
<1>6. UNCHANGED <<mail, due, post, hit, met, mishaps>>
  BY DEF SendMail
<1>7. taken' \in [Email -> Nat]
  <2>1. PICK n \in Nat : n = IF accepted THEN taken[e] + 1 ELSE taken[e]
    BY <1>2
  <2> QED
    BY <1>5, <2>1 DEF DeliveryInv, DeliveryTypeOK
<1>8. DeliveryTypeOK'
  BY <1>3, <1>4, <1>6, <1>7 DEF DeliveryInv, DeliveryTypeOK
<1>9. taken'[e] = IF accepted THEN taken[e] + 1 ELSE taken[e]
  BY <1>5 DEF DeliveryInv, DeliveryTypeOK
<1>10. ASSUME e \notin hit' \cup met'
       PROVE  Alone(e)'
  <2>1. Alone(e) /\ s \in Under(e)
    BY <1>1, <1>2, <1>6, <1>10 DEF DeliveryInv, Under
  <2>2. taken[e] = 0 /\ mail[e] # "sent"
    BY <1>2, <2>1 DEF Alone
  <2>3. \A z \in Under(e)' : z = s
    BY <1>4, <2>1, UnderMoves DEF Alone
  <2>4. s \in Under(e)' /\ delivery'[s].pc = IF accepted THEN "taken" ELSE "refused"
    BY ZenonT(60), <1>3, <1>4, UnderMoves
  <2> QED
    BY <1>6, <1>9, <2>2, <2>3, <2>4 DEF Alone
<1>11. \A x \in Email : x # e => taken'[x] = taken[x]
  BY <1>5 DEF DeliveryInv, DeliveryTypeOK
<1>12. mail[e] = "sent" => taken[e] > 0
  BY DEF DeliveryInv, Truthful
<1>13. /\ delivery[s].pc # "idle" /\ taken'[e] >= taken[e]
       /\ d.pc = "taken" => taken'[e] > 0
       /\ mail'[e] = "sent" => taken'[e] > 0
       /\ \A x \in Email : x # e => taken'[x] = taken[x] /\ mail'[x] = mail[x]
       /\ hit \subseteq hit' /\ met \subseteq met'
  BY <1>2, <1>3, <1>6, <1>9, <1>11, <1>12
<1> QED
  BY <1>1, <1>3, <1>4, <1>8, <1>10, <1>13, DeliveryMoves

LEMMA RecordSentKeeps ==
  ASSUME DeliveryInv, NEW s \in Sender, RecordSent(s)
  PROVE  DeliveryInv'
<1>1. PICK e \in Email : e = delivery[s].email
  BY DeliveryTypes DEF RecordSent
<1>2. delivery[s].pc = "taken" /\ taken[e] \in Nat /\ taken[e] > 0
  BY <1>1 DEF RecordSent, DeliveryInv, DeliveryTypeOK, Truthful
<1>3. /\ delivery' = [delivery EXCEPT ![s] = NotSending]
      /\ mail' = [mail EXCEPT ![e] = "sent"]
      /\ UNCHANGED <<due, taken, hit, met, mishaps>>
  BY <1>1 DEF RecordSent, Done
<1>4. NotSending \in Sending /\ NotSending.pc = "idle"
  BY DeliveryTypes DEF NotSending
<1>5. post' \in [Email -> PostJob]
  BY <1>2, DeliveryTypes, PostEnds DEF RecordSent, Done
<1>6. DeliveryTypeOK'
  BY <1>3, <1>4, <1>5 DEF DeliveryInv, DeliveryTypeOK
<1>7. mail'[e] = "sent" /\ \A x \in Email : x # e => mail'[x] = mail[x]
  BY <1>3 DEF DeliveryInv, DeliveryTypeOK
<1>8. ASSUME e \notin hit' \cup met'
      PROVE  Alone(e)'
  <2>1. Alone(e) /\ s \in Under(e)
    BY <1>1, <1>2, <1>3, <1>8 DEF DeliveryInv, Under
  <2>2. Under(e)' = {}
    <3>1. \A z \in Under(e)' : z = s
      BY <1>3, <2>1, UnderMoves DEF Alone
    <3>2. s \notin Under(e)'
      BY <1>3, <1>4, UnderMoves
    <3> QED
      BY <3>1, <3>2
  <2> QED
    BY <1>3, <1>7, <2>1, <2>2 DEF Alone
<1>9. /\ delivery[s].pc # "idle" /\ taken'[e] >= taken[e] /\ taken'[e] > 0
      /\ \A x \in Email : x # e => taken'[x] = taken[x] /\ mail'[x] = mail[x]
      /\ hit \subseteq hit' /\ met \subseteq met'
  BY <1>2, <1>3, <1>7
<1> QED
  BY <1>1, <1>3, <1>4, <1>6, <1>8, <1>9, DeliveryMoves

\* Of an email that is alone, what was refused was never taken.
LEMMA RecordFailedKeeps ==
  ASSUME DeliveryInv, NEW s \in Sender, RecordFailed(s)
  PROVE  DeliveryInv'
<1>1. PICK e \in Email : e = delivery[s].email
  BY DeliveryTypes DEF RecordFailed
<1>2. delivery[s].pc = "refused" /\ taken[e] \in Nat
  BY DEF RecordFailed, DeliveryInv, DeliveryTypeOK
<1>3. /\ delivery' = [delivery EXCEPT ![s] = NotSending]
      /\ mail' = IF delivery[s].last THEN [mail EXCEPT ![e] = "failed"] ELSE mail
      /\ UNCHANGED <<due, taken, hit, met, mishaps>>
  BY <1>1 DEF RecordFailed, Threw
<1>4. NotSending \in Sending /\ NotSending.pc = "idle"
  BY DeliveryTypes DEF NotSending
<1>5. post' \in [Email -> PostJob]
  BY <1>2, ThrewTypes DEF RecordFailed
<1>6. mail' \in [Email -> {"none", "queued", "sent", "failed"}]
  BY <1>3 DEF DeliveryInv, DeliveryTypeOK
<1>7. DeliveryTypeOK'
  BY <1>3, <1>4, <1>5, <1>6 DEF DeliveryInv, DeliveryTypeOK
<1>8. /\ mail'[e] \in {mail[e], "failed"}
      /\ \A x \in Email : x # e => mail'[x] = mail[x]
  BY <1>3 DEF DeliveryInv, DeliveryTypeOK
<1>9. ASSUME e \notin hit' \cup met'
      PROVE  Alone(e)'
  <2>1. Alone(e) /\ s \in Under(e)
    BY <1>1, <1>2, <1>3, <1>9 DEF DeliveryInv, Under
  <2>2. Under(e)' = {}
    <3>1. \A z \in Under(e)' : z = s
      BY <1>3, <2>1, UnderMoves DEF Alone
    <3>2. s \notin Under(e)'
      BY <1>3, <1>4, UnderMoves
    <3> QED
      BY <3>1, <3>2
  <2>3. taken[e] = 0
    BY <1>2, <2>1 DEF Alone
  <2> QED
    BY <1>3, <2>2, <2>3 DEF Alone
<1>10. mail'[e] = "sent" => taken[e] > 0
  BY <1>8 DEF DeliveryInv, Truthful
<1>11. /\ delivery[s].pc # "idle" /\ taken'[e] >= taken[e]
       /\ mail'[e] = "sent" => taken'[e] > 0
       /\ \A x \in Email : x # e => taken'[x] = taken[x] /\ mail'[x] = mail[x]
       /\ hit \subseteq hit' /\ met \subseteq met'
  BY <1>2, <1>3, <1>8, <1>10
<1> QED
  BY <1>1, <1>3, <1>4, <1>7, <1>9, <1>11, DeliveryMoves

LEMMA DeliveryStep == DeliveryInv /\ [DeliveryNext]_mails => DeliveryInv'
<1> SUFFICES ASSUME DeliveryInv, [DeliveryNext]_mails PROVE DeliveryInv'
  OBVIOUS
<1>1. CASE UNCHANGED mails
  <2>1. DeliveryTypeOK'
    BY <1>1 DEF mails, DeliveryInv, DeliveryTypeOK
  <2> QED
    BY <1>1, <2>1, QuietKeeps DEF mails
<1>2. ASSUME NEW e \in Email, QueueEmail(e) \/ LoseEnqueue(e) \/ Hand(e) \/ LoseTouch(e)
      PROVE  DeliveryInv'
  BY <1>2, QueueEmailKeeps, LoseEnqueueKeeps, ReassignKeeps, TakePostKeeps, EnqueueEmailKeeps,
     LoseTouchKeeps DEF Hand
<1>3. ASSUME NEW s \in Sender, Deliver(s) \/ StatementFails(s) \/ DieDelivering(s)
      PROVE  DeliveryInv'
  BY <1>3, LookAtMailKeeps, SendMailKeeps, RecordSentKeeps, RecordFailedKeeps,
     StatementFailsKeeps, DieDeliveringKeeps DEF Deliver
<1> QED
  BY <1>1, <1>2, <1>3 DEF DeliveryNext

\* What deliverEmail and its queue keep at every step: the invariant below
\* EmailsSentOnce.
THEOREM DeliveryInvCorrect == DeliverySpec => []DeliveryInv
  BY DeliveryInitInv, DeliveryStep, PTL DEF DeliverySpec

\* deliverEmail sends an email once, and its row says so: only a mishap
\* between the mail server and the row, or a second delivery that reads the
\* row before the first has written it, makes it otherwise (SentOnce).
THEOREM EmailsSentOnce == DeliverySpec => []SentOnce
<1>1. DeliveryInv => SentOnce
  <2> SUFFICES ASSUME DeliveryInv PROVE SentOnce
    OBVIOUS
  <2>1. ASSUME NEW e \in Email, e \notin hit \cup met
        PROVE  /\ ~ taken[e] > 1
               /\ ~ (mail[e] = "failed" /\ taken[e] > 0 /\ Under(e) = {})
    BY <2>1 DEF DeliveryInv, DeliveryTypeOK, Alone
  <2> QED
    BY <2>1 DEF DeliveryInv, SentOnce, Truthful
<1> QED
  BY <1>1, DeliveryInvCorrect, PTL

=============================================================================
