--------------------------- MODULE CustomersProofs ---------------------------
(***************************************************************************)
(* What Sessions, Addresses, Identity, Accounts, Alerts, Lists and Clients *)
(* promise a customer, for any devices, requests, users, addresses,        *)
(* fields, submissions, wallets, banks, tabs, alerts, rows, pages and      *)
(* invoices.                                                               *)
(***************************************************************************)
EXTENDS Sessions, Addresses, Identity, Accounts, Alerts, Lists, Clients, Sums

(***************************************************************************)
(* Sessions.  Its properties say of the rows and cookies what the requests *)
(* that make them must be known to carry on the way: so each invariant is  *)
(* one about rows or cookies and one about the requests under way.         *)
(***************************************************************************)

\* A session is about to be opened.
Opening(c) == call[c].pc \in {"verified", "disabled", "issue"}

Proved(basis) == basis.off \/ basis.proved

\* A request that opens a full session has found two-factor off, or a code was
\* accepted; one that bears the time of a code comes from there.
CallsProved ==
  \A c \in Call :
    /\ call[c].pc = "verified" => call[c].basis.proved
    /\ call[c].pc = "disabled" => Proved(call[c].basis)
    /\ call[c].pc = "issue" =>
         /\ ~call[c].pending => Proved(call[c].basis)
         /\ call[c].at # NoStep => call[c].basis.proved /\ call[c].at <= now

\* One that was let in by an older password was carried past the reset.
CallsCrossed ==
  \A c \in Call : Opening(c) /\ call[c].basis.password # user.password => call[c].basis.crossed

RowsCrossed ==
  \A t \in 1 .. issued :
    Live(t) /\ session[t].basis.password # user.password => session[t].basis.crossed

\* Secrets are numbered as they are made.  Codes that were accepted are not of
\* the one that is being set up, and of the one in use no later than the last.
CodesUsed ==
  /\ user.secret <= made /\ user.setup <= made
  /\ user.secret # 0 => user.setup # user.secret
  /\ \A k \in won :
       /\ k[1] <= made
       /\ k[1] # user.setup
       /\ k[1] = user.secret => k[2] <= user.lastStep

SessionsInv == SessionsTypeOK /\ FullMeansProved /\ CallsProved /\ RowsCrossed /\ CallsCrossed /\ CodesUsed

LEMMA Constants ==
  /\ NoBasis \in Basis
  /\ Idle \in CallState /\ Idle.pc = "idle"
  /\ 0 .. MaxStep \subseteq Step
  /\ NoStep \in Int /\ Step \subseteq Int /\ NoStep \notin Step
  /\ {Drift, MaxSessions, MaxResets, MaxSecrets, MaxStep, MaxLost, CodeTries} \subseteq Nat
<1>1. NoBasis \in Basis
  BY BoundAssumption DEF NoBasis, Basis
<1>2. NoStep \in Int /\ Step \subseteq Int /\ NoStep \notin Step /\ 0 .. MaxStep \subseteq Step
  BY BoundAssumption DEF NoStep, Step
<1>3. Idle \in CallState /\ Idle.pc = "idle"
  BY <1>1, BoundAssumption, BrowserAssumption DEF Idle, CallState
<1> QED
  BY <1>1, <1>2, <1>3, BoundAssumption

LEMMA SessionsInitInv == SessionsInit => SessionsInv
<1> SUFFICES ASSUME SessionsInit PROVE SessionsInv
  OBVIOUS
<1>1. SessionsTypeOK
  <2>1. user \in User
    BY Constants DEF SessionsInit, User
  <2>2. jar \in [Browser -> Jar] /\ call \in [Call -> CallState]
    BY Constants DEF SessionsInit, Jar
  <2>3. session \in [1 .. issued -> TokenRow \cup {None}]
    BY DEF SessionsInit
  <2> QED
    BY <2>1, <2>2, <2>3, Constants DEF SessionsInit, SessionsTypeOK
<1>2. FullMeansProved /\ RowsCrossed
  BY DEF SessionsInit, FullMeansProved, RowsCrossed
<1>3. CallsProved /\ CallsCrossed
  BY Constants DEF SessionsInit, CallsProved, CallsCrossed, Opening
<1> QED
  BY <1>1, <1>2, <1>3 DEF SessionsInv, SessionsInit, CodesUsed

\* What a request is when it begins, and when it ends.
LEMMA CallBegun ==
  ASSUME SessionsTypeOK, NEW c \in Call, NEW b \in Browser,
         NEW pc \in {"enable", "verified", "disabled", "leave", "issue"},
         NEW pending \in BOOLEAN, NEW basis \in Basis, Begin(c, b, pc, pending, basis)
  PROVE  /\ call' \in [Call -> CallState]
         /\ call'[c].pc = pc /\ call'[c].pending = pending
         /\ call'[c].at = NoStep /\ call'[c].basis = basis
         /\ \A d \in Call : d # c => call'[d] = call[d]
<1> DEFINE q == [pc |-> pc, browser |-> b, refresh |-> jar[b].refresh,
                 pending |-> pending, at |-> NoStep, basis |-> basis]
<1>1. q \in CallState
  BY DEF CallState, SessionsTypeOK, Jar
<1>2. call' = [call EXCEPT ![c] = q]
  BY DEF Begin
<1> QED
  BY <1>1, <1>2 DEF SessionsTypeOK

LEMMA EndedType ==
  ASSUME SessionsTypeOK, NEW u
  PROVE  /\ Ended(u) \in [1 .. issued -> TokenRow \cup {None}]
         /\ \A t \in 1 .. issued : Ended(u)[t] # None => Ended(u)[t] = session[t]
  BY DEF SessionsTypeOK, Ended

LEMMA CarriedBasis ==
  ASSUME SessionsTypeOK, NEW b \in Browser, jar[b].access # None, NEW proved \in BOOLEAN
  PROVE  /\ jar[b].access \in Claims
         /\ Carried(b, proved) \in Basis
         /\ Carried(b, proved).off = jar[b].access.basis.off
         /\ Carried(b, proved).proved = (jar[b].access.basis.proved \/ proved)
         /\ Carried(b, proved).password # user.password => Carried(b, proved).crossed
<1> DEFINE old == jar[b].access.basis
<1>1. jar[b].access \in Claims /\ old \in Basis
  BY DEF SessionsTypeOK, Jar, Claims
<1> HIDE DEF old
<1>2. Carried(b, proved) =
        [old EXCEPT !.proved = old.proved \/ proved, !.crossed = old.crossed \/ old.password # user.password]
  BY DEF Carried, old
<1>3. /\ Carried(b, proved).password = old.password
      /\ Carried(b, proved).off = old.off
      /\ Carried(b, proved).proved = (old.proved \/ proved)
      /\ Carried(b, proved).crossed = (old.crossed \/ old.password # user.password)
      /\ Carried(b, proved) \in Basis
  BY <1>1, <1>2 DEF Basis
<1> QED
  BY <1>1, <1>3 DEF old

\* The other requests go on as they were.
LEMMA OtherCalls ==
  ASSUME SessionsInv, NEW c \in Call, \A d \in Call : d # c => call'[d] = call[d],
         user'.password = user.password, now' = now,
         call'[c].pc = "verified" => call'[c].basis.proved,
         call'[c].pc = "disabled" => Proved(call'[c].basis),
         call'[c].pc = "issue" =>
           /\ ~call'[c].pending => Proved(call'[c].basis)
           /\ call'[c].at # NoStep => call'[c].basis.proved /\ call'[c].at <= now,
         call'[c].pc \in {"verified", "disabled", "issue"}
           /\ call'[c].basis.password # user.password => call'[c].basis.crossed
  PROVE  CallsProved' /\ CallsCrossed'
  BY DEF SessionsInv, CallsProved, CallsCrossed, Opening, Proved

\* Rows are ended at most, and no password or cookie is set.
LEMMA RowsKept ==
  ASSUME SessionsInv, issued' = issued, jar' = jar, user'.password = user.password, now' = now,
         \A t \in 1 .. issued : session'[t] # None => session'[t] = session[t]
  PROVE  FullMeansProved' /\ RowsCrossed'
<1>1. \A t \in 1 .. issued' : Live(t)' => Live(t) /\ session'[t] = session[t]
  BY DEF SessionsInv, SessionsTypeOK, Live
<1>2. FullMeansProved'
  BY <1>1 DEF SessionsInv, FullMeansProved
<1>3. RowsCrossed'
  BY <1>1 DEF SessionsInv, RowsCrossed
<1> QED
  BY <1>2, <1>3

LEMMA CodesKept ==
  ASSUME SessionsInv, UNCHANGED <<won, made>>, user'.secret = user.secret,
         user'.setup = user.setup, user'.lastStep = user.lastStep
  PROVE  CodesUsed'
  BY DEF SessionsInv, CodesUsed

LEMMA SignInStep ==
  ASSUME SessionsInv, NEW c \in Call, NEW b \in Browser, SignIn(c, b)
  PROVE  SessionsInv'
<1> DEFINE pending == user.secret # 0
           basis   == [password |-> user.password, off |-> user.secret = 0,
                       proved |-> FALSE, crossed |-> FALSE]
<1>1. Begin(c, b, "issue", pending, basis) /\ UNCHANGED <<user, made, session, issued, jar, reset, now, won, lost>>
  BY DEF SignIn
<1>2. /\ pending \in BOOLEAN /\ basis \in Basis
      /\ ~pending => Proved(basis)
      /\ basis.password = user.password
  BY DEF SessionsInv, SessionsTypeOK, User, Basis, Proved
<1> HIDE DEF pending, basis
<1>3. SessionsTypeOK'
  BY <1>1, <1>2, CallBegun DEF SessionsInv, SessionsTypeOK
<1>4. CallsProved' /\ CallsCrossed'
  BY <1>1, <1>2, CallBegun, OtherCalls DEF SessionsInv
<1> QED
  BY <1>1, <1>3, <1>4, RowsKept, CodesKept DEF SessionsInv

LEMMA RefreshStep ==
  ASSUME SessionsInv, NEW c \in Call, NEW b \in Browser, Refresh(c, b)
  PROVE  SessionsInv'
<1> DEFINE t == jar[b].refresh
<1>1. t \in 1 .. issued /\ Live(t) /\ session[t] \in TokenRow
  BY DEF SessionsInv, SessionsTypeOK, Refresh, Live
<1>2. Begin(c, b, "issue", session[t].pending, session[t].basis) /\ session' = Ended(t)
  BY DEF Refresh
<1>3. /\ session[t].pending \in BOOLEAN /\ session[t].basis \in Basis
      /\ ~session[t].pending => Proved(session[t].basis)
      /\ session[t].basis.password # user.password => session[t].basis.crossed
  BY <1>1 DEF SessionsInv, TokenRow, FullMeansProved, RowsCrossed, Proved
<1>4. UNCHANGED <<user, made, issued, jar, reset, now, won, lost>>
  BY DEF Refresh
<1>5. SessionsTypeOK'
  BY <1>2, <1>3, <1>4, CallBegun, EndedType DEF SessionsInv, SessionsTypeOK
<1>6. CallsProved' /\ CallsCrossed'
  BY <1>2, <1>3, <1>4, CallBegun, OtherCalls DEF SessionsInv
<1>7. FullMeansProved' /\ RowsCrossed'
  BY <1>2, <1>4, EndedType, RowsKept DEF SessionsInv
<1> QED
  BY <1>4, <1>5, <1>6, <1>7, CodesKept DEF SessionsInv

LEMMA LeaveStep ==
  ASSUME SessionsInv, NEW c \in Call, NEW b \in Browser, StartLogout(c, b) \/ StartEnable(c, b)
  PROVE  SessionsInv'
<1>1. PICK pc \in {"leave", "enable"} : Begin(c, b, pc, FALSE, NoBasis)
  BY DEF StartLogout, StartEnable
<1>2. UNCHANGED <<user, made, issued, jar, reset, now, won, lost>>
  BY DEF StartLogout, StartEnable
<1>3. /\ session' \in [1 .. issued -> TokenRow \cup {None}]
      /\ \A t \in 1 .. issued : session'[t] # None => session'[t] = session[t]
  BY EndedType DEF SessionsInv, SessionsTypeOK, StartLogout, StartEnable
<1>0. /\ call' \in [Call -> CallState] /\ call'[c].pc = pc
      /\ \A d \in Call : d # c => call'[d] = call[d]
  <2>1. SessionsTypeOK /\ FALSE \in BOOLEAN /\ NoBasis \in Basis
    BY Constants DEF SessionsInv
  <2>2. pc \in {"enable", "verified", "disabled", "leave", "issue"}
    OBVIOUS
  <2>3. PICK pending \in BOOLEAN : Begin(c, b, pc, pending, NoBasis)
    BY <1>1, Zenon
  <2>4. PICK basis \in Basis : Begin(c, b, pc, pending, basis)
    BY <2>1, <2>3, Zenon
  <2> QED
    BY <2>1, <2>2, <2>4, CallBegun
<1>4. SessionsTypeOK'
  BY <1>0, <1>2, <1>3 DEF SessionsInv, SessionsTypeOK
<1>5. CallsProved' /\ CallsCrossed'
  BY <1>0, <1>2, OtherCalls
<1> QED
  BY <1>2, <1>3, <1>4, <1>5, RowsKept, CodesKept DEF SessionsInv

\* A request that ends with the cookies cleared, or dies, or has no answer.
LEMMA EndStep ==
  ASSUME SessionsInv, NEW c \in Call, Logout(c) \/ LoseCall(c)
  PROVE  SessionsInv'
<1>1. /\ call' = [call EXCEPT ![c] = Idle]
      /\ UNCHANGED <<user, made, session, issued, reset, now, won>>
  BY DEF Logout, LoseCall
<1>2. CallsProved' /\ CallsCrossed'
  BY <1>1, Constants, OtherCalls DEF SessionsInv, SessionsTypeOK
<1>3. RowsCrossed'
  BY <1>1 DEF SessionsInv, RowsCrossed, Live
<1>4. \A b \in Browser : jar'[b] = jar[b] \/ jar'[b] = [refresh |-> 0, access |-> None]
  BY DEF SessionsInv, SessionsTypeOK, Logout, LoseCall
<1>5. FullMeansProved'
  BY <1>1, <1>4 DEF SessionsInv, FullMeansProved, Live
<1>6. SessionsTypeOK'
  <2>1. call' \in [Call -> CallState]
    BY <1>1, Constants DEF SessionsInv, SessionsTypeOK
  <2>2. lost' \in 0 .. MaxLost
    BY Constants DEF SessionsInv, SessionsTypeOK, Logout, LoseCall
  <2>3. jar' \in [Browser -> Jar]
    BY SMTT(30), Constants DEF SessionsInv, SessionsTypeOK, Logout, LoseCall, Jar
  <2> QED
    BY <1>1, <2>1, <2>2, <2>3 DEF SessionsInv, SessionsTypeOK
<1> QED
  BY <1>1, <1>2, <1>3, <1>5, <1>6, CodesKept DEF SessionsInv

LEMMA IssueStep ==
  ASSUME SessionsInv, NEW c \in Call, NEW arrives \in BOOLEAN, IssueSession(c, arrives)
  PROVE  SessionsInv'
<1> DEFINE q   == call[c]
           row == [pending |-> q.pending, basis |-> q.basis]
           claims == [pending |-> q.pending, at |-> q.at, basis |-> q.basis]
<1>1. q \in CallState /\ q.pc = "issue"
  BY DEF SessionsInv, SessionsTypeOK, IssueSession
<1>2. row \in TokenRow /\ claims \in Claims
  BY <1>1 DEF CallState, TokenRow, Claims
<1>3. /\ ~q.pending => Proved(q.basis)
      /\ q.at # NoStep => q.basis.proved /\ q.at <= now
      /\ q.basis.password # user.password => q.basis.crossed
  BY <1>1 DEF SessionsInv, CallsProved, CallsCrossed, Opening
<1>4. /\ call' = [call EXCEPT ![c] = Idle]
      /\ UNCHANGED <<user, made, reset, now, won>>
      /\ issued' = issued + 1 /\ issued \in Nat /\ issued + 1 \in 0 .. MaxSessions
  BY Constants DEF SessionsInv, SessionsTypeOK, IssueSession
<1>5. session' = [t \in 1 .. issued + 1 |-> IF t = issued + 1 THEN row ELSE session[t]]
  BY DEF IssueSession
<1> HIDE DEF row
<1>6. /\ session' \in [1 .. issued' -> TokenRow \cup {None}]
      /\ session'[issued + 1] = row
      /\ \A t \in 1 .. issued : session'[t] = session[t]
  BY <1>2, <1>4, <1>5 DEF SessionsInv, SessionsTypeOK
<1>7. /\ jar' \in [Browser -> Jar]
      /\ \A b \in Browser : jar'[b] = jar[b] \/ jar'[b].access = claims
  <2> DEFINE new == [refresh |-> issued + 1, access |-> claims]
  <2>1. new \in Jar /\ new.access = claims
    BY <1>2, <1>4 DEF Jar
  <2>2. jar' = jar \/ jar' = [jar EXCEPT ![q.browser] = new]
    BY DEF IssueSession
  <2>3. q.browser \in Browser
    BY <1>1 DEF CallState
  <2> HIDE DEF q, claims, new
  <2> QED
    BY <2>1, <2>2, <2>3 DEF SessionsInv, SessionsTypeOK
<1>8. \A t \in 1 .. issued' : Live(t)' => t = issued + 1 \/ (t \in 1 .. issued /\ Live(t))
  BY <1>4, <1>6 DEF SessionsInv, SessionsTypeOK, Live
<1>9. SessionsTypeOK'
  <2>1. lost' \in 0 .. MaxLost
    BY Constants DEF SessionsInv, SessionsTypeOK, IssueSession
  <2>2. call' \in [Call -> CallState]
    BY <1>4, Constants DEF SessionsInv, SessionsTypeOK
  <2> QED
    BY <1>4, <1>6, <1>7, <2>1, <2>2 DEF SessionsInv, SessionsTypeOK
<1>10. FullMeansProved'
  <2>1. ASSUME NEW t \in 1 .. issued', Live(t)', ~session'[t].pending
        PROVE  session'[t].basis.off \/ session'[t].basis.proved
    BY <1>3, <1>6, <1>8, <2>1 DEF SessionsInv, FullMeansProved, row, Proved
  <2>2. ASSUME NEW b \in Browser, jar'[b].access # None
        PROVE  /\ ~jar'[b].access.pending => jar'[b].access.basis.off \/ jar'[b].access.basis.proved
               /\ jar'[b].access.at # NoStep => jar'[b].access.basis.proved /\ jar'[b].access.at <= now
    <3>1. CASE jar'[b] = jar[b]
      BY <2>2, <3>1 DEF SessionsInv, FullMeansProved
    <3>2. CASE jar'[b].access = claims
      BY <1>3, <3>2 DEF Proved
    <3> QED
      BY <1>7, <3>1, <3>2
  <2> QED
    BY <1>4, <2>1, <2>2 DEF FullMeansProved
<1>11. RowsCrossed'
  BY <1>3, <1>4, <1>6, <1>8 DEF SessionsInv, RowsCrossed, row
<1>12. CallsProved' /\ CallsCrossed'
  BY <1>4, Constants, OtherCalls DEF SessionsInv, SessionsTypeOK
<1> QED
  BY <1>4, <1>9, <1>10, <1>11, <1>12, CodesKept DEF SessionsInv

LEMMA EnableStep ==
  ASSUME SessionsInv, NEW c \in Call, Enable(c)
  PROVE  SessionsInv'
<1>1. /\ call' = [call EXCEPT ![c] = Idle] /\ made' = made + 1
      /\ UNCHANGED <<session, issued, jar, reset, now, won, lost>>
  BY DEF Enable
<1>2. made \in Nat /\ made + 1 \in 0 .. MaxSecrets /\ made + 1 \in Secret
  BY Constants DEF Enable, SessionsInv, SessionsTypeOK, Secret
<1>3. /\ user' \in User /\ user'.setup = made + 1
      /\ user'.password = user.password /\ user'.secret = user.secret
      /\ user'.lastStep = user.lastStep
  BY <1>2 DEF Enable, SessionsInv, SessionsTypeOK, User
<1>4. SessionsTypeOK'
  BY <1>1, <1>2, <1>3, Constants DEF SessionsInv, SessionsTypeOK
<1>5. CallsProved' /\ CallsCrossed'
  BY <1>1, <1>3, Constants, OtherCalls DEF SessionsInv, SessionsTypeOK
<1>6. FullMeansProved' /\ RowsCrossed'
  BY <1>1, <1>3, RowsKept DEF SessionsInv
<1>7. CodesUsed'
  <2>1. \A k \in won : k[1] \in Int
    BY DEF SessionsInv, SessionsTypeOK, Secret
  <2>2. user.secret \in Int /\ user.setup \in Int
    BY DEF SessionsInv, SessionsTypeOK, User, Secret
  <2> QED
    BY <1>1, <1>2, <1>3, <2>1, <2>2 DEF SessionsInv, CodesUsed
<1> QED
  BY <1>4, <1>5, <1>6, <1>7 DEF SessionsInv

\* A code that is accepted is new: its secret was not used before it was
\* confirmed, and after that its step is later than the last.
LEMMA NewCode ==
  ASSUME SessionsInv, NEW c \in Call, NEW b \in Browser, NEW s \in Step, Verify(c, b, s)
  PROVE  /\ <<Sealed, s>> \notin won
         /\ Sealed \in Secret
         /\ Sealed <= made
<1>1. Sealed \in Secret
  BY DEF Verify, Sealed, SessionsInv, SessionsTypeOK, User
<1>2. <<Sealed, s>> \notin won
  <2>1. CASE user.secret = 0
    BY <2>1 DEF Sealed, SessionsInv, CodesUsed
  <2>2. CASE user.secret # 0
    <3>1. s > user.lastStep /\ s \in Int /\ user.lastStep \in Int
      BY <2>2, Constants DEF Verify, Matches, SessionsInv, SessionsTypeOK, User
    <3> QED
      BY <2>2, <3>1 DEF Sealed, SessionsInv, CodesUsed
  <2> QED
    BY <2>1, <2>2
<1>3. Sealed <= made
  BY DEF Sealed, SessionsInv, CodesUsed
<1> QED
  BY <1>1, <1>2, <1>3

LEMMA VerifyStep ==
  ASSUME SessionsInv, NEW c \in Call, NEW b \in Browser, NEW s \in Step, Verify(c, b, s)
  PROVE  SessionsInv'
<1> DEFINE basis == Carried(b, TRUE)
           code  == <<Sealed, s>>
<1>1. /\ Begin(c, b, "verified", FALSE, basis) /\ won' = won \cup {code}
      /\ UNCHANGED <<made, session, issued, jar, reset, now, lost>>
      /\ jar[b].access # None
  BY DEF Verify
<1>2. /\ basis \in Basis /\ basis.proved
      /\ basis.password # user.password => basis.crossed
  BY <1>1, CarriedBasis DEF SessionsInv
<1>3. Sealed \in Secret /\ Sealed <= made
  BY NewCode
<1>4. /\ user' \in User /\ user'.password = user.password
      /\ user'.secret = Sealed /\ user'.lastStep = s
      /\ user'.setup = IF user.secret = 0 THEN 0 ELSE user.setup
  <2>1. user' = [user EXCEPT !.secret = Sealed, !.lastStep = s,
                             !.setup = IF user.secret = 0 THEN 0 ELSE user.setup]
    BY DEF Verify
  <2> QED
    BY <1>3, <2>1 DEF SessionsInv, SessionsTypeOK, User
<1> HIDE DEF basis
<1>5. /\ call' \in [Call -> CallState] /\ call'[c].pc = "verified" /\ call'[c].basis = basis
      /\ \A d \in Call : d # c => call'[d] = call[d]
  <2>1. SessionsTypeOK /\ FALSE \in BOOLEAN
    BY DEF SessionsInv
  <2> QED
    BY <1>1, <1>2, <2>1, CallBegun
<1>6. SessionsTypeOK'
  BY <1>1, <1>3, <1>4, <1>5 DEF SessionsInv, SessionsTypeOK
<1>7. CallsProved' /\ CallsCrossed'
  BY <1>1, <1>2, <1>4, <1>5, OtherCalls
<1>8. FullMeansProved' /\ RowsCrossed'
  BY <1>1, <1>4, RowsKept DEF SessionsInv
<1>9. CodesUsed'
  <2>1. user'.setup # Sealed /\ user'.secret <= made /\ user'.setup <= made
    BY <1>3, <1>4, Constants DEF Sealed, Secret, SessionsInv, CodesUsed, SessionsTypeOK
  <2>2. ASSUME NEW k \in won
        PROVE  /\ k[1] <= made
               /\ k[1] # user'.setup
               /\ k[1] = user'.secret => k[2] <= s
    <3>1. k[1] <= made /\ k[1] # user.setup /\ k[1] \in Secret /\ k[2] \in Int
      BY Constants DEF SessionsInv, CodesUsed, SessionsTypeOK
    <3>2. CASE user.secret = 0
      BY <1>4, <3>1, <3>2 DEF Sealed, Secret
    <3>3. CASE user.secret # 0
      <4>1. user.lastStep < s /\ s \in Int /\ user.lastStep \in Int
        BY <3>3, Constants DEF Verify, Matches, SessionsInv, SessionsTypeOK, User
      <4> QED
        BY <1>4, <3>1, <3>3, <4>1 DEF Sealed, SessionsInv, CodesUsed
    <3> QED
      BY <3>2, <3>3
  <2>3. code[1] = Sealed /\ code[2] = s /\ s <= s
    BY Constants
  <2> QED
    BY <1>1, <1>3, <1>4, <2>1, <2>2, <2>3 DEF CodesUsed
<1> QED
  BY <1>6, <1>7, <1>8, <1>9 DEF SessionsInv

LEMMA DisableStep ==
  ASSUME SessionsInv, NEW c \in Call, NEW b \in Browser, Disable(c, b)
  PROVE  SessionsInv'
<1> DEFINE basis == Carried(b, FALSE)
<1>1. /\ Begin(c, b, "disabled", FALSE, basis)
      /\ UNCHANGED <<made, session, issued, jar, reset, now, won, lost>>
      /\ jar[b].access # None /\ jar[b].access.at # NoStep
  BY DEF Disable, RecentTwoFactor, FullAccess
<1>2. /\ basis \in Basis /\ Proved(basis)
      /\ basis.password # user.password => basis.crossed
  <2>1. jar[b].access.basis.proved
    BY <1>1 DEF SessionsInv, FullMeansProved
  <2> QED
    BY <1>1, <2>1, CarriedBasis DEF SessionsInv, Proved
<1>3. /\ user' \in User /\ user'.password = user.password
      /\ user'.secret = 0 /\ user'.setup = 0 /\ user'.lastStep = NoStep
  <2>1. user' = [user EXCEPT !.secret = 0, !.setup = 0, !.lastStep = NoStep]
    BY DEF Disable
  <2> QED
    BY <2>1 DEF SessionsInv, SessionsTypeOK, User
<1> HIDE DEF basis
<1>4. /\ call' \in [Call -> CallState] /\ call'[c].pc = "disabled" /\ call'[c].basis = basis
      /\ \A d \in Call : d # c => call'[d] = call[d]
  <2>1. SessionsTypeOK /\ FALSE \in BOOLEAN
    BY DEF SessionsInv
  <2> QED
    BY <1>1, <1>2, <2>1, CallBegun
<1>5. SessionsTypeOK'
  BY <1>1, <1>3, <1>4 DEF SessionsInv, SessionsTypeOK
<1>6. CallsProved' /\ CallsCrossed'
  BY <1>1, <1>2, <1>3, <1>4, OtherCalls
<1>7. FullMeansProved' /\ RowsCrossed'
  BY <1>1, <1>3, RowsKept DEF SessionsInv
<1>8. CodesUsed'
  <2>1. made >= 0 /\ \A k \in won : k[1] # 0
    BY Constants DEF SessionsInv, SessionsTypeOK, Secret
  <2> QED
    BY <1>1, <1>3, <2>1 DEF SessionsInv, CodesUsed
<1> QED
  BY <1>5, <1>6, <1>7, <1>8 DEF SessionsInv

LEMMA ReplaceStep ==
  ASSUME SessionsInv, NEW c \in Call, Replace(c)
  PROVE  SessionsInv'
<1> DEFINE at == IF call[c].pc = "verified" THEN now ELSE NoStep
           q  == [call[c] EXCEPT !.pc = "issue", !.at = at]
<1>1. /\ call' = [call EXCEPT ![c] = q] /\ session' = Ended(call[c].refresh)
      /\ UNCHANGED <<user, made, issued, jar, reset, now, won, lost>>
      /\ call[c].pc \in {"verified", "disabled"}
  BY DEF Replace
<1>2. at \in Step \cup {NoStep} /\ call[c] \in CallState /\ now \in Int
  BY Constants DEF SessionsInv, SessionsTypeOK
<1> HIDE DEF at
<1>3. /\ q \in CallState /\ q.pc = "issue" /\ q.at = at
      /\ q.basis = call[c].basis /\ q.pending = call[c].pending
  BY <1>2 DEF CallState
<1> HIDE DEF q
<1>4. /\ call' \in [Call -> CallState] /\ call'[c] = q
      /\ \A d \in Call : d # c => call'[d] = call[d]
  BY <1>1, <1>3 DEF SessionsInv, SessionsTypeOK
<1>5. /\ Proved(q.basis)
      /\ q.at # NoStep => q.basis.proved /\ q.at <= now
      /\ q.basis.password # user.password => q.basis.crossed
  BY <1>1, <1>2, <1>3 DEF SessionsInv, CallsProved, CallsCrossed, Opening, Proved, at
<1>6. SessionsTypeOK'
  BY <1>1, <1>4, EndedType DEF SessionsInv, SessionsTypeOK
<1>7. CallsProved' /\ CallsCrossed'
  BY <1>1, <1>3, <1>4, <1>5, OtherCalls
<1>8. FullMeansProved' /\ RowsCrossed'
  BY <1>1, EndedType, RowsKept DEF SessionsInv
<1> QED
  BY <1>1, <1>6, <1>7, <1>8, CodesKept DEF SessionsInv

\* The reset deletes every row and marks the requests it finds.
LEMMA ResetStep ==
  ASSUME SessionsInv, ResetPassword
  PROVE  SessionsInv'
<1>1. /\ session' = [t \in DOMAIN session |-> None] /\ call' = Crossing
      /\ UNCHANGED <<made, issued, jar, now, won, lost>>
  BY DEF ResetPassword
<1>2. /\ user' \in User /\ user'.secret = user.secret
      /\ user'.setup = user.setup /\ user'.lastStep = user.lastStep
  <2>1. user.password + 1 \in 0 .. MaxResets /\ user \in User
    BY Constants DEF ResetPassword, SessionsInv, SessionsTypeOK, User
  <2>2. user' = [user EXCEPT !.password = user.password + 1]
    BY DEF ResetPassword
  <2> QED
    BY <2>1, <2>2 DEF User
<1>3. reset' \in ResetCode \cup {None}
  BY DEF ResetPassword, LiveCode, SessionsInv, SessionsTypeOK, ResetCode
<1>4. ASSUME NEW c \in Call
      PROVE  /\ call'[c] \in CallState /\ call'[c].pc = call[c].pc
             /\ call'[c].pending = call[c].pending /\ call'[c].at = call[c].at
             /\ call'[c].basis.off = call[c].basis.off
             /\ call'[c].basis.proved = call[c].basis.proved
             /\ call[c].pc # "idle" => call'[c].basis.crossed
  <2> DEFINE q == call[c]
             marked == [q.basis EXCEPT !.crossed = TRUE]
  <2>1. q \in CallState /\ q.basis \in Basis
    BY DEF SessionsInv, SessionsTypeOK, CallState
  <2>2. /\ marked \in Basis /\ marked.crossed
        /\ marked.off = q.basis.off /\ marked.proved = q.basis.proved
    BY <2>1 DEF Basis
  <2>3. call'[c] = IF q.pc = "idle" THEN q ELSE [q EXCEPT !.basis = marked]
    BY <1>1 DEF Crossing
  <2> HIDE DEF q, marked
  <2>4. CASE q.pc = "idle"
    BY <2>1, <2>3, <2>4 DEF q
  <2>5. CASE q.pc # "idle"
    <3>1. /\ [q EXCEPT !.basis = marked] \in CallState
          /\ [q EXCEPT !.basis = marked].pc = q.pc
          /\ [q EXCEPT !.basis = marked].pending = q.pending
          /\ [q EXCEPT !.basis = marked].at = q.at
          /\ [q EXCEPT !.basis = marked].basis = marked
      BY <2>1, <2>2 DEF CallState
    <3> QED
      BY <2>2, <2>3, <2>5, <3>1 DEF q
  <2> QED
    BY <2>4, <2>5
<1>5. SessionsTypeOK'
  <2>1. call' \in [Call -> CallState]
    BY <1>1, <1>4 DEF Crossing
  <2> QED
    BY <1>1, <1>2, <1>3, <2>1 DEF SessionsInv, SessionsTypeOK
<1>6. CallsProved' /\ CallsCrossed'
  BY <1>1, <1>4 DEF SessionsInv, CallsProved, CallsCrossed, Opening, Proved
<1>7. \A t : ~Live(t)'
  BY <1>1 DEF Live
<1>8. FullMeansProved' /\ RowsCrossed'
  BY <1>1, <1>7 DEF SessionsInv, FullMeansProved, RowsCrossed
<1> QED
  BY <1>1, <1>2, <1>5, <1>6, <1>8, CodesKept DEF SessionsInv

\* Codes that are asked for or tried, cookies that run out, and time.
LEMMA RestStep ==
  ASSUME SessionsInv, \/ Forgot \/ ResetWrong \/ Tick \/ UNCHANGED auth
              \/ \E b \in Browser : AccessExpires(b)
  PROVE  SessionsInv'
<1>1. UNCHANGED <<user, made, session, issued, call, won, lost>>
  BY DEF Forgot, ResetWrong, Tick, AccessExpires, auth
<1>2. reset' \in ResetCode \cup {None}
  <2>1. CASE ResetWrong
    <3>1. /\ reset \in ResetCode /\ reset.tries + 1 \in 0 .. CodeTries
          /\ reset' = [reset EXCEPT !.tries = reset.tries + 1]
      BY <2>1, Constants DEF ResetWrong, LiveCode, ResetCode, SessionsInv, SessionsTypeOK
    <3> QED
      BY <3>1 DEF ResetCode
  <2>2. CASE Forgot
    BY <2>2, Constants DEF Forgot, ResetCode, SessionsInv, SessionsTypeOK
  <2> QED
    BY <2>1, <2>2 DEF Tick, AccessExpires, auth, SessionsInv, SessionsTypeOK
<1>3. now' \in 0 .. MaxStep /\ now <= now' /\ now \in Int
  BY Constants DEF Forgot, ResetWrong, Tick, AccessExpires, auth, SessionsInv, SessionsTypeOK
<1>4. /\ jar' \in [Browser -> Jar]
      /\ \A b \in Browser : jar'[b].access = None \/ jar'[b].access = jar[b].access
  <2>1. CASE UNCHANGED jar
    BY <2>1 DEF SessionsInv, SessionsTypeOK
  <2>2. ASSUME NEW b \in Browser, AccessExpires(b)
        PROVE  /\ jar' \in [Browser -> Jar]
               /\ \A d \in Browser : jar'[d].access = None \/ jar'[d].access = jar[d].access
    <3> DEFINE empty == [jar[b] EXCEPT !.access = None]
    <3>1. empty \in Jar /\ empty.access = None
      BY DEF SessionsInv, SessionsTypeOK, Jar
    <3>2. jar' = [jar EXCEPT ![b] = empty]
      BY <2>2 DEF AccessExpires
    <3> HIDE DEF empty
    <3> QED
      BY <3>1, <3>2 DEF SessionsInv, SessionsTypeOK
  <2> QED
    BY <2>1, <2>2 DEF Forgot, ResetWrong, Tick, auth
<1>5. SessionsTypeOK'
  BY <1>1, <1>2, <1>3, <1>4 DEF SessionsInv, SessionsTypeOK
<1>6. FullMeansProved'
  <2>1. \A b \in Browser : jar[b].access # None => jar[b].access.at \in Int
    BY Constants DEF SessionsInv, SessionsTypeOK, Jar, Claims
  <2> QED
    BY <1>1, <1>3, <1>4, <2>1 DEF SessionsInv, FullMeansProved, Live
<1>7. CallsProved'
  <2>1. \A c \in Call : call[c].at \in Int
    BY Constants DEF SessionsInv, SessionsTypeOK, CallState
  <2> QED
    BY <1>1, <1>3, <2>1 DEF SessionsInv, CallsProved, Proved
<1>8. RowsCrossed' /\ CallsCrossed'
  BY <1>1 DEF SessionsInv, RowsCrossed, CallsCrossed, Opening, Live
<1> QED
  BY <1>1, <1>5, <1>6, <1>7, <1>8, CodesKept DEF SessionsInv

\* The inductive invariant.
THEOREM SessionsInvCorrect == SessionsSpec => []SessionsInv
<1>1. ASSUME SessionsInv, [SessionsNext]_auth
      PROVE  SessionsInv'
  BY <1>1, SignInStep, RefreshStep, LeaveStep, EndStep, IssueStep, EnableStep, VerifyStep,
     DisableStep, ReplaceStep, ResetStep, RestStep
     DEF SessionsNext
<1>2. SessionsInv /\ [SessionsNext]_auth => SessionsInv'
  BY <1>1
<1> QED
  BY SessionsInitInv, <1>2, PTL DEF SessionsSpec

\* "So a refresh can't upgrade the session": however devices, requests and
\* losses interleave, a session or an access cookie that does not wait for a
\* code goes back to two-factor being off or to a code that was accepted.
THEOREM SessionsAreProved == SessionsSpec => []FullMeansProved
<1>1. SessionsInv => FullMeansProved
  BY DEF SessionsInv
<1> QED
  BY SessionsInvCorrect, <1>1, PTL

\* "Sign out every device": a session opened with an older password was
\* carried past the reset by a request under way, or by an access token.
THEOREM ResetsSignOut == SessionsSpec => []ResetSignsOut
<1>1. SessionsInv => ResetSignsOut
  BY DEF SessionsInv, RowsCrossed, ResetSignsOut
<1> QED
  BY SessionsInvCorrect, <1>1, PTL

\* "The same code can't win twice in a race": a code that is accepted was not
\* accepted before, whatever was set up and turned off in between.
THEOREM CodesWinOnce == SessionsSpec => NoCodeTwice
<1> DEFINE Won == (\E c \in Call : call[c].pc # "verified" /\ call'[c].pc = "verified") => won' # won
<1>1. ASSUME SessionsInv, [SessionsNext]_auth, NEW d \in Call, call[d].pc # "verified", call'[d].pc = "verified"
      PROVE  won' # won
  <2>1. ASSUME NEW c \in Call, NEW b \in Browser, NEW s \in Step, Verify(c, b, s)
        PROVE  won' # won
    BY <1>1, <2>1, NewCode DEF Verify
  <2>2. ASSUME NEW c \in Call, NEW b \in Browser, NEW pc \in {"enable", "disabled", "leave", "issue"},
               NEW pending, NEW basis, Begin(c, b, pc, pending, basis)
        PROVE  FALSE
    BY <1>1, <2>2 DEF Begin, SessionsInv, SessionsTypeOK
  <2>3. ASSUME NEW c \in Call, call' = [call EXCEPT ![c] = Idle] \/ Replace(c)
        PROVE  FALSE
    <3>1. CASE call' = [call EXCEPT ![c] = Idle]
      BY <1>1, <3>1, Constants DEF SessionsInv, SessionsTypeOK
    <3>2. CASE Replace(c)
      BY <1>1, <3>2 DEF Replace, SessionsInv, SessionsTypeOK, CallState
    <3> QED
      BY <2>3, <3>1, <3>2
  <2>4. CASE ResetPassword
    <3>1. call'[d].pc = call[d].pc
      BY <2>4 DEF ResetPassword, Crossing, SessionsInv, SessionsTypeOK, CallState
    <3> QED
      BY <1>1, <3>1
  <2>5. CASE UNCHANGED call
    BY <1>1, <2>5
  <2> QED
    BY <1>1, <2>1, <2>2, <2>3, <2>4, <2>5
       DEF SessionsNext, SignIn, Refresh, StartLogout, StartEnable, Disable, Logout, Enable,
           LoseCall, IssueSession, AccessExpires, Forgot, ResetWrong, Tick, auth
<1>2. SessionsInv /\ [SessionsNext]_auth => [Won]_auth
  BY <1>1
<1> QED
  BY SessionsInvCorrect, <1>2, PTL DEF SessionsSpec, NoCodeTwice

(***************************************************************************)
(* Addresses: who has an address can read its mail.  A code goes to one    *)
(* address, so who knows it reads there.                                   *)
(***************************************************************************)

\* Codes are numbered as they are sent; each goes to one address, that of a
\* change to the one the change is to.
CodesMailed ==
  /\ \A m \in mailed : m[1] <= sent
  /\ \A m, n \in mailed : m[1] = n[1] => m = n
  /\ \A p \in Person : change[p] # NoAddress => <<change[p].code, change[p].to>> \in mailed

\* Whoever has an address that is not the one of the sign-up reads its mail.
ReadByOwner == \A p \in Person : email[p] \notin {NoAddress, signed[p]} => ReaderOf[email[p]] = p

\* No two users have one address.
OwnedByOne == \A p, q \in Person : email[p] = email[q] /\ email[p] # NoAddress => p = q

AddressesInv == AddressesTypeOK /\ CodesMailed /\ ReadByOwner /\ OwnedByOne

LEMMA AddressesInitInv == AddressesInit => AddressesInv
  BY ChangeAssumption
     DEF AddressesInit, AddressesInv, AddressesTypeOK, CodesMailed, ReadByOwner, OwnedByOne

\* A request that sends no code changes at most one user's change, and only to
\* one with the code and the address it had, or to none.
LEMMA SameCodes ==
  ASSUME CodesMailed, UNCHANGED <<mailed, sent>>,
         \A p \in Person : change'[p] = NoAddress
                             \/ /\ change[p] # NoAddress
                                /\ change'[p].code = change[p].code
                                /\ change'[p].to = change[p].to
  PROVE  CodesMailed'
  BY DEF CodesMailed

\* What is left of AddressProved: of a code and its address.
LEMMA AddressesInvImplies == AddressesInv => AddressProved
<1> SUFFICES ASSUME AddressesInv, NEW p \in Person, NEW a \in Address,
                    change[p] # NoAddress, <<change[p].code, a>> \in mailed
             PROVE  a = change[p].to
  BY DEF AddressesInv, AddressProved, ReadByOwner, OwnedByOne
<1>1. <<change[p].code, a>> = <<change[p].code, change[p].to>>
  BY DEF AddressesInv, CodesMailed
<1> QED
  BY <1>1

LEMMA SignUpStep ==
  ASSUME AddressesInv, NEW p \in Person, NEW a \in Address, SignUp(p, a)
  PROVE  AddressesInv'
<1> USE DEF AddressesInv, AddressesTypeOK, ReadByOwner, OwnedByOne
<1>1. AddressesTypeOK'
  BY DEF SignUp
<1>2. CodesMailed'
  BY SameCodes DEF SignUp
<1>3. \A q \in Person : email'[q] \notin {NoAddress, signed'[q]} => ReaderOf[email'[q]] = q
  BY DEF SignUp
<1>4. \A q, r \in Person : email'[q] = email'[r] /\ email'[q] # NoAddress => q = r
  BY DEF SignUp, Taken
<1> QED
  BY <1>1, <1>2, <1>3, <1>4 DEF SignUp

LEMMA StartStep ==
  ASSUME AddressesInv, NEW p \in Person, NEW a \in Address, StartChange(p, a)
  PROVE  AddressesInv'
<1> USE DEF AddressesInv, AddressesTypeOK, ReadByOwner, OwnedByOne
<1> DEFINE row == [to |-> a, code |-> sent + 1, attempts |-> 0, at |-> clock]
<1>1. row \in Change /\ sent + 1 \in 1 .. MaxCodes
  BY ChangeAssumption DEF StartChange, MayStart, Change
<1>2. change' = [change EXCEPT ![p] = row] /\ mailed' = mailed \cup {<<sent + 1, a>>} /\ sent' = sent + 1
  BY DEF StartChange, Started, Mail
<1>3. AddressesTypeOK'
  BY <1>1, <1>2, ChangeAssumption DEF StartChange
<1>4. CodesMailed'
  <2>1. \A m \in mailed' : m[1] <= sent'
    BY <1>2, ChangeAssumption DEF CodesMailed
  <2>2. \A m \in mailed : m[1] # sent + 1
    BY ChangeAssumption DEF CodesMailed
  <2>3. \A m, n \in mailed' : m[1] = n[1] => m = n
    BY <1>2, <2>2 DEF CodesMailed
  <2>4. \A q \in Person : change'[q] # NoAddress => <<change'[q].code, change'[q].to>> \in mailed'
    BY <1>2 DEF CodesMailed
  <2> QED
    BY <2>1, <2>3, <2>4 DEF CodesMailed
<1>5. UNCHANGED <<email, signed>>
  BY DEF StartChange
<1> QED
  BY <1>3, <1>4, <1>5

LEMMA ConfirmStep ==
  ASSUME AddressesInv, NEW p \in Person, ConfirmChange(p)
  PROVE  AddressesInv'
<1> USE DEF AddressesInv, AddressesTypeOK, ReadByOwner, OwnedByOne
<1> DEFINE to == change[p].to
<1>1. change[p] \in Change /\ to \in Address
  BY DEF ConfirmChange, LiveChange, Change
<1>2. ReaderOf[to] = p
  <2>1. PICK a \in Address : ReaderOf[a] = p /\ <<change[p].code, a>> \in mailed
    BY DEF ConfirmChange
  <2>2. <<change[p].code, a>> = <<change[p].code, to>>
    BY <2>1 DEF ConfirmChange, LiveChange, CodesMailed
  <2> QED
    BY <2>1, <2>2
<1>3. AddressesTypeOK'
  BY <1>1 DEF ConfirmChange
<1>4. CodesMailed'
  BY SameCodes DEF ConfirmChange
<1>5. \A q \in Person : email'[q] \notin {NoAddress, signed'[q]} => ReaderOf[email'[q]] = q
  BY <1>2 DEF ConfirmChange
<1>6. \A q, r \in Person : email'[q] = email'[r] /\ email'[q] # NoAddress => q = r
  BY DEF ConfirmChange, Taken
<1> QED
  BY <1>3, <1>4, <1>5, <1>6 DEF ConfirmChange

LEMMA WrongStep ==
  ASSUME AddressesInv, NEW p \in Person, WrongCode(p)
  PROVE  AddressesInv'
<1> USE DEF AddressesInv, AddressesTypeOK, ReadByOwner, OwnedByOne
<1>1. /\ change[p] \in Change /\ change[p] # NoAddress
      /\ change[p].attempts + 1 \in 0 .. ChangeTries
  BY ChangeAssumption DEF WrongCode, LiveChange, Change
<1> DEFINE row == [change[p] EXCEPT !.attempts = change[p].attempts + 1]
<1>2. row \in Change /\ row.code = change[p].code /\ row.to = change[p].to
  BY <1>1 DEF Change
<1>3. change' = [change EXCEPT ![p] = row]
  BY DEF WrongCode
<1> HIDE DEF row
<1>4. AddressesTypeOK'
  BY <1>2, <1>3 DEF WrongCode
<1>5. CodesMailed'
  BY <1>1, <1>2, <1>3, SameCodes DEF WrongCode
<1> QED
  BY <1>1, <1>2, <1>3, <1>4, <1>5 DEF WrongCode

\* "The email doesn't change yet": whoever has an address that is not the one
\* of the sign-up can read its mail; no two users have one address; a code
\* belongs to the address it was sent to.  For any users, addresses and codes.
THEOREM AddressesProved == AddressesSpec => []AddressProved
<1>1. AddressesInv /\ [AddressesNext]_addresses => AddressesInv'
  <2> SUFFICES ASSUME AddressesInv, [AddressesNext]_addresses PROVE AddressesInv'
    OBVIOUS
  <2>1. ASSUME NEW p \in Person, CancelChange(p)
        PROVE  AddressesInv'
    BY <2>1, SameCodes DEF AddressesInv, AddressesTypeOK, ReadByOwner, OwnedByOne, CancelChange
  <2>2. CASE PassTime
    BY <2>2, SameCodes, ChangeAssumption DEF AddressesInv, AddressesTypeOK, ReadByOwner, OwnedByOne, PassTime
  <2>3. CASE UNCHANGED addresses
    BY <2>3, SameCodes DEF AddressesInv, AddressesTypeOK, ReadByOwner, OwnedByOne, addresses
  <2> QED
    BY <2>1, <2>2, <2>3, SignUpStep, StartStep, ConfirmStep, WrongStep DEF AddressesNext
<1> QED
  BY AddressesInitInv, AddressesInvImplies, <1>1, PTL DEF AddressesSpec

(***************************************************************************)
(* Identity: what a verified name is.                                      *)
(***************************************************************************)

\* The submissions are numbered, one at most is undecided or approved, the
\* status tells which, and verdicts are under way of pending ones alone.
StatusTells ==
  /\ kyc = "verified" <=> With("approved") # {}
  /\ kyc = "pending"  <=> With("pending") # {}
  /\ \A n, m \in With("pending") \cup With("approved") : n = m
  /\ timer \subseteq With("pending")

\* An edit that read the status after the last submission read one that let
\* it through.
EditsSeen ==
  \A d \in Editor :
    /\ edit[d].seen <= Made
    /\ edit[d].busy /\ edit[d].fields # {} /\ edit[d].seen = Made =>
         With("pending") \cup With("approved") = {}

\* The name is the approved one, but for what late edits wrote.
NameApproved ==
  \A n \in With("approved"), f \in Field \ overtaken : profile[f] = submission[n].legal[f]

IdentityInv == IdentityTypeOK /\ StatusTells /\ EditsSeen /\ NameApproved

LEMMA IdentityInitInv == IdentityInit => IdentityInv
<1> SUFFICES ASSUME IdentityInit PROVE IdentityInv
  OBVIOUS
<1>1. DOMAIN submission = {} /\ submission = [n \in {} |-> {}]
  BY DEF IdentityInit
<1>2. Made = 0 /\ 1 .. 0 = {}
  BY <1>1, FS_EmptySet DEF Made
<1>3. \A status : With(status) = {}
  BY <1>1 DEF With
<1>4. IdentityTypeOK
  <2>1. PICK v \in Value : profile = [f \in Field |-> v]
    BY DEF IdentityInit
  <2>2. NoEdit \in Edit
    BY <2>1, SubmissionsAssumption DEF NoEdit, Edit
  <2> QED
    BY <1>1, <1>2, <2>1, <2>2, SubmissionsAssumption DEF IdentityInit, IdentityTypeOK, Legal
<1> QED
  BY <1>2, <1>3, <1>4 DEF IdentityInit, IdentityInv, StatusTells, EditsSeen, NameApproved, NoEdit

LEMMA SubmitStep ==
  ASSUME IdentityInv, NEW legal \in Legal, NEW started \in BOOLEAN, SubmitKyc(legal, started)
  PROVE  IdentityInv'
<1> USE DEF IdentityInv, IdentityTypeOK
<1> DEFINE new == [legal |-> legal, status |-> "pending"]
<1>1. Made \in Nat /\ DOMAIN submission = 1 .. Made
  BY SubmissionsAssumption
<1>2. new \in Submission
  BY DEF Submission
<1>3. /\ DOMAIN submission' = 1 .. Made + 1
      /\ submission' \in [1 .. Made + 1 -> Submission]
      /\ submission'[Made + 1] = new
      /\ \A n \in 1 .. Made : submission'[n] = submission[n]
  <2> HIDE DEF new
  <2>1. submission' = [n \in 1 .. Made + 1 |-> IF n <= Made THEN submission[n] ELSE new]
    BY DEF SubmitKyc, new
  <2> QED
    BY <1>1, <1>2, <2>1
<1>4. Made' = Made + 1
  <2>1. Cardinality(1 .. Made + 1) = Made + 1
    BY <1>1, FS_Interval
  <2> QED
    BY <1>3, <2>1 DEF Made
<1>5. With("pending") = {} /\ With("approved") = {} /\ kyc' = "pending"
  BY DEF SubmitKyc, StatusTells
<1>6. With("approved")' = {}
  BY <1>1, <1>3, <1>5 DEF With
<1>7. With("pending")' = {Made + 1}
  BY <1>1, <1>3, <1>5 DEF With
<1>8. IdentityTypeOK'
  <2>1. Made' \in 0 .. MaxSubmissions
    BY <1>1, <1>4, SubmissionsAssumption DEF SubmitKyc
  <2>2. timer' \subseteq 1 .. Made + 1
    BY <1>1 DEF SubmitKyc
  <2> QED
    BY <1>3, <1>4, <2>1, <2>2 DEF SubmitKyc
<1>9. StatusTells'
  <2>1. timer' \subseteq {Made + 1}
    BY <1>5 DEF SubmitKyc, StatusTells
  <2> QED
    BY <1>5, <1>6, <1>7, <2>1 DEF StatusTells
<1>10. EditsSeen'
  BY <1>1, <1>4 DEF SubmitKyc, EditsSeen, Edit
<1> QED
  BY <1>6, <1>8, <1>9, <1>10 DEF NameApproved

\* What a verdict does to the submissions.
LEMMA DecidedStep ==
  ASSUME IdentityInv, NEW n \in DOMAIN submission, NEW approved \in BOOLEAN, ApplyKycDecision(n, approved)
  PROVE  /\ DOMAIN submission' = DOMAIN submission
         /\ submission' \in [DOMAIN submission -> Submission]
         /\ With("pending") = {n} /\ With("approved") = {}
         /\ With("pending")' = {}
         /\ With("approved")' = IF approved THEN {n} ELSE {}
         /\ submission'[n].legal = submission[n].legal
         /\ timer' = {}
<1> USE DEF IdentityInv, IdentityTypeOK
<1>1. n \in timer /\ timer' = timer \ {n}
  BY DEF ApplyKycDecision
<1>2. With("pending") = {n} /\ With("approved") = {}
  <2>1. n \in With("pending") /\ submission[n].status = "pending"
    BY <1>1 DEF StatusTells, With
  <2>2. With("pending") = {n}
    BY <2>1 DEF StatusTells
  <2>3. n \notin With("approved")
    BY <2>1 DEF With
  <2> QED
    BY <2>1, <2>2, <2>3 DEF StatusTells
<1>3. PICK st \in {"approved", "rejected"} :
        /\ submission' = [submission EXCEPT ![n] = [submission[n] EXCEPT !.status = st]]
        /\ st = "approved" <=> approved
  BY DEF ApplyKycDecision
<1>4. submission[n] \in Submission /\ submission \in [DOMAIN submission -> Submission]
  OBVIOUS
<1>5. /\ [submission[n] EXCEPT !.status = st] \in Submission
      /\ [submission[n] EXCEPT !.status = st].status = st
      /\ [submission[n] EXCEPT !.status = st].legal = submission[n].legal
  BY <1>4 DEF Submission
<1>6. /\ DOMAIN submission' = DOMAIN submission
      /\ submission' \in [DOMAIN submission -> Submission]
      /\ submission'[n].status = st /\ submission'[n].legal = submission[n].legal
      /\ \A m \in DOMAIN submission : m # n => submission'[m] = submission[m]
  BY <1>3, <1>4, <1>5
<1>7. With("pending")' = {}
  BY <1>2, <1>6 DEF With
<1>8. With("approved")' = IF st = "approved" THEN {n} ELSE {}
  BY <1>2, <1>6 DEF With
<1>9. timer' = {}
  BY <1>1, <1>2 DEF StatusTells
<1> QED
  BY <1>2, <1>3, <1>6, <1>7, <1>8, <1>9

LEMMA DecisionStep ==
  ASSUME IdentityInv, NEW n \in DOMAIN submission, NEW approved \in BOOLEAN, ApplyKycDecision(n, approved)
  PROVE  IdentityInv'
<1> USE DEF IdentityInv, IdentityTypeOK
<1>1. Made' = Made
  BY DecidedStep DEF Made
<1>2. submission[n] \in Submission /\ submission[n].legal \in Legal
  BY DEF Submission
<1>3. IdentityTypeOK'
  BY <1>1, <1>2, DecidedStep DEF ApplyKycDecision
<1>4. StatusTells'
  BY DecidedStep DEF ApplyKycDecision, StatusTells
<1>5. EditsSeen'
  <2>1. \A d \in Editor : edit[d].busy /\ edit[d].fields # {} => edit[d].seen # Made
    BY DecidedStep DEF EditsSeen
  <2> QED
    BY <1>1, <2>1 DEF ApplyKycDecision, EditsSeen
<1>6. NameApproved'
  BY ZenonT(60), DecidedStep DEF ApplyKycDecision, NameApproved
<1> QED
  BY <1>3, <1>4, <1>5, <1>6

LEMMA EditStep ==
  ASSUME IdentityInv, NEW d \in Editor,
         \/ \E fields \in SUBSET Field, value \in Value : CheckEdit(d, fields, value)
         \/ WriteEdit(d) \/ LoseEdit(d)
  PROVE  IdentityInv'
<1> USE DEF IdentityInv, IdentityTypeOK
<1>1. UNCHANGED <<kyc, submission, timer>>
  BY DEF CheckEdit, Begun, WriteEdit, LoseEdit
<1>2. /\ Made' = Made /\ StatusTells'
      /\ With("pending")' = With("pending") /\ With("approved")' = With("approved")
  BY <1>1 DEF Made, With, StatusTells
<1>3. edit[d] \in Edit /\ edit[d].fields \subseteq Field /\ edit[d].value \in Value
  BY DEF Edit
<1>4. NoEdit \in Edit /\ ~NoEdit.busy /\ NoEdit.seen <= Made
  BY <1>3, SubmissionsAssumption DEF NoEdit, Edit
<1>5. ASSUME NEW fields \in SUBSET Field, NEW value \in Value, CheckEdit(d, fields, value)
      PROVE  IdentityInv'
  <2> DEFINE e == [busy |-> TRUE, fields |-> fields, value |-> value, seen |-> Made]
  <2>1. e \in Edit /\ edit' = [edit EXCEPT ![d] = e] /\ UNCHANGED <<profile, overtaken>>
    BY <1>5 DEF CheckEdit, Begun, Edit
  <2>2. fields # {} => With("pending") \cup With("approved") = {}
    BY <1>5 DEF CheckEdit, StatusTells
  <2>3. edit' \in [Editor -> Edit]
    BY <2>1
  <2>4. EditsSeen'
    BY <1>2, <2>1, <2>2 DEF EditsSeen
  <2> QED
    BY <1>1, <1>2, <2>1, <2>3, <2>4 DEF NameApproved
<1>6. CASE LoseEdit(d)
  <2>1. edit' = [edit EXCEPT ![d] = NoEdit] /\ UNCHANGED <<profile, overtaken>>
    BY <1>6 DEF LoseEdit
  <2>2. edit' \in [Editor -> Edit]
    BY <1>4, <2>1
  <2>3. EditsSeen'
    BY <1>2, <1>4, <2>1 DEF EditsSeen
  <2> QED
    BY <1>1, <1>2, <2>1, <2>2, <2>3 DEF NameApproved
<1>7. CASE WriteEdit(d)
  <2>1. edit' = [edit EXCEPT ![d] = NoEdit]
    BY <1>7 DEF WriteEdit
  <2>2. edit' \in [Editor -> Edit]
    BY <1>4, <2>1
  <2>3. EditsSeen'
    BY <1>2, <1>4, <2>1 DEF EditsSeen
  <2>4. profile' \in Legal /\ overtaken' \subseteq Field
    BY <1>3, <1>7 DEF WriteEdit, Legal
  <2>5. NameApproved'
    <3> SUFFICES ASSUME NEW n \in With("approved"), NEW f \in Field \ overtaken'
                 PROVE  profile'[f] = submission[n].legal[f]
      BY <1>1, <1>2 DEF NameApproved
    <3>1. kyc = "verified" /\ f \notin overtaken
      BY <1>7 DEF WriteEdit, StatusTells
    <3>2. f \notin edit[d].fields
      <4>1. edit[d].seen = Made => edit[d].fields = {}
        BY <1>7 DEF WriteEdit, EditsSeen
      <4>2. edit[d].seen <= Made
        BY DEF EditsSeen
      <4> QED
        BY <1>3, <1>7, <3>1, <4>1, <4>2, SubmissionsAssumption DEF WriteEdit, Edit
    <3>3. profile'[f] = profile[f]
      BY <1>7, <3>2 DEF WriteEdit
    <3> QED
      BY <3>1, <3>3 DEF NameApproved
  <2> QED
    BY <1>1, <1>2, <2>2, <2>3, <2>4, <2>5
<1> QED
  BY <1>5, <1>6, <1>7

\* A verified user has one approved submission and the name on it, but for
\* what an edit wrote that had read the status before; "the row lock stops two
\* quick taps both getting through".  For any fields, edits and submissions.
THEOREM NamesAreVerified == IdentitySpec => []NameIsVerified
<1>1. IdentityInv /\ [IdentityNext]_identity => IdentityInv'
  <2> SUFFICES ASSUME IdentityInv, [IdentityNext]_identity PROVE IdentityInv'
    OBVIOUS
  <2>1. ASSUME NEW n \in DOMAIN submission, LoseVerdict(n)
        PROVE  IdentityInv'
    BY <2>1 DEF LoseVerdict, IdentityInv, IdentityTypeOK, StatusTells, EditsSeen, NameApproved, With, Made
  <2>2. CASE UNCHANGED identity
    BY <2>2 DEF identity, IdentityInv, IdentityTypeOK, StatusTells, EditsSeen, NameApproved, With, Made
  <2> QED
    BY <2>1, <2>2, SubmitStep, DecisionStep, EditStep DEF IdentityNext
<1>2. IdentityInv => NameIsVerified
  <2> SUFFICES ASSUME IdentityInv PROVE NameIsVerified
    OBVIOUS
  <2> DEFINE open == With("pending") \cup With("approved")
  <2>1. Cardinality(open) <= 1
    <3>1. CASE open = {}
      BY <3>1, FS_EmptySet
    <3>2. CASE open # {}
      <4>1. PICK n : open = {n}
        BY <3>2 DEF IdentityInv, StatusTells
      <4> QED
        BY <4>1, FS_Singleton
    <3> QED
      BY <3>1, <3>2
  <2> QED
    BY <2>1 DEF IdentityInv, StatusTells, NameApproved, NameIsVerified
<1> QED
  BY IdentityInitInv, <1>1, <1>2, PTL DEF IdentitySpec

(***************************************************************************)
(* Accounts.  Two arguments that do not meet: what a wallet is needed for  *)
(* (Kept) and the user's lock (Locked), under which what a request has     *)
(* looked at stays so until it inserts.                                    *)
(***************************************************************************)

\* The claims whose wallet was read while it was open: on a wallet that has
\* closed since there is one only if it came late, and no withdrawal.
Kept ==
  \A h \in Claim : claim[h].pc # "none" =>
    /\ claim[h].on \in Row
    /\ claim[h].pc = "checked" => claim[h].use # "withdrawal"
    /\ claim[h].pc = "defaulted" => claim[h].use = "loan"
    /\ claim[h].pc \in {"checked", "live", "defaulted"} /\ ~IsOpen(claim[h].on) =>
         h \in late /\ claim[h].use # "withdrawal"

\* Where a request stands, it holds the lock, and what it has found is so.
Locked ==
  \A x \in Opener :
    /\ opener[x].pc \in {"locked", "insert"} =>
         userLock = x /\ opener[x].what \in Kind \cup Bank
    /\ opener[x].pc = "insert" => MayAdd(opener[x].what)
    /\ opener[x].pc \in {"ask", "store"} => opener[x].what \in Row
    /\ opener[x].pc = "store" => opener[x].number \in 1 .. MaxNumbers

OneWallet ==
  \A r, q \in Row : IsOpen(r) /\ IsOpen(q) /\ wallet[r].kind = wallet[q].kind => r = q

FewBanks == IsFiniteSet(saved) /\ Cardinality(saved) <= MaxBanks

ToldOnce == \A r \in Row, n \in 1 .. MaxNumbers : <<r, n>> \in told => number[r] = n

AccountsInv == AccountsTypeOK /\ Kept /\ Locked /\ OneWallet /\ FewBanks /\ ToldOnce

\* The kinds of steps: under the user's lock, for a number, about what a wallet
\* is needed for, and of its status.
OpeningStep ==
  \E x \in Opener : (\E what \in Kind \cup Bank : LockUser(x, what)) \/ Look(x) \/ Insert(x)

NumberStep ==
  \E x \in Opener : (\E r \in Row : AskNumber(x, r)) \/ GiveNumber(x) \/ StoreNumber(x)

ClaimStep ==
  \E h \in Claim : \/ Commit(h) \/ Default(h) \/ End(h)
                   \/ \E use \in Use, r \in Row : CheckWallet(h, use, r)

StatusStep == \E r \in Row : Freeze(r) \/ Unfreeze(r) \/ Close(r)

LEMMA AccountsStepKinds ==
  ASSUME [AccountsNext]_accounts
  PROVE  \/ OpeningStep \/ NumberStep \/ ClaimStep \/ StatusStep
         \/ \E x \in Opener : GiveUp(x)
         \/ \E b \in Bank : RemoveBank(b)
         \/ UNCHANGED accounts
  BY InvestmentAssumption
     DEF AccountsNext, OpeningStep, NumberStep, ClaimStep, StatusStep,
         OpenAccount, EnsureInvestmentWallet, SaveBankAccount

LEMMA AccountsInitInv == AccountsInit => AccountsInv
<1> SUFFICES ASSUME AccountsInit PROVE AccountsInv
  OBVIOUS
<1> USE DEF AccountsInit
<1>1. AccountsTypeOK
  BY BanksAssumption DEF AccountsTypeOK, OpenerRow, NoOpener, ClaimRow, Use
<1>2. Kept /\ Locked /\ OneWallet /\ ToldOnce
  BY DEF Kept, Locked, OneWallet, ToldOnce, NoOpener, IsOpen
<1>3. FewBanks
  BY FS_EmptySet, BanksAssumption DEF FewBanks
<1> QED
  BY <1>1, <1>2, <1>3 DEF AccountsInv

\* The lock is needed for the types: what is inserted is what was looked for.
LEMMA AccountsTypeStep ==
  ASSUME AccountsTypeOK, Locked, [AccountsNext]_accounts
  PROVE  AccountsTypeOK'
<1> USE DEF AccountsTypeOK
<1>1. ASSUME NEW x \in Opener, NEW pc \in {"idle", "locked", "insert", "ask", "store"},
             NEW what \in Kind \cup Bank \cup Row \cup {NoOne}, At(x, pc, what)
      PROVE  opener' \in [Opener -> OpenerRow]
  BY <1>1, BanksAssumption DEF At, OpenerRow
<1>2. ASSUME NEW x \in Opener, Leave(x)
      PROVE  opener' \in [Opener -> OpenerRow] /\ userLock' \in Opener \cup {NoOne}
  BY <1>2, BanksAssumption DEF Leave, OpenerRow, NoOpener
<1>3. CASE OpeningStep
  <2>1. ASSUME NEW x \in Opener, NEW what \in Kind \cup Bank, LockUser(x, what)
        PROVE  AccountsTypeOK'
    BY <2>1, <1>1 DEF LockUser, giving, holding
  <2>2. ASSUME NEW x \in Opener, Look(x)
        PROVE  AccountsTypeOK'
    BY <2>2, <1>1, <1>2 DEF Look, OpenerRow, giving, holding
  <2>3. ASSUME NEW x \in Opener, Insert(x)
        PROVE  AccountsTypeOK'
    BY <2>3, <1>2 DEF Insert, Locked, WalletRow, giving, holding
  <2> QED
    BY <1>3, <2>1, <2>2, <2>3 DEF OpeningStep
<1>4. CASE NumberStep
  <2>1. ASSUME NEW x \in Opener, NEW r \in Row, AskNumber(x, r)
        PROVE  AccountsTypeOK'
    <3>1. opener' \in [Opener -> OpenerRow]
      BY <2>1, <1>1 DEF AskNumber
    <3>2. told' \subseteq Row \X (1 .. MaxNumbers)
      BY <2>1, BanksAssumption DEF AskNumber
    <3> QED
      BY <2>1, <3>1, <3>2 DEF AskNumber, holding
  <2>2. ASSUME NEW x \in Opener, GiveNumber(x)
        PROVE  AccountsTypeOK'
    <3>1. numbers' \in 0 .. MaxNumbers /\ numbers + 1 \in 0 .. MaxNumbers
      BY <2>2, BanksAssumption DEF GiveNumber
    <3>2. opener' \in [Opener -> OpenerRow]
      BY <2>2, <3>1 DEF GiveNumber, OpenerRow
    <3> QED
      BY <2>2, <3>1, <3>2 DEF GiveNumber, holding
  <2>3. ASSUME NEW x \in Opener, StoreNumber(x)
        PROVE  AccountsTypeOK'
    <3>1. opener[x].what \in Row /\ opener[x].number \in 1 .. MaxNumbers
      BY <2>3 DEF StoreNumber, Locked
    <3>2. number' \in [Row -> 0 .. MaxNumbers] /\ number'[opener[x].what] \in 1 .. MaxNumbers
      BY <2>3, <3>1, BanksAssumption DEF StoreNumber
    <3>3. told' \subseteq Row \X (1 .. MaxNumbers)
      BY <2>3, <3>1, <3>2 DEF StoreNumber
    <3> QED
      BY <2>3, <1>2, <3>2, <3>3 DEF StoreNumber, holding
  <2> QED
    BY <1>4, <2>1, <2>2, <2>3 DEF NumberStep
<1>5. CASE ClaimStep
  <2>1. ASSUME NEW h \in Claim, NEW use \in Use, NEW r \in Row, CheckWallet(h, use, r)
        PROVE  AccountsTypeOK'
    BY <2>1 DEF CheckWallet, ClaimRow, opening, giving
  <2>2. ASSUME NEW h \in Claim, Commit(h) \/ Default(h) \/ End(h)
        PROVE  AccountsTypeOK'
    BY <2>2 DEF Commit, Default, End, ClaimRow, opening, giving
  <2> QED
    BY <1>5, <2>1, <2>2 DEF ClaimStep
<1>6. CASE StatusStep
  <2>1. ASSUME NEW r \in Row, NEW st \in {"active", "frozen", "closed"}, wallet[r] # NoOne,
               SetStatus(r, st)
        PROVE  wallet' \in [Row -> WalletRow \cup {NoOne}]
    BY <2>1 DEF SetStatus, WalletRow
  <2>2. ASSUME NEW r \in Row, Freeze(r) \/ Unfreeze(r) \/ Close(r)
        PROVE  AccountsTypeOK'
    BY <2>2, <2>1 DEF Freeze, Unfreeze, Close, Is, IsOpen, SetStatus, ClaimsOn, giving
  <2> QED
    BY <1>6, <2>2 DEF StatusStep
<1>7. CASE \E x \in Opener : GiveUp(x)
  BY <1>7, <1>2 DEF GiveUp, giving, holding
<1>8. CASE \E b \in Bank : RemoveBank(b)
  BY <1>8 DEF RemoveBank, giving, holding
<1>9. CASE UNCHANGED accounts
  BY <1>9 DEF accounts, opening, giving, holding
<1> QED
  BY <1>3, <1>4, <1>5, <1>6, <1>7, <1>8, <1>9, AccountsStepKinds

\* A wallet stays open in any step but the one that closes it.
LEMMA StaysOpen ==
  ASSUME AccountsTypeOK, [AccountsNext]_accounts, NEW r \in Row, IsOpen(r), ~IsOpen(r)'
  PROVE  Close(r)
<1> USE DEF AccountsTypeOK, IsOpen
<1>1. CASE OpeningStep
  BY <1>1 DEF OpeningStep, LockUser, Look, Insert
<1>2. CASE NumberStep
  BY <1>2 DEF NumberStep, AskNumber, GiveNumber, StoreNumber
<1>3. CASE ClaimStep
  BY <1>3 DEF ClaimStep, Commit, Default, End, CheckWallet, opening
<1>4. CASE StatusStep
  <2>1. ASSUME NEW q \in Row, Freeze(q) \/ Unfreeze(q)
        PROVE  FALSE
    BY <2>1, NoOneAssumption DEF Freeze, Unfreeze, SetStatus, Is, WalletRow
  <2>2. ASSUME NEW q \in Row, Close(q)
        PROVE  q = r
    BY <2>2 DEF Close, SetStatus
  <2> QED
    BY <1>4, <2>1, <2>2 DEF StatusStep
<1>5. CASE (\E x \in Opener : GiveUp(x)) \/ (\E b \in Bank : RemoveBank(b))
  BY <1>5 DEF GiveUp, RemoveBank
<1>6. CASE UNCHANGED accounts
  BY <1>6 DEF accounts, opening
<1> QED
  BY <1>1, <1>2, <1>3, <1>4, <1>5, <1>6, AccountsStepKinds

\* What wallets are needed for.
LEMMA KeptStep ==
  ASSUME AccountsTypeOK, Kept, [AccountsNext]_accounts
  PROVE  Kept'
<1> USE DEF AccountsTypeOK
<1>1. CASE ClaimStep
  <2>1. ASSUME NEW h \in Claim, NEW use \in Use, NEW r \in Row, CheckWallet(h, use, r)
        PROVE  Kept'
    BY <2>1 DEF CheckWallet, Kept, Is, IsOpen, ClaimRow, opening
  <2>2. ASSUME NEW h \in Claim, Commit(h) \/ Default(h) \/ End(h)
        PROVE  Kept'
    BY <2>2 DEF Commit, Default, End, Kept, IsOpen, ClaimRow, opening
  <2> QED
    BY <1>1, <2>1, <2>2 DEF ClaimStep
<1>2. ASSUME UNCHANGED claim, late \subseteq late',
             \A r \in Row : IsOpen(r) /\ ~IsOpen(r)' => Close(r)
      PROVE  Kept'
  <2>1. ASSUME NEW h \in Claim, claim[h].pc # "none",
               claim[h].pc \in {"checked", "live", "defaulted"}, ~IsOpen(claim[h].on)'
        PROVE  h \in late' /\ claim[h].use # "withdrawal"
    <3>1. claim[h].on \in Row
      BY <2>1 DEF Kept
    <3>2. CASE ~IsOpen(claim[h].on)
      BY <2>1, <3>2, <1>2 DEF Kept
    <3>3. CASE IsOpen(claim[h].on)
      BY <2>1, <3>1, <3>3, <1>2 DEF Kept, Close, ClaimsOn
    <3> QED
      BY <3>2, <3>3
  <2> QED
    BY <1>2, <2>1 DEF Kept
<1>3. CASE OpeningStep
  BY <1>3, <1>2, StaysOpen DEF OpeningStep, LockUser, Look, Insert, holding
<1>4. CASE NumberStep
  BY <1>4, <1>2, StaysOpen DEF NumberStep, AskNumber, GiveNumber, StoreNumber, holding
<1>5. CASE StatusStep
  BY <1>5, <1>2, StaysOpen DEF StatusStep, Freeze, Unfreeze, Close, SetStatus
<1>6. CASE (\E x \in Opener : GiveUp(x)) \/ (\E b \in Bank : RemoveBank(b))
  BY <1>6, <1>2, StaysOpen DEF GiveUp, RemoveBank, holding
<1>7. CASE UNCHANGED accounts
  BY <1>7, <1>2, StaysOpen DEF accounts, holding
<1> QED
  BY <1>1, <1>3, <1>4, <1>5, <1>6, <1>7, AccountsStepKinds

\* What is not there and may be added can be added later too, in every step but
\* the insert of who holds the lock.
LEMMA StillMay ==
  ASSUME AccountsTypeOK, FewBanks, [AccountsNext]_accounts,
         ~ \E x \in Opener : Insert(x),
         NEW what \in Kind \cup Bank, MayAdd(what)
  PROVE  MayAdd(what)'
<1> USE DEF AccountsTypeOK, MayAdd, Has
<1>1. ASSUME UNCHANGED <<wallet, saved>>
      PROVE  MayAdd(what)'
  BY <1>1 DEF IsOpen
<1>2. CASE OpeningStep
  BY <1>1, <1>2 DEF OpeningStep, LockUser, Look
<1>3. CASE NumberStep
  BY <1>1, <1>3 DEF NumberStep, AskNumber, GiveNumber, StoreNumber
<1>4. CASE ClaimStep
  BY <1>1, <1>4 DEF ClaimStep, Commit, Default, End, CheckWallet, opening
<1>5. CASE StatusStep
  <2>1. saved' = saved
    BY <1>5 DEF StatusStep, Freeze, Unfreeze, Close, SetStatus
  <2>2. ASSUME NEW q \in Row, IsOpen(q)'
        PROVE  IsOpen(q) /\ wallet'[q].kind = wallet[q].kind
    <3>1. ASSUME NEW r \in Row, NEW st \in {"active", "frozen", "closed"}, IsOpen(r), SetStatus(r, st)
          PROVE  IsOpen(q) /\ wallet'[q].kind = wallet[q].kind
      BY <2>2, <3>1, NoOneAssumption DEF SetStatus, IsOpen, WalletRow
    <3> QED
      BY <1>5, <3>1 DEF StatusStep, Freeze, Unfreeze, Close, Is, IsOpen
  <2> QED
    BY <2>1, <2>2
<1>6. CASE \E x \in Opener : GiveUp(x)
  BY <1>1, <1>6 DEF GiveUp
<1>7. CASE \E b \in Bank : RemoveBank(b)
  <2>1. PICK b \in Bank : b \in saved /\ saved' = saved \ {b} /\ wallet' = wallet
    BY <1>7 DEF RemoveBank
  <2>2. Cardinality(saved \ {b}) = Cardinality(saved) - 1
    BY <2>1, FS_RemoveElement DEF FewBanks
  <2>3. Cardinality(saved) \in Nat
    BY FS_CardinalityType DEF FewBanks
  <2> QED
    BY <2>1, <2>2, <2>3, BanksAssumption DEF IsOpen
<1>8. CASE UNCHANGED accounts
  BY <1>1, <1>8 DEF accounts, opening
<1> QED
  BY <1>2, <1>3, <1>4, <1>5, <1>6, <1>7, <1>8, AccountsStepKinds DEF OpeningStep

\* The user's lock: whoever looks or inserts has it, and what was found is so.
LEMMA LockedStep ==
  ASSUME AccountsTypeOK, FewBanks, Locked, [AccountsNext]_accounts
  PROVE  Locked'
<1> USE DEF AccountsTypeOK
<1>1. ASSUME NEW x \in Opener, NEW what \in Kind \cup Bank, LockUser(x, what)
      PROVE  Locked'
  BY <1>1, NoOneAssumption DEF LockUser, At, Locked
<1>2. ASSUME NEW x \in Opener, Look(x)
      PROVE  Locked'
  <2>1. \A what \in Kind \cup Bank : MayAdd(what) => MayAdd(what)'
    BY <1>2 DEF Look, MayAdd, Has, IsOpen
  <2> QED
    BY <1>2, <2>1 DEF Look, At, Leave, NoOpener, Locked
<1>3. ASSUME NEW x \in Opener, Insert(x)
      PROVE  Locked'
  BY <1>3 DEF Insert, Leave, NoOpener, Locked
<1>4. ASSUME NEW x \in Opener, Leave(x),
             \A what \in Kind \cup Bank : MayAdd(what) => MayAdd(what)'
      PROVE  Locked'
  BY <1>4 DEF Leave, NoOpener, Locked
<1>5. ASSUME UNCHANGED <<opener, userLock>>,
             \A what \in Kind \cup Bank : MayAdd(what) => MayAdd(what)'
      PROVE  Locked'
  BY <1>5 DEF Locked
<1>6. CASE \E x \in Opener : Insert(x)
  BY <1>3, <1>6
<1>7. CASE ~ \E x \in Opener : Insert(x)
  <2>0. \A what \in Kind \cup Bank : MayAdd(what) => MayAdd(what)'
    BY <1>7, StillMay
  <2>1. CASE OpeningStep
    BY <1>1, <1>2, <1>7, <2>1 DEF OpeningStep
  <2>2. CASE NumberStep
    <3>1. ASSUME NEW x \in Opener, NEW r \in Row, AskNumber(x, r)
          PROVE  Locked'
      BY <2>0, <3>1 DEF AskNumber, At, Locked
    <3>2. ASSUME NEW x \in Opener, GiveNumber(x)
          PROVE  Locked'
      BY <2>0, <3>2, BanksAssumption DEF GiveNumber, Locked
    <3>3. ASSUME NEW x \in Opener, StoreNumber(x)
          PROVE  Locked'
      BY <1>4, <2>0, <3>3 DEF StoreNumber
    <3> QED
      BY <2>2, <3>1, <3>2, <3>3 DEF NumberStep
  <2>3. CASE ClaimStep
    BY <1>5, <2>0, <2>3 DEF ClaimStep, Commit, Default, End, CheckWallet, opening
  <2>4. CASE StatusStep
    BY <1>5, <2>0, <2>4 DEF StatusStep, Freeze, Unfreeze, Close, SetStatus
  <2>5. CASE \E x \in Opener : GiveUp(x)
    BY <1>4, <2>0, <2>5 DEF GiveUp
  <2>6. CASE \E b \in Bank : RemoveBank(b)
    BY <1>5, <2>0, <2>6 DEF RemoveBank
  <2>7. CASE UNCHANGED accounts
    BY <1>5, <2>0, <2>7 DEF accounts, opening
  <2> QED
    BY <2>1, <2>2, <2>3, <2>4, <2>5, <2>6, <2>7, AccountsStepKinds
<1> QED
  BY <1>6, <1>7

\* Only an insert adds a wallet, and then there is none of its kind.
LEMMA OneWalletStep ==
  ASSUME AccountsTypeOK, Locked, OneWallet, [AccountsNext]_accounts
  PROVE  OneWallet'
<1> USE DEF AccountsTypeOK
<1>1. ASSUME \A q \in Row : IsOpen(q)' => IsOpen(q) /\ wallet'[q].kind = wallet[q].kind
      PROVE  OneWallet'
  BY <1>1 DEF OneWallet
<1>2. ASSUME UNCHANGED wallet
      PROVE  OneWallet'
  BY <1>1, <1>2 DEF IsOpen
<1>3. CASE OpeningStep
  <2>1. ASSUME NEW x \in Opener, Insert(x), opener[x].what \in Kind
        PROVE  OneWallet'
    <3>1. ~Has(opener[x].what)
      BY <2>1 DEF Insert, Locked, MayAdd
    <3>2. PICK r \in Row : /\ wallet[r] = NoOne
                           /\ wallet' = [wallet EXCEPT ![r] = [kind |-> opener[x].what, status |-> "active"]]
      BY <2>1 DEF Insert
    <3>3. \A q \in Row : q # r /\ IsOpen(q)' => IsOpen(q) /\ wallet'[q].kind # opener[x].what
      BY <3>1, <3>2 DEF Has, IsOpen
    <3>4. wallet'[r].kind = opener[x].what /\ \A q \in Row : q # r => wallet'[q] = wallet[q]
      BY <3>2
    <3> QED
      BY <3>3, <3>4 DEF OneWallet
  <2>2. ASSUME NEW x \in Opener, Insert(x), opener[x].what \notin Kind
        PROVE  OneWallet'
    BY <1>2, <2>2 DEF Insert
  <2> QED
    BY <1>2, <1>3, <2>1, <2>2 DEF OpeningStep, LockUser, Look
<1>4. CASE NumberStep
  BY <1>2, <1>4 DEF NumberStep, AskNumber, GiveNumber, StoreNumber
<1>5. CASE ClaimStep
  BY <1>2, <1>5 DEF ClaimStep, Commit, Default, End, CheckWallet, opening
<1>6. CASE StatusStep
  <2>1. ASSUME NEW r \in Row, NEW st \in {"active", "frozen", "closed"}, IsOpen(r), SetStatus(r, st)
        PROVE  OneWallet'
    BY <1>1, <2>1, NoOneAssumption DEF SetStatus, IsOpen, WalletRow
  <2> QED
    BY <1>6, <2>1 DEF StatusStep, Freeze, Unfreeze, Close, Is, IsOpen
<1>7. CASE (\E x \in Opener : GiveUp(x)) \/ (\E b \in Bank : RemoveBank(b))
  BY <1>2, <1>7 DEF GiveUp, RemoveBank
<1>8. CASE UNCHANGED accounts
  BY <1>2, <1>8 DEF accounts, opening
<1> QED
  BY <1>3, <1>4, <1>5, <1>6, <1>7, <1>8, AccountsStepKinds

\* Only an insert adds a bank account, and then there is room for one.
LEMMA FewBanksStep ==
  ASSUME AccountsTypeOK, Locked, FewBanks, [AccountsNext]_accounts
  PROVE  FewBanks'
<1> USE DEF AccountsTypeOK
<1>1. ASSUME UNCHANGED saved
      PROVE  FewBanks'
  BY <1>1 DEF FewBanks
<1>2. CASE OpeningStep
  <2>1. ASSUME NEW x \in Opener, Insert(x), opener[x].what \notin Kind
        PROVE  FewBanks'
    <3> DEFINE b == opener[x].what
    <3>1. Cardinality(saved) < MaxBanks /\ b \notin saved /\ saved' = saved \cup {b}
      BY <2>1 DEF Insert, Locked, MayAdd
    <3>2. IsFiniteSet(saved \cup {b}) /\ Cardinality(saved \cup {b}) = Cardinality(saved) + 1
      BY <3>1, FS_AddElement DEF FewBanks
    <3>3. Cardinality(saved) \in Nat
      BY FS_CardinalityType DEF FewBanks
    <3> QED
      BY <3>1, <3>2, <3>3, BanksAssumption DEF FewBanks
  <2>2. ASSUME NEW x \in Opener, Insert(x), opener[x].what \in Kind
        PROVE  FewBanks'
    BY <1>1, <2>2 DEF Insert
  <2> QED
    BY <1>1, <1>2, <2>1, <2>2 DEF OpeningStep, LockUser, Look
<1>3. CASE NumberStep
  BY <1>1, <1>3 DEF NumberStep, AskNumber, GiveNumber, StoreNumber
<1>4. CASE ClaimStep
  BY <1>1, <1>4 DEF ClaimStep, Commit, Default, End, CheckWallet, opening
<1>5. CASE StatusStep
  BY <1>1, <1>5 DEF StatusStep, Freeze, Unfreeze, Close, SetStatus
<1>6. CASE \E x \in Opener : GiveUp(x)
  BY <1>1, <1>6 DEF GiveUp
<1>7. CASE \E b \in Bank : RemoveBank(b)
  <2>1. PICK b \in Bank : b \in saved /\ saved' = saved \ {b}
    BY <1>7 DEF RemoveBank
  <2>2. IsFiniteSet(saved \ {b}) /\ Cardinality(saved \ {b}) = Cardinality(saved) - 1
    BY <2>1, FS_RemoveElement DEF FewBanks
  <2>3. Cardinality(saved) \in Nat
    BY FS_CardinalityType DEF FewBanks
  <2> QED
    BY <2>1, <2>2, <2>3, BanksAssumption DEF FewBanks
<1>8. CASE UNCHANGED accounts
  BY <1>1, <1>8 DEF accounts, opening
<1> QED
  BY <1>2, <1>3, <1>4, <1>5, <1>6, <1>7, <1>8, AccountsStepKinds

\* A number that was told is the one that is stored, which never changes.
LEMMA ToldStep ==
  ASSUME AccountsTypeOK, Locked, ToldOnce, [AccountsNext]_accounts
  PROVE  ToldOnce'
<1> USE DEF AccountsTypeOK
<1>1. ASSUME UNCHANGED <<number, told>>
      PROVE  ToldOnce'
  BY <1>1 DEF ToldOnce
<1>2. CASE NumberStep
  <2>1. ASSUME NEW x \in Opener, NEW r \in Row, AskNumber(x, r)
        PROVE  ToldOnce'
    BY <2>1 DEF AskNumber, ToldOnce
  <2>2. ASSUME NEW x \in Opener, GiveNumber(x)
        PROVE  ToldOnce'
    BY <1>1, <2>2 DEF GiveNumber
  <2>3. ASSUME NEW x \in Opener, StoreNumber(x)
        PROVE  ToldOnce'
    <3>1. opener[x].what \in Row
      BY <2>3 DEF StoreNumber, Locked
    <3>2. \A r \in Row : number[r] # 0 => number'[r] = number[r]
      BY <2>3, <3>1 DEF StoreNumber
    <3>3. \A r \in Row, n \in 1 .. MaxNumbers : <<r, n>> \in told' =>
            <<r, n>> \in told \/ number'[r] = n
      BY <2>3, <3>1 DEF StoreNumber
    <3>4. \A r \in Row, n \in 1 .. MaxNumbers : <<r, n>> \in told => number[r] = n /\ n # 0
      BY BanksAssumption DEF ToldOnce
    <3> QED
      BY <3>2, <3>3, <3>4 DEF ToldOnce
  <2> QED
    BY <1>2, <2>1, <2>2, <2>3 DEF NumberStep
<1>3. CASE OpeningStep
  BY <1>1, <1>3 DEF OpeningStep, LockUser, Look, Insert, giving
<1>4. CASE ClaimStep
  BY <1>1, <1>4 DEF ClaimStep, Commit, Default, End, CheckWallet, giving
<1>5. CASE StatusStep
  BY <1>1, <1>5 DEF StatusStep, Freeze, Unfreeze, Close, SetStatus, giving
<1>6. CASE (\E x \in Opener : GiveUp(x)) \/ (\E b \in Bank : RemoveBank(b))
  BY <1>1, <1>6 DEF GiveUp, RemoveBank, giving
<1>7. CASE UNCHANGED accounts
  BY <1>1, <1>7 DEF accounts, giving
<1> QED
  BY <1>2, <1>3, <1>4, <1>5, <1>6, <1>7, AccountsStepKinds

\* The invariant of accounts: types, the lock, one open wallet of a kind, no
\* more bank accounts than allowed, one number for a wallet, and no wallet
\* closed over what it was known to be needed for.
THEOREM AccountsInvCorrect == AccountsSpec => []AccountsInv
<1>1. AccountsInv /\ [AccountsNext]_accounts => AccountsInv'
  BY AccountsTypeStep, KeptStep, LockedStep, OneWalletStep, FewBanksStep, ToldStep DEF AccountsInv
<1> QED
  BY AccountsInitInv, <1>1, PTL DEF AccountsSpec

\* However many requests race to open wallets and save bank accounts
\* (openAccount, ensureInvestmentWallet, saveBankAccount), at most one open
\* wallet of a kind and MaxBanks bank accounts are there, and a number a
\* request was told (createVirtualAccount) is the wallet's.
THEOREM OpenedOnce == AccountsSpec => []OneOfEach
<1>1. AccountsInv => OneOfEach
  BY DEF AccountsInv, OneOfEach, OneWallet, FewBanks, ToldOnce
<1> QED
  BY AccountsInvCorrect, <1>1, PTL

\* changeStatus closes no wallet that a withdrawal is under way from, and none
\* that an open invoice, a pending card payment or a running loan is for,
\* unless its handler read the wallet before and committed afterwards or the
\* loan was in default.
THEOREM ClosingIsSafe == AccountsSpec => []ClosedIsFree
<1>1. AccountsInv => ClosedIsFree
  BY DEF AccountsInv, Kept, ClosedIsFree, AccountsTypeOK, ClaimRow
<1> QED
  BY AccountsInvCorrect, <1>1, PTL

(***************************************************************************)
(* Alerts: the badge counts the unread rows (BadgeIsRight).  What has been *)
(* told as new is committed, in the badge and on its way there, and the    *)
(* latest event about an alert says what its row says.                     *)
(***************************************************************************)

ToldIsCommitted ==
  /\ \A b \in Tab : \A n \in badge[b] : alert[n] \in {"unread", "read"}
  /\ \A e \in flying : e.type = "created" => \A n \in e.of : alert[n] \in {"unread", "read"}

\* An event that says the opposite of the row is followed by another.
LatestAgrees ==
  \A e \in flying : \A n \in e.of :
    \/ alert[n] = "unread" <=> e.type = "created"
    \/ gone[n] > e.nr
    \/ \E d \in flying : n \in d.of /\ d.nr > e.nr

\* Events are numbered as they were raised.
Numbered == \A e \in flying : e.nr <= raised

InFlight(n) == \E e \in flying : n \in e.of

BadgesCount ==
  \A b \in Tab : tab[b] = "current" =>
    \A n \in Alert \ stale[b] : ~InFlight(n) => (n \in badge[b] <=> alert[n] = "unread")

AlertsInv == AlertsTypeOK /\ ToldIsCommitted /\ LatestAgrees /\ Numbered /\ BadgesCount

LEMMA AlertsInitInv == AlertsInit => AlertsInv
  BY SocketsAssumption
  DEF AlertsInit, AlertsInv, AlertsTypeOK, ToldIsCommitted, LatestAgrees, Numbered, BadgesCount

LEMMA AlertsInvImplies == AlertsInv => BadgeIsRight
<1> SUFFICES ASSUME AlertsInv PROVE BadgeIsRight
  OBVIOUS
<1>1. ASSUME NEW b \in Tab, tab[b] = "current"
      PROVE  LET settled == {n \in Alert \ stale[b] : \A e \in flying : n \notin e.of} IN
             badge[b] \cap settled = Unread \cap settled
  BY <1>1 DEF AlertsInv, AlertsTypeOK, BadgesCount, InFlight, Unread
<1> QED
  BY <1>1 DEF AlertsInv, ToldIsCommitted, BadgeIsRight

\* An event is raised about what a row says from now on.
LEMMA RaiseKeeps ==
  ASSUME AlertsInv, NEW type \in {"created", "read"}, NEW of \in SUBSET Alert, Raise(type, of),
         alert' \in [Alert -> {"none", "writing", "unread", "read"}],
         UNCHANGED <<tab, badge, gone, stale>>,
         \A n \in Alert : alert[n] \in {"unread", "read"} => alert'[n] \in {"unread", "read"},
         \A n \in Alert \ of : (alert'[n] = "unread") <=> (alert[n] = "unread"),
         type = "created" => \A n \in of : alert'[n] \in {"unread", "read"},
         \A n \in of : alert'[n] = "unread" <=> type = "created"
  PROVE  AlertsInv'
<1> DEFINE new == [nr |-> raised + 1, type |-> type, of |-> of]
<1>1. raised + 1 \in 1 .. MaxEvents /\ raised' = raised + 1 /\ flying' = flying \cup {new}
  BY SocketsAssumption DEF Raise, AlertsInv, AlertsTypeOK
<1>2. new \in Event /\ new.of = of /\ new.type = type /\ new.nr = raised + 1
  BY <1>1 DEF Event
<1> HIDE DEF new
<1>3. AlertsTypeOK'
  BY <1>1, <1>2, SocketsAssumption DEF AlertsInv, AlertsTypeOK
<1>4. \A e \in flying : e.of \subseteq Alert /\ e.nr \in Nat /\ e.nr < raised + 1
  BY DEF AlertsInv, AlertsTypeOK, Event, Numbered
<1>5. ToldIsCommitted'
  BY <1>1, <1>2, <1>4 DEF AlertsInv, AlertsTypeOK, ToldIsCommitted
<1>6. LatestAgrees'
  <2> SUFFICES ASSUME NEW e \in flying', NEW n \in e.of
               PROVE  \/ alert'[n] = "unread" <=> e.type = "created"
                      \/ gone'[n] > e.nr
                      \/ \E d \in flying' : n \in d.of /\ d.nr > e.nr
    BY DEF LatestAgrees
  <2>1. CASE n \in of
    <3>1. CASE e = new
      BY <1>2, <2>1, <3>1
    <3>2. CASE e # new
      BY <1>1, <1>2, <1>4, <2>1, <3>2
    <3> QED
      BY <3>1, <3>2
  <2>2. CASE n \notin of
    <3>1. e \in flying /\ n \in Alert
      BY <1>1, <1>2, <1>4, <2>2
    <3> QED
      BY <1>1, <2>2, <3>1 DEF AlertsInv, LatestAgrees
  <2> QED
    BY <2>1, <2>2
<1>7. Numbered'
  BY <1>1, <1>2, <1>4 DEF AlertsInv, AlertsTypeOK, Numbered
<1>8. BadgesCount'
  <2>1. \A n \in Alert : ~InFlight(n)' => ~InFlight(n) /\ n \notin of
    BY <1>1, <1>2 DEF InFlight
  <2> QED
    BY <2>1 DEF AlertsInv, BadgesCount
<1> QED
  BY <1>3, <1>5, <1>6, <1>7, <1>8 DEF AlertsInv

LEMMA RowStep ==
  ASSUME AlertsInv, NEW n \in Alert,
         RecordAlert(n) \/ CommitAlert(n) \/ RollBackAlert(n) \/ MarkRead(n)
  PROVE  AlertsInv'
<1>1. ASSUME RecordAlert(n) \/ RollBackAlert(n)
      PROVE  AlertsInv'
  <2>1. /\ alert[n] \notin {"unread", "read"}
        /\ \E st \in {"none", "writing"} : alert' = [alert EXCEPT ![n] = st]
        /\ UNCHANGED <<flying, raised, tab, badge, gone, stale>>
    BY <1>1 DEF RecordAlert, RollBackAlert
  <2>2. AlertsTypeOK'
    BY <2>1 DEF AlertsInv, AlertsTypeOK
  <2>3. \A m \in Alert : /\ alert[m] \in {"unread", "read"} => alert'[m] = alert[m]
                         /\ (alert'[m] = "unread") <=> (alert[m] = "unread")
    BY <2>1 DEF AlertsInv, AlertsTypeOK
  <2>4. \A e \in flying : e.of \subseteq Alert
    BY DEF AlertsInv, AlertsTypeOK, Event
  <2>5. ToldIsCommitted'
    BY <2>1, <2>3, <2>4 DEF AlertsInv, AlertsTypeOK, ToldIsCommitted
  <2>6. LatestAgrees' /\ Numbered'
    BY <2>1, <2>3, <2>4 DEF AlertsInv, LatestAgrees, Numbered
  <2>7. BadgesCount'
    BY <2>1, <2>3 DEF AlertsInv, BadgesCount, InFlight
  <2> QED
    BY <2>2, <2>5, <2>6, <2>7 DEF AlertsInv
<1>2. CASE CommitAlert(n)
  <2>1. /\ alert' \in [Alert -> {"none", "writing", "unread", "read"}]
        /\ alert'[n] = "unread" /\ \A m \in Alert \ {n} : alert'[m] = alert[m]
    BY <1>2 DEF CommitAlert, AlertsInv, AlertsTypeOK
  <2>2. \A m \in Alert : alert[m] \in {"unread", "read"} => alert'[m] \in {"unread", "read"}
    BY <2>1
  <2> QED
    BY <1>2, <2>1, <2>2, RaiseKeeps DEF CommitAlert
<1>3. CASE MarkRead(n)
  <2>1. /\ alert' \in [Alert -> {"none", "writing", "unread", "read"}]
        /\ alert'[n] = "read" /\ \A m \in Alert \ {n} : alert'[m] = alert[m]
    BY <1>3 DEF MarkRead, AlertsInv, AlertsTypeOK
  <2>2. \A m \in Alert : alert[m] \in {"unread", "read"} => alert'[m] \in {"unread", "read"}
    BY <2>1
  <2> QED
    BY <1>3, <2>1, <2>2, RaiseKeeps DEF MarkRead
<1> QED
  BY <1>1, <1>2, <1>3

LEMMA MarkAllStep ==
  ASSUME AlertsInv, MarkAllRead
  PROVE  AlertsInv'
<1>1. /\ alert' \in [Alert -> {"none", "writing", "unread", "read"}]
      /\ \A m \in Alert : alert[m] \in {"unread", "read"} => alert'[m] \in {"unread", "read"}
  BY DEF MarkAllRead, AlertsInv, AlertsTypeOK
<1> QED
  BY <1>1, RaiseKeeps DEF MarkAllRead

\* An event that goes out leaves behind those raised before it.
LEMMA GoneOutKeeps ==
  ASSUME AlertsInv, NEW e \in flying, GoneOut(e), UNCHANGED <<alert, raised>>
  PROVE  /\ LatestAgrees' /\ Numbered' /\ flying' \subseteq Event /\ gone' \in [Alert -> 0 .. MaxEvents]
<1>1. /\ flying' = flying \ {e}
      /\ \A d \in flying : d \in Event /\ d.of \subseteq Alert /\ d.nr \in 1 .. MaxEvents
  BY DEF GoneOut, AlertsInv, AlertsTypeOK, Event
<1>2. gone' \in [Alert -> 0 .. MaxEvents]
  BY <1>1, SocketsAssumption DEF GoneOut, AlertsInv, AlertsTypeOK
<1>3. \A n \in Alert : gone'[n] >= gone[n] /\ (n \in e.of => gone'[n] >= e.nr)
  BY <1>1, SocketsAssumption DEF GoneOut, Overtaken, AlertsInv, AlertsTypeOK
<1>4. LatestAgrees'
  <2> SUFFICES ASSUME NEW d \in flying', NEW n \in d.of
               PROVE  \/ alert[n] = "unread" <=> d.type = "created"
                      \/ gone'[n] > d.nr
                      \/ \E c \in flying' : n \in c.of /\ c.nr > d.nr
    BY DEF LatestAgrees
  <2>1. d \in flying /\ n \in Alert
    BY <1>1
  <2>2. CASE gone[n] > d.nr
    BY <1>1, <1>2, <1>3, <2>1, <2>2, SocketsAssumption DEF AlertsInv, AlertsTypeOK
  <2>3. ASSUME NEW c \in flying, n \in c.of, c.nr > d.nr
        PROVE  gone'[n] > d.nr \/ \E x \in flying' : n \in x.of /\ x.nr > d.nr
    <3>1. CASE c = e
      BY <1>1, <1>2, <1>3, <2>1, <2>3, <3>1, SocketsAssumption
    <3>2. CASE c # e
      BY <1>1, <2>3, <3>2
    <3> QED
      BY <3>1, <3>2
  <2> QED
    BY <2>1, <2>2, <2>3 DEF AlertsInv, LatestAgrees
<1>5. Numbered'
  BY <1>1 DEF AlertsInv, Numbered
<1> QED
  BY <1>1, <1>2, <1>4, <1>5

\* What an event makes settle is counted as the row has it: it comes after all
\* that have gone out, and had another come later it would be under way.
LEMMA DeliverStep ==
  ASSUME AlertsInv, NEW e \in flying, Deliver(e)
  PROVE  AlertsInv'
<1>1. /\ e \in Event /\ e.of \subseteq Alert /\ e.type \in {"created", "read"} /\ e.nr \in Nat
      /\ \A d \in flying : d.of \subseteq Alert
  BY DEF AlertsInv, AlertsTypeOK, Event
<1>2. /\ flying' = flying \ {e}
      /\ badge' = [b \in Tab |-> IF b \in Listening THEN Heard(b, e) ELSE badge[b]]
      /\ stale' = [b \in Tab |-> (stale[b] \ e.of) \cup Overtaken(e)]
      /\ UNCHANGED <<alert, raised, tab>>
  BY DEF Deliver, GoneOut
<1>3. Overtaken(e) \subseteq Alert
  BY <1>1 DEF Overtaken
<1>4. \A b \in Tab : Heard(b, e) \in SUBSET Alert
  BY <1>1 DEF Heard, AlertsInv, AlertsTypeOK
<1>5. LatestAgrees' /\ Numbered' /\ flying' \subseteq Event /\ gone' \in [Alert -> 0 .. MaxEvents]
  BY <1>2, GoneOutKeeps DEF Deliver
<1>6. AlertsTypeOK'
  BY <1>2, <1>3, <1>4, <1>5 DEF AlertsInv, AlertsTypeOK
<1>7. ToldIsCommitted'
  <2>1. \A b \in Tab : \A n \in Heard(b, e) : alert[n] \in {"unread", "read"}
    BY DEF Heard, AlertsInv, ToldIsCommitted
  <2> QED
    BY <1>2, <2>1 DEF AlertsInv, AlertsTypeOK, ToldIsCommitted
<1>8. BadgesCount'
  <2> SUFFICES ASSUME NEW b \in Tab, tab'[b] = "current",
                      NEW n \in Alert \ stale'[b], ~InFlight(n)'
               PROVE  n \in badge'[b] <=> alert'[n] = "unread"
    BY DEF BadgesCount
  <2>1. badge'[b] = Heard(b, e) /\ tab[b] = "current"
    BY <1>2 DEF Listening
  <2>2. CASE n \in e.of
    <3>1. ~(gone[n] > e.nr)
      BY <1>2, <2>2 DEF Overtaken
    <3>2. ~\E d \in flying : n \in d.of /\ d.nr > e.nr
      BY <1>1, <1>2 DEF InFlight
    <3>3. alert[n] = "unread" <=> e.type = "created"
      BY <2>2, <3>1, <3>2 DEF AlertsInv, LatestAgrees
    <3> QED
      BY <1>1, <1>2, <2>1, <2>2, <3>3 DEF Heard
  <2>3. CASE n \notin e.of
    <3>1. n \in Alert \ stale[b] /\ ~InFlight(n)
      BY <1>2, <2>3 DEF InFlight
    <3>2. n \in badge[b] <=> alert[n] = "unread"
      BY <2>1, <3>1 DEF AlertsInv, BadgesCount
    <3> QED
      BY <1>2, <2>1, <2>3, <3>2 DEF Heard
  <2> QED
    BY <2>2, <2>3
<1> QED
  BY <1>5, <1>6, <1>7, <1>8 DEF AlertsInv

LEMMA LoseStep ==
  ASSUME AlertsInv, NEW e \in flying, LoseEvent(e)
  PROVE  AlertsInv'
<1>1. e.of \subseteq Alert
  BY DEF AlertsInv, AlertsTypeOK, Event
<1>2. /\ flying' = flying \ {e}
      /\ stale' = [b \in Tab |-> stale[b] \cup e.of]
      /\ UNCHANGED <<alert, raised, tab, badge>>
  BY DEF LoseEvent, GoneOut
<1>3. LatestAgrees' /\ Numbered' /\ flying' \subseteq Event /\ gone' \in [Alert -> 0 .. MaxEvents]
  BY <1>2, GoneOutKeeps DEF LoseEvent
<1>4. AlertsTypeOK'
  BY <1>1, <1>2, <1>3 DEF AlertsInv, AlertsTypeOK
<1>5. ToldIsCommitted'
  BY <1>2 DEF AlertsInv, ToldIsCommitted
<1>6. BadgesCount'
  <2>1. ASSUME NEW b \in Tab, NEW n \in Alert \ stale'[b], ~InFlight(n)'
        PROVE  n \in Alert \ stale[b] /\ ~InFlight(n)
    BY <1>2, <2>1 DEF InFlight
  <2> QED
    BY <1>2, <2>1 DEF AlertsInv, BadgesCount
<1> QED
  BY <1>3, <1>4, <1>5, <1>6 DEF AlertsInv

LEMMA SocketStep ==
  ASSUME AlertsInv, NEW b \in Tab, OpenSocket(b) \/ ReadList(b) \/ CloseSocket(b)
  PROVE  AlertsInv'
<1>1. PICK st \in {"closed", "ready", "current"} :
        /\ tab' = [tab EXCEPT ![b] = st]
        /\ IF st = "current" THEN /\ badge' = [badge EXCEPT ![b] = Unread]
                                  /\ stale' = [stale EXCEPT ![b] = {}]
                             ELSE UNCHANGED <<badge, stale>>
        /\ UNCHANGED <<alert, flying, raised, gone>>
  BY DEF OpenSocket, ReadList, CloseSocket
<1>2. Unread \subseteq Alert
  BY DEF Unread
<1>3. AlertsTypeOK'
  BY <1>1, <1>2 DEF AlertsInv, AlertsTypeOK
<1>4. ToldIsCommitted'
  BY <1>1 DEF AlertsInv, AlertsTypeOK, ToldIsCommitted, Unread
<1>5. LatestAgrees' /\ Numbered'
  BY <1>1 DEF AlertsInv, LatestAgrees, Numbered
<1>6. BadgesCount'
  BY <1>1 DEF AlertsInv, AlertsTypeOK, BadgesCount, InFlight, Unread
<1> QED
  BY <1>3, <1>4, <1>5, <1>6 DEF AlertsInv

\* Nobody is told of an alert that was not committed; and while tabs come and
\* go, a tab that has read the list counts every alert as its row has it once
\* no event about it is under way, but for alerts the last event about which,
\* since the tab read the list, was lost or was delivered after a later one
\* (BadgeIsRight).
THEOREM BadgesAreRight == AlertsSpec => []BadgeIsRight
<1>1. AlertsInv /\ [AlertsNext]_bell => AlertsInv'
  <2> SUFFICES ASSUME AlertsInv, [AlertsNext]_bell PROVE AlertsInv'
    OBVIOUS
  <2>1. CASE UNCHANGED bell
    BY <2>1 DEF bell, AlertsInv, AlertsTypeOK, ToldIsCommitted, LatestAgrees, Numbered, BadgesCount, InFlight
  <2> QED
    BY <2>1, RowStep, MarkAllStep, DeliverStep, LoseStep, SocketStep DEF AlertsNext
<1> QED
  BY <1>1, AlertsInitInv, AlertsInvImplies, PTL DEF AlertsSpec

(***************************************************************************)
(* Lists: a walk misses nothing and repeats nothing (PagesComplete).       *)
(*                                                                         *)
(* What is due and was not shown is past the cursor, and what was shown is *)
(* not: the next cursor is the last row of the page, and every row that    *)
(* does not fit on the page comes after it.                                *)
(***************************************************************************)

\* Ids name rows, written or not, and what was shown is committed.
IdsAreUnique ==
  /\ \A r, q \in items : r.id = q.id => r = q
  /\ \A w \in Writing : \A q \in writing[w].rows :
       /\ q.id \notin walk.seen
       /\ \A r \in items : r.id # q.id
       /\ \A v \in Writing : \A r \in writing[v].rows : r.id = q.id => v = w /\ r = q

\* A DB transaction adds one to the time at most, and writes a few rows.
TimesAreBounded ==
  /\ latest <= Cardinality({w \in Writing : writing[w].pc # "none"})
  /\ IsFiniteSet(items)
  /\ \A w \in Writing : IsFiniteSet(writing[w].rows)

\* Where the walk has come to.
Walked ==
  /\ walk.pc = "none" => walk = NoWalk
  /\ walk.pc = "walks" =>
       /\ \A r \in items : r.id \in walk.seen => ~PastCursor(r)
       /\ \A id \in walk.due \ walk.seen : \E r \in items : r.id = id /\ Fits(r) /\ PastCursor(r)
  /\ walk.pc = "done" => walk.due \subseteq walk.seen
  /\ ~walk.again

ListsInv == ListsTypeOK /\ TimesAreBounded /\ IdsAreUnique /\ Walked

LEMMA TimesAreNumbers ==
  /\ Cardinality(Writing) \in Nat
  /\ \A r \in ListRow : r.at \in Nat /\ r.id \in Nat /\ r.id \in RowId
                        /\ r.at \in 0 .. Cardinality(Writing)
  /\ \A c \in Cursor : c.at \in Nat /\ c.id \in Nat
<1>1. PICK n \in Nat : n = Cardinality(Writing)
  BY WritingAssumption, FS_CardinalityType
<1>2. \A i \in RowId : i \in Nat
  BY PageAssumption
<1>3. \A t \in 0 .. n : t \in Nat
  OBVIOUS
<1>4. ListRow = [id: RowId, at: 0 .. n, after: 0 .. MostMoney, state: Status]
      /\ Cursor = [id: RowId, at: 0 .. n]
  BY <1>1 DEF ListRow, Cursor
<1> QED
  BY <1>1, <1>2, <1>3, <1>4

\* The order of the rows, by time and then by id.
Stamped(r) == r.at \in Nat /\ r.id \in Nat

LEMMA OrderOfRows ==
  ASSUME NEW a, NEW b, NEW c, Stamped(a), Stamped(b), Stamped(c)
  PROVE  /\ ~Precedes(a, a)
         /\ Precedes(a, b) => ~Precedes(b, a)
         /\ Precedes(a, b) /\ Precedes(b, c) => Precedes(a, c)
         /\ a.id # b.id => Precedes(a, b) \/ Precedes(b, a)
BY DEF Stamped, Precedes

\* Of rows that ids tell apart one comes first ...
LEMMA FirstRow ==
  ASSUME NEW S, S # {}, \A r \in S : Stamped(r), \A r, q \in S : r.id = q.id => r = q
  PROVE  \E r \in S : \A q \in S : q = r \/ Precedes(r, q)
<1> DEFINE times == {r.at : r \in S}
<1>1. times \in SUBSET Nat /\ times # {}
  BY DEF Stamped
<1> HIDE DEF times
<1>2. PICK t \in times : \A u \in times : t <= u
  BY <1>1, LeastOf
<1> DEFINE ids == {r.id : r \in {q \in S : q.at = t}}
<1>3. ids \in SUBSET Nat /\ ids # {}
  BY <1>2 DEF times, Stamped
<1> HIDE DEF ids
<1>4. PICK i \in ids : \A j \in ids : i <= j
  BY <1>3, LeastOf
<1>5. PICK r \in S : r.at = t /\ r.id = i
  BY <1>4 DEF ids
<1>6. ASSUME NEW q \in S PROVE q = r \/ Precedes(r, q)
  <2>1. q.at \in Nat /\ q.id \in Nat /\ r.at \in Nat /\ r.id \in Nat /\ t <= q.at
    BY <1>2 DEF Stamped, times
  <2>2. q.at = t => i <= q.id
    BY <1>4 DEF ids
  <2> QED
    BY <1>5, <2>1, <2>2 DEF Precedes
<1> QED
  BY <1>6

\* ... and of finitely many one comes last: the one that fewest come after.
LEMMA LastRow ==
  ASSUME NEW S, S # {}, IsFiniteSet(S), \A r \in S : Stamped(r)
  PROVE  \E r \in S : \A q \in S : ~Precedes(r, q)
<1> DEFINE after(r) == {q \in S : Precedes(r, q)}
           sizes == {Cardinality(after(r)) : r \in S}
<1>1. \A r \in S : IsFiniteSet(after(r)) /\ Cardinality(after(r)) \in Nat
  <2> TAKE r \in S
  <2>1. after(r) \in SUBSET S
    OBVIOUS
  <2> HIDE DEF after
  <2> QED
    BY <2>1, FS_Subset, FS_CardinalityType
<1>2. sizes \in SUBSET Nat /\ sizes # {}
  BY <1>1
<1>3. PICK n \in sizes : \A m \in sizes : n <= m
  <2> HIDE DEF sizes
  <2> QED
    BY <1>2, LeastOf
<1>4. PICK r \in S : n = Cardinality(after(r))
  BY <1>3
<1>5. ASSUME NEW q \in S, Precedes(r, q) PROVE FALSE
  <2>1. after(q) \in SUBSET after(r) /\ q \in after(r) /\ q \notin after(q)
    BY <1>5, OrderOfRows
  <2>2. Cardinality(after(r)) <= Cardinality(after(q))
    BY <1>3, <1>4
  <2> HIDE DEF after
  <2>3. Cardinality(after(q)) <= Cardinality(after(r))
        /\ (Cardinality(after(r)) = Cardinality(after(q)) => after(r) = after(q))
    BY <1>1, <2>1, FS_Subset
  <2>4. Cardinality(after(r)) = Cardinality(after(q))
    BY <1>1, <2>2, <2>3
  <2> QED
    BY <2>1, <2>3, <2>4
<1> QED
  BY <1>5

\* What is known of the rows a page is taken from.
LEMMA RestIsOrdered ==
  ASSUME ListsInv
  PROVE  /\ IsFiniteSet(Rest) /\ Rest \subseteq items /\ Page \subseteq Rest
         /\ \A r \in items : Stamped(r) /\ r.id \in RowId /\ r.at \in 0 .. Cardinality(Writing)
         /\ \A r, q \in items : r.id = q.id => r = q
         /\ \A r \in Rest : Fits(r) /\ PastCursor(r)
         /\ walk.last # NoRowRead => Stamped(walk.last)
<1>1. Rest \subseteq items /\ Page \subseteq Rest
  BY DEF Rest, Page
<1>2. IsFiniteSet(Rest)
  BY <1>1, FS_Subset DEF ListsInv, TimesAreBounded
<1>3. \A r \in items : Stamped(r) /\ r.id \in RowId /\ r.at \in 0 .. Cardinality(Writing)
  BY TimesAreNumbers DEF ListsInv, ListsTypeOK, Stamped
<1>4. \A r, q \in items : r.id = q.id => r = q
  BY DEF ListsInv, IdsAreUnique
<1>5. walk.last # NoRowRead => Stamped(walk.last)
  BY TimesAreNumbers DEF ListsInv, ListsTypeOK, Stamped
<1> QED
  BY <1>1, <1>2, <1>3, <1>4, <1>5 DEF Rest

\* The rows that come after r in the rest, which decide whether it is shown.
Later(r) == {q \in Rest : Precedes(r, q)}

LEMMA LaterIsFinite ==
  ASSUME ListsInv, NEW r
  PROVE  IsFiniteSet(Later(r)) /\ Cardinality(Later(r)) \in Nat /\ Later(r) \subseteq Rest
<1>1. Later(r) \in SUBSET Rest
  BY DEF Later
<1> QED
  BY <1>1, RestIsOrdered, FS_Subset, FS_CardinalityType

\* The last page shows the whole rest.
LEMMA LastPage ==
  ASSUME ListsInv, ~HasMore
  PROVE  Page = Rest
<1>1. ASSUME NEW r \in Rest PROVE r \in Page
  <2> DEFINE others == Rest \ {r}
  <2>1. Cardinality(others) = Cardinality(Rest) - 1 /\ IsFiniteSet(others)
        /\ Cardinality(Rest) \in Nat
    BY <1>1, RestIsOrdered, FS_RemoveElement, FS_CardinalityType
  <2>2. Later(r) \in SUBSET others
    BY <1>1, RestIsOrdered, OrderOfRows DEF Later
  <2> HIDE DEF others
  <2>3. Cardinality(Later(r)) <= Cardinality(others)
    BY <2>1, <2>2, FS_Subset
  <2>4. Cardinality(Later(r)) < PageSize
    BY <2>1, <2>3, LaterIsFinite, PageAssumption DEF HasMore
  <2> QED
    BY <1>1, <2>4 DEF Page, Later
<1> QED
  BY <1>1, RestIsOrdered

\* Any other page has a last row, and what it leaves comes after that one in
\* the walk.
LEMMA PageHasLast ==
  ASSUME ListsInv, HasMore
  PROVE  /\ \E r \in Page : \A q \in Page : q = r \/ Precedes(r, q)
         /\ \A r \in Page, q \in Rest \ Page : Precedes(q, r)
<1>1. Page # {}
  <2>1. Rest # {}
    BY FS_EmptySet, PageAssumption DEF HasMore
  <2>2. PICK r \in Rest : \A q \in Rest : ~Precedes(r, q)
    BY <2>1, RestIsOrdered, LastRow
  <2>3. Later(r) = {}
    BY <2>2 DEF Later
  <2>4. Cardinality(Later(r)) < PageSize
    BY <2>3, FS_EmptySet, PageAssumption
  <2> QED
    BY <2>4 DEF Page, Later
<1>2. \E r \in Page : \A q \in Page : q = r \/ Precedes(r, q)
  BY <1>1, RestIsOrdered, FirstRow
<1>3. ASSUME NEW r \in Page, NEW q \in Rest \ Page PROVE Precedes(q, r)
  <2>1. Stamped(r) /\ Stamped(q) /\ r.id # q.id /\ r \in Rest /\ q \in Rest
    BY <1>3, RestIsOrdered
  <2>2. ASSUME Precedes(r, q) PROVE FALSE
    <3>1. Later(q) \in SUBSET Later(r)
      BY <2>1, <2>2, RestIsOrdered, OrderOfRows DEF Later
    <3>2. Cardinality(Later(q)) <= Cardinality(Later(r))
      BY <3>1, LaterIsFinite, FS_Subset
    <3>3. Cardinality(Later(r)) < PageSize /\ ~ (Cardinality(Later(q)) < PageSize)
      BY <1>3, <2>1 DEF Page, Later
    <3> QED
      BY <3>2, <3>3, LaterIsFinite, PageAssumption
  <2> QED
    BY <2>1, <2>2, OrderOfRows
<1> QED
  BY <1>2, <1>3

LEMMA BeginWritingStep ==
  ASSUME ListsInv, NEW w \in Writing, BeginWriting(w)
  PROVE  ListsInv'
<1> DEFINE begun == {v \in Writing : writing[v].pc # "none"}
           new == [[writing[w] EXCEPT !.pc = "begun"] EXCEPT !.at = latest']
<1>1. ListsTypeOK /\ TimesAreBounded
  BY DEF ListsInv
<1>2. /\ writing[w].pc = "none" /\ latest' \in {latest, latest + 1}
      /\ writing' = [writing EXCEPT ![w] = new]
      /\ UNCHANGED <<list, items, holds, walk>>
  BY DEF BeginWriting
<1>3. PICK n \in Nat : n = Cardinality(Writing)
  BY TimesAreNumbers
<1>4. latest \in 0 .. n /\ latest <= Cardinality(begun)
  BY <1>1, <1>3 DEF ListsTypeOK, TimesAreBounded
<1>5. new.pc = "begun" /\ new.at = latest' /\ new.rows = writing[w].rows /\ new.holds = writing[w].holds
  BY <1>1 DEF ListsTypeOK
<1> HIDE DEF new
<1>6. /\ writing'[w] = new /\ \A v \in Writing : v # w => writing'[v] = writing[v]
      /\ \A v \in Writing : writing'[v].rows = writing[v].rows
  BY <1>1, <1>2, <1>5 DEF ListsTypeOK
<1>7. begun' = begun \cup {w} /\ w \notin begun
  BY <1>2, <1>5, <1>6
<1>8. IsFiniteSet(begun) /\ Cardinality(begun') = Cardinality(begun) + 1
      /\ Cardinality(begun') <= n /\ Cardinality(begun) \in Nat
  <2>1. begun \in SUBSET Writing /\ begun' \in SUBSET Writing
    OBVIOUS
  <2> HIDE DEF begun
  <2>2. IsFiniteSet(begun) /\ Cardinality(begun) \in Nat
    BY <2>1, WritingAssumption, FS_Subset, FS_CardinalityType
  <2>3. Cardinality(begun') = Cardinality(begun) + 1
    BY <1>7, <2>2, FS_AddElement
  <2>4. Cardinality(begun') <= n
    BY <1>3, <2>1, WritingAssumption, FS_Subset
  <2> QED
    BY <2>2, <2>3, <2>4
<1>9. latest' \in 0 .. n /\ latest' <= Cardinality(begun')
  BY <1>2, <1>4, <1>8
<1>10. new \in [pc: {"none", "begun", "writes", "over"}, at: 0 .. Cardinality(Writing),
                rows: SUBSET ListRow, holds: 0 .. MostMoney]
  BY <1>1, <1>3, <1>9 DEF ListsTypeOK, new
<1>11. ListsTypeOK'
  BY <1>1, <1>2, <1>3, <1>9, <1>10 DEF ListsTypeOK, MayBeAsked
<1>12. TimesAreBounded'
  BY <1>1, <1>2, <1>6, <1>9 DEF TimesAreBounded
<1>13. IdsAreUnique'
  BY <1>2, <1>6 DEF ListsInv, IdsAreUnique
<1>14. Walked'
  BY <1>2 DEF ListsInv, Walked, PastCursor, Fits, EntryFits, InvoiceFits, NotificationFits
<1> QED
  BY <1>11, <1>12, <1>13, <1>14 DEF ListsInv

LEMMA WriteRowStep ==
  ASSUME ListsInv, NEW w \in Writing, NEW id \in RowId, NEW state \in FirstStates(list.name),
         NEW amount \in Amount, WriteRow(w, id, state, amount)
  PROVE  ListsInv'
<1> DEFINE before == IF writing[w].pc = "begun" THEN holds ELSE writing[w].holds
           row == [id |-> id, at |-> writing[w].at, after |-> before + amount, state |-> state]
           new == [[[writing[w] EXCEPT !.pc = "writes"] EXCEPT !.rows = @ \cup {row}]
                     EXCEPT !.holds = before + amount]
<1>1. ListsTypeOK /\ TimesAreBounded /\ IdsAreUnique
  BY DEF ListsInv
<1>2. /\ writing[w].pc # "none" /\ id \notin Given
      /\ before + amount \in 0 .. MostMoney
      /\ writing' = [writing EXCEPT ![w] = new]
      /\ UNCHANGED <<list, items, latest, holds, walk>>
  BY DEF WriteRow
<1>3. state \in Status
  BY <1>1 DEF ListsTypeOK, List, FirstStates, Status, StatesOf
<1>4. row \in ListRow /\ row.id = id
  BY <1>1, <1>2, <1>3 DEF ListsTypeOK, ListRow
<1>5. /\ \A r \in items : r.id # id
      /\ \A v \in Writing : \A r \in writing[v].rows : r.id # id
      /\ id \notin walk.seen
  BY <1>2 DEF Given
<1> HIDE DEF row
<1>6. /\ new \in [pc: {"none", "begun", "writes", "over"}, at: 0 .. Cardinality(Writing),
                  rows: SUBSET ListRow, holds: 0 .. MostMoney]
      /\ new.pc = "writes" /\ new.rows = writing[w].rows \cup {row}
  BY <1>1, <1>2, <1>4 DEF ListsTypeOK
<1> HIDE DEF new, before
<1>7. writing'[w] = new /\ \A v \in Writing : v # w => writing'[v] = writing[v]
  BY <1>1, <1>2 DEF ListsTypeOK
<1>8. ListsTypeOK'
  BY <1>1, <1>2, <1>6 DEF ListsTypeOK, MayBeAsked
<1>9. TimesAreBounded'
  <2>1. {v \in Writing : writing[v].pc # "none"}' = {v \in Writing : writing[v].pc # "none"}
    BY <1>2, <1>6, <1>7
  <2>2. IsFiniteSet(writing[w].rows \cup {row})
    BY <1>1, FS_AddElement DEF TimesAreBounded
  <2>3. \A v \in Writing : IsFiniteSet(writing'[v].rows)
    BY <1>1, <1>6, <1>7, <2>2 DEF TimesAreBounded
  <2> QED
    BY <1>1, <1>2, <2>1, <2>3 DEF TimesAreBounded
<1>10. IdsAreUnique'
  <2>1. \A v \in Writing : \A r \in writing'[v].rows : r \in writing[v].rows \/ (v = w /\ r = row)
    BY <1>6, <1>7
  <2> QED
    BY <1>1, <1>2, <1>4, <1>5, <2>1 DEF IdsAreUnique
<1>11. Walked'
  BY <1>2 DEF ListsInv, Walked, PastCursor, Fits, EntryFits, InvoiceFits, NotificationFits
<1> QED
  BY <1>8, <1>9, <1>10, <1>11 DEF ListsInv

LEMMA EndWritingStep ==
  ASSUME ListsInv, NEW w \in Writing, NEW commits \in BOOLEAN, EndWriting(w, commits)
  PROVE  ListsInv'
<1> DEFINE new == [NotBegun EXCEPT !.pc = "over"]
<1>1. ListsTypeOK /\ TimesAreBounded /\ IdsAreUnique /\ Walked
  BY DEF ListsInv
<1>2. /\ writing[w].pc # "none" /\ writing' = [writing EXCEPT ![w] = new]
      /\ \/ items' = items \cup writing[w].rows /\ holds' = writing[w].holds
         \/ UNCHANGED <<items, holds>>
      /\ UNCHANGED <<list, latest, walk>>
  BY DEF EndWriting
<1>3. PICK n \in Nat : n = Cardinality(Writing)
  BY TimesAreNumbers
<1>4. /\ new \in [pc: {"none", "begun", "writes", "over"}, at: 0 .. Cardinality(Writing),
                  rows: SUBSET ListRow, holds: 0 .. MostMoney]
      /\ new.pc = "over" /\ new.rows = {}
  BY <1>3, WritingAssumption DEF NotBegun
<1> HIDE DEF new
<1>5. writing'[w] = new /\ \A v \in Writing : v # w => writing'[v] = writing[v]
  BY <1>1, <1>2 DEF ListsTypeOK
<1>6. ListsTypeOK'
  BY <1>1, <1>2, <1>4 DEF ListsTypeOK, MayBeAsked
<1>7. TimesAreBounded'
  <2>1. {v \in Writing : writing[v].pc # "none"}' = {v \in Writing : writing[v].pc # "none"}
    BY <1>2, <1>4, <1>5
  <2>2. \A v \in Writing : IsFiniteSet(writing'[v].rows)
    BY <1>1, <1>4, <1>5, FS_EmptySet DEF TimesAreBounded
  <2>3. IsFiniteSet(items')
    BY <1>1, <1>2, FS_Union DEF TimesAreBounded
  <2> QED
    BY <1>1, <1>2, <2>1, <2>2, <2>3 DEF TimesAreBounded
<1>8. /\ items \subseteq items'
      /\ \A r \in items' : r \in items \/ r \in writing[w].rows
      /\ \A v \in Writing : \A r \in writing'[v].rows : v # w /\ r \in writing[v].rows
  BY <1>2, <1>4, <1>5
<1>9. IdsAreUnique'
  BY <1>1, <1>2, <1>8 DEF IdsAreUnique
<1>10. Walked'
  <2>1. \A r \in writing[w].rows : r.id \notin walk.seen
    BY <1>1 DEF IdsAreUnique
  <2> QED
    BY <1>1, <1>2, <1>8, <2>1 DEF Walked, PastCursor, Fits, EntryFits, InvoiceFits, NotificationFits
<1> QED
  BY <1>6, <1>7, <1>9, <1>10 DEF ListsInv

\* Whatever was due and is kept due still fits.
LEMMA ChangeStateStep ==
  ASSUME ListsInv, NEW r \in items, NEW state \in StatesOf(list.name), ChangeState(r, state)
  PROVE  ListsInv'
<1> DEFINE new == [r EXCEPT !.state = state]
<1>1. ListsTypeOK /\ TimesAreBounded /\ IdsAreUnique /\ Walked
  BY DEF ListsInv
<1>2. /\ state \in NextStates(r.state) /\ items' = (items \ {r}) \cup {new}
      /\ walk' = [walk EXCEPT !.due = IF list.status = "any" THEN @ ELSE @ \ {r.id}]
      /\ UNCHANGED <<list, writing, latest, holds>>
  BY DEF ChangeState
<1>3. state \in Status /\ state # "draft" /\ r \in ListRow
  BY <1>1, <1>2 DEF ListsTypeOK, List, StatesOf, Status, NextStates
<1>4. /\ new \in ListRow /\ new.id = r.id /\ new.at = r.at /\ new.state = state
  BY <1>3 DEF ListRow
<1> HIDE DEF new
<1>5. /\ walk'.pc = walk.pc /\ walk'.last = walk.last /\ walk'.seen = walk.seen
      /\ walk'.again = walk.again /\ walk'.due \subseteq walk.due
      /\ list.status # "any" => r.id \notin walk'.due
      /\ walk.pc = "none" => walk' = walk
  <2>1. walk.pc = "none" => walk.due = {}
    BY <1>1 DEF Walked, NoWalk
  <2> QED
    BY <1>1, <1>2, <2>1 DEF Walked, NoWalk
<1>6. ListsTypeOK'
  BY <1>1, <1>2, <1>4, <1>5 DEF ListsTypeOK, MayBeAsked
<1>7. TimesAreBounded'
  <2>1. IsFiniteSet(items \ {r})
    BY <1>1, FS_RemoveElement DEF TimesAreBounded
  <2>2. IsFiniteSet(items')
    BY <1>2, <2>1, FS_AddElement
  <2> QED
    BY <1>1, <1>2, <2>2 DEF TimesAreBounded
<1>8. IdsAreUnique'
  BY <1>1, <1>2, <1>4, <1>5 DEF IdsAreUnique
<1>9. Walked'
  <2>1. \A q : PastCursor(q)' = PastCursor(q)
    BY <1>5 DEF PastCursor
  <2>2. \A q : Fits(q)' = Fits(q)
    BY <1>2 DEF Fits, EntryFits, InvoiceFits, NotificationFits
  <2>3. PastCursor(new) = PastCursor(r)
    BY <1>4 DEF PastCursor, Precedes
  <2>4. list.status = "any" => Fits(new)
    BY <1>1, <1>3, <1>4 DEF Fits, EntryFits, InvoiceFits, NotificationFits, ListsTypeOK, List
  <2>5. ASSUME walk'.pc = "walks", NEW id \in walk'.due \ walk'.seen
        PROVE  \E q \in items' : q.id = id /\ Fits(q)' /\ PastCursor(q)'
    <3>1. PICK q \in items : q.id = id /\ Fits(q) /\ PastCursor(q)
      BY <1>1, <1>5, <2>5 DEF Walked
    <3>2. CASE q = r
      BY <1>2, <1>4, <1>5, <2>1, <2>2, <2>3, <2>4, <2>5, <3>1, <3>2
    <3>3. CASE q # r
      BY <1>2, <2>1, <2>2, <3>1, <3>3
    <3> QED
      BY <3>2, <3>3
  <2>6. ASSUME walk'.pc = "walks", NEW q \in items', q.id \in walk'.seen
        PROVE  ~PastCursor(q)'
    BY <1>1, <1>2, <1>4, <1>5, <2>1, <2>3, <2>6 DEF Walked
  <2>7. walk'.pc = "done" => walk'.due \subseteq walk'.seen
    BY <1>1, <1>5 DEF Walked
  <2> QED
    BY <1>1, <1>5, <2>5, <2>6, <2>7 DEF Walked
<1> QED
  BY <1>6, <1>7, <1>8, <1>9 DEF ListsInv

LEMMA DeleteDraftStep ==
  ASSUME ListsInv, NEW r \in items, DeleteDraft(r)
  PROVE  ListsInv'
<1>1. ListsTypeOK /\ TimesAreBounded /\ IdsAreUnique /\ Walked
  BY DEF ListsInv
<1>2. /\ items' = items \ {r} /\ walk' = [walk EXCEPT !.due = @ \ {r.id}]
      /\ UNCHANGED <<list, writing, latest, holds>>
  BY DEF DeleteDraft
<1>3. /\ walk'.pc = walk.pc /\ walk'.last = walk.last /\ walk'.seen = walk.seen
      /\ walk'.again = walk.again /\ walk'.due = walk.due \ {r.id}
      /\ walk.pc = "none" => walk' = walk
  BY <1>1, <1>2 DEF Walked, NoWalk
<1>4. ListsTypeOK'
  BY <1>1, <1>2, <1>3 DEF ListsTypeOK, MayBeAsked
<1>5. TimesAreBounded'
  BY <1>1, <1>2, FS_RemoveElement DEF TimesAreBounded
<1>6. IdsAreUnique'
  BY <1>1, <1>2, <1>3 DEF IdsAreUnique
<1>7. Walked'
  <2>1. \A q : PastCursor(q)' = PastCursor(q) /\ Fits(q)' = Fits(q)
    BY <1>2, <1>3 DEF PastCursor, Fits, EntryFits, InvoiceFits, NotificationFits
  <2>2. ASSUME walk'.pc = "walks", NEW id \in walk'.due \ walk'.seen
        PROVE  \E q \in items' : q.id = id /\ Fits(q)' /\ PastCursor(q)'
    <3>1. PICK q \in items : q.id = id /\ Fits(q) /\ PastCursor(q)
      BY <1>1, <1>3, <2>2 DEF Walked
    <3> QED
      BY <1>2, <1>3, <2>1, <2>2, <3>1
  <2> QED
    BY <1>1, <1>2, <1>3, <2>1, <2>2 DEF Walked
<1> QED
  BY <1>4, <1>5, <1>6, <1>7 DEF ListsInv

LEMMA StartWalkStep ==
  ASSUME ListsInv, StartWalk
  PROVE  ListsInv'
<1> DEFINE due == {r.id : r \in {q \in items : Fits(q)}}
<1>1. ListsTypeOK /\ TimesAreBounded /\ IdsAreUnique /\ Walked
  BY DEF ListsInv
<1>2. walk' = [[NoWalk EXCEPT !.pc = "walks"] EXCEPT !.due = due]
      /\ UNCHANGED <<list, items, writing, latest, holds>>
  BY DEF StartWalk
<1> HIDE DEF due
<1>3. /\ walk'.pc = "walks" /\ walk'.last = NoRowRead /\ walk'.seen = {}
      /\ walk'.again = FALSE /\ walk'.due = due
  BY <1>2 DEF NoWalk
<1>4. due \subseteq RowId
  BY <1>1, TimesAreNumbers DEF due, ListsTypeOK
<1>5. ListsTypeOK'
  <2>1. walk' = [pc |-> "walks", last |-> NoRowRead, seen |-> {}, due |-> due, again |-> FALSE]
    BY <1>2 DEF NoWalk
  <2>2. walk' \in [pc: {"none", "walks", "done"}, last: Cursor \cup {NoRowRead},
                   seen: SUBSET RowId, due: SUBSET RowId, again: BOOLEAN]
    BY <1>4, <2>1
  <2> QED
    BY <1>1, <1>2, <2>2 DEF ListsTypeOK, MayBeAsked
<1>6. TimesAreBounded' /\ IdsAreUnique'
  BY <1>1, <1>2, <1>3 DEF TimesAreBounded, IdsAreUnique
<1>7. Walked'
  <2>1. \A q : PastCursor(q)' /\ Fits(q)' = Fits(q)
    BY <1>2, <1>3 DEF PastCursor, Fits, EntryFits, InvoiceFits, NotificationFits
  <2>2. \A id \in due : \E r \in items : r.id = id /\ Fits(r)
    BY DEF due
  <2> QED
    BY <1>2, <1>3, <2>1, <2>2 DEF Walked
<1> QED
  BY <1>5, <1>6, <1>7 DEF ListsInv

LEMMA ReadPageStep ==
  ASSUME ListsInv, ReadPage
  PROVE  ListsInv'
<1> DEFINE IsLast(r) == r \in Page /\ \A q \in Page : q = r \/ Precedes(r, q)
           r0 == CHOOSE r \in Page : \A q \in Page : q = r \/ Precedes(r, q)
           shown == {r.id : r \in Page}
<1>1. ListsTypeOK /\ TimesAreBounded /\ IdsAreUnique /\ Walked /\ walk.pc = "walks"
  BY DEF ListsInv, ReadPage
<1>2. /\ walk'.pc = IF HasMore THEN "walks" ELSE "done"
      /\ walk'.last = IF HasMore THEN [id |-> r0.id, at |-> r0.at] ELSE walk.last
      /\ walk'.seen = walk.seen \cup shown
      /\ walk'.again = (walk.again \/ \E r \in Page : r.id \in walk.seen)
      /\ walk'.due = walk.due
      /\ walk' = [pc |-> walk'.pc, last |-> walk'.last, seen |-> walk'.seen,
                  due |-> walk'.due, again |-> walk'.again]
      /\ UNCHANGED <<list, items, writing, latest, holds>>
  <2> DEFINE seenAgain == \E r \in Page : r.id \in walk.seen
  <2>1. /\ walk' = [walk EXCEPT
               !.pc    = IF HasMore THEN "walks" ELSE "done",
               !.last  = IF ~HasMore THEN @ ELSE [id |-> r0.id, at |-> r0.at],
               !.seen  = @ \cup shown,
               !.again = @ \/ seenAgain]
        /\ UNCHANGED <<list, items, writing, latest, holds>>
    BY DEF ReadPage
  <2>2. seenAgain \in BOOLEAN
    OBVIOUS
  <2> HIDE DEF r0, shown, seenAgain
  <2>3. /\ walk'.pc = IF HasMore THEN "walks" ELSE "done"
        /\ walk'.last = IF HasMore THEN [id |-> r0.id, at |-> r0.at] ELSE walk.last
        /\ walk'.seen = walk.seen \cup shown
        /\ walk'.due = walk.due
    BY <1>1, <2>1 DEF ListsTypeOK
  <2>4. walk'.again = (walk.again \/ seenAgain)
    BY <1>1, <2>1, <2>2 DEF ListsTypeOK
  <2>5. walk' = [pc |-> walk'.pc, last |-> walk'.last, seen |-> walk'.seen,
                 due |-> walk'.due, again |-> walk'.again]
    BY <1>1, <2>1 DEF ListsTypeOK
  <2> QED
    BY <2>1, <2>3, <2>4, <2>5 DEF seenAgain
<1>3. HasMore => IsLast(r0)
  BY PageHasLast
<1> HIDE DEF r0
<1>4. ~ \E r \in Page : r.id \in walk.seen
  BY <1>1, RestIsOrdered DEF Walked
<1>5. shown \subseteq RowId /\ walk'.last \in Cursor \cup {NoRowRead}
  BY <1>1, <1>2, <1>3, RestIsOrdered DEF ListsTypeOK, Cursor
<1>6. ListsTypeOK'
  <2>1. /\ walk'.pc \in {"none", "walks", "done"} /\ walk'.last \in Cursor \cup {NoRowRead}
        /\ walk'.seen \in SUBSET RowId /\ walk'.due \in SUBSET RowId /\ walk'.again \in BOOLEAN
    BY <1>1, <1>2, <1>4, <1>5 DEF ListsTypeOK, Walked
  <2>2. walk' \in [pc: {"none", "walks", "done"}, last: Cursor \cup {NoRowRead},
                   seen: SUBSET RowId, due: SUBSET RowId, again: BOOLEAN]
    BY <1>2, <2>1
  <2> QED
    BY <1>1, <1>2, <2>2 DEF ListsTypeOK, MayBeAsked
<1>7. TimesAreBounded'
  BY <1>1, <1>2 DEF TimesAreBounded
<1>8. IdsAreUnique'
  <2>1. \A w \in Writing : \A q \in writing[w].rows : q.id \notin shown
    BY <1>1, RestIsOrdered DEF IdsAreUnique
  <2> HIDE DEF shown
  <2> QED
    BY <1>1, <1>2, <2>1 DEF IdsAreUnique
<1>9. CASE ~HasMore
  <2>1. \A id \in walk.due \ walk.seen : id \in shown
    BY <1>1, <1>9, LastPage DEF Walked, Rest
  <2> HIDE DEF shown
  <2>2. Walked'
    BY <1>1, <1>2, <1>4, <1>9, <2>1 DEF Walked
  <2> QED
    BY <1>6, <1>7, <1>8, <2>2 DEF ListsInv
<1>10. CASE HasMore
  <2>1. /\ r0 \in Page /\ r0 \in Rest /\ r0 \in items /\ PastCursor(r0) /\ Stamped(r0)
        /\ walk'.last # NoRowRead /\ walk'.last.id = r0.id /\ walk'.last.at = r0.at
    <3>1. r0 \in Page /\ r0 \in Rest /\ r0 \in items /\ PastCursor(r0) /\ Stamped(r0)
      BY <1>3, <1>10, RestIsOrdered
    <3>2. [id |-> r0.id, at |-> r0.at] \in Cursor
      BY <3>1, RestIsOrdered DEF Cursor
    <3> QED
      BY <1>2, <1>10, <3>1, <3>2, NoRowReadAssumption
  <2>2. \A q : PastCursor(q)' <=> Precedes(q, r0)
    BY <2>1 DEF PastCursor, Precedes
  <2>3. \A q : Fits(q)' = Fits(q)
    BY <1>2 DEF Fits, EntryFits, InvoiceFits, NotificationFits
  <2>4. ASSUME NEW q \in items, q.id \in walk.seen \cup shown PROVE ~Precedes(q, r0)
    <3>1. CASE q.id \in shown
      <4>1. q \in Page
        BY <3>1, RestIsOrdered
      <4> QED
        BY <1>3, <1>10, <2>1, <4>1, RestIsOrdered, OrderOfRows
    <3>2. CASE q.id \in walk.seen
      <4>1. ~PastCursor(q)
        BY <1>1, <3>2 DEF Walked
      <4>2. walk.last # NoRowRead /\ ~Precedes(q, walk.last) /\ Precedes(r0, walk.last)
        BY <2>1, <4>1 DEF PastCursor
      <4> QED
        BY <2>1, <4>2, RestIsOrdered, OrderOfRows
    <3> QED
      BY <2>4, <3>1, <3>2
  <2>5. ASSUME NEW id \in walk.due \ (walk.seen \cup shown)
        PROVE  \E q \in items : q.id = id /\ Fits(q) /\ Precedes(q, r0)
    <3>1. PICK q \in items : q.id = id /\ Fits(q) /\ PastCursor(q)
      BY <1>1 DEF Walked
    <3>2. q \in Rest \ Page
      BY <2>5, <3>1 DEF Rest
    <3> QED
      BY <1>10, <2>1, <3>1, <3>2, PageHasLast
  <2> HIDE DEF shown
  <2>6. Walked'
    BY <1>1, <1>2, <1>4, <1>10, <2>2, <2>3, <2>4, <2>5 DEF Walked
  <2> QED
    BY <1>6, <1>7, <1>8, <2>6 DEF ListsInv
<1> QED
  BY <1>9, <1>10

LEMMA ListsInitInv == ListsInit => ListsInv
<1> SUFFICES ASSUME ListsInit PROVE ListsInv
  OBVIOUS
<1>1. PICK n \in Nat : n = Cardinality(Writing)
  BY TimesAreNumbers
<1>2. list \in List /\ MayBeAsked(list)
  BY DEF ListsInit
<1>3. ListsTypeOK
  BY <1>1, <1>2, WritingAssumption DEF ListsInit, ListsTypeOK, NotBegun, NoWalk
<1>4. TimesAreBounded
  <2>1. {w \in Writing : writing[w].pc # "none"} = {}
    BY DEF ListsInit, NotBegun
  <2>2. Cardinality({w \in Writing : writing[w].pc # "none"}) = 0
    BY <2>1, FS_EmptySet
  <2>3. latest = 0 /\ IsFiniteSet(items) /\ \A w \in Writing : IsFiniteSet(writing[w].rows)
    BY FS_EmptySet DEF ListsInit, NotBegun
  <2> QED
    BY <2>2, <2>3 DEF TimesAreBounded
<1>5. IdsAreUnique /\ Walked
  BY DEF ListsInit, IdsAreUnique, Walked, NotBegun, NoWalk
<1> QED
  BY <1>3, <1>4, <1>5 DEF ListsInv

LEMMA ListsStep ==
  ASSUME ListsInv, [ListsNext]_lists
  PROVE  ListsInv'
<1>1. CASE UNCHANGED lists
  <2>1. ListsTypeOK'
    BY <1>1 DEF lists, ListsInv, ListsTypeOK, MayBeAsked
  <2>2. TimesAreBounded' /\ IdsAreUnique'
    BY <1>1 DEF lists, ListsInv, TimesAreBounded, IdsAreUnique
  <2>3. \A q : PastCursor(q)' = PastCursor(q) /\ Fits(q)' = Fits(q)
    BY <1>1 DEF lists, PastCursor, Fits, EntryFits, InvoiceFits, NotificationFits
  <2>4. Walked'
    BY <1>1, <2>3 DEF lists, ListsInv, Walked
  <2> QED
    BY <2>1, <2>2, <2>4 DEF ListsInv
<1> QED
  BY <1>1, BeginWritingStep, WriteRowStep, EndWritingStep, ChangeStateStep, DeleteDraftStep,
    StartWalkStep, ReadPageStep
  DEF ListsNext, ListAccountTransactions, ListInvoices, ListNotifications

\* A walk through a list is complete and repeats nothing, for any rows, times,
\* ids, filters and page sizes.
THEOREM PagesAreComplete == ListsSpec => []PagesComplete
<1>1. ListsInv => PagesComplete
  BY DEF ListsInv, Walked, PagesComplete
<1>2. ListsInv /\ [ListsNext]_lists => ListsInv'
  BY ListsStep
<1> QED
  BY <1>1, <1>2, ListsInitInv, PTL DEF ListsSpec

(***************************************************************************)
(* Clients.  A score compares fractions; each step below multiplies them   *)
(* out.                                                                    *)
(***************************************************************************)

LEMMA NearestIs ==
  ASSUME NEW a \in Nat, NEW m \in Nat \ {0}
  PROVE  /\ Nearest(a, m) \in Nat
         /\ (2 * m) * Nearest(a, m) <= 2 * a + m
         /\ 2 * a + m < (2 * m) * Nearest(a, m) + 2 * m
<1>1. 2 * a + m \in Nat /\ 2 * m \in Nat \ {0}
  OBVIOUS
<1>2. ASSUME NEW x \in Nat, NEW n \in Nat \ {0}
      PROVE  x \div n \in Nat /\ n * (x \div n) <= x /\ x < n * (x \div n) + n
  <2>1. PICK q \in Int : q = x \div n
    BY <1>2
  <2>2. n * q <= x /\ x < n * q + n
    BY <1>2, <2>1
  <2>3. q >= 0
    <3>1. SUFFICES ASSUME q + 1 <= 0 PROVE FALSE
      OBVIOUS
    <3>2. n * (q + 1) <= 0 /\ n * (q + 1) = n * q + n
      BY <1>2, <3>1
    <3> QED
      BY <1>2, <2>2, <3>2
  <2> QED
    BY <2>1, <2>2, <2>3
<1> QED
  BY <1>1, <1>2 DEF Nearest

LEMMA NearestGrows ==
  ASSUME NEW a \in Nat, NEW m \in Nat \ {0}, NEW c \in Nat, NEW n \in Nat \ {0},
         a * n <= c * m
  PROVE  Nearest(a, m) <= Nearest(c, n)
<1> DEFINE p == Nearest(a, m)
           q == Nearest(c, n)
<1>1. p \in Nat /\ q \in Nat /\ (2 * m) * p <= 2 * a + m /\ 2 * c + n < (2 * n) * q + 2 * n
  BY NearestIs
<1> HIDE DEF p, q
<1>2. SUFFICES ASSUME p >= q + 1 PROVE FALSE
  BY <1>1 DEF p, q
<1>3. 2 * (a * n) + n * m >= 2 * (n * m * p)
  <2>1. n * (2 * a + m - (2 * m) * p) >= 0
    BY <1>1
  <2>2. n * (2 * a + m - (2 * m) * p) = 2 * (a * n) + n * m - 2 * (n * m * p)
    BY <1>1
  <2>3. a * n \in Int /\ n * m \in Int /\ n * m * p \in Int
    BY <1>1
  <2> QED
    BY <2>1, <2>2, <2>3
<1>4. 2 * (c * m) + n * m < 2 * (n * m * q) + 2 * (n * m)
  <2>1. m * ((2 * n) * q + 2 * n - (2 * c + n)) > 0
    BY <1>1
  <2>2. m * ((2 * n) * q + 2 * n - (2 * c + n))
          = 2 * (n * m * q) + 2 * (n * m) - 2 * (c * m) - n * m
    BY <1>1
  <2>3. c * m \in Int /\ n * m \in Int /\ n * m * q \in Int
    BY <1>1
  <2> QED
    BY <2>1, <2>2, <2>3
<1>5. n * m * p >= n * m * q + n * m
  <2>1. n * m \in Nat
    OBVIOUS
  <2>2. (n * m) * (p - (q + 1)) >= 0
    BY <1>1, <1>2, <2>1
  <2>3. (n * m) * (p - (q + 1)) = n * m * p - n * m * q - n * m
    BY <1>1, <2>1
  <2>4. n * m * p \in Int /\ n * m * q \in Int
    BY <1>1, <2>1
  <2> QED
    BY <2>1, <2>2, <2>3, <2>4
<1>6. a * n \in Int /\ c * m \in Int /\ n * m \in Int /\ n * m * p \in Int /\ n * m * q \in Int
  BY <1>1
<1> QED
  BY <1>3, <1>4, <1>5, <1>6

LEMMA NearestWhole ==
  ASSUME NEW a \in Nat, NEW m \in Nat \ {0}, NEW k \in Nat, a <= k * m
  PROVE  Nearest(a, m) <= k
<1> DEFINE p == Nearest(a, m)
<1>1. p \in Nat /\ (2 * m) * p <= 2 * a + m
  BY NearestIs
<1> HIDE DEF p
<1>2. SUFFICES ASSUME p >= k + 1 PROVE FALSE
  BY <1>1 DEF p
<1>3. m * (p - (k + 1)) >= 0 /\ m * (p - (k + 1)) = m * p - k * m - m
  BY <1>1, <1>2
<1>4. (2 * m) * p = 2 * (m * p) /\ m * p \in Int /\ k * m \in Int
  BY <1>1
<1> QED
  BY <1>1, <1>3, <1>4

\* The marks of a client t of whose p + o invoices that came due were paid on
\* time, with o overdue, w due or open, and s marks for speed.
Marks(t, s, d, w, o) == 720 * t * w + s * d * w + 180 * (w - o) * d

LEMMA MarksRange ==
  ASSUME NEW t \in Nat, NEW s \in 0 .. 300, NEW d \in Nat \ {0}, NEW w \in Nat \ {0},
         NEW o \in Nat, t <= d, o <= w
  PROVE  /\ Marks(t, s, d, w, o) \in Nat
         /\ Marks(t, s, d, w, o) <= 100 * (12 * d * w)
<1>1. t * w \in Nat /\ t * w <= d * w
  <2>1. (d - t) * w >= 0 /\ (d - t) * w = d * w - t * w
    OBVIOUS
  <2>2. t * w \in Nat /\ d * w \in Nat
    OBVIOUS
  <2> QED
    BY <2>1, <2>2
<1>2. s * (d * w) \in Nat /\ s * (d * w) <= 300 * (d * w)
  <2>1. d * w \in Nat
    OBVIOUS
  <2>2. (300 - s) * (d * w) >= 0 /\ (300 - s) * (d * w) = 300 * (d * w) - s * (d * w)
    BY <2>1
  <2>3. s * (d * w) \in Nat
    BY <2>1
  <2> QED
    BY <2>1, <2>2, <2>3
<1>3. (w - o) * d \in Nat /\ (w - o) * d <= d * w
  <2>1. o * d \in Nat /\ d * w \in Nat /\ (w - o) * d = d * w - o * d
    OBVIOUS
  <2>2. (w - o) * d \in Nat
    OBVIOUS
  <2> QED
    BY <2>1, <2>2
<1>4. /\ Marks(t, s, d, w, o) = 720 * (t * w) + s * (d * w) + 180 * ((w - o) * d)
      /\ 100 * (12 * d * w) = 1200 * (d * w)
  BY DEF Marks
<1>5. d * w \in Nat
  OBVIOUS
<1> QED
  BY <1>1, <1>2, <1>3, <1>4, <1>5

\* One more is overdue.
LEMMA MarksFall ==
  ASSUME NEW t \in Nat, NEW s \in 0 .. 300, NEW d \in Nat \ {0}, NEW w \in Nat \ {0},
         NEW o \in Nat, t <= d, o + 1 <= w
  PROVE  Marks(t, s, d + 1, w, o + 1) * (12 * d * w)
           <= Marks(t, s, d, w, o) * (12 * (d + 1) * w)
<1> DEFINE e == d + 1
           v == w - o
<1>1. e \in Nat /\ v \in Nat
  OBVIOUS
<1>2. /\ Marks(t, s, e, w, o + 1) * (12 * d * w)
           = 12 * w * (720 * t * w * d + s * e * w * d + 180 * (v - 1) * e * d)
      /\ Marks(t, s, d, w, o) * (12 * e * w)
           = 12 * w * (720 * t * w * e + s * d * w * e + 180 * v * d * e)
  BY <1>1 DEF Marks
<1>3. /\ 720 * t * w * e = 720 * t * w * d + 720 * t * w
      /\ 180 * v * d * e = 180 * (v - 1) * e * d + 180 * d * e
      /\ s * d * w * e = s * e * w * d
  BY <1>1
<1> DEFINE less == 720 * t * w * d + s * e * w * d + 180 * (v - 1) * e * d
           more == 720 * t * w * e + s * d * w * e + 180 * v * d * e
<1>4. less \in Int /\ more \in Int /\ 720 * t * w \in Nat /\ 180 * d * e \in Nat
  BY <1>1
<1>5. more - less = 720 * t * w + 180 * d * e
  <2>1. /\ 720 * t * w * d \in Int /\ s * e * w * d \in Int /\ 180 * (v - 1) * e * d \in Int
        /\ s * d * w * e \in Int
    BY <1>1
  <2> QED
    BY <1>3, <1>4, <2>1
<1> HIDE DEF less, more
<1>6. 12 * w * (more - less) >= 0 /\ 12 * w * (more - less) = 12 * w * more - 12 * w * less
  BY <1>4, <1>5
<1>7. 12 * w * more \in Int /\ 12 * w * less \in Int
  BY <1>4
<1> QED
  BY <1>2, <1>6, <1>7 DEF less, more

\* One more was paid, in time.
LEMMA MarksRise ==
  ASSUME NEW t \in Nat, NEW s \in 0 .. 300, NEW r \in 0 .. 300, NEW d \in Nat \ {0},
         NEW w \in Nat \ {0}, NEW o \in Nat, t <= d, o <= w, s <= r
  PROVE  Marks(t, s, d, w, o) * (12 * (d + 1) * w)
           <= Marks(t + 1, r, d + 1, w, o) * (12 * d * w)
<1> DEFINE e == d + 1
           v == w - o
<1>1. e \in Nat /\ v \in Nat
  OBVIOUS
<1>2. /\ Marks(t, s, d, w, o) * (12 * e * w)
           = 12 * w * (720 * t * w * e + s * d * w * e + 180 * v * d * e)
      /\ Marks(t + 1, r, e, w, o) * (12 * d * w)
           = 12 * w * (720 * (t + 1) * w * d + r * e * w * d + 180 * v * e * d)
  BY <1>1 DEF Marks
<1> DEFINE less == 720 * t * w * e + s * d * w * e + 180 * v * d * e
           more == 720 * (t + 1) * w * d + r * e * w * d + 180 * v * e * d
<1>3. less \in Int /\ more \in Int
  BY <1>1
<1>4. /\ 720 * (t + 1) * w * d - 720 * t * w * e = 720 * (w * (d - t))
      /\ r * e * w * d - s * d * w * e = (r - s) * (d * w * e)
      /\ 180 * v * e * d = 180 * v * d * e
  BY <1>1
<1>5. w * (d - t) \in Nat /\ (r - s) * (d * w * e) \in Nat
  <2>1. d - t \in Nat /\ r - s \in Nat /\ d * w \in Nat
    OBVIOUS
  <2>2. \A x, y \in Nat : x * y \in Nat
    OBVIOUS
  <2>3. d * w * e \in Nat
    BY <1>1, <2>1, <2>2
  <2>4. w * (d - t) \in Nat
    BY <2>1, <2>2
  <2>5. (r - s) * (d * w * e) \in Nat
    BY <2>1, <2>2, <2>3
  <2> QED
    BY <2>4, <2>5
<1>6. more - less = 720 * (w * (d - t)) + (r - s) * (d * w * e)
  <2>1. /\ 720 * t * w * e \in Int /\ s * d * w * e \in Int /\ 180 * v * d * e \in Int
        /\ 720 * (t + 1) * w * d \in Int /\ r * e * w * d \in Int /\ 180 * v * e * d \in Int
    BY <1>1
  <2> QED
    BY <1>4, <1>5, <2>1
<1> HIDE DEF less, more
<1>7. 12 * w * (more - less) >= 0 /\ 12 * w * (more - less) = 12 * w * more - 12 * w * less
  <2>1. more - less \in Nat
    BY <1>3, <1>5, <1>6
  <2> QED
    BY <1>3, <2>1
<1>8. 12 * w * more \in Int /\ 12 * w * less \in Int
  BY <1>3
<1> QED
  BY <1>2, <1>7, <1>8 DEF less, more

\* What is counted of a client's invoices.
LEMMA BillsCounted ==
  ASSUME NEW I, IsFiniteSet(I), NEW b \in [I -> Bill]
  PROVE  /\ IsFiniteSet(OpenBills(b)) /\ IsFiniteSet(OverdueBills(b))
         /\ IsFiniteSet(PaidBills(b)) /\ IsFiniteSet(PaidOnTime(b))
         /\ Cardinality(OpenBills(b)) \in Nat /\ Cardinality(OverdueBills(b)) \in Nat
         /\ Cardinality(PaidBills(b)) \in Nat /\ Cardinality(PaidOnTime(b)) \in Nat
         /\ Cardinality(PaidOnTime(b)) <= Cardinality(PaidBills(b))
         /\ ~IsNew(b) => Cardinality(PaidBills(b)) + Cardinality(OverdueBills(b)) > 0
<1>1. /\ OpenBills(b) \subseteq I /\ OverdueBills(b) \subseteq I /\ PaidBills(b) \subseteq I
      /\ PaidOnTime(b) \subseteq PaidBills(b)
  BY DEF OpenBills, OverdueBills, PaidBills, PaidOnTime
<1>2. /\ IsFiniteSet(OpenBills(b)) /\ IsFiniteSet(OverdueBills(b)) /\ IsFiniteSet(PaidBills(b))
  BY <1>1, FS_Subset
<1>3. IsFiniteSet(PaidOnTime(b)) /\ Cardinality(PaidOnTime(b)) <= Cardinality(PaidBills(b))
  BY <1>1, <1>2, FS_Subset
<1>4. /\ Cardinality(OpenBills(b)) \in Nat /\ Cardinality(OverdueBills(b)) \in Nat
      /\ Cardinality(PaidBills(b)) \in Nat /\ Cardinality(PaidOnTime(b)) \in Nat
  BY <1>2, <1>3, FS_CardinalityType
<1>5. ~IsNew(b) => Cardinality(PaidBills(b)) # 0 \/ Cardinality(OverdueBills(b)) # 0
  BY <1>2, FS_EmptySet DEF IsNew
<1> QED
  BY <1>2, <1>3, <1>4, <1>5

\* The days that paid invoices were late, none counted below 0.
Lateness(b) == [i \in PaidBills(b) |-> IF b[i].late > 0 THEN b[i].late ELSE 0]

LEMMA DaysLateIs ==
  ASSUME NEW I, IsFiniteSet(I), NEW b \in [I -> Bill]
  PROVE  /\ SumFunctionOnSet(Lateness(b), PaidBills(b)) \in Nat
         /\ DaysLate(b) = Nearest(10 * SumFunctionOnSet(Lateness(b), PaidBills(b)),
                                  Cardinality(PaidBills(b)))
         /\ PaidBills(b) # {} => DaysLate(b) \in Nat
         /\ Speed(b) \in 0 .. 300
<1>1. IsFiniteSet(PaidBills(b)) /\ Cardinality(PaidBills(b)) \in Nat
  BY BillsCounted
<1>2. \A i \in PaidBills(b) : Lateness(b)[i] \in Nat
  BY DEF Lateness, PaidBills, Bill
<1>3. SumFunctionOnSet(Lateness(b), PaidBills(b)) \in Nat
  BY <1>1, <1>2, SumIsNat
<1>4. DaysLate(b) = Nearest(10 * SumFunctionOnSet(Lateness(b), PaidBills(b)),
                            Cardinality(PaidBills(b)))
  BY DEF DaysLate, Lateness
<1>5. ASSUME PaidBills(b) # {} PROVE DaysLate(b) \in Nat
  <2>1. Cardinality(PaidBills(b)) \in Nat \ {0}
    BY <1>1, <1>5, FS_EmptySet
  <2>2. 10 * SumFunctionOnSet(Lateness(b), PaidBills(b)) \in Nat
    BY <1>3
  <2> QED
    BY <1>4, <2>1, <2>2, NearestIs
<1>6. Speed(b) \in 0 .. 300
  BY <1>5 DEF Speed
<1> QED
  BY <1>3, <1>4, <1>5, <1>6

\* The score before the cap.
Uncapped(b) ==
  LET due    == Cardinality(PaidBills(b)) + Cardinality(OverdueBills(b))
      billed == due + Cardinality(OpenBills(b))
  IN Nearest(Marks(Cardinality(PaidOnTime(b)), Speed(b), due, billed,
                   Cardinality(OverdueBills(b))),
             12 * due * billed)

LEMMA ScoreIs ==
  ASSUME NEW I, IsFiniteSet(I), NEW b \in [I -> Bill], ~IsNew(b)
  PROVE  /\ Uncapped(b) \in 0 .. 100
         /\ Score(b) = IF LongOverdue(b) /\ Uncapped(b) > 49 THEN 49 ELSE Uncapped(b)
<1> DEFINE t == Cardinality(PaidOnTime(b))
           o == Cardinality(OverdueBills(b))
           d == Cardinality(PaidBills(b)) + o
           w == d + Cardinality(OpenBills(b))
           s == Speed(b)
<1>1. t \in Nat /\ o \in Nat /\ d \in Nat \ {0} /\ w \in Nat \ {0} /\ t <= d /\ o <= w
  BY BillsCounted
<1>2. s \in 0 .. 300
  BY DaysLateIs
<1>3. Uncapped(b) = Nearest(Marks(t, s, d, w, o), 12 * d * w)
  BY DEF Uncapped
<1>4. Score(b) = IF LongOverdue(b) /\ Uncapped(b) > 49 THEN 49 ELSE Uncapped(b)
  BY DEF Score, Uncapped, Marks
<1> HIDE DEF t, o, d, w, s
<1>5. Marks(t, s, d, w, o) \in Nat /\ Marks(t, s, d, w, o) <= 100 * (12 * d * w)
  BY <1>1, <1>2, MarksRange
<1>6. 12 * d * w \in Nat \ {0}
  BY <1>1
<1>7. Nearest(Marks(t, s, d, w, o), 12 * d * w) \in Nat
  BY <1>5, <1>6, NearestIs
<1>8. Nearest(Marks(t, s, d, w, o), 12 * d * w) <= 100
  BY <1>5, <1>6, NearestWhole
<1> QED
  BY <1>3, <1>4, <1>7, <1>8

\* An open invoice turns overdue.
LEMMA OverdueCosts ==
  ASSUME NEW I, IsFiniteSet(I), NEW b \in [I -> Bill], ~IsNew(b), NEW i \in OpenBills(b),
         NEW days \in Nat \ {0}
  PROVE  Score([b EXCEPT ![i].late = days]) <= Score(b)
<1> DEFINE c == [b EXCEPT ![i].late = days]
<1>1. i \in I /\ b[i].status = "open" /\ b[i].late <= 0 /\ b[i].late \in Int
  BY DEF OpenBills, Bill
<1>2. /\ c \in [I -> Bill] /\ c[i].status = "open" /\ c[i].late = days
      /\ \A j \in I \ {i} : c[j] = b[j]
  BY <1>1 DEF Bill
<1> HIDE DEF c
<1>3. /\ OverdueBills(c) = OverdueBills(b) \cup {i} /\ i \notin OverdueBills(b)
      /\ OpenBills(c) = OpenBills(b) \ {i}
      /\ PaidBills(c) = PaidBills(b) /\ PaidOnTime(c) = PaidOnTime(b)
      /\ i \notin PaidBills(b)
  BY <1>1, <1>2 DEF OverdueBills, OpenBills, PaidBills, PaidOnTime
<1>4. ~IsNew(c)
  BY <1>3 DEF IsNew
<1>5. Speed(c) = Speed(b)
  <2>1. \A j \in PaidBills(b) : c[j] = b[j]
    BY <1>2, <1>3 DEF PaidBills
  <2>2. Lateness(c) = Lateness(b)
    BY <1>3, <2>1 DEF Lateness
  <2>3. DaysLate(c) = DaysLate(b)
    BY <1>2, <1>3, <2>2, DaysLateIs
  <2> QED
    BY <1>3, <2>3 DEF Speed
<1>6. LongOverdue(b) => LongOverdue(c)
  BY <1>2, <1>3 DEF LongOverdue, OverdueBills
<1> DEFINE t == Cardinality(PaidOnTime(b))
           o == Cardinality(OverdueBills(b))
           d == Cardinality(PaidBills(b)) + o
           w == d + Cardinality(OpenBills(b))
           s == Speed(b)
<1>7. /\ t \in Nat /\ o \in Nat /\ d \in Nat \ {0} /\ w \in Nat \ {0} /\ t <= d /\ o + 1 <= w
      /\ Cardinality(OverdueBills(c)) = o + 1
      /\ Cardinality(PaidBills(c)) + Cardinality(OverdueBills(c)) = d + 1
      /\ d + 1 + Cardinality(OpenBills(c)) = w
  <2>1. IsFiniteSet(OverdueBills(b)) /\ IsFiniteSet(OpenBills(b))
    BY BillsCounted
  <2>2. Cardinality(OverdueBills(c)) = o + 1
    BY <1>3, <2>1, FS_AddElement
  <2>3. Cardinality(OpenBills(c)) = Cardinality(OpenBills(b)) - 1
    BY <1>3, <2>1, FS_RemoveElement
  <2>4. Cardinality(OpenBills(c)) \in Nat
    BY <1>2, BillsCounted
  <2> QED
    BY <1>3, <2>2, <2>3, <2>4, BillsCounted
<1>8. s \in 0 .. 300
  BY DaysLateIs
<1>9. /\ Uncapped(b) = Nearest(Marks(t, s, d, w, o), 12 * d * w)
      /\ Uncapped(c) = Nearest(Marks(t, s, d + 1, w, o + 1), 12 * (d + 1) * w)
  BY <1>3, <1>5, <1>7 DEF Uncapped
<1> HIDE DEF t, o, d, w, s
<1>10. Uncapped(c) <= Uncapped(b)
  <2>1. 12 * d * w \in Nat \ {0} /\ 12 * (d + 1) * w \in Nat \ {0} /\ d + 1 \in Nat \ {0}
    BY <1>7
  <2>2. Marks(t, s, d, w, o) \in Nat
    <3>1. o <= w
      BY <1>7
    <3> QED
      BY <1>7, <1>8, <3>1, MarksRange
  <2>3. Marks(t, s, d + 1, w, o + 1) \in Nat
    <3>1. t <= d + 1 /\ o + 1 \in Nat
      BY <1>7
    <3> QED
      BY <1>7, <1>8, <2>1, <3>1, MarksRange
  <2>4. Marks(t, s, d + 1, w, o + 1) * (12 * d * w) <= Marks(t, s, d, w, o) * (12 * (d + 1) * w)
    BY <1>7, <1>8, MarksFall
  <2> QED
    BY <1>9, <2>1, <2>2, <2>3, <2>4, NearestGrows
<1>11. Uncapped(b) \in Nat /\ Uncapped(c) \in Nat
  BY <1>2, <1>4, ScoreIs
<1>12. Score(c) <= Score(b)
  BY <1>2, <1>4, <1>6, <1>10, <1>11, ScoreIs
<1> QED
  BY <1>12 DEF c

\* An open invoice is paid in time.
LEMMA PayingPays ==
  ASSUME NEW I, IsFiniteSet(I), NEW b \in [I -> Bill], ~IsNew(b), NEW i \in OpenBills(b)
  PROVE  Score([b EXCEPT ![i].status = "paid"]) >= Score(b)
<1> DEFINE c == [b EXCEPT ![i].status = "paid"]
<1>1. i \in I /\ b[i].status = "open" /\ b[i].late <= 0 /\ b[i].late \in Int
  BY DEF OpenBills, Bill
<1>2. /\ c \in [I -> Bill] /\ c[i].status = "paid" /\ c[i].late = b[i].late
      /\ \A j \in I \ {i} : c[j] = b[j]
  BY <1>1 DEF Bill
<1> HIDE DEF c
<1>3. /\ PaidBills(c) = PaidBills(b) \cup {i} /\ i \notin PaidBills(b)
      /\ PaidOnTime(c) = PaidOnTime(b) \cup {i} /\ i \notin PaidOnTime(b)
      /\ OpenBills(c) = OpenBills(b) \ {i}
      /\ OverdueBills(c) = OverdueBills(b) /\ i \notin OverdueBills(b)
  BY <1>1, <1>2 DEF OverdueBills, OpenBills, PaidBills, PaidOnTime
<1>4. ~IsNew(c)
  BY <1>3 DEF IsNew
<1>5. Speed(b) <= Speed(c)
  <2>1. CASE PaidBills(b) = {}
    <3>1. Speed(b) = 0 /\ Speed(c) \in 0 .. 300
      BY <1>2, <2>1, DaysLateIs DEF Speed
    <3> QED
      BY <3>1
  <2>2. CASE PaidBills(b) # {}
    <3> DEFINE sum == SumFunctionOnSet(Lateness(b), PaidBills(b))
               p == Cardinality(PaidBills(b))
    <3>1. IsFiniteSet(PaidBills(b)) /\ p \in Nat \ {0} /\ Cardinality(PaidBills(c)) = p + 1
      <4>1. IsFiniteSet(PaidBills(b)) /\ p \in Nat
        BY BillsCounted
      <4>2. p # 0
        BY <2>2, <4>1, FS_EmptySet
      <4>3. Cardinality(PaidBills(c)) = p + 1
        BY <1>3, <4>1, FS_AddElement
      <4> QED
        BY <4>1, <4>2, <4>3
    <3>2. SumFunctionOnSet(Lateness(c), PaidBills(c)) = sum
      <4>1. \A j \in PaidBills(b) : c[j] = b[j] /\ j \in PaidBills(c)
        BY <1>2, <1>3 DEF PaidBills
      <4>2. \A j \in PaidBills(b) : Lateness(c)[j] = Lateness(b)[j]
        BY <4>1 DEF Lateness
      <4>3. Lateness(c)[i] = 0
        BY <1>1, <1>2, <1>3 DEF Lateness
      <4>4. SumFunctionOnSet(Lateness(c), PaidBills(b)) = sum
        BY <3>1, <4>2, SumOfSame
      <4>5. sum \in Nat
        BY DaysLateIs
      <4>6. \A j \in PaidBills(c) : Lateness(c)[j] \in Int
        BY <1>2 DEF Lateness, PaidBills, Bill
      <4> QED
        BY <1>3, <3>1, <4>3, <4>4, <4>5, <4>6, SumWith
    <3>3. sum \in Nat
      BY DaysLateIs
    <3>4. DaysLate(b) = Nearest(10 * sum, p) /\ DaysLate(c) = Nearest(10 * sum, p + 1)
      BY <1>2, <3>1, <3>2, DaysLateIs
    <3> HIDE DEF sum, p
    <3>5. 10 * sum \in Nat /\ p + 1 \in Nat \ {0} /\ (10 * sum) * p <= (10 * sum) * (p + 1)
      <4>1. 10 * sum \in Nat /\ (10 * sum) * p \in Nat
        BY <3>1, <3>3
      <4>2. (10 * sum) * (p + 1) = (10 * sum) * p + 10 * sum
        BY <3>1, <3>3
      <4> QED
        BY <3>1, <4>1, <4>2
    <3>6. DaysLate(c) <= DaysLate(b)
      BY <3>1, <3>4, <3>5, NearestGrows
    <3>7. DaysLate(b) \in Nat /\ DaysLate(c) \in Nat
      BY <1>2, <1>3, <2>2, DaysLateIs
    <3> QED
      BY <1>3, <2>2, <3>6, <3>7 DEF Speed
  <2> QED
    BY <2>1, <2>2
<1>6. LongOverdue(c) <=> LongOverdue(b)
  BY <1>2, <1>3 DEF LongOverdue, OverdueBills
<1> DEFINE t == Cardinality(PaidOnTime(b))
           o == Cardinality(OverdueBills(b))
           d == Cardinality(PaidBills(b)) + o
           w == d + Cardinality(OpenBills(b))
           s == Speed(b)
           r == Speed(c)
<1>7. /\ t \in Nat /\ o \in Nat /\ d \in Nat \ {0} /\ w \in Nat \ {0} /\ t <= d /\ o <= w
      /\ Cardinality(PaidOnTime(c)) = t + 1
      /\ Cardinality(PaidBills(c)) + o = d + 1
      /\ d + 1 + Cardinality(OpenBills(c)) = w
  <2>1. IsFiniteSet(PaidBills(b)) /\ IsFiniteSet(PaidOnTime(b)) /\ IsFiniteSet(OpenBills(b))
    BY BillsCounted
  <2>2. Cardinality(PaidBills(c)) = Cardinality(PaidBills(b)) + 1
    BY <1>3, <2>1, FS_AddElement
  <2>3. Cardinality(PaidOnTime(c)) = t + 1
    BY <1>3, <2>1, FS_AddElement
  <2>4. Cardinality(OpenBills(c)) = Cardinality(OpenBills(b)) - 1
    BY <1>3, <2>1, FS_RemoveElement
  <2> QED
    BY <2>2, <2>3, <2>4, BillsCounted
<1>8. s \in 0 .. 300 /\ r \in 0 .. 300
  BY <1>2, DaysLateIs
<1>9. /\ Uncapped(b) = Nearest(Marks(t, s, d, w, o), 12 * d * w)
      /\ Uncapped(c) = Nearest(Marks(t + 1, r, d + 1, w, o), 12 * (d + 1) * w)
  BY <1>3, <1>7 DEF Uncapped
<1>10. s <= r
  BY <1>5
<1> HIDE DEF t, o, d, w, s, r
<1>11. Uncapped(b) <= Uncapped(c)
  <2>1. /\ 12 * d * w \in Nat \ {0} /\ 12 * (d + 1) * w \in Nat \ {0} /\ d + 1 \in Nat \ {0}
        /\ t + 1 \in Nat
    BY <1>7
  <2>2. Marks(t, s, d, w, o) \in Nat
    BY <1>7, <1>8, MarksRange
  <2>3. Marks(t + 1, r, d + 1, w, o) \in Nat
    <3>1. t + 1 <= d + 1
      BY <1>7
    <3> QED
      BY <1>7, <1>8, <2>1, <3>1, MarksRange
  <2>4. Marks(t, s, d, w, o) * (12 * (d + 1) * w) <= Marks(t + 1, r, d + 1, w, o) * (12 * d * w)
    BY <1>7, <1>8, <1>10, MarksRise
  <2> QED
    BY <1>9, <2>1, <2>2, <2>3, <2>4, NearestGrows
<1>12. Uncapped(b) \in Nat /\ Uncapped(c) \in Nat
  BY <1>2, <1>4, ScoreIs
<1>13. Score(c) >= Score(b)
  BY <1>2, <1>4, <1>6, <1>11, <1>12, ScoreIs
<1> QED
  BY <1>13 DEF c

\* A client's score is between 0 and 100, says "at risk" with an invoice long
\* overdue, does not rise when one turns overdue nor fall when one is paid in
\* time, for any invoices.
THEOREM ScoresAreFair ==
  ASSUME NEW I, IsFiniteSet(I), NEW b \in [I -> Bill], NEW days \in Nat \ {0}
  PROVE  ScoreIsFair(b, days)
<1>1. ASSUME ~IsNew(b)
      PROVE  Score(b) \in 0 .. 100
  <2>1. Uncapped(b) \in 0 .. 100
    BY <1>1, ScoreIs
  <2> QED
    BY <1>1, <2>1, ScoreIs
<1>2. ASSUME ~IsNew(b), LongOverdue(b)
      PROVE  Label(b) = "at_risk"
  <2>1. Uncapped(b) \in 0 .. 100
    BY <1>2, ScoreIs
  <2>2. Score(b) \in 0 .. 49
    BY <1>2, <2>1, ScoreIs
  <2> QED
    BY <1>2, <2>2 DEF Label
<1> QED
  BY <1>1, <1>2, OverdueCosts, PayingPays DEF ScoreIsFair

=============================================================================
