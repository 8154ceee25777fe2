------------------------------ MODULE Sessions ------------------------------
(***************************************************************************)
(* How one user signs in and stays signed in (controllers/authController,  *)
(* twoFactorController and passwordResetController, utils/session, jwt and *)
(* totp).                                                                  *)
(*                                                                         *)
(* A session is a row of refresh_tokens and a pair of cookies.  The access *)
(* cookie is checked without a look at the database and so outlives the    *)
(* row.  Handlers that open a session decide in one statement, or one DB   *)
(* transaction, and store the row in another: between the two another      *)
(* device may sign out, turn two-factor on or off, or reset the password.  *)
(*                                                                         *)
(* Passwords, secrets and codes are their numbers: password n is the one   *)
(* the n-th reset set, secret n the n-th that was generated, the code of a *)
(* secret at a time step is the pair of the two.  Users are never deleted. *)
(***************************************************************************)
EXTENDS Integers

CONSTANTS
  Call,         \* requests that can be under way at once
  Browser,      \* the user's devices
  None,         \* no cookie, no row
  Drift,        \* DRIFT_STEPS
  FreshFor,     \* TWO_FACTOR_FRESH_SECONDS, in time steps
  ResendAfter,  \* RESEND_AFTER_SECONDS, in time steps
  CodeLife,     \* CODE_MINUTES, in time steps
  CodeTries,    \* CODE_TRIES
  MaxSessions,  \* bound: sessions that are ever opened
  MaxResets,    \* bound: password resets
  MaxSecrets,   \* bound: two-factor secrets that are generated
  MaxStep,      \* bound: time
  MaxLost       \* bound: requests that die and answers that are lost

ASSUME BoundAssumption ==
  /\ {Drift, FreshFor, ResendAfter, CodeLife, CodeTries} \subseteq Nat
  /\ {MaxSessions, MaxResets, MaxSecrets, MaxStep, MaxLost} \subseteq Nat
ASSUME BrowserAssumption == Browser # {}

VARIABLES
  user,     \* the users row: password, secret, secret being set up, last step
  made,     \* secrets generated so far
  session,  \* session[t]: the t-th row of refresh_tokens
  issued,   \* rows inserted so far
  jar,      \* jar[b]: the cookies of browser b
  call,     \* call[c]: a request and what it read
  reset,    \* the newest row of password_reset_codes
  now,      \* currentStep(): time in steps of 30 seconds
  won,      \* history: codes that were accepted
  lost      \* requests that died and answers that were lost

auth == <<user, made, session, issued, jar, call, reset, now, won, lost>>

\* two_factor_last_step IS NULL: before every step that is looked at.
NoStep == -Drift - 1
Step   == -Drift .. MaxStep + Drift
Secret == 1 .. MaxSecrets

User == [password: 0 .. MaxResets, secret: {0} \cup Secret, setup: {0} \cup Secret,
         lastStep: Step \cup {NoStep}]

\* What a session goes back to: the password it was opened with, whether
\* two-factor was off then, whether a code was verified since, and whether it
\* was carried past a reset (by a request under way, or by an access token).
Basis == [password: 0 .. MaxResets, off: BOOLEAN, proved: BOOLEAN, crossed: BOOLEAN]

TokenRow    == [pending: BOOLEAN, basis: Basis]
Claims == [pending: BOOLEAN, at: Step \cup {NoStep}, basis: Basis]
Jar    == [refresh: 0 .. MaxSessions, access: Claims \cup {None}]

\* issueSession's arguments, and the cookie the request came with.
CallState == [pc: {"idle", "enable", "verified", "disabled", "leave", "issue"},
              browser: Browser, refresh: 0 .. MaxSessions, pending: BOOLEAN,
              at: Step \cup {NoStep}, basis: Basis]

ResetCode == [live: BOOLEAN, tries: 0 .. CodeTries, sent: 0 .. MaxStep]

SessionsTypeOK ==
  /\ user \in User
  /\ made \in 0 .. MaxSecrets
  /\ issued \in 0 .. MaxSessions
  /\ session \in [1 .. issued -> TokenRow \cup {None}]
  /\ jar \in [Browser -> Jar]
  /\ call \in [Call -> CallState]
  /\ reset \in ResetCode \cup {None}
  /\ now \in 0 .. MaxStep
  /\ won \subseteq Secret \X Step
  /\ lost \in 0 .. MaxLost

NoBasis == [password |-> 0, off |-> TRUE, proved |-> FALSE, crossed |-> FALSE]

\* No request; which browser it came from does not matter any more.
Idle == [pc |-> "idle", browser |-> CHOOSE b \in Browser : TRUE, refresh |-> 0,
         pending |-> FALSE, at |-> NoStep, basis |-> NoBasis]

SessionsInit ==
  /\ user = [password |-> 0, secret |-> 0, setup |-> 0, lastStep |-> NoStep]
  /\ made = 0
  /\ issued = 0
  /\ session = [t \in 1 .. 0 |-> None]
  /\ jar = [b \in Browser |-> [refresh |-> 0, access |-> None]]
  /\ call = [c \in Call |-> Idle]
  /\ reset = None
  /\ now = 0
  /\ won = {}
  /\ lost = 0

(***************************************************************************)
(* Who is asking.                                                          *)
(***************************************************************************)

\* verifyAccessToken: a session that waits for its code is refused.
FullAccess(b) == jar[b].access # None /\ ~jar[b].access.pending

\* requireRecentTwoFactor.
RecentTwoFactor(b) ==
  /\ FullAccess(b)
  /\ jar[b].access.at # NoStep
  /\ now - jar[b].access.at <= FreshFor

\* A request of browser b goes on to pc, with a session to open.
Begin(c, b, pc, pending, basis) ==
  /\ call[c].pc = "idle"
  /\ call' = [call EXCEPT ![c] = [pc |-> pc, browser |-> b, refresh |-> jar[b].refresh,
                                  pending |-> pending, at |-> NoStep, basis |-> basis]]

\* What a session rests on that an access token asks for.  The token may be
\* older than the last reset.
Carried(b, proved) ==
  LET basis == jar[b].access.basis IN
  [basis EXCEPT !.proved = @ \/ proved, !.crossed = @ \/ basis.password # user.password]

(***************************************************************************)
(* Signing in and out.                                                     *)
(***************************************************************************)

\* signIn up to the comparison of the password with the row it read.
SignIn(c, b) ==
  /\ Begin(c, b, "issue", user.secret # 0,
           [password |-> user.password, off |-> user.secret = 0,
            proved |-> FALSE, crossed |-> FALSE])
  /\ UNCHANGED <<user, made, session, issued, jar, reset, now, won, lost>>

\* The row of refresh token t is there; it is deleted.
Live(t)  == t \in DOMAIN session /\ session[t] # None
Ended(t) == [s \in DOMAIN session |-> IF s = t THEN None ELSE session[s]]

Refresh_Upgrades(c, b) ==
  LET t == jar[b].refresh IN
  /\ Live(t)
  /\ session' = Ended(t)
  /\ Begin(c, b, "issue", FALSE, session[t].basis)
  /\ UNCHANGED <<user, made, issued, jar, reset, now, won, lost>>

\* refreshToken: the row is consumed by one DELETE, the user is read, and the
\* next session is as pending as the row was.  A row past its expiry, and
\* one that is gone, are refused.
Refresh(c, b) ==
  LET t == jar[b].refresh IN
  /\ Live(t)
  /\ session' = Ended(t)
  /\ Begin(c, b, "issue", session[t].pending, session[t].basis)
  /\ UNCHANGED <<user, made, issued, jar, reset, now, won, lost>>

\* logout, and signUp in a browser that is signed in: endSession, and the
\* cookies are cleared when the answer arrives.
StartLogout(c, b) ==
  /\ Begin(c, b, "leave", FALSE, NoBasis)
  /\ session' = Ended(jar[b].refresh)
  /\ UNCHANGED <<user, made, issued, jar, reset, now, won, lost>>

Logout(c) ==
  /\ call[c].pc = "leave"
  /\ jar' = [jar EXCEPT ![call[c].browser] = [refresh |-> 0, access |-> None]]
  /\ call' = [call EXCEPT ![c] = Idle]
  /\ UNCHANGED <<user, made, session, issued, reset, now, won, lost>>

\* issueSession: the row, and both cookies if the answer arrives.
IssueSession(c, arrives) ==
  LET q == call[c] IN
  /\ q.pc = "issue"
  /\ issued < MaxSessions
  /\ issued' = issued + 1
  /\ session' = [t \in 1 .. issued + 1 |->
                   IF t = issued + 1
                   THEN [pending |-> q.pending, basis |-> q.basis]
                   ELSE session[t]]
  /\ IF arrives
     THEN /\ jar' = [jar EXCEPT ![q.browser] =
                       [refresh |-> issued + 1,
                        access  |-> [pending |-> q.pending, at |-> q.at, basis |-> q.basis]]]
          /\ lost' = lost
     ELSE /\ lost < MaxLost
          /\ lost' = lost + 1
          /\ jar' = jar
  /\ call' = [call EXCEPT ![c] = Idle]
  /\ UNCHANGED <<user, made, reset, now, won>>

(***************************************************************************)
(* Two-factor.                                                             *)
(***************************************************************************)

\* enableTwoFactor: the check is made on a read without a lock ...
StartEnable(c, b) ==
  /\ FullAccess(b)
  /\ user.secret = 0
  /\ Begin(c, b, "enable", FALSE, NoBasis)
  /\ UNCHANGED <<user, made, session, issued, jar, reset, now, won, lost>>

\* ... and a fresh secret is stored, perhaps beside one that was confirmed in
\* between.
Enable(c) ==
  /\ call[c].pc = "enable"
  /\ made < MaxSecrets
  /\ made' = made + 1
  /\ user' = [user EXCEPT !.setup = made + 1]
  /\ call' = [call EXCEPT ![c] = Idle]
  /\ UNCHANGED <<session, issued, jar, reset, now, won, lost>>

Matches_AnyStep(s) == s \in now - Drift .. now + Drift

\* verifyTotp: a step near the clock's, after the last one that was used.
\* A secret that is being set up has not been used.
Matches(s) ==
  /\ s \in now - Drift .. now + Drift
  /\ user.secret # 0 => s > user.lastStep

\* The secret that codes are held against.
Sealed == IF user.secret = 0 THEN user.setup ELSE user.secret

\* verifyTwoFactor's DB transaction, for the code of step s.
Verify(c, b, s) ==
  /\ jar[b].access # None
  /\ Sealed # 0
  /\ Matches(s)
  /\ user' = [user EXCEPT !.secret = Sealed, !.lastStep = s,
                          !.setup = IF user.secret = 0 THEN 0 ELSE @]
  /\ won' = won \cup {<<Sealed, s>>}
  /\ Begin(c, b, "verified", FALSE, Carried(b, TRUE))
  /\ UNCHANGED <<made, session, issued, jar, reset, now, lost>>

\* disableTwoFactor's DB transaction.
Disable(c, b) ==
  /\ RecentTwoFactor(b)
  /\ user.secret # 0
  /\ user' = [user EXCEPT !.secret = 0, !.setup = 0, !.lastStep = NoStep]
  /\ Begin(c, b, "disabled", FALSE, Carried(b, FALSE))
  /\ UNCHANGED <<made, session, issued, jar, reset, now, won, lost>>

\* The rest of both: endSession, and issueSession next.
Replace(c) ==
  /\ call[c].pc \in {"verified", "disabled"}
  /\ session' = Ended(call[c].refresh)
  /\ call' = [call EXCEPT ![c].pc = "issue",
                          ![c].at = IF call[c].pc = "verified" THEN now ELSE NoStep]
  /\ UNCHANGED <<user, made, issued, jar, reset, now, won, lost>>

(***************************************************************************)
(* A forgotten password.                                                   *)
(***************************************************************************)

\* forgotPassword, one at a time under the user's lock.  Codes that were used
\* count as recent too.
Forgot ==
  /\ reset # None => now - reset.sent >= ResendAfter
  /\ reset' = [live |-> TRUE, tries |-> 0, sent |-> now]
  /\ UNCHANGED <<user, made, session, issued, jar, call, now, won, lost>>

LiveCode ==
  /\ reset # None
  /\ reset.live
  /\ now - reset.sent <= CodeLife
  /\ reset.tries < CodeTries

\* resetPassword with a wrong code: the try is counted although it fails.
ResetWrong ==
  /\ LiveCode
  /\ reset' = [reset EXCEPT !.tries = @ + 1]
  /\ UNCHANGED <<user, made, session, issued, jar, call, now, won, lost>>

\* The requests that are under way when the password changes.
Crossing == [c \in Call |-> IF call[c].pc = "idle" THEN call[c]
                            ELSE [call[c] EXCEPT !.basis.crossed = TRUE]]

ResetPassword_KeepsPending ==
  /\ LiveCode
  /\ user.password < MaxResets
  /\ user' = [user EXCEPT !.password = @ + 1]
  /\ reset' = [reset EXCEPT !.live = FALSE]
  /\ session' = [t \in DOMAIN session |->
                   IF Live(t) /\ ~session[t].pending THEN None ELSE session[t]]
  /\ call' = Crossing
  /\ UNCHANGED <<made, issued, jar, now, won, lost>>

\* resetPassword with the right code: the new password, the code is used up,
\* and every row of the user's is deleted.
ResetPassword ==
  /\ LiveCode
  /\ user.password < MaxResets
  /\ user' = [user EXCEPT !.password = @ + 1]
  /\ reset' = [reset EXCEPT !.live = FALSE]
  /\ session' = [t \in DOMAIN session |-> None]
  /\ call' = Crossing
  /\ UNCHANGED <<made, issued, jar, now, won, lost>>

(***************************************************************************)
(* The environment.                                                        *)
(***************************************************************************)

\* A request dies where it is.
LoseCall(c) ==
  /\ call[c].pc # "idle"
  /\ lost < MaxLost
  /\ lost' = lost + 1
  /\ call' = [call EXCEPT ![c] = Idle]
  /\ UNCHANGED <<user, made, session, issued, jar, reset, now, won>>

\* The access cookie, which is short-lived, runs out.
AccessExpires(b) ==
  /\ jar[b].access # None
  /\ jar' = [jar EXCEPT ![b].access = None]
  /\ UNCHANGED <<user, made, session, issued, call, reset, now, won, lost>>

Tick ==
  /\ now < MaxStep
  /\ now' = now + 1
  /\ UNCHANGED <<user, made, session, issued, jar, call, reset, won, lost>>

SessionsNext ==
  \/ \E c \in Call, b \in Browser :
       SignIn(c, b) \/ Refresh(c, b) \/ StartLogout(c, b) \/ StartEnable(c, b) \/ Disable(c, b)
  \/ \E c \in Call, b \in Browser, s \in Step : Verify(c, b, s)
  \/ \E c \in Call : Logout(c) \/ Enable(c) \/ Replace(c) \/ LoseCall(c)
  \/ \E c \in Call, arrives \in BOOLEAN : IssueSession(c, arrives)
  \/ \E b \in Browser : AccessExpires(b)
  \/ Forgot \/ ResetWrong \/ ResetPassword \/ Tick

SessionsSpec == SessionsInit /\ [][SessionsNext]_auth

(***************************************************************************)
(* Properties.                                                             *)
(***************************************************************************)

\* "Sign out every device" (resetPassword): a session that lives and was
\* opened with an older password was carried past the reset, by a request
\* that had read the old password or consumed the old row when the reset
\* committed, or by an access token with a two-factor code.  No sign-in and
\* no refresh that starts after the reset makes one.
ResetSignsOut ==
  /\ SessionsTypeOK
  /\ \A t \in 1 .. issued :
       Live(t) /\ session[t].basis.password # user.password => session[t].basis.crossed

\* "So a refresh can't upgrade the session" (issueSession): a session, or an
\* access cookie, that is not waiting for a code goes back to a sign-in that
\* found two-factor off, or to a code that was accepted.  Only one that was
\* proved bears the time of a confirmation.
FullMeansProved ==
  /\ \A t \in 1 .. issued :
       Live(t) /\ ~session[t].pending => session[t].basis.off \/ session[t].basis.proved
  /\ \A b \in Browser : jar[b].access # None =>
       LET a == jar[b].access IN
       /\ ~a.pending => a.basis.off \/ a.basis.proved
       /\ a.at # NoStep => a.basis.proved /\ a.at <= now

\* "The same code can't win twice in a race" (verifyTwoFactor): whenever a
\* code is accepted, it is one that was not accepted before, through setting
\* up, turning off and setting up again.
NoCodeTwice ==
  [][(\E c \in Call : call[c].pc # "verified" /\ call'[c].pc = "verified") => won' # won]_auth

=============================================================================
