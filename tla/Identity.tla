------------------------------- MODULE Identity -------------------------------
(***************************************************************************)
(* One user's legal name and its verification: controllers/kycController,  *)
(* services/kyc and the edit of the profile in controllers/userController. *)
(*                                                                         *)
(* Submitting and deciding are each one DB transaction that locks the      *)
(* user's row.  Editing the profile is not: the status is read in one      *)
(* statement and the fields are written in another.  The sandbox's verdict *)
(* waits on a timer, which a restart of the process forgets; no other      *)
(* provider is there yet, and without one a submission stays pending.      *)
(***************************************************************************)
EXTENDS Naturals, FiniteSets

CONSTANTS
  Field,          \* IDENTITY_FIELDS
  Value,          \* what they can hold
  Editor,         \* edits of the profile under way at once
  MaxSubmissions  \* bound: submissions

ASSUME SubmissionsAssumption == MaxSubmissions \in Nat

VARIABLES
  kyc,         \* kyc_status
  profile,     \* the identity fields of the users row
  submission,  \* submission[n]: the n-th row of kyc_verification
  timer,       \* submissions whose verdict is on its way
  edit,        \* edit[d]: an updateMe that has read the status
  overtaken    \* history: fields written late, see WriteEdit

identity == <<kyc, profile, submission, timer, edit, overtaken>>

Legal      == [Field -> Value]
Submission == [legal: Legal, status: {"pending", "approved", "rejected"}]

\* seen: the submissions there were when the status was read.
Edit   == [busy: BOOLEAN, fields: SUBSET Field, value: Value, seen: 0 .. MaxSubmissions]
NoEdit == [busy |-> FALSE, fields |-> {}, value |-> CHOOSE v \in Value : TRUE, seen |-> 0]

Made == Cardinality(DOMAIN submission)
With(status) == {n \in DOMAIN submission : submission[n].status = status}

IdentityTypeOK ==
  /\ kyc \in {"unverified", "pending", "verified", "rejected"}
  /\ profile \in Legal
  /\ Made \in 0 .. MaxSubmissions
  /\ submission \in [1 .. Made -> Submission]
  /\ timer \subseteq DOMAIN submission
  /\ edit \in [Editor -> Edit]
  /\ overtaken \subseteq Field

IdentityInit ==
  /\ kyc = "unverified"
  /\ \E v \in Value : profile = [f \in Field |-> v]
  /\ submission = [n \in 1 .. 0 |-> {}]
  /\ timer = {}
  /\ edit = [d \in Editor |-> NoEdit]
  /\ overtaken = {}

(***************************************************************************)
(* Submitting and deciding.                                                *)
(***************************************************************************)

\* submitKyc, and startVerification after the commit: unless the process dies
\* first, or has no provider, a verdict is on its way.
SubmitKyc(legal, started) ==
  /\ kyc # "verified"
  /\ With("pending") = {}
  /\ Made < MaxSubmissions
  /\ submission' = [n \in 1 .. Made + 1 |->
                      IF n <= Made THEN submission[n] ELSE [legal |-> legal, status |-> "pending"]]
  /\ kyc' = "pending"
  /\ timer' = IF started THEN timer \cup {Made + 1} ELSE timer
  /\ UNCHANGED <<profile, edit, overtaken>>

\* applyKycDecision: a submission that is pending is approved, and its name
\* becomes the user's, or rejected.
ApplyKycDecision(n, approved) ==
  /\ n \in timer
  /\ timer' = timer \ {n}
  /\ submission' = [submission EXCEPT ![n].status = IF approved THEN "approved" ELSE "rejected"]
  /\ IF approved
     THEN kyc' = "verified" /\ profile' = submission[n].legal /\ overtaken' = {}
     ELSE kyc' = "rejected" /\ UNCHANGED <<profile, overtaken>>
  /\ UNCHANGED edit

\* The process restarts, or the decision fails, which is only logged.
LoseVerdict(n) ==
  /\ n \in timer
  /\ timer' = timer \ {n}
  /\ UNCHANGED <<kyc, profile, submission, edit, overtaken>>

(***************************************************************************)
(* Editing the profile.                                                    *)
(***************************************************************************)

Begun(d, fields, value) ==
  /\ ~edit[d].busy
  /\ edit' = [edit EXCEPT ![d] = [busy |-> TRUE, fields |-> fields, value |-> value, seen |-> Made]]
  /\ UNCHANGED <<kyc, profile, submission, timer, overtaken>>

CheckEdit_WhileUnderReview(d, fields, value) ==
  /\ kyc # "verified" \/ fields = {}
  /\ Begun(d, fields, value)

\* updateMe up to the look at KYC_LOCKED_STATUSES; it concerns the identity
\* fields alone, and an edit of others leaves these as they are.
CheckEdit(d, fields, value) ==
  /\ kyc \notin {"pending", "verified"} \/ fields = {}
  /\ Begun(d, fields, value)

\* Its UPDATE.  What an edit writes to a verified user although a submission
\* was made since it read the status is remembered.
WriteEdit(d) ==
  LET e == edit[d] IN
  /\ e.busy
  /\ profile' = [f \in Field |-> IF f \in e.fields THEN e.value ELSE profile[f]]
  /\ overtaken' = IF kyc = "verified" /\ e.seen < Made THEN overtaken \cup e.fields ELSE overtaken
  /\ edit' = [edit EXCEPT ![d] = NoEdit]
  /\ UNCHANGED <<kyc, submission, timer>>

\* It fails, or its process dies.
LoseEdit(d) ==
  /\ edit[d].busy
  /\ edit' = [edit EXCEPT ![d] = NoEdit]
  /\ UNCHANGED <<kyc, profile, submission, timer, overtaken>>

IdentityNext ==
  \/ \E legal \in Legal, started \in BOOLEAN : SubmitKyc(legal, started)
  \/ \E n \in DOMAIN submission :
       LoseVerdict(n) \/ \E approved \in BOOLEAN : ApplyKycDecision(n, approved)
  \/ \E d \in Editor, fields \in SUBSET Field, value \in Value : CheckEdit(d, fields, value)
  \/ \E d \in Editor : WriteEdit(d) \/ LoseEdit(d)

IdentitySpec == IdentityInit /\ [][IdentityNext]_identity

(***************************************************************************)
(* Properties.                                                             *)
(***************************************************************************)

\* A verified user has one approved submission and the name on it, but for
\* fields that an edit wrote that had read the status before that submission
\* was made; the status tells of the submissions, of which one at most is
\* pending ("the row lock stops two quick taps both getting through").
NameIsVerified ==
  /\ IdentityTypeOK
  /\ kyc = "verified" <=> With("approved") # {}
  /\ kyc = "pending"  <=> With("pending") # {}
  /\ Cardinality(With("pending") \cup With("approved")) <= 1
  /\ \A n \in With("approved"), f \in Field \ overtaken : profile[f] = submission[n].legal[f]

=============================================================================
