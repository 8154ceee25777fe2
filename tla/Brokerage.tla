------------------------------ MODULE Brokerage ------------------------------
(***************************************************************************)
(* A brokerage account connected with OAuth and synced in the background:  *)
(* controllers/brokerageController.js, services/brokerageSync.js, the      *)
(* brokerage part of services/queue.js and of worker.js.                   *)
(*                                                                         *)
(* The links are those that are made for one account at the brokerage.     *)
(* The OAuth callback, the disconnecting request and the worker's runs     *)
(* each make several DB statements with calls to the brokerage and to the  *)
(* queue between them; a DB transaction that locks the link's row is one   *)
(* step.  A secret, its reference and the token it holds have the name of  *)
(* the connection attempt that brought it, and so has a link.              *)
(*                                                                         *)
(* The queue (BullMQ) is known by what this code asks of it: a job is      *)
(* added at most once under its id and retried a few times, and the job    *)
(* of a worker that died or was out of touch too long is given to another. *)
(* A worker that was only out of touch goes on with it.                    *)
(*                                                                         *)
(* The texts in last_sync_status and last_sync_error are left out: no code *)
(* reads them but to show them.                                            *)
(***************************************************************************)
EXTENDS Naturals, FiniteSets

CONSTANTS
  Connect,   \* the times somebody goes off to connect the brokerage account
  Wallet,    \* investment wallets
  Chosen,    \* the wallet each of them is for
  Owner,     \* the user of each wallet
  Symbol,    \* what can be held at the brokerage
  Worker,    \* the jobs the workers run at once
  Attempts,  \* SYNC_ATTEMPTS
  MaxTrades, \* bound: the trades made at the brokerage
  MaxFaults, \* bound: outages, deaths and stalls
  Nothing

ASSUME ChosenAssumption == Chosen \in [Connect -> Wallet]
ASSUME NothingAssumption == Nothing \notin Connect \cup Wallet \cup Worker
ASSUME QueueAssumption == Attempts \in Nat \ {0} /\ MaxTrades \in Nat /\ MaxFaults \in Nat

VARIABLES
  connect,  \* the oauth_states and how far the callback of each has come
  link,     \* external_brokerage_links
  vault,    \* vault_secrets
  holding,  \* the holdings of each link
  job,      \* the queue's job for each link
  asked,    \* links that a request or the scheduler is about to queue
  run,      \* the workers' runs
  refused,  \* tokens the brokerage no longer takes
  world,    \* what is held at the brokerage
  trades,   \* the trades made there so far
  synced,   \* how many of them each link has been told of (history)
  faults    \* counted up to MaxFaults

oauth     == <<connect, vault>>
brokerage == <<refused, world, trades>>
history   == <<synced>>
links == <<connect, link, vault, holding, job, asked, run, refused, world, trades,
           synced, faults>>

LinkRow == [status: {"none", "active", "expired", "revoked"}, wallet: Wallet \cup {Nothing},
            ref: Connect \cup {Nothing}, due: BOOLEAN]
Job     == [state: {"none", "waiting", "active"}, by: Worker \cup {Nothing}, made: 0 .. Attempts - 1]
NoJob   == [state |-> "none", by |-> Nothing, made |-> 0]
Run     == [pc: {"idle", "link", "secret", "positions", "write", "expire"},
            link: Connect \cup {Nothing}, wallet: Wallet \cup {Nothing}, ref: Connect \cup {Nothing},
            held: SUBSET Symbol, told: 0 .. MaxTrades]
Idle    == [pc |-> "idle", link |-> Nothing, wallet |-> Nothing, ref |-> Nothing, held |-> {}, told |-> 0]

Live == {l \in Connect : link[l].status \in {"active", "expired"}}

BrokerageTypeOK ==
  /\ connect \in [Connect -> {"none", "tokened", "insert", "done"}]
  /\ link    \in [Connect -> LinkRow]
  /\ vault   \subseteq Connect
  /\ holding \in [Connect -> SUBSET (Symbol \X Wallet)]
  /\ job     \in [Connect -> Job]
  /\ asked \subseteq Connect
  /\ run     \in [Worker -> Run]
  /\ refused \subseteq Connect
  /\ world   \subseteq Symbol
  /\ trades  \in 0 .. MaxTrades
  /\ synced  \in [Connect -> 0 .. MaxTrades]
  /\ faults  \in 0 .. MaxFaults

BrokerageInit ==
  /\ connect = [c \in Connect |-> "none"]
  /\ link    = [c \in Connect |-> [status |-> "none", wallet |-> Nothing, ref |-> Nothing, due |-> TRUE]]
  /\ vault   = {}
  /\ holding = [c \in Connect |-> {}]
  /\ job     = [c \in Connect |-> NoJob]
  /\ asked = {}
  /\ run     = [w \in Worker |-> Idle]
  /\ refused = {}
  /\ world   = {}
  /\ trades  = 0
  /\ synced  = [c \in Connect |-> 0]
  /\ faults  = 0

(***************************************************************************)
(* Connecting and disconnecting.                                           *)
(***************************************************************************)

\* startBrokerageLink and the callback that follows: the wallet is settled
\* before the user leaves, the state is used once, and the code it brings is
\* swapped for a token.
Authorize(c) ==
  /\ connect[c] = "none"
  /\ connect' = [connect EXCEPT ![c] = "tokened"]
  /\ UNCHANGED <<link, vault, holding, job, asked, run, brokerage, history, faults>>

\* A callback that ends with status=failed: for want of anything it needs, or
\* because the link belongs to another user.
RefuseConnect(c) ==
  /\ connect[c] = "tokened"
  /\ connect' = [connect EXCEPT ![c] = "done"]
  /\ UNCHANGED <<link, vault, holding, job, asked, run, brokerage, history, faults>>

\* The brokerage account has a link already (its row is locked): the link
\* gets the new token and the chosen wallet, and is then queued.  Of several
\* it is the one created last, which is left open; if another one is active
\* the unique index refuses (RefuseConnect).
Reconnect(c, l) ==
  /\ connect[c] = "tokened"
  /\ l \in Live /\ Owner[link[l].wallet] = Owner[Chosen[c]]
  /\ \A k \in Connect \ {l} : link[k].status # "active"
  /\ link' = [link EXCEPT ![l].status = "active", ![l].wallet = Chosen[c], ![l].ref = c]
  /\ vault' = (vault \ {link[l].ref}) \cup {c}
  /\ connect' = [connect EXCEPT ![c] = "done"]
  /\ asked' = asked \cup {l}
  /\ UNCHANGED <<holding, job, run, brokerage, history, faults>>

\* There is no link yet, and so nothing to lock.
FoundNone(c) ==
  /\ connect[c] = "tokened" /\ Live = {}
  /\ connect' = [connect EXCEPT ![c] = "insert"]
  /\ UNCHANGED <<link, vault, holding, job, asked, run, brokerage, history, faults>>

\* The unique index lets one of two that connect at once through; the other
\* is rolled back with its secret.
InsertLink(c) ==
  /\ connect[c] = "insert"
  /\ connect' = [connect EXCEPT ![c] = "done"]
  /\ \/ /\ \A l \in Connect : link[l].status # "active"
        /\ link' = [link EXCEPT ![c] = [@ EXCEPT !.status = "active", !.wallet = Chosen[c], !.ref = c]]
        /\ vault' = vault \cup {c}
        /\ asked' = asked \cup {c}
     \/ /\ \E l \in Connect : link[l].status = "active"
        /\ UNCHANGED <<link, vault, asked>>
  /\ UNCHANGED <<holding, job, run, brokerage, history, faults>>

\* deleteBrokerageLink
Disconnect(l) ==
  /\ l \in Live
  /\ vault' = vault \ {link[l].ref}
  /\ holding' = [holding EXCEPT ![l] = {}]
  /\ link' = [link EXCEPT ![l].status = "revoked", ![l].ref = Nothing]
  /\ UNCHANGED <<connect, job, asked, run, brokerage, history, faults>>

\* cancelLinkSync, after the commit: a job that runs already is left alone.
\* It may fail, and then the sync finds the link revoked.
CancelSync(l) ==
  /\ link[l].status = "revoked" /\ job[l].state = "waiting"
  /\ job' = [job EXCEPT ![l] = NoJob]
  /\ UNCHANGED <<oauth, link, holding, asked, run, brokerage, history, faults>>

(***************************************************************************)
(* The queue.                                                              *)
(***************************************************************************)

\* syncBrokerageLink: the user asks; the link is looked at first.
AskNow(l) ==
  /\ link[l].status = "active"
  /\ asked' = asked \cup {l}
  /\ UNCHANGED <<oauth, link, holding, job, run, brokerage, history, faults>>

\* queueDueSyncs: the scheduler lists the links that are due.
AskDue(l) ==
  /\ link[l].status = "active" /\ link[l].due /\ l \notin asked
  /\ asked' = asked \cup {l}
  /\ UNCHANGED <<oauth, link, holding, job, run, brokerage, history, faults>>

GrowDue(l) ==
  /\ link[l].status = "active" /\ ~link[l].due
  /\ link' = [link EXCEPT ![l].due = TRUE]
  /\ UNCHANGED <<oauth, holding, job, asked, run, brokerage, history, faults>>

Enqueue_AlsoWhileRunning(l) ==
  /\ l \in asked
  /\ asked' = asked \ {l}
  /\ job' = [job EXCEPT ![l] = [NoJob EXCEPT !.state = "waiting"]]
  /\ UNCHANGED <<oauth, link, holding, run, brokerage, history, faults>>

\* enqueueLinkSync: under the link's id there is one job at a time.
Enqueue(l) ==
  /\ l \in asked
  /\ asked' = asked \ {l}
  /\ job' = IF job[l].state = "none" THEN [job EXCEPT ![l].state = "waiting"] ELSE job
  /\ UNCHANGED <<oauth, link, holding, run, brokerage, history, faults>>

EnqueueFails(l) ==
  /\ l \in asked /\ faults < MaxFaults
  /\ faults' = faults + 1
  /\ asked' = asked \ {l}
  /\ UNCHANGED <<oauth, link, holding, job, run, brokerage, history>>

\* The job of run w ends as r, unless the queue has given it to another.
EndJob(w, r) ==
  job' = IF job[run[w].link].by = w THEN [job EXCEPT ![run[w].link] = r] ELSE job

\* Some worker that is free takes the job; which one makes no difference.
PickUp(l) ==
  /\ job[l].state = "waiting" /\ \E w \in Worker : run[w].pc = "idle"
  /\ LET w == CHOOSE w \in Worker : run[w].pc = "idle" IN
     /\ job' = [job EXCEPT ![l].state = "active", ![l].by = w]
     /\ run' = [run EXCEPT ![w] = [Idle EXCEPT !.pc = "link", !.link = l]]
  /\ UNCHANGED <<oauth, link, holding, asked, brokerage, history, faults>>

\* A worker dies, or the queue has not heard of it for too long: its job
\* goes to another.  Only the one that died stops.
Stall(w) ==
  /\ run[w].pc # "idle" /\ job[run[w].link].by = w /\ faults < MaxFaults
  /\ faults' = faults + 1
  /\ EndJob(w, [job[run[w].link] EXCEPT !.state = "waiting", !.by = Nothing])
  /\ \/ run' = [run EXCEPT ![w] = Idle]
     \/ UNCHANGED run
  /\ UNCHANGED <<oauth, link, holding, asked, brokerage, history>>

(***************************************************************************)
(* One run of a link's job: runLinkSync and syncLink.                      *)
(***************************************************************************)

FinishRun(w) == EndJob(w, NoJob) /\ run' = [run EXCEPT ![w] = Idle]

ReadLink(w) ==
  /\ run[w].pc = "link"
  /\ LET l == run[w].link IN
     \/ /\ link[l].status = "active"
        /\ run' = [run EXCEPT ![w].pc = "secret", ![w].wallet = link[l].wallet, ![w].ref = link[l].ref]
        /\ UNCHANGED job
     \/ link[l].status # "active" /\ FinishRun(w)
  /\ UNCHANGED <<oauth, link, holding, asked, brokerage, history, faults>>

ReadSecret(w) ==
  /\ run[w].pc = "secret"
  /\ run' = [run EXCEPT ![w] =
       IF @.ref \in vault THEN [@ EXCEPT !.pc = "positions"]
       ELSE [Idle EXCEPT !.pc = "expire", !.link = run[w].link]]
  /\ UNCHANGED <<oauth, link, holding, job, asked, brokerage, history, faults>>

GetPositions(w) ==
  /\ run[w].pc = "positions"
  /\ run' = [run EXCEPT ![w] =
       IF @.ref \in refused THEN [Idle EXCEPT !.pc = "expire", !.link = run[w].link]
       ELSE [@ EXCEPT !.pc = "write", !.ref = Nothing, !.held = world, !.told = trades]]
  /\ UNCHANGED <<oauth, link, holding, job, asked, brokerage, history, faults>>

WriteHoldings_NotLookedAgain(w) ==
  /\ run[w].pc = "write"
  /\ LET l == run[w].link IN
     /\ holding' = [holding EXCEPT ![l] = run[w].held \X {run[w].wallet}]
     /\ link' = [link EXCEPT ![l].due = FALSE]
     /\ synced' = [synced EXCEPT ![l] = run[w].told]
  /\ FinishRun(w)
  /\ UNCHANGED <<oauth, asked, brokerage, faults>>

\* The DB transaction: it looks at the link again, upserts a row for each
\* position into the wallet read before, and deletes the other rows.
WriteHoldings(w) ==
  /\ run[w].pc = "write"
  /\ LET l == run[w].link IN
     \/ /\ link[l].status = "active"
        /\ holding' = [holding EXCEPT ![l] = run[w].held \X {run[w].wallet}]
        /\ link' = [link EXCEPT ![l].due = FALSE]
        /\ synced' = [synced EXCEPT ![l] = run[w].told]
     \/ link[l].status # "active" /\ UNCHANGED <<link, holding, synced>>
  /\ FinishRun(w)
  /\ UNCHANGED <<oauth, asked, brokerage, faults>>

\* expireLink, after a BrokerageAuthError; such a job is not retried.
ExpireLink(w) ==
  /\ run[w].pc = "expire"
  /\ LET l == run[w].link IN
     link' = IF link[l].status = "active" THEN [link EXCEPT ![l].status = "expired"] ELSE link
  /\ FinishRun(w)
  /\ UNCHANGED <<oauth, holding, asked, brokerage, history, faults>>

AttemptFails_FailedJobStays(w) ==
  /\ run[w].pc \in {"link", "secret", "positions", "write"} /\ faults < MaxFaults
  /\ faults' = faults + 1
  /\ LET j == job[run[w].link] IN
     EndJob(w, [j EXCEPT !.by = Nothing, !.made = @ + 1,
                         !.state = IF j.made + 1 < Attempts THEN "waiting" ELSE "active"])
  /\ run' = [run EXCEPT ![w] = Idle]
  /\ UNCHANGED <<oauth, link, holding, asked, brokerage, history>>

\* Any other error, of the brokerage or the database: the job waits for its
\* next attempt, or was at its last one and is removed.
AttemptFails(w) ==
  /\ run[w].pc \in {"link", "secret", "positions", "write"} /\ faults < MaxFaults
  /\ faults' = faults + 1
  /\ LET j == job[run[w].link] IN
     EndJob(w, IF j.made + 1 < Attempts
               THEN [state |-> "waiting", by |-> Nothing, made |-> j.made + 1] ELSE NoJob)
  /\ run' = [run EXCEPT ![w] = Idle]
  /\ UNCHANGED <<oauth, link, holding, asked, brokerage, history>>

(***************************************************************************)
(* The brokerage.                                                          *)
(***************************************************************************)

\* A position is opened, or sold.
Trade(s) ==
  /\ trades < MaxTrades
  /\ trades' = trades + 1
  /\ world' = IF s \in world THEN world \ {s} ELSE world \cup {s}
  /\ UNCHANGED <<oauth, link, holding, job, asked, run, refused, history, faults>>

RefuseToken(t) ==
  /\ t \in vault \ refused
  /\ refused' = refused \cup {t}
  /\ UNCHANGED <<oauth, link, holding, job, asked, run, world, trades, history, faults>>

Scheduler(l) == AskDue(l) \/ GrowDue(l) \/ Enqueue(l)

Sync(w) == ReadLink(w) \/ ReadSecret(w) \/ GetPositions(w) \/ WriteHoldings(w) \/ ExpireLink(w)

BrokerageNext ==
  \/ \E c \in Connect :
       \/ Authorize(c) \/ RefuseConnect(c) \/ FoundNone(c) \/ InsertLink(c)
       \/ \E l \in Connect : Reconnect(c, l)
       \/ Scheduler(c) \/ PickUp(c)
       \/ Disconnect(c) \/ CancelSync(c) \/ AskNow(c) \/ EnqueueFails(c) \/ RefuseToken(c)
  \/ \E w \in Worker : Sync(w) \/ Stall(w) \/ AttemptFails(w)
  \/ \E s \in Symbol : Trade(s)

BrokerageSpec == BrokerageInit /\ [][BrokerageNext]_links

\* The scheduler runs on a timer, the workers take whatever waits, and every
\* call and statement of theirs comes to an end.
BrokerageFairness ==
  /\ \A l \in Connect : WF_links(Scheduler(l)) /\ WF_links(PickUp(l))
  /\ \A w \in Worker : WF_links(Sync(w))

FairBrokerage == BrokerageSpec /\ BrokerageFairness

(***************************************************************************)
(* Properties.                                                             *)
(***************************************************************************)

\* What is kept of a brokerage belongs to a link that is not disconnected,
\* and one brokerage account to one active link ("can be actively linked only
\* once", external_brokerage_link.sql), whoever connects at the same time: a
\* token is in the vault exactly as long as one such link holds it, and a
\* sync that was under way leaves no holdings behind (deleteBrokerageLink:
\* "Destroys the stored token, so nothing can use it again, and removes the
\* holdings that came from this link").
NothingLeftBehind ==
  /\ BrokerageTypeOK
  /\ vault = {link[l].ref : l \in Live}
  /\ \A l \in Connect : holding[l] # {} => l \in Live
  /\ \A l, k \in Connect : link[l].status = "active" /\ link[k].status = "active" => l = k

\* The job's id keeps two syncs of a link apart: while every job that was begun
\* came to its end, holdings are never replaced by older ones.
SyncsInOrder ==
  [][faults' = 0 => \A l \in Connect : synced[l] <= synced'[l]]_links

\* The holdings of a link that stays connected end up as they are at the
\* brokerage and in the link's wallet, whatever was lost on the way: a job
\* that was swallowed by a running one, an outage, a dead worker, or a sync
\* that wrote into the wallet the link had before.
FinallyInStep ==
  \A l \in Connect :
    <>[](link[l].status = "active" => holding[l] = world \X {link[l].wallet})

\* brokerageSync.js: "The token was refused: the link can't sync until the
\* user reconnects", so that a link expires when the token it has is refused.
OnlyRefusedExpires ==
  [][\A l \in Connect :
       link[l].status = "active" /\ link'[l].status = "expired" => link[l].ref \in refused]_links

=============================================================================
