----------------------------- MODULE JobsProofs -----------------------------
(***************************************************************************)
(* What Brokerage and Loans promise of work that is read first and done    *)
(* later.  For any connections, wallets, symbols, workers and faults       *)
(* nothing is kept of an account that was disconnected, and holdings are   *)
(* not replaced by older ones while no worker loses its job; for any terms,*)
(* fees, days and runs of the loan job a loan's balance is what its        *)
(* installments owe, and debt and money change as was agreed.              *)
(***************************************************************************)
EXTENDS Brokerage, Loans, Sums

(***************************************************************************)
(* Brokerage: the links and what is kept of them.                          *)
(***************************************************************************)


\* What a link that is not disconnected has, whoever connected it.
Linked ==
  /\ \A l \in Live : link[l].ref \in Connect /\ link[l].wallet \in Wallet
  /\ \A l, k \in Live : link[l].ref = link[k].ref => l = k
  /\ \A l, k \in Connect : link[l].status = "active" /\ link[k].status = "active" => l = k

\* A connection brings its token, and makes its link, when its callback ends.
Brought ==
  /\ \A l \in Connect : link[l].ref \in Connect => connect[link[l].ref] = "done"
  /\ \A c \in Connect : link[c].status # "none" => connect[c] = "done"

\* What there is besides the links.
Cleared ==
  /\ vault = {link[l].ref : l \in Live}
  /\ \A l \in Connect : holding[l] # {} => l \in Live

\* What a run has read by the time it stands where it does.
RunsRead ==
  \A w \in Worker :
    /\ run[w].pc # "idle" => run[w].link \in Connect
    /\ run[w].pc \in {"secret", "positions", "write"} => run[w].wallet \in Wallet

LinkInv == BrokerageTypeOK /\ Linked /\ Brought /\ Cleared /\ RunsRead

\* While nothing was lost, a run is that of its link's job, and what it was
\* told by the brokerage is at least as new as what the link was told.
OneRun ==
  /\ \A l \in Connect : job[l].state # "active" => job[l].by = Nothing
  /\ \A w \in Worker : run[w].pc # "idle" => job[run[w].link].by = w

Newer ==
  /\ \A l \in Connect : synced[l] <= trades
  /\ \A w \in Worker : run[w].pc = "write" =>
       synced[run[w].link] <= run[w].told /\ run[w].told <= trades

OrderInv == faults = 0 => OneRun /\ Newer

Inv == LinkInv /\ OrderInv

LEMMA InitInv == BrokerageInit => Inv
<1> SUFFICES ASSUME BrokerageInit PROVE Inv
  OBVIOUS
<1>1. BrokerageTypeOK
  BY QueueAssumption
     DEF BrokerageInit, BrokerageTypeOK, LinkRow, Job, NoJob, Run, Idle
<1>2. Live = {} /\ vault = {} /\ \A l \in Connect : link[l].ref = Nothing /\ link[l].status = "none"
  BY DEF BrokerageInit, Live
<1>3. Linked /\ Brought /\ Cleared
  BY <1>2, NothingAssumption DEF BrokerageInit, Linked, Brought, Cleared
<1>4. RunsRead /\ OrderInv
  BY QueueAssumption DEF BrokerageInit, RunsRead, OrderInv, OneRun, Newer, Idle, NoJob
<1> QED
  BY <1>1, <1>3, <1>4 DEF Inv, LinkInv

\* A row of link, run or job that is rewritten is one again.
LEMMA RowTypes ==
  ASSUME LinkInv
  PROVE  /\ \A l \in Connect : link[l] \in LinkRow /\ job[l] \in Job
         /\ \A w \in Worker : run[w] \in Run
         /\ link \in [Connect -> LinkRow] /\ job \in [Connect -> Job] /\ run \in [Worker -> Run]
         /\ NoJob \in Job /\ Idle \in Run
  BY QueueAssumption DEF LinkInv, BrokerageTypeOK, NoJob, Job, Idle, Run

\* The job of w's run ends, or is another's.
LEMMA JobEnds ==
  ASSUME LinkInv, NEW w \in Worker, run[w].pc # "idle", NEW r \in Job, EndJob(w, r)
  PROVE  /\ job' \in [Connect -> Job]
         /\ run[w].link \in Connect
         /\ \A l \in Connect :
              \/ job'[l] = job[l] /\ (l = run[w].link => job[l].by # w)
              \/ l = run[w].link /\ job[l].by = w /\ job'[l] = r
  BY RowTypes DEF EndJob, LinkInv, RunsRead

LEMMA FinishTypes ==
  ASSUME LinkInv, NEW w \in Worker, run[w].pc # "idle", FinishRun(w)
  PROVE  /\ job' \in [Connect -> Job] /\ run' \in [Worker -> Run]
         /\ run'[w] = Idle /\ \A v \in Worker : v # w => run'[v] = run[v]
  <1>1. NoJob \in Job /\ Idle \in Run /\ run \in [Worker -> Run]
    BY RowTypes
  <1>2. EndJob(w, NoJob) /\ run' = [run EXCEPT ![w] = Idle]
    BY DEF FinishRun
  <1>3. job' \in [Connect -> Job]
    BY <1>1, <1>2, JobEnds
  <1> QED
    BY <1>1, <1>2, <1>3

(***************************************************************************)
(* The links, and what is kept for them.                                   *)
(***************************************************************************)

\* The row of a link that gets a wallet and a token.
LEMMA Connected ==
  ASSUME LinkInv, NEW l \in Connect, NEW c \in Connect,
         \/ link' = [link EXCEPT ![l].status = "active", ![l].wallet = Chosen[c], ![l].ref = c]
         \/ link' = [link EXCEPT ![l] = [@ EXCEPT !.status = "active", !.wallet = Chosen[c], !.ref = c]]
  PROVE  /\ link' \in [Connect -> LinkRow]
         /\ link'[l].status = "active" /\ link'[l].wallet \in Wallet /\ link'[l].ref = c
         /\ \A k \in Connect : k # l => link'[k] = link[k]
<1>1. link \in [Connect -> LinkRow] /\ link[l] \in LinkRow
  BY RowTypes
<1> DEFINE row == [link[l] EXCEPT !.status = "active", !.wallet = Chosen[c], !.ref = c]
<1>2. Chosen[c] \in Wallet
  BY ChosenAssumption
<1>3. /\ row \in LinkRow /\ row.status = "active" /\ row.wallet = Chosen[c] /\ row.ref = c
  BY <1>1, <1>2 DEF LinkRow
<1>4. link' = [link EXCEPT ![l] = row]
  BY <1>1
<1> HIDE DEF row
<1> QED
  BY <1>1, <1>2, <1>3, <1>4

\* A link that is new.
LEMMA InsertStep ==
  ASSUME LinkInv, NEW c \in Connect, connect[c] = "insert", connect' = [connect EXCEPT ![c] = "done"],
         \A l \in Connect : link[l].status # "active",
         link' = [link EXCEPT ![c] = [@ EXCEPT !.status = "active", !.wallet = Chosen[c], !.ref = c]],
         vault' = vault \cup {c}, UNCHANGED holding
  PROVE  link' \in [Connect -> LinkRow] /\ Linked' /\ Brought' /\ Cleared'
<1>0. connect \in [Connect -> {"none", "tokened", "insert", "done"}]
  BY DEF LinkInv, BrokerageTypeOK
<1>1. /\ link' \in [Connect -> LinkRow]
      /\ link'[c].status = "active" /\ link'[c].wallet \in Wallet /\ link'[c].ref = c
      /\ \A k \in Connect : k # c => link'[k] = link[k]
  BY Connected
<1>2. link[c].status = "none" /\ \A l \in Connect : link[l].ref # c
  BY <1>0, RowTypes DEF LinkInv, Brought, LinkRow
<1>3. Live' = Live \cup {c} /\ c \notin Live
  BY <1>1, <1>2 DEF Live
<1>4. Linked'
  BY <1>1, <1>2, <1>3 DEF LinkInv, Linked, Live
<1>5. Brought'
  BY <1>0, <1>1 DEF LinkInv, Brought
<1>6. vault' = {link'[l].ref : l \in Live'}
  BY <1>1, <1>2, <1>3 DEF LinkInv, Cleared, Live
<1> QED
  BY <1>1, <1>3, <1>4, <1>5, <1>6 DEF LinkInv, Cleared

\* A link that is connected again: its old token goes, the new one comes.
LEMMA ReconnectStep ==
  ASSUME LinkInv, NEW c \in Connect, NEW l \in Connect, Reconnect(c, l)
  PROVE  link' \in [Connect -> LinkRow] /\ Linked' /\ Brought' /\ Cleared'
<1>0. /\ connect \in [Connect -> {"none", "tokened", "insert", "done"}]
      /\ connect[c] = "tokened" /\ connect' = [connect EXCEPT ![c] = "done"]
      /\ l \in Live /\ vault' = (vault \ {link[l].ref}) \cup {c} /\ holding' = holding
      /\ \A k \in Connect \ {l} : link[k].status # "active"
  BY DEF LinkInv, BrokerageTypeOK, Reconnect
<1>1. /\ link' \in [Connect -> LinkRow]
      /\ link'[l].status = "active" /\ link'[l].wallet \in Wallet /\ link'[l].ref = c
      /\ \A k \in Connect : k # l => link'[k] = link[k]
  BY Connected DEF Reconnect
<1>2. \A k \in Connect : link[k].ref # c
  BY <1>0 DEF LinkInv, Brought
<1>3. Live' = Live
  BY <1>0, <1>1 DEF Live
<1>4. Linked'
  BY <1>0, <1>1, <1>2, <1>3 DEF LinkInv, Linked, Live
<1>5. Brought'
  BY <1>0, <1>1 DEF LinkInv, Brought, Live
<1>6. vault' = {link'[k].ref : k \in Live'}
  <2>1. ASSUME NEW x \in vault'
        PROVE  x \in {link'[k].ref : k \in Live}
    <3>1. CASE x = c
      BY <1>0, <1>1, <3>1
    <3>2. CASE x # c
      <4>1. PICK k \in Live : x = link[k].ref /\ k # l
        BY <1>0, <3>2 DEF LinkInv, Cleared
      <4> QED
        BY <1>1, <4>1 DEF Live
    <3> QED
      BY <3>1, <3>2
  <2>2. ASSUME NEW k \in Live
        PROVE  link'[k].ref \in vault'
    <3>1. CASE k = l
      BY <1>0, <1>1, <3>1
    <3>2. CASE k # l
      BY <1>0, <1>1, <3>2 DEF LinkInv, Cleared, Linked, Live
    <3> QED
      BY <3>1, <3>2
  <2> QED
    BY <1>3, <2>1, <2>2
<1> QED
  BY <1>0, <1>1, <1>3, <1>4, <1>5, <1>6 DEF LinkInv, Cleared

\* A link that is disconnected: its token and its holdings go.
LEMMA DisconnectStep ==
  ASSUME LinkInv, NEW l \in Connect, Disconnect(l)
  PROVE  /\ link' \in [Connect -> LinkRow] /\ holding' \in [Connect -> SUBSET (Symbol \X Wallet)]
         /\ Linked' /\ Brought' /\ Cleared'
<1>0. /\ l \in Live /\ vault' = vault \ {link[l].ref} /\ holding' = [holding EXCEPT ![l] = {}]
      /\ link' = [link EXCEPT ![l].status = "revoked", ![l].ref = Nothing]
      /\ connect' = connect /\ holding \in [Connect -> SUBSET (Symbol \X Wallet)]
  BY DEF Disconnect, LinkInv, BrokerageTypeOK
<1> DEFINE row == [link[l] EXCEPT !.status = "revoked", !.ref = Nothing]
<1>1. link' = [link EXCEPT ![l] = row] /\ link[l] \in LinkRow /\ link \in [Connect -> LinkRow]
  BY <1>0, RowTypes
<1>2. row \in LinkRow /\ row.status = "revoked" /\ row.ref = Nothing
  BY <1>1 DEF LinkRow
<1> HIDE DEF row
<1>3. /\ link' \in [Connect -> LinkRow] /\ link'[l].status = "revoked" /\ link'[l].ref = Nothing
      /\ \A k \in Connect : k # l => link'[k] = link[k]
  BY <1>1, <1>2
<1>4. Live' = Live \ {l}
  BY <1>3 DEF Live
<1>5. Linked'
  BY <1>3, <1>4 DEF LinkInv, Linked, Live
<1>6. Brought'
  BY <1>0, <1>3, NothingAssumption DEF LinkInv, Brought, Live
<1>7. vault' = {link'[k].ref : k \in Live'}
  BY <1>0, <1>3, <1>4 DEF LinkInv, Cleared, Linked, Live
<1>8. \A k \in Connect : holding'[k] # {} => k \in Live'
  BY <1>0, <1>4 DEF LinkInv, Cleared
<1> QED
  BY <1>0, <1>3, <1>5, <1>6, <1>7, <1>8 DEF Cleared

\* Any other step leaves tokens and wallets where they are; a link may expire,
\* and holdings are written for one that has not been disconnected.
LEMMA LinksKept ==
  ASSUME LinkInv, UNCHANGED vault,
         \A c \in Connect : connect[c] = "done" => connect'[c] = "done",
         \A l \in Connect :
           /\ link'[l].ref = link[l].ref /\ link'[l].wallet = link[l].wallet
           /\ \/ link'[l].status = link[l].status
              \/ link[l].status = "active" /\ link'[l].status = "expired"
           /\ holding'[l] = holding[l] \/ l \in Live
  PROVE  Linked' /\ Brought' /\ Cleared'
<1>1. Live' = Live
  BY DEF Live
<1>2. Linked'
  BY <1>1 DEF LinkInv, Linked, Live
<1>3. Brought'
  BY DEF LinkInv, Brought
<1>4. vault' = {link'[l].ref : l \in Live'}
  BY <1>1 DEF LinkInv, Cleared, Live
<1> QED
  BY <1>1, <1>2, <1>3, <1>4 DEF LinkInv, Cleared

(***************************************************************************)
(* Each step, for all of LinkInv.                                          *)
(***************************************************************************)

\* The steps of callbacks, requests and the brokerage, which no run sees.
LEMMA ConnectKeeps ==
  ASSUME LinkInv, NEW c \in Connect,
         Authorize(c) \/ RefuseConnect(c) \/ FoundNone(c) \/ InsertLink(c) \/ Disconnect(c)
           \/ \E l \in Connect : Reconnect(c, l)
  PROVE  LinkInv'
<1>0. BrokerageTypeOK /\ RunsRead
  BY DEF LinkInv
<1>1. UNCHANGED run
  BY DEF Authorize, RefuseConnect, FoundNone, InsertLink, Disconnect, Reconnect
<1>2. RunsRead'
  BY <1>0, <1>1 DEF RunsRead
<1>3. CASE Authorize(c) \/ RefuseConnect(c) \/ FoundNone(c)
  <2>1. UNCHANGED <<link, vault, holding, job, asked, run, brokerage, history, faults>>
    BY <1>3 DEF Authorize, RefuseConnect, FoundNone
  <2>2. /\ connect' \in [Connect -> {"none", "tokened", "insert", "done"}]
        /\ \A d \in Connect : connect[d] = "done" => connect'[d] = "done"
    BY <1>0, <1>3 DEF Authorize, RefuseConnect, FoundNone, BrokerageTypeOK
  <2>3. Linked' /\ Brought' /\ Cleared'
    BY <2>1, <2>2, LinksKept
  <2>4. BrokerageTypeOK'
    BY <1>0, <2>1, <2>2 DEF BrokerageTypeOK, brokerage, history
  <2> QED
    BY <1>2, <2>3, <2>4 DEF LinkInv
<1>4. CASE InsertLink(c)
  <2>0. /\ connect[c] = "insert" /\ connect' = [connect EXCEPT ![c] = "done"]
        /\ UNCHANGED <<holding, job, run, brokerage, history, faults>>
    BY <1>4 DEF InsertLink
  <2>1. CASE /\ \A l \in Connect : link[l].status # "active"
             /\ link' = [link EXCEPT ![c] = [@ EXCEPT !.status = "active", !.wallet = Chosen[c],
                                                      !.ref = c]]
             /\ vault' = vault \cup {c} /\ asked' = asked \cup {c}
    <3>1. link' \in [Connect -> LinkRow] /\ Linked' /\ Brought' /\ Cleared'
      BY <2>0, <2>1, InsertStep
    <3>2. BrokerageTypeOK'
      BY <1>0, <2>0, <2>1, <3>1 DEF BrokerageTypeOK, brokerage, history
    <3> QED
      BY <1>2, <3>1, <3>2 DEF LinkInv
  <2>2. CASE UNCHANGED <<link, vault, asked>>
    <3>1. Linked' /\ Brought' /\ Cleared'
      BY <1>0, <2>0, <2>2, LinksKept DEF BrokerageTypeOK
    <3>2. BrokerageTypeOK'
      BY <1>0, <2>0, <2>2 DEF BrokerageTypeOK, brokerage, history
    <3> QED
      BY <1>2, <3>1, <3>2 DEF LinkInv
  <2> QED
    BY <1>4, <2>1, <2>2 DEF InsertLink
<1>5. CASE Disconnect(c)
  <2>1. /\ link' \in [Connect -> LinkRow] /\ holding' \in [Connect -> SUBSET (Symbol \X Wallet)]
        /\ Linked' /\ Brought' /\ Cleared'
    BY <1>5, DisconnectStep
  <2>2. BrokerageTypeOK'
    BY <1>0, <1>5, <2>1 DEF Disconnect, BrokerageTypeOK, brokerage, history
  <2> QED
    BY <1>2, <2>1, <2>2 DEF LinkInv
<1>6. ASSUME NEW l \in Connect, Reconnect(c, l)
      PROVE  LinkInv'
  <2>1. link' \in [Connect -> LinkRow] /\ Linked' /\ Brought' /\ Cleared'
    BY <1>6, ReconnectStep
  <2>2. BrokerageTypeOK'
    BY <1>0, <1>6, <2>1 DEF Reconnect, BrokerageTypeOK, brokerage, history
  <2> QED
    BY <1>2, <2>1, <2>2 DEF LinkInv
<1> QED
  BY <1>3, <1>4, <1>5, <1>6

\* The queue's steps, and those of the brokerage.
LEMMA QueueKeeps ==
  ASSUME LinkInv, NEW l \in Connect,
         CancelSync(l) \/ AskNow(l) \/ Scheduler(l) \/ EnqueueFails(l) \/ PickUp(l)
           \/ RefuseToken(l)
  PROVE  LinkInv'
<1>0. BrokerageTypeOK /\ RunsRead
  BY DEF LinkInv
<1> USE DEF Scheduler
<1>1. UNCHANGED <<connect, vault, holding, synced>>
  BY DEF CancelSync, AskNow, AskDue, GrowDue, Enqueue, EnqueueFails, PickUp, RefuseToken,
         oauth, history
<1>2. /\ link' \in [Connect -> LinkRow]
      /\ \A k \in Connect : /\ link'[k].ref = link[k].ref /\ link'[k].wallet = link[k].wallet
                            /\ link'[k].status = link[k].status
  <2>1. CASE GrowDue(l)
    <3> DEFINE row == [link[l] EXCEPT !.due = TRUE]
    <3>1. link' = [link EXCEPT ![l] = row] /\ link[l] \in LinkRow /\ link \in [Connect -> LinkRow]
      BY <2>1, RowTypes DEF GrowDue
    <3>2. /\ row \in LinkRow /\ row.ref = link[l].ref /\ row.wallet = link[l].wallet
          /\ row.status = link[l].status
      BY <3>1 DEF LinkRow
    <3> HIDE DEF row
    <3> QED
      BY <3>1, <3>2
  <2>2. CASE ~GrowDue(l)
    BY <1>0, <2>2 DEF CancelSync, AskNow, AskDue, Enqueue, EnqueueFails, PickUp, RefuseToken,
                      BrokerageTypeOK
  <2> QED
    BY <2>1, <2>2
<1>3. Linked' /\ Brought' /\ Cleared'
  BY <1>1, <1>2, LinksKept
<1>4. CASE PickUp(l)
  <2>1. PICK w \in Worker :
          /\ run[w].pc = "idle" /\ job' = [job EXCEPT ![l].state = "active", ![l].by = w]
          /\ run' = [run EXCEPT ![w] = [Idle EXCEPT !.pc = "link", !.link = l]]
          /\ UNCHANGED <<asked, brokerage, faults>>
    <3>1. (CHOOSE w \in Worker : run[w].pc = "idle") \in Worker
          /\ run[CHOOSE w \in Worker : run[w].pc = "idle"].pc = "idle"
      BY <1>4 DEF PickUp
    <3> QED
      BY <1>4, <3>1 DEF PickUp
  <2> DEFINE j == [job[l] EXCEPT !.state = "active", !.by = w]
             r == [Idle EXCEPT !.pc = "link", !.link = l]
  <2>2. job' = [job EXCEPT ![l] = j] /\ run' = [run EXCEPT ![w] = r]
    BY <2>1
  <2>3. j \in Job /\ r \in Run /\ r.link = l /\ r.pc = "link"
    BY RowTypes, QueueAssumption DEF Job, Idle, Run
  <2> HIDE DEF j, r
  <2>4. job' \in [Connect -> Job] /\ run' \in [Worker -> Run]
    BY <2>2, <2>3, RowTypes
  <2>5. RunsRead'
    BY <1>0, <2>2, <2>3, RowTypes DEF RunsRead
  <2>6. BrokerageTypeOK'
    BY <1>0, <1>1, <1>2, <2>1, <2>4 DEF BrokerageTypeOK, brokerage
  <2> QED
    BY <1>3, <2>5, <2>6 DEF LinkInv
<1>5. CASE ~PickUp(l)
  <2>1. UNCHANGED run
    BY <1>5 DEF CancelSync, AskNow, AskDue, GrowDue, Enqueue, EnqueueFails, RefuseToken
  <2>2. RunsRead'
    BY <1>0, <2>1 DEF RunsRead
  <2>3. job' \in [Connect -> Job]
    <3>1. CASE Enqueue(l)
      <4> DEFINE j == [job[l] EXCEPT !.state = "waiting"]
      <4>1. job' = job \/ job' = [job EXCEPT ![l] = j]
        BY <3>1 DEF Enqueue
      <4>2. j \in Job
        BY RowTypes DEF Job
      <4> HIDE DEF j
      <4> QED
        BY <4>1, <4>2, RowTypes
    <3>2. CASE ~Enqueue(l)
      BY <1>5, <3>2, RowTypes DEF CancelSync, AskNow, AskDue, GrowDue, EnqueueFails, RefuseToken
    <3> QED
      BY <3>1, <3>2
  <2>4. /\ asked' \subseteq Connect /\ refused' \subseteq Connect /\ world' \subseteq Symbol
        /\ trades' \in 0 .. MaxTrades /\ faults' \in 0 .. MaxFaults
    BY <1>0, <1>5, QueueAssumption
       DEF CancelSync, AskNow, AskDue, GrowDue, Enqueue, EnqueueFails, RefuseToken,
           BrokerageTypeOK, brokerage
  <2>5. BrokerageTypeOK'
    BY <1>0, <1>1, <1>2, <2>1, <2>3, <2>4 DEF BrokerageTypeOK
  <2> QED
    BY <1>3, <2>2, <2>5 DEF LinkInv
<1> QED
  BY <1>4, <1>5

LEMMA TradeKeeps ==
  ASSUME LinkInv, NEW s \in Symbol, Trade(s)
  PROVE  LinkInv'
<1>1. /\ BrokerageTypeOK /\ trades < MaxTrades /\ trades' = trades + 1
      /\ world' = (IF s \in world THEN world \ {s} ELSE world \cup {s})
      /\ UNCHANGED <<connect, link, vault, holding, job, asked, run, refused, synced, faults>>
  BY DEF Trade, LinkInv, oauth, history
<1>2. BrokerageTypeOK'
  BY <1>1, QueueAssumption DEF BrokerageTypeOK
<1> QED
  BY <1>1, <1>2 DEF LinkInv, Linked, Brought, Cleared, RunsRead, Live

\* The steps of a worker's run.
LEMMA SyncKeeps ==
  ASSUME LinkInv, NEW w \in Worker, Sync(w)
  PROVE  LinkInv'
<1>0. BrokerageTypeOK /\ RunsRead /\ run[w] \in Run /\ run \in [Worker -> Run]
  BY RowTypes DEF LinkInv
<1>1. UNCHANGED <<connect, vault, asked, brokerage, faults>>
  BY DEF Sync, ReadLink, ReadSecret, GetPositions, WriteHoldings, ExpireLink, oauth
<1>2. /\ run[w].pc # "idle" /\ run[w].link \in Connect
      /\ run[w].pc \in {"secret", "positions", "write"} => run[w].wallet \in Wallet
  BY <1>0 DEF Sync, ReadLink, ReadSecret, GetPositions, WriteHoldings, ExpireLink, RunsRead
\* What is left to be shown of a step once its run and its link are known.
<1>3. ASSUME run' \in [Worker -> Run], job' \in [Connect -> Job], link' \in [Connect -> LinkRow],
             holding' \in [Connect -> SUBSET (Symbol \X Wallet)],
             synced' \in [Connect -> 0 .. MaxTrades],
             \A v \in Worker : v # w => run'[v] = run[v],
             run'[w].pc # "idle" => run'[w].link \in Connect,
             run'[w].pc \in {"secret", "positions", "write"} => run'[w].wallet \in Wallet,
             \A l \in Connect :
               /\ link'[l].ref = link[l].ref /\ link'[l].wallet = link[l].wallet
               /\ \/ link'[l].status = link[l].status
                  \/ link[l].status = "active" /\ link'[l].status = "expired"
               /\ holding'[l] = holding[l] \/ l \in Live
      PROVE  LinkInv'
  <2>1. Linked' /\ Brought' /\ Cleared'
    BY <1>1, <1>3, LinksKept
  <2>2. RunsRead'
    BY <1>0, <1>3 DEF RunsRead
  <2>3. BrokerageTypeOK'
    BY <1>0, <1>1, <1>3 DEF BrokerageTypeOK, brokerage
  <2> QED
    BY <2>1, <2>2, <2>3 DEF LinkInv
<1>4. CASE ReadLink(w)
  <2> DEFINE l == run[w].link
             r == [run[w] EXCEPT !.pc = "secret", !.wallet = link[l].wallet, !.ref = link[l].ref]
  <2>1. UNCHANGED <<link, holding, synced>>
    BY <1>4 DEF ReadLink, history
  <2>2. CASE /\ link[l].status = "active" /\ UNCHANGED job
             /\ run' = [run EXCEPT ![w].pc = "secret", ![w].wallet = link[l].wallet, ![w].ref = link[l].ref]
    <3>1. run' = [run EXCEPT ![w] = r]
      BY <1>0, <2>2
    <3>2. link[l] \in LinkRow /\ link[l].wallet \in Wallet
      BY <1>2, <2>2, RowTypes DEF LinkInv, Linked, Live
    <3>3. r \in Run /\ r.link = l /\ r.wallet \in Wallet
      BY <1>0, <3>2 DEF Run, LinkRow
    <3> HIDE DEF r
    <3> QED
      BY <1>0, <1>2, <1>3, <2>1, <2>2, <3>1, <3>3, RowTypes DEF BrokerageTypeOK
  <2>3. CASE FinishRun(w)
    BY <1>0, <1>2, <1>3, <2>1, <2>3, FinishTypes, RowTypes DEF BrokerageTypeOK, Idle
  <2> QED
    BY <1>4, <2>2, <2>3 DEF ReadLink
<1>5. CASE ReadSecret(w) \/ GetPositions(w)
  <2>1. UNCHANGED <<link, holding, synced, job>>
    BY <1>5 DEF ReadSecret, GetPositions, history
  <2>2. PICK r \in Run :
          /\ run' = [run EXCEPT ![w] = r] /\ r.link = run[w].link
          /\ r.pc \in {"secret", "positions", "write"} => r.wallet = run[w].wallet
          /\ r.pc \in {"positions", "write"} => run[w].pc \in {"secret", "positions"}
          /\ r.pc # "secret"
    <3> DEFINE e == [Idle EXCEPT !.pc = "expire", !.link = run[w].link]
               s == [run[w] EXCEPT !.pc = "positions"]
               g == [run[w] EXCEPT !.pc = "write", !.ref = Nothing, !.held = world, !.told = trades]
    <3>1. e \in Run /\ e.link = run[w].link /\ e.pc = "expire"
      BY <1>0, <1>2, RowTypes DEF Run
    <3>2. s \in Run /\ s.link = run[w].link /\ s.pc = "positions" /\ s.wallet = run[w].wallet
      BY <1>0 DEF Run
    <3>3. g \in Run /\ g.link = run[w].link /\ g.pc = "write" /\ g.wallet = run[w].wallet
      BY <1>0 DEF Run, BrokerageTypeOK
    <3>4. \/ run' = [run EXCEPT ![w] = e]
          \/ run' = [run EXCEPT ![w] = s] /\ run[w].pc = "secret"
          \/ run' = [run EXCEPT ![w] = g] /\ run[w].pc = "positions"
      BY <1>0, <1>5 DEF ReadSecret, GetPositions
    <3> HIDE DEF e, s, g
    <3> QED
      BY <3>1, <3>2, <3>3, <3>4
  <2> QED
    BY <1>0, <1>2, <1>3, <2>1, <2>2, RowTypes DEF BrokerageTypeOK
<1>6. CASE WriteHoldings(w)
  <2> DEFINE l == run[w].link
  <2>1. FinishRun(w) /\ run[w].pc = "write"
    BY <1>6 DEF WriteHoldings
  <2>2. /\ job' \in [Connect -> Job] /\ run' \in [Worker -> Run]
        /\ run'[w].pc = "idle" /\ \A v \in Worker : v # w => run'[v] = run[v]
    BY <1>2, <2>1, FinishTypes DEF Idle
  <2>3. CASE /\ link[l].status = "active"
             /\ holding' = [holding EXCEPT ![l] = run[w].held \X {run[w].wallet}]
             /\ link' = [link EXCEPT ![l].due = FALSE]
             /\ synced' = [synced EXCEPT ![l] = run[w].told]
    <3> DEFINE row == [link[l] EXCEPT !.due = FALSE]
    <3>1. link' = [link EXCEPT ![l] = row] /\ link[l] \in LinkRow /\ link \in [Connect -> LinkRow]
      BY <1>2, <2>3, RowTypes
    <3>2. /\ row \in LinkRow /\ row.ref = link[l].ref /\ row.wallet = link[l].wallet
          /\ row.status = link[l].status
      BY <3>1 DEF LinkRow
    <3> HIDE DEF row
    <3>3. run[w].held \X {run[w].wallet} \in SUBSET (Symbol \X Wallet) /\ run[w].told \in 0 .. MaxTrades
      BY <1>0, <1>2, <2>1 DEF Run
    <3>4. l \in Live
      BY <1>2, <2>3 DEF Live
    <3> QED
      BY <1>0, <1>2, <1>3, <2>2, <2>3, <3>1, <3>2, <3>3, <3>4 DEF BrokerageTypeOK
  <2>4. CASE UNCHANGED <<link, holding, synced>>
    BY <1>0, <1>2, <1>3, <2>2, <2>4 DEF BrokerageTypeOK
  <2> QED
    BY <1>6, <2>3, <2>4 DEF WriteHoldings
<1>7. CASE ExpireLink(w)
  <2> DEFINE l == run[w].link
  <2>1. FinishRun(w) /\ UNCHANGED <<holding, synced>>
    BY <1>7 DEF ExpireLink, history
  <2>2. /\ job' \in [Connect -> Job] /\ run' \in [Worker -> Run]
        /\ run'[w].pc = "idle" /\ \A v \in Worker : v # w => run'[v] = run[v]
    BY <1>2, <2>1, FinishTypes DEF Idle
  <2>3. CASE link[l].status = "active" /\ link' = [link EXCEPT ![l].status = "expired"]
    <3> DEFINE row == [link[l] EXCEPT !.status = "expired"]
    <3>1. link' = [link EXCEPT ![l] = row] /\ link[l] \in LinkRow /\ link \in [Connect -> LinkRow]
      BY <1>2, <2>3, RowTypes
    <3>2. /\ row \in LinkRow /\ row.ref = link[l].ref /\ row.wallet = link[l].wallet
          /\ row.status = "expired"
      BY <3>1 DEF LinkRow
    <3> HIDE DEF row
    <3> QED
      BY <1>0, <1>2, <1>3, <2>1, <2>2, <2>3, <3>1, <3>2 DEF BrokerageTypeOK
  <2>4. CASE UNCHANGED link
    BY <1>0, <1>2, <1>3, <2>1, <2>2, <2>4 DEF BrokerageTypeOK
  <2> QED
    BY <1>7, <2>3, <2>4 DEF ExpireLink
<1> QED
  BY <1>4, <1>5, <1>6, <1>7 DEF Sync

\* A run that loses its job, or fails.
LEMMA FaultKeeps ==
  ASSUME LinkInv, NEW w \in Worker, Stall(w) \/ AttemptFails(w)
  PROVE  /\ LinkInv' /\ faults' > 0
<1>0. BrokerageTypeOK /\ RunsRead /\ run[w] \in Run /\ run \in [Worker -> Run]
  BY RowTypes DEF LinkInv
<1>1. /\ UNCHANGED <<connect, vault, link, holding, asked, brokerage, synced>>
      /\ faults < MaxFaults /\ faults' = faults + 1 /\ run[w].pc # "idle"
      /\ run' = [run EXCEPT ![w] = Idle] \/ UNCHANGED run
  BY DEF Stall, AttemptFails, oauth, history
<1>2. run[w].link \in Connect
  BY <1>0, <1>1 DEF RunsRead
<1>3. faults' \in 0 .. MaxFaults /\ faults' > 0
  BY <1>0, <1>1, QueueAssumption DEF BrokerageTypeOK
<1>4. PICK r \in Job : EndJob(w, r)
  <2> DEFINE j == job[run[w].link]
  <2>1. j \in Job /\ NoJob \in Job
    BY <1>2, RowTypes
  <2>2. CASE Stall(w)
    <3>1. [j EXCEPT !.state = "waiting", !.by = Nothing] \in Job
      BY <2>1 DEF Job
    <3> QED
      BY <2>2, <3>1 DEF Stall
  <2>3. CASE AttemptFails(w)
    <3>1. j.made + 1 < Attempts => [state |-> "waiting", by |-> Nothing, made |-> j.made + 1] \in Job
      BY <2>1, QueueAssumption DEF Job
    <3>2. EndJob(w, IF j.made + 1 < Attempts
                    THEN [state |-> "waiting", by |-> Nothing, made |-> j.made + 1] ELSE NoJob)
      BY <2>3 DEF AttemptFails
    <3> QED
      BY <2>1, <3>1, <3>2
  <2> QED
    BY <2>2, <2>3
<1>5. job' \in [Connect -> Job]
  BY <1>1, <1>4, JobEnds
<1>6. run' \in [Worker -> Run] /\ RunsRead'
  <2>1. Idle \in Run /\ Idle.pc = "idle"
    BY RowTypes DEF Idle
  <2> QED
    BY <1>0, <1>1, <2>1 DEF RunsRead
<1>7. Linked' /\ Brought' /\ Cleared'
  BY <1>1, LinksKept
<1>8. BrokerageTypeOK'
  BY <1>0, <1>1, <1>3, <1>5, <1>6 DEF BrokerageTypeOK, brokerage
<1> QED
  BY <1>3, <1>6, <1>7, <1>8 DEF LinkInv

LEMMA LinkInvStep ==
  ASSUME LinkInv, [BrokerageNext]_links
  PROVE  LinkInv'
<1>1. CASE UNCHANGED links
  BY <1>1 DEF links, LinkInv, BrokerageTypeOK, Linked, Brought, Cleared, RunsRead, Live
<1>2. ASSUME NEW c \in Connect,
             \/ Authorize(c) \/ RefuseConnect(c) \/ FoundNone(c) \/ InsertLink(c) \/ Disconnect(c)
             \/ \E l \in Connect : Reconnect(c, l)
      PROVE  LinkInv'
  BY <1>2, ConnectKeeps
<1>3. ASSUME NEW c \in Connect,
             \/ CancelSync(c) \/ AskNow(c) \/ Scheduler(c) \/ EnqueueFails(c) \/ PickUp(c)
             \/ RefuseToken(c)
      PROVE  LinkInv'
  BY <1>3, QueueKeeps
<1>4. ASSUME NEW w \in Worker, Sync(w) \/ Stall(w) \/ AttemptFails(w)
      PROVE  LinkInv'
  BY <1>4, SyncKeeps, FaultKeeps
<1>5. ASSUME NEW s \in Symbol, Trade(s)
      PROVE  LinkInv'
  BY <1>5, TradeKeeps
<1> QED
  BY <1>1, <1>2, <1>3, <1>4, <1>5 DEF BrokerageNext

(***************************************************************************)
(* The order of syncs, while nothing is lost.                              *)
(***************************************************************************)

\* A step that neither takes, ends nor gives away a job of a run.
LEMMA OrderKept ==
  ASSUME LinkInv, OneRun, Newer, UNCHANGED <<run, synced>>, trades <= trades', trades' \in Nat,
         \A l \in Connect : \/ job'[l] = job[l]
                            \/ job[l].state # "active" /\ job'[l].state # "active"
                               /\ job'[l].by = job[l].by
                            \/ job[l].state # "active" /\ job'[l] = NoJob
  PROVE  OneRun' /\ Newer'
<1>1. \A l \in Connect : job'[l].state # "active" => job'[l].by = Nothing
  BY DEF OneRun, NoJob
<1>2. ASSUME NEW w \in Worker, run[w].pc # "idle"
      PROVE  job'[run[w].link].by = w
  <2>1. run[w].link \in Connect /\ job[run[w].link].by = w /\ w # Nothing
    BY <1>2, NothingAssumption DEF LinkInv, RunsRead, OneRun
  <2>2. job[run[w].link].state = "active"
    BY <2>1 DEF OneRun
  <2> QED
    BY <2>1, <2>2
<1>3. ASSUME NEW l \in Connect
      PROVE  synced[l] <= trades'
  <2>1. synced[l] \in Nat /\ trades \in Nat /\ synced[l] <= trades
    BY QueueAssumption DEF LinkInv, BrokerageTypeOK, Newer
  <2> QED
    BY <2>1
<1>4. ASSUME NEW w \in Worker, run[w].pc = "write"
      PROVE  run[w].told <= trades'
  <2>1. run[w].told \in Nat /\ trades \in Nat /\ run[w].told <= trades
    BY <1>4, RowTypes, QueueAssumption DEF LinkInv, BrokerageTypeOK, Newer, Run
  <2> QED
    BY <2>1
<1> QED
  BY <1>1, <1>2, <1>3, <1>4 DEF OneRun, Newer

\* A run that ends takes the job of its link with it.
LEMMA OrderAtEnd ==
  ASSUME LinkInv, OneRun, Newer, NEW w \in Worker, run[w].pc # "idle", FinishRun(w),
         UNCHANGED trades, synced' \in [Connect -> 0 .. MaxTrades],
         \A l \in Connect : \/ synced'[l] = synced[l]
                            \/ run[w].pc = "write" /\ l = run[w].link /\ synced'[l] = run[w].told
  PROVE  OneRun' /\ Newer' /\ \A l \in Connect : synced[l] <= synced'[l]
<1>0. /\ run[w].link \in Connect /\ job[run[w].link].by = w
      /\ job \in [Connect -> Job] /\ trades \in Nat
      /\ \A l \in Connect : synced[l] \in Nat
  BY RowTypes, QueueAssumption DEF LinkInv, BrokerageTypeOK, RunsRead, OneRun
<1>1. /\ job' = [job EXCEPT ![run[w].link] = NoJob] /\ run'[w].pc = "idle"
      /\ \A v \in Worker : v # w => run'[v] = run[v]
  <2>1. job' = [job EXCEPT ![run[w].link] = NoJob]
    BY <1>0 DEF FinishRun, EndJob
  <2> QED
    BY <2>1, FinishTypes DEF Idle
<1>2. ASSUME NEW v \in Worker, run'[v].pc # "idle"
      PROVE  /\ v # w /\ run'[v] = run[v] /\ run[v].link \in Connect
             /\ run[v].link # run[w].link /\ job[run[v].link].by = v
  BY <1>0, <1>1, <1>2 DEF LinkInv, RunsRead, OneRun
<1>3. OneRun'
  <2>1. \A l \in Connect : job'[l].state # "active" => job'[l].by = Nothing
    BY <1>0, <1>1 DEF OneRun, NoJob
  <2>2. \A v \in Worker : run'[v].pc # "idle" => job'[run'[v].link].by = v
    BY <1>0, <1>1, <1>2
  <2> QED
    BY <2>1, <2>2 DEF OneRun
<1>4. Newer'
  <2>1. \A l \in Connect : synced'[l] <= trades
    BY <1>0 DEF Newer
  <2>2. ASSUME NEW v \in Worker, run'[v].pc = "write"
        PROVE  synced'[run'[v].link] <= run'[v].told /\ run'[v].told <= trades
    BY <1>2, <2>2 DEF Newer
  <2> QED
    BY <2>1, <2>2 DEF Newer
<1>5. \A l \in Connect : synced[l] <= synced'[l]
  BY <1>0 DEF Newer
<1> QED
  BY <1>3, <1>4, <1>5

\* A run that goes on.
LEMMA OrderOnTheWay ==
  ASSUME LinkInv, OneRun, Newer, NEW w \in Worker, run[w].pc # "idle", NEW r \in Run,
         run' = [run EXCEPT ![w] = r], r.link = run[w].link, r.pc # "idle",
         r.pc = "write" => r.told = trades, UNCHANGED <<job, synced, trades>>
  PROVE  OneRun' /\ Newer'
<1>0. run \in [Worker -> Run] /\ run[w].link \in Connect /\ trades \in Nat
  BY RowTypes, QueueAssumption DEF LinkInv, BrokerageTypeOK, RunsRead
<1>1. run'[w] = r /\ \A v \in Worker : v # w => run'[v] = run[v]
  BY <1>0
<1>2. OneRun'
  BY <1>1 DEF OneRun
<1>3. Newer'
  BY <1>0, <1>1 DEF Newer
<1> QED
  BY <1>2, <1>3

LEMMA OrderStep ==
  ASSUME Inv, [BrokerageNext]_links
  PROVE  OrderInv' /\ (faults' = 0 => \A l \in Connect : synced[l] <= synced'[l])
<1>0. /\ LinkInv /\ BrokerageTypeOK /\ faults \in Nat /\ trades \in Nat
      /\ \A l \in Connect : synced[l] \in Nat /\ synced[l] <= synced[l]
  BY QueueAssumption DEF Inv, LinkInv, BrokerageTypeOK
<1> SUFFICES ASSUME faults' = 0
             PROVE  OneRun' /\ Newer' /\ \A l \in Connect : synced[l] <= synced'[l]
  BY DEF OrderInv
<1>1. faults = 0
  <2>1. CASE \E w \in Worker : Stall(w) \/ AttemptFails(w)
    BY <1>0, <2>1 DEF Stall, AttemptFails
  <2>2. CASE \E l \in Connect : EnqueueFails(l)
    BY <1>0, <2>2 DEF EnqueueFails
  <2>3. CASE UNCHANGED faults
    BY <2>3
  <2> QED
    BY <2>1, <2>2, <2>3
       DEF BrokerageNext, links, Authorize, RefuseConnect, FoundNone, InsertLink, Reconnect, Scheduler,
           AskDue, GrowDue, Enqueue, PickUp, Disconnect, CancelSync, AskNow, RefuseToken, Sync,
           ReadLink, ReadSecret, GetPositions, WriteHoldings, ExpireLink, Trade
<1>2. OneRun /\ Newer
  BY <1>1 DEF Inv, OrderInv
<1>3. CASE UNCHANGED <<job, run, synced, trades>>
  BY <1>0, <1>2, <1>3, OrderKept
<1>4. ASSUME NEW l \in Connect, Enqueue(l) \/ CancelSync(l)
      PROVE  OneRun' /\ Newer' /\ \A k \in Connect : synced[k] <= synced'[k]
  <2>1. UNCHANGED <<run, synced, trades>>
    BY <1>4 DEF Enqueue, CancelSync, brokerage, history
  <2>2. \A k \in Connect : \/ job'[k] = job[k]
                           \/ job[k].state # "active" /\ job'[k].state # "active"
                              /\ job'[k].by = job[k].by
                           \/ job[k].state # "active" /\ job'[k] = NoJob
    <3>1. CASE Enqueue(l)
      <4>1. CASE job[l].state = "none" /\ job' = [job EXCEPT ![l].state = "waiting"]
        <5>1. /\ job'[l].state = "waiting" /\ job'[l].by = job[l].by
              /\ \A k \in Connect : k # l => job'[k] = job[k]
          BY <4>1, RowTypes, <1>0 DEF Job
        <5> QED
          BY <4>1, <5>1
      <4>2. CASE UNCHANGED job
        BY <4>2
      <4> QED
        BY <3>1, <4>1, <4>2 DEF Enqueue
    <3>2. CASE CancelSync(l)
      BY <3>2, RowTypes, <1>0 DEF CancelSync
    <3> QED
      BY <1>4, <3>1, <3>2
  <2> QED
    BY <1>0, <1>2, <2>1, <2>2, OrderKept
<1>5. ASSUME NEW l \in Connect, PickUp(l)
      PROVE  OneRun' /\ Newer' /\ \A k \in Connect : synced[k] <= synced'[k]
  <2>1. PICK w \in Worker :
          /\ run[w].pc = "idle" /\ job' = [job EXCEPT ![l].state = "active", ![l].by = w]
          /\ run' = [run EXCEPT ![w] = [Idle EXCEPT !.pc = "link", !.link = l]]
          /\ job[l].state = "waiting" /\ UNCHANGED <<synced, trades>>
    <3>1. (CHOOSE w \in Worker : run[w].pc = "idle") \in Worker
          /\ run[CHOOSE w \in Worker : run[w].pc = "idle"].pc = "idle"
      BY <1>5 DEF PickUp
    <3> QED
      BY <1>5, <3>1 DEF PickUp, brokerage, history
  <2> DEFINE j == [job[l] EXCEPT !.state = "active", !.by = w]
             r == [Idle EXCEPT !.pc = "link", !.link = l]
  <2>2. job' = [job EXCEPT ![l] = j] /\ run' = [run EXCEPT ![w] = r]
    BY <2>1
  <2>3. j.state = "active" /\ j.by = w /\ r.link = l /\ r.pc = "link"
    BY <1>0, RowTypes DEF Job, Idle, Run
  <2> HIDE DEF j, r
  <2>4. /\ job'[l] = j /\ run'[w] = r
        /\ \A k \in Connect : k # l => job'[k] = job[k]
        /\ \A v \in Worker : v # w => run'[v] = run[v]
    BY <1>0, <2>2, RowTypes
  <2>5. ASSUME NEW v \in Worker, v # w, run[v].pc # "idle"
        PROVE  job'[run[v].link].by = v
    <3>1. run[v].link \in Connect /\ job[run[v].link].by = v /\ v # Nothing
      BY <1>0, <1>2, <2>5, NothingAssumption DEF LinkInv, RunsRead, OneRun
    <3>2. run[v].link # l
      BY <1>2, <2>1, <3>1 DEF OneRun
    <3> QED
      BY <2>4, <3>1, <3>2
  <2>6. OneRun'
    BY <1>2, <2>3, <2>4, <2>5 DEF OneRun
  <2>7. Newer'
    BY <1>2, <2>1, <2>3, <2>4 DEF Newer
  <2> QED
    BY <1>0, <2>1, <2>6, <2>7
<1>6. ASSUME NEW w \in Worker, ReadLink(w) \/ ExpireLink(w) \/ WriteHoldings(w)
      PROVE  OneRun' /\ Newer' /\ \A k \in Connect : synced[k] <= synced'[k]
  <2>0. synced' \in [Connect -> 0 .. MaxTrades] /\ UNCHANGED trades /\ run[w].pc # "idle"
    <3>1. LinkInv'
      BY <1>0, <1>6, SyncKeeps DEF Sync
    <3> QED
      BY <1>6, <3>1 DEF LinkInv, BrokerageTypeOK, ReadLink, ExpireLink, WriteHoldings, brokerage
  <2>1. CASE /\ FinishRun(w)
             /\ \A l \in Connect :
                  \/ synced'[l] = synced[l]
                  \/ run[w].pc = "write" /\ l = run[w].link /\ synced'[l] = run[w].told
    BY <1>0, <1>2, <2>0, <2>1, OrderAtEnd
  <2>2. CASE ReadLink(w) /\ ~FinishRun(w)
    <3> DEFINE l == run[w].link
               r == [run[w] EXCEPT !.pc = "secret", !.wallet = link[l].wallet, !.ref = link[l].ref]
    <3>1. run' = [run EXCEPT ![w] = r] /\ UNCHANGED <<job, synced, trades>> /\ run[w] \in Run
      BY <1>0, <2>2, RowTypes DEF ReadLink, brokerage, history
    <3>2. link[l] \in LinkRow
      BY <1>0, <2>0, RowTypes DEF LinkInv, RunsRead
    <3>3. r \in Run /\ r.link = run[w].link /\ r.pc = "secret"
      BY <3>1, <3>2 DEF Run, LinkRow
    <3> HIDE DEF r
    <3> QED
      BY <1>0, <1>2, <2>0, <3>1, <3>3, OrderOnTheWay
  <2>3. CASE ExpireLink(w)
    BY <2>1, <2>3 DEF ExpireLink, history
  <2>4. CASE WriteHoldings(w)
    <3>1. FinishRun(w) /\ run[w].pc = "write"
      BY <2>4 DEF WriteHoldings
    <3>2. synced' = [synced EXCEPT ![run[w].link] = run[w].told] \/ UNCHANGED synced
      BY <2>4 DEF WriteHoldings
    <3> QED
      BY <1>0, <2>1, <3>1, <3>2 DEF BrokerageTypeOK
  <2>5. CASE ReadLink(w) /\ FinishRun(w)
    BY <2>1, <2>5 DEF ReadLink, history
  <2> QED
    BY <1>6, <2>2, <2>3, <2>4, <2>5
<1>7. ASSUME NEW w \in Worker, ReadSecret(w) \/ GetPositions(w)
      PROVE  OneRun' /\ Newer' /\ \A k \in Connect : synced[k] <= synced'[k]
  <2>0. /\ run[w].pc # "idle" /\ run[w] \in Run /\ run[w].link \in Connect
        /\ UNCHANGED <<job, synced, trades>>
    BY <1>0, <1>7, RowTypes DEF ReadSecret, GetPositions, brokerage, history, LinkInv, RunsRead
  <2>1. PICK r \in Run :
          /\ run' = [run EXCEPT ![w] = r] /\ r.link = run[w].link
          /\ r.pc # "idle" /\ (r.pc = "write" => r.told = trades)
    <3> DEFINE e == [Idle EXCEPT !.pc = "expire", !.link = run[w].link]
               s == [run[w] EXCEPT !.pc = "positions"]
               g == [run[w] EXCEPT !.pc = "write", !.ref = Nothing, !.held = world, !.told = trades]
    <3>1. e \in Run /\ e.link = run[w].link /\ e.pc = "expire"
      BY <1>0, <2>0, RowTypes DEF Run
    <3>2. s \in Run /\ s.link = run[w].link /\ s.pc = "positions"
      BY <2>0 DEF Run
    <3>3. g \in Run /\ g.link = run[w].link /\ g.pc = "write" /\ g.told = trades
      BY <1>0, <2>0 DEF Run, BrokerageTypeOK
    <3>4. run' = [run EXCEPT ![w] = e] \/ run' = [run EXCEPT ![w] = s] \/ run' = [run EXCEPT ![w] = g]
      BY <1>0, <1>7, RowTypes DEF ReadSecret, GetPositions
    <3> HIDE DEF e, s, g
    <3> QED
      BY <3>1, <3>2, <3>3, <3>4
  <2> QED
    BY <1>0, <1>2, <2>0, <2>1, OrderOnTheWay
<1>8. ASSUME NEW s \in Symbol, Trade(s)
      PROVE  OneRun' /\ Newer' /\ \A k \in Connect : synced[k] <= synced'[k]
  BY <1>0, <1>2, <1>8, OrderKept DEF Trade, history
<1>9. CASE \E w \in Worker : Stall(w) \/ AttemptFails(w)
  BY <1>0, <1>1, <1>9 DEF Stall, AttemptFails
<1> QED
  BY <1>3, <1>4, <1>5, <1>6, <1>7, <1>8, <1>9
     DEF BrokerageNext, links, Authorize, RefuseConnect, FoundNone, InsertLink, Reconnect, Scheduler,
         AskDue, GrowDue, Disconnect, AskNow, RefuseToken, EnqueueFails, Sync, brokerage, history

\* The invariant holds of every state that can be reached.
THEOREM InvCorrect == BrokerageSpec => []Inv
<1>1. Inv /\ [BrokerageNext]_links => Inv'
  BY LinkInvStep, OrderStep DEF Inv
<1> QED
  BY InitInv, <1>1, PTL DEF BrokerageSpec

\* NothingLeftBehind: the vault holds the tokens of the links that are not
\* disconnected and no other, holdings are of those links, and one link of
\* the account is active (handleCallback, deleteBrokerageLink, syncLink).
THEOREM LinksAreClean == BrokerageSpec => []NothingLeftBehind
<1>1. Inv => NothingLeftBehind
  BY DEF Inv, LinkInv, Cleared, Linked, NothingLeftBehind
<1> QED
  BY InvCorrect, <1>1, PTL

\* SyncsInOrder: while every job came to its end, the holdings of a link are
\* not replaced by older ones (enqueueLinkSync, runLinkSync).
THEOREM OlderNeverWins == BrokerageSpec => SyncsInOrder
<1>1. Inv /\ [BrokerageNext]_links =>
        [faults' = 0 => \A l \in Connect : synced[l] <= synced'[l]]_links
  BY OrderStep
<1> QED
  BY InvCorrect, <1>1, PTL DEF BrokerageSpec, SyncsInOrder

(***************************************************************************)
(* Loans: the balance is what the installments owe (BalanceIsSchedule), a  *)
(* fee is charged and interest waived as agreed (OwedAsAgreed), and money  *)
(* is collected as agreed (CollectedAsAgreed).                             *)
(*                                                                         *)
(* None is inductive.  What a payment is applied to has to add up to it,   *)
(* which rests on the order the parts of the debt are paid in; a fee rests *)
(* on what the run has found late, and a day's one collection on nothing   *)
(* being left due once something was collected.                            *)
(***************************************************************************)

\* An installment's row, as the handlers leave it.
RepaymentRow ==
  [principal: Nat, interest: Nat, principalPaid: Nat, interestPaid: Nat, waived: Nat,
   fee: Nat, feePaid: Nat, charged: BOOLEAN, paid: BOOLEAN]

Sound(r) ==
  /\ r \in RepaymentRow
  /\ OwedFee(r) >= 0 /\ OwedInterest(r) >= 0 /\ OwedPrincipal(r) >= 0
  /\ r.fee = IF r.charged THEN LateFee ELSE 0
  /\ r.paid <=> Owed(r) = 0

\* A schedule is there once the loan is disbursed, with a row for each month.
Schedule ==
  /\ IF loan.status \in {"none", "approved"} THEN rows = <<>> /\ collected = {} ELSE
       /\ loan.terms \in Offers
       /\ DOMAIN rows = 1 .. loan.terms.months
       /\ rows = [k \in DOMAIN rows |-> rows[k]]
       /\ SumFunctionOnSet([k \in DOMAIN rows |-> rows[k].principal], DOMAIN rows)
            = loan.terms.principal
  /\ loan.status = "approved" => loan.terms \in Offers
  /\ application # "approved" => loan.status = "none"
  /\ \A k \in DOMAIN rows : Sound(rows[k])

LoanRow == [status: {"none", "approved", "active", "defaulted", "repaid"}, balance: Nat,
            autoDebit: BOOLEAN, lastAttempt: 0 .. MaxDay \cup {None},
            terms: Offers \cup {None}]

RoundRow == [pc: {"idle", "key", "collect", "findFees", "fees", "default"},
             key: (0 .. MaxDay) \X Nat, late: SUBSET Nat]

LoanTypes ==
  /\ application \in {"none", "pending_review", "approved", "rejected"}
  /\ loan \in LoanRow
  /\ account \in {"active", "closed"}
  /\ today \in 0 .. MaxDay
  /\ round \in [Runner -> RoundRow]
  /\ taken \in Nat

\* What the loan says is what its rows say.
Books ==
  /\ taken = SumFunctionOnSet([k \in DOMAIN rows |-> PaidOn(rows[k])], DOMAIN rows)
  /\ loan.balance = OwedOn(DOMAIN rows)
  /\ Repayable => loan.balance > 0
  /\ loan.status = "repaid" => loan.balance = 0

\* An installment that a run found late still is, whatever was paid or charged.
FoundLate ==
  \A w \in Runner : \A k \in round[w].late : k \in DOMAIN rows /\ DueDay(k) + GraceDays < today

\* Nothing more is due on a day on which what was due has been collected.
NothingLeftToday == \A c \in collected : c.day \in 0 .. today /\ (c.day = today => Due = {})

LoansInv == LoanTypes /\ Schedule /\ Books /\ FoundLate /\ NothingLeftToday

(***************************************************************************)
(* The schedule (Amortization): the principal of its installments is what  *)
(* was lent.                                                               *)
(***************************************************************************)

\* p[k] is a to the power of k, for every k up to n.
Powers(p, a, n) == p = [k \in 0 .. n |-> IF k = 0 THEN 1 ELSE a * p[k - 1]]

PowersOf(a, n) == CHOOSE p : Powers(p, a, n)

LEMMA PowerIsChosen ==
  ASSUME NEW a, NEW n
  PROVE  Power(a, n) = PowersOf(a, n)[n]
  BY DEF Power, PowersOf, Powers

LEMMA PowersExist ==
  ASSUME NEW a \in Nat, NEW n \in Nat
  PROVE  Powers(PowersOf(a, n), a, n)
<1> DEFINE Missing == {m \in Nat : ~ \E p : Powers(p, a, m)}
<1>1. Missing = {}
  <2> SUFFICES ASSUME Missing # {} PROVE FALSE
    OBVIOUS
  <2>1. PICK m \in Missing : \A l \in Missing : m <= l
    <3> Missing \in SUBSET Nat
      OBVIOUS
    <3> HIDE DEF Missing
    <3> QED
      BY LeastOf
  <2>2. m # 0
    <3>1. Powers([k \in 0 .. 0 |-> 1], a, 0)
      BY DEF Powers
    <3> QED
      BY <2>1, <3>1
  <2>3. m - 1 \in Nat /\ ~ (m <= m - 1)
    BY <2>2
  <2>4. PICK p : Powers(p, a, m - 1)
    BY <2>1, <2>3
  <2> DEFINE more == [k \in 0 .. m |-> IF k = 0 THEN 1 ELSE a * p[k - 1]]
  <2>5. \A k \in 0 .. m - 1 : more[k] = p[k]
    BY <2>4 DEF Powers
  <2>6. \A k \in 0 .. m : k # 0 => k - 1 \in 0 .. m - 1
    BY <2>3
  <2>7. Powers(more, a, m)
    <3>1. \A k \in 0 .. m : more[k] = IF k = 0 THEN 1 ELSE a * more[k - 1]
      BY <2>5, <2>6
    <3>2. more = [k \in 0 .. m |-> more[k]]
      OBVIOUS
    <3> HIDE DEF more
    <3> QED
      BY <3>1, <3>2 DEF Powers
  <2> QED
    BY <2>1, <2>7
<1>2. \E p : Powers(p, a, n)
  BY <1>1
<1> QED
  BY <1>2 DEF PowersOf

LEMMA PowersAgree ==
  ASSUME NEW a \in Nat, NEW n \in Nat
  PROVE  \A m \in 0 .. n : PowersOf(a, n)[m] = Power(a, m)
<1> DEFINE Bad == {m \in Nat : m <= n /\ PowersOf(a, n)[m] # Power(a, m)}
           big == PowersOf(a, n)
<1>1. Powers(big, a, n)
  BY PowersExist
<1> SUFFICES ASSUME NEW m \in Nat, m <= n PROVE big[m] = PowersOf(a, m)[m]
  BY PowerIsChosen
<1> DEFINE small == PowersOf(a, m)
           Wrong == {l \in Nat : l <= m /\ big[l] # small[l]}
<1>2. Powers(small, a, m)
  BY PowersExist
<1> HIDE DEF big, small
<1>3. Wrong = {}
  <2> SUFFICES ASSUME Wrong # {} PROVE FALSE
    OBVIOUS
  <2>1. PICK l \in Wrong : \A j \in Wrong : l <= j
    <3> Wrong \in SUBSET Nat
      OBVIOUS
    <3> HIDE DEF Wrong
    <3> QED
      BY LeastOf
  <2>2. /\ big[l] = IF l = 0 THEN 1 ELSE a * big[l - 1]
        /\ small[l] = IF l = 0 THEN 1 ELSE a * small[l - 1]
    BY <1>1, <1>2 DEF Powers
  <2>3. l # 0
    BY <2>2
  <2>4. l - 1 \in Nat /\ l - 1 <= m /\ ~ (l <= l - 1)
    BY <2>3
  <2>5. big[l - 1] = small[l - 1]
    BY <2>1, <2>4
  <2> QED
    BY <2>2, <2>3, <2>5
<1> QED
  BY <1>3 DEF small

\* What the function is: it may be calculated with.
LEMMA PowerStep ==
  ASSUME NEW a \in Nat, NEW n \in Nat
  PROVE  Power(a, 0) = 1 /\ Power(a, n + 1) = a * Power(a, n)
<1>1. Powers(PowersOf(a, 0), a, 0) /\ Powers(PowersOf(a, n + 1), a, n + 1)
  BY PowersExist
<1>2. PowersOf(a, 0)[0] = 1
  BY <1>1 DEF Powers
<1>3. PowersOf(a, n + 1)[n + 1] = a * PowersOf(a, n + 1)[n]
  BY <1>1 DEF Powers
<1>4. PowersOf(a, n + 1)[n] = Power(a, n)
  BY PowersAgree
<1> QED
  BY <1>2, <1>3, <1>4, PowerIsChosen

LEMMA PowerIsPositive ==
  ASSUME NEW a \in Nat \ {0}
  PROVE  \A n \in Nat : Power(a, n) \in Nat \ {0}
<1> DEFINE Bad == {n \in Nat : Power(a, n) \notin Nat \ {0}}
<1> SUFFICES ASSUME Bad # {} PROVE FALSE
  OBVIOUS
<1>1. PICK n \in Bad : \A m \in Bad : n <= m
  <2> Bad \in SUBSET Nat
    OBVIOUS
  <2> HIDE DEF Bad
  <2> QED
    BY LeastOf
<1>2. n # 0
  BY PowerStep
<1>3. n - 1 \in Nat /\ ~ (n <= n - 1) /\ n = (n - 1) + 1
  BY <1>2
<1>4. PICK p \in Nat \ {0} : p = Power(a, n - 1)
  BY <1>1, <1>3
<1>5. Power(a, n) = a * p
  BY <1>3, <1>4, PowerStep
<1>6. a * p \in Nat \ {0}
  OBVIOUS
<1> QED
  BY <1>5, <1>6

LEMMA PowerGrows ==
  ASSUME NEW a \in Nat \ {0}, NEW b \in Nat, a < b
  PROVE  \A n \in Nat : n > 0 => Power(a, n) < Power(b, n)
<1> DEFINE Bad == {n \in Nat : n > 0 /\ ~ (Power(a, n) < Power(b, n))}
<1> SUFFICES ASSUME Bad # {} PROVE FALSE
  OBVIOUS
<1>1. PICK n \in Bad : \A m \in Bad : n <= m
  <2> Bad \in SUBSET Nat
    OBVIOUS
  <2> HIDE DEF Bad
  <2> QED
    BY LeastOf
<1>2. n - 1 \in Nat /\ ~ (n <= n - 1) /\ n = (n - 1) + 1
  OBVIOUS
<1>3. PICK p, q \in Nat \ {0} : p = Power(a, n - 1) /\ q = Power(b, n - 1)
  <2>1. b \in Nat \ {0}
    OBVIOUS
  <2>2. Power(a, n - 1) \in Nat \ {0} /\ Power(b, n - 1) \in Nat \ {0}
    BY <1>2, <2>1, PowerIsPositive
  <2> QED
    BY <2>2
<1>4. p <= q
  <2>1. CASE n - 1 = 0
    BY <1>3, <2>1, PowerStep
  <2>2. CASE n - 1 # 0
    <3>1. n - 1 > 0 /\ n - 1 \notin Bad
      BY <1>1, <1>2, <2>2
    <3> QED
      BY <1>2, <1>3, <3>1
  <2> QED
    BY <2>1, <2>2
<1>5. Power(a, n) = a * p /\ Power(b, n) = b * q
  BY <1>2, <1>3, PowerStep
<1>6. a * p < b * q
  <2>1. a * p <= a * q
    BY <1>4
  <2>2. b * q = a * q + (b - a) * q
    OBVIOUS
  <2>3. (b - a) * q > 0
    OBVIOUS
  <2>4. a * p \in Nat /\ a * q \in Nat /\ (b - a) * q \in Int
    OBVIOUS
  <2> QED
    BY <2>1, <2>2, <2>3, <2>4
<1> QED
  BY <1>5, <1>6

LEMMA RoundedIsInt ==
  ASSUME NEW a \in Int, NEW b \in Nat \ {0}
  PROVE  Rounded(a, b) \in Int /\ Rounded(0, b) = 0
<1>1. 2 * a + b \in Int /\ 2 * b > 0 /\ 2 * b \in Int
  OBVIOUS
<1>2. (2 * a + b) \div (2 * b) \in Int
  BY <1>1
<1>3. (2 * 0 + b) \div (2 * b) = 0
  OBVIOUS
<1> QED
  BY <1>2, <1>3 DEF Rounded

\* What is repaid after each installment is a whole number, nothing before
\* the first one and all of it after the last.
LEMMA RepaidRanges ==
  ASSUME NEW t \in Terms
  PROVE  /\ t.months \in Nat \ {0}
         /\ \A k \in 0 .. t.months : Repaid(t, k) \in Int
         /\ Repaid(t, 0) = 0 /\ Repaid(t, t.months) = t.principal
<1>1. /\ t.principal \in Nat /\ t.months \in Nat \ {0}
      /\ t.rate.num \in Nat /\ t.rate.den \in Nat \ {0}
  BY DEF Terms
<1>2. Repaid(t, t.months) = t.principal
  BY <1>1 DEF Repaid
<1>3. CASE t.rate.num = 0
  <2>1. ASSUME NEW k \in 0 .. t.months, k # t.months
        PROVE  Repaid(t, k) = Rounded(t.principal * k, t.months) /\ t.principal * k \in Int
    BY <1>1, <1>3, <2>1 DEF Repaid
  <2>2. t.principal * 0 = 0 /\ 0 \in 0 .. t.months /\ 0 # t.months
    BY <1>1
  <2>3. Repaid(t, 0) = 0
    BY <1>1, <2>1, <2>2, RoundedIsInt
  <2>4. ASSUME NEW k \in 0 .. t.months
        PROVE  Repaid(t, k) \in Int
    <3>1. CASE k = t.months
      BY <1>1, <1>2, <3>1
    <3>2. CASE k # t.months
      BY <1>1, <2>1, <3>2, RoundedIsInt
    <3> QED
      BY <3>1, <3>2
  <2> QED
    BY <1>1, <1>2, <2>3, <2>4
<1>4. CASE t.rate.num # 0
  <2> DEFINE den == t.rate.den
             grown == t.rate.den + t.rate.num
             whole == Growth(t, t.months)
  <2>1. den \in Nat \ {0} /\ grown \in Nat \ {0} /\ den < grown
    BY <1>1, <1>4
  <2>2. whole \in Nat \ {0}
    <3>1. Power(den, t.months) \in Nat /\ Power(grown, t.months) \in Nat
      BY <1>1, <2>1, PowerIsPositive
    <3>2. Power(den, t.months) < Power(grown, t.months)
      BY <1>1, <2>1, PowerGrows
    <3> QED
      BY <3>1, <3>2 DEF Growth, Grown
  <2>3. ASSUME NEW k \in 0 .. t.months, k # t.months
        PROVE  /\ Growth(t, k) \in Int /\ Power(den, t.months - k) \in Int
               /\ Repaid(t, k) = Rounded(t.principal * Growth(t, k) * Power(den, t.months - k), whole)
    <3>1. k \in Nat /\ t.months - k \in Nat
      BY <1>1
    <3>2. Power(den, k) \in Nat /\ Power(grown, k) \in Nat /\ Power(den, t.months - k) \in Nat
      BY <2>1, <3>1, PowerIsPositive
    <3> QED
      BY <1>4, <2>3, <3>2 DEF Repaid, Growth, Grown
  <2> HIDE DEF den, whole
  <2>4. ASSUME NEW k \in 0 .. t.months, k # t.months
        PROVE  Repaid(t, k) \in Int
    <3>1. PICK g, p \in Int : g = Growth(t, k) /\ p = Power(den, t.months - k)
      BY <2>3, <2>4
    <3>2. t.principal * g * p \in Int
      BY <1>1
    <3> QED
      BY <2>2, <2>3, <2>4, <3>1, <3>2, RoundedIsInt
  <2>5. Growth(t, 0) = 0
    BY <2>1, PowerStep DEF Growth, Grown, den
  <2>6. Repaid(t, 0) = 0
    <3>1. 0 \in 0 .. t.months /\ 0 # t.months
      BY <1>1
    <3>2. PICK p \in Int : p = Power(den, t.months - 0)
      BY <2>3, <3>1
    <3>3. t.principal * 0 * p = 0
      BY <1>1
    <3> QED
      BY <2>2, <2>3, <2>5, <3>1, <3>2, <3>3, RoundedIsInt
  <2> QED
    BY <1>1, <1>2, <2>4, <2>6
<1> QED
  BY <1>3, <1>4

\* A schedule's installments are whole numbers, and its principal comes out
\* exactly, whatever is rounded.
LEMMA ScheduleAddsUp ==
  ASSUME NEW t \in Terms
  PROVE  /\ DOMAIN BuildSchedule(t) = 1 .. t.months
         /\ \A k \in 1 .. t.months : /\ BuildSchedule(t)[k].principal \in Int
                                     /\ BuildSchedule(t)[k].interest \in Int
         /\ \A f : (\A k \in 1 .. t.months : f[k] = BuildSchedule(t)[k].principal)
                     => SumFunctionOnSet(f, 1 .. t.months) = t.principal
<1>1. /\ t.principal \in Nat /\ t.months \in Nat \ {0}
      /\ t.rate.num \in Nat /\ t.rate.den \in Nat \ {0}
  BY DEF Terms
<1> DEFINE r == [k \in 0 .. t.months |-> Repaid(t, k)]
<1>2. (\A k \in 0 .. t.months : r[k] \in Int) /\ r[0] = 0 /\ r[t.months] = t.principal
  BY <1>1, RepaidRanges
<1>3. ASSUME NEW k \in 1 .. t.months
      PROVE  /\ BuildSchedule(t)[k].principal = r[k] - r[k - 1]
             /\ BuildSchedule(t)[k].interest = Rounded((t.principal - r[k - 1]) * t.rate.num, t.rate.den)
             /\ r[k] \in Int /\ r[k - 1] \in Int
  <2>1. k \in 0 .. t.months /\ k - 1 \in 0 .. t.months
    BY <1>1
  <2> QED
    BY <1>2, <2>1 DEF BuildSchedule
<1> HIDE DEF r
<1>4. ASSUME NEW k \in 1 .. t.months
      PROVE  BuildSchedule(t)[k].interest \in Int
  <2>1. (t.principal - r[k - 1]) * t.rate.num \in Int
    BY <1>1, <1>3
  <2> QED
    BY <1>1, <1>3, <2>1, RoundedIsInt
<1>5. ASSUME NEW f, \A k \in 1 .. t.months : f[k] = BuildSchedule(t)[k].principal
      PROVE  SumFunctionOnSet(f, 1 .. t.months) = t.principal
  <2>1. \A k \in 1 .. t.months : f[k] = r[k] - r[k - 1]
    BY <1>3, <1>5
  <2>2. SumFunctionOnSet(f, 1 .. t.months) = r[t.months] - r[0]
    BY <1>1, <1>2, <2>1, SumOfSteps
  <2> QED
    BY <1>1, <1>2, <2>2
<1>6. DOMAIN BuildSchedule(t) = 1 .. t.months
  BY DEF BuildSchedule
<1> QED
  BY <1>3, <1>4, <1>5, <1>6

LEMMA DivisionGrows ==
  ASSUME NEW a \in Int, NEW b \in Int, NEW n \in Nat \ {0}, a <= b
  PROVE  a \div n <= b \div n
<1>1. PICK p, q \in Int : p = a \div n /\ q = b \div n
  OBVIOUS
<1>2. n * p <= a /\ b < n * q + n
  BY <1>1
<1>3. SUFFICES ASSUME p >= q + 1 PROVE FALSE
  BY <1>1
<1>4. n * p >= n * q + n
  <2>1. n * p = n * q + n + n * (p - (q + 1))
    OBVIOUS
  <2>2. n * (p - (q + 1)) >= 0
    BY <1>3
  <2>3. n * q \in Int /\ n * p \in Int /\ n * (p - (q + 1)) \in Int
    OBVIOUS
  <2> QED
    BY <2>1, <2>2, <2>3
<1>5. n * p \in Int /\ n * q \in Int
  OBVIOUS
<1> QED
  BY <1>2, <1>4, <1>5

LEMMA RoundedGrows ==
  ASSUME NEW a \in Int, NEW b \in Int, NEW n \in Nat \ {0}, a <= b
  PROVE  Rounded(a, n) <= Rounded(b, n)
<1>1. 2 * a + n \in Int /\ 2 * b + n \in Int /\ 2 * a + n <= 2 * b + n /\ 2 * n \in Nat \ {0}
  OBVIOUS
<1> QED
  BY <1>1, DivisionGrows DEF Rounded

LEMMA RoundedWhole ==
  ASSUME NEW a \in Nat, NEW n \in Nat \ {0}
  PROVE  Rounded(a * n, n) = a
<1> DEFINE x == 2 * (a * n) + n
           m == 2 * n
<1>1. x = m * a + n /\ m \in Nat \ {0} /\ x \in Int /\ 0 <= n /\ n < m
  OBVIOUS
<1>2. PICK q \in Int : q = x \div m
  BY <1>1
<1> HIDE DEF x, m
<1>3. m * q <= x /\ x < m * q + m
  BY <1>1, <1>2
<1>4. m * a \in Int /\ m * q \in Int /\ m * (q - a) = m * q - m * a
  BY <1>1
<1>5. m * (q - a) < m /\ m * (q - a) > - m
  BY <1>1, <1>3, <1>4
<1>6. q - a = 0
  <2>1. CASE q - a >= 1
    <3>1. m * (q - a) >= m
      BY <1>1, <2>1
    <3> QED
      BY <1>1, <1>4, <1>5, <3>1
  <2>2. CASE q - a <= -1
    <3>1. m * (q - a) <= - m
      BY <1>1, <2>2
    <3> QED
      BY <1>1, <1>4, <1>5, <3>1
  <2> QED
    BY <2>1, <2>2
<1> QED
  BY <1>2, <1>6 DEF Rounded, x, m

\* What is repaid after k installments, before it is divided and rounded.
Exactly(t, k) ==
  IF t.rate.num = 0 THEN t.principal * k
  ELSE t.principal * (Growth(t, k) * Power(t.rate.den, t.months - k))

Divisor(t) == IF t.rate.num = 0 THEN t.months ELSE Growth(t, t.months)

\* It grows with every installment, because the rate is not negative.
LEMMA GrowthGrows ==
  ASSUME NEW t \in Terms, t.rate.num # 0
  PROVE  /\ Growth(t, t.months) \in Nat \ {0}
         /\ \A k \in 0 .. t.months :
              Growth(t, k) \in Nat /\ Power(t.rate.den, t.months - k) \in Nat \ {0}
         /\ \A k \in 1 .. t.months :
              Growth(t, k - 1) * Power(t.rate.den, t.months - (k - 1))
                <= Growth(t, k) * Power(t.rate.den, t.months - k)
<1> DEFINE d == t.rate.den
           g == t.rate.den + t.rate.num
           n == t.months
<1>1. d \in Nat \ {0} /\ g \in Nat \ {0} /\ d < g /\ n \in Nat \ {0}
  BY DEF Terms
<1>2. \A k \in Nat : Growth(t, k) = Power(g, k) - Power(d, k)
  BY DEF Growth, Grown
<1> HIDE DEF d, g, n
<1>3. ASSUME NEW k \in Nat
      PROVE  Power(d, k) \in Nat \ {0} /\ Power(g, k) \in Nat \ {0} /\ Power(d, k) <= Power(g, k)
  <2>1. CASE k = 0
    <3>1. Power(d, 0) = 1 /\ Power(g, 0) = 1
      BY <1>1, PowerStep
    <3> QED
      BY <2>1, <3>1
  <2>2. CASE k # 0
    <3>1. Power(d, k) \in Nat \ {0} /\ Power(g, k) \in Nat \ {0}
      BY <1>1, PowerIsPositive
    <3>2. Power(d, k) < Power(g, k)
      BY <1>1, <2>2, PowerGrows
    <3> QED
      BY <3>1, <3>2
  <2> QED
    BY <2>1, <2>2
<1>4. Growth(t, n) \in Nat \ {0}
  <2>1. Power(d, n) < Power(g, n)
    BY <1>1, PowerGrows
  <2> QED
    BY <1>1, <1>2, <1>3, <2>1
<1>5. ASSUME NEW k \in 0 .. n
      PROVE  Growth(t, k) \in Nat /\ Power(d, n - k) \in Nat \ {0}
  <2>1. k \in Nat /\ n - k \in Nat
    BY <1>1
  <2>2. PICK x, y \in Nat : x = Power(d, k) /\ y = Power(g, k) /\ x <= y
    BY <1>3, <2>1
  <2>3. Growth(t, k) = y - x
    BY <1>2, <2>1, <2>2
  <2> QED
    BY <1>3, <2>1, <2>2, <2>3
<1>6. ASSUME NEW k \in 1 .. n
      PROVE  Growth(t, k - 1) * Power(d, n - (k - 1)) <= Growth(t, k) * Power(d, n - k)
  <2>1. k - 1 \in Nat /\ n - k \in Nat /\ k \in Nat /\ k = (k - 1) + 1 /\ n - (k - 1) = (n - k) + 1
    BY <1>1
  <2>2. PICK x, y, e \in Nat \ {0} : x = Power(d, k - 1) /\ y = Power(g, k - 1) /\ e = Power(d, n - k)
    BY <1>3, <2>1
  <2>3. Power(d, k) = d * x /\ Power(g, k) = g * y /\ Power(d, n - (k - 1)) = d * e
    BY <1>1, <2>1, <2>2, PowerStep
  <2>4. Growth(t, k - 1) = y - x /\ Growth(t, k) = g * y - d * x
    BY <1>2, <2>1, <2>2, <2>3
  <2>5. (g * y - d * x) * e = (y - x) * (d * e) + ((g - d) * y) * e
    BY <1>1
  <2>6. ((g - d) * y) * e \in Nat /\ (y - x) * (d * e) \in Int
    BY <1>1
  <2>7. (y - x) * (d * e) <= (g * y - d * x) * e
    BY <2>5, <2>6
  <2> QED
    BY <2>2, <2>3, <2>4, <2>7
<1> QED
  BY <1>4, <1>5, <1>6 DEF d, n

LEMMA RepaidIsRounded ==
  ASSUME NEW t \in Terms
  PROVE  /\ Divisor(t) \in Nat \ {0}
         /\ \A k \in 0 .. t.months :
              Exactly(t, k) \in Nat /\ Repaid(t, k) = Rounded(Exactly(t, k), Divisor(t))
         /\ \A k \in 1 .. t.months : Exactly(t, k - 1) <= Exactly(t, k)
<1>1. /\ t.principal \in Nat /\ t.months \in Nat \ {0}
      /\ t.rate.num \in Nat /\ t.rate.den \in Nat \ {0}
  BY DEF Terms
<1>2. CASE t.rate.num = 0
  <2>1. Divisor(t) = t.months /\ \A k : Exactly(t, k) = t.principal * k
    BY <1>2 DEF Divisor, Exactly
  <2>2. ASSUME NEW k \in 0 .. t.months
        PROVE  t.principal * k \in Nat /\ Repaid(t, k) = Rounded(t.principal * k, t.months)
    <3>1. CASE k = t.months
      <4>1. Repaid(t, k) = t.principal
        BY <3>1 DEF Repaid
      <4>2. Rounded(t.principal * t.months, t.months) = t.principal
        BY <1>1, RoundedWhole
      <4>3. t.principal * t.months \in Nat
        BY <1>1
      <4> QED
        BY <3>1, <4>1, <4>2, <4>3
    <3>2. CASE k # t.months
      BY <1>1, <1>2, <3>2 DEF Repaid
    <3> QED
      BY <3>1, <3>2
  <2>3. ASSUME NEW k \in 1 .. t.months
        PROVE  t.principal * (k - 1) <= t.principal * k
    <3>1. t.principal * k = t.principal * (k - 1) + t.principal /\ t.principal * (k - 1) \in Int
      BY <1>1
    <3> QED
      BY <1>1, <3>1
  <2> QED
    BY <1>1, <2>1, <2>2, <2>3
<1>3. CASE t.rate.num # 0
  <2> DEFINE step(k) == Growth(t, k) * Power(t.rate.den, t.months - k)
  <2>1. Divisor(t) = Growth(t, t.months) /\ \A k : Exactly(t, k) = t.principal * step(k)
    BY <1>3 DEF Divisor, Exactly
  <2>2. Growth(t, t.months) \in Nat \ {0}
    BY <1>3, GrowthGrows
  <2>3. ASSUME NEW k \in 0 .. t.months
        PROVE  step(k) \in Nat
    <3>1. PICK g, p \in Nat : g = Growth(t, k) /\ p = Power(t.rate.den, t.months - k)
      BY <1>3, GrowthGrows
    <3>2. g * p \in Nat
      OBVIOUS
    <3> QED
      BY <3>1, <3>2
  <2>4. ASSUME NEW k \in 0 .. t.months
        PROVE  /\ t.principal * step(k) \in Nat
               /\ Repaid(t, k) = Rounded(t.principal * step(k), Growth(t, t.months))
    <3>1. PICK g, p \in Nat : g = Growth(t, k) /\ p = Power(t.rate.den, t.months - k)
      BY <1>3, GrowthGrows
    <3>2. t.principal * (g * p) \in Nat
      BY <1>1
    <3>3. CASE k = t.months
      <4>1. p = 1
        <5>1. t.months - t.months = 0
          BY <1>1
        <5> QED
          BY <1>1, <3>1, <3>3, <5>1, PowerStep
      <4>2. Repaid(t, k) = t.principal
        BY <3>3 DEF Repaid
      <4>3. t.principal * (g * p) = t.principal * g
        BY <1>1, <4>1
      <4>4. Rounded(t.principal * g, g) = t.principal
        BY <1>1, <2>2, <3>1, <3>3, RoundedWhole
      <4> QED
        BY <3>1, <3>2, <3>3, <4>2, <4>3, <4>4
    <3>4. CASE k # t.months
      <4>1. Repaid(t, k) = Rounded(t.principal * g * p, Growth(t, t.months))
        BY <1>3, <3>1, <3>4 DEF Repaid
      <4>2. t.principal * g * p = t.principal * (g * p)
        BY <1>1
      <4> QED
        BY <3>1, <3>2, <4>1, <4>2
    <3> QED
      BY <3>3, <3>4
  <2>5. \A k \in 1 .. t.months : step(k - 1) <= step(k)
    BY <1>3, GrowthGrows
  <2> HIDE DEF step
  <2>6. ASSUME NEW k \in 1 .. t.months
        PROVE  t.principal * step(k - 1) <= t.principal * step(k)
    <3>1. k \in 0 .. t.months /\ k - 1 \in 0 .. t.months
      BY <1>1
    <3>2. PICK a, b \in Nat : a = step(k - 1) /\ b = step(k) /\ a <= b
      BY <2>3, <2>5, <3>1
    <3>3. t.principal * a <= t.principal * b
      BY <1>1, <3>2
    <3> QED
      BY <3>2, <3>3
  <2> QED
    BY <2>1, <2>2, <2>4, <2>6
<1> QED
  BY <1>2, <1>3

\* What is repaid grows from nothing to the principal.
LEMMA RepaidGrows ==
  ASSUME NEW t \in Terms
  PROVE  /\ \A k \in 0 .. t.months : Repaid(t, k) \in 0 .. t.principal
         /\ \A k \in 1 .. t.months : Repaid(t, k - 1) <= Repaid(t, k)
<1>1. t.principal \in Nat /\ t.months \in Nat \ {0}
  BY DEF Terms
<1>2. /\ \A k \in 0 .. t.months : Repaid(t, k) \in Int
      /\ Repaid(t, 0) = 0 /\ Repaid(t, t.months) = t.principal
  BY RepaidRanges
<1>3. ASSUME NEW k \in 1 .. t.months
      PROVE  Repaid(t, k - 1) <= Repaid(t, k)
  <2>1. k \in 0 .. t.months /\ k - 1 \in 0 .. t.months
    BY <1>1
  <2>2. PICK a, b \in Nat, n \in Nat \ {0} :
          /\ a = Exactly(t, k - 1) /\ b = Exactly(t, k) /\ n = Divisor(t) /\ a <= b
    BY <2>1, RepaidIsRounded
  <2>3. Repaid(t, k - 1) = Rounded(a, n) /\ Repaid(t, k) = Rounded(b, n)
    BY <2>1, <2>2, RepaidIsRounded
  <2>4. Rounded(a, n) <= Rounded(b, n)
    BY <2>2, RoundedGrows
  <2> QED
    BY <2>3, <2>4
<1> DEFINE r == [k \in 0 .. t.months |-> Repaid(t, k)]
           n == t.months
<1>4. /\ \A k \in 0 .. n : r[k] \in Int
      /\ \A k \in 1 .. n : r[k - 1] <= r[k]
      /\ r[0] = 0 /\ r[n] = t.principal
  <2>1. \A k \in 1 .. n : k \in 0 .. n /\ k - 1 \in 0 .. n
    BY <1>1
  <2>2. 0 \in 0 .. n /\ n \in 0 .. n
    BY <1>1
  <2> QED
    BY <1>2, <1>3, <2>1, <2>2
<1> HIDE DEF r, n
<1>5. n \in Nat \ {0}
  BY <1>1 DEF n
<1>6. \A k \in 0 .. n : r[k] >= 0
  <2> DEFINE Bad == {k \in 0 .. n : ~ (r[k] >= 0)}
  <2> SUFFICES ASSUME Bad # {} PROVE FALSE
    OBVIOUS
  <2>1. PICK k \in Bad : \A j \in Bad : k <= j
    <3> Bad \in SUBSET Nat
      BY <1>5
    <3> HIDE DEF Bad
    <3> QED
      BY LeastOf
  <2>2. k \in 1 .. n /\ k - 1 \in 0 .. n /\ ~ (k <= k - 1)
    BY <1>4, <1>5
  <2>3. r[k - 1] >= 0
    BY <2>1, <2>2
  <2>4. r[k - 1] <= r[k] /\ r[k] \in Int /\ r[k - 1] \in Int
    BY <1>4, <2>2
  <2> QED
    BY <2>3, <2>4
<1>7. \A k \in 0 .. n : r[n - k] <= t.principal
  <2> DEFINE Bad == {k \in 0 .. n : ~ (r[n - k] <= t.principal)}
  <2> SUFFICES ASSUME Bad # {} PROVE FALSE
    OBVIOUS
  <2>1. PICK k \in Bad : \A j \in Bad : k <= j
    <3> Bad \in SUBSET Nat
      BY <1>5
    <3> HIDE DEF Bad
    <3> QED
      BY LeastOf
  <2>2. k # 0
    <3>1. n - 0 = n
      BY <1>5
    <3> QED
      BY <1>1, <1>4, <3>1
  <2>3. k - 1 \in 0 .. n /\ ~ (k <= k - 1) /\ n - (k - 1) \in 1 .. n /\ (n - (k - 1)) - 1 = n - k
    BY <1>5, <2>2
  <2>4. r[n - (k - 1)] <= t.principal
    BY <2>1, <2>3
  <2>5. r[n - k] <= r[n - (k - 1)]
    BY <1>4, <2>3
  <2>6. r[n - k] \in Int /\ r[n - (k - 1)] \in Int
    BY <1>4, <1>5, <2>3
  <2> QED
    BY <1>1, <2>4, <2>5, <2>6
<1>8. ASSUME NEW k \in 0 .. n
      PROVE  r[k] \in 0 .. t.principal
  <2>1. n - k \in 0 .. n /\ n - (n - k) = k
    BY <1>5
  <2>2. r[k] <= t.principal
    BY <1>7, <2>1
  <2> QED
    BY <1>1, <1>4, <1>6, <2>2
<1>9. \A k \in 0 .. t.months : r[k] = Repaid(t, k)
  BY DEF r
<1> QED
  BY <1>3, <1>8, <1>9 DEF n

LEMMA RoundedIsNat ==
  ASSUME NEW a \in Nat, NEW n \in Nat \ {0}
  PROVE  Rounded(a, n) \in Nat
<1>1. Rounded(0, n) <= Rounded(a, n)
  BY RoundedGrows
<1> QED
  BY <1>1, RoundedIsInt

\* A schedule's principal comes out exactly, whatever is rounded, and none of
\* its amounts is negative, so that the table's CHECK turns down no more than
\* installments of nothing (buildSchedule).
THEOREM SchedulesAddUp ==
  ASSUME NEW t \in Terms
  PROVE  /\ \A k \in 1 .. t.months : /\ BuildSchedule(t)[k].principal \in Nat
                                     /\ BuildSchedule(t)[k].interest \in Nat
         /\ SumFunctionOnSet([k \in 1 .. t.months |-> BuildSchedule(t)[k].principal], 1 .. t.months)
              = t.principal
<1>1. /\ t.principal \in Nat /\ t.months \in Nat \ {0}
      /\ t.rate.num \in Nat /\ t.rate.den \in Nat \ {0}
  BY DEF Terms
<1>2. ASSUME NEW k \in 1 .. t.months
      PROVE  BuildSchedule(t)[k].principal \in Nat /\ BuildSchedule(t)[k].interest \in Nat
  <2>1. k \in 0 .. t.months /\ k - 1 \in 0 .. t.months
    BY <1>1
  <2>2. PICK a, b \in 0 .. t.principal : a = Repaid(t, k - 1) /\ b = Repaid(t, k) /\ a <= b
    BY <2>1, RepaidGrows
  <2>3. BuildSchedule(t)[k].principal = b - a
    BY <2>2 DEF BuildSchedule
  <2>4. BuildSchedule(t)[k].interest = Rounded((t.principal - a) * t.rate.num, t.rate.den)
    BY <2>2 DEF BuildSchedule
  <2>5. (t.principal - a) * t.rate.num \in Nat
    BY <1>1
  <2>6. Rounded((t.principal - a) * t.rate.num, t.rate.den) \in Nat
    BY <1>1, <2>5, RoundedIsNat
  <2> QED
    BY <1>1, <2>2, <2>3, <2>4, <2>6
<1>3. SumFunctionOnSet([k \in 1 .. t.months |-> BuildSchedule(t)[k].principal], 1 .. t.months) = t.principal
  <2> DEFINE f == [k \in 1 .. t.months |-> BuildSchedule(t)[k].principal]
  <2>1. \A k \in 1 .. t.months : f[k] = BuildSchedule(t)[k].principal
    OBVIOUS
  <2> HIDE DEF f
  <2>2. SumFunctionOnSet(f, 1 .. t.months) = t.principal
    BY <2>1, ScheduleAddsUp
  <2> QED
    BY <2>2 DEF f
<1> QED
  BY <1>2, <1>3

\* Rounding moves a number by no more than half.
LEMMA RoundedIs ==
  ASSUME NEW a \in Int, NEW n \in Nat \ {0}
  PROVE  /\ Rounded(a, n) \in Int
         /\ 2 * a + n - (2 * n) * Rounded(a, n) >= 0
         /\ (2 * n) * Rounded(a, n) + n - 2 * a > 0
<1>1. 2 * a + n \in Int /\ 2 * n \in Nat \ {0}
  OBVIOUS
<1>2. ASSUME NEW x \in Int, NEW m \in Nat \ {0}
      PROVE  x \div m \in Int /\ m * (x \div m) <= x /\ x < m * (x \div m) + m
  <2>1. PICK q \in Int : q = x \div m
    BY <1>2
  <2>2. m * q <= x /\ x < m * q + m
    BY <1>2, <2>1
  <2> QED
    BY <2>1, <2>2
<1>3. PICK r \in Int : r = Rounded(a, n) /\ (2 * n) * r <= 2 * a + n /\ 2 * a + n < (2 * n) * r + 2 * n
  BY <1>1, <1>2 DEF Rounded
<1>4. (2 * n) * r \in Int
  OBVIOUS
<1> QED
  BY <1>3, <1>4

\* Of an installment four numbers are rounded: what is repaid after it and
\* before it, a / w and c / w, the interest on what is left, and the level
\* payment, b / (den * w).  The second is rounded into the third too.
LEMMA RoundingIsSmall ==
  ASSUME NEW a \in Int, NEW b \in Int, NEW c \in Int, NEW principal \in Int,
         NEW w \in Nat \ {0}, NEW num \in Nat, NEW den \in Nat \ {0}, num <= 2 * den,
         den * a - den * c - num * c + num * (principal * w) = b
  PROVE  (Rounded(a, w) - Rounded(c, w)) + Rounded((principal - Rounded(c, w)) * num, den)
           - Rounded(b, den * w) \in -2 .. 2
<1> DEFINE p == Rounded(a, w)
           q == Rounded(c, w)
           i == Rounded((principal - q) * num, den)
           m == Rounded(b, den * w)
<1>1. /\ p \in Int /\ 2 * a + w - (2 * w) * p >= 0 /\ (2 * w) * p + w - 2 * a > 0
      /\ q \in Int /\ 2 * c + w - (2 * w) * q >= 0 /\ (2 * w) * q + w - 2 * c > 0
  BY RoundedIs
<1>2. /\ i \in Int /\ (2 * den) * i + den - 2 * ((principal - q) * num) > 0
      /\ 2 * ((principal - q) * num) + den - (2 * den) * i >= 0
  <2>1. (principal - q) * num \in Int
    BY <1>1
  <2> QED
    BY <2>1, RoundedIs
<1>3. /\ m \in Int /\ 2 * b + den * w - (2 * (den * w)) * m >= 0
      /\ (2 * (den * w)) * m + den * w - 2 * b > 0
  <2>1. den * w \in Nat \ {0}
    OBVIOUS
  <2> QED
    BY <2>1, RoundedIs
<1> HIDE DEF p, q, i, m
<1> DEFINE dwp == (den * w) * p
           dwq == (den * w) * q
           nwq == (num * w) * q
           dwi == (den * w) * i
           dwm == (den * w) * m
           npw == num * (principal * w)
           dw  == den * w
           nw  == num * w
           da  == den * a
           dc  == den * c
           nc  == num * c
\* With all the fractions over den * w:
<1>4. 2 * da + dw - 2 * dwp >= 0 /\ 2 * dwp + dw - 2 * da > 0
  <2>1. den * (2 * a + w - (2 * w) * p) >= 0 /\ den * ((2 * w) * p + w - 2 * a) > 0
    <3>1. 2 * a + w - (2 * w) * p \in Nat /\ (2 * w) * p + w - 2 * a \in Nat \ {0}
      BY <1>1
    <3> QED
      BY <3>1
  <2>2. /\ den * (2 * a + w - (2 * w) * p) = 2 * da + dw - 2 * dwp
        /\ den * ((2 * w) * p + w - 2 * a) = 2 * dwp + dw - 2 * da
    BY <1>1
  <2> QED
    BY <2>1, <2>2
<1>5. /\ 2 * dc + 2 * nc + dw + nw - 2 * dwq - 2 * nwq >= 0
      /\ 2 * dwq + 2 * nwq + dw + nw - 2 * dc - 2 * nc >= 0
  <2>1. (den + num) * (2 * c + w - (2 * w) * q) >= 0 /\ (den + num) * ((2 * w) * q + w - 2 * c) >= 0
    <3>1. 2 * c + w - (2 * w) * q \in Nat /\ (2 * w) * q + w - 2 * c \in Nat /\ den + num \in Nat
      BY <1>1
    <3> QED
      BY <3>1
  <2>2. /\ (den + num) * (2 * c + w - (2 * w) * q)
             = 2 * dc + 2 * nc + dw + nw - 2 * dwq - 2 * nwq
        /\ (den + num) * ((2 * w) * q + w - 2 * c)
             = 2 * dwq + 2 * nwq + dw + nw - 2 * dc - 2 * nc
    BY <1>1
  <2> QED
    BY <2>1, <2>2
<1>6. /\ 2 * dwi + dw - 2 * npw + 2 * nwq >= 0
      /\ 2 * npw - 2 * nwq + dw - 2 * dwi >= 0
  <2>1. /\ w * ((2 * den) * i + den - 2 * ((principal - q) * num)) >= 0
        /\ w * (2 * ((principal - q) * num) + den - (2 * den) * i) >= 0
    <3>1. /\ (2 * den) * i + den - 2 * ((principal - q) * num) \in Nat
          /\ 2 * ((principal - q) * num) + den - (2 * den) * i \in Nat
      BY <1>1, <1>2
    <3> QED
      BY <3>1
  <2>2. /\ w * ((2 * den) * i + den - 2 * ((principal - q) * num)) = 2 * dwi + dw - 2 * npw + 2 * nwq
        /\ w * (2 * ((principal - q) * num) + den - (2 * den) * i) = 2 * npw - 2 * nwq + dw - 2 * dwi
    BY <1>1, <1>2
  <2> QED
    BY <2>1, <2>2
<1>7. 2 * b + dw - 2 * dwm >= 0 /\ 2 * dwm + dw - 2 * b > 0
  <2>1. (2 * (den * w)) * m = 2 * dwm
    BY <1>3
  <2> QED
    BY <1>3, <2>1
<1>8. nw <= 2 * dw
  <2>1. w * (2 * den - num) >= 0 /\ w * (2 * den - num) = 2 * dw - nw
    OBVIOUS
  <2>2. dw \in Int /\ nw \in Int
    OBVIOUS
  <2> QED
    BY <2>1, <2>2
<1>9. /\ dwp \in Int /\ dwq \in Int /\ nwq \in Int /\ dwi \in Int /\ dwm \in Int /\ npw \in Int
      /\ dw \in Nat \ {0} /\ nw \in Int /\ da \in Int /\ dc \in Int /\ nc \in Int
  BY <1>1, <1>2, <1>3
<1>10. da - dc - nc + npw = b
  OBVIOUS
<1> DEFINE gap == (p - q) + i - m
<1>11. gap \in Int /\ dw * gap = dwp - dwq + dwi - dwm
  BY <1>1, <1>2, <1>3
<1> HIDE DEF dwp, dwq, nwq, dwi, dwm, npw, dw, nw, da, dc, nc, gap
<1>12. 2 * (dwp - dwq + dwi - dwm) < 6 * dw
  BY <1>4, <1>5, <1>6, <1>7, <1>8, <1>9, <1>10
<1>13. 2 * (dwp - dwq + dwi - dwm) > - 6 * dw
  BY <1>4, <1>5, <1>6, <1>7, <1>8, <1>9, <1>10
<1>14. gap < 3 /\ gap > -3
  <2>1. \A k \in Nat : dw * k \in Nat
    BY <1>9
  <2>2. CASE gap >= 3
    <3>1. dw * (gap - 3) \in Nat /\ dw * (gap - 3) = dw * gap - 3 * dw
      BY <1>9, <1>11, <2>1, <2>2
    <3> QED
      BY <1>9, <1>11, <1>12, <3>1
  <2>3. CASE gap <= -3
    <3>1. dw * (-3 - gap) \in Nat /\ dw * (-3 - gap) = -3 * dw - dw * gap
      BY <1>9, <1>11, <2>1, <2>3
    <3> QED
      BY <1>9, <1>11, <1>13, <3>1
  <2> QED
    BY <1>11, <2>2, <2>3
<1>15. gap \in -2 .. 2
  BY <1>11, <1>14
<1> QED
  BY <1>15 DEF gap, p, q, i, m

LEMMA PowerAdds ==
  ASSUME NEW a \in Nat \ {0}, NEW m \in Nat
  PROVE  \A n \in Nat : Power(a, m + n) = Power(a, m) * Power(a, n)
<1> DEFINE Bad == {n \in Nat : Power(a, m + n) # Power(a, m) * Power(a, n)}
<1> SUFFICES ASSUME Bad # {} PROVE FALSE
  OBVIOUS
<1>1. PICK n \in Bad : \A l \in Bad : n <= l
  <2> Bad \in SUBSET Nat
    OBVIOUS
  <2> HIDE DEF Bad
  <2> QED
    BY LeastOf
<1>2. n # 0
  <2>1. Power(a, m) \in Nat /\ Power(a, 0) = 1 /\ m + 0 = m
    BY PowerIsPositive, PowerStep
  <2>2. Power(a, m) * 1 = Power(a, m)
    BY <2>1
  <2> QED
    BY <2>1, <2>2
<1>3. n - 1 \in Nat /\ ~ (n <= n - 1) /\ n = (n - 1) + 1 /\ m + n = (m + (n - 1)) + 1 /\ m + (n - 1) \in Nat
  BY <1>2
<1>4. PICK p, q \in Nat : p = Power(a, m) /\ q = Power(a, n - 1)
  BY <1>3, PowerIsPositive
<1>5. Power(a, m + (n - 1)) = p * q
  BY <1>1, <1>3, <1>4
<1>6. Power(a, m + n) = a * (p * q) /\ Power(a, n) = a * q
  BY <1>3, <1>4, <1>5, PowerStep
<1>7. a * (p * q) = p * (a * q)
  OBVIOUS
<1> QED
  BY <1>4, <1>6, <1>7

\* Before anything is rounded, every installment is the level payment.
LEMMA ExactlyLevel ==
  ASSUME NEW t \in Terms, t.rate.num # 0, NEW k \in 1 .. t.months
  PROVE  LET den == t.rate.den
             num == t.rate.num
             c   == Exactly(t, k - 1)
         IN  den * Exactly(t, k) - den * c - num * c + num * (t.principal * Growth(t, t.months))
               = t.principal * num * Grown(t, t.months)
<1> DEFINE n == t.months
           d == t.rate.den
           num == t.rate.num
           g == d + num
           P == t.principal
<1>1. P \in Nat /\ n \in Nat \ {0} /\ d \in Nat \ {0} /\ num \in Nat /\ g \in Nat \ {0}
  BY DEF Terms
<1>2. k - 1 \in Nat /\ n - k \in Nat /\ k \in Nat /\ k = (k - 1) + 1 /\ n - (k - 1) = (n - k) + 1 /\ n = k + (n - k)
  BY <1>1
<1>3. PICK x, y, e, z \in Nat \ {0} : /\ x = Power(d, k - 1) /\ y = Power(g, k - 1)
                                   /\ e = Power(d, n - k) /\ z = Power(g, n)
  <2>1. Power(d, k - 1) \in Nat \ {0} /\ Power(g, k - 1) \in Nat \ {0}
    BY <1>1, <1>2, PowerIsPositive
  <2>2. Power(d, n - k) \in Nat \ {0} /\ Power(g, n) \in Nat \ {0}
    BY <1>1, <1>2, PowerIsPositive
  <2> QED
    BY <2>1, <2>2
<1>4. Power(d, k) = d * x /\ Power(g, k) = g * y /\ Power(d, n - (k - 1)) = d * e
  <2>1. /\ Power(d, (k - 1) + 1) = d * Power(d, k - 1) /\ Power(g, (k - 1) + 1) = g * Power(g, k - 1)
        /\ Power(d, (n - k) + 1) = d * Power(d, n - k)
    <3> HIDE DEF d, g, n
    <3> QED
      BY <1>1, <1>2, PowerStep
  <2> QED
    BY <1>2, <1>3, <2>1
<1>5. Power(d, n) = (d * x) * e
  <2>1. Power(d, k + (n - k)) = Power(d, k) * Power(d, n - k)
    <3> HIDE DEF d, n
    <3> QED
      BY <1>1, <1>2, PowerAdds
  <2> QED
    BY <1>2, <1>3, <1>4, <2>1
<1>6. /\ Growth(t, k) = g * y - d * x /\ Growth(t, k - 1) = y - x
      /\ Growth(t, n) = z - (d * x) * e /\ Grown(t, n) = z
  BY <1>3, <1>4, <1>5 DEF Growth, Grown
<1>7. Exactly(t, k) = P * ((g * y - d * x) * e) /\ Exactly(t, k - 1) = P * ((y - x) * (d * e))
  BY <1>3, <1>4, <1>6 DEF Exactly
<1> HIDE DEF n, d, num, P
<1>8. d * (P * ((g * y - d * x) * e)) - d * (P * ((y - x) * (d * e))) - num * (P * ((y - x) * (d * e)))
        + num * (P * (z - (d * x) * e)) = P * num * z
  BY <1>1
<1>9. d * Exactly(t, k) - d * Exactly(t, k - 1) - num * Exactly(t, k - 1) + num * (P * Growth(t, n))
        = P * num * Grown(t, n)
  BY <1>6, <1>7, <1>8
<1> QED
  BY <1>9 DEF n, d, num, P

\* Every installment is within two units of the level one that the borrower is
\* told (buildSchedule, monthlyInstallment), at any rate up to 200 percent a
\* month; the table's CHECK allows 100 percent a year (loan.sql:116).
THEOREM InstallmentsAreLevel ==
  ASSUME NEW t \in Terms, t.rate.num <= 2 * t.rate.den
  PROVE  IsLevel(t)
<1> SUFFICES ASSUME NEW k \in 1 .. t.months
             PROVE  BuildSchedule(t)[k].principal + BuildSchedule(t)[k].interest
                      - MonthlyInstallment(t) \in -2 .. 2
  BY DEF IsLevel
<1> DEFINE a == Exactly(t, k)
           c == Exactly(t, k - 1)
           p == Rounded(a, Divisor(t))
           q == Rounded(c, Divisor(t))
<1>1. /\ t.principal \in Nat /\ t.months \in Nat \ {0}
      /\ t.rate.num \in Nat /\ t.rate.den \in Nat \ {0}
  BY DEF Terms
<1>2. k \in 0 .. t.months /\ k - 1 \in 0 .. t.months
  BY <1>1
<1>3. a \in Nat /\ c \in Nat /\ Divisor(t) \in Nat \ {0} /\ Repaid(t, k) = p /\ Repaid(t, k - 1) = q
  BY <1>2, RepaidIsRounded
<1>4. /\ BuildSchedule(t)[k].principal = p - q
      /\ BuildSchedule(t)[k].interest = Rounded((t.principal - q) * t.rate.num, t.rate.den)
  BY <1>3 DEF BuildSchedule
<1>5. CASE t.rate.num = 0
  <2>1. /\ a = t.principal * k /\ c = t.principal * (k - 1) /\ Divisor(t) = t.months
        /\ MonthlyInstallment(t) = Rounded(t.principal, t.months)
    BY <1>5 DEF Exactly, Divisor, MonthlyInstallment
  <2> HIDE DEF a, c
  <2>2. q \in Int
    BY <1>3, RoundedIs
  <2> HIDE DEF p, q
  <2>3. (t.principal - q) * t.rate.num = 0 /\ (t.principal - q) * 0 = 0
    BY <1>1, <1>5, <2>2
  <2>4. Rounded((t.principal - q) * t.rate.num, t.rate.den) = 0 /\ Rounded((t.principal - q) * 0, 1) = 0
    BY <1>1, <2>3, RoundedIsInt
  <2>5. 1 * a - 1 * c - 0 * c + 0 * (t.principal * t.months) = t.principal
    <3>1. k \in Int
      BY <1>1
    <3>2. t.principal * k - t.principal * (k - 1) = t.principal
      BY <1>1, <3>1
    <3>3. 0 * c = 0 /\ 0 * (t.principal * t.months) = 0 /\ 1 * a = a /\ 1 * c = c
      BY <1>1, <1>3
    <3> QED
      BY <1>1, <1>3, <2>1, <3>2, <3>3
  <2>6. 1 * t.months = t.months /\ 0 <= 2 * 1 /\ a \in Int /\ c \in Int /\ t.principal \in Int
    BY <1>1, <1>3
  <2>7. (p - q) + Rounded((t.principal - q) * 0, 1) - Rounded(t.principal, 1 * t.months) \in -2 .. 2
    <3>1. t.months \in Nat \ {0} /\ 0 \in Nat /\ 1 \in Nat \ {0}
      BY <1>1
    <3>2. (Rounded(a, t.months) - Rounded(c, t.months))
            + Rounded((t.principal - Rounded(c, t.months)) * 0, 1)
            - Rounded(t.principal, 1 * t.months) \in -2 .. 2
      BY <2>5, <2>6, <3>1, RoundingIsSmall
    <3> QED
      BY <2>1, <3>2 DEF p, q
  <2> QED
    BY <1>4, <2>1, <2>4, <2>6, <2>7
<1>6. CASE t.rate.num # 0
  <2> DEFINE w == Growth(t, t.months)
             b == t.principal * t.rate.num * Grown(t, t.months)
  <2>1. Divisor(t) = w /\ MonthlyInstallment(t) = Rounded(b, t.rate.den * w)
    BY <1>6 DEF Divisor, MonthlyInstallment
  <2>2. t.rate.den * a - t.rate.den * c - t.rate.num * c + t.rate.num * (t.principal * w) = b
    BY <1>6, ExactlyLevel
  <2> HIDE DEF a, c, w, b
  <2>3. w \in Nat \ {0} /\ a \in Int /\ c \in Int /\ t.principal \in Int
    BY <1>1, <1>3, <2>1
  <2>4. b \in Int
    BY <1>1, <2>2, <2>3
  <2>5. (p - q) + Rounded((t.principal - q) * t.rate.num, t.rate.den) - Rounded(b, t.rate.den * w)
          \in -2 .. 2
    <3>1. (Rounded(a, w) - Rounded(c, w))
            + Rounded((t.principal - Rounded(c, w)) * t.rate.num, t.rate.den)
            - Rounded(b, t.rate.den * w) \in -2 .. 2
      BY <1>1, <2>2, <2>3, <2>4, RoundingIsSmall
    <3> QED
      BY <2>1, <3>1 DEF p, q
  <2> QED
    BY <1>4, <2>1, <2>5
<1> QED
  BY <1>5, <1>6

\* What a payment may do to a row: it pays and waives what is owed, and
\* leaves a row that is paid as it is.
Touched(r, a) ==
  /\ a \in RepaymentRow
  /\ a.principal = r.principal /\ a.interest = r.interest /\ a.fee = r.fee
  /\ a.charged = r.charged /\ a.paid = r.paid
  /\ OwedFee(a) >= 0 /\ OwedInterest(a) >= 0 /\ OwedPrincipal(a) >= 0
  /\ r.paid => a = r

LEMMA OwedIsNat ==
  ASSUME NEW r, Sound(r)
  PROVE  /\ OwedFee(r) \in Nat /\ OwedInterest(r) \in Nat /\ OwedPrincipal(r) \in Nat
         /\ Owed(r) \in Nat /\ PaidOn(r) \in Nat
         /\ Owed(r) = OwedFee(r) + OwedInterest(r) + OwedPrincipal(r)
         /\ r.paid => OwedFee(r) = 0 /\ OwedInterest(r) = 0 /\ OwedPrincipal(r) = 0
         /\ ~r.paid => Owed(r) > 0
<1>1. r \in RepaymentRow /\ OwedFee(r) >= 0 /\ OwedInterest(r) >= 0 /\ OwedPrincipal(r) >= 0
  BY DEF Sound
<1>2. OwedFee(r) \in Int /\ OwedInterest(r) \in Int /\ OwedPrincipal(r) \in Int /\ PaidOn(r) \in Nat
  BY <1>1 DEF RepaymentRow, OwedFee, OwedInterest, OwedPrincipal, PaidOn
<1>3. Owed(r) = OwedFee(r) + OwedInterest(r) + OwedPrincipal(r)
  BY DEF Owed
<1>4. r.paid <=> Owed(r) = 0
  BY DEF Sound
<1> QED
  BY <1>1, <1>2, <1>3, <1>4

LEMMA SettledIsSound ==
  ASSUME NEW r, Sound(r), NEW a, Touched(r, a), NEW s, s = Settled(a, r)
  PROVE  /\ Sound(s)
         /\ s.principal = r.principal /\ s.interest = r.interest /\ s.fee = r.fee
         /\ s.charged = r.charged /\ s.waived = a.waived
         /\ Owed(s) = Owed(a) /\ PaidOn(s) = PaidOn(a)
         /\ r.paid => s = r
<1>1. r \in RepaymentRow /\ a \in RepaymentRow
  BY DEF Touched, Sound
<1>2. CASE a = r
  <2>1. s = r
    BY <1>2 DEF Settled
  <2> QED
    BY <1>2, <2>1
<1>3. CASE a # r
  <2> DEFINE nothing == Owed(a) = 0
  <2>1. s = [a EXCEPT !.paid = nothing]
    BY <1>3 DEF Settled
  <2>2. nothing \in BOOLEAN /\ (nothing <=> Owed(a) = 0)
    OBVIOUS
  <2> HIDE DEF nothing
  <2>3. /\ s \in RepaymentRow /\ s.paid = nothing
        /\ s.principal = a.principal /\ s.interest = a.interest /\ s.fee = a.fee
        /\ s.charged = a.charged /\ s.waived = a.waived /\ s.feePaid = a.feePaid
        /\ s.interestPaid = a.interestPaid /\ s.principalPaid = a.principalPaid
    BY <1>1, <2>1, <2>2 DEF RepaymentRow
  <2>4. /\ OwedFee(s) = OwedFee(a) /\ OwedInterest(s) = OwedInterest(a)
        /\ OwedPrincipal(s) = OwedPrincipal(a) /\ PaidOn(s) = PaidOn(a)
    BY <2>3 DEF OwedFee, OwedInterest, OwedPrincipal, PaidOn
  <2>5. Owed(s) = Owed(a)
    BY <2>4 DEF Owed
  <2>6. s.fee = IF s.charged THEN LateFee ELSE 0
    BY <2>3 DEF Touched, Sound
  <2>7. Sound(s)
    BY <2>2, <2>3, <2>4, <2>5, <2>6 DEF Touched, Sound
  <2> QED
    BY <1>3, <2>3, <2>4, <2>5, <2>7 DEF Touched
<1> QED
  BY <1>2, <1>3

LEMMA RowsAreSound ==
  ASSUME LoansInv
  PROVE  /\ IsFiniteSet(DOMAIN rows) /\ DOMAIN rows \subseteq Nat
         /\ \A k \in DOMAIN rows : Sound(rows[k])
         /\ Repayable => /\ loan.terms.months \in Nat \ {0}
                         /\ DOMAIN rows = 1 .. loan.terms.months
<1>1. CASE loan.status \in {"none", "approved"}
  <2>1. DOMAIN rows = {} /\ ~Repayable
    BY <1>1 DEF LoansInv, Schedule, Repayable
  <2> QED
    BY <2>1, FS_EmptySet
<1>2. CASE loan.status \notin {"none", "approved"}
  <2>1. loan.terms \in Offers /\ DOMAIN rows = 1 .. loan.terms.months
    BY <1>2 DEF LoansInv, Schedule
  <2>2. loan.terms.months \in Nat \ {0}
    BY <2>1, OffersAssumption DEF Terms
  <2>3. IsFiniteSet(1 .. loan.terms.months)
    BY <2>2, FS_Interval
  <2>4. \A k \in DOMAIN rows : Sound(rows[k])
    BY DEF LoansInv, Schedule
  <2> QED
    BY <2>1, <2>2, <2>3, <2>4
<1> QED
  BY <1>1, <1>2

\* What is owed on rows is summed up over any of them.
LEMMA OwedSums ==
  ASSUME LoansInv, NEW S \in SUBSET DOMAIN rows
  PROVE  /\ IsFiniteSet(S)
         /\ OwedOn(S) \in Nat
         /\ \A k \in DOMAIN rows : [j \in DOMAIN rows |-> Owed(rows[j])][k] \in Nat
<1>1. IsFiniteSet(S)
  BY RowsAreSound, FS_Subset
<1>2. \A k \in DOMAIN rows : [j \in DOMAIN rows |-> Owed(rows[j])][k] \in Nat
  BY RowsAreSound, OwedIsNat
<1>3. OwedOn(S) \in Nat
  BY <1>1, <1>2, SumIsNat DEF OwedOn
<1> QED
  BY <1>1, <1>2, <1>3

(***************************************************************************)
(* How a payment is shared out.                                            *)
(***************************************************************************)

LEMMA AskedFor ==
  ASSUME LoansInv, NEW k \in DOMAIN rows
  PROVE  /\ Asked(<<"fee", k>>) = IF k \in Due THEN OwedFee(rows[k]) ELSE 0
         /\ Asked(<<"interest", k>>) = IF k \in Due \/ IsNext(k) THEN OwedInterest(rows[k]) ELSE 0
         /\ Asked(<<"principal", k>>) = IF k \in Unpaid THEN OwedPrincipal(rows[k]) ELSE 0
         /\ Asked(<<"fee", k>>) \in Nat /\ Asked(<<"fee", k>>) <= OwedFee(rows[k])
         /\ Asked(<<"interest", k>>) \in Nat /\ Asked(<<"interest", k>>) <= OwedInterest(rows[k])
         /\ Asked(<<"principal", k>>) \in Nat /\ Asked(<<"principal", k>>) <= OwedPrincipal(rows[k])
<1>1. Asked(<<"fee", k>>) = IF k \in Due THEN OwedFee(rows[k]) ELSE 0
  BY DEF Asked
<1>2. Asked(<<"interest", k>>) = IF k \in Due \/ IsNext(k) THEN OwedInterest(rows[k]) ELSE 0
  BY DEF Asked
<1>3. Asked(<<"principal", k>>) = IF k \in Unpaid THEN OwedPrincipal(rows[k]) ELSE 0
  BY DEF Asked
<1>4. OwedFee(rows[k]) \in Nat /\ OwedInterest(rows[k]) \in Nat /\ OwedPrincipal(rows[k]) \in Nat
  BY RowsAreSound, OwedIsNat
<1> QED
  BY <1>1, <1>2, <1>3, <1>4

LEMMA PartIs ==
  ASSUME NEW p \in Parts
  PROVE  \E k \in DOMAIN rows : p \in {<<"fee", k>>, <<"interest", k>>, <<"principal", k>>}
  BY DEF Parts

LEMMA PartsAre ==
  ASSUME NEW k \in DOMAIN rows
  PROVE  /\ <<"fee", k>> \in Parts /\ <<"interest", k>> \in Parts /\ <<"principal", k>> \in Parts
         /\ Turn(<<"fee", k>>) = k
         /\ Turn(<<"interest", k>>) = loan.terms.months + 2 * k
         /\ Turn(<<"principal", k>>) = IF k \in Later THEN 5 * loan.terms.months + 1 - k
                                       ELSE loan.terms.months + 2 * k + 1
  BY DEF Parts, Turn

\* Every part has a turn of its own.
LEMMA TurnsDiffer ==
  ASSUME LoansInv, Repayable
  PROVE  /\ IsFiniteSet(Parts)
         /\ \A p \in Parts : Asked(p) \in Nat /\ Turn(p) \in 1 .. 5 * loan.terms.months
         /\ \A p, q \in Parts : Turn(p) = Turn(q) => p = q
<1> DEFINE n == loan.terms.months
<1>1. n \in Nat \ {0} /\ DOMAIN rows = 1 .. n /\ IsFiniteSet(DOMAIN rows)
  BY RowsAreSound
<1>2. IsFiniteSet(Parts)
  <2> DEFINE none == [x \in {"fee", "interest", "principal"} \X DOMAIN rows |-> 0]
             zero == [x \in DOMAIN rows |-> 0]
  <2>1. ByPairs(none, zero, "fee", "interest", "principal", DOMAIN rows)
    BY DEF ByPairs
  <2> HIDE DEF none, zero
  <2> QED
    BY <1>1, <2>1, SumOfPairs DEF Parts
<1>3. ASSUME NEW p \in Parts
      PROVE  Asked(p) \in Nat /\ Turn(p) \in 1 .. 5 * n
  <2>1. PICK k \in DOMAIN rows : p \in {<<"fee", k>>, <<"interest", k>>, <<"principal", k>>}
    BY PartIs
  <2>2. Asked(p) \in Nat
    BY <2>1, AskedFor
  <2>3. Turn(p) \in {k, n + 2 * k, 5 * n + 1 - k, n + 2 * k + 1}
    BY <2>1, PartsAre
  <2> QED
    BY <1>1, <2>2, <2>3
<1>4. ASSUME NEW p \in Parts, NEW q \in Parts, Turn(p) = Turn(q)
      PROVE  p = q
  <2>1. PICK k \in DOMAIN rows : p \in {<<"fee", k>>, <<"interest", k>>, <<"principal", k>>}
    BY PartIs
  <2>2. PICK j \in DOMAIN rows : q \in {<<"fee", j>>, <<"interest", j>>, <<"principal", j>>}
    BY PartIs
  <2>3. k \in 1 .. n /\ j \in 1 .. n
    BY <1>1
  <2> DEFINE last(i) == IF i \in Later THEN 5 * n + 1 - i ELSE n + 2 * i + 1
  <2>4. \/ p = <<"fee", k>> /\ Turn(p) = k
        \/ p = <<"interest", k>> /\ Turn(p) = n + 2 * k
        \/ p = <<"principal", k>> /\ Turn(p) = last(k)
    BY <2>1, PartsAre
  <2>5. \/ q = <<"fee", j>> /\ Turn(q) = j
        \/ q = <<"interest", j>> /\ Turn(q) = n + 2 * j
        \/ q = <<"principal", j>> /\ Turn(q) = last(j)
    BY <2>2, PartsAre
  <2>6. \A i \in 1 .. n : last(i) \in {5 * n + 1 - i, n + 2 * i + 1}
    OBVIOUS
  <2> HIDE DEF last, n
  <2>7. \A i, l \in 1 .. n : i # n + 2 * l /\ i # last(l) /\ n + 2 * i # last(l)
    <3> TAKE i, l \in 1 .. n
    <3>1. last(l) \in {5 * n + 1 - l, n + 2 * l + 1}
      BY <2>6
    <3> QED
      BY <1>1, <3>1
  <2>8. last(k) = last(j) => k = j
    BY <1>1, <2>3 DEF last
  <2>9. n + 2 * k = n + 2 * j => k = j
    BY <1>1, <2>3
  <2> QED
    BY <1>4, <2>3, <2>4, <2>5, <2>7, <2>8, <2>9
<1> QED
  BY <1>2, <1>3, <1>4

LEMMA PaidRange ==
  ASSUME LoansInv, Repayable, NEW amount \in Nat, NEW p \in Parts
  PROVE  /\ AskedOf(Ahead(Turn(p))) \in Nat /\ Asked(p) \in Nat
         /\ Paid(amount)[p] = LET left == amount - AskedOf(Ahead(Turn(p))) IN
                              IF left <= 0 THEN 0 ELSE IF Asked(p) <= left THEN Asked(p) ELSE left
         /\ Paid(amount)[p] \in Nat /\ Paid(amount)[p] <= Asked(p)
<1> DEFINE wanted == [q \in Parts |-> Asked(q)]
           before == Ahead(Turn(p))
<1>1. before \subseteq Parts /\ \A q \in Parts : wanted[q] \in Nat
  BY TurnsDiffer DEF Ahead
<1>2. IsFiniteSet(before)
  BY <1>1, TurnsDiffer, FS_Subset
<1>3. PICK b \in Nat : b = AskedOf(before)
  <2>1. \A q \in before : wanted[q] \in Nat
    BY <1>1
  <2> HIDE DEF before, wanted
  <2>2. SumFunctionOnSet(wanted, before) \in Nat
    BY <1>2, <2>1, SumIsNat
  <2>3. AskedOf(before) = SumFunctionOnSet(wanted, before)
    BY DEF AskedOf, wanted
  <2> QED
    BY <2>2, <2>3
<1>4. PICK o \in Nat : o = Asked(p)
  BY TurnsDiffer
<1>5. Paid(amount)[p] = Smaller(o, AtLeast0(amount - b))
  BY <1>3, <1>4 DEF Paid
<1>6. Smaller(o, AtLeast0(amount - b))
        = IF amount - b <= 0 THEN 0 ELSE IF o <= amount - b THEN o ELSE amount - b
  BY DEF Smaller, AtLeast0
<1> HIDE DEF before
<1>7. Paid(amount)[p] = IF amount - b <= 0 THEN 0 ELSE IF o <= amount - b THEN o ELSE amount - b
  BY <1>5, <1>6
<1>8. Paid(amount)[p] \in Nat /\ Paid(amount)[p] <= o
  BY <1>7
<1> QED
  BY <1>3, <1>4, <1>7, <1>8 DEF before

\* Nothing of an amount is left over unless nothing more is asked for.
LEMMA SharedOut ==
  ASSUME LoansInv, Repayable, NEW amount \in Nat, amount <= AskedOf(Parts)
  PROVE  SumFunctionOnSet(Paid(amount), Parts) = amount
<1> DEFINE wanted == [q \in Parts |-> Asked(q)]
           turn == [q \in Parts |-> Turn(q)]
           got == Paid(amount)
           last == 5 * loan.terms.months
<1>1. /\ IsFiniteSet(Parts) /\ last \in Nat
      /\ \A p \in Parts : wanted[p] \in Nat /\ turn[p] \in 1 .. last
      /\ \A p, q \in Parts : turn[p] = turn[q] => p = q
  BY TurnsDiffer, RowsAreSound
<1>2. InTurn(got, wanted, turn, amount, Parts)
  <2> SUFFICES ASSUME NEW p \in Parts
               PROVE  got[p] = LET left == amount - SumFunctionOnSet(wanted, {q \in Parts : turn[q] < turn[p]})
                               IN IF left <= 0 THEN 0 ELSE IF wanted[p] <= left THEN wanted[p] ELSE left
    BY DEF InTurn
  <2>1. {q \in Parts : turn[q] < turn[p]} = Ahead(Turn(p))
    BY DEF Ahead
  <2>2. wanted[p] = Asked(p)
    OBVIOUS
  <2>3. SumFunctionOnSet(wanted, Ahead(Turn(p))) = AskedOf(Ahead(Turn(p)))
    BY DEF AskedOf
  <2> HIDE DEF wanted, turn, got
  <2> QED
    BY <2>1, <2>2, <2>3, PaidRange DEF got
<1>3. SumFunctionOnSet(wanted, Parts) = AskedOf(Parts)
  BY DEF AskedOf
<1> HIDE DEF wanted, turn, got, last
<1>4. SumFunctionOnSet(got, Parts)
        = IF amount <= SumFunctionOnSet(wanted, Parts) THEN amount ELSE SumFunctionOnSet(wanted, Parts)
  BY <1>1, <1>2, SumSharedOut
<1> QED
  BY <1>3, <1>4 DEF got

(***************************************************************************)
(* What a payment is applied to covers all that may be paid.               *)
(***************************************************************************)

\* All that is asked for on one installment, and on several.
AskedOn(k) == Asked(<<"fee", k>>) + Asked(<<"interest", k>>) + Asked(<<"principal", k>>)

LEMMA AskedByRow ==
  ASSUME LoansInv, Repayable
  PROVE  AskedOf(Parts) = SumFunctionOnSet([k \in DOMAIN rows |-> AskedOn(k)], DOMAIN rows)
<1> DEFINE wanted == [p \in Parts |-> Asked(p)]
           byRow == [k \in DOMAIN rows |-> AskedOn(k)]
<1>1. ASSUME NEW k \in DOMAIN rows
      PROVE  /\ wanted[<<"fee", k>>] = Asked(<<"fee", k>>) /\ wanted[<<"fee", k>>] \in Int
             /\ wanted[<<"interest", k>>] = Asked(<<"interest", k>>) /\ wanted[<<"interest", k>>] \in Int
             /\ wanted[<<"principal", k>>] = Asked(<<"principal", k>>) /\ wanted[<<"principal", k>>] \in Int
  BY AskedFor, PartsAre
<1>2. \A k \in DOMAIN rows : byRow[k] = wanted[<<"fee", k>>] + wanted[<<"interest", k>>] + wanted[<<"principal", k>>]
  BY <1>1 DEF AskedOn
<1>3. IsFiniteSet(DOMAIN rows)
  BY RowsAreSound
<1>4. AskedOf(Parts) = SumFunctionOnSet(wanted, Parts)
  BY DEF AskedOf
<1> HIDE DEF wanted, byRow
<1>5. ByPairs(wanted, byRow, "fee", "interest", "principal", DOMAIN rows)
  BY <1>1, <1>2 DEF ByPairs
<1>6. SumFunctionOnSet(wanted, {"fee", "interest", "principal"} \X DOMAIN rows)
        = SumFunctionOnSet(byRow, DOMAIN rows)
  BY <1>3, <1>5, SumOfPairs
<1> QED
  BY <1>4, <1>6 DEF byRow, Parts

\* c of a, no more.
LEMMA ShareOf ==
  ASSUME NEW a \in Nat, NEW b \in Nat, NEW c \in Nat \ {0}, b <= c
  PROVE  (a * b) \div c \in 0 .. a
<1> DEFINE q == (a * b) \div c
<1>1. a * b \in Nat /\ a * b <= a * c
  OBVIOUS
<1>2. q \in Nat /\ q * c <= a * b
  BY <1>1
<1>3. q <= a
  <2> SUFFICES ASSUME q >= a + 1 PROVE FALSE
    BY <1>2
  <2> HIDE DEF q
  <2>1. q * c >= (a + 1) * c
    BY <1>2
  <2>2. (a + 1) * c = a * c + c
    OBVIOUS
  <2>3. q * c \in Nat /\ a * c \in Nat
    BY <1>2
  <2> QED
    BY <1>1, <1>2, <2>1, <2>2, <2>3
<1> QED
  BY <1>2, <1>3

\* Paying off costs no more interest than there is.
LEMMA PayoffParts ==
  ASSUME LoansInv, NEW k \in Unpaid
  PROVE  /\ PayoffInterest(k) \in Nat /\ PayoffInterest(k) <= OwedInterest(rows[k])
         /\ k \in Due => PayoffInterest(k) = OwedInterest(rows[k])
         /\ PayoffInterest(k) <= Asked(<<"interest", k>>)
         /\ PayoffOf(k) = Asked(<<"fee", k>>) + PayoffInterest(k) + Asked(<<"principal", k>>)
         /\ PayoffOf(k) \in Nat /\ PayoffOf(k) <= AskedOn(k)
<1>1. k \in DOMAIN rows
  BY DEF Unpaid
<1>2. PICK o \in Nat : o = OwedInterest(rows[k])
  BY <1>1, RowsAreSound, OwedIsNat
<1>3. InterestToDate(k) \in Nat /\ InterestToDate(k) <= o
  <2> DEFINE elapsed == AtLeast0(today - DueDay(k - 1))
             accrued == (rows[k].interest * Smaller(elapsed, Period)) \div Period
             left == accrued - rows[k].interestPaid
  <2>1. today \in Nat /\ k \in Nat /\ Period \in Nat \ {0}
    BY <1>1, RowsAreSound, DaysAssumption DEF LoansInv, LoanTypes
  <2>2. DueDay(k - 1) \in Int
    BY <2>1 DEF DueDay
  <2>3. elapsed \in Nat
    BY <2>1, <2>2 DEF AtLeast0
  <2>4. Smaller(elapsed, Period) \in Nat
    BY <2>1, <2>3 DEF Smaller
  <2>5. rows[k].interest \in Nat /\ rows[k].interestPaid \in Nat
    BY <1>1, RowsAreSound DEF Sound, RepaymentRow
  <2> HIDE DEF elapsed
  <2>6. rows[k].interest * Smaller(elapsed, Period) \in Int
    BY <2>4, <2>5
  <2>7. accrued \in Int
    BY <2>1, <2>6
  <2> HIDE DEF accrued
  <2>8. left \in Int
    BY <2>5, <2>7
  <2> HIDE DEF left
  <2>9. InterestToDate(k) = AtLeast0(Smaller(o, left))
    BY <1>2 DEF InterestToDate, left, accrued, elapsed
  <2> QED
    BY <2>8, <2>9 DEF AtLeast0, Smaller
<1>4. /\ PayoffInterest(k) \in Nat /\ PayoffInterest(k) <= OwedInterest(rows[k])
      /\ k \in Due => PayoffInterest(k) = OwedInterest(rows[k])
  BY <1>2, <1>3 DEF PayoffInterest
<1>5. PayoffInterest(k) <= Asked(<<"interest", k>>)
  <2>1. CASE k \in Due \/ IsNext(k)
    BY <1>1, <1>4, <2>1, AskedFor
  <2>2. CASE ~ (k \in Due \/ IsNext(k))
    <3>1. PayoffInterest(k) = 0
      BY <2>2 DEF PayoffInterest
    <3>2. Asked(<<"interest", k>>) \in Nat
      BY <1>1, AskedFor
    <3> QED
      BY <3>1, <3>2
  <2> QED
    BY <2>1, <2>2
<1>6. PayoffOf(k) = Asked(<<"fee", k>>) + PayoffInterest(k) + Asked(<<"principal", k>>)
  BY <1>1, AskedFor DEF PayoffOf
<1>7. PICK a, b, c \in Nat : /\ a = Asked(<<"fee", k>>) /\ b = Asked(<<"interest", k>>)
                             /\ c = Asked(<<"principal", k>>)
  BY <1>1, AskedFor
<1>8. PayoffOf(k) \in Nat /\ PayoffOf(k) <= AskedOn(k)
  BY <1>4, <1>5, <1>6, <1>7 DEF AskedOn
<1> QED
  BY <1>4, <1>5, <1>6, <1>8

\* Both what is due and what paying off costs are asked for.
LEMMA AskedCovers ==
  ASSUME LoansInv, Repayable
  PROVE  /\ AskedOf(Parts) \in Nat
         /\ DueNow \in Nat /\ DueNow <= AskedOf(Parts)
         /\ PayoffTotal \in Nat /\ PayoffTotal <= AskedOf(Parts)
<1> DEFINE byRow == [k \in DOMAIN rows |-> AskedOn(k)]
           owed == [k \in DOMAIN rows |-> Owed(rows[k])]
           cost == [k \in DOMAIN rows |-> PayoffOf(k)]
           whole == SumFunctionOnSet(byRow, DOMAIN rows)
<1>1. IsFiniteSet(DOMAIN rows) /\ Due \subseteq Unpaid /\ Unpaid \subseteq DOMAIN rows
  BY RowsAreSound DEF Due, Unpaid
<1>2. IsFiniteSet(Due) /\ IsFiniteSet(Unpaid)
  BY <1>1, FS_Subset
<1>3. ASSUME NEW k \in DOMAIN rows
      PROVE  byRow[k] \in Nat
  <2>1. PICK a, b, c \in Nat : /\ a = Asked(<<"fee", k>>) /\ b = Asked(<<"interest", k>>)
                               /\ c = Asked(<<"principal", k>>)
    BY AskedFor
  <2>2. byRow[k] = a + b + c
    BY <2>1 DEF AskedOn
  <2> QED
    BY <2>2
<1>4. ASSUME NEW k \in Due
      PROVE  owed[k] \in Nat /\ owed[k] <= byRow[k]
  <2>1. k \in DOMAIN rows /\ k \in Unpaid
    BY <1>1
  <2>2. Sound(rows[k])
    BY <2>1, RowsAreSound
  <2>3. AskedOn(k) = OwedFee(rows[k]) + OwedInterest(rows[k]) + OwedPrincipal(rows[k])
    BY <2>1, AskedFor DEF AskedOn
  <2>4. owed[k] = AskedOn(k) /\ owed[k] \in Nat
    BY <2>1, <2>2, <2>3, OwedIsNat
  <2> QED
    BY <2>1, <2>4
<1>5. \A k \in Unpaid : cost[k] \in Nat /\ cost[k] <= byRow[k]
  BY <1>1, PayoffParts
<1>6. whole = AskedOf(Parts)
  BY AskedByRow
<1>7. DueNow = SumFunctionOnSet(owed, Due) /\ PayoffTotal = SumFunctionOnSet(cost, Unpaid)
  BY DEF DueNow, OwedOn, PayoffTotal
<1> HIDE DEF byRow, owed, cost
<1>8. SumFunctionOnSet(byRow, Due) \in Nat /\ SumFunctionOnSet(byRow, Unpaid) \in Nat /\ whole \in Nat
  <2>1. (\A k \in Due : byRow[k] \in Nat) /\ (\A k \in Unpaid : byRow[k] \in Nat)
    BY <1>1, <1>3
  <2> QED
    BY <1>1, <1>2, <1>3, <2>1, SumIsNat
<1>9. SumFunctionOnSet(byRow, Due) <= whole /\ SumFunctionOnSet(byRow, Unpaid) <= whole
  <2>1. Due \subseteq DOMAIN rows
    BY <1>1
  <2> QED
    BY <1>1, <1>3, <2>1, SumOfPart
<1>10. SumFunctionOnSet(owed, Due) \in Nat /\ SumFunctionOnSet(owed, Due) <= SumFunctionOnSet(byRow, Due)
  <2>1. \A k \in Due : owed[k] \in Nat
    BY <1>4
  <2>2. \A k \in Due : owed[k] \in Int /\ byRow[k] \in Int /\ owed[k] <= byRow[k]
    BY <1>1, <1>3, <1>4
  <2> QED
    BY <1>2, <2>1, <2>2, SumIsNat, SumLess
<1>11. SumFunctionOnSet(cost, Unpaid) \in Nat /\ SumFunctionOnSet(cost, Unpaid) <= SumFunctionOnSet(byRow, Unpaid)
  <2>1. \A k \in Unpaid : cost[k] \in Nat
    BY <1>5
  <2>2. \A k \in Unpaid : cost[k] \in Int /\ byRow[k] \in Int /\ cost[k] <= byRow[k]
    BY <1>1, <1>3, <1>5
  <2> QED
    BY <1>2, <2>1, <2>2, SumIsNat, SumLess
<1> HIDE DEF whole
<1> QED
  BY <1>6, <1>7, <1>8, <1>9, <1>10, <1>11

LEMMA AskedLeavesNothing ==
  ASSUME LoansInv, Repayable
  PROVE  PayoffTotal > 1 => LeftOver(PayoffTotal - 1) = 0
<1>1. PICK a, b \in Nat : a = AskedOf(Parts) /\ b = PayoffTotal
  BY AskedCovers
<1>2. b <= a
  BY <1>1, AskedCovers
<1>3. LeftOver(b - 1) = AtLeast0((b - 1) - a)
  BY <1>1 DEF LeftOver
<1>4. LeftOver(PayoffTotal - 1) = AtLeast0((b - 1) - a)
  BY <1>1, <1>3
<1> QED
  BY <1>2, <1>4 DEF AtLeast0

(***************************************************************************)
(* What it does to the rows.                                               *)
(***************************************************************************)

LEMMA SameRow ==
  ASSUME NEW a \in RepaymentRow, NEW r \in RepaymentRow,
         a.principal = r.principal, a.interest = r.interest, a.principalPaid = r.principalPaid,
         a.interestPaid = r.interestPaid, a.waived = r.waived, a.fee = r.fee,
         a.feePaid = r.feePaid, a.charged = r.charged, a.paid = r.paid
  PROVE  a = r
  BY DEF RepaymentRow

\* A row to which three amounts and a waiver are added.
PaidRow(r, f, i, p, w) ==
  [r EXCEPT !.feePaid = @ + f, !.interestPaid = @ + i, !.principalPaid = @ + p, !.waived = @ + w]

LEMMA RowPaid ==
  ASSUME NEW r, Sound(r), NEW f \in Nat, NEW i \in Nat, NEW p \in Nat, NEW w \in Nat,
         f <= OwedFee(r), i + w <= OwedInterest(r), p <= OwedPrincipal(r)
  PROVE  LET a == PaidRow(r, f, i, p, w) IN
         /\ Touched(r, a)
         /\ PaidOn(a) = PaidOn(r) + ((f + i) + p)
         /\ Owed(a) = (OwedFee(r) - f) + (OwedInterest(r) - (i + w)) + (OwedPrincipal(r) - p)
         /\ a.waived = r.waived + w
<1> DEFINE a == PaidRow(r, f, i, p, w)
<1>1. r \in RepaymentRow /\ OwedFee(r) \in Nat /\ OwedInterest(r) \in Nat /\ OwedPrincipal(r) \in Nat
  BY OwedIsNat DEF Sound
<1>2. /\ r.feePaid \in Nat /\ r.interestPaid \in Nat /\ r.principalPaid \in Nat /\ r.waived \in Nat
      /\ r.fee \in Nat /\ r.interest \in Nat /\ r.principal \in Nat
  BY <1>1 DEF RepaymentRow
<1> DEFINE fs == r.feePaid + f
           is == r.interestPaid + i
           ps == r.principalPaid + p
           ws == r.waived + w
<1>8. a = [r EXCEPT !.feePaid = fs, !.interestPaid = is, !.principalPaid = ps, !.waived = ws]
  BY DEF PaidRow
<1>9. fs \in Nat /\ is \in Nat /\ ps \in Nat /\ ws \in Nat
  BY <1>2
<1>10. /\ a \in RepaymentRow
       /\ a.feePaid = fs /\ a.interestPaid = is /\ a.principalPaid = ps /\ a.waived = ws
       /\ a.principal = r.principal /\ a.interest = r.interest /\ a.fee = r.fee
       /\ a.charged = r.charged /\ a.paid = r.paid
  <2> HIDE DEF fs, is, ps, ws, a
  <2> QED
    BY <1>1, <1>8, <1>9 DEF RepaymentRow
<1> HIDE DEF a
<1>3. /\ a \in RepaymentRow
      /\ a.feePaid = r.feePaid + f /\ a.interestPaid = r.interestPaid + i
      /\ a.principalPaid = r.principalPaid + p /\ a.waived = r.waived + w
      /\ a.principal = r.principal /\ a.interest = r.interest /\ a.fee = r.fee
      /\ a.charged = r.charged /\ a.paid = r.paid
  BY <1>10
<1>4. /\ OwedFee(a) = OwedFee(r) - f /\ OwedInterest(a) = OwedInterest(r) - (i + w)
      /\ OwedPrincipal(a) = OwedPrincipal(r) - p
  BY <1>2, <1>3 DEF OwedFee, OwedInterest, OwedPrincipal
<1>5. PaidOn(a) = PaidOn(r) + ((f + i) + p)
  BY <1>2, <1>3 DEF PaidOn
<1>6. r.paid => a = r
  <2> SUFFICES ASSUME r.paid PROVE a = r
    OBVIOUS
  <2>1. OwedFee(r) = 0 /\ OwedInterest(r) = 0 /\ OwedPrincipal(r) = 0
    BY OwedIsNat
  <2>2. f = 0 /\ i = 0 /\ p = 0 /\ w = 0
    BY <2>1
  <2>3. /\ a.feePaid = r.feePaid /\ a.interestPaid = r.interestPaid
        /\ a.principalPaid = r.principalPaid /\ a.waived = r.waived
    BY <1>2, <1>3, <2>2
  <2> QED
    BY <1>1, <1>3, <2>3, SameRow
<1>7. OwedFee(a) >= 0 /\ OwedInterest(a) >= 0 /\ OwedPrincipal(a) >= 0
  BY <1>1, <1>4
<1> QED
  BY <1>3, <1>4, <1>5, <1>6, <1>7 DEF Touched, Owed, a

(***************************************************************************)
(* What a payment does to the installments.                                *)
(***************************************************************************)

\* An amount that is applied changes rows as it may, and all of it is applied.
Fits(applied, amount) ==
  /\ \A k \in DOMAIN rows :
       /\ Touched(rows[k], applied[k])
       /\ applied[k].waived # rows[k].waived => DueDay(k) > today
  /\ SumFunctionOnSet([k \in DOMAIN rows |-> PaidOn(applied[k])], DOMAIN rows) = taken + amount

\* What of an amount goes to one part of installment k.
Got(part, k, amount) == Paid(amount)[<<part, k>>]

LEMMA WaivedRange ==
  ASSUME LoansInv, Repayable, NEW amount \in Nat, NEW k \in DOMAIN rows
  PROVE  LET i == Got("interest", k, amount)
             p == Got("principal", k, amount)
         IN
         /\ i \in Nat /\ p \in Nat /\ p <= OwedPrincipal(rows[k])
         /\ Waives(k, p) \in Nat /\ i + Waives(k, p) <= OwedInterest(rows[k])
         /\ Waives(k, p) # 0 => k \in Later
<1> DEFINE i == Got("interest", k, amount)
           p == Got("principal", k, amount)
<1>1. /\ i \in Nat /\ i <= Asked(<<"interest", k>>) /\ Asked(<<"interest", k>>) \in Nat
      /\ p \in Nat /\ p <= Asked(<<"principal", k>>) /\ Asked(<<"principal", k>>) \in Nat
  BY PartsAre, PaidRange DEF Got
<1> HIDE DEF i, p
<1>2. /\ Asked(<<"interest", k>>) <= OwedInterest(rows[k]) /\ OwedInterest(rows[k]) \in Nat
      /\ Asked(<<"principal", k>>) <= OwedPrincipal(rows[k]) /\ OwedPrincipal(rows[k]) \in Nat
  BY AskedFor, RowsAreSound, OwedIsNat
<1>3. p <= OwedPrincipal(rows[k]) /\ i <= OwedInterest(rows[k])
  BY <1>1, <1>2
<1> DEFINE Goal == /\ Waives(k, p) \in Nat /\ i + Waives(k, p) <= OwedInterest(rows[k])
                   /\ Waives(k, p) # 0 => k \in Later
<1>4. ASSUME p = 0 \/ k \notin Later PROVE Goal
  <2>1. Waives(k, p) = 0
    BY <1>4 DEF Waives
  <2> QED
    BY <1>1, <1>2, <1>3, <2>1
<1>5. ASSUME p # 0, k \in Later PROVE Goal
  <2>1. k \notin Due /\ ~IsNext(k)
    <3>1. DueDay(k) > today /\ k \in Nat
      BY <1>5, RowsAreSound DEF Later, Future
    <3>2. ~ (DueDay(k) <= today)
      <4>1. DueDay(k) \in Int /\ today \in Int
        BY <3>1, DaysAssumption DEF DueDay, LoansInv, LoanTypes
      <4> QED
        BY <3>1, <4>1
    <3> QED
      BY <1>5, <3>2 DEF Due, IsNext
  <2>2. i = 0
    <3>1. Asked(<<"interest", k>>) = 0
      BY <2>1, AskedFor
    <3> QED
      BY <1>1, <3>1
  <2>3. PICK oi \in Nat, op \in Nat \ {0} : oi = OwedInterest(rows[k]) /\ op = OwedPrincipal(rows[k])
    BY <1>1, <1>2, <1>3, <1>5
  <2>4. Waives(k, p) = IF p = op THEN oi ELSE (oi * p) \div op
    BY <1>5, <2>3 DEF Waives
  <2>5. (oi * p) \div op \in 0 .. oi
    BY <1>1, <1>3, <2>3, ShareOf
  <2>6. Waives(k, p) \in 0 .. oi
    BY <2>3, <2>4, <2>5
  <2> QED
    BY <1>1, <1>3, <1>5, <2>2, <2>3, <2>6
<1>6. i \in Nat /\ p \in Nat /\ p <= OwedPrincipal(rows[k]) /\ Goal
  BY <1>1, <1>3, <1>4, <1>5
<1> QED
  BY <1>6 DEF i, p

\* What allocate makes of one row.
LEMMA AllocatedRow ==
  ASSUME LoansInv, Repayable, NEW amount \in Nat, NEW k \in DOMAIN rows
  PROVE  LET a == Allocate(amount)[k]
             f == Got("fee", k, amount)
             i == Got("interest", k, amount)
             p == Got("principal", k, amount)
         IN
         /\ f \in Nat /\ i \in Nat /\ p \in Nat
         /\ Touched(rows[k], a)
         /\ PaidOn(a) = PaidOn(rows[k]) + ((f + i) + p)
         /\ Owed(a) = (OwedFee(rows[k]) - f) + (OwedInterest(rows[k]) - (i + Waives(k, p)))
                        + (OwedPrincipal(rows[k]) - p)
         /\ a.waived # rows[k].waived => k \in Later
<1> DEFINE f == Got("fee", k, amount)
           i == Got("interest", k, amount)
           p == Got("principal", k, amount)
           w == Waives(k, p)
           a == Allocate(amount)[k]
<1>1. Sound(rows[k])
  BY RowsAreSound
<1>2. f \in Nat /\ f <= OwedFee(rows[k])
  <2>1. /\ f \in Nat /\ f <= Asked(<<"fee", k>>) /\ Asked(<<"fee", k>>) \in Nat
        /\ Asked(<<"fee", k>>) <= OwedFee(rows[k])
    BY PartsAre, PaidRange, AskedFor DEF Got
  <2>2. OwedFee(rows[k]) \in Nat
    BY <1>1, OwedIsNat
  <2> QED
    BY <2>1, <2>2
<1>3. /\ i \in Nat /\ p \in Nat /\ p <= OwedPrincipal(rows[k])
      /\ w \in Nat /\ i + w <= OwedInterest(rows[k]) /\ (w # 0 => k \in Later)
  BY WaivedRange
<1>4. a = PaidRow(rows[k], f, i, p, w)
  BY DEF Allocate, Add, PaidRow, Got
<1> HIDE DEF f, i, p, w
<1> DEFINE b == PaidRow(rows[k], f, i, p, w)
<1>7. /\ Touched(rows[k], b)
      /\ PaidOn(b) = PaidOn(rows[k]) + ((f + i) + p)
      /\ Owed(b) = (OwedFee(rows[k]) - f) + (OwedInterest(rows[k]) - (i + w))
                     + (OwedPrincipal(rows[k]) - p)
      /\ b.waived = rows[k].waived + w
  <2>1. /\ f \in Nat /\ i \in Nat /\ p \in Nat /\ w \in Nat
        /\ f <= OwedFee(rows[k]) /\ i + w <= OwedInterest(rows[k]) /\ p <= OwedPrincipal(rows[k])
    BY <1>2, <1>3
  <2> QED
    BY <1>1, <2>1, RowPaid
<1> HIDE DEF a, b
<1>5. /\ Touched(rows[k], a)
      /\ PaidOn(a) = PaidOn(rows[k]) + ((f + i) + p)
      /\ Owed(a) = (OwedFee(rows[k]) - f) + (OwedInterest(rows[k]) - (i + w))
                     + (OwedPrincipal(rows[k]) - p)
      /\ a.waived = rows[k].waived + w
  BY <1>4, <1>7 DEF b
<1>6. a.waived # rows[k].waived => k \in Later
  <2>1. rows[k].waived \in Nat
    BY <1>1 DEF Sound, RepaymentRow
  <2> QED
    BY <1>3, <1>5, <2>1
<1> QED
  BY <1>2, <1>3, <1>5, <1>6 DEF a, w, f, i, p

LEMMA AllocateFits ==
  ASSUME LoansInv, Repayable, NEW amount \in Nat, amount <= AskedOf(Parts)
  PROVE  Fits(Allocate(amount), amount)
<1> DEFINE applied == Allocate(amount)
           got == Paid(amount)
           was == [k \in DOMAIN rows |-> PaidOn(rows[k])]
           now == [k \in DOMAIN rows |-> PaidOn(applied[k])]
           more == [k \in DOMAIN rows |->
                      got[<<"fee", k>>] + got[<<"interest", k>>] + got[<<"principal", k>>]]
<1>1. ASSUME NEW k \in DOMAIN rows
      PROVE  /\ Touched(rows[k], applied[k])
             /\ applied[k].waived # rows[k].waived => DueDay(k) > today
             /\ was[k] \in Nat /\ more[k] \in Nat /\ now[k] = was[k] + more[k]
             /\ got[<<"fee", k>>] \in Int /\ got[<<"interest", k>>] \in Int
             /\ got[<<"principal", k>>] \in Int
  <2> DEFINE f == Got("fee", k, amount)
             i == Got("interest", k, amount)
             p == Got("principal", k, amount)
  <2>1. f = got[<<"fee", k>>] /\ i = got[<<"interest", k>>] /\ p = got[<<"principal", k>>]
    BY DEF Got
  <2>2. /\ f \in Nat /\ i \in Nat /\ p \in Nat
        /\ Touched(rows[k], applied[k])
        /\ PaidOn(applied[k]) = PaidOn(rows[k]) + ((f + i) + p)
        /\ applied[k].waived # rows[k].waived => k \in Later
    BY AllocatedRow
  <2>3. PaidOn(rows[k]) \in Nat
    BY RowsAreSound, OwedIsNat
  <2>4. k \in Later => DueDay(k) > today
    BY DEF Later, Future
  <2>5. more[k] = f + i + p /\ now[k] = PaidOn(applied[k]) /\ was[k] = PaidOn(rows[k])
    BY <2>1
  <2> HIDE DEF applied, got, more, was, now, f, i, p
  <2> QED
    BY <2>1, <2>2, <2>3, <2>4, <2>5
<1>9. \A k \in DOMAIN rows : was[k] \in Int /\ more[k] \in Int /\ now[k] = was[k] + more[k]
  <2> SUFFICES ASSUME NEW k \in DOMAIN rows
               PROVE  was[k] \in Int /\ more[k] \in Int /\ now[k] = was[k] + more[k]
    OBVIOUS
  <2>1. was[k] \in Nat /\ more[k] \in Nat /\ now[k] = was[k] + more[k]
    BY <1>1
  <2> HIDE DEF was, more, now
  <2> QED
    BY <2>1
<1>2. IsFiniteSet(DOMAIN rows)
  BY RowsAreSound
<1>3. ByPairs(got, more, "fee", "interest", "principal", DOMAIN rows)
  BY <1>1 DEF ByPairs
<1> HIDE DEF more
<1>4. SumFunctionOnSet(more, DOMAIN rows) = amount
  <2>1. SumFunctionOnSet(got, Parts) = amount
    BY SharedOut
  <2>2. SumFunctionOnSet(got, {"fee", "interest", "principal"} \X DOMAIN rows)
          = SumFunctionOnSet(more, DOMAIN rows)
    <3> HIDE DEF got
    <3> QED
      BY <1>2, <1>3, SumOfPairs
  <2> QED
    BY <2>1, <2>2 DEF Parts
<1>5. taken = SumFunctionOnSet(was, DOMAIN rows)
  BY DEF LoansInv, Books
<1> HIDE DEF was, got
<1>6. SumFunctionOnSet(now, DOMAIN rows) = taken + amount
  <2> HIDE DEF now
  <2> QED
    BY <1>2, <1>4, <1>5, <1>9, SumAdd
<1> QED
  BY <1>1, <1>6 DEF Fits

\* What allocatePayoff makes of the rows.
LEMMA PayoffFits ==
  ASSUME LoansInv, Repayable
  PROVE  Fits(Payoff, PayoffTotal)
<1> DEFINE was == [k \in DOMAIN rows |-> PaidOn(rows[k])]
           now == [k \in DOMAIN rows |-> PaidOn(Payoff[k])]
           cost == [k \in DOMAIN rows |-> PayoffOf(k)]
           more == [k \in DOMAIN rows |-> IF k \in Unpaid THEN PayoffOf(k) ELSE 0]
<1>1. ASSUME NEW k \in DOMAIN rows
      PROVE  /\ Touched(rows[k], Payoff[k])
             /\ Payoff[k].waived # rows[k].waived => DueDay(k) > today
             /\ was[k] \in Nat /\ more[k] \in Nat /\ now[k] = was[k] + more[k]
  <2>1. Sound(rows[k]) /\ PaidOn(rows[k]) \in Nat /\ rows[k] \in RepaymentRow
    BY RowsAreSound, OwedIsNat DEF Sound
  <2>2. CASE rows[k].paid
    <3>1. Payoff[k] = rows[k] /\ k \notin Unpaid
      BY <2>2 DEF Payoff, Unpaid
    <3>2. Touched(rows[k], rows[k])
      BY <2>1 DEF Touched, Sound
    <3> QED
      BY <2>1, <3>1, <3>2
  <2>3. CASE ~rows[k].paid
    <3>0. k \in Unpaid
      BY <2>3 DEF Unpaid
    <3>1. PICK of, oi, op, f, i \in Nat :
            /\ of = OwedFee(rows[k]) /\ oi = OwedInterest(rows[k]) /\ op = OwedPrincipal(rows[k])
            /\ f = Asked(<<"fee", k>>) /\ i = PayoffInterest(k)
      BY <2>1, <3>0, OwedIsNat, PayoffParts, AskedFor
    <3>2. i <= oi /\ (k \in Due => i = oi) /\ f = (IF k \in Due THEN of ELSE 0)
      BY <3>0, <3>1, PayoffParts, AskedFor
    <3>3. Asked(<<"principal", k>>) = op
      BY <3>0, <3>1, AskedFor
    <3>4. PayoffOf(k) = f + i + op
      BY <3>0, <3>1, <3>3, PayoffParts
    <3>5. PICK w \in Nat : w = oi - i
      BY <3>2
    <3>6. Payoff[k] = PaidRow(rows[k], f, i, op, w)
      <4>1. /\ rows[k].feePaid \in Nat /\ rows[k].interestPaid \in Nat /\ rows[k].principalPaid \in Nat
            /\ rows[k].waived \in Nat /\ rows[k].fee \in Nat /\ rows[k].principal \in Nat
        BY <2>1 DEF RepaymentRow
      <4>2. /\ (IF k \in Due THEN rows[k].fee ELSE rows[k].feePaid) = rows[k].feePaid + f
            /\ rows[k].principal = rows[k].principalPaid + op
            /\ rows[k].waived + OwedInterest(rows[k]) - PayoffInterest(k) = rows[k].waived + w
        BY <3>1, <3>2, <3>5, <4>1 DEF OwedFee, OwedPrincipal
      <4>3. Payoff[k] = [rows[k] EXCEPT !.feePaid = IF k \in Due THEN rows[k].fee ELSE rows[k].feePaid,
                                        !.principalPaid = rows[k].principal,
                                        !.interestPaid  = rows[k].interestPaid + PayoffInterest(k),
                                        !.waived = rows[k].waived + OwedInterest(rows[k]) - PayoffInterest(k)]
        BY <2>3 DEF Payoff
      <4>4. Payoff[k] = [rows[k] EXCEPT !.feePaid = rows[k].feePaid + f,
                                        !.principalPaid = rows[k].principalPaid + op,
                                        !.interestPaid  = rows[k].interestPaid + i,
                                        !.waived = rows[k].waived + w]
        BY <3>1, <4>2, <4>3
      <4> QED
        BY <2>1, <4>4 DEF RepaymentRow, PaidRow
    <3>7. /\ Touched(rows[k], Payoff[k])
          /\ PaidOn(Payoff[k]) = PaidOn(rows[k]) + ((f + i) + op)
          /\ Payoff[k].waived = rows[k].waived + w
      <4>1. f <= OwedFee(rows[k]) /\ i + w <= OwedInterest(rows[k]) /\ op <= OwedPrincipal(rows[k])
        BY <3>1, <3>2, <3>5
      <4> DEFINE b == PaidRow(rows[k], f, i, op, w)
      <4>2. /\ Touched(rows[k], b)
            /\ PaidOn(b) = PaidOn(rows[k]) + ((f + i) + op)
            /\ b.waived = rows[k].waived + w
        BY <2>1, <4>1, RowPaid
      <4> HIDE DEF b
      <4> QED
        BY <3>6, <4>2 DEF b
    <3>8. Payoff[k].waived # rows[k].waived => DueDay(k) > today
      <4>1. rows[k].waived \in Nat /\ DueDay(k) \in Int /\ today \in Int
        BY <2>1, RowsAreSound, DaysAssumption DEF RepaymentRow, DueDay, LoansInv, LoanTypes
      <4>2. Payoff[k].waived # rows[k].waived => k \notin Due
        BY <3>2, <3>5, <3>7, <4>1
      <4> QED
        BY <3>0, <4>1, <4>2 DEF Due
    <3>9. more[k] = f + i + op
      BY <3>0, <3>4
    <3> HIDE DEF more
    <3> QED
      BY <2>1, <3>7, <3>8, <3>9
  <2> QED
    BY <2>2, <2>3
<1>9. \A k \in DOMAIN rows : was[k] \in Int /\ more[k] \in Int /\ now[k] = was[k] + more[k]
  <2> SUFFICES ASSUME NEW k \in DOMAIN rows
               PROVE  was[k] \in Int /\ more[k] \in Int /\ now[k] = was[k] + more[k]
    OBVIOUS
  <2>1. was[k] \in Nat /\ more[k] \in Nat /\ now[k] = was[k] + more[k]
    BY <1>1
  <2> HIDE DEF was, more, now
  <2> QED
    BY <2>1
<1>2. IsFiniteSet(DOMAIN rows) /\ Unpaid \subseteq DOMAIN rows
  BY RowsAreSound DEF Unpaid
<1>3. \A k \in Unpaid : more[k] = cost[k]
  BY <1>2
<1>4. \A k \in DOMAIN rows \ Unpaid : more[k] = 0
  OBVIOUS
<1>5. PayoffTotal = SumFunctionOnSet(cost, Unpaid)
  BY DEF PayoffTotal
<1>6. taken = SumFunctionOnSet(was, DOMAIN rows)
  BY DEF LoansInv, Books
<1> HIDE DEF was, cost, more
<1>7. SumFunctionOnSet(more, DOMAIN rows) = PayoffTotal
  <2>1. SumFunctionOnSet(more, Unpaid) = SumFunctionOnSet(more, DOMAIN rows)
    BY <1>1, <1>2, <1>4, SumOfPart
  <2>2. SumFunctionOnSet(more, Unpaid) = SumFunctionOnSet(cost, Unpaid)
    BY <1>2, <1>3, FS_Subset, SumOfSame
  <2> QED
    BY <1>5, <2>1, <2>2
<1>8. SumFunctionOnSet(now, DOMAIN rows) = taken + PayoffTotal
  <2> HIDE DEF now
  <2> QED
    BY <1>2, <1>6, <1>7, <1>9, SumAdd
<1> QED
  BY <1>1, <1>8 DEF Fits

\* What is due is paid before anything that is not.
LEMMA DueComesFirst ==
  ASSUME LoansInv, Repayable, NEW k \in Due, NEW p \in {<<"fee", k>>, <<"interest", k>>, <<"principal", k>>}
  PROVE  /\ p \in Parts
         /\ Paid(DueNow)[p] = Asked(p)
<1> DEFINE n == loan.terms.months
           wanted == [q \in Parts |-> Asked(q)]
           dueParts == {"fee", "interest", "principal"} \X Due
           ahead == Ahead(Turn(p))
           owed == [j \in DOMAIN rows |-> Owed(rows[j])]
<1>1. /\ n \in Nat \ {0} /\ DOMAIN rows = 1 .. n /\ IsFiniteSet(DOMAIN rows)
      /\ Due \subseteq DOMAIN rows /\ k \in 1 .. n /\ Period \in Nat \ {0} /\ today \in Nat
  BY RowsAreSound, DaysAssumption DEF Due, Unpaid, LoansInv, LoanTypes
<1>2. p \in Parts /\ Turn(p) <= n + 2 * k + 1
  <2>1. k \notin Later
    <3>1. DueDay(k) <= today /\ DueDay(k) \in Int
      BY <1>1 DEF Due, DueDay
    <3> QED
      BY <1>1, <3>1 DEF Later, Future
  <2>2. /\ <<"fee", k>> \in Parts /\ <<"interest", k>> \in Parts /\ <<"principal", k>> \in Parts
        /\ Turn(<<"fee", k>>) = k /\ Turn(<<"interest", k>>) = n + 2 * k
        /\ Turn(<<"principal", k>>) = n + 2 * k + 1
    BY <1>1, <2>1, PartsAre
  <2>3. k <= n + 2 * k + 1 /\ n + 2 * k <= n + 2 * k + 1 /\ n + 2 * k + 1 <= n + 2 * k + 1
    BY <1>1
  <2> HIDE DEF n
  <2> QED
    BY <2>2, <2>3
<1>3. ASSUME NEW j \in DOMAIN rows, NEW q, q \in {<<"fee", j>>, <<"interest", j>>, <<"principal", j>>},
             j \notin Due, Turn(q) <= Turn(p)
      PROVE  Asked(q) = 0
  <2>1. CASE j \notin Unpaid
    <3>1. j \notin Future /\ ~IsNext(j)
      BY <2>1 DEF Future, IsNext
    <3> QED
      BY <1>3, <2>1, <3>1, AskedFor
  <2>2. CASE j \in Unpaid
    <3>1. DueDay(j) > DueDay(k)
      <4>1. DueDay(j) \in Int /\ DueDay(k) \in Int
        BY <1>1 DEF DueDay
      <4>2. DueDay(k) <= today /\ ~ (DueDay(j) <= today)
        BY <1>3, <2>2 DEF Due
      <4> QED
        BY <1>1, <4>1, <4>2
    <3>2. j > k
      <4> SUFFICES ASSUME j <= k PROVE FALSE
        BY <1>1
      <4>1. j * Period <= k * Period
        BY <1>1
      <4>2. j * Period \in Int /\ k * Period \in Int
        BY <1>1
      <4> QED
        BY <3>1, <4>1, <4>2 DEF DueDay
    <3>3. j \in 1 .. n /\ n + 2 * j > n + 2 * k + 1 /\ n + 2 * j + 1 > n + 2 * k + 1
          /\ 5 * n + 1 - j > n + 2 * k + 1
      BY <1>1, <3>2
    <3>4. Turn(p) \in Int
      BY <1>2, TurnsDiffer
    <3>5. /\ Turn(<<"interest", j>>) = n + 2 * j
          /\ Turn(<<"principal", j>>) \in {5 * n + 1 - j, n + 2 * j + 1}
      BY PartsAre
    <3>6. q # <<"interest", j>> /\ q # <<"principal", j>>
      <4> HIDE DEF n
      <4>1. n + 2 * k + 1 \in Int /\ n + 2 * j \in Int /\ n + 2 * j + 1 \in Int /\ 5 * n + 1 - j \in Int
        BY <1>1
      <4>2. Turn(<<"interest", j>>) > n + 2 * k + 1 /\ Turn(<<"principal", j>>) > n + 2 * k + 1
        BY <3>3, <3>5
      <4>3. Turn(<<"interest", j>>) \in Int /\ Turn(<<"principal", j>>) \in Int
        BY <3>5, <4>1
      <4>4. ~ (Turn(<<"interest", j>>) <= Turn(p)) /\ ~ (Turn(<<"principal", j>>) <= Turn(p))
        BY <1>2, <3>4, <4>1, <4>2, <4>3
      <4> QED
        BY <1>3, <4>4
    <3>7. q = <<"fee", j>>
      BY <1>3, <3>6
    <3> QED
      BY <1>3, <3>7, AskedFor
  <2> QED
    BY <2>1, <2>2
<1>4. /\ IsFiniteSet(Parts) /\ \A q \in Parts : wanted[q] \in Nat
      /\ ahead \subseteq Parts /\ p \notin ahead /\ IsFiniteSet(ahead)
  <2>1. ahead \subseteq Parts
    BY DEF Ahead
  <2>2. p \notin ahead
    <3>1. Turn(p) \in Int
      BY <1>2, TurnsDiffer
    <3> QED
      BY <3>1 DEF Ahead
  <2>3. IsFiniteSet(Parts) /\ \A q \in Parts : wanted[q] \in Nat
    BY TurnsDiffer
  <2> QED
    BY <2>1, <2>2, <2>3, FS_Subset
<1> DEFINE both == ahead \cup {p}
<1>5. SumFunctionOnSet(wanted, both) = AskedOf(ahead) + Asked(p)
  <2>1. AskedOf(ahead) = SumFunctionOnSet(wanted, ahead) /\ Asked(p) = wanted[p]
    BY <1>2 DEF AskedOf
  <2>2. \A q \in ahead \cup {p} : wanted[q] \in Int
    BY <1>2, <1>4
  <2> HIDE DEF wanted, ahead
  <2> QED
    BY <1>4, <2>1, <2>2, SumWith
<1>6. IsFiniteSet(dueParts) /\ SumFunctionOnSet(wanted, dueParts) = DueNow
  <2>1. IsFiniteSet(Due)
    BY <1>1, FS_Subset
  <2>2. ByPairs(wanted, owed, "fee", "interest", "principal", Due)
    <3> SUFFICES ASSUME NEW j \in Due
                 PROVE  /\ wanted[<<"fee", j>>] \in Int /\ wanted[<<"interest", j>>] \in Int
                        /\ wanted[<<"principal", j>>] \in Int
                        /\ owed[j] = wanted[<<"fee", j>>] + wanted[<<"interest", j>>] + wanted[<<"principal", j>>]
      BY DEF ByPairs
    <3>1. j \in DOMAIN rows /\ j \in Unpaid
      BY <1>1 DEF Due
    <3>2. /\ wanted[<<"fee", j>>] = OwedFee(rows[j]) /\ wanted[<<"interest", j>>] = OwedInterest(rows[j])
          /\ wanted[<<"principal", j>>] = OwedPrincipal(rows[j])
      BY <3>1, AskedFor, PartsAre
    <3>3. owed[j] = OwedFee(rows[j]) + OwedInterest(rows[j]) + OwedPrincipal(rows[j])
      BY <3>1, RowsAreSound, OwedIsNat
    <3>4. OwedFee(rows[j]) \in Nat /\ OwedInterest(rows[j]) \in Nat /\ OwedPrincipal(rows[j]) \in Nat
      BY <3>1, RowsAreSound, OwedIsNat
    <3> HIDE DEF wanted, owed
    <3> QED
      BY <3>2, <3>3, <3>4
  <2>3. DueNow = SumFunctionOnSet(owed, Due)
    BY DEF DueNow, OwedOn
  <2> HIDE DEF wanted, owed
  <2>4. "fee" # "interest" /\ "interest" # "principal" /\ "fee" # "principal"
    OBVIOUS
  <2> QED
    BY <2>1, <2>2, <2>3, <2>4, SumOfPairs
<1>7. SumFunctionOnSet(wanted, both) <= SumFunctionOnSet(wanted, dueParts)
  <2> DEFINE some == both \cap dueParts
  <2>1. \A q \in both \ some : wanted[q] = 0
    <3> SUFFICES ASSUME NEW q \in both, q \notin dueParts PROVE Asked(q) = 0
      BY <1>2, <1>4
    <3>1. q \in Parts /\ Turn(q) <= Turn(p)
      <4>1. Turn(p) \in Int /\ \A r \in Parts : Turn(r) \in Int
        BY <1>2, TurnsDiffer
      <4> QED
        BY <1>2, <1>4, <4>1 DEF Ahead
    <3>2. PICK j \in DOMAIN rows : q \in {<<"fee", j>>, <<"interest", j>>, <<"principal", j>>}
      BY <3>1, PartIs
    <3>3. j \notin Due
      BY <3>2
    <3> QED
      BY <1>3, <3>1, <3>2, <3>3
  <2>2. IsFiniteSet(both)
    BY <1>4, FS_AddElement
  <2>3. \A q \in both : wanted[q] \in Nat
    BY <1>2, <1>4
  <2>4. \A q \in dueParts : wanted[q] \in Nat
    BY <1>1, <1>4 DEF Parts
  <2> HIDE DEF both, dueParts, wanted
  <2>5. SumFunctionOnSet(wanted, some) = SumFunctionOnSet(wanted, both)
    <3>1. some \in SUBSET both
      OBVIOUS
    <3> HIDE DEF some
    <3> QED
      BY <2>1, <2>2, <2>3, <3>1, SumOfPart
  <2>6. SumFunctionOnSet(wanted, some) <= SumFunctionOnSet(wanted, dueParts)
    <3>1. some \in SUBSET dueParts
      OBVIOUS
    <3> HIDE DEF some
    <3> QED
      BY <1>6, <2>4, <3>1, SumOfPart
  <2> QED
    BY <2>5, <2>6
<1>8. PICK b, o, d \in Nat : b = AskedOf(ahead) /\ o = Asked(p) /\ d = DueNow
  BY <1>2, PaidRange, AskedCovers
<1>9. b + o <= d
  BY <1>5, <1>6, <1>7, <1>8
<1>10. Paid(d)[p] = IF d - b <= 0 THEN 0 ELSE IF o <= d - b THEN o ELSE d - b
  BY <1>2, <1>8, PaidRange
<1>11. Paid(d)[p] = o
  BY <1>9, <1>10
<1> QED
  BY <1>2, <1>8, <1>11

\* So nothing is left of what is due once it is collected.
LEMMA CollectedIsPaid ==
  ASSUME LoansInv, Repayable, NEW k \in Due
  PROVE  Owed(Allocate(DueNow)[k]) = 0
<1> DEFINE f == Got("fee", k, DueNow)
           i == Got("interest", k, DueNow)
           p == Got("principal", k, DueNow)
           w == Waives(k, p)
<1>1. k \in DOMAIN rows /\ k \in Unpaid /\ DueNow \in Nat
  BY AskedCovers DEF Due, Unpaid
<1>2. f = OwedFee(rows[k]) /\ i = OwedInterest(rows[k]) /\ p = OwedPrincipal(rows[k])
  BY <1>1, DueComesFirst, AskedFor DEF Got
<1>3. w = 0
  <2>1. k \notin Later
    <3>1. DueDay(k) <= today /\ DueDay(k) \in Int /\ today \in Int
      BY <1>1, RowsAreSound, DaysAssumption DEF Due, DueDay, LoansInv, LoanTypes
    <3> QED
      BY <3>1 DEF Later, Future
  <2> QED
    BY <2>1 DEF Waives
<1>4. OwedFee(rows[k]) \in Nat /\ OwedInterest(rows[k]) \in Nat /\ OwedPrincipal(rows[k]) \in Nat
  BY <1>1, RowsAreSound, OwedIsNat
<1>5. Owed(Allocate(DueNow)[k]) = (OwedFee(rows[k]) - f) + (OwedInterest(rows[k]) - (i + w))
                                    + (OwedPrincipal(rows[k]) - p)
  BY <1>1, AllocatedRow
<1> HIDE DEF f, i, p, w
<1> QED
  BY <1>2, <1>3, <1>4, <1>5

(***************************************************************************)
(* A payment.                                                              *)
(***************************************************************************)

\* The rows a payment leaves: each is sound, what it owes is what the
\* installment owed less what was paid and waived, and a paid one is as it was.
LEMMA RowsRepaid ==
  ASSUME LoansInv, Repayable, NEW amount \in Nat, NEW applied, Fits(applied, amount), NEW base,
         PostRepayment(base, amount, applied)
  PROVE  /\ DOMAIN rows' = DOMAIN rows /\ rows' = [k \in DOMAIN rows |-> rows'[k]]
         /\ \A k \in DOMAIN rows :
              /\ Sound(rows'[k]) /\ Owed(rows'[k]) = Owed(applied[k])
              /\ PaidOn(rows'[k]) = PaidOn(applied[k])
              /\ rows'[k].principal = rows[k].principal /\ rows'[k].interest = rows[k].interest
              /\ rows'[k].fee = rows[k].fee /\ rows'[k].charged = rows[k].charged
              /\ rows'[k].waived # rows[k].waived => DueDay(k) > today
              /\ rows[k].paid => rows'[k] = rows[k]
<1>1. rows' = [k \in DOMAIN rows |-> Settled(applied[k], rows[k])]
  BY DEF PostRepayment
<1>2. ASSUME NEW k \in DOMAIN rows
      PROVE  /\ Sound(rows'[k]) /\ Owed(rows'[k]) = Owed(applied[k])
             /\ PaidOn(rows'[k]) = PaidOn(applied[k])
             /\ rows'[k].principal = rows[k].principal /\ rows'[k].interest = rows[k].interest
             /\ rows'[k].fee = rows[k].fee /\ rows'[k].charged = rows[k].charged
             /\ rows'[k].waived # rows[k].waived => DueDay(k) > today
             /\ rows[k].paid => rows'[k] = rows[k]
  <2>1. Sound(rows[k]) /\ Touched(rows[k], applied[k])
    BY RowsAreSound DEF Fits
  <2>2. applied[k].waived # rows[k].waived => DueDay(k) > today
    BY DEF Fits
  <2>3. rows'[k] = Settled(applied[k], rows[k])
    BY <1>1
  <2> QED
    BY <2>1, <2>2, <2>3, SettledIsSound
<1> QED
  BY <1>1, <1>2

LEMMA RepaymentBooks ==
  ASSUME LoansInv, Repayable, NEW amount \in Nat, NEW applied, Fits(applied, amount),
         NEW base \in LoanRow, base.status = loan.status, base.terms = loan.terms,
         PostRepayment(base, amount, applied)
  PROVE  /\ loan' \in LoanRow /\ taken' \in Nat /\ Books'
         /\ loan'.status \notin {"none", "approved"} /\ loan'.terms = loan.terms
<1> DEFINE balance == OwedOn(Unpaid)'
           overdue == \E k \in Unpaid' : DueDay(k) < today
           owed == [k \in DOMAIN rows' |-> Owed(rows'[k])]
           was == [k \in DOMAIN rows |-> PaidOn(rows[k])]
           now == [k \in DOMAIN rows' |-> PaidOn(rows'[k])]
<1>1. /\ DOMAIN rows' = DOMAIN rows /\ IsFiniteSet(DOMAIN rows)
      /\ \A k \in DOMAIN rows : Sound(rows'[k]) /\ PaidOn(rows'[k]) = PaidOn(applied[k])
  BY RowsRepaid, RowsAreSound
<1>2. \A k \in DOMAIN rows' : owed[k] \in Nat /\ (rows'[k].paid => owed[k] = 0)
  BY <1>1, OwedIsNat DEF Sound
<1>3. Unpaid' \subseteq DOMAIN rows' /\ \A k \in DOMAIN rows' \ Unpaid' : owed[k] = 0
  BY <1>2 DEF Unpaid
<1>4. OwedOn(Unpaid)' = SumFunctionOnSet(owed, Unpaid') /\ OwedOn(DOMAIN rows)' = SumFunctionOnSet(owed, DOMAIN rows')
  BY DEF OwedOn
<1>5. balance \in Nat /\ balance = OwedOn(DOMAIN rows)'
  <2>1. IsFiniteSet(DOMAIN rows') /\ IsFiniteSet(Unpaid')
    BY <1>1, <1>3, FS_Subset
  <2>2. Unpaid' \in SUBSET DOMAIN rows'
    BY <1>3
  <2> HIDE DEF owed
  <2>3. SumFunctionOnSet(owed, Unpaid') = SumFunctionOnSet(owed, DOMAIN rows')
    BY <1>2, <1>3, <2>1, <2>2, SumOfPart
  <2>4. SumFunctionOnSet(owed, DOMAIN rows') \in Nat
    BY <1>2, <2>1, SumIsNat
  <2> QED
    BY <1>4, <2>3, <2>4
<1>6. taken' = SumFunctionOnSet(now, DOMAIN rows') /\ taken' \in Nat
  <2>1. taken' = taken + amount
    BY DEF PostRepayment
  <2>2. SumFunctionOnSet([k \in DOMAIN rows |-> PaidOn(applied[k])], DOMAIN rows) = taken + amount
    BY DEF Fits
  <2>3. now = [k \in DOMAIN rows |-> PaidOn(applied[k])]
    BY <1>1
  <2>4. taken \in Nat
    BY DEF LoansInv, LoanTypes
  <2> HIDE DEF now
  <2> QED
    BY <1>1, <2>1, <2>2, <2>3, <2>4
<1> DEFINE status == IF balance = 0 THEN "repaid"
                     ELSE IF base.status = "defaulted" /\ ~overdue THEN "active" ELSE base.status
<1>7. loan' = [base EXCEPT !.balance = balance, !.status = status]
  BY DEF PostRepayment
<1>8. base.status \in {"active", "defaulted"}
  BY DEF Repayable
<1>9. /\ status \in {"active", "defaulted", "repaid"}
      /\ status = "repaid" <=> balance = 0
  BY <1>8
<1> HIDE DEF status, balance
<1>10. /\ loan' \in LoanRow /\ loan'.status = status /\ loan'.balance = balance
       /\ loan'.terms = loan.terms
  BY <1>5, <1>7, <1>9 DEF LoanRow
<1>11. Books'
  <2>1. taken' = SumFunctionOnSet([k \in DOMAIN rows' |-> PaidOn(rows'[k])], DOMAIN rows')
    BY <1>6
  <2>2. loan'.balance = OwedOn(DOMAIN rows)'
    BY <1>5, <1>10
  <2>3. (Repayable)' => loan'.balance > 0
    BY <1>5, <1>9, <1>10 DEF Repayable
  <2>4. loan'.status = "repaid" => loan'.balance = 0
    BY <1>9, <1>10
  <2> QED
    BY <2>1, <2>2, <2>3, <2>4 DEF Books
<1> QED
  BY <1>6, <1>9, <1>10, <1>11

\* What a step may do to the installments.
AsAgreed ==
  \A k \in DOMAIN rows :
    /\ rows'[k].fee # rows[k].fee =>
         ~rows[k].charged /\ ~rows[k].paid /\ DueDay(k) + GraceDays < today
    /\ rows'[k].waived # rows[k].waived => DueDay(k) > today
    /\ rows'[k].principal = rows[k].principal /\ rows'[k].interest = rows[k].interest

\* A payment keeps the schedule and the books, and leaves no more due.
LEMMA RepaymentKeeps ==
  ASSUME LoansInv, Repayable, NEW amount \in Nat, NEW applied, Fits(applied, amount),
         NEW base \in LoanRow, base.status = loan.status, base.terms = loan.terms,
         PostRepayment(base, amount, applied), UNCHANGED <<application, today>>
  PROVE  /\ loan' \in LoanRow /\ taken' \in Nat /\ Books' /\ Schedule'
         /\ DOMAIN rows' = DOMAIN rows /\ AsAgreed
         /\ Due' \subseteq Due
<1>1. /\ loan' \in LoanRow /\ taken' \in Nat /\ Books'
      /\ loan'.status \notin {"none", "approved"} /\ loan'.terms = loan.terms
  BY RepaymentBooks
<1>2. /\ DOMAIN rows' = DOMAIN rows /\ rows' = [k \in DOMAIN rows |-> rows'[k]]
      /\ \A k \in DOMAIN rows :
           /\ Sound(rows'[k])
           /\ rows'[k].principal = rows[k].principal /\ rows'[k].interest = rows[k].interest
           /\ rows'[k].fee = rows[k].fee
           /\ rows'[k].waived # rows[k].waived => DueDay(k) > today
           /\ rows[k].paid => rows'[k] = rows[k]
  BY RowsRepaid
<1>3. /\ loan.status \notin {"none", "approved"} /\ loan.terms \in Offers
      /\ DOMAIN rows = 1 .. loan.terms.months
      /\ SumFunctionOnSet([k \in DOMAIN rows |-> rows[k].principal], DOMAIN rows) = loan.terms.principal
      /\ application = "approved"
  BY DEF LoansInv, Schedule, Repayable
<1>4. [k \in DOMAIN rows' |-> rows'[k].principal] = [k \in DOMAIN rows |-> rows[k].principal]
  BY <1>2
<1>5. Schedule'
  <2>1. SumFunctionOnSet([k \in DOMAIN rows' |-> rows'[k].principal], DOMAIN rows') = loan'.terms.principal
    BY <1>1, <1>2, <1>3, <1>4
  <2>2. rows' = [k \in DOMAIN rows' |-> rows'[k]]
    BY <1>2
  <2> QED
    BY <1>1, <1>2, <1>3, <2>1, <2>2 DEF Schedule
<1>6. AsAgreed
  BY <1>2 DEF AsAgreed
<1>7. Due' \subseteq Due
  BY <1>2 DEF Due, Unpaid, DueDay
<1> QED
  BY <1>1, <1>2, <1>5, <1>6, <1>7

(***************************************************************************)
(* The steps that pay nothing.                                             *)
(***************************************************************************)

\* Money is taken automatically as the borrower agreed.
ToldToCollect ==
  \A c \in collected' \ collected :
    loan.autoDebit /\ Due # {} /\ \A d \in collected : d.day # c.day

LEMMA LateStays ==
  ASSUME LoansInv, DOMAIN rows' = DOMAIN rows, today' \in {today, today + 1},
         \A w \in Runner : round'[w].late \subseteq round[w].late
  PROVE  FoundLate'
<1> SUFFICES ASSUME NEW w \in Runner, NEW k \in round'[w].late
             PROVE  k \in DOMAIN rows' /\ DueDay(k) + GraceDays < today'
  BY DEF FoundLate, DueDay
<1>1. k \in DOMAIN rows /\ DueDay(k) + GraceDays < today
  BY DEF LoansInv, FoundLate
<1>2. DueDay(k) + GraceDays \in Int /\ today \in Int
  BY <1>1, RowsAreSound, DaysAssumption DEF DueDay, LoansInv, LoanTypes
<1> QED
  BY <1>1, <1>2

LEMMA CollectedStays ==
  ASSUME LoansInv, Due' \subseteq Due, UNCHANGED <<today, collected>>
  PROVE  NothingLeftToday' /\ ToldToCollect
<1>1. \A c \in collected : c.day \in 0 .. today /\ (c.day = today => Due' = {})
  BY DEF LoansInv, NothingLeftToday
<1> QED
  BY <1>1 DEF NothingLeftToday, ToldToCollect

LEMMA GotoKeeps ==
  ASSUME LoansInv, NEW w \in Runner,
         NEW pc \in {"idle", "key", "collect", "findFees", "fees", "default"}, Goto(w, pc)
  PROVE  round' \in [Runner -> RoundRow] /\ \A v \in Runner : round'[v].late = round[v].late
<1>1. round \in [Runner -> RoundRow] /\ round[w] \in RoundRow
  BY DEF LoansInv, LoanTypes
<1> DEFINE row == [round[w] EXCEPT !.pc = pc]
<1>2. row \in RoundRow /\ row.late = round[w].late
  BY <1>1 DEF RoundRow
<1>3. round' = [round EXCEPT ![w] = row]
  BY DEF Goto
<1> HIDE DEF row
<1> QED
  BY <1>1, <1>2, <1>3

\* The loan may be due to be collected, or overdue, or not; its books stand.
LEMMA BooksStand ==
  ASSUME LoansInv, UNCHANGED <<rows, taken, collected>>, loan' \in LoanRow,
         loan'.balance = loan.balance, loan'.terms = loan.terms,
         \/ loan'.status = loan.status
         \/ loan.status = "active" /\ loan'.status = "defaulted",
         \/ application' = application
         \/ application # "approved" /\ application' # "approved"
  PROVE  Schedule' /\ Books' /\ DOMAIN rows' = DOMAIN rows /\ AsAgreed
<1>1. /\ IF loan.status \in {"none", "approved"} THEN rows = <<>> /\ collected = {} ELSE
           /\ loan.terms \in Offers
           /\ DOMAIN rows = 1 .. loan.terms.months
           /\ rows = [k \in DOMAIN rows |-> rows[k]]
           /\ SumFunctionOnSet([k \in DOMAIN rows |-> rows[k].principal], DOMAIN rows)
                = loan.terms.principal
      /\ loan.status = "approved" => loan.terms \in Offers
      /\ application # "approved" => loan.status = "none"
      /\ \A k \in DOMAIN rows : Sound(rows[k])
  BY DEF LoansInv, Schedule
<1>2. loan.status \in {"none", "approved"} <=> loan'.status \in {"none", "approved"}
  OBVIOUS
<1>3. Schedule'
  BY <1>1, <1>2 DEF Schedule
<1>4. OwedOn(DOMAIN rows)' = OwedOn(DOMAIN rows)
  BY DEF OwedOn
<1>5. Books'
  <2>1. /\ taken = SumFunctionOnSet([k \in DOMAIN rows |-> PaidOn(rows[k])], DOMAIN rows)
        /\ loan.balance = OwedOn(DOMAIN rows)
        /\ Repayable => loan.balance > 0
        /\ loan.status = "repaid" => loan.balance = 0
    BY DEF LoansInv, Books
  <2>2. (Repayable)' => Repayable
    BY DEF Repayable
  <2> QED
    BY <1>4, <2>1, <2>2 DEF Books
<1> QED
  BY <1>3, <1>5 DEF AsAgreed

StepIsFine == LoansInv' /\ AsAgreed /\ ToldToCollect

LEMMA BorrowerKeeps ==
  ASSUME LoansInv,
         \/ Apply \/ Reject \/ CloseLoanAccount
         \/ \E on \in BOOLEAN : SetAutoDebit(on)
  PROVE  StepIsFine
<1>1. loan \in LoanRow
  BY DEF LoansInv, LoanTypes
<1>2. /\ UNCHANGED <<rows, today, round, taken, collected>>
      /\ loan' \in LoanRow /\ loan'.balance = loan.balance /\ loan'.terms = loan.terms
      /\ loan'.status = loan.status
      /\ application' \in {"none", "pending_review", "approved", "rejected"}
      /\ account' \in {"active", "closed"}
      /\ \/ application' = application
         \/ application # "approved" /\ application' # "approved"
  <2>1. CASE Apply \/ Reject \/ CloseLoanAccount
    BY <1>1, <2>1 DEF Apply, Reject, CloseLoanAccount, LoansInv, LoanTypes
  <2>2. ASSUME NEW on \in BOOLEAN, SetAutoDebit(on)
        PROVE  /\ loan' \in LoanRow /\ loan'.balance = loan.balance /\ loan'.terms = loan.terms
               /\ loan'.status = loan.status
               /\ UNCHANGED <<application, rows, account, today, round, taken, collected>>
    <3>1. loan' = [loan EXCEPT !.autoDebit = on, !.lastAttempt = None]
      BY <2>2 DEF SetAutoDebit
    <3>2. UNCHANGED <<application, rows, account, today, round, taken, collected>>
      BY <2>2 DEF SetAutoDebit
    <3> QED
      BY <1>1, <3>1, <3>2 DEF LoanRow
  <2>3. CASE \E on \in BOOLEAN : SetAutoDebit(on)
    <3>1. PICK on \in BOOLEAN : SetAutoDebit(on)
      BY <2>3
    <3> QED
      BY <2>2, <3>1 DEF LoansInv, LoanTypes
  <2> QED
    BY <2>1, <2>3
<1>3. Schedule' /\ Books' /\ DOMAIN rows' = DOMAIN rows /\ AsAgreed
  BY <1>2, BooksStand
<1>4. FoundLate'
  BY <1>2, LateStays
<1>5. Due' \subseteq Due
  BY <1>2 DEF Due, Unpaid, DueDay
<1>6. NothingLeftToday' /\ ToldToCollect
  BY <1>2, <1>5, CollectedStays
<1>7. LoanTypes'
  BY <1>2 DEF LoansInv, LoanTypes
<1> QED
  BY <1>3, <1>4, <1>6, <1>7 DEF StepIsFine, LoansInv

LEMMA ApproveKeeps ==
  ASSUME LoansInv, NEW terms \in Offers, Approve(terms)
  PROVE  StepIsFine
<1>1. /\ loan \in LoanRow /\ loan.status = "none" /\ rows = <<>> /\ collected = {}
      /\ application' = "approved"
      /\ loan' = [loan EXCEPT !.status = "approved", !.autoDebit = TRUE, !.terms = terms]
      /\ UNCHANGED <<rows, account, today, round, taken, collected>>
  BY DEF Approve, LoansInv, LoanTypes, Schedule
<1>2. /\ loan' \in LoanRow /\ loan'.status = "approved" /\ loan'.terms \in Offers
      /\ loan'.balance = loan.balance
  BY <1>1 DEF LoanRow
<1>3. Schedule'
  <2>1. \A k \in DOMAIN rows : Sound(rows[k])
    BY DEF LoansInv, Schedule
  <2> QED
    BY <1>1, <1>2, <2>1 DEF Schedule
<1>4. Books'
  <2>1. taken' = SumFunctionOnSet([k \in DOMAIN rows' |-> PaidOn(rows'[k])], DOMAIN rows')
        /\ loan.balance = OwedOn(DOMAIN rows)'
    BY <1>1 DEF LoansInv, Books, OwedOn
  <2> QED
    BY <1>2, <2>1 DEF Books, Repayable
<1>5. FoundLate'
  BY <1>1, LateStays
<1>6. Due' \subseteq Due
  BY <1>1 DEF Due, Unpaid, DueDay
<1>7. NothingLeftToday' /\ ToldToCollect
  BY <1>1, <1>6, CollectedStays
<1>8. LoanTypes' /\ AsAgreed
  BY <1>1, <1>2 DEF LoansInv, LoanTypes, AsAgreed
<1> QED
  BY <1>3, <1>4, <1>5, <1>7, <1>8 DEF StepIsFine, LoansInv

\* A loan is disbursed with a schedule of rows on which nothing is paid, of
\* which each one owes something.
LEMMA DisburseKeeps ==
  ASSUME LoansInv, Disburse
  PROVE  StepIsFine
<1> DEFINE t == loan.terms
           schedule == BuildSchedule(t)
           owed == [k \in DOMAIN rows' |-> Owed(rows'[k])]
           now == [k \in DOMAIN rows' |-> PaidOn(rows'[k])]
<1>1. /\ loan \in LoanRow /\ loan.status = "approved" /\ rows = <<>> /\ collected = {}
      /\ t \in Offers /\ t \in Terms /\ t.months \in Nat \ {0}
      /\ \A k \in DOMAIN schedule : MayBeInserted(schedule[k])
      /\ rows' = [k \in DOMAIN schedule |-> NewRow(schedule[k])]
      /\ loan' = [loan EXCEPT !.status = "active", !.balance = OwedOn(DOMAIN rows)']
      /\ UNCHANGED <<application, account, today, round, taken, collected>>
  BY OffersAssumption DEF Disburse, LoansInv, LoanTypes, Schedule, Terms
<1>2. /\ DOMAIN rows' = 1 .. t.months /\ IsFiniteSet(DOMAIN rows')
      /\ rows' = [k \in DOMAIN rows' |-> rows'[k]]
  <2>1. DOMAIN schedule = 1 .. t.months
    BY <1>1, ScheduleAddsUp
  <2>2. IsFiniteSet(1 .. t.months)
    <3>1. 1 \in Int /\ t.months \in Int
      BY <1>1
    <3> HIDE DEF t
    <3> QED
      BY <3>1, FS_Interval
  <2> HIDE DEF schedule
  <2>3. DOMAIN rows' = 1 .. t.months
    BY <1>1, <2>1
  <2>4. rows' = [k \in DOMAIN rows' |-> rows'[k]]
    BY <1>1
  <2> QED
    BY <2>2, <2>3, <2>4
<1>3. ASSUME NEW k \in 1 .. t.months
      PROVE  /\ Sound(rows'[k]) /\ PaidOn(rows'[k]) = 0 /\ Owed(rows'[k]) > 0
             /\ rows'[k].principal = schedule[k].principal
  <2> DEFINE p == schedule[k].principal
             i == schedule[k].interest
             r == NewRow(schedule[k])
  <2>1. p \in Nat /\ i \in Nat /\ p + i > 0
    BY <1>1, ScheduleAddsUp DEF MayBeInserted
  <2>2. rows'[k] = r
    BY <1>1, ScheduleAddsUp
  <2>3. r = [principal |-> p, interest |-> i, principalPaid |-> 0, interestPaid |-> 0, waived |-> 0,
             fee |-> 0, feePaid |-> 0, charged |-> FALSE, paid |-> FALSE]
    BY DEF NewRow
  <2> HIDE DEF p, i, r
  <2>4. /\ r \in RepaymentRow /\ OwedFee(r) = 0 /\ OwedInterest(r) = i /\ OwedPrincipal(r) = p
        /\ PaidOn(r) = 0 /\ r.fee = 0 /\ ~r.charged /\ ~r.paid /\ r.principal = p
    BY <2>1, <2>3 DEF RepaymentRow, OwedFee, OwedInterest, OwedPrincipal, PaidOn
  <2>5. Owed(r) = i + p
    BY <2>1, <2>4 DEF Owed
  <2>6. Sound(r)
    BY <2>1, <2>4, <2>5 DEF Sound
  <2> QED
    BY <2>1, <2>2, <2>4, <2>5, <2>6 DEF p
<1>4. \A k \in DOMAIN rows' : owed[k] \in Nat /\ owed[k] > 0 /\ now[k] = 0
  BY <1>2, <1>3, OwedIsNat
<1>5. OwedOn(DOMAIN rows)' \in Nat /\ OwedOn(DOMAIN rows)' > 0
  <2>1. OwedOn(DOMAIN rows)' = SumFunctionOnSet(owed, DOMAIN rows')
    BY DEF OwedOn
  <2>2. 1 \in DOMAIN rows'
    BY <1>1, <1>2
  <2> DEFINE K == DOMAIN rows'
  <2>3. IsFiniteSet(K) /\ (\A k \in K : owed[k] \in Int) /\ 1 \in K
    <3>1. IsFiniteSet(K) /\ 1 \in K
      BY <1>2, <2>2
    <3>2. \A k \in K : owed[k] \in Nat
      BY <1>4
    <3> HIDE DEF owed, K
    <3>3. \A k \in K : owed[k] \in Int
      BY <3>2
    <3> QED
      BY <3>1, <3>3
  <2>4. IsFiniteSet(K \ {1}) /\ \A k \in K \ {1} : owed[k] \in Nat
    BY <1>2, <1>4, FS_RemoveElement
  <2>5. owed[1] \in Nat /\ owed[1] > 0
    BY <1>4, <2>2
  <2> HIDE DEF owed, K
  <2>6. SumFunctionOnSet(owed, K) = owed[1] + SumFunctionOnSet(owed, K \ {1})
    BY <2>3, SumWithout
  <2>7. SumFunctionOnSet(owed, K \ {1}) \in Nat
    BY <2>4, SumIsNat
  <2>8. SumFunctionOnSet(owed, K) \in Nat /\ SumFunctionOnSet(owed, K) > 0
    BY <2>5, <2>6, <2>7
  <2> QED
    BY <2>1, <2>8 DEF K
<1>6. /\ loan' \in LoanRow /\ loan'.status = "active" /\ loan'.balance = OwedOn(DOMAIN rows)'
      /\ loan'.terms = t
  <2> DEFINE balance == OwedOn(DOMAIN rows)'
  <2>1. balance \in Nat /\ loan' = [loan EXCEPT !.status = "active", !.balance = balance]
    BY <1>1, <1>5
  <2> HIDE DEF balance
  <2>2. /\ loan' \in LoanRow /\ loan'.status = "active" /\ loan'.balance = balance
        /\ loan'.terms = t
    BY <1>1, <2>1 DEF LoanRow
  <2> QED
    BY <2>2 DEF balance
<1>7. Books'
  <2>1. taken = SumFunctionOnSet([k \in DOMAIN rows |-> PaidOn(rows[k])], DOMAIN rows)
    BY DEF LoansInv, Books
  <2>2. DOMAIN rows = {}
    BY <1>1
  <2>3. taken = 0
    BY <2>1, <2>2, SumOfNone
  <2>4. SumFunctionOnSet(now, DOMAIN rows') = 0
    <3> HIDE DEF now
    <3> QED
      BY <1>2, <1>4, SumOfZeros
  <2>5. taken' = SumFunctionOnSet([k \in DOMAIN rows' |-> PaidOn(rows'[k])], DOMAIN rows')
    BY <1>1, <2>3, <2>4
  <2> QED
    BY <1>5, <1>6, <2>5 DEF Books
<1>8. Schedule'
  <2> DEFINE principal == [k \in DOMAIN rows' |-> rows'[k].principal]
  <2>1. \A k \in 1 .. t.months : principal[k] = BuildSchedule(t)[k].principal
    BY <1>2, <1>3
  <2>2. SumFunctionOnSet(principal, 1 .. t.months) = t.principal
    <3> HIDE DEF principal
    <3> QED
      BY <1>1, <2>1, ScheduleAddsUp
  <2>3. \A k \in DOMAIN rows' : Sound(rows'[k])
    BY <1>2, <1>3
  <2>4. application = "approved"
    BY <1>1 DEF LoansInv, Schedule
  <2>5. SumFunctionOnSet([k \in DOMAIN rows' |-> rows'[k].principal], DOMAIN rows') = loan'.terms.principal
    BY <1>2, <1>6, <2>2
  <2> QED
    BY <1>1, <1>2, <1>6, <2>3, <2>4, <2>5 DEF Schedule
<1>9. FoundLate'
  <2>1. \A w \in Runner : round[w].late = {}
    BY <1>1 DEF LoansInv, FoundLate
  <2> QED
    BY <1>1, <2>1 DEF FoundLate
<1>10. NothingLeftToday' /\ ToldToCollect /\ AsAgreed /\ LoanTypes'
  BY <1>1, <1>6 DEF NothingLeftToday, ToldToCollect, AsAgreed, LoansInv, LoanTypes
<1> QED
  BY <1>7, <1>8, <1>9, <1>10 DEF StepIsFine, LoansInv

(***************************************************************************)
(* What the borrower pays.                                                 *)
(***************************************************************************)

LEMMA PaymentKeeps ==
  ASSUME LoansInv, Repayable, NEW amount \in Nat, NEW applied, Fits(applied, amount),
         PostRepayment(loan, amount, applied), UNCHANGED <<application, account, today, round, collected>>
  PROVE  StepIsFine
<1>1. loan \in LoanRow
  BY DEF LoansInv, LoanTypes
<1>2. /\ loan' \in LoanRow /\ taken' \in Nat /\ Books' /\ Schedule'
      /\ DOMAIN rows' = DOMAIN rows /\ AsAgreed
      /\ Due' \subseteq Due
  BY <1>1, RepaymentKeeps
<1>3. FoundLate'
  BY <1>2, LateStays
<1>4. NothingLeftToday' /\ ToldToCollect
  BY <1>2, CollectedStays
<1>5. LoanTypes'
  BY <1>2 DEF LoansInv, LoanTypes
<1> QED
  BY <1>2, <1>3, <1>4, <1>5 DEF StepIsFine, LoansInv

LEMMA RepayKeeps ==
  ASSUME LoansInv, NEW amount, Repay(amount) \/ (PayOff /\ amount = PayoffTotal)
  PROVE  StepIsFine
<1>1. Repayable /\ PayoffTotal \in Nat /\ PayoffTotal <= AskedOf(Parts) /\ AskedOf(Parts) \in Nat
  BY AskedCovers DEF Repay, PayOff
<1>2. UNCHANGED <<application, account, today, round, collected>>
  BY DEF Repay, PayOff
<1>3. CASE amount = PayoffTotal
  <2>1. PostRepayment(loan, amount, Payoff)
    BY <1>3 DEF Repay, PayOff
  <2>2. Fits(Payoff, amount)
    BY <1>1, <1>3, PayoffFits
  <2> QED
    BY <1>1, <1>2, <1>3, <2>1, <2>2, PaymentKeeps
<1>4. CASE amount # PayoffTotal
  <2>1. amount \in RepaymentAmounts /\ PostRepayment(loan, amount, Allocate(amount))
    BY <1>4 DEF Repay
  <2>2. amount \in Nat /\ amount <= PayoffTotal
    BY <1>1, <2>1, FeeAssumption DEF RepaymentAmounts, Smaller
  <2>3. amount <= AskedOf(Parts)
    BY <1>1, <2>2
  <2>4. Fits(Allocate(amount), amount)
    BY <1>1, <2>2, <2>3, AllocateFits
  <2> QED
    BY <1>1, <1>2, <2>1, <2>2, <2>4, PaymentKeeps
<1> QED
  BY <1>3, <1>4

(***************************************************************************)
(* The job: what it reads.                                                 *)
(***************************************************************************)

LEMMA ReadingKeeps ==
  ASSUME LoansInv, UNCHANGED <<application, loan, rows, account, today, taken, collected>>,
         round' \in [Runner -> RoundRow], FoundLate'
  PROVE  StepIsFine
<1>1. Schedule' /\ Books' /\ AsAgreed
  <2>1. loan \in LoanRow
    BY DEF LoansInv, LoanTypes
  <2> QED
    BY <2>1, BooksStand
<1>2. Due' \subseteq Due
  BY DEF Due, Unpaid, DueDay
<1>3. NothingLeftToday' /\ ToldToCollect
  BY <1>2, CollectedStays
<1>4. LoanTypes'
  BY DEF LoansInv, LoanTypes
<1> QED
  BY <1>1, <1>3, <1>4 DEF StepIsFine, LoansInv

LEMMA OldestIsUnpaid ==
  ASSUME LoansInv, Unpaid # {}
  PROVE  OldestUnpaid \in Nat
<1>1. Unpaid \in SUBSET Nat
  BY RowsAreSound DEF Unpaid
<1>2. \E k \in Unpaid : \A j \in Unpaid : k <= j
  BY <1>1, LeastOf
<1>3. OldestUnpaid \in Unpaid
  BY <1>2 DEF OldestUnpaid
<1> QED
  BY <1>1, <1>3

LEMMA ReadKeeps ==
  ASSUME LoansInv, NEW w \in Runner, StartRun(w) \/ ReadKey(w) \/ FindDefaults(w)
  PROVE  StepIsFine
<1>1. UNCHANGED <<application, loan, rows, account, today, taken, collected>>
  BY DEF StartRun, ReadKey, FindDefaults
<1>2. round \in [Runner -> RoundRow] /\ round[w] \in RoundRow /\ today \in 0 .. MaxDay
  BY DEF LoansInv, LoanTypes
<1>3. round' \in [Runner -> RoundRow] /\ \A v \in Runner : round'[v].late = round[v].late
  <2>1. CASE StartRun(w)
    <3>1. PICK pc \in {"idle", "key", "collect", "findFees", "fees", "default"} : Goto(w, pc)
      BY <2>1 DEF StartRun
    <3> QED
      BY <3>1, GotoKeeps
  <2>2. CASE ReadKey(w)
    <3> DEFINE row == IF Unpaid = {} THEN [round[w] EXCEPT !.pc = "findFees"]
                      ELSE [round[w] EXCEPT !.pc = "collect", !.key = <<today, OldestUnpaid>>]
    <3>1. round' = [round EXCEPT ![w] = row]
      BY <2>2 DEF ReadKey
    <3>2. row \in RoundRow /\ row.late = round[w].late
      <4>1. CASE Unpaid = {}
        BY <1>2, <4>1 DEF RoundRow
      <4>2. CASE Unpaid # {}
        <5>1. <<today, OldestUnpaid>> \in (0 .. MaxDay) \X Nat
          BY <1>2, <4>2, OldestIsUnpaid
        <5>2. row = [round[w] EXCEPT !.pc = "collect", !.key = <<today, OldestUnpaid>>]
          BY <4>2
        <5> QED
          BY <1>2, <5>1, <5>2 DEF RoundRow
      <4> QED
        BY <4>1, <4>2
    <3> HIDE DEF row
    <3> QED
      BY <1>2, <3>1, <3>2
  <2>3. CASE FindDefaults(w)
    <3>1. PICK pc \in {"idle", "key", "collect", "findFees", "fees", "default"} : Goto(w, pc)
      BY <2>3 DEF FindDefaults
    <3> QED
      BY <3>1, GotoKeeps
  <2> QED
    BY <2>1, <2>2, <2>3
<1>4. FoundLate'
  BY <1>1, <1>3, LateStays
<1> QED
  BY <1>1, <1>3, <1>4, ReadingKeeps

LEMMA FindFeesKeeps ==
  ASSUME LoansInv, NEW w \in Runner, FindFees(w)
  PROVE  StepIsFine
<1> DEFINE late == {k \in DOMAIN rows : /\ Repayable /\ ~rows[k].paid /\ ~rows[k].charged
                                        /\ DueDay(k) + GraceDays < today}
           row == [round[w] EXCEPT !.pc = "fees", !.late = late]
<1>1. /\ UNCHANGED <<application, loan, rows, account, today, taken, collected>>
      /\ round' = [round EXCEPT ![w] = row]
  BY DEF FindFees
<1>2. round \in [Runner -> RoundRow] /\ round[w] \in RoundRow
  BY DEF LoansInv, LoanTypes
<1>3. late \in SUBSET Nat /\ \A k \in late : k \in DOMAIN rows /\ DueDay(k) + GraceDays < today
  BY RowsAreSound
<1> HIDE DEF late
<1>4. row \in RoundRow /\ row.late = late
  BY <1>2, <1>3 DEF RoundRow
<1> HIDE DEF row
<1>5. /\ round' \in [Runner -> RoundRow] /\ round'[w].late = late
      /\ \A v \in Runner : v # w => round'[v].late = round[v].late
  BY <1>1, <1>2, <1>4
<1>6. FoundLate'
  <2> SUFFICES ASSUME NEW v \in Runner, NEW k \in round'[v].late
               PROVE  k \in DOMAIN rows' /\ DueDay(k) + GraceDays < today'
    BY DEF FoundLate, DueDay
  <2>1. k \in DOMAIN rows /\ DueDay(k) + GraceDays < today
    BY <1>3, <1>5 DEF LoansInv, FoundLate
  <2> QED
    BY <1>1, <2>1
<1> QED
  BY <1>1, <1>5, <1>6, ReadingKeeps

LEMMA MarkDefaultKeeps ==
  ASSUME LoansInv, NEW w \in Runner, MarkDefault(w)
  PROVE  StepIsFine
<1>1. /\ UNCHANGED <<application, rows, account, today, taken, collected>>
      /\ loan' = IF loan.status = "active" THEN [loan EXCEPT !.status = "defaulted"] ELSE loan
      /\ Goto(w, "idle")
  BY DEF MarkDefault
<1>2. loan \in LoanRow
  BY DEF LoansInv, LoanTypes
<1>3. /\ loan' \in LoanRow /\ loan'.balance = loan.balance /\ loan'.terms = loan.terms
      /\ \/ loan'.status = loan.status
         \/ loan.status = "active" /\ loan'.status = "defaulted"
  BY <1>1, <1>2 DEF LoanRow
<1>4. Schedule' /\ Books' /\ DOMAIN rows' = DOMAIN rows /\ AsAgreed
  BY <1>1, <1>3, BooksStand
<1>5. round' \in [Runner -> RoundRow] /\ \A v \in Runner : round'[v].late = round[v].late
  BY <1>1, GotoKeeps
<1>6. FoundLate'
  BY <1>1, <1>5, LateStays
<1>7. Due' \subseteq Due
  BY <1>1 DEF Due, Unpaid, DueDay
<1>8. NothingLeftToday' /\ ToldToCollect
  BY <1>1, <1>7, CollectedStays
<1>9. LoanTypes'
  BY <1>1, <1>3, <1>5 DEF LoansInv, LoanTypes
<1> QED
  BY <1>4, <1>6, <1>8, <1>9 DEF StepIsFine, LoansInv

LEMMA NextDayKeeps ==
  ASSUME LoansInv, NextDay
  PROVE  StepIsFine
<1>1. /\ UNCHANGED <<application, loan, rows, account, round, taken, collected>>
      /\ today' = today + 1 /\ today < MaxDay
  BY DEF NextDay
<1>2. today \in 0 .. MaxDay /\ MaxDay \in Nat /\ loan \in LoanRow
  BY DaysAssumption DEF LoansInv, LoanTypes
<1>3. Schedule' /\ Books' /\ DOMAIN rows' = DOMAIN rows /\ AsAgreed
  BY <1>1, <1>2, BooksStand
<1>4. FoundLate'
  BY <1>1, LateStays
<1>5. NothingLeftToday'
  <2>1. \A c \in collected : c.day \in 0 .. today
    BY DEF LoansInv, NothingLeftToday
  <2> SUFFICES ASSUME NEW c \in collected
               PROVE  c.day \in 0 .. today + 1 /\ c.day # today + 1
    BY <1>1 DEF NothingLeftToday
  <2> QED
    BY <1>2, <2>1
<1>6. LoanTypes'
  <2>1. today' \in 0 .. MaxDay
    BY <1>1, <1>2
  <2> QED
    BY <1>1, <2>1 DEF LoansInv, LoanTypes
<1>7. ToldToCollect
  BY <1>1 DEF ToldToCollect
<1> QED
  BY <1>3, <1>4, <1>5, <1>6, <1>7 DEF StepIsFine, LoansInv

(***************************************************************************)
(* The job: what is due is collected.                                      *)
(***************************************************************************)

LEMMA CollectingKeeps ==
  ASSUME LoansInv, NEW w \in Runner, ToCollect, TakeWhatIsDue(w), Goto(w, "findFees"),
         UNCHANGED <<application, account, today>>
  PROVE  StepIsFine
<1> DEFINE tried == [loan EXCEPT !.lastAttempt = today]
<1>1. /\ loan \in LoanRow /\ today \in 0 .. MaxDay
      /\ Repayable /\ Due # {} /\ loan.autoDebit
  BY DEF LoansInv, LoanTypes, ToCollect
<1>2. tried \in LoanRow /\ tried.status = loan.status /\ tried.terms = loan.terms /\ tried.balance = loan.balance
  BY <1>1 DEF LoanRow
<1>3. round' \in [Runner -> RoundRow] /\ \A v \in Runner : round'[v].late = round[v].late
  BY GotoKeeps
<1>4. CASE loan' = tried /\ UNCHANGED <<rows, taken, collected>>
  <2> HIDE DEF tried
  <2>1. Schedule' /\ Books' /\ DOMAIN rows' = DOMAIN rows /\ AsAgreed
    BY <1>2, <1>4, BooksStand
  <2>2. FoundLate'
    BY <1>3, <2>1, LateStays
  <2>3. Due' \subseteq Due
    BY <1>4 DEF Due, Unpaid, DueDay
  <2>4. NothingLeftToday' /\ ToldToCollect
    BY <1>4, <2>3, CollectedStays
  <2>5. LoanTypes'
    BY <1>2, <1>3, <1>4 DEF LoansInv, LoanTypes
  <2> QED
    BY <2>1, <2>2, <2>4, <2>5 DEF StepIsFine, LoansInv
<1>5. CASE /\ PostRepayment(tried, DueNow, Allocate(DueNow))
           /\ collected' = collected \cup {[key |-> round[w].key, day |-> today]}
  <2> DEFINE applied == Allocate(DueNow)
  <2>1. DueNow \in Nat /\ Fits(applied, DueNow)
    BY <1>1, AskedCovers, AllocateFits
  <2>2. \A k \in Due : Owed(applied[k]) = 0
    BY <1>1, CollectedIsPaid
  <2> HIDE DEF tried, applied
  <2>3. PostRepayment(tried, DueNow, applied)
    BY <1>5 DEF applied
  <2>4. /\ loan' \in LoanRow /\ taken' \in Nat /\ Books' /\ Schedule'
        /\ DOMAIN rows' = DOMAIN rows /\ AsAgreed
        /\ Due' \subseteq Due
    BY <1>1, <1>2, <2>1, <2>3, RepaymentKeeps
  <2>5. \A k \in DOMAIN rows : Sound(rows'[k]) /\ Owed(rows'[k]) = Owed(applied[k])
    BY <1>1, <2>1, <2>3, RowsRepaid
  <2>6. Due' = {}
    <3> SUFFICES ASSUME NEW k \in Due' PROVE FALSE
      OBVIOUS
    <3>1. k \in Due /\ k \in DOMAIN rows /\ ~rows'[k].paid
      BY <2>4 DEF Due, Unpaid
    <3>2. Sound(rows'[k]) /\ Owed(rows'[k]) = 0
      BY <2>2, <2>5, <3>1
    <3> QED
      BY <3>1, <3>2 DEF Sound
  <2>7. \A c \in collected : c.day \in 0 .. today /\ c.day # today
    BY <1>1 DEF LoansInv, NothingLeftToday
  <2>8. NothingLeftToday'
    <3>1. today \in 0 .. today
      BY <1>1
    <3> QED
      BY <1>5, <2>6, <2>7, <3>1 DEF NothingLeftToday
  <2>9. ToldToCollect
    <3> SUFFICES ASSUME NEW c \in collected', c \notin collected
                 PROVE  \A d \in collected : d.day # c.day
      BY <1>1 DEF ToldToCollect
    <3>1. c.day = today
      BY <1>5
    <3> QED
      BY <2>7, <3>1
  <2>10. FoundLate'
    BY <1>3, <2>4, LateStays
  <2>11. LoanTypes'
    BY <1>3, <2>4 DEF LoansInv, LoanTypes
  <2> QED
    BY <2>4, <2>8, <2>9, <2>10, <2>11 DEF StepIsFine, LoansInv
<1> QED
  BY <1>4, <1>5 DEF TakeWhatIsDue

LEMMA CollectKeeps ==
  ASSUME LoansInv, NEW w \in Runner, Collect(w)
  PROVE  StepIsFine
<1>1. Goto(w, "findFees") /\ UNCHANGED <<application, account, today>>
  BY DEF Collect
<1>2. CASE ToCollect /\ TakeWhatIsDue(w)
  BY <1>1, <1>2, CollectingKeeps
<1>3. CASE UNCHANGED <<loan, rows, taken, collected>>
  <2>1. round' \in [Runner -> RoundRow] /\ \A v \in Runner : round'[v].late = round[v].late
    BY <1>1, GotoKeeps
  <2>2. FoundLate'
    BY <1>1, <1>3, <2>1, LateStays
  <2> QED
    BY <1>1, <1>3, <2>1, <2>2, ReadingKeeps
<1> QED
  BY <1>2, <1>3 DEF Collect

(***************************************************************************)
(* The job: a late fee.                                                    *)
(***************************************************************************)

\* A row that a late fee is charged on.
ChargedRow(r) == [r EXCEPT !.fee = @ + LateFee, !.charged = TRUE]

LEMMA RowCharged ==
  ASSUME NEW r, Sound(r), ~r.charged, ~r.paid, NEW s, s = ChargedRow(r)
  PROVE  /\ Sound(s) /\ Owed(s) = Owed(r) + LateFee /\ PaidOn(s) = PaidOn(r)
         /\ s.principal = r.principal /\ s.interest = r.interest /\ s.waived = r.waived
         /\ ~s.paid
<1>1. r \in RepaymentRow /\ LateFee \in Nat /\ Owed(r) \in Nat /\ Owed(r) > 0
  BY FeeAssumption, OwedIsNat DEF Sound
<1>2. r.fee = 0
  BY DEF Sound
<1>3. r.fee + LateFee = LateFee
  BY <1>1, <1>2
<1>4. s = [r EXCEPT !.fee = LateFee, !.charged = TRUE]
  BY <1>3 DEF ChargedRow
<1>5. /\ s \in RepaymentRow /\ s.fee = LateFee /\ s.charged /\ s.paid = r.paid
      /\ s.principal = r.principal /\ s.interest = r.interest /\ s.waived = r.waived
      /\ s.feePaid = r.feePaid /\ s.interestPaid = r.interestPaid /\ s.principalPaid = r.principalPaid
  BY <1>1, <1>4 DEF RepaymentRow
<1>6. OwedFee(r) \in Nat /\ OwedInterest(r) \in Nat /\ OwedPrincipal(r) \in Nat
  BY OwedIsNat
<1>7. /\ OwedFee(s) = OwedFee(r) + LateFee /\ OwedInterest(s) = OwedInterest(r)
      /\ OwedPrincipal(s) = OwedPrincipal(r) /\ PaidOn(s) = PaidOn(r)
  <2>1. r.feePaid \in Nat
    BY <1>1 DEF RepaymentRow
  <2> QED
    BY <1>1, <1>2, <1>5, <2>1 DEF OwedFee, OwedInterest, OwedPrincipal, PaidOn
<1>8. Owed(s) = Owed(r) + LateFee
  BY <1>1, <1>6, <1>7 DEF Owed
<1>9. Sound(s)
  BY <1>1, <1>5, <1>6, <1>7, <1>8 DEF Sound
<1> QED
  BY <1>5, <1>7, <1>8, <1>9

LEMMA ChargingKeeps ==
  ASSUME LoansInv, NEW w \in Runner, NEW k \in DOMAIN rows, k \in round[w].late,
         ~rows[k].paid, ~rows[k].charged, Charge(k),
         UNCHANGED <<application, account, today, taken, collected>>,
         round' \in [Runner -> RoundRow], \A v \in Runner : round'[v].late \subseteq round[v].late
  PROVE  StepIsFine
<1> DEFINE r == rows[k]
           s == ChargedRow(r)
           owed == [j \in DOMAIN rows |-> Owed(rows[j])]
           then == [j \in DOMAIN rows' |-> Owed(rows'[j])]
<1>1. /\ Sound(r) /\ ~r.charged /\ ~r.paid /\ DueDay(k) + GraceDays < today
      /\ loan \in LoanRow /\ LateFee \in Nat /\ IsFiniteSet(DOMAIN rows)
  BY RowsAreSound, FeeAssumption DEF LoansInv, LoanTypes, FoundLate
<1>2. /\ Sound(s) /\ Owed(s) = Owed(r) + LateFee /\ PaidOn(s) = PaidOn(r)
      /\ s.principal = r.principal /\ s.interest = r.interest /\ s.waived = r.waived
      /\ ~s.paid
  BY <1>1, RowCharged
<1>3. rows' = [rows EXCEPT ![k] = s] /\ loan' = [loan EXCEPT !.balance = @ + LateFee]
  BY DEF Charge, ChargedRow
<1>4. /\ loan.status \notin {"none", "approved"} /\ loan.terms \in Offers
      /\ DOMAIN rows = 1 .. loan.terms.months
      /\ rows = [j \in DOMAIN rows |-> rows[j]]
      /\ SumFunctionOnSet([j \in DOMAIN rows |-> rows[j].principal], DOMAIN rows) = loan.terms.principal
      /\ application = "approved"
  <2>1. loan.status \notin {"none", "approved"}
    BY DEF LoansInv, Schedule
  <2> QED
    BY <2>1 DEF LoansInv, Schedule
<1> HIDE DEF s
<1>5. /\ DOMAIN rows' = DOMAIN rows /\ rows' = [j \in DOMAIN rows' |-> rows'[j]]
      /\ rows'[k] = s /\ \A j \in DOMAIN rows : j # k => rows'[j] = rows[j]
  BY <1>3, <1>4
<1>6. loan.balance = SumFunctionOnSet(owed, DOMAIN rows) /\ \A j \in DOMAIN rows : owed[j] \in Nat
  <2>1. \A j \in DOMAIN rows : owed[j] \in Nat
    BY RowsAreSound, OwedIsNat
  <2>2. loan.balance = SumFunctionOnSet(owed, DOMAIN rows)
    BY DEF LoansInv, Books, OwedOn
  <2> QED
    BY <2>1, <2>2
<1>7. then[k] = owed[k] + LateFee /\ \A j \in DOMAIN rows \ {k} : then[j] = owed[j]
  BY <1>2, <1>5
<1>8. OwedOn(DOMAIN rows)' = SumFunctionOnSet(then, DOMAIN rows)
  BY <1>5 DEF OwedOn
<1>9. owed[k] > 0
  BY <1>1, OwedIsNat
<1> HIDE DEF owed, then
<1>10. SumFunctionOnSet(then, DOMAIN rows) = loan.balance + LateFee
  <2>1. (\A j \in DOMAIN rows : owed[j] \in Int) /\ then[k] \in Int
    BY <1>1, <1>6, <1>7
  <2>2. SumFunctionOnSet(then, DOMAIN rows) = SumFunctionOnSet(owed, DOMAIN rows) + (then[k] - owed[k])
    BY <1>1, <1>7, <2>1, SumChanged
  <2>3. then[k] - owed[k] = LateFee
    BY <1>1, <1>6, <1>7
  <2> QED
    BY <1>6, <2>2, <2>3
<1>11. loan.balance \in Nat /\ loan.balance > 0
  <2>1. (\A j \in DOMAIN rows : owed[j] \in Nat) /\ {k} \in SUBSET DOMAIN rows
    BY <1>6
  <2>2. SumFunctionOnSet(owed, {k}) <= SumFunctionOnSet(owed, DOMAIN rows)
    BY <1>1, <2>1, SumOfPart
  <2>3. SumFunctionOnSet(owed, {k}) = owed[k] + SumFunctionOnSet(owed, {k} \ {k})
    <3>1. IsFiniteSet({k})
      BY <1>1, <2>1, FS_Subset
    <3>2. \A j \in {k} : owed[j] \in Int
      BY <1>6
    <3> QED
      BY <3>1, <3>2, SumWithout
  <2>4. SumFunctionOnSet(owed, {k} \ {k}) = 0
    <3>1. {k} \ {k} = {}
      OBVIOUS
    <3> QED
      BY <3>1, SumOfNone
  <2>5. loan.balance \in Nat
    BY <1>1 DEF LoanRow
  <2> QED
    BY <1>6, <1>9, <2>2, <2>3, <2>4, <2>5
<1>12. /\ loan' \in LoanRow /\ loan'.status = loan.status /\ loan'.terms = loan.terms
       /\ loan'.balance = loan.balance + LateFee
  BY <1>1, <1>3, <1>11 DEF LoanRow
<1>13. Books'
  <2>1. taken = SumFunctionOnSet([j \in DOMAIN rows |-> PaidOn(rows[j])], DOMAIN rows)
    BY DEF LoansInv, Books
  <2>2. [j \in DOMAIN rows' |-> PaidOn(rows'[j])] = [j \in DOMAIN rows |-> PaidOn(rows[j])]
    BY <1>2, <1>5
  <2>3. taken' = SumFunctionOnSet([j \in DOMAIN rows' |-> PaidOn(rows'[j])], DOMAIN rows')
    BY <1>5, <2>1, <2>2
  <2>4. loan'.balance = OwedOn(DOMAIN rows)'
    BY <1>8, <1>10, <1>12
  <2>5. loan.status # "repaid"
    BY <1>11 DEF LoansInv, Books
  <2> QED
    BY <1>1, <1>11, <1>12, <2>3, <2>4, <2>5 DEF Books
<1>14. Schedule'
  <2>1. [j \in DOMAIN rows' |-> rows'[j].principal] = [j \in DOMAIN rows |-> rows[j].principal]
    BY <1>2, <1>5
  <2>2. \A j \in DOMAIN rows' : Sound(rows'[j])
    BY <1>2, <1>5, RowsAreSound
  <2>3. SumFunctionOnSet([j \in DOMAIN rows' |-> rows'[j].principal], DOMAIN rows') = loan'.terms.principal
    BY <1>4, <1>5, <1>12, <2>1
  <2> QED
    BY <1>4, <1>5, <1>12, <2>2, <2>3 DEF Schedule
<1>15. AsAgreed
  BY <1>1, <1>2, <1>5 DEF AsAgreed
<1>16. FoundLate'
  BY <1>5, LateStays
<1>17. Due' \subseteq Due
  BY <1>1, <1>2, <1>5 DEF Due, Unpaid, DueDay
<1>18. NothingLeftToday' /\ ToldToCollect
  BY <1>17, CollectedStays
<1>19. LoanTypes'
  BY <1>12 DEF LoansInv, LoanTypes
<1> QED
  BY <1>13, <1>14, <1>15, <1>16, <1>18, <1>19 DEF StepIsFine, LoansInv

LEMMA ChargeLateFeeKeeps ==
  ASSUME LoansInv, NEW w \in Runner, NEW k \in DOMAIN rows, ChargeLateFee(w, k)
  PROVE  StepIsFine
<1> DEFINE late == round[w].late \ {k}
<1>1. /\ k \in round[w].late /\ UNCHANGED <<application, account, today, taken, collected>>
      /\ round' = [round EXCEPT ![w] = [round[w] EXCEPT !.late = late]]
  BY DEF ChargeLateFee
<1>2. round \in [Runner -> RoundRow] /\ round[w] \in RoundRow
  BY DEF LoansInv, LoanTypes
<1>3. late \in SUBSET Nat /\ late \subseteq round[w].late
  BY <1>2 DEF RoundRow
<1> DEFINE row == [round[w] EXCEPT !.late = late]
<1> HIDE DEF late
<1>4. row \in RoundRow /\ row.late = late
  BY <1>2, <1>3 DEF RoundRow
<1> HIDE DEF row
<1>5. round' \in [Runner -> RoundRow] /\ \A v \in Runner : round'[v].late \subseteq round[v].late
  <2>1. round' = [round EXCEPT ![w] = row]
    BY <1>1 DEF row
  <2> QED
    BY <1>2, <1>3, <1>4, <2>1
<1>6. CASE ~rows[k].paid /\ ~rows[k].charged /\ Charge(k)
  BY <1>1, <1>5, <1>6, ChargingKeeps
<1>7. CASE UNCHANGED <<rows, loan>>
  <2>1. FoundLate'
    BY <1>1, <1>5, <1>7, LateStays
  <2> QED
    BY <1>1, <1>5, <1>7, <2>1, ReadingKeeps
<1> QED
  BY <1>6, <1>7 DEF ChargeLateFee

(***************************************************************************)
(* Every step.                                                             *)
(***************************************************************************)

LEMMA LoansInvAtFirst ==
  ASSUME LoansInit
  PROVE  LoansInv
<1>1. /\ rows = <<>> /\ DOMAIN rows = {} /\ collected = {} /\ taken = 0 /\ today = 0
      /\ application = "none" /\ account = "active"
      /\ loan = [status |-> "none", balance |-> 0, autoDebit |-> FALSE, lastAttempt |-> None,
                 terms |-> None]
      /\ round = [w \in Runner |-> NotRunning]
  BY DEF LoansInit
<1>2. LoanTypes
  <2>1. loan \in LoanRow
    BY <1>1 DEF LoanRow
  <2>2. NotRunning \in RoundRow /\ 0 \in 0 .. MaxDay
    BY DaysAssumption DEF NotRunning, RoundRow
  <2> QED
    BY <1>1, <2>1, <2>2 DEF LoanTypes
<1>3. Schedule
  BY <1>1 DEF Schedule
<1>4. Books
  <2>1. OwedOn(DOMAIN rows) = 0
    BY <1>1, SumOfNone DEF OwedOn
  <2>2. SumFunctionOnSet([k \in DOMAIN rows |-> PaidOn(rows[k])], DOMAIN rows) = 0
    BY <1>1, SumOfNone
  <2> QED
    BY <1>1, <2>1, <2>2 DEF Books, Repayable
<1>5. FoundLate /\ NothingLeftToday
  BY <1>1 DEF FoundLate, NothingLeftToday, NotRunning
<1> QED
  BY <1>2, <1>3, <1>4, <1>5 DEF LoansInv

LEMMA StutteringIsFine ==
  ASSUME LoansInv, UNCHANGED loans
  PROVE  StepIsFine
<1>1. FoundLate' /\ LoanTypes'
  BY DEF loans, LoansInv, FoundLate, DueDay, LoanTypes
<1>2. round' \in [Runner -> RoundRow]
  BY <1>1 DEF LoanTypes
<1> QED
  BY <1>1, <1>2, ReadingKeeps DEF loans

\* Each step keeps the invariant, and changes the debt and takes money as agreed.
LEMMA LoansStep ==
  ASSUME LoansInv, [LoansNext]_loans
  PROVE  StepIsFine
<1>1. CASE Apply \/ Reject \/ CloseLoanAccount \/ \E on \in BOOLEAN : SetAutoDebit(on)
  BY <1>1, BorrowerKeeps
<1>2. CASE Disburse
  BY <1>2, DisburseKeeps
<1>3. CASE PayOff \/ \E amount \in 1 .. PayoffTotal : Repay(amount)
  BY <1>3, RepayKeeps
<1>4. CASE NextDay
  BY <1>4, NextDayKeeps
<1>5. CASE \E terms \in Offers : Approve(terms)
  BY <1>5, ApproveKeeps
<1>6. ASSUME NEW w \in Runner,
             \/ StartRun(w) \/ ReadKey(w) \/ Collect(w)
             \/ FindFees(w) \/ FindDefaults(w) \/ MarkDefault(w)
             \/ \E k \in DOMAIN rows : ChargeLateFee(w, k)
      PROVE  StepIsFine
  BY <1>6, ReadKeeps, CollectKeeps, FindFeesKeeps, MarkDefaultKeeps, ChargeLateFeeKeeps
<1>7. CASE UNCHANGED loans
  BY <1>7, StutteringIsFine
<1> QED
  BY <1>1, <1>2, <1>3, <1>4, <1>5, <1>6, <1>7 DEF LoansNext

\* The invariant holds of every state that can be reached.
THEOREM LoansInvCorrect == LoansSpec => []LoansInv
<1>1. LoansInit => LoansInv
  BY LoansInvAtFirst
<1>2. LoansInv /\ [LoansNext]_loans => LoansInv'
  BY LoansStep DEF StepIsFine
<1> QED
  BY <1>1, <1>2, PTL DEF LoansSpec

LEMMA LoansInvImplies ==
  ASSUME LoansInv
  PROVE  BalanceIsSchedule
<1>1. \A k \in DOMAIN rows : Sound(rows[k])
  BY RowsAreSound
<1>2. MoneyIsApplied
  BY AskedLeavesNothing DEF LoansInv, Books, MoneyIsApplied
<1>3. \A k \in DOMAIN rows :
        /\ rows[k] \in [principal: Nat, interest: Nat, principalPaid: Nat, interestPaid: Nat,
                        waived: Nat, fee: {0, LateFee}, feePaid: Nat,
                        charged: BOOLEAN, paid: BOOLEAN]
        /\ OwedFee(rows[k]) >= 0 /\ OwedInterest(rows[k]) >= 0 /\ OwedPrincipal(rows[k]) >= 0
  <2> SUFFICES ASSUME NEW k \in DOMAIN rows
               PROVE  rows[k] \in [principal: Nat, interest: Nat, principalPaid: Nat,
                                   interestPaid: Nat, waived: Nat, fee: {0, LateFee}, feePaid: Nat,
                                   charged: BOOLEAN, paid: BOOLEAN]
    BY <1>1 DEF Sound
  <2>1. rows[k] \in RepaymentRow /\ rows[k].fee \in {0, LateFee}
    BY <1>1 DEF Sound
  <2> QED
    BY <2>1 DEF RepaymentRow
<1>4. LoansTypeOK
  BY <1>3 DEF LoansTypeOK, LoansInv, LoanTypes, LoanRow
<1>5. rows # <<>> =>
        SumFunctionOnSet([k \in DOMAIN rows |-> rows[k].principal], DOMAIN rows) = loan.terms.principal
  BY DEF LoansInv, Schedule
<1>6. \A k \in DOMAIN rows : rows[k].paid <=> Owed(rows[k]) = 0
  BY <1>1 DEF Sound
<1>7. loan.status = "repaid" <=> rows # <<>> /\ loan.balance = 0
  <2>1. CASE loan.status \in {"none", "approved"}
    BY <2>1 DEF LoansInv, Schedule
  <2>2. CASE loan.status \in {"active", "defaulted"}
    <3>1. loan.balance > 0 /\ loan.balance \in Nat
      BY <2>2 DEF LoansInv, Books, Repayable, LoanTypes, LoanRow
    <3> QED
      BY <2>2, <3>1
  <2>3. CASE loan.status = "repaid"
    <3>1. loan.balance = 0 /\ DOMAIN rows = 1 .. loan.terms.months /\ loan.terms \in Offers
      BY <2>3 DEF LoansInv, Books, Schedule
    <3>2. 1 \in DOMAIN rows
      BY <3>1, OffersAssumption DEF Terms
    <3>3. rows # <<>>
      <4>1. DOMAIN <<>> = {}
        OBVIOUS
      <4> QED
        BY <3>2, <4>1
    <3> QED
      BY <2>3, <3>1, <3>3
  <2> QED
    BY <2>1, <2>2, <2>3 DEF LoansInv, LoanTypes, LoanRow
<1>8. loan.balance = OwedOn(DOMAIN rows)
  BY DEF LoansInv, Books
<1> QED
  BY <1>2, <1>4, <1>5, <1>6, <1>7, <1>8 DEF BalanceIsSchedule

\* BalanceIsSchedule: the balance of the loan is what its installments owe,
\* all that was taken was applied, and any amount a borrower or the job may
\* pay finds its place (postRepayment, allocate, allocatePayoff, buildSchedule).
THEOREM BalanceAlwaysMatches == LoansSpec => []BalanceIsSchedule
<1>1. LoansInv => BalanceIsSchedule
  BY LoansInvImplies
<1> QED
  BY <1>1, LoansInvCorrect, PTL

\* OwedAsAgreed: a late fee is charged once, on an installment that is late and
\* unpaid, and interest is waived for days to come only, whatever the runs of
\* the job had read (chargeLateFee, allocate, allocatePayoff).
THEOREM OwedChangesAsAgreed == LoansSpec => OwedAsAgreed
<1>1. LoansInv /\ [LoansNext]_loans => AsAgreed
  BY LoansStep DEF StepIsFine
<1> QED
  BY <1>1, LoansInvCorrect, PTL DEF LoansSpec, OwedAsAgreed, AsAgreed

\* CollectedAsAgreed: the job takes money once a day at most, and only while
\* something is due and the borrower has it switched on (collectLoan).
THEOREM CollectsAsAgreed == LoansSpec => CollectedAsAgreed
<1>1. LoansInv /\ [LoansNext]_loans => ToldToCollect
  BY LoansStep DEF StepIsFine
<1> QED
  BY <1>1, LoansInvCorrect, PTL DEF LoansSpec, CollectedAsAgreed, ToldToCollect

=============================================================================
