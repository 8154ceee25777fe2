-------------------------------- MODULE Alerts --------------------------------
(***************************************************************************)
(* One customer's alerts and the badge that counts the unread ones:        *)
(* services/notifications and realtime, realtime/websocketServer,          *)
(* controllers/notificationController.                                     *)
(*                                                                         *)
(* An alert is a row, written in the DB transaction of what it tells of.   *)
(* Events about it go out after the commit, over Redis or inside the       *)
(* process, to the sockets that are open then: each once, in any order,    *)
(* or not at all when the process dies or Redis is away.                   *)
(*                                                                         *)
(* A tab is what the code takes the browser's page for ("catches up by     *)
(* re-reading on reconnect"): it reads the list when its socket is ready   *)
(* and then follows the events.                                            *)
(***************************************************************************)
EXTENDS Naturals, FiniteSets

CONSTANTS
  Alert,      \* what a user is told of: one for each transaction and party
  Tab,        \* pages of the user that are open in browsers
  MaxSockets, \* MAX_SOCKETS_PER_USER
  MaxEvents   \* bound: events that are published

ASSUME SocketsAssumption == {MaxSockets, MaxEvents} \subseteq Nat

VARIABLES
  alert,    \* alert[n]: its row
  flying,   \* events that are published and not delivered
  raised,   \* events raised so far
  tab,      \* tab[b]: its socket
  badge,    \* badge[b]: the alerts tab b counts as unread
  gone,     \* history: gone[n]: the latest event about n that is not under way
  stale     \* history: stale[b]: alerts the last event about which was lost or
            \* came too late, since tab b read the list

bell == <<alert, flying, raised, tab, badge, gone, stale>>

\* Of one alert, or of all of them (notifications.read with all: true).
Event == [nr: 1 .. MaxEvents, type: {"created", "read"}, of: SUBSET Alert]

AlertsTypeOK ==
  /\ alert   \in [Alert -> {"none", "writing", "unread", "read"}]
  /\ raised  \in 0 .. MaxEvents
  /\ flying  \subseteq Event
  /\ tab     \in [Tab -> {"closed", "ready", "current"}]
  /\ badge   \in [Tab -> SUBSET Alert]
  /\ gone    \in [Alert -> 0 .. MaxEvents]
  /\ stale   \in [Tab -> SUBSET Alert]

AlertsInit ==
  /\ alert   = [n \in Alert |-> "none"]
  /\ flying  = {}
  /\ raised  = 0
  /\ tab     = [b \in Tab |-> "closed"]
  /\ badge   = [b \in Tab |-> {}]
  /\ gone    = [n \in Alert |-> 0]
  /\ stale   = [b \in Tab |-> {}]

Unread == {n \in Alert : alert[n] = "unread"}

\* publishToUser
Raise(type, of) ==
  /\ raised < MaxEvents
  /\ raised' = raised + 1
  /\ flying' = flying \cup {[nr |-> raised + 1, type |-> type, of |-> of]}

(***************************************************************************)
(* The rows.                                                               *)
(***************************************************************************)

\* recordMoneyNotifications or recordUserNotification, in the DB transaction
\* of what happened.
RecordAlert(n) ==
  /\ alert[n] = "none"
  /\ alert' = [alert EXCEPT ![n] = "writing"]
  /\ UNCHANGED <<flying, raised, tab, badge, gone, stale>>

\* Its COMMIT, and publishAfterCommit ...
CommitAlert(n) ==
  /\ alert[n] = "writing"
  /\ alert' = [alert EXCEPT ![n] = "unread"]
  /\ Raise("created", {n})
  /\ UNCHANGED <<tab, badge, gone, stale>>

\* ... or a ROLLBACK, which forgets what was to be published.
RollBackAlert(n) ==
  /\ alert[n] = "writing"
  /\ alert' = [alert EXCEPT ![n] = "none"]
  /\ UNCHANGED <<flying, raised, tab, badge, gone, stale>>

MarkRead_Silent(n) ==
  /\ alert[n] \in {"unread", "read"}
  /\ alert' = [alert EXCEPT ![n] = "read"]
  /\ UNCHANGED <<flying, raised, tab, badge, gone, stale>>

\* markNotificationRead; one that was read stays as it is and is told again.
MarkRead(n) ==
  /\ alert[n] \in {"unread", "read"}
  /\ alert' = [alert EXCEPT ![n] = "read"]
  /\ Raise("read", {n})
  /\ UNCHANGED <<tab, badge, gone, stale>>

\* markAllNotificationsRead
MarkAllRead ==
  /\ alert' = [n \in Alert |-> IF alert[n] = "unread" THEN "read" ELSE alert[n]]
  /\ Raise("read", Alert)
  /\ UNCHANGED <<tab, badge, gone, stale>>

(***************************************************************************)
(* The events and the sockets.                                             *)
(***************************************************************************)

\* The tabs that hear event e, and what it makes of their badges.
Listening == {b \in Tab : tab[b] # "closed"}
Heard(b, e) == IF e.type = "created" THEN badge[b] \cup e.of ELSE badge[b] \ e.of

\* What event e comes too late for: a later event about it has gone out.
Overtaken(e) == {n \in e.of : gone[n] > e.nr}

\* An event is delivered, or lost, and is the last that is known to have gone.
GoneOut(e) ==
  /\ flying' = flying \ {e}
  /\ gone' = [n \in Alert |-> IF n \in e.of \ Overtaken(e) THEN e.nr ELSE gone[n]]

Deliver(e) ==
  /\ GoneOut(e)
  /\ badge' = [b \in Tab |-> IF b \in Listening THEN Heard(b, e) ELSE badge[b]]
  /\ stale' = [b \in Tab |-> (stale[b] \ e.of) \cup Overtaken(e)]
  /\ UNCHANGED <<alert, raised, tab>>

\* The process dies before it publishes, or Redis is away and the socket is
\* at another process.
LoseEvent(e) ==
  /\ GoneOut(e)
  /\ stale' = [b \in Tab |-> stale[b] \cup e.of]
  /\ UNCHANGED <<alert, raised, tab, badge>>

\* A socket opens for a session that is not waiting for a code; one too many
\* is closed at once.
OpenSocket(b) ==
  /\ tab[b] = "closed"
  /\ Cardinality(Listening) < MaxSockets
  /\ tab' = [tab EXCEPT ![b] = "ready"]
  /\ UNCHANGED <<alert, flying, raised, badge, gone, stale>>

\* listNotifications, when the socket is ready.
ReadList(b) ==
  /\ tab[b] = "ready"
  /\ tab' = [tab EXCEPT ![b] = "current"]
  /\ badge' = [badge EXCEPT ![b] = Unread]
  /\ stale' = [stale EXCEPT ![b] = {}]
  /\ UNCHANGED <<alert, flying, raised, gone>>

\* The access token runs out, the heartbeat is not answered, or the page or
\* the server goes away.
CloseSocket(b) ==
  /\ tab[b] # "closed"
  /\ tab' = [tab EXCEPT ![b] = "closed"]
  /\ UNCHANGED <<alert, flying, raised, badge, gone, stale>>

AlertsNext ==
  \/ \E n \in Alert : RecordAlert(n) \/ CommitAlert(n) \/ RollBackAlert(n) \/ MarkRead(n)
  \/ MarkAllRead
  \/ \E e \in flying : Deliver(e) \/ LoseEvent(e)
  \/ \E b \in Tab : OpenSocket(b) \/ ReadList(b) \/ CloseSocket(b)

AlertsSpec == AlertsInit /\ [][AlertsNext]_bell

(***************************************************************************)
(* Properties.                                                             *)
(***************************************************************************)

\* "The source of truth is always the database" (realtime.js), and a page
\* "catches up by re-reading".  Nobody is told of an alert that was not
\* committed.  A tab that has read the list and keeps its socket counts an
\* alert as the row has it, once no event about it is under way, unless the
\* last event about it since the tab read the list was lost, or was delivered
\* after a later one.  Reading the list again puts any badge right, and so does
\* the next event that comes in its turn.
BadgeIsRight ==
  /\ AlertsTypeOK
  /\ \A b \in Tab : \A n \in badge[b] : alert[n] \in {"unread", "read"}
  /\ \A b \in Tab : tab[b] = "current" =>
       LET settled == {n \in Alert \ stale[b] : \A e \in flying : n \notin e.of} IN
       badge[b] \cap settled = Unread \cap settled

=============================================================================
