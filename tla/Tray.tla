-------------------------------- MODULE Tray --------------------------------
(***************************************************************************)
(* The tray's copy of what the service knows: the linker task of           *)
(* crates/tray/src/watch.rs, and the tables it edits in model.rs.  It      *)
(* subscribes, lists, asks for each reading, adopts that snapshot, and     *)
(* then folds the signals in, over any number of lives of the service.     *)
(*                                                                         *)
(* Each kind of signal is a stream of its own; select! takes from any that *)
(* has something.  The connections to the bus may fail at any time.        *)
(***************************************************************************)
EXTENDS Registry, Integers, Sequences

CONSTANTS MaxLag,     \* how many signals may wait before the service ticks again
          MaxEvents   \* and how many name events, that one included, once it has stopped

ASSUME LagAssumption == MaxLag \in Nat /\ MaxEvents \in Nat

VARIABLES owned,     \* the service is up and owns its name
          owners,    \* NameOwnerChanged events the tray has not read
          refresh,   \* the permit of `refresh`
          step,      \* where attach_and_serve is
          target,    \* the owner it talks to: none, the current one, or one that is gone
          streams,   \* the kinds of signal it has subscribed to
          queue,     \* signals received and not applied, by kind
          toRead,    \* names gather() has still to ask a reading for
          listed,    \* what gather() has: the rows
          asked,     \* and the readings
          missed,    \* history: names whose reading was passed over though there was one to
                     \* give, and of which no figure has been said since
          link,      \* TrayModel::link
          mounts,    \* TrayModel::mounts
          transfers  \* TrayModel::transfers

attachVars == <<step, target, streams, queue, toRead, listed, asked, missed>>

\* The ways an attempt can fail, and which of them the connections are rebuilt for.
L == INSTANCE Link

modelVars == <<link, mounts, transfers>>
trayVars == <<registryVars, owned, owners, refresh, attachVars, modelVars>>

Kinds == {"mount", "removed", "transfer"}

\* Link, its reasons for being down left out.
Links == {"connecting", "down", "up"}
NoFigures == [n \in Names |-> Nothing]
Empty == [k \in Kinds |-> <<>>]

Lag == Len(queue["mount"]) + Len(queue["removed"]) + Len(queue["transfer"])

(***************************************************************************)
(* The service, and what it sends                                          *)
(***************************************************************************)
Tick ==
    /\ owned
    /\ \/ Lag < MaxLag /\ WakeToSweep
       \/ Lag < MaxLag /\ \E due \in SUBSET Serving(rows) : due # {} /\ WakeToPoll(due)
       \/ \E due \in SUBSET Serving(world) : Sweep(due)
       \/ \E n \in Names : Poll(n)
    /\ UNCHANGED <<owned, owners, refresh, attachVars, modelVars>>

\* Mutant: signals are taken from the snapshot on, not from before it.
EmitOnceServed ==
    /\ owned
    /\ \E change \in news :
          /\ Announce(change)
          /\ queue' = IF target = "current" /\ step = "serve"
                      THEN [queue EXCEPT ![change.kind] = Append(@, change)]
                      ELSE queue
    /\ UNCHANGED <<owned, owners, refresh, step, target, streams, toRead, listed, asked, missed,
                   modelVars>>

\* A signal of the owner the tray has subscribed to waits in its stream.
Emit ==
    /\ owned
    /\ \E change \in news :
          /\ Announce(change)
          /\ queue' = IF target = "current" /\ change.kind \in streams
                      THEN [queue EXCEPT ![change.kind] = Append(@, change)]
                      ELSE queue
    /\ UNCHANGED <<owned, owners, refresh, step, target, streams, toRead, listed, asked, missed,
                   modelVars>>

\* Only a sweep looks: whatever has changed since the last one changes before the next.
Move ==
    /\ phase = "sweep" \/ ~owned
    /\ \E n \in Names : WorldMoves(n)
    /\ UNCHANGED <<owned, owners, refresh, attachVars, modelVars>>

\* The name events a tray that is connected has to read.
Heard(events) == IF step = "bus" THEN events ELSE events + 1

\* The process ends anywhere in its loop; what it had not published is lost.
ServiceStops ==
    /\ owned
    /\ owners < MaxEvents
    /\ owned' = FALSE
    /\ owners' = Heard(owners)
    /\ target' = IF target = "current" THEN "gone" ELSE target
    /\ phase' = "asleep"
    /\ toPoll' = {}
    /\ news' = {}
    /\ UNCHANGED <<world, rows, readings, told, heard, refresh, step, streams, queue,
                   toRead, listed, asked, missed,
                   modelVars>>

\* A new registry: swept and polled once before the name is taken.
ServiceStarts ==
    /\ ~owned
    /\ owners <= MaxEvents
    /\ owned' = TRUE
    /\ owners' = Heard(owners)
    /\ rows' \in {world, NoRows}
    /\ readings' \in [Names -> Figures \cup {Nothing}]
    /\ FirstTick(rows', readings')
    /\ told' = rows'
    /\ heard' = readings'
    /\ UNCHANGED <<world, phase, toPoll, news, refresh, attachVars, modelVars>>

(***************************************************************************)
(* The linker                                                              *)
(***************************************************************************)
\* go_down and go_connecting: whatever ends a session takes the rows with it.
Forget(state) ==
    /\ link' = state
    /\ mounts' = NoRows
    /\ transfers' = NoFigures

\* The streams go out of scope with the attempt.
Detach(next) ==
    /\ step' = next
    /\ target' = "none"
    /\ streams' = {}
    /\ queue' = Empty
    /\ toRead' = {}
    /\ listed' = NoRows
    /\ asked' = NoFigures
    /\ missed' = {}

\* Mutant: an absent service changes nothing that is shown.
AskOwnerQuietly ==
    /\ step = "ask"
    /\ IF owned
       THEN /\ step' = "subscribe"
            /\ target' = "current"
            /\ UNCHANGED <<streams, queue, toRead, listed, asked, missed,
                   modelVars>>
       ELSE Detach("unowned") /\ UNCHANGED modelVars
    /\ UNCHANGED <<registryVars, owned, owners, refresh>>

\* GetNameOwner, answered by the bus daemon.
AskOwner ==
    /\ step = "ask"
    /\ IF owned
       THEN /\ step' = "subscribe"
            /\ target' = "current"
            /\ UNCHANGED <<streams, queue, toRead, listed, asked, missed,
                   modelVars>>
       ELSE Detach("unowned") /\ Forget("down")
    /\ UNCHANGED <<registryVars, owned, owners, refresh>>

\* Nobody owns the name: the next attempt waits for the name or for the user; after a
\* failed attempt it waits for a while as well.
WakesUp ==
    /\ step \in {"unowned", "backoff"}
    /\ \/ /\ owners > 0
          /\ owners' = owners - 1
          /\ UNCHANGED refresh
       \/ /\ refresh
          /\ refresh' = FALSE
          /\ UNCHANGED owners
       \/ /\ step = "backoff"
          /\ UNCHANGED <<owners, refresh>>
    /\ step' = "ask"
    /\ UNCHANGED <<registryVars, owned, target, streams, queue, toRead, listed, asked, missed,
                   modelVars>>

\* Calls are addressed to one owner, so that none of them starts another.
Reached == target = "current"

\* open_owner twice, then one match rule after the other: what is sent before its kind
\* has a rule is not received.
Subscribe ==
    /\ step = "subscribe"
    /\ Reached
    /\ LET next == IF streams = {} THEN "mount"
                   ELSE IF streams = {"mount"} THEN "removed" ELSE "transfer"
       IN  /\ streams' = streams \cup {next}
           /\ step' = IF next = "transfer" THEN "list" ELSE step
    /\ UNCHANGED <<registryVars, owned, owners, refresh, target, queue, toRead, listed,
                   asked, missed, modelVars>>

\* Where something is asked of the owner, and may be answered with an error.
Asking == {"subscribe", "list", "read", "relist", "reread", "describe"}

\* What such a question may end with, running out of the ten seconds it is given included.
Attaching == L!AttachErrors \cup {"Refused"}

\* Mutant: after a failed attempt only a new owner is waited for.
GivesUpForGood ==
    /\ step \in Asking
    /\ Detach("unowned")
    /\ Forget("down")
    /\ UNCHANGED <<registryVars, owned, owners, refresh>>

\* Whatever was not read off a connection that is given up is not heard of again.
Disconnect ==
    /\ Detach("bus")
    /\ Forget("down")
    /\ owners' = 0
    /\ UNCHANGED <<registryVars, owned, refresh>>

\* give_up: the owner is gone, refuses, is silent too long, or cannot be reached at all,
\* for which both connections are made anew.
GivesUp ==
    /\ step \in Asking
    /\ \E error \in Attaching :
          IF L!Broken(error) THEN Disconnect
          ELSE /\ Detach("backoff")
               /\ Forget("down")
               /\ UNCHANGED <<registryVars, owned, owners, refresh>>

\* bus_lost: a stream that ends, or a bus daemon that cannot be asked.
BusLost ==
    /\ step \in {"ask", "unowned", "backoff", "serve"}
    /\ Disconnect

\* Without a bus there is only time, and the user.
NoBus ==
    /\ step = "bus"
    /\ Forget("down")
    /\ UNCHANGED <<registryVars, owned, owners, refresh, attachVars>>

\* Two connections, and the subscription to who owns the name, before the first question.
Connects ==
    /\ step = "bus"
    /\ step' = "ask"
    /\ refresh' \in {refresh, FALSE}
    /\ UNCHANGED <<registryVars, owned, owners, target, streams, queue, toRead, listed,
                   asked, missed, modelVars>>

\* Something the service says of itself has changed, and all of that is read again;
\* restate leaves the rows alone.
PropertyChanged ==
    /\ step = "serve"
    /\ Reached
    /\ step' = "describe"
    /\ UNCHANGED <<registryVars, owned, owners, refresh, target, streams, queue, toRead,
                   listed, asked, missed, modelVars>>

Restate ==
    /\ step = "describe"
    /\ Reached
    /\ step' = "serve"
    /\ UNCHANGED <<registryVars, owned, owners, refresh, target, streams, queue, toRead,
                   listed, asked, missed, modelVars>>

List ==
    /\ step \in {"list", "relist"}
    /\ Reached
    /\ listed' = ListMounts
    /\ asked' = NoFigures
    /\ missed' = {}
    /\ toRead' = {n \in Names : ListMounts[n] # Absent}
    /\ step' = IF step = "list" THEN "read" ELSE "reread"
    /\ UNCHANGED <<registryVars, owned, owners, refresh, target, streams, queue, modelVars>>

\* A reading is refused where the mount is no longer known or was never ours, and fails where
\* the owner is gone.
Read(n) ==
    /\ step \in {"read", "reread"}
    /\ n \in toRead
    /\ toRead' = toRead \ {n}
    /\ asked' = IF Reached /\ Known(n)
                THEN [asked EXCEPT ![n] = GetTransferState(n)] ELSE asked
    /\ UNCHANGED <<registryVars, owned, owners, refresh, step, target, streams, queue,
                   listed, missed, modelVars>>

\* Any other error is passed over as those are, and the snapshot goes without the figure.
PassOver(n) ==
    /\ step \in {"read", "reread"}
    /\ Reached
    /\ n \in toRead
    /\ toRead' = toRead \ {n}
    /\ missed' = missed \cup {k \in {n} : GetTransferState(k) # Nothing}
    /\ UNCHANGED <<registryVars, owned, owners, refresh, step, target, streams, queue,
                   listed, asked, modelVars>>

\* Mutant: name events from before the snapshot are thrown away as old news.
AdoptAfresh ==
    /\ step \in {"read", "reread"}
    /\ toRead = {}
    /\ link' = "up"
    /\ mounts' = listed
    /\ transfers' = asked
    /\ step' = "serve"
    /\ listed' = NoRows
    /\ asked' = NoFigures
    /\ owners' = 0
    /\ UNCHANGED <<registryVars, owned, refresh, target, streams, queue, toRead, missed>>

\* go_up and resync replace both tables by the snapshot.
Adopt ==
    /\ step \in {"read", "reread"}
    /\ toRead = {}
    /\ link' = "up"
    /\ mounts' = listed
    /\ transfers' = asked
    /\ step' = "serve"
    /\ listed' = NoRows
    /\ asked' = NoFigures
    /\ UNCHANGED <<registryVars, owned, owners, refresh, target, streams, queue, toRead, missed>>

\* upsert_mount, remove_mount and upsert_transfer.
Receive(kind) ==
    /\ step = "serve"
    /\ queue[kind] # <<>>
    /\ LET change == Head(queue[kind])
       IN  /\ mounts' = Apply(change, mounts)
           /\ transfers' = ApplyReading(change, transfers)
           /\ missed' = IF change.kind = "mount" THEN missed ELSE missed \ {change.name}
    /\ queue' = [queue EXCEPT ![kind] = Tail(@)]
    /\ UNCHANGED <<registryVars, owned, owners, refresh, step, target, streams, toRead,
                   listed, asked, link>>

\* The name was dropped or handed over: this session is done, and so are its rows.
OwnerChanged ==
    /\ step = "serve"
    /\ owners > 0
    /\ owners' = owners - 1
    /\ Detach("ask")
    /\ Forget("connecting")
    /\ UNCHANGED <<registryVars, owned, refresh>>

\* Action::Refresh, and the arm that takes it: reading again through the open proxy.
AsksRefresh ==
    /\ ~refresh
    /\ refresh' = TRUE
    /\ UNCHANGED <<registryVars, owned, owners, attachVars, modelVars>>

Refresh ==
    /\ step = "serve"
    /\ refresh
    /\ refresh' = FALSE
    /\ step' = "relist"
    /\ UNCHANGED <<registryVars, owned, owners, target, streams, queue, toRead, listed,
                   asked, missed, modelVars>>

TrayInit ==
    /\ RegistryInit
    /\ owned \in BOOLEAN
    /\ owners = 0
    /\ refresh = FALSE
    /\ step = "bus"
    /\ target = "none"
    /\ streams = {}
    /\ queue = Empty
    /\ toRead = {}
    /\ listed = NoRows
    /\ asked = NoFigures
    /\ missed = {}
    /\ link = "connecting"
    /\ mounts = NoRows
    /\ transfers = NoFigures

Linker ==
    \/ Connects \/ AskOwner \/ WakesUp \/ Subscribe \/ GivesUp \/ List \/ Adopt
    \/ OwnerChanged \/ Refresh \/ Restate
    \/ \E n \in Names : Read(n) \/ PassOver(n)
    \/ \E kind \in Kinds : Receive(kind)

TrayNext ==
    \/ Tick \/ Emit \/ Move \/ ServiceStops \/ ServiceStarts
    \/ Linker \/ AsksRefresh \/ BusLost \/ NoBus \/ PropertyChanged

\* The linker's loop runs, and there is a session bus in the end; of two things it could
\* take it may always take the other.
TraySpec == TrayInit /\ [][TrayNext]_trayVars /\ WF_trayVars(Linker)

(***************************************************************************)
(* What is promised                                                        *)
(***************************************************************************)
\* Everything said has been heard and applied.
Quiet ==
    /\ step = "serve"
    /\ target = "current"
    /\ phase = "asleep"
    /\ \A k \in Kinds : queue[k] = <<>>

\* "Subscribe, then list, then apply what arrived in between" (core ipc.rs:15-19) leaves
\* no configured mount drawn in a state the service does not report, wherever its
\* changes fell between the subscriptions, the list, the readings and a refresh.
ConfiguredRowsSettle ==
    Quiet => \A n \in Configured : mounts[n] = rows[n]

\* Nor any figure, though a reading is asked for apart from the list and a figure that
\* was dropped must be forgotten (registry.rs:43-47, tray watch.rs:446-459).  Where the
\* reading failed the figure is missing until the next is said, and never another's
\* or an old one.
FiguresSettle ==
    Quiet => \A n \in Names : \/ transfers[n] = readings[n]
                              \/ n \in missed /\ transfers[n] = Nothing

\* The same of every row, those that come and go included: what ipc.rs:18-20 says of
\* applying the snapshot before the signals buffered since.
EveryRowSettles ==
    Quiet => \A n \in Names : mounts[n] = rows[n]

\* Rows of a life of the service that is over are shown only until the tray reads the
\* event that says so, and that event is always there to read (tray watch.rs:15-16).
OldRowsAreDoomed ==
    link = "up" /\ target # "current" => owners > 0

\* A service that stays up, and in the end answers within the tray's patience, is
\* attached to again and again, however the tray missed or misread its comings and
\* goings and whatever connections it lost before (tray watch.rs:1-7).
AttachesInTheEnd ==
    /\ <>[]owned
    /\ <>[][~BusLost /\ (GivesUp => target # "current")]_trayVars
    => []<>(link = "up")

\* And one that stays away is in the end reported as such, for good.
SaysItIsDown == <>[](~owned) => <>[](link = "down")
=============================================================================
