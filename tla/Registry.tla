------------------------------ MODULE Registry ------------------------------
(***************************************************************************)
(* What the service believes about its mounts and what a client has not    *)
(* been told yet (crates/service/src/registry.rs), with the one task that  *)
(* writes it: a tick of the watcher sweeps, polls what is due, and then    *)
(* publishes what changed, one signal at a time.  Clients may ask between  *)
(* any two of those steps.                                                 *)
(*                                                                         *)
(* A row is its state.  A reading is a figure, which any poll that ends    *)
(* gives, or Nothing: none is kept, and who asks is answered with an empty *)
(* one, whatever its reason says.  No two changes of a tick                *)
(* touch one entry of a client's tables (ListenerSeesRows says so), so the *)
(* order they are published in tells nothing apart: news is a set.         *)
(***************************************************************************)

CONSTANTS Configured,  \* names of the configuration: a sweep always lists them
          Orphans,     \* names of units no configuration describes any more
          Strangers,   \* mount points of rclones somebody else started
          Downs,       \* states of a configured mount that is not ours and up
          Figures      \* what a poll can say that differs

Names == Configured \cup Orphans \cup Strangers

Absent == "absent"
Nothing == "nothing"

States == {"mounted", "orphaned", "foreign"} \cup Downs

\* What reconcile() can find under a name: a row for every configured one.
Findable(n) ==
    IF n \in Configured THEN {"mounted"} \cup Downs
    ELSE {IF n \in Orphans THEN "orphaned" ELSE "foreign", Absent}

NoRows == [n \in Names |-> Absent]

\* Tables of rows; a first sweep that failed leaves no row at all.
Tables == {t \in [Names -> States \cup {Absent}] :
              \A n \in Names : t[n] \in Findable(n) \cup {Absent}}

RegistryAssumption ==
    /\ Configured \cap Orphans = {}
    /\ Configured \cap Strangers = {}
    /\ Orphans \cap Strangers = {}
    /\ "mounted" \notin Downs
    /\ Absent \notin Downs
    /\ Nothing \notin Figures

ASSUME RegistryAssumption

VARIABLES world,     \* what a sweep would find now
          rows,      \* Registry::mounts
          readings,  \* Registry::transfers
          phase,     \* where the watcher is in its loop
          toPoll,    \* names poll_due has still to ask
          news,      \* the changes of this tick not yet published
          told,      \* rows of a client that has heard every signal
          heard      \* and its readings

registryVars == <<world, rows, readings, phase, toPoll, news, told, heard>>

MountChange(n, state) == [kind |-> "mount", name |-> n, value |-> state]
Removed(n) == [kind |-> "removed", name |-> n, value |-> Absent]
Transfer(n, figure) == [kind |-> "transfer", name |-> n, value |-> figure]

Changes ==
    [kind : {"mount"}, name : Names, value : States]
        \cup [kind : {"removed"}, name : Names, value : {Absent}]
        \cup [kind : {"transfer"}, name : Names, value : Figures \cup {Nothing}]

Pollable(state) == state = "mounted"

Serving(table) == {n \in Names : Pollable(table[n])}

\* Mutants: a figure is dropped and not published as dropped; only going up or down is
\* a change of state.
DroppedSilently(found) == {}

ChangedIfServing(found) ==
    {MountChange(n, found[n]) :
        n \in {k \in Names : found[k] # Absent /\ Pollable(rows[k]) # Pollable(found[k])}}

\* The changes a whole sweep makes: a figure dropped, a row that is new or other, a
\* row that is gone with its figure.
Dropped(found) ==
    {Transfer(n, Nothing) :
        n \in {k \in Names : found[k] # Absent /\ ~Pollable(found[k]) /\ readings[k] # Nothing}}

Changed(found) ==
    {MountChange(n, found[n]) : n \in {k \in Names : found[k] # Absent /\ rows[k] # found[k]}}

Gone(found) == {Removed(n) : n \in {k \in Names : found[k] = Absent /\ rows[k] # Absent}}

\* Mutant: a figure is kept for as long as its row is listed.
ObserveMountsKeeping(found) ==
    /\ rows' = found
    /\ readings' = [n \in Names |-> IF found[n] # Absent THEN readings[n] ELSE Nothing]
    /\ news' = news \cup Dropped(found) \cup Changed(found) \cup Gone(found)

ObserveMounts(found) ==
    /\ rows' = found
    /\ readings' = [n \in Names |-> IF Pollable(found[n]) THEN readings[n] ELSE Nothing]
    /\ news' = news \cup Dropped(found) \cup Changed(found) \cup Gone(found)

ObserveTransfer(n, figure) ==
    /\ readings' = [readings EXCEPT ![n] = figure]
    /\ news' = IF readings[n] = figure THEN news ELSE news \cup {Transfer(n, figure)}
    /\ UNCHANGED rows

\* What a client's fold of the signals does with one change.
Apply(change, table) ==
    IF change.kind = "transfer" THEN table
    ELSE [table EXCEPT ![change.name] = change.value]

ApplyReading(change, table) ==
    IF change.kind = "mount" THEN table
    ELSE [table EXCEPT ![change.name] =
              IF change.kind = "removed" THEN Nothing ELSE change.value]

\* MountManager::must_know: configured, or listed and started by us.
Known(n) == n \in Configured \/ (rows[n] # Absent /\ n \in Orphans)

\* What ListMounts answers, and GetTransferState for a name that is known: what is kept,
\* or the empty answer that is published when a figure is dropped.
ListMounts == rows
GetTransferState(n) == readings[n]

(***************************************************************************)
(* The steps of the loop                                                   *)
(***************************************************************************)
\* What follows once the sweep, if any, is done: poll_due asks `due`, and with
\* nobody to ask and nothing to publish the watcher sleeps again.
Proceed(due, changes) ==
    /\ toPoll' = due
    /\ phase' = IF due # {} THEN "poll" ELSE IF changes # {} THEN "publish" ELSE "asleep"

WorldMoves(n) ==
    /\ \E s \in Findable(n) \ {world[n]} : world' = [world EXCEPT ![n] = s]
    /\ UNCHANGED <<rows, readings, phase, toPoll, news, told, heard>>

\* A tick that has a sweep due.
WakeToSweep ==
    /\ phase = "asleep"
    /\ phase' = "sweep"
    /\ UNCHANGED <<world, rows, readings, toPoll, news, told, heard>>

\* A tick that only polls: pollable() is what the last sweep left.
WakeToPoll(due) ==
    /\ phase = "asleep"
    /\ due \subseteq Serving(rows)
    /\ Proceed(due, news)
    /\ UNCHANGED <<world, rows, readings, news, told, heard>>

Sweep(due) ==
    /\ phase = "sweep"
    /\ ObserveMounts(world)
    /\ due \subseteq Serving(world)
    /\ Proceed(due, news')
    /\ UNCHANGED <<world, told, heard>>

\* reconcile() failed: what is known is kept, and polling goes on with it.
SweepFails(due) ==
    /\ phase = "sweep"
    /\ due \subseteq Serving(rows)
    /\ Proceed(due, news)
    /\ UNCHANGED <<world, rows, readings, news, told, heard>>

Poll(n) ==
    /\ phase = "poll"
    /\ n \in toPoll
    /\ \E f \in Figures : ObserveTransfer(n, f)
    /\ Proceed(toPoll \ {n}, news')
    /\ UNCHANGED <<world, told, heard>>

\* Mutant: one change is published, and the tick's others are dropped with it.
AnnounceOnce(change) ==
    /\ phase = "publish"
    /\ change \in news
    /\ told' = Apply(change, told)
    /\ heard' = ApplyReading(change, heard)
    /\ news' = {}
    /\ Proceed({}, news')
    /\ UNCHANGED <<world, rows, readings>>

Announce(change) ==
    /\ phase = "publish"
    /\ change \in news
    /\ told' = Apply(change, told)
    /\ heard' = ApplyReading(change, heard)
    /\ news' = news \ {change}
    /\ Proceed({}, news')
    /\ UNCHANGED <<world, rows, readings>>

\* main() ticks once before it takes the bus name, and drops those changes.
FirstTick(table, figures) ==
    /\ table \in {world, NoRows}
    /\ figures \in [Names -> Figures \cup {Nothing}]
    /\ \A n \in Names : figures[n] = Nothing <=> ~Pollable(table[n])

RegistryInit ==
    /\ world \in {t \in Tables : \A n \in Names : t[n] \in Findable(n)}
    /\ rows \in {world, NoRows}
    /\ readings \in [Names -> Figures \cup {Nothing}]
    /\ FirstTick(rows, readings)
    /\ phase = "asleep"
    /\ toPoll = {}
    /\ news = {}
    /\ told = rows
    /\ heard = readings

(***************************************************************************)
(* What is promised                                                        *)
(***************************************************************************)
\* Types of the registry, of the watcher's place in its loop and of a listener's
\* copy (registry.rs:28-37).
RegistryTypeOK ==
    /\ {world, rows, told} \subseteq Tables
    /\ {readings, heard} \subseteq [Names -> Figures \cup {Nothing}]
    /\ phase \in {"asleep", "sweep", "poll", "publish"}
    /\ toPoll \subseteq Names
    /\ news \subseteq Changes

\* Who asks and who listens are told the same: a client that has heard every signal
\* holds the rows ListMounts answers with, or is owed one change that gives it the row
\* (registry.rs:46-47).
ListenerSeesRows ==
    \A n \in Names :
        LET owed == {c \in news : c.name = n /\ c.kind # "transfer"}
        IN  \/ owed = {} /\ told[n] = rows[n]
            \/ \E c \in owed : owed = {c} /\ c.value = rows[n]

\* And the figure GetTransferState answers with: one that was dropped is one the client
\* is told to forget, so that "a client that asks and a client that listens cannot be
\* told different things" (dbus.rs:132-134).
ListenerSeesFigures ==
    \A n \in Names :
        LET owed == {c \in news : c.name = n /\ c.kind # "mount"}
        IN  \/ owed = {} /\ heard[n] = readings[n]
            \/ \E c \in owed : owed = {c} /\ ApplyReading(c, heard)[n] = readings[n]

\* Both: exactly what a listener lacks is still to be published.
ListenerIsOwed == ListenerSeesRows /\ ListenerSeesFigures

\* No figure is served for a mount the service does not believe to be up: "the last
\* figures before an unmount describe a mount that is no longer there"
\* (registry.rs:43-47).  It holds through a poll that was in flight as well.
NoFigureOnceDown ==
    \A n \in Names : readings[n] # Nothing => Pollable(rows[n])
=============================================================================
