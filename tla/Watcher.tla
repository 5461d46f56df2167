------------------------------- MODULE Watcher -------------------------------
(***************************************************************************)
(* When the watcher wakes and which pollers it trusts                      *)
(* (crates/service/src/watch.rs), over the registry it writes.  Mount and  *)
(* Unmount end by naming their mount to the nudge and waking it (dbus.rs). *)
(*                                                                         *)
(* Time is the order of deadlines: a deadline may have passed at any wake. *)
(***************************************************************************)
EXTENDS Registry

VARIABLES pollers,   \* the poller of each name: none, of the rclone that serves it,
                     \* or of one a request has replaced since
          timed,     \* names with an entry in `due`
          sweepDue,  \* sweep_due: an interval or a gap after the last sweep
          cycled,    \* Nudge::cycled
          woken,     \* the permit of Nudge::woken
          acting,    \* names a Mount or Unmount has reached the supervisor for
          owed       \* a request has ended since the last sweep began

watcherVars == <<registryVars, pollers, timed, sweepDue, cycled, woken, acting, owed>>

(***************************************************************************)
(* Requests                                                                *)
(***************************************************************************)
Request(n) ==
    /\ n \notin acting
    /\ Known(n)
    /\ acting' = acting \cup {n}
    /\ UNCHANGED <<registryVars, pollers, timed, sweepDue, cycled, woken, owed>>

\* What the supervisor does for it replaces the rclone that serves n, if any.
Cycle(n) ==
    /\ n \in acting
    /\ pollers' = [pollers EXCEPT ![n] = IF @ = "none" THEN @ ELSE "replaced"]
    /\ WorldMoves(n)
    /\ UNCHANGED <<timed, sweepDue, cycled, woken, acting, owed>>

\* A remount as quick as the gap between two sweeps: no row tells of it.
Remount(n) ==
    /\ n \in acting
    /\ pollers[n] = "current"
    /\ pollers' = [pollers EXCEPT ![n] = "replaced"]
    /\ UNCHANGED <<registryVars, timed, sweepDue, cycled, woken, acting, owed>>

\* Nudge::acted_on: a tick between its two calls only takes the name early.
ActedOn(n) ==
    /\ n \in acting
    /\ acting' = acting \ {n}
    /\ cycled' = cycled \cup {n}
    /\ woken' = TRUE
    /\ owed' = TRUE
    /\ UNCHANGED <<registryVars, pollers, timed, sweepDue>>

\* touched_something is false: refused before any unit was touched.
Refused(n) ==
    /\ n \in acting
    /\ pollers[n] # "replaced"
    /\ acting' = acting \ {n}
    /\ UNCHANGED <<registryVars, pollers, timed, sweepDue, cycled, woken, owed>>

(***************************************************************************)
(* Ticks                                                                   *)
(***************************************************************************)
\* A mount that stopped serving keeps no poller and no deadline.
Retain(serving) ==
    /\ pollers' = [n \in Names |-> IF n \in serving THEN pollers[n] ELSE "none"]
    /\ timed' = timed \cap serving

\* The names poll_due asks: those with no deadline, and any whose deadline passed.
DueAmong(serving, due) == (serving \ timed) \subseteq due /\ due \subseteq serving

\* Mutant: the deadlines are dropped, and the pollers asked again.
DeadlinesForgotten == pollers

\* forget_cycled drops the pollers, not only the deadlines.
Forgotten == [n \in Names |-> IF n \in cycled THEN "none" ELSE pollers[n]]

\* The wait ends by the timer or by the nudge, and forget_cycled takes the whole set.
Wakes(nudged) ==
    /\ nudged => woken
    /\ woken' = (woken /\ ~nudged)
    /\ sweepDue' = IF nudged THEN "gap" ELSE sweepDue
    /\ cycled' = {}
    /\ UNCHANGED acting

TickSweep(nudged) ==
    /\ Wakes(nudged)
    /\ WakeToSweep
    /\ pollers' = Forgotten
    /\ timed' = timed \ cycled
    /\ owed' = FALSE

\* The sweep is not due yet: a nudge may come within the gap.
TickPoll(nudged) ==
    /\ Wakes(nudged)
    /\ \E due \in SUBSET Serving(rows) :
          /\ Serving(rows) \ (timed \ cycled) \subseteq due
          /\ nudged \/ due # {}
          /\ WakeToPoll(due)
    /\ pollers' = [n \in Names |-> IF n \in Serving(rows) THEN Forgotten[n] ELSE "none"]
    /\ timed' = (timed \ cycled) \cap Serving(rows)
    /\ UNCHANGED owed

\* Mutant: a sweep answers whatever woke the watcher while it ran.
SweepAnswersAll ==
    /\ \E due \in SUBSET Serving(world) : DueAmong(Serving(world), due) /\ Sweep(due)
    /\ Retain(Serving(world))
    /\ sweepDue' = "interval"
    /\ woken' = FALSE
    /\ UNCHANGED <<cycled, acting, owed>>

SweepEnds ==
    /\ \E due \in SUBSET Serving(world) : DueAmong(Serving(world), due) /\ Sweep(due)
    /\ Retain(Serving(world))
    /\ sweepDue' = "interval"
    /\ UNCHANGED <<cycled, woken, acting, owed>>

SweepGivesUp ==
    /\ \E due \in SUBSET Serving(rows) : DueAmong(Serving(rows), due) /\ SweepFails(due)
    /\ Retain(Serving(rows))
    /\ sweepDue' = "interval"
    /\ UNCHANGED <<cycled, woken, acting, owed>>

\* Connects a poller if the name has none; an old one is asked again.
PollOne(n) ==
    /\ Poll(n)
    /\ pollers' = [pollers EXCEPT ![n] = IF @ = "none" THEN "current" ELSE @]
    /\ timed' = timed \cup {n}
    /\ UNCHANGED <<sweepDue, cycled, woken, acting, owed>>

Publish ==
    /\ \E change \in news : Announce(change)
    /\ UNCHANGED <<pollers, timed, sweepDue, cycled, woken, acting, owed>>

Outside(n) ==
    /\ WorldMoves(n)
    /\ UNCHANGED <<pollers, timed, sweepDue, cycled, woken, acting, owed>>

WatcherInit ==
    /\ RegistryInit
    /\ pollers = [n \in Names |-> IF Pollable(rows[n]) THEN "current" ELSE "none"]
    /\ timed = Serving(rows)
    /\ sweepDue = "interval"
    /\ cycled = {}
    /\ woken = FALSE
    /\ acting = {}
    /\ owed = FALSE

WatcherNext ==
    \/ \E n \in Names :
          Request(n) \/ Cycle(n) \/ Remount(n) \/ ActedOn(n) \/ Refused(n)
              \/ PollOne(n) \/ Outside(n)
    \/ \E nudged \in BOOLEAN : TickSweep(nudged) \/ TickPoll(nudged)
    \/ SweepEnds \/ SweepGivesUp \/ Publish

\* A tick that has begun is carried out; the sweep's deadline passes and no nudge puts
\* it off; systemd does not refuse every sweep there will ever be.
WatcherFairness ==
    /\ \A n \in Names : WF_watcherVars(PollOne(n))
    /\ WF_watcherVars(Publish)
    /\ SF_watcherVars(\E nudged \in BOOLEAN : TickSweep(nudged))
    /\ WF_watcherVars(SweepEnds \/ SweepGivesUp)
    /\ SF_watcherVars(SweepEnds)

WatcherSpec == WatcherInit /\ [][WatcherNext]_watcherVars /\ WatcherFairness

(***************************************************************************)
(* What is promised                                                        *)
(***************************************************************************)
\* Types of the deadlines, of the pollers and of the nudge (watch.rs:68-84).
WatcherTypeOK ==
    /\ RegistryTypeOK
    /\ pollers \in [Names -> {"none", "current", "replaced"}]
    /\ timed \subseteq Names
    /\ sweepDue \in {"interval", "gap"}
    /\ {cycled, acting} \subseteq SUBSET Names
    /\ {woken, owed} \subseteq BOOLEAN

\* A poller whose rclone a request replaced is never taken for a good one: the request
\* is still under way, or its name waits to be forgotten by the next tick
\* (watch.rs:35-44, 73-76).  What a tick that was under way asked it is asked again.
ReplacedPollersAreNamed ==
    \A n \in Names : pollers[n] = "replaced" => n \in acting \cup cycled

\* A request that has ended is swept for within the gap: the watcher never settles
\* down to wait out the interval while a sweep is owed (watch.rs:21-33, 148-152).
NudgeIsHeeded ==
    phase = "asleep" /\ owed /\ ~woken => sweepDue = "gap"

\* The abstract tables this implements: of the rows, and of the readings.
RowsMirror == INSTANCE Mirror
    WITH Keys <- Names, Values <- States \cup {Absent}, table <- rows, copy <- told
FiguresMirror == INSTANCE Mirror
    WITH Keys <- Names, Values <- Figures \cup {Nothing}, table <- readings, copy <- heard

\* A client that folds every signal in is never given an entry the registry does not
\* hold as it is published, though a tick publishes one signal at a time and after its
\* polls, and what it lacks it is given in the end: "a client that asks and a client
\* that listens cannot be told different things" (dbus.rs:132-134).  The reason an empty
\* reading gives is not part of it: a row that goes on being down gives another one.
Mirrored == RowsMirror!MirrorSpec /\ FiguresMirror!MirrorSpec

\* What stays so in the world is in the end what every listener has been told
\* (watch.rs:1-2), through failed sweeps and nudges that coalesce.
ToldInTheEnd ==
    \A n \in Names : \A s \in Findable(n) :
        <>[](world[n] = s) => <>[](told[n] = s)
=============================================================================
