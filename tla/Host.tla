-------------------------------- MODULE Host --------------------------------
(***************************************************************************)
(* What the supervisor acts on and does not own: the systemd user manager, *)
(* the kernel's mount table, rclone, and the people using the machine.     *)
(* None of this is code of the repository.  It is modelled from how the    *)
(* supervisor asks for it (crates/service/src/systemd.rs, mountinfo.rs)    *)
(* and from the behaviour its comments say was measured.                   *)
(*                                                                         *)
(* A unit is named after a mount, so a unit is identified with that name.  *)
(* One mount point holds at most one mount: rclone refuses an occupied     *)
(* path.  Every mount of ours names the same remote, so whether mountinfo  *)
(* spells the source as the mount's own `remote:path` is one bit.          *)
(***************************************************************************)
EXTENDS Naturals, FiniteSets

CONSTANTS
  Names,     \* names a mount or a unit of ours can have
  Points,    \* mount points, resolved
  Foreign,   \* an rclone this service did not start
  Dead,      \* an rclone that exited without unmounting (ENOTCONN)
  NoOne,     \* nothing is mounted
  NoPoint,   \* the mount point of a unit systemd does not have
  Sources,   \* what mountinfo may show as a source: TRUE is the spec as written
  Happens    \* which outside events a run includes, see Events

ASSUME NamesAssumption == IsFiniteSet(Names) /\ Names # {}
ASSUME MarkersAssumption ==
  /\ Foreign \notin Names /\ Dead \notin Names /\ NoOne \notin Names
  /\ Foreign # Dead /\ Foreign # NoOne /\ Dead # NoOne
  /\ NoPoint \notin Points
ASSUME SourcesAssumption == Sources \subseteq BOOLEAN /\ TRUE \in Sources

VARIABLES
  units,   \* units[n]: where systemd is with the unit, and the point in its argv
  table    \* table[p]: who serves p, whether its source is as written, whether it is in use

hostVars == <<units, table>>

-----------------------------------------------------------------------------

\* `starting` and `up` are both systemd's "active": Type=exec says active when rclone is
\* exec'd, before it has mounted anything.  `activating` is the start-pre phase and the
\* gap before a restart.
Phases == {"inactive", "activating", "starting", "up", "stopping", "failed"}
Statuses == {"Inactive", "Activating", "Active", "Deactivating", "Failed"}

Unit  == [phase : Phases, argv : Points \cup {NoPoint}]
Entry == [by : Names \cup {Foreign, Dead, NoOne}, spec : BOOLEAN, held : BOOLEAN]

NoUnit == [phase |-> "inactive", argv |-> NoPoint]
Empty  == [by |-> NoOne, spec |-> TRUE, held |-> FALSE]

HostTypeOK ==
  /\ units \in [Names -> Unit]
  /\ table \in [Points -> Entry]

\* What is served and by whom: a live mount of ours by the unit whose argv names the point,
\* and only a loaded unit has an argv.
ServedByUnits ==
  /\ \A p \in Points : table[p].by \in Names =>
       /\ units[table[p].by].phase \in {"up", "stopping"}
       /\ units[table[p].by].argv = p
  /\ \A p \in Points : table[p].by = NoOne => table[p] = Empty
  /\ \A n \in Names : (units[n].phase = "inactive") <=> (units[n].argv = NoPoint)

\* The host states a service can find at its start.  Within the bounds of a run: its sources,
\* and a foreign mount or a held one only where the run lets one appear.
HostConsistent ==
  /\ ServedByUnits
  /\ \A p \in Points : /\ table[p].spec \in Sources
                       /\ table[p].by = Foreign => "foreign" \in Happens
                       /\ table[p].held => "held" \in Happens

-----------------------------------------------------------------------------
(* What the supervisor reads.                                              *)

\* `ActiveState` of a unit; NoSuchUnit reads as Inactive.
UnitStatus(n) ==
  CASE units[n].phase = "inactive"          -> "Inactive"
    [] units[n].phase = "activating"        -> "Activating"
    [] units[n].phase \in {"starting", "up"} -> "Active"
    [] units[n].phase = "stopping"          -> "Deactivating"
    [] OTHER                                -> "Failed"

\* Whether a unit in this state can be what is mounted at a point right now.
ServingStatus(s) == s \in {"Active", "Deactivating"}
IsServing(n) == ServingStatus(UnitStatus(n))

IsMountedAt(p) == table[p].by # NoOne
IsStale(p) == table[p].by = Dead

-----------------------------------------------------------------------------
(* What the supervisor does to the host.                                   *)

\* `fusermount3 -u`: the kernel refuses while anything holds the mount.
CanRelease(p) == IsMountedAt(p) /\ ~table[p].held
Unmounted(p) == [table EXCEPT ![p] = Empty]

\* StopUnit only enqueues a job.  A failed unit stays failed, and loaded.
Stopped(n) ==
  CASE units[n].phase = "activating"         -> [units EXCEPT ![n] = NoUnit]
    [] units[n].phase \in {"starting", "up"} -> [units EXCEPT ![n].phase = "stopping"]
    [] OTHER                                 -> units

\* `reset_failed`: what it can leave.  systemd forgets a failed unit; or it refuses or does not
\* answer, which is passed over like a unit that has nothing to reset.
ResetFailed(us, n) ==
  {us} \cup { [us EXCEPT ![m] = NoUnit] : m \in { m \in {n} : us[m].phase = "failed" } }

\* StartTransientUnit in mode "fail": refused while systemd still has the name.
CanStart(us, n) == us[n].phase = "inactive"
Started(us, n, p) == [us EXCEPT ![n] = [phase |-> "activating", argv |-> p]]
-----------------------------------------------------------------------------
(* What happens by itself.                                                 *)

\* systemd runs the start-pre hook, then execs rclone.  The hook clears a leftover mount at
\* the point its config file gives that mount, and only a stale one.  The file may have been
\* edited since the service read it, so the point is any.
ClearStale(p) == IF IsStale(p) /\ CanRelease(p) THEN Unmounted(p) ELSE table
Exec(n) ==
  /\ units[n].phase = "activating"
  /\ units' = [units EXCEPT ![n].phase = "starting"]
  /\ \E p \in Points : table' \in {table, ClearStale(p)}

\* rclone mounts, which it will not do over anything.
Serve(n) ==
  /\ units[n].phase = "starting"
  /\ ~IsMountedAt(units[n].argv)
  /\ \E s \in Sources :
       table' = [table EXCEPT ![units[n].argv] = [by |-> n, spec |-> s, held |-> FALSE]]
  /\ units' = [units EXCEPT ![n].phase = "up"]

\* Restart=on-failure, until the start limit is hit; a failed unit stays loaded.
Restarts(n) == \E ph \in {"activating", "failed"} : units' = [units EXCEPT ![n].phase = ph]

StartFails(n) ==
  /\ units[n].phase = "starting"
  /\ Restarts(n)
  /\ UNCHANGED table

\* A dead daemon leaves its mount behind; whoever holds a file there still does.
LeftBehind(n) == [p \in Points |-> IF table[p].by = n THEN [table[p] EXCEPT !.by = Dead]
                                                      ELSE table[p]]
Crash(n) ==
  /\ units[n].phase = "up"
  /\ \E p \in Points : table[p].by = n
  /\ Restarts(n)
  /\ table' = LeftBehind(n)

\* The FUSE connection is aborted under an rclone that keeps running.
Abort(n) ==
  /\ units[n].phase = "up"
  /\ \E p \in Points : table[p].by = n
  /\ table' = LeftBehind(n)
  /\ UNCHANGED units

\* Its mount released, rclone exits cleanly, and systemd forgets the unit.
ExitReleased(n) ==
  /\ units[n].phase = "up"
  /\ \A p \in Points : table[p].by # n
  /\ units' = [units EXCEPT ![n] = NoUnit]
  /\ UNCHANGED table

\* Signalled, rclone unmounts if the kernel lets it, and exits either way.
StopUnmounts(n) ==
  /\ units[n].phase = "stopping"
  /\ \E p \in Points : table[p].by = n /\ CanRelease(p) /\ table' = Unmounted(p)
  /\ UNCHANGED units

StopExits(n) ==
  /\ units[n].phase = "stopping"
  /\ \/ units' = [units EXCEPT ![n] = NoUnit]
     \/ units' = [units EXCEPT ![n].phase = "failed"]   \* non-zero exit, or SIGKILL
  /\ table' = LeftBehind(n)

\* `systemctl --user stop`, by hand.
StopByHand(n) ==
  /\ units[n].phase \in {"activating", "starting", "up"}
  /\ units' = Stopped(n)
  /\ UNCHANGED table

\* An rclone somebody else starts, and its end.
ForeignMounts(p) ==
  /\ ~IsMountedAt(p)
  /\ \E s \in Sources : table' = [table EXCEPT ![p] = [by |-> Foreign, spec |-> s, held |-> FALSE]]
  /\ UNCHANGED units

ForeignDies(p) ==
  /\ table[p].by = Foreign
  /\ table' = [table EXCEPT ![p].by = Dead]
  /\ UNCHANGED units

\* `fusermount3 -u` by hand, or an rclone that unmounts as it exits.
ReleasedByHand(p) ==
  /\ CanRelease(p)
  /\ table' = Unmounted(p)
  /\ UNCHANGED units

\* A process opens something on a serving mount, and lets go.
Hold(p) ==
  /\ IsMountedAt(p) /\ ~IsStale(p) /\ ~table[p].held
  /\ table' = [table EXCEPT ![p].held = TRUE]
  /\ UNCHANGED units

LetGo(p) ==
  /\ table[p].held
  /\ table' = [table EXCEPT ![p].held = FALSE]
  /\ UNCHANGED units

\* Happens bounds what a run lets the outside world do; every event is possible in reality.
Events == {"crash", "abort", "byhand", "foreign", "held"}
=============================================================================
