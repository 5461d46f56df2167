----------------------------- MODULE Supervisor -----------------------------
(***************************************************************************)
(* SystemdSupervisor: mount, unmount, state and reconcile, as the service  *)
(* runs them for its clients over one lifetime of the service process.     *)
(*                                                                         *)
(* Each client has at most one request in flight.  A request is a sequence *)
(* of steps, one for each point at which the code awaits systemd, the      *)
(* kernel or a lock; between two steps anything may happen to the host,    *)
(* and any other request may run.  A restart of the service, with an       *)
(* edited config or not, is a new behaviour: Init allows every host state  *)
(* an earlier lifetime can have left.                                      *)
(*                                                                         *)
(* Deadlines (READY_TIMEOUT, gone_timeout, unit_gone_timeout,              *)
(* REDIRECT_LOCK_WAIT) are not timed: a wait may give up whenever what it  *)
(* waits for is not there.                                                 *)
(***************************************************************************)
EXTENDS Host

CONSTANTS
  Clients,     \* requests that can be in flight at once
  Locks,       \* identities of per-mount mutexes
  Configs,     \* what the config file may say: functions from names to points
  Unreadables, \* which units' argv a sweep may fail to read
  Asks,        \* the requests a run's clients make
  None         \* no lock

ASSUME ClientsAssumption == IsFiniteSet(Clients) /\ None \notin Clients
ASSUME LocksAssumption == None \notin Locks
\* `Config::validate`: names are unique.  Mount points are too, but only as written: two may
\* still resolve to one.
ASSUME ConfigsAssumption ==
  \A k \in Configs : DOMAIN k \subseteq Names /\ \A n \in DOMAIN k : k[n] \in Points
ASSUME UnreadablesAssumption == Unreadables \subseteq SUBSET Names

VARIABLES
  config,   \* the config this lifetime of the service was loaded with
  pc,       \* pc[c]: the await at which c's request is
  req,      \* req[c]: what c asked for
  tgt,      \* tgt[c]: the unit and the point the request acts on
  saw,      \* saw[c]: what the request read before it acted (`live`, `status`)
  result,   \* result[c]: how c's last request ended
  lockmap,  \* lockmap[n]: the mutex the lock map holds for n
  mine,     \* mine[c]: the mutex c looked up under the name it was given
  redir,    \* redir[c]: the mutex c looked up under the name it was redirected to
  owner,    \* owner[l]: the request holding mutex l
  intact    \* history: c found its target (or the stale point it clears) by a sweep that read
            \* every argv, and nothing has happened to them since, see Undisturbed

lockVars == <<lockmap, mine, redir, owner>>
opVars == <<pc, req, tgt, saw, result, lockVars, intact>>
vars == <<hostVars, config, opVars>>

-----------------------------------------------------------------------------

Requests == [op : {"mount", "unmount"}, name : Names, force : BOOLEAN]
ASSUME AsksAssumption == Asks \subseteq Requests
Results == {"none", "ok", "unknown", "notManaged", "busy", "failed"}

MountSteps == {"moved", "point", "over", "clear", "wait1", "begin", "wait2", "start", "ready"}
UnmountSteps == {"look", "status", "source", "release", "stop", "gone", "unitgone",
                 "escalate", "again", "detach", "settle"}
\* Where a request reads or changes the unit it acts on.
Acting == MountSteps \cup UnmountSteps
Steps == {"idle", "lock", "target", "redirect", "redirlock"} \cup Acting

AnyName == CHOOSE n \in Names : TRUE
NoRequest == [op |-> "mount", name |-> AnyName, force |-> FALSE]
NoTarget == [unit |-> AnyName, point |-> NoPoint]
NoSaw == [live |-> FALSE, status |-> "Inactive"]

TypeOK ==
  /\ HostTypeOK
  /\ config \in Configs
  /\ pc \in [Clients -> Steps]
  /\ req \in [Clients -> Requests]
  /\ tgt \in [Clients -> [unit : Names, point : Points \cup {NoPoint}]]
  /\ saw \in [Clients -> [live : BOOLEAN, status : Statuses]]
  /\ result \in [Clients -> Results]
  /\ lockmap \in [Names -> Locks \cup {None}]
  /\ mine \in [Clients -> Locks \cup {None}]
  /\ redir \in [Clients -> Locks \cup {None}]
  /\ owner \in [Locks -> Clients \cup {None}]
  /\ intact \in [Clients -> BOOLEAN]

-----------------------------------------------------------------------------
(* Which of our units is where: the orphan sweep.  `unread` are the units  *)
(* whose ExecStart this sweep could not read.                              *)

Configured(n) == n \in DOMAIN config

\* Mutant: a configured unit vouches for its entry's point wherever it serves.
RunningUnitHolds(p, unread) == \E m \in DOMAIN config : config[m] = p /\ IsServing(m)

\* A configured mount at this point has its own unit holding it: serving, and serving that
\* point.  An argv that cannot be read is trusted.
ConfiguredUnitHolds(p, unread) ==
  \E m \in DOMAIN config :
    /\ config[m] = p
    /\ IsServing(m)
    /\ m \in unread \/ units[m].argv = p

\* Every unit of ours serving a path the config no longer puts it at.
Orphans(unread) ==
  { n \in Names \ unread :
      /\ IsServing(n)
      /\ ~(Configured(n) /\ config[n] = units[n].argv)
      /\ IsMountedAt(units[n].argv)
      /\ ~ConfiguredUnitHolds(units[n].argv, unread) }

OrphansAt(p, unread) == { o \in Orphans(unread) : units[o].argv = p }

OrphanTarget(o) == [unit |-> o, point |-> units[o].argv]
ConfigTarget(n) == [unit |-> n, point |-> config[n]]

\* Which unit an unmount has to act on: none for an unknown name, and one of several when
\* more than one orphan names the point (the first systemd happens to list).
UnmountTargets(n, unread) ==
  IF ~Configured(n) THEN { OrphanTarget(o) : o \in Orphans(unread) \cap {n} }
  ELSE IF IsServing(n)
  THEN { IF n \in Orphans(unread) THEN OrphanTarget(n) ELSE ConfigTarget(n) }
  ELSE IF OrphansAt(config[n], unread) # {}
  THEN { OrphanTarget(o) : o \in OrphansAt(config[n], unread) }
  ELSE { ConfigTarget(n) }

-----------------------------------------------------------------------------
(* The states reconcile and state report.                                  *)

\* Mutant: the unit's status answers for the configured point, wherever the unit serves.
ResolveByName(n, unread) ==
  LET live == IsMountedAt(config[n])
      unit == UnitStatus(n)
  IN  IF live /\ IsStale(config[n]) THEN "Failed"
      ELSE CASE unit \in {"Active", "Activating"} -> IF live THEN "Mounted" ELSE "Mounting"
             [] unit = "Inactive"                 -> IF live THEN "Foreign" ELSE "Unmounted"
             [] unit = "Deactivating"             -> "Unmounting"
             [] OTHER                             -> "Failed"

\* The answer for a configured mount.
Resolve(n, unread) ==
  LET live == IsMountedAt(config[n])
      unit == UnitStatus(n)
  IN  IF unit # "Deactivating" /\ n \in Orphans(unread) THEN "Failed"
      ELSE IF live /\ IsStale(config[n]) THEN "Failed"
      ELSE CASE unit \in {"Active", "Activating"} -> IF live THEN "Mounted" ELSE "Mounting"
             [] unit = "Inactive"                 -> IF ~live THEN "Unmounted"
                                                     ELSE IF OrphansAt(config[n], unread) # {}
                                                     THEN "Failed" ELSE "Foreign"
             [] unit = "Deactivating"             -> "Unmounting"
             [] OTHER                             -> "Failed"

\* Mutant: an orphan's point is not counted as claimed.
ReconcileByConfig(unread) ==
  LET claimed == { config[n] : n \in DOMAIN config }
  IN  { [name |-> n, state |-> Resolve(n, unread), point |-> config[n]] : n \in DOMAIN config }
      \cup { [name |-> o, state |-> "Orphaned", point |-> units[o].argv] :
               o \in { o \in Orphans(unread) : ~Configured(o) } }
      \cup { [name |-> p, state |-> "Foreign", point |-> p] :
               p \in { p \in Points : IsMountedAt(p) /\ p \notin claimed } }

\* The rows of a sweep: a configured mount, an orphan the config does not name, or a live
\* mount at a point neither accounts for, which is named by its path.
Reconcile(unread) ==
  LET orphans == Orphans(unread)
      claimed == { config[n] : n \in DOMAIN config } \cup { units[o].argv : o \in orphans }
  IN  { [name |-> n, state |-> Resolve(n, unread), point |-> config[n]] : n \in DOMAIN config }
      \cup { [name |-> o, state |-> "Orphaned", point |-> units[o].argv] :
               o \in { o \in orphans : ~Configured(o) } }
      \cup { [name |-> p, state |-> "Foreign", point |-> p] :
               p \in { p \in Points : IsMountedAt(p) /\ p \notin claimed } }

-----------------------------------------------------------------------------
(* The per-mount locks.                                                    *)

StrongCount(l) ==
  Cardinality({n \in Names : lockmap[n] = l}) + Cardinality({c \in Clients : mine[c] = l})
    + Cardinality({c \in Clients : redir[c] = l})

Unused == { l \in Locks : /\ \A n \in Names : lockmap[n] # l
                          /\ \A c \in Clients : mine[c] # l /\ redir[c] # l }

\* Mutant: every caller inserts a mutex of its own.
LockForEach(n, l) ==
  /\ Unused # {}
  /\ l = CHOOSE u \in Unused : TRUE
  /\ lockmap' = [lockmap EXCEPT ![n] = l]
  /\ owner' = [owner EXCEPT ![l] = None]

\* `lock_for`: the map's mutex for a name, a new one if it has none.  l is what it returns.
LockFor(n, l) ==
  IF lockmap[n] # None
  THEN l = lockmap[n] /\ UNCHANGED <<lockmap, owner>>
  ELSE /\ Unused # {}
       /\ l = CHOOSE u \in Unused : TRUE
       /\ lockmap' = [lockmap EXCEPT ![n] = l]
       /\ owner' = [owner EXCEPT ![l] = None]

-----------------------------------------------------------------------------
(* Bookkeeping common to every step.                                       *)

\* No request changes the config: it is read once, at the start of the service.
Goto(c, s) == pc' = [pc EXCEPT ![c] = s] /\ UNCHANGED config

\* History: keeps intact[d] only while nothing new comes to serve the request's point, and
\* its unit serves no further point and shares its argv with the same units.  What the unit's
\* own rclone leaves there when it dies is nothing new.
Leftover(t) == table[t.point].by = t.unit /\ table'[t.point].by = Dead
Undisturbed(t) ==
  /\ \A p \in Points :
       /\ p = t.point => table'[p].by \in {table[p].by, NoOne} \/ Leftover(t)
       /\ table'[p].by = t.unit => table[p].by = t.unit
  /\ \A n \in Names : (units'[n].argv = units'[t.unit].argv) = (units[n].argv = units[t.unit].argv)
Track(ds) == intact' = [d \in Clients |-> intact[d] /\ (d \in ds => Undisturbed(tgt[d]))]

\* The future ends: its locks are dropped and its answer is sent.
Finish(c, r) ==
  /\ Goto(c, "idle")
  /\ result' = [result EXCEPT ![c] = r]
  /\ req' = [req EXCEPT ![c] = NoRequest]
  /\ tgt' = [tgt EXCEPT ![c] = NoTarget]
  /\ saw' = [saw EXCEPT ![c] = NoSaw]
  /\ mine' = [mine EXCEPT ![c] = None]
  /\ redir' = [redir EXCEPT ![c] = None]
  /\ owner' = [l \in Locks |-> IF owner[l] = c THEN None ELSE owner[l]]
  /\ intact' = [d \in Clients |-> d = c \/ (intact[d] /\ Undisturbed(tgt[d]))]

\* A step that only reads: on to s, or the end with r.  And one that changes units.
Continue(c, s) == Goto(c, s) /\ UNCHANGED <<hostVars, req, tgt, saw, result, lockVars, intact>>
Answer(c, r) == UNCHANGED <<hostVars, lockmap>> /\ Finish(c, r)
Acts(c, s) ==
  Goto(c, s) /\ UNCHANGED <<table, req, tgt, saw, result, lockVars>> /\ Track(Clients \ {c})

Point(c) == tgt[c].point
Own(c) == tgt[c].unit

\* `fusermount3 -u` at c's point, and `-z` when how is "Detach".  It can fail for reasons
\* of its own, and every failure looks alike.
ReleaseWorks(c, how) ==
  /\ IF how = "Detach" THEN IsMountedAt(Point(c)) ELSE CanRelease(Point(c))
  /\ table' = Unmounted(Point(c))
  /\ UNCHANGED units
  /\ Track(Clients \ {c})

-----------------------------------------------------------------------------
(* Asking, and taking the locks.                                           *)

Ask(c, r) ==
  /\ pc[c] = "idle"
  /\ r.op = "mount" => Configured(r.name) /\ ~r.force
  /\ \E l \in Locks : LockFor(r.name, l) /\ mine' = [mine EXCEPT ![c] = l]
  /\ req' = [req EXCEPT ![c] = r]
  /\ result' = [result EXCEPT ![c] = "none"]
  /\ Goto(c, "lock")
  /\ UNCHANGED <<hostVars, tgt, saw, redir, intact>>

\* An orphan answers to its name, but nothing describes what to start.
MountUnconfigured(c, n, unread) ==
  /\ pc[c] = "idle"
  /\ ~Configured(n)
  /\ result' = [result EXCEPT ![c] = IF n \in Orphans(unread) THEN "notManaged" ELSE "unknown"]
  /\ UNCHANGED <<hostVars, config, pc, req, tgt, saw, lockVars, intact>>

TakeLock(c) ==
  /\ pc[c] = "lock"
  /\ owner[mine[c]] = None
  /\ owner' = [owner EXCEPT ![mine[c]] = c]
  /\ IF req[c].op = "mount"
     THEN tgt' = [tgt EXCEPT ![c] = ConfigTarget(req[c].name)] /\ Goto(c, "moved")
     ELSE UNCHANGED tgt /\ Goto(c, "target")
  /\ UNCHANGED <<hostVars, req, saw, result, lockmap, mine, redir, intact>>

\* A name that resolves to nothing: its map entry goes too, unless somebody is queued on it.
UnknownName(c, unread) ==
  /\ pc[c] = "target"
  /\ UnmountTargets(req[c].name, unread) = {}
  /\ lockmap' = IF StrongCount(mine[c]) = 2 THEN [lockmap EXCEPT ![req[c].name] = None]
                                            ELSE lockmap
  /\ UNCHANGED hostVars
  /\ Finish(c, "unknown")

\* Mutant: the unit acted on is not locked under its own name.
FindUnlocked(c, unread) ==
  /\ pc[c] = "target"
  /\ \E t \in UnmountTargets(req[c].name, unread) : tgt' = [tgt EXCEPT ![c] = t]
  /\ Goto(c, "look")
  /\ intact' = [intact EXCEPT ![c] = (unread = {})]
  /\ UNCHANGED <<hostVars, req, saw, result, lockVars>>

FindTarget(c, unread) ==
  /\ pc[c] = "target"
  /\ \E t \in UnmountTargets(req[c].name, unread) :
       /\ tgt' = [tgt EXCEPT ![c] = t]
       /\ Goto(c, IF t.unit # req[c].name THEN "redirect" ELSE "look")
  /\ intact' = [intact EXCEPT ![c] = (unread = {})]
  /\ UNCHANGED <<hostVars, req, saw, result, lockVars>>

\* The unit acted on is guarded by its own name's lock as well.
LookUpRedirect(c) ==
  /\ pc[c] = "redirect"
  /\ \E l \in Locks : LockFor(Own(c), l) /\ redir' = [redir EXCEPT ![c] = l]
  /\ Goto(c, "redirlock")
  /\ UNCHANGED <<hostVars, req, tgt, saw, result, mine, intact>>

TakeRedirect(c) ==
  /\ pc[c] = "redirlock"
  /\ owner[redir[c]] = None
  /\ owner' = [owner EXCEPT ![redir[c]] = c]
  /\ Goto(c, "look")
  /\ UNCHANGED <<hostVars, req, tgt, saw, result, lockmap, mine, redir, intact>>

\* Mutants: the wait has no end; its expiry is not turned into an answer clients know.
RedirectWaits(c) == FALSE /\ Answer(c, "busy")
RedirectElapses(c) ==
  /\ pc[c] = "redirlock"
  /\ owner[redir[c]] # None
  /\ Answer(c, "elapsed")

\* REDIRECT_LOCK_WAIT ran out.
RedirectTimesOut(c) ==
  /\ pc[c] = "redirlock"
  /\ owner[redir[c]] # None
  /\ Answer(c, "busy")

-----------------------------------------------------------------------------
(* unmount.                                                                *)

Forced(c) == req[c].force
Ours(c) == saw[c].status # "Inactive"
MayDetach(c) == Forced(c) /\ Ours(c)

\* What is there, and then whose it is, before anything is done about it.  Both are kept:
\* every later decision uses what was read here.
LookAtPoint(c) ==
  /\ pc[c] = "look"
  /\ saw' = [saw EXCEPT ![c].live = IsMountedAt(Point(c))]
  /\ Goto(c, "status")
  /\ UNCHANGED <<hostVars, req, tgt, result, lockVars, intact>>

\* Mutant: nothing mounted, so nothing to do.
LookAtMount(c) ==
  /\ pc[c] = "status"
  /\ IF ~saw[c].live THEN Answer(c, "ok")
     ELSE IF UnitStatus(Own(c)) = "Inactive" /\ ~Forced(c) THEN Answer(c, "notManaged")
     ELSE /\ saw' = [saw EXCEPT ![c].status = UnitStatus(Own(c))]
          /\ Goto(c, "source")
          /\ UNCHANGED <<hostVars, req, tgt, result, lockVars, intact>>

LookAtUnit(c) ==
  LET live == saw[c].live
      ours == UnitStatus(Own(c)) # "Inactive"
  IN  /\ pc[c] = "status"
      /\ IF live /\ ~ours /\ ~Forced(c) THEN Answer(c, "notManaged")
         ELSE IF ~live /\ ~ours THEN Answer(c, "ok")
         ELSE /\ saw' = [saw EXCEPT ![c].status = UnitStatus(Own(c))]
              /\ Goto(c, IF live THEN "source" ELSE "stop")
              /\ UNCHANGED <<hostVars, req, tgt, result, lockVars, intact>>

\* Ownership was decided from a unit's name; the release acts on a path.  A source that is
\* not the one asked for needs the unit's own argv to vouch for it.
Suspect(c) == IsMountedAt(Point(c)) /\ ~table[Point(c)].spec /\ ~Forced(c)
\* Mutant: the argv of a unit that has failed vouches too.
EstablishedByArgv(c, unread) == Own(c) \notin unread /\ units[Own(c)].argv = Point(c)
Established(c, unread) ==
  /\ ServingStatus(saw[c].status)
  /\ Own(c) \notin unread
  /\ units[Own(c)].argv = Point(c)

CheckSource(c, unread) ==
  /\ pc[c] = "source"
  /\ IF Suspect(c) /\ ~Established(c, unread) THEN Answer(c, "notManaged")
     ELSE Continue(c, "release")

\* The kernel decides, before rclone is signalled.
AskKernel(c) ==
  /\ pc[c] = "release"
  /\ ReleaseWorks(c, "Refuse")
  /\ Goto(c, IF Ours(c) THEN "stop" ELSE "escalate")
  /\ UNCHANGED <<req, tgt, saw, result, lockVars>>

\* Mutant: the refusal is left to the release after the stop.
KernelIgnored(c) ==
  /\ pc[c] = "release"
  /\ Continue(c, IF Ours(c) THEN "stop" ELSE "escalate")

KernelRefuses(c) ==
  /\ pc[c] = "release"
  /\ IF IsMountedAt(Point(c)) /\ ~MayDetach(c) THEN Answer(c, "busy")
     ELSE Continue(c, IF Ours(c) THEN "stop" ELSE "escalate")

StopUnit(c) ==
  /\ pc[c] = "stop"
  /\ units' = Stopped(Own(c))
  /\ Acts(c, IF saw[c].live THEN "gone" ELSE "unitgone")

\* Mutant: the wait for the point is over, so the point is taken to be free.
AwaitGoneUnheeded(c) ==
  /\ pc[c] = "gone"
  /\ Continue(c, "unitgone")

AwaitGone(c) ==
  /\ pc[c] = "gone"
  /\ Continue(c, IF IsMountedAt(Point(c)) THEN "escalate" ELSE "unitgone")

AwaitUnitGone(c) ==
  /\ pc[c] = "unitgone"
  /\ IF UnitStatus(Own(c)) \in {"Inactive", "Failed"}
     THEN units' \in ResetFailed(units, Own(c)) /\ UNCHANGED <<table, lockmap>> /\ Finish(c, "ok")
     ELSE Answer(c, "failed")

\* Foreign, or the unit stopped without releasing the point, or the leftover of a dead one.
Escalate(c) ==
  /\ pc[c] = "escalate"
  /\ IF IsMountedAt(Point(c)) THEN Continue(c, "again") ELSE Answer(c, "ok")

AskAgain(c) ==
  /\ pc[c] = "again"
  /\ ReleaseWorks(c, "Refuse")
  /\ Goto(c, "settle")
  /\ UNCHANGED <<req, tgt, saw, result, lockVars>>

RefusedAgain(c) ==
  /\ pc[c] = "again"
  /\ IF MayDetach(c) THEN Continue(c, "detach") ELSE Answer(c, "busy")

Detach(c) ==
  /\ pc[c] = "detach"
  /\ ReleaseWorks(c, "Detach")
  /\ Goto(c, "settle")
  /\ UNCHANGED <<req, tgt, saw, result, lockVars>>

DetachFails(c) == pc[c] = "detach" /\ Answer(c, "busy")

Settle(c) ==
  /\ pc[c] = "settle"
  /\ IF IsMountedAt(Point(c)) THEN Answer(c, "busy")
     ELSE units' \in ResetFailed(units, Own(c)) /\ UNCHANGED <<table, lockmap>> /\ Finish(c, "ok")

-----------------------------------------------------------------------------
(* mount.                                                                  *)

\* This entry's own unit is still serving the path the entry had before it was edited.
Moved(c, unread) ==
  /\ pc[c] = "moved"
  /\ IF UnitStatus(Own(c)) # "Deactivating" /\ Own(c) \in Orphans(unread)
     THEN Answer(c, "notManaged")
     ELSE Continue(c, "point")

\* `refuse_to_take_over`: one of our units the config no longer places here holds the point.
Taken(c, unread) == OrphansAt(Point(c), unread) # {}

FindEmpty(c) ==
  /\ pc[c] = "point"
  /\ ~IsMountedAt(Point(c))
  /\ Continue(c, "begin")

\* Mutant: a point that does not answer is cleared whoever is behind it.
FindDead(c, unread) ==
  /\ pc[c] = "point"
  /\ IsStale(Point(c))
  /\ Goto(c, "clear")
  /\ intact' = [intact EXCEPT ![c] = (unread = {})]
  /\ UNCHANGED <<hostVars, req, tgt, result, saw, lockVars>>

FindStale(c, unread) ==
  /\ pc[c] = "point"
  /\ IsStale(Point(c))
  /\ IF Taken(c, unread) THEN Answer(c, "notManaged")
     ELSE /\ Goto(c, "clear")
          /\ intact' = [intact EXCEPT ![c] = (unread = {})]
          /\ UNCHANGED <<hostVars, req, tgt, saw, result, lockVars>>

FindLive(c) ==
  /\ pc[c] = "point"
  /\ IsMountedAt(Point(c)) /\ ~IsStale(Point(c))
  /\ Continue(c, "over")

\* Over a mount that answers, by the status of the entry's own unit.
OverLive(c, unread) ==
  LET status == UnitStatus(Own(c)) IN
  /\ pc[c] = "over"
  /\ IF ~ServingStatus(status) /\ Taken(c, unread) THEN Answer(c, "notManaged")
     ELSE CASE status \in {"Active", "Activating"} -> Answer(c, "ok")
            [] status = "Deactivating"             -> Continue(c, "wait1")
            [] status = "Failed"                   -> Continue(c, "begin")
            [] OTHER                               -> Answer(c, "notManaged")

Clear(c) ==
  /\ pc[c] = "clear"
  /\ ReleaseWorks(c, "Refuse")
  /\ Goto(c, "begin")
  /\ UNCHANGED <<req, tgt, saw, result, lockVars>>

ClearFails(c) == pc[c] = "clear" /\ Answer(c, "busy")

\* `await_unit_gone`, at either of the two places mount waits for a unit to let its name go.
AwaitName(c) ==
  /\ pc[c] \in {"wait1", "wait2"}
  /\ IF UnitStatus(Own(c)) \in {"Inactive", "Failed"}
     THEN Continue(c, IF pc[c] = "wait1" THEN "begin" ELSE "start")
     ELSE Answer(c, "failed")

\* Mutant: a unit still stopping is not waited for.
BeginAtOnce(c) ==
  /\ pc[c] = "begin"
  /\ Continue(c, IF UnitStatus(Own(c)) \in {"Active", "Activating"} THEN "ready" ELSE "start")

Begin(c) ==
  /\ pc[c] = "begin"
  /\ LET status == UnitStatus(Own(c)) IN
     Continue(c, IF status \in {"Active", "Activating"} THEN "ready"
                 ELSE IF status = "Deactivating" THEN "wait2"
                 ELSE "start")

Start(c) ==
  /\ pc[c] = "start"
  /\ \E cleared \in ResetFailed(units, Own(c)) :
       \/ /\ CanStart(cleared, Own(c))
          /\ units' = Started(cleared, Own(c), Point(c))
          /\ Acts(c, "ready")
       \/ /\ units' = cleared   \* systemd refuses, or does not answer
          /\ UNCHANGED <<table, lockmap>>
          /\ Finish(c, "failed")

\* `await_ready`: polls the kernel; a failed unit and the deadline end it.
AwaitReady(c) ==
  /\ pc[c] = "ready"
  /\ Answer(c, IF IsMountedAt(Point(c)) THEN "ok" ELSE "failed")

-----------------------------------------------------------------------------

\* Any call to systemd can fail, and the `?` on it ends the request where it is.
CallsSystemd == {"target", "status", "stop", "unitgone", "moved", "over", "wait1", "begin",
                 "wait2", "ready"}
CallFails(c) ==
  /\ \/ pc[c] \in CallsSystemd
     \/ pc[c] = "source" /\ Suspect(c)
     \/ pc[c] = "point" /\ IsStale(Point(c))
     \/ pc[c] = "settle" /\ ~IsMountedAt(Point(c))
  /\ Answer(c, "failed")

MountStep(c) ==
  \/ \E unread \in Unreadables : Moved(c, unread) \/ FindStale(c, unread) \/ OverLive(c, unread)
  \/ FindEmpty(c) \/ FindLive(c) \/ Clear(c) \/ ClearFails(c) \/ AwaitName(c) \/ Begin(c) \/ Start(c)
  \/ AwaitReady(c)

UnmountStep(c) ==
  \/ \E unread \in Unreadables :
       UnknownName(c, unread) \/ FindTarget(c, unread) \/ CheckSource(c, unread)
  \/ LookUpRedirect(c) \/ RedirectTimesOut(c) \/ LookAtPoint(c) \/ LookAtUnit(c)
  \/ AskKernel(c) \/ KernelRefuses(c) \/ StopUnit(c) \/ AwaitGone(c) \/ AwaitUnitGone(c)
  \/ Escalate(c) \/ AskAgain(c) \/ RefusedAgain(c) \/ Detach(c) \/ DetachFails(c) \/ Settle(c)

Lock(c) == TakeLock(c) \/ TakeRedirect(c)

Operation(c) == MountStep(c) \/ UnmountStep(c) \/ Lock(c) \/ CallFails(c)

Request(c) ==
  \/ \E r \in Asks : Ask(c, r)
  \/ \E n \in Names, unread \in Unreadables : MountUnconfigured(c, n, unread)

\* Something happens outside, to everybody's point and to nobody's request.
Outside == Track(Clients) /\ UNCHANGED <<config, pc, req, tgt, saw, result, lockVars>>

Systemd(n) ==
  \/ Exec(n) /\ Outside
  \/ Serve(n) /\ Outside
  \/ StartFails(n) /\ Outside
  \/ ExitReleased(n) /\ Outside
  \/ StopUnmounts(n) /\ Outside
  \/ StopExits(n) /\ Outside
  \/ "crash" \in Happens /\ Crash(n) /\ Outside
  \/ "abort" \in Happens /\ Abort(n) /\ Outside
  \/ "byhand" \in Happens /\ StopByHand(n) /\ Outside

Others(p) ==
  \/ "foreign" \in Happens /\ ForeignMounts(p) /\ Outside
  \/ "foreign" \in Happens /\ ForeignDies(p) /\ Outside
  \/ "byhand" \in Happens /\ ReleasedByHand(p) /\ Outside
  \/ "held" \in Happens /\ Hold(p) /\ Outside
  \/ "held" \in Happens /\ LetGo(p) /\ Outside

Init ==
  /\ HostTypeOK /\ HostConsistent
  /\ config \in Configs
  /\ pc = [c \in Clients |-> "idle"]
  /\ req = [c \in Clients |-> NoRequest]
  /\ tgt = [c \in Clients |-> NoTarget]
  /\ saw = [c \in Clients |-> NoSaw]
  /\ result = [c \in Clients |-> "none"]
  /\ lockmap = [n \in Names |-> None]
  /\ mine = [c \in Clients |-> None]
  /\ redir = [c \in Clients |-> None]
  /\ owner = [l \in Locks |-> None]
  /\ intact = [c \in Clients |-> TRUE]

Next ==
  \/ \E c \in Clients : Request(c) \/ Operation(c)
  \/ \E n \in Names : Systemd(n)
  \/ \E p \in Points : Others(p)

Spec == Init /\ [][Next]_vars

\* Every step of a request is bounded by a deadline, and tokio's mutexes are fair (FIFO).
\* Clients need not ask, and nothing outside need happen.
Fairness ==
  \A c \in Clients : /\ WF_vars(Operation(c))
                     /\ SF_vars(Lock(c))

FairSpec == Spec /\ Fairness
=============================================================================
