------------------------ MODULE SupervisorProperties ------------------------
(***************************************************************************)
(* What mount, unmount and reconcile promise.  `intact[c]` restricts some  *)
(* of them to requests that lost no race and were not misled: the sweep    *)
(* read what every unit serves, and what served the point when the request *)
(* looked is what serves it when it acts.                                  *)
(***************************************************************************)
EXTENDS Supervisor

Ends(c) == pc[c] # "idle" /\ pc'[c] = "idle"
Step(c, from, to) == pc[c] \in from /\ pc'[c] \in to

\* No two requests ever work on the same unit, whatever names they were asked under: the
\* name's own lock, the redirect's lock, and the map they come from together guarantee it.
UnitExclusion ==
  \A c, d \in Clients :
    c # d /\ pc[c] \in Acting /\ pc[d] \in Acting => Own(c) # Own(d)

\* Why UnitExclusion holds.  The mutex a request took for a unit stays the map's mutex for
\* that name until the request ends, whatever the others look up or remove meanwhile; and a
\* request that acts owns the mutex of the unit it acts on.
Guard(c) == IF Own(c) = req[c].name THEN mine[c] ELSE redir[c]

HeldByMap ==
  \A c \in Clients : /\ mine[c] # None => lockmap[req[c].name] = mine[c]
                     /\ redir[c] # None => lockmap[Own(c)] = redir[c]

HeldByPc ==
  \A c \in Clients :
    /\ (pc[c] = "idle") <=> (mine[c] = None)
    /\ pc[c] = "idle" => \A l \in Locks : owner[l] # c
    /\ pc[c] \in {"idle", "lock", "target", "redirect"} => redir[c] = None
    /\ pc[c] \in {"redirect", "redirlock"} => Own(c) # req[c].name
    /\ pc[c] = "redirlock" => redir[c] # None
    /\ pc[c] \notin {"idle", "lock"} => owner[mine[c]] = c
    /\ pc[c] \in Acting => Guard(c) # None /\ owner[Guard(c)] = c

LocksGuard == HeldByMap /\ HeldByPc

\* Only a configured mount is ever asked to start, and the config does not change.
MountsAreConfigured ==
  \A c \in Clients : pc[c] = "lock" /\ req[c].op = "mount" => Configured(req[c].name)

\* When mount removes the rc socket and asks systemd for the name, no rclone of that unit is
\* running: neither one to lose its socket, nor one for the name to collide with.
StartFindsNameFree ==
  \A c \in Clients : pc[c] = "start" => units[Own(c)].phase \in {"inactive", "failed"}

\* n runs where the config puts it, and that is p.
AtHome(n, p) == Configured(n) /\ config[n] = p /\ IsServing(n) /\ units[n].argv = p

\* Another unit of ours was started for the point this one was.
Contested(u) == \E n \in Names \ {u} : units[n].argv = units[u].argv /\ units[n].argv # NoPoint

\* An unforced unmount signals rclone only once the kernel has let go of all it serves: nobody
\* still uses what the signal would cut (#73), wherever the config says the mount is (#90).
StopCutsNobody(c) ==
  Step(c, {"stop"}, {"gone", "unitgone"}) /\ ~Forced(c) /\ intact[c]
    => ~IsMountedAt(Point(c)) /\ \A p \in Points : table[p].by # Own(c)

UnforcedStopCutsNobody ==
  [][ \A c \in Clients : ~Contested(Own(c)) => StopCutsNobody(c) ]_vars

\* The same with no exception (see the run `contested`).
KernelIsAlwaysAsked == [][ \A c \in Clients : StopCutsNobody(c) ]_vars

\* Taking c's mount down from under its point.
TakesDown(c, from) ==
  /\ Step(c, from, Steps \ from)
  /\ IsMountedAt(Point(c)) /\ table'[Point(c)].by = NoOne

\* A source that is not the one asked for is taken, unforced, only on the word of a unit that
\* systemd says is running there.  A unit that failed or waits to restart still has its argv,
\* and vouches for nothing: what is at its point is somebody else's.
VouchedFor(c) ==
  TakesDown(c, {"release", "again"}) /\ ~Forced(c) /\ intact[c]
    /\ table[Point(c)].by = Foreign /\ ~table[Point(c)].spec
    => ServingStatus(saw[c].status)

OnlyARunningUnitVouches == [][ \A c \in Clients : VouchedFor(c) ]_vars

\* mount clears only a dead mount, and decides to only if no unit of ours is running behind it,
\* or if the config's own is, which then answers for the point.
ClearsLeftovers(c) ==
  /\ TakesDown(c, {"clear"}) /\ intact[c] => IsStale(Point(c))
  /\ Step(c, {"point"}, {"clear"}) /\ intact'[c] =>
       \A n \in Names : units[n].phase = "up" /\ units[n].argv = Point(c) =>
         \E m \in Names : AtHome(m, Point(c))

MountClearsOnlyLeftovers == [][ \A c \in Clients : ClearsLeftovers(c) ]_vars

\* An unmount that says ok leaves the unit it acted on serving its point no longer; and no
\* other point either (#90), unless the unit was only coming up when its target was found, or
\* another was started for the same point.
SaysUnmounted(c) == Ends(c) /\ req[c].op = "unmount" /\ result'[c] = "ok"

UnmountOkMeansDown ==
  [][ \A c \in Clients : SaysUnmounted(c) =>
        \A p \in Points : p = Point(c) \/ (intact[c] /\ ~Contested(Own(c)))
                            => table'[p].by # Own(c) ]_vars

\* An unmount that says ok leaves nothing mounted at its point: neither what it found there,
\* however long somebody held it, nor the dead mount that rclone leaves when it is killed over
\* it; unless something new came to be mounted there meanwhile.
UnmountOkLeavesNothing ==
  [][ \A c \in Clients : SaysUnmounted(c) /\ intact[c] => ~IsMountedAt(Point(c)) ]_vars

\* A mount that says ok says so of an rclone this service started.
MountOkMeansOurs ==
  [][ \A c \in Clients :
        Ends(c) /\ req[c].op = "mount" /\ result'[c] = "ok"
          => table[Point(c)].by # Foreign ]_vars

\* A mount somebody else serves is never detached, forced or not.
ForeignIsNeverDetached ==
  [][ \A c \in Clients : TakesDown(c, {"detach"}) => table[Point(c)].by # Foreign ]_vars

-----------------------------------------------------------------------------
(* reconcile, read at one instant.                                         *)

Rows == Reconcile({})

\* Every unit systemd calls active or deactivating is the one serving the point it names:
\* none is still on its way up, and none has lost its mount and not exited yet.
Settled == \A n \in Names : IsServing(n) => table[units[n].argv].by = n

\* A mount this service started is never shown as somebody else's, however the config was
\* edited under it: unless two entries resolve to its point, and the row is the one's whose
\* unit is not running while the other's is.
OursIsNeverForeign ==
  \A r \in Rows : r.state = "Foreign" /\ table[r.point].by \in Names =>
    /\ table[r.point].by # r.name
    /\ Configured(r.name) /\ \E m \in Names \ {r.name} : AtHome(m, r.point)

\* Every mount of ours that is up can be taken down: some row names it, and an unmount of
\* that name acts on its unit, at the point where it is.
OwnMountsStayStoppable ==
  Settled => \A p \in Points : table[p].by \in Names =>
    \E r \in Rows : /\ r.state # "Foreign"
                    /\ UnmountTargets(r.name, {}) = { [unit |-> table[p].by, point |-> p] }

\* A row that says mounted is about the entry's own rclone, unless it is being restarted.
MountedRowIsOurs ==
  Settled => \A r \in Rows :
    r.state = "Mounted" /\ UnitStatus(r.name) = "Active" => table[r.point].by = r.name

-----------------------------------------------------------------------------

\* Every request is answered: no two requests wait on each other for ever, and no wait
\* outlives its deadline.
RequestsEnd == \A c \in Clients : pc[c] # "idle" ~> pc[c] = "idle"
=============================================================================
