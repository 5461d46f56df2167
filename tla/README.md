# A formal model of rclone-vfsmount-tray

TLA+ modules, TLC configurations and TLAPS proofs about the service that starts, watches and
stops rclone mounts. Paths below are relative to the repository root; line numbers are those of
the sources the modules were translated from. `PROJECT.json` maps every definition to its lines.

## The system

The service (`crates/service`) runs as a systemd user unit. It starts each mount as a transient
unit of its own, `rvt-mount-<name>.service`, so a mount outlives the service; and it takes every
answer about state from the kernel's mount table and from systemd, never from what it remembers.
The tray and the command line (`crates/tray`) reach it over D-Bus. `crates/core` holds what both
share: configuration, the rc client, transfer arithmetic, the cache scan.

| Component | State it keeps | Operations | What must be right |
| --- | --- | --- | --- |
| Supervisor (`service/supervisor.rs`) | the config it was loaded with; a map of mutexes, one per name | `mount`, `unmount`, `state`, `reconcile` | nobody's write is cut unasked; nobody else's mount is touched; every mount of ours can be stopped; every request is answered |
| Unit binding (`service/systemd.rs`) | a D-Bus connection | start, stop, status, list, reset-failed, what a failed unit said | what each call does and does not promise (StopUnit only enqueues); what is started is known again; a reason says why and nothing else |
| Pre-start hook (`prepare_for_start`) | none: reads the config file of the moment | clear a stale point before each exec | never clears a live mount |
| Registry (`service/registry.rs`) | the last sweep's rows, the last reading per mount, the best tier | `observe_mounts`, `observe_transfer`, `note_tier` | the changes it emits, folded by a client, give what it holds |
| Watcher (`service/watch.rs`) | a poller per mount, deadlines, the nudge | `tick`, `sweep`, `poll_due`, `forget_cycled` | no poller outlives its rclone; an action is followed by a sweep |
| D-Bus surface (`service/dbus.rs`, `core/ipc.rs`) | none | list, mount, unmount, transfer state, signals | answers and signals agree; a newer service is not misread |
| Start and stop (`service/main.rs`) | none | load, discover, connect, serve | a start fails only over what a user can be told to mend |
| Poller (`service/poller.rs`) | latched cache roots, mode, capabilities, the rate estimator | `poll`, `connect` | never claims more than its source supports |
| rc client (`core/rc.rs`) | none | `call`: up to three attempts within one budget | nothing is asked twice that may have been done; nobody but our rclone is asked |
| Transfer state, rate (`core/transfer.rs`), probe (`core/capabilities.rs`), scan (`core/scan.rs`) | the last readings of the estimator | pure | idle is never claimed without evidence |
| Configuration (`core/config.rs`) | a file | load, save, validate, the command line of a mount | a crash leaves the old file or the new one; what is accepted works |
| rclone discovery (`core/rclone.rs`) | none | `discover`, `probe` | an explicit choice is not substituted; a usable one is found |
| Mount table (`core/mountinfo.rs`) | none | parse, ask who is at a point | our own mounts are recognised, whatever their paths contain |
| Tray (`tray/model.rs`, `watch.rs`, `link.rs`) | rows, readings, a notice, the state of the link, actions in flight | fold of signal streams, resync, actions, backoff | what is drawn is what the service last said; a failure is said once and until it stops being true |
| Menu, icon (`tray/menu.rs`, `sni.rs`), command line (`tray/client.rs`) | the menu the panel holds | drawing, clicks; one-shot calls | a click asks what was drawn; "up to date" is said only where it was observed |
| GTK stub, test utilities | none | | |

The supervisor and the host meet through calls only, and the host never waits: units crash and
restart, people run `fusermount` and `systemctl` by hand, other rclones mount, processes hold
files. Configs are edited under running mounts: a rename leaves two names for one mount, a moved
mount point leaves a unit where its entry no longer is. That, with two clients asking at once, is
where the code is hard, and where the project starts. Towards the user the hard part is delay: what
a sweep found, a poll read, a signal said, a menu drew is old when it is used.

## Modules

| Module | What it is |
| --- | --- |
| `Host` | systemd, the mount table, rclone and the other users of the machine, as far as the supervisor can tell them apart |
| `Supervisor` | EXTENDS `Host`: `mount`, `unmount`, the locks, the orphan sweep and `reconcile` |
| `SupervisorProperties` | what is promised of them |
| `Mirror` | abstract: a table and a copy of it that only ever takes what the table holds, and takes everything in the end |
| `Registry` | what the service believes of its mounts, the steps of a tick, and a client that has heard every signal |
| `Watcher` | EXTENDS `Registry`: deadlines, pollers, requests and their nudge; implements two `Mirror`s |
| `Ipc` | what crosses the bus, from a newer service too |
| `Link` | EXTENDS `Ipc`: telling apart the ways the service cannot be reached |
| `Tray` | EXTENDS `Registry`, with an instance of `Link`: the streams of signals, the lives of the service, the tray's connections, link and tables |
| `Surfaces` | EXTENDS `Link`: what icon, menu and command line say of the tables |
| `Texts` | texts as sequences of what matters of them: split, join, strip |
| `Reasons` | EXTENDS `Texts`: the journal of a failed unit, and what may be shown of it |
| `Rows` | EXTENDS `Reasons`: texts fitted into the rows of a menu |
| `Menu` | EXTENDS `Surfaces`, `Rows`: the menu, clicks on an old one, actions in flight, notices |
| `Transfer` | what is outstanding for a mount, one constructor per source, and what may be concluded |
| `Rc` | one call of the rc client |
| `Poller` | EXTENDS `Transfer`, with an instance of `Rc`: one mount's poller, the rclone behind its socket and that rclone's files |
| `Config` | `validate`, names of units and sockets, the command line of a mount |
| `Rclone` | EXTENDS `Config`: discovery, and what rclone makes of that command line |
| `Mountinfo` | EXTENDS `Texts`: the mount table as the kernel writes it and as it is read |
| `Units` | EXTENDS `Rclone`, `Mountinfo`: the unit made of a mount and what is read back of it |
| `ConfigStore` | abstract: a place that holds one whole configuration at a time |
| `ConfigFile` | `Config::save` from one system call to the next; implements `ConfigStore` |
| `Service` | EXTENDS `ConfigFile`, `Units`: the service from start to end over that file |
| `MCSupervisor`, `MCWatcher`, `MCTray`, `MCPoller`, `MCMenu`, `MCService` | the values TLC checks them with |
| `SupervisorProofs` | what is proved of the locks, of stops, releases and sweeps |
| `TextProofs` | inductions on sequences: folds, splits, concatenations; lemmas only |
| `RegistryProofs`, `WatcherProofs`, `TrayProofs` | of the registry by itself; of the watcher over it; of the tray's copy of it |
| `PollerProofs`, `ServiceProofs`, `MenuProofs` | of the poller and its calls; of saves, starts, command lines, units and the mount table; of notices, clicks and what is said |

**Host.** `units[n]` is systemd's state of the unit of name `n`, with the mount point in its
`ExecStart`; a live mount of ours is served by the unit whose `ExecStart` names its point
(`ServedByUnits`). `"active"` is split in `starting` and `up`, which the supervisor cannot tell apart:
under `Type=exec` a unit is active seconds before it has mounted. `table[p]` is who serves point
`p` (a unit of ours, a foreign rclone, a dead one, nobody), whether mountinfo spells its source
as the entry's `remote:path`, and whether some process holds it. `UnitStatus`, `IsMountedAt` and
`IsStale` are what the code reads; `Stopped`, `ResetFailed`, `Started` and `Unmounted` what its
calls do. The other actions happen by themselves. None of this is code under `src/`, apart from
the reads, the calls and the pre-start hook: it is modelled from how `systemd.rs` and
`supervisor.rs` use it and from what their comments say was measured.

**Supervisor.** Each client has at most one request in flight. `pc[c]` names the await it is at;
each action is the code from one await to the next, with its early returns. `mount` goes

    lock -> moved -> point -> (over | clear) -> begin -> (wait) -> start -> ready

and `unmount`

    lock -> target -> (redirect -> redirlock) -> look -> status -> source -> release
         -> stop -> gone -> unitgone, or -> escalate -> again -> detach -> settle

`tgt[c]` is the `Target`, `saw[c]` the two facts (`live`, `status`) the code reads once and uses
to its end. `lockmap`, `mine`, `redir` and `owner` are the lock map, the two `Arc`s a request may
hold, and who has each mutex; removing a name's mutex counts references as `Arc::strong_count`
does. `intact[c]` is history, read by properties only: the sweep by which `c` found its target (or the
stale point it clears) read every argv, and since then nothing new came to serve that point (the dead mount its own rclone leaves is not new), the unit
took no other, and shares its argv with the units it shared it with. An argv that cannot be read makes
the code trust the config for where a unit is (`supervisor.rs:421`), and no property holds it to
account for what it was not told. Any call to systemd may fail
(`CallFails`). One lifetime of the service is one behaviour: `Init` starts from any host state an
earlier lifetime, with any config, can have left, so a restart is a new behaviour.

For the supervisor, what is abstracted: every mount of ours names one remote (whether the source matches is a bit);
one point holds at most one mount; an orphan sweep, which in the code is several reads, is one;
deadlines are not timed, a wait may give up whenever what it waits for is not there. What is left
out: an unreadable mountinfo (the code then sees no mount at all, and warns), stacked mounts,
preparing directories, the rc socket file, texts. Mount points are taken
as resolved. `Config::validate` promises points of their own only as written (`config.rs:700`), so two
entries may share one here.

**Registry.** `rows` and `readings` are `Registry::mounts` and `transfers`; `told` and `heard` are
what a client holds that folds every signal. A row is its state; a figure is what a poll can say
that differs, and `Nothing` the empty answer for a mount no figure is kept of. `phase` is where
the one watcher task is: asleep, sweeping (it awaits systemd), polling, publishing one signal
after the other. `ObserveMounts` is the whole of `observe_mounts`, `ObserveTransfer` of
`observe_transfer`. The changes of a tick are a set, not a list: `ListenerIsOwed` says that no two of
them touch one entry of a client's tables, so their order is nothing a client can tell. `world` is what a sweep would find; the supervisor's part in it is
`Supervisor`'s business, here it just moves. `Downs` are the states of a configured mount that is
not ours and up.

**Watcher.** `WatcherNext` adds what the loop keeps: `timed` (the entries of `due`), `sweepDue`,
`cycled` and `woken` of the nudge, and, per name, whether its poller was connected to the rclone
that serves the name now. Time is the order of deadlines: a deadline may have passed whenever the
watcher wakes. A request is under way from `Request` to `ActedOn` or `Refused`; in between the
supervisor may replace the rclone of its name (`Cycle`, `Remount`). `acted_on` names the mount and
then wakes the watcher; a tick between the two merely takes the name early, so they are one step.
Left out: the best tier and the D-Bus properties, and an rclone that dies and is restarted by
systemd between two sweeps, which no request names and whose poller stays (watch.rs:73-76 speaks of
requests only).

**Tray.** The service is `Registry` with `Tick` and `Emit`, living and dying (`ServiceStops`,
`ServiceStarts`): each life has its first tick before the name is taken. The linker's `step` is where
it is, from making its two connections on: the await of `attach_and_serve`, or a wait; `streams` and `queue` are the signal streams it holds, one per
kind, of which `select!` takes any; `listed` and `asked` what `gather` has so far; `link`, `mounts`
and `transfers` the model. `owners` counts `NameOwnerChanged` events, which are buffered apart
from the signals. The connections may go at any moment (`BusLost`), a question be answered with any
error or with silence (`GivesUp`), of which some cost the connections as well, or, if it is of a reading, be
passed over (`PassOver`; `missed` is history, the names left without a figure there was); a change of what the
service says of itself is read again (`PropertyChanged`, `Restate`). Left out: the 64 signals a stream
may buffer before the bus connection waits, and an announcement that fails (logged, and only when
the connection is gone). Only a sweep looks at the world, so it moves only before one. What the user
does is `Menu`'s.

**Mirror** says what both halves are for. `Change` rewrites the table, `Deliver(k)` gives the copy
what the table holds of `k` now, and what differs is delivered in the end. `Watcher` implements it twice, for
rows and for figures. A tick changes rows, then drops and reads figures over several polls, and then
publishes one signal at a time; that no signal carries what is no longer so is the invariant
`ListenerInv` below.

**Ipc, Link.** A view of a mount is its state with the two flags that travel with it. A state or a tier
this build does not know (`Novel`) comes from a newer service. Errors are told apart by name
(`FromZbus`, `FromIpc`), which decides the exit code, whether to offer to start the service, and
whether the connections are made anew (`Broken`).

**Surfaces** is pure: `Summary` counts rows and readings, and `State`, `MountedLine`, `PendingLine`,
`RateLine`, `PendingHeadline` (the menu) and `PendingSummary` (the command line) draw from it. A
sentence is what it claims. `SurfacesAreHonest` relates them, and relates them to the readings.

**Menu.** ksni builds the menu again after every edit and keeps the ids of one of the same shape; the
panel draws what it fetched last. A menu is what it says and the sets of names its rows are of, which stand in
the order of the table (`InOrder`). So `stored` is the menu whose callbacks run, `panel` the one that is
drawn, and a `Click` is at a place of the one and runs what is at that place of the other. Callbacks
look at the model as it is then (`CanGo`). `tasks` is a bag of the actions under way, each of which may
succeed or fail whenever it likes, into one `notice`. The linker's edits come in from outside: any
table, any row, any order that `Tray` allows and more.

**Reasons, Rows.** `WhatTheUnitSaid` and `FailureReason` make the reason of a failed mount out of a
journal; `Block` and `Wrap`, `Clip`, `EscapeLabel` fit it into rows. Characters are kinds of character;
a word nothing looks into, such as rclone's echo of its command line or a quoted argument, counts as one.

**Config, Rclone, Mountinfo, Units.** Names, masks, sizes and ages are what their spellings are made of;
`Validate` and `MountArgs` are the code's, `ReadUmask`, `TakesSize`, `KernelLine` what rclone and the
kernel make of them. `StartTransient` is the unit systemd is asked for, `ListUnits`, `OrphanName` and
`RcloneAt` what is read back after a restart, `PrepareMount` what clap makes of the hook's arguments.
systemd is taken to keep an argv as it was given.

**ConfigFile, ConfigStore.** `save` goes `create_dir_all`, `create`, `write_all`, `sync_all`, `rename`,
`sync dir`, each of which may fail. `ProcessDies` keeps the files and forgets the rest; `PowerFails` may cut short what
was not synced, and of a rename that was not synced keeps either file. `temps` are the temporary files by the number in
their names, `kept` what the disk may hold under the file's own name. An identifier of a process may
come again, so only the number tells temporaries apart. `ConfigStore` says what that amounts to: a save
takes effect at once or says it did not, and a power cut leaves something that was saved whole.

**Service.** `at` is how far `main` is: `Loads` (one read of the file), `Discovers`, `Connects` (systemd,
the first sweep, the bus name), `Saves`, and `Ends` at any point. Save has no caller in the source yet
("The service is the only writer", `config.rs:11`); the service's own threads are taken to be its
callers. The user edits the file by hand, at any moment.

**Transfer.** A reading is a `TransferState`: `tier` is its fidelity, `known` its
`outstanding_known`, `count` and `files` what is outstanding, `progress` whether some of it has
byte totals, `rate` none, zero or some. A file is its name: sizes, remaining bytes, attempts, cache
health, the smoothing arithmetic and the reason texts are left out.

**Poller.** `caps`, `cachePath`, `metaPath`, `mode` and `sampled` are the fields of `MountPoller`;
`pc` is the command `poll` awaits, or the walk of the disk; `cache` its `CacheProbe`. Each action is
the code from one await to the next, its early returns included. `rclone` is who answers on the
socket now, a record of its tree, cache mode and commands; `status[f]` is what becomes of a file:
clean, open and dirty, closed and queued, or streaming past the cache. Between two awaits files are
opened, closed, renamed and uploaded, and rclone crashes or is replaced. Any call may find it silent
(`Unreachable`) or at fault (`Faulted`). A walk takes one entry at a time: an entry is read as it is
then, or cannot be read, and the walk may stop at the cap, fail, or run out of time.

Four variables are history. `always` are the files that waited all through the poll, `emptied` says that
at some moment of it none did, `sure` that rclone is still who last answered vfs/stats, and `since`
whether the last poll saw bytes to sample. `sure` excuses a reading of an rclone replaced within
the poll or while silent: nothing in the code could know. Left out, besides what `Transfer` leaves
out: `interval` and the reason texts. `Rc` is what a call is made of: where the socket is (`Verify`), what
the one who answers does (`Attempt`), and the attempts within one budget (`CallRaw`); the poller's
`Unreachable` and `Faulted` are its two kinds of failure.

A walk is no snapshot. While it goes on one file may be written behind it and another sent, so
`SafeWasTrue` leaves T4 out; and a file renamed into a directory already listed is missed by a walk that
then counts as complete. `KnownLeavesNothingOut` is therefore of files that waited under one name all
through the poll.

## What is checked

Twelve runs. Of the supervisor's, all have two names, and one point (`rename`, `reported`, `detached`) or two
(the others); a rename needs the first, a moved or exchanged mount point the second, two entries that
resolve to one point either. One client is
enough for what a request does to the host; the locks need two, and no property relates three.

| Run | Instance | Shows | States |
| --- | --- | --- | --- |
| `rename` | 1 client, entry renamed a to b, every outside event, both spellings of a source | `StartFindsNameFree`, `UnforcedStopCutsNobody`, `OnlyARunningUnitVouches`, `MountClearsOnlyLeftovers`, `UnmountOkLeavesNothing` | 327 k |
| `moved` | 1 client, every config of 2 names and 2 points up to names, shared points included, every host; holders and aborted connections | `OursIsNeverForeign`, `OwnMountsStayStoppable`, `MountedRowIsOurs`, `UnmountOkMeansDown` | 3.3 M |
| `answered` | 2 clients unmounting, points exchanged, fair | `TypeOK`, `LocksGuard`, `UnitExclusion`, `RequestsEnd` | 276 k |
| `watch` | a configured mount, an orphan, a stranger, 2 figures, 2 ways of being down, fair | `ListenerIsOwed`, `NoFigureOnceDown`, `ReplacedPollersAreNamed`, `NudgeIsHeeded`, `Mirrored` (refinement), `ToldInTheEnd` | 216 k |
| `tray` | a configured mount, a stranger, 1 figure, fair | `ConfiguredRowsSettle`, `FiguresSettle`, `OldRowsAreDoomed`, `AttachesInTheEnd`, `SaysItIsDown` | 1.2 M |
| `poll` | 2 files in one tree, 1 in another; 6 rclones: both trees, three modes, builds without `vfs/stats` or `vfs/queue`; fair | `PollerTypeOK`, `SafeWasTrue`, `KnownLeavesNothingOut`, `CallsAreHonest`, `KnownNeedsEveryWriteQueued`, `RateSpansNoLapse`, `MonitoredInTheEnd` | 217 k |
| `menu` | 2 rows of 4 views, 2 ways of being down, 2 actions under way; readings of at most 1 file; rows of 7 characters | `NoticesAreOpen`, `RowsAreReadable`, `SurfacesAreHonest`, `ClicksAskWhatWasDrawn`, `RefusalsStay` | 1.1 M |
| `save` | 2 savers, 3 configs (one invalid), a file from the future; 3 places for an rclone; all short spellings | `StartsAreAccountable`, `OwnMountsAreRecognised`, `WhatIsAcceptedWorks`, `SavesAreAtomic` (refinement) | 768 k |

The other four are the disagreements below.

Deadlock is checked in every run but `menu`, whose tray may have been told to quit. Bounds of the supervisor's runs: `Happens` names the outside
events of a run (foreign mounts and holders multiply states and are left to the one-client runs),
`Asks` the requests (`answered` asks for unforced unmounts only: a mount waits for one lock, never
holding another), `Locks` the mutexes that can exist at once (one per name and one more per client
that may still hold a removed one), `Unreadables` the argvs a sweep fails to read.

Names do not interact in `Registry` and `Watcher` but through the one loop they share, so one of
each kind is enough, with two figures and two down states so that a change from one to the other is
seen. In `tray` a tick starts only while fewer than `MaxLag = 2` signals wait, which lets two ticks'
signals of one name wait together (a row that appears and goes again). The service stops only while
fewer than `MaxEvents = 1` name events wait, and its start may add one: a stop and a start can both
go by before the tray reads either, as on a quick restart.

In `poll` two files in one tree are enough for one to be missed while the other is seen, or be sent
while the other is written, and a second tree with a file of its own for a scan of the wrong one.
`full` is not told from `writes`, nor a build without `core/stats` from one whose call fails.
`CallsAreHonest` goes through every three attempts and every socket in one state for each rclone.

In `menu` two rows are enough to take one for the other, and two actions for the outcome of one to come
while the other's is shown. `SurfacesAreHonest` and `RowsAreReadable` are of tables, not of behaviour: they
are evaluated where nothing else goes on, over every table with every assignment of readings the
service can publish, and over every journal of two entries and every kind of reading. Seven characters
to a row are enough for words that fill it, overflow it, and overflow every row there is.

In `save` two savers are enough for one to use what the other left, and two saves of one process for a
number to be used again after a crash (`SaveSeq = 2`). `OwnMountsAreRecognised` and `WhatIsAcceptedWorks`
are looked at before anything has happened, over all names, paths, masks, sizes and extra arguments
of up to three characters of the kinds the code tells apart, and every log filter from either door.

`UnforcedStopCutsNobody` and `UnmountOkMeansDown` except a unit whose point another unit was started
for (`Contested`): there the code can be led astray, see `contested` below. They,
`OnlyARunningUnitVouches` and `MountClearsOnlyLeftovers` speak, where a lost race is inherent in
releasing by path, of requests whose point nobody else came to serve meanwhile (`intact`).
`MountClearsOnlyLeftovers` lets `mount` clear a dead point with a unit of ours behind it only when the
config's own entry runs there, which then answers for the point. `OursIsNeverForeign` allows a foreign
row over a mount of ours in one case: two entries resolve to its point, and the row is the one's
whose unit is down while the other's serves.

**Fairness.** `RequestsEnd` assumes `WF(Operation(c))`: every await of the code is bounded by a
deadline or is a call that returns or fails; and `SF(Lock(c))`: tokio's mutexes are FIFO, so a
request that is queued is not passed over for ever. Nothing outside is assumed to happen, and no
client to ask.

`ToldInTheEnd` assumes that a tick that has begun is carried out (`WF` of its steps), that the
sweep's deadline passes in the end, which polls and nudges never put off (`SF(TickSweep)`:
`next_sweep` is only ever moved forward by a sweep, and `tick` compares it with the clock first),
and that systemd does not refuse every sweep there will ever be (`SF(SweepEnds)`). `tray` assumes
`WF(Linker)` alone: the task runs. It does not assume that the service ticks or emits, nor that
`select!` is fair among its arms. `AttachesInTheEnd` is conditional: the service stays up, and from
some time on answers within the tray's patience.

`Mirrored` is under the same fairness, and so claims the liveness of `Mirror` too: `WF` of every
delivery. `tray`'s `WF(Linker)` includes `Connects`: there is a session bus in the end.

`poll` assumes `WF(PollStep)`: every await of a poll ends by an answer or a deadline, and the watcher
polls again. `MonitoredInTheEnd` is conditional on calls that from some time on do not fail and an
rclone that stays; it excuses a poller whose commands, first learnt from a build with fewer, are none the
present build has (`caps` is probed again only while it is empty).

### Disagreements found

Four runs expect a violation; each is a statement of the repository that the code does not keep.

* `detached`: a held foreign mount is detached by a forced unmount of an entry whose unit is failed
  or restarting (`supervisor.rs:1076`, against `DESIGN.md:301`).
* `reported`: `mount` answers ok over a foreign mount (`supervisor.rs:903-909` and `:656`,
  against the comment at `:917`).
* `contested`: config a at p and b at q; b's old unit, waiting to restart at p, mounts there while
  a mount of a is starting for p. Until a's unit gives up it vouches for p, so b is not seen as
  an orphan, and an unforced unmount of b signals its rclone without asking the kernel
  (`:419`, against `:409` and `DESIGN.md:282`).
* `ghost`: signals of different kinds are separate streams (`tray/watch.rs:244-248`) and `select!`
  takes from any, so a removal can be applied before the appearance it followed; a foreign row that
  came and went stays drawn until something asks for a resync. `core/ipc.rs:18-20` says that applying
  the signals buffered since the snapshot catches up. Configured rows are never removed, so they and
  all figures do settle (`ConfiguredRowsSettle`, `FiguresSettle`).

## What is proved

Every safety property the runs check is also a theorem, for all values of the constants under the named
assumptions. What is left to TLC alone is liveness (see the end of this section).

Of the supervisor's locks, for finitely many names and clients, distinct markers, and configs that map
names to points:

* `TypeCorrect`: `Spec => []TypeOK`;
* `LocksCorrect`: `Spec => []LocksGuard`;
* `Exclusion`: `Spec => []UnitExclusion`;
* `StartSafe`: `Spec => []StartFindsNameFree`.

The inductive invariant is `IInv == TypeOK /\ LocksGuard /\ MountsAreConfigured`. `UnitExclusion`
alone is not inductive: it says nothing of requests still waiting. `LocksGuard` supplies what is
missing. A request that acts owns the mutex of its unit's name (`HeldByPc`), and every request
that looked a name up has the mutex the map still has for it (`HeldByMap`), so two requests that
act on one unit would own one mutex. The delicate step is `UnknownName`, which removes a map
entry: with a reference count of two the map and the request itself are the only holders (lemma
`OnlyUser`, on cardinalities), so nobody's `HeldByMap` is disturbed. `MountsAreConfigured` is what
makes `TakeLock` of a mount type correct. `Operation` steps are shown one by one to move one
client, keep every other client's variables (`OperationLocal`), and touch the lock map only where
the invariant allows it.

`StartFindsNameFree` adds to `IInv` that only a request past its wait is at `start`, and that no
other request's call can start that unit meanwhile (by `UnitExclusion`); systemd's own steps never
revive a unit that is inactive or failed.

Of its stops, releases and sweeps, from the same assumptions:

* `Released`: `Spec => []RInv`;
* `StopsCutNobody`: `Spec => UnforcedStopCutsNobody`;
* `RunningUnitsVouch`: `OnlyARunningUnitVouches`;
* `OnlyLeftoversCleared`: `MountClearsOnlyLeftovers`;
* `OkMeansDown`, `OkLeavesNothing`: `UnmountOkMeansDown`, `UnmountOkLeavesNothing`;
* `SweepsAreTrue`: `[](OursIsNeverForeign /\ OwnMountsStayStoppable /\ MountedRowIsOurs)`.

`RInv == IInv /\ ServedByUnits /\ Kept`. `ServedByUnits` is of the host: a live mount of ours is served by
the unit whose argv names its point, so a unit that serves has one point (`ServesItsArgv`); `Effect`
lists the five things an operation does to the host, and none breaks it. `Kept` is of requests: `At(c, s)` says what
`c` has established about its target where it awaits `s`, that nothing but its point is served by its unit
from the moment the target is found (or it is `Contested`), that nothing is mounted there from the moment the kernel let go or
`live` was read false, that a foreign mount at its point had a running unit's word. Of every action two
things are shown: that its own request arrives at a step knowing what `At` says there, and that for all
others (`Elsewhere`) either nothing of theirs moved or `intact` remembers it (`UndisturbedAlone`, `Undisturbed`). The
action properties then read off what `At` says at the step before. What a sweep reports follows from
`ServedByUnits` alone: a unit that serves is at home, or an orphan, or shares its point with one at home
(`UpIsAccounted`). The proofs are why two statements have an exception: for two entries at one
point (`OursIsNeverForeign`), and for argvs that cannot be read (`MountClearsOnlyLeftovers`).

Of `Registry` and `Watcher`, for any three disjoint sets of names and any figures:

* `WatcherTypes`: `WatcherSpec => []WatcherTypeOK`;
* `ListenersAreOwed`: `[]ListenerIsOwed`;
* `FiguresAreOfTheMounted`: `[]NoFigureOnceDown`;
* `PollersAreForgotten`: `[]ReplacedPollersAreNamed`;
* `NudgesAreHeeded`: `[]NudgeIsHeeded`;
* `RowsImplementMirror`, `FiguresImplementMirror`: `WatcherSpec` implements `Mirror` for the rows and for
  the figures, liveness apart. A step that publishes delivers an entry as the table holds it
  (`PublishDelivers`, from `ListenerInv`), and every other leaves the copy alone (`OthersTellNothing`).

The invariant is `WatcherInv`. Its core, `ListenerInv`, adds to the three properties `TickInv`: a
sweep begins with nothing left to publish, only names that serve are still to be polled, and
those have had no reading published in this tick. Without it a sweep's drop and a poll's figure of
one name could both be owed, in either order. `NudgeInv` adds to `NudgeIsHeeded` what holds between a
wake and the end of its tick; `ReplacedPollersAreNamed` is inductive by itself, given types. What is of
the registry alone is in `RegistryProofs`, for the tray's service is that registry too.

Of `Tray`, for any names, figures and bounds:

* `CopyIsCurrent`: `TraySpec => []TrayInv`;
* `RowsSettle`, `ReadingsSettle`: `[]ConfiguredRowsSettle`, `[]FiguresSettle`;
* `OldRowsGo`: `[]OldRowsAreDoomed`.

The properties speak of moments when nothing is on its way; the invariant must say what holds while
something is. The copy may lag in three places: a change the service has not published, a signal the tray
has not applied, a reading it has not asked for. `CopyInv` says that an entry for which none of the three
is outstanding is the registry's, in a snapshot that is being filled as in the table that is drawn, or is
missing because its reading was passed over (`missed`) and none has been said since. A
snapshot may be newer than a signal applied to it afterwards, so nothing is claimed of an entry while a
signal of it waits, but that the last in its stream says what a listener was last told (`LastSays`): once
that one is applied the entry is `told`, and `told` differs from `rows` only by what is still to be published,
which is the registry's own `ListenerInv`. Streams are apart (`GuestsInv`), so this goes one kind at a time;
it fails for rows of strangers, whose removal comes in a stream of its own (the run `ghost`). `SessionInv`
says where the linker may be with which streams, link and owner, and has `OldRowsAreDoomed` in it.

Of `Poller`, for any finite set of files in any trees and any rclones:

* `PollerTypes`: `PollerSpec => []PollerTypeOK`;
* `SafeIsTrue`: `[]SafeWasTrue`;
* `KnownIsComplete`: `[]KnownLeavesNothingOut`;
* `RootsAreLatched`: `[]RootsAreThisRclones`;
* `UnreadFailsClosed`: `[]KnownNeedsEveryWriteQueued`;
* `RatesAreFresh`: `[]RateSpansNoLapse`;
* `CallsEnd`, `CallsAreAllHonest`: any three attempts, of whatever length, make an honest call; `[]CallsAreHonest`.

The properties speak of a reading that is finished; the invariant, `PollInv`, says what each source
has established on the way there. `RcloneInv`: a latched mode that queues every write is still the
mode in force while `sure`, so nothing streams past the queue. `HistoryInv`: what waited all
through the poll waits now, which is what a queue read at this moment must contain. `CacheInv`: the
count of `vfs/stats`, used a call later, is at least the number of those files, and was zero only if
nothing waited. `QueueInv` says the same of a reading that waits for `core/stats`. `WalkInv`: of a walk that has
missed nothing so far, those files are among the found or the still to visit. Every way out of
`poll` then returns a reading that `Tells` the truth (`QueueTells`, `StatsTells`, `PartialTells`).

`RateInv` says when a sample can outlive a poll without bytes: only where this rclone lists no queue
(`ListsQueue`), and such a poll gives no rate. `CallRaw` is a recursive function on the number of attempts;
`CallUnfolds` shows that it exists and is `Third(tries)`, and each of the three steps stays `Under` the budget.

Of `ConfigFile` and `Service`, for any savers, any number of saves and any contents:

* `TemporariesAreOwn`: `FileSpec => []FileInv`;
* `SavesImplementStore`: `FileSpec => SavesAreAtomic`, which is `ConfigStore`'s specification with `file` as
  its value, what `kept` holds as what may last, and the thread's `at` telling what it has asked;
* `ServiceSavesAtomically`: `ServiceSpec => SavesAreAtomic`, the same of the whole service;
* `StartsAccount`: `ServiceSpec => []StartsAreAccountable`;
* `AcceptedWorks`: `[]WhatIsAcceptedWorks`, for names, paths, masks, sizes and extra arguments of any length;
* `OwnMountsAreKnown`: `[]OwnMountsAreRecognised`, likewise.

`FileInv` says that a number in use was given out by this process and to one thread (`NamesAreOwn`), and
that what is about to be renamed is whole and on the disk (`TempsAreWhole`); the second rests on the
first. Each step of a save is then a request, a taking (`rename`), an answer, or nothing to the store;
and each step of the service is a step of the file or leaves it alone (`ServiceMovesFile`). `StartInv` carries
what was read (`seen`) through the start: how far it came, and which rclone it may run, follow from it.
That every accepted configuration is written as something `Load` can read is `ServiceAssumption`, which
TLC evaluates in `save`.

The last two are of texts; TLC computes them over all short ones, and what they rest on is proved in
`TextProofs` once for every text. A fold from the left exists (`FoldExists`), and grows with the text it
folds (`RunExists`, `FoldedGrows`), so a reader that is one, of a command line, an escape code or a table, can be
followed word by word. An encoding that replaces each character by a word of its own is a `Spread`, and
texts of one spread are equal if each word tells its character and no word begins another (`SpreadTells`):
the sockets of two mounts differ for that reason (`SocketNamesTell`), and their units because an accepted name is
written as it is (`NamesApart`). `LineIsRead` reads the command
line the service writes back, option by option, with whatever `extra_args` put in between: what rclone understands
is what was configured, the mask included (`UmaskSays`, `EffectiveIs`). For `OwnMountsAreKnown` the
kernel's line is cut into fields (`LineIsCut`: what is joined with a separator that is in none of its parts is
split into them), each field is unescaped to the text that was escaped (`UnescapeEscapes`, from codes read on
from any state, `CodeIsRead`), and the parts found are the mount's (`KernelLineIsParsed`); a unit is told and shown by
systemd as it was started (`SystemdKnows`). What may be spelled is `SpellingsAssumption`, which allows any sequence of
characters and numbers where the code does; a word of `extra_args` is bare, a flag complete in itself (`--option=`
stands for one with its value joined), `--option` for any that takes the next word, or about mask or socket.

Of `Menu`, for any mounts, views and bounds:

* `NoticesStayOpen`: `MenuSpec => []NoticesAreOpen`, inductive by itself: what leaves table, link and notice
  alone cannot answer a refusal, and what is recorded is open or says that it is late;
* `RefusalsLast`: `MenuSpec => RefusalsStay`;
* `ClicksLand`: `MenuSpec => ClicksAskWhatWasDrawn`;
* `SurfacesStayHonest`: `[]SurfacesAreHonest`;
* `RowsStayReadable`: `[]RowsAreReadable`, for any width of a row, any cap, any journal and any files.

`ModelInv` has the table within the names, a bag of actions, and no table without a link; it carries
`RefusalsLast` by cases on what may empty a notice. `DrawnInv` is why clicks land: unless a refresh came between
(`resynced`), menus of one shape have rows of the same mounts, for edits of a row change neither set and
only add, which changes the shape (`OneRowChanges`, on cardinalities). `SurfacesAreHonest` says of sums and
counts over all mounts what must hold of each: a total is zero only if every part is (`SumOfCounts`), so
nothing is claimed of a mount that was not counted.

`RowsAreReadable` says that no row drawn is longer than a row and its mark, that what was left out is marked, and
that a submenu has the rows a click counts on. `Wrap` is followed from the word up: the pieces a long word is split into are that word
(`PiecesOfAWord`, by the quotient of its length); laying a piece keeps every row narrow and loses no ink, that is no
character but blanks (`LaidOutGrows`, `NothingIsLost`); so the rows of a text are the whole of it, or the first of them with
the last cut short and marked (`CutRow`, `WrappedIsReadable`). The panel takes an underscore for a
mnemonic: `EscapeLabel` is a spread the panel undoes (`DrawnWhole`), also of what was cut (`BlockDraws`). That a reason
says something, repeats no argument the user gave, and is the unit's own words if there are any, holds of any journal
(`ReasonTells`, `OwnWordsSuffice`), provided no such argument is itself one of the service's words (`JournalsAssumption`).
How many rows a submenu has is counted from its parts
(`Stacked`), and does not change with what is read (`ShapeIsKept`).

What is proved from: the named `ASSUME`s, which TLC evaluates in the runs above; the proof modules'
own facts on finite sets and sequences; nothing else.

Only model-checked: liveness (`RequestsEnd`, `Mirrored` as a whole, `ToldInTheEnd`, `AttachesInTheEnd`, `SaysItIsDown`,
`MonitoredInTheEnd`), which is out of the prover's reach, as is ENABLED; of `Mirrored`, all but its fairness is
proved. The library's induction rules take an operator as a parameter and cannot be used with the provers there
are. Where a proof needs an induction over data (a fold, `SumOfCounts`, `CallUnfolds`) it is an argument about
the least counterexample (`WFMin` of `WellFoundedInduction`), stated in `TextProofs` of a set of indices
(`Induction`), and shows first that the recursive function exists. No module declares a RECURSIVE operator;
`RootsAreLatched` is proved of a property no run needs any more.

## Known limits of the code

Met while modelling, and left out of a property by its statement or its comment; none contradicts what the
repository says as plainly as the four runs do.

* A unit whose argv cannot be read is trusted to be where the config has it (`supervisor.rs:421`): an unmount
  that was misled so is not held to what it would have seen.
* Two entries whose points resolve to one (`config.rs:700`): while the one's unit serves, the other's row
  says foreign. The mount can be unmounted under the name of the one.
* An unmount can answer ok and leave a failed unit: where it gave up waiting for the unit and then found the
  point released nothing is cleared (`supervisor.rs:1175`), `settle` may clear before the unit has failed, and a
  reset that systemd refuses or does not answer is passed over (`systemd.rs:430`; `ResetFailed`). The row says failed, and
  where no reset works the next start is refused. What an unmount's ok does promise is `UnmountOkLeavesNothing`.
* A refusal recorded after its mount got there, or after its row went, stays until something else is asked
  (`tray/model.rs:327`; `late` in `Menu`), and a resync keeps a notice its new table answers. While the
  link is down, the next failed attempt wipes the refusal of "Start service" (`go_down`).
* A refresh that exchanges one row for another keeps the menu's shape, so a click on what was drawn
  before it can ask something of the other mount (`tray/menu.rs:305-313`; `resynced`).
* A row that stays down but for another reason is announced without its reading, so a client that listens
  keeps an older reason than one that asks is given (`registry.rs:54`, against `dbus.rs:132-134`).
* The command line says "N file(s), 0 bytes" of files without a size (`tray/client.rs:292`), which the menu
  words as unknown.
* A walk of the cache misses a file renamed into a directory already listed, and a rate can outlive two
  replacements of an rclone under one poller (`poller.rs:181`).
* A mount whose name begins with "-" is accepted (`config.rs:627`) and started, but clap refuses its hook's
  `--name`, which systemd is told to ignore: a stale point is then not cleared (`supervisor.rs:264`).
* `effective_umask` and rclone differ where the value of another flag is spelled like `--umask`
  (`MaskIsAValue`).
* A `RUST_LOG` is taken as it is once trimmed (`core/lib.rs:60-63`): a misspelled level there is a target that
  matches nothing, and silences the process, where the flag would be refused.
* A reading of a snapshot that fails, for whatever reason, is passed over (`tray/watch.rs:454`): the figure stays
  missing, which the surfaces count as unreadable, until it changes, a refresh or the next attachment.
* Temporary files a crash leaves behind are never removed, and `save` does not look at the version it writes.

## Plan

1. *(done)* `Host`, `Supervisor`, their properties, the lock invariant and its proofs.
2. *(done)* `Registry` and `Watcher`, with a client that folds what is published, its proofs, and the
   mirrored tables they implement.
3. *(done)* `Tray`: tables, link, connections. `Menu` with `Surfaces` and `Rows`: clicks, actions, notices.
4. *(done)* `Transfer`, `Poller`, `Rc`, and the poller's proofs.
5. *(done)* `ConfigFile` implementing `ConfigStore`, proved; `Service`, `Config`, `Rclone`, `Units`, `Mountinfo`.
6. *(done)* Proofs of the supervisor's action properties and sweeps, of the tray's settling properties, of
   clicks, refusals and surfaces, of rates and calls, of starts; of the texts: what a row says, what a command
   line is read as, and that the service's own mounts are known by what systemd and the kernel show of them.
7. For the supervisor: an abstract mount lifecycle per unit (down, coming up, up, going down) that
   `Supervisor` implements; a step between the sweep and the status read of `unmount_target`.

## Not modelled

* HTTP framing and JSON of the rc client, D-Bus wire encoding, TOML: conversions whose libraries are not
  in the repository. What their results are used for is modelled.
* Wording, number formats, icons and pixmaps, the About submenu: no property is about them.
* The actor that owns the tray's connection to ksni, and systemd's and the kernel's own workings beyond what
  the code relies on.
* Time: deadlines may pass whenever what they wait for is not there; only the budget of an rc call counts.
* `note_tier` and the four D-Bus properties, which tell a client what the service is and not what its
  mounts do; `list_remotes` and `config_paths`, which nothing calls; the GTK stub (28 lines that print a
  message); the test utilities and fixtures.
