-------------------------------- MODULE Poller --------------------------------
(***************************************************************************)
(* One mount's poller (crates/service/src/poller.rs), from one await to    *)
(* the next, and the rclone behind its socket.  While a poll asks, files   *)
(* are written, closed, renamed and uploaded; rclone may crash and come    *)
(* back, or be replaced by one with another cache, mode or build; and any  *)
(* call may find it silent or at fault.                                    *)
(*                                                                         *)
(* The walk of the cache (crates/core/src/scan.rs) takes one entry at a    *)
(* time.  That a cache's tree is gone, cannot be listed, or takes too long *)
(* to walk may happen at any walk.  Two samples of the rate are never of   *)
(* one instant.                                                            *)
(***************************************************************************)
EXTENDS Transfer

CONSTANTS Roots,    \* cache trees
          RootOf,   \* the tree a file is kept in
          NoRoot,   \* no tree is known
          Rclones   \* what may answer on the socket: its tree, cache mode and commands

Commands == {"vfs/stats", "vfs/queue", "core/stats"}

\* "full" is "writes" as far as a poller can tell.
Modes == {"off", "minimal", "writes"}

\* The mode is not known: not reported, or not one of these.
Unread == "unread"

ASSUME PollerAssumption ==
    /\ IsFiniteSet(Files)
    /\ RootOf \in [Files -> Roots]
    /\ NoRoot \notin Roots
    /\ Rclones \subseteq [root : Roots, mode : Modes, commands : SUBSET Commands]

VARIABLES rclone,    \* who answers on the socket
          status,    \* what becomes of each file
          caps,      \* MountPoller::caps, empty until a probe is answered
          cachePath, metaPath, mode,  \* what the last vfs/stats said
          sampled,   \* MountPoller::rate holds a sample
          pc,        \* where poll() is: the command it awaits, or a walk
          cache,     \* its CacheProbe
          left,      \* entries the walk has still to visit
          found,     \* the dirty ones it has seen
          torn,      \* it could not read one, or stopped early
          reading,   \* what it returns
          always,    \* history: files waiting since this poll began
          emptied,   \* history: at some moment of it nothing waited
          sure,      \* history: rclone is who last answered vfs/stats
          since      \* history: the last poll had bytes to sample; a later one had not;
                     \* or another rclone has come since

RC == INSTANCE Rc

env == <<rclone, status>>
latches == <<caps, cachePath, metaPath, mode>>
walk == <<left, found, torn>>
history == <<always, emptied, sure, since>>
pollerVars == <<env, latches, sampled, pc, cache, walk, reading, history>>

NotAsked == [kind |-> "not asked"]
NoCache == [kind |-> "absent"]
Present(count, said) == [kind |-> "present", count |-> count, mode |-> said]

NoReading == EmptyReading(Unasked)

\* CacheMode::all_writes_queued, of a mode that may not be known.
AllWritesQueued(m) == m = "writes"

(***************************************************************************)
(* Files and rclone                                                        *)
(***************************************************************************)
Held(root) == {f \in Files : RootOf[f] = root}

Queue == {f \in Held(rclone.root) : status[f] = "queued"}

\* Dirty is set when a file is written; it is queued when it is closed.
Dirty(root) == {f \in Held(root) : status[f] \in {"open", "queued"}}

\* What no reading may pass over: closed and not uploaded, or streaming past the cache.
Waiting == {f \in Held(rclone.root) : status[f] \in {"queued", "stream"}}

Noticed ==
    IF pc = "idle" THEN UNCHANGED <<always, emptied>>
    ELSE always' = always \cap Waiting' /\ emptied' = (emptied \/ Waiting' = {})

FileMoves(new) ==
    /\ status' = new
    /\ UNCHANGED rclone
    /\ Noticed
    /\ UNCHANGED <<latches, sampled, pc, cache, walk, reading, sure, since>>

\* Under minimal a write-only open of a file that is not cached streams, under off all do.
Opens(f) ==
    /\ f \in Held(rclone.root)
    /\ status[f] = "clean"
    /\ \/ rclone.mode # "off" /\ FileMoves([status EXCEPT ![f] = "open"])
       \/ rclone.mode # "writes" /\ FileMoves([status EXCEPT ![f] = "stream"])

Closes(f) ==
    /\ f \in Held(rclone.root)
    /\ \/ status[f] = "open" /\ FileMoves([status EXCEPT ![f] = "queued"])
       \/ status[f] = "stream" /\ FileMoves([status EXCEPT ![f] = "clean"])

Uploads(f) ==
    /\ f \in Queue
    /\ rclone.mode # "off"
    /\ FileMoves([status EXCEPT ![f] = "clean"])

\* rclone renames an entry with its file, from one directory to another.
Renames(f, g) ==
    /\ f \in Queue
    /\ g \in Held(rclone.root)
    /\ status[g] = "clean"
    /\ rclone.mode # "off"
    /\ FileMoves([status EXCEPT ![f] = "clean", ![g] = "queued"])

\* It dies; what was open stays dirty on disk.  What comes in its place is the same
\* again, or another.
ReplacedBy(r) ==
    /\ rclone' = r
    /\ status' = [f \in Files |->
                     CASE f \in Held(rclone.root) /\ status[f] = "open" -> "queued"
                       [] f \in Held(rclone.root) /\ status[f] = "stream" -> "clean"
                       [] OTHER -> status[f]]
    /\ sure' = (sure /\ r = rclone)
    /\ since' = IF r = rclone THEN since ELSE "replaced"
    /\ Noticed
    /\ UNCHANGED <<latches, sampled, pc, cache, walk, reading>>

\* A poll's reading is handed on as soon as there is one.
Environment ==
    /\ pc # "done"
    /\ \/ \E f \in Files : Opens(f) \/ Closes(f) \/ Uploads(f)
       \/ \E f, g \in Files : Renames(f, g)
       \/ \E r \in Rclones : ReplacedBy(r)

(***************************************************************************)
(* A poll                                                                  *)
(***************************************************************************)
Has(command) == command \in caps

Goes(next) ==
    /\ pc' = next
    /\ UNCHANGED <<env, since>>
    /\ Noticed

\* poll() returns r.
Returns(r) ==
    /\ Goes("done")
    /\ reading' = r
    /\ cache' = NotAsked
    /\ left' = {} /\ found' = {} /\ torn' = FALSE

Continues(next) ==
    /\ Goes(next)
    /\ UNCHANGED <<walk, reading>>

\* Mutant: an rclone that was not there to be probed is not probed again.
BeginOnce ==
    /\ pc = "idle"
    /\ pc' = IF caps = {} THEN "done" ELSE "vfs/stats"
    /\ always' = Waiting
    /\ emptied' = (Waiting = {})
    /\ reading' = IF caps = {} THEN Unmonitored ELSE reading
    /\ UNCHANGED <<env, latches, sampled, cache, walk, sure, since>>

Begin ==
    /\ pc = "idle"
    /\ pc' = IF caps = {} THEN "rc/list" ELSE "vfs/stats"
    /\ always' = Waiting
    /\ emptied' = (Waiting = {})
    /\ UNCHANGED <<env, latches, sampled, cache, walk, reading, sure, since>>

\* Capabilities::probe: whoever cannot be asked, or refuses, has no commands.
Answers == {rclone.commands, {}}

\* rc/list, asked again on every poll until it is answered.
Probe ==
    /\ pc = "rc/list"
    /\ caps' \in Answers
    /\ IF caps' = {} THEN Returns(Unmonitored)
       ELSE Continues("vfs/stats") /\ UNCHANGED cache
    /\ UNCHANGED <<cachePath, metaPath, mode, sampled, sure>>

ForgetRoots == cachePath' = NoRoot /\ metaPath' = NoRoot

\* Mutant: each root is kept as it comes.
LatchesEach(named) ==
    /\ cachePath' = IF "path" \in named THEN rclone.root ELSE cachePath
    /\ metaPath' = IF "pathMeta" \in named THEN rclone.root ELSE metaPath

LatchesRoots(named) ==
    IF named = {"path", "pathMeta"}
    THEN cachePath' = rclone.root /\ metaPath' = rclone.root
    ELSE ForgetRoots

\* fetch_stats, when something answers it.
StatsAnswered ==
    \/ /\ "vfs/stats" \in rclone.commands
       /\ \E said \in {rclone.mode, Unread} :
             /\ mode' = said
             /\ IF rclone.mode = "off"
                THEN ForgetRoots /\ cache' = NoCache
                ELSE /\ \E named \in SUBSET {"path", "pathMeta"} : LatchesRoots(named)
                     /\ cache' = Present(Cardinality(Queue), said)
    \/ /\ "vfs/stats" \notin rclone.commands
       /\ ForgetRoots
       /\ mode' = Unread
       /\ cache' = NotAsked

AskStats ==
    /\ pc = "vfs/stats"
    /\ Continues("vfs/queue")
    /\ IF Has("vfs/stats")
       THEN StatsAnswered /\ sure' = TRUE
       ELSE cache' = NotAsked /\ UNCHANGED <<cachePath, metaPath, mode, sure>>
    /\ UNCHANGED <<caps, sampled>>

\* A call that can fail is on the wire.
Asking == pc \in {"vfs/stats", "vfs/queue"} /\ Has(pc)

\* Mutant: a silence is no reason to forget the last sample.
KeepsSample == UNCHANGED <<sampled>>

ForgetsSample == sampled' = FALSE

\* unreachable(): the disk still has the answer, if the roots are known.
Unreachable ==
    /\ Asking
    /\ \E error \in RC!Errors : RC!IsUnreachable(error)
    /\ ForgetsSample
    /\ IF cachePath = NoRoot \/ metaPath = NoRoot
       THEN Returns(Unmonitored)
       ELSE /\ Goes("walk")
            /\ left' = Held(metaPath)
            /\ found' = {}
            /\ torn' = FALSE
            /\ cache' = NotAsked
            /\ UNCHANGED reading
    /\ UNCHANGED <<latches, sure>>

\* faulted(): it answers with an error.
Faulted ==
    /\ Asking
    /\ \E error \in RC!Errors : ~RC!IsUnreachable(error)
    /\ ForgetsSample
    /\ Returns(Unmonitored)
    /\ UNCHANGED <<latches, sure>>

\* A descriptor as it is now, if it can be read as one: rclone rewrites them in place.
ReadItem(f) == {IF f \in Dirty(metaPath) THEN "dirty" ELSE "clean", "unreadable"}

\* Mutant: an entry that cannot be read is not dirty.
VisitSkipping(f) ==
    /\ pc = "walk"
    /\ f \in left
    /\ left' = left \ {f}
    /\ \E item \in ReadItem(f) : found' = IF item = "dirty" THEN found \cup {f} ELSE found
    /\ Goes("walk")
    /\ UNCHANGED <<latches, sampled, cache, torn, reading, sure>>

Visit(f) ==
    /\ pc = "walk"
    /\ f \in left
    /\ left' = left \ {f}
    /\ \E item \in ReadItem(f) :
          /\ found' = IF item = "dirty" THEN found \cup {f} ELSE found
          /\ torn' = (torn \/ item = "unreadable")
    /\ Goes("walk")
    /\ UNCHANGED <<latches, sampled, cache, reading, sure>>

\* Nothing was unreadable, and the cap on entries was not reached before the end.
IsComplete == ~torn /\ left = {}

\* Mutant: what a walk found is the whole story, whatever the cache mode.
WalkEndsUnqualified ==
    /\ pc = "walk"
    /\ Returns(FromScan(found, IsComplete))
    /\ UNCHANGED <<latches, sampled, sure>>

\* Everything was visited, or the cap was reached.
WalkEnds ==
    /\ pc = "walk"
    /\ LET scan == FromScan(found, IsComplete)
       IN  Returns(IF AllWritesQueued(mode) THEN scan ELSE PartiallyObserved(scan))
    /\ UNCHANGED <<latches, sampled, sure>>

\* The tree is not there, cannot be listed, or was not walked in time.
WalkFails ==
    /\ pc = "walk"
    /\ Returns(Unmonitored)
    /\ UNCHANGED <<latches, sampled, sure>>

\* Mutant: a cache is enough, whatever its mode.
QualifiedByCache(r) == IF cache.kind = "present" THEN r ELSE PartiallyObserved(r)

\* Qualified by what vfs/stats said: only a cache of a mode that is known to queue
\* every write lets an empty queue mean that nothing is outstanding.
Qualified(r) ==
    IF cache.kind = "present" /\ AllWritesQueued(cache.mode) THEN r ELSE PartiallyObserved(r)

\* RateEstimator::sample: the first sample gives no rate, and a total that has not fallen
\* may give zero.
Sample == IF sampled THEN {"zero", "some"} ELSE {"none"}

\* Zero says that nothing moves, which it does while some file is in flight.
Sampled(r, inFlight) ==
    IF r.count = 0 \/ ~HasByteTotal(r)
    THEN ForgetsSample /\ Returns(r)
    ELSE /\ sampled' = TRUE
         /\ \E rate \in Sample :
               Returns(WithRate(r, IF rate = "zero" /\ inFlight THEN "none" ELSE rate))

AskQueue ==
    /\ pc = "vfs/queue"
    /\ \/ /\ Has("vfs/queue") /\ "vfs/queue" \in rclone.commands
          /\ rclone.mode # "off"
          /\ LET r == Qualified(FromQueue(Queue))
             IN  IF Has("core/stats") /\ cachePath # NoRoot
                 THEN /\ Goes("core/stats")
                      /\ reading' = r
                      /\ cache' = NotAsked
                      /\ UNCHANGED <<walk, sampled>>
                 ELSE \E inFlight \in BOOLEAN : Sampled(r, inFlight)
       \* A VFS without a cache answers, and leaves the queue out.
       \/ /\ Has("vfs/queue") /\ "vfs/queue" \in rclone.commands
          /\ rclone.mode = "off"
          /\ ForgetsSample
          /\ Returns(IF cache.kind = "present" THEN PartiallyObserved(FromStats(cache.count))
                     ELSE Unmonitored)
       \* No such command: the counts are all there is, and the sample, if any, stays.
       \/ /\ ~Has("vfs/queue") \/ "vfs/queue" \notin rclone.commands
          /\ IF cache.kind = "present"
             THEN \E inFlight \in BOOLEAN : Sampled(Qualified(FromStats(cache.count)), inFlight)
             ELSE Returns(Unmonitored) /\ UNCHANGED <<sampled>>
    /\ UNCHANGED <<latches, sure>>

\* Transfers under way out of a tree: rclone accounts for some of them, and a download,
\* which comes from the remote, is not one.
WritebackUploads(root) == SUBSET Held(root)

\* core/stats; a call that fails tells of none.
AskProgress ==
    /\ pc = "core/stats"
    /\ \E own \in WritebackUploads(cachePath), inFlight \in BOOLEAN :
          Sampled(WithProgress(reading, own), inFlight)
    /\ UNCHANGED <<latches, sure>>

\* The watcher takes the reading, and asks again when it is due.
Deliver ==
    /\ pc = "done"
    /\ pc' = "idle"
    /\ reading' = NoReading
    /\ always' = {}
    /\ emptied' = FALSE
    /\ since' = IF reading.tier = "T2" /\ reading.count > 0 THEN "sampled"
                ELSE IF since = "sampled" THEN "lapsed" ELSE since
    /\ UNCHANGED <<env, latches, sampled, cache, walk, sure>>

PollerInit ==
    /\ rclone \in Rclones
    /\ status = [f \in Files |-> "clean"]
    /\ caps \in {{}, rclone.commands}
    /\ cachePath = NoRoot
    /\ metaPath = NoRoot
    /\ mode = Unread
    /\ sampled = FALSE
    /\ pc = "idle"
    /\ cache = NotAsked
    /\ left = {} /\ found = {} /\ torn = FALSE
    /\ reading = NoReading
    /\ always = {} /\ emptied = FALSE
    /\ sure = FALSE
    /\ since = "lapsed"

PollStep ==
    \/ Begin \/ Probe \/ AskStats \/ AskQueue \/ AskProgress
    \/ Unreachable \/ Faulted
    \/ \E f \in Files : Visit(f)
    \/ WalkEnds \/ WalkFails \/ Deliver

PollerNext == Environment \/ PollStep

\* Every await of a poll ends, by an answer or by a deadline.
PollerSpec == PollerInit /\ [][PollerNext]_pollerVars /\ WF_pollerVars(PollStep)

(***************************************************************************)
(* What is promised                                                        *)
(***************************************************************************)
\* Types of the poller's latches, which come "together or not at all" (poller.rs:454), and
\* of a poll's working state (poller.rs:38-58).
PollerTypeOK ==
    /\ rclone \in Rclones
    /\ status \in [Files -> {"clean", "open", "queued", "stream"}]
    /\ caps \subseteq Commands
    /\ {cachePath, metaPath} \subseteq Roots \cup {NoRoot}
    /\ cachePath = NoRoot <=> metaPath = NoRoot
    /\ mode \in Modes \cup {Unread}
    /\ pc \in Commands \cup {"idle", "rc/list", "walk", "done"}
    /\ \/ cache \in {NotAsked, NoCache}
       \/ cache \in [kind : {"present"}, count : Nat, mode : Modes \cup {Unread}]
    /\ {left, found, always} \subseteq SUBSET Files
    /\ {sampled, torn, emptied, sure} \subseteq BOOLEAN
    /\ since \in {"sampled", "lapsed", "replaced"}
    /\ reading \in Readings

\* Asked over rc, a mount is called safe to unmount only if at some moment of the poll
\* nothing was waiting in its cache or streaming past it (transfer.rs:64-70).  A walk is
\* no such moment: while it goes on, one file may be written behind it and another sent.
SafeWasTrue ==
    pc = "done" /\ sure /\ SafeToUnmount(reading) /\ reading.tier # "T4" => emptied

\* Figures said to be the whole story leave out no file that waited all through the poll,
\* whichever source they are from (transfer.rs:55-67, scan.rs:77-89).
KnownLeavesNothingOut ==
    pc = "done" /\ sure /\ reading.known =>
        IF reading.tier = "T3" THEN Cardinality(always) <= reading.count
        ELSE always \subseteq reading.files

\* The fallback scans no tree but the one the last vfs/stats that answered named
\* (poller.rs:406-413, 458-462).
RootsAreThisRclones ==
    sure => {cachePath, metaPath} \subseteq {rclone.root, NoRoot}

\* No figures are said to be the whole story, live or off the disk, unless the last
\* vfs/stats that answered named a mode that puts every write through the queue: what is
\* not reported or not recognised fails closed (poller.rs:209-213, 362-368).
KnownNeedsEveryWriteQueued ==
    pc = "done" /\ reading.known => AllWritesQueued(mode)

\* Every call over rc, on whatever it meets, ends within its budget and says what became
\* of it; it asks again only where nothing was done, and sends a request to nobody but an
\* rclone of ours that nobody else can reach (rc.rs:13-19, 367-368, 377-379).  TLC need
\* see this but once for each rclone: on a first poll that finds nothing written.
CallsAreHonest ==
    (pc = "rc/list" /\ caps = {} /\ always = {} /\ ~sure /\ status = [f \in Files |-> "clean"]) =>
        /\ \A tries \in [1..RC!MAX_ATTEMPTS -> RC!Tries] : RC!HonestCall(tries)
        /\ \A place \in RC!Places, server \in RC!Servers : RC!HonestAttempt(place, server)

\* A rate is of two polls in a row of one rclone that saw bytes to send, so that "the
\* next upload does not inherit a stale rate" (transfer.rs:381-382): no silence, fault or
\* empty queue lies in between.
RateSpansNoLapse ==
    pc = "done" /\ reading.rate # "none" => since # "lapsed"

\* What stands in the way of an answer: rclone is replaced, or a call to it fails.
Trouble ==
    \/ Unreachable \/ Faulted
    \/ pc = "rc/list" /\ reading' = Unmonitored /\ pc' = "done"
    \/ rclone' # rclone

\* A mount whose rclone could not be asked when the poller was made is monitored once it
\* can be (poller.rs:129-131), unless a build without either command was there first.
MonitoredInTheEnd ==
    <>[][~Trouble]_pollerVars =>
        []<>(/\ pc = "done"
             /\ \/ reading.tier # Unasked
                \/ rclone.mode = "off"
                \/ caps # {} /\ caps \cap rclone.commands \cap {"vfs/stats", "vfs/queue"} = {})
=============================================================================
