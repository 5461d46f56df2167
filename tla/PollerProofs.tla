----------------------------- MODULE PollerProofs -----------------------------
(***************************************************************************)
(* The poller, for any files, trees and rclones: what it says is the whole *)
(* story is, of the rclone it asked.                                       *)
(***************************************************************************)
EXTENDS Poller, FiniteSetTheorems, TLAPS

\* Who answers on the socket is who last answered vfs/stats, and queues every write.
Queueing == sure /\ mode = "writes"

RcloneInv ==
    /\ Queueing => rclone.mode = "writes"
    /\ \A f \in Files :
          status[f] = "stream" => f \in Held(rclone.root) /\ rclone.mode # "writes"
    /\ RootsAreThisRclones

HistoryInv ==
    /\ always \subseteq Waiting
    /\ pc = "idle" => always = {}

\* What a walk that has missed nothing so far has not seen, it has still to visit.
WalkInv ==
    pc = "walk" =>
        /\ metaPath # NoRoot
        /\ Queueing /\ ~torn => always \subseteq found \cup left

\* The count of vfs/stats is of a moment of this poll.
CacheInv ==
    pc = "vfs/queue" /\ cache.kind = "present" =>
        /\ cache.mode = mode
        /\ Queueing => /\ Cardinality(always) <= cache.count
                       /\ cache.count = 0 => emptied

\* So is the queue.
QueueInv ==
    pc = "core/stats" =>
        /\ reading.tier = "T2"
        /\ reading.known => /\ mode = "writes"
                            /\ sure => /\ always \subseteq reading.files
                                       /\ reading.count = 0 => emptied

PollInv ==
    /\ PollerTypeOK
    /\ RcloneInv
    /\ HistoryInv
    /\ WalkInv
    /\ CacheInv
    /\ QueueInv
    /\ SafeWasTrue
    /\ KnownLeavesNothingOut
    /\ KnownNeedsEveryWriteQueued

LEMMA RcloneFields ==
    \A r \in Rclones : r.root \in Roots /\ r.mode \in Modes /\ r.commands \subseteq Commands
  BY PollerAssumption

LEMMA ReadingTypes ==
    /\ NoReading \in Readings
    /\ Unmonitored \in Readings
    /\ \A items \in SUBSET Files : FromQueue(items) \in Readings
    /\ \A n \in Nat : FromStats(n) \in Readings
    /\ \A dirty \in SUBSET Files, complete \in BOOLEAN : FromScan(dirty, complete) \in Readings
  <1>1. \A items \in SUBSET Files : Cardinality(items) \in Nat
    BY PollerAssumption, FS_Subset, FS_CardinalityType
  <1>2. \A tier \in Tiers \cup {Unasked} : EmptyReading(tier) \in Readings
    BY DEF EmptyReading, Readings, Rates
  <1>3. {"T2", "T3", "T4"} \subseteq Tiers
    BY DEF Tiers
  <1>4. NoReading \in Readings
    BY <1>2 DEF NoReading
  <1>5. Unmonitored \in Readings
    BY <1>2 DEF Unmonitored, EmptyReading, Readings, Rates
  <1>6. \A items \in SUBSET Files : FromQueue(items) \in Readings
    BY <1>1, <1>3 DEF FromQueue, EmptyReading, Readings, Rates
  <1>7. \A n \in Nat : FromStats(n) \in Readings
    BY <1>3 DEF FromStats, EmptyReading, Readings, Rates
  <1>8. \A dirty \in SUBSET Files, complete \in BOOLEAN : FromScan(dirty, complete) \in Readings
    BY <1>1, <1>3 DEF FromScan, EmptyReading, Readings, Rates
  <1> QED
    BY <1>4, <1>5, <1>6, <1>7, <1>8

LEMMA ReadingEdits ==
    ASSUME NEW r \in Readings
    PROVE  /\ PartiallyObserved(r) \in Readings
           /\ \A own : WithProgress(r, own) \in Readings
           /\ \A rate \in Rates : WithRate(r, rate) \in Readings
  BY DEF Readings, PartiallyObserved, WithProgress, WithRate

LEMMA PresentTypes ==
    ASSUME PollerTypeOK, cache.kind = "present"
    PROVE  cache \in [kind : {"present"}, count : Nat, mode : Modes \cup {Unread}]
  <1>1. NotAsked.kind = "not asked" /\ NoCache.kind = "absent"
    BY DEF NotAsked, NoCache
  <1>2. cache # NotAsked /\ cache # NoCache
    BY <1>1
  <1> QED
    BY <1>1, <1>2 DEF PollerTypeOK

LEMMA NothingStreams ==
    ASSUME RcloneInv, rclone.mode = "writes"
    PROVE  Waiting = Queue
  <1>1. \A f \in Files : status[f] # "stream"
    BY DEF RcloneInv
  <1>2. \A f \in Held(rclone.root) :
            status[f] \in {"queued", "stream"} <=> status[f] = "queued"
    BY <1>1 DEF Held
  <1> QED
    BY <1>2 DEF Waiting, Queue

LEMMA InitPoll == PollerInit => PollInv
  <1> SUFFICES ASSUME PollerInit PROVE PollInv
    OBVIOUS
  <1>1. PollerTypeOK
    <2>1. rclone \in Rclones /\ caps \subseteq Commands
      BY RcloneFields DEF PollerInit
    <2>2. reading \in Readings
      BY ReadingTypes DEF PollerInit
    <2> QED
      BY <2>1, <2>2 DEF PollerInit, PollerTypeOK
  <1>2. RcloneInv /\ HistoryInv
    BY DEF PollerInit, RcloneInv, HistoryInv, Queueing, RootsAreThisRclones
  <1> QED
    BY <1>1, <1>2 DEF PollInv, PollerInit, WalkInv, CacheInv, QueueInv, SafeWasTrue,
       KnownLeavesNothingOut, KnownNeedsEveryWriteQueued, Commands

(***************************************************************************)
(* Steps of rclone and the mount's users                                   *)
(***************************************************************************)
\* What such a step may change, and how.
Disturbed ==
    /\ pc # "done"
    /\ UNCHANGED <<latches, sampled, pc, cache, walk, reading>>
    /\ Noticed
    /\ rclone' \in Rclones
    /\ status' \in [Files -> {"clean", "open", "queued", "stream"}]
    /\ \A f \in Files :
          status'[f] = "stream" => f \in Held(rclone'.root) /\ rclone'.mode # "writes"
    /\ sure' \in BOOLEAN
    /\ sure' => sure /\ rclone' = rclone
    /\ since' \in {"sampled", "lapsed", "replaced"}

LEMMA FilesDisturb ==
    ASSUME PollInv, NEW f \in Files, NEW g \in Files, pc # "done",
           Opens(f) \/ Closes(f) \/ Uploads(f) \/ Renames(f, g)
    PROVE  Disturbed
  <1>1. /\ rclone \in Rclones /\ sure \in BOOLEAN /\ since \in {"sampled", "lapsed", "replaced"}
        /\ status \in [Files -> {"clean", "open", "queued", "stream"}]
        /\ \A h \in Files :
              status[h] = "stream" => h \in Held(rclone.root) /\ rclone.mode # "writes"
    BY DEF PollInv, PollerTypeOK, RcloneInv
  <1>2. CASE Opens(f)
    BY <1>1, <1>2 DEF Opens, FileMoves, Disturbed
  <1>3. CASE Closes(f)
    BY <1>1, <1>3 DEF Closes, FileMoves, Disturbed
  <1>4. CASE Uploads(f)
    BY <1>1, <1>4 DEF Uploads, FileMoves, Disturbed
  <1>5. CASE Renames(f, g)
    BY <1>1, <1>5 DEF Renames, FileMoves, Disturbed
  <1> QED
    BY <1>2, <1>3, <1>4, <1>5

LEMMA ReplacementDisturbs ==
    ASSUME PollInv, NEW r \in Rclones, ReplacedBy(r), pc # "done"
    PROVE  Disturbed
  <1>1. /\ rclone \in Rclones /\ sure \in BOOLEAN /\ since \in {"sampled", "lapsed", "replaced"}
        /\ status \in [Files -> {"clean", "open", "queued", "stream"}]
        /\ \A f \in Files : status[f] = "stream" => f \in Held(rclone.root)
    BY DEF PollInv, PollerTypeOK, RcloneInv
  <1>2. /\ status' \in [Files -> {"clean", "open", "queued", "stream"}]
        /\ \A f \in Files : status'[f] # "stream"
    BY <1>1 DEF ReplacedBy
  <1> QED
    BY <1>1, <1>2 DEF ReplacedBy, Disturbed

LEMMA DisturbedKeeps ==
    ASSUME PollInv, Disturbed
    PROVE  PollInv'
  <1>1. /\ always' \subseteq always
        /\ always' \subseteq Waiting'
        /\ always' \subseteq Files
        /\ emptied' \in BOOLEAN
        /\ emptied => emptied'
    BY DEF PollInv, PollerTypeOK, HistoryInv, Disturbed, Noticed
  <1>2. UNCHANGED <<cachePath, metaPath, mode, caps, sampled, pc, cache, left, found, torn, reading>>
    BY DEF Disturbed, latches, walk
  <1>3. PollerTypeOK'
    BY <1>1, <1>2 DEF PollInv, PollerTypeOK, Disturbed
  <1>4. RcloneInv'
    <2>1. RootsAreThisRclones' /\ (Queueing' => rclone'.mode = "writes")
      BY <1>2 DEF PollInv, RcloneInv, RootsAreThisRclones, Queueing, Disturbed
    <2> QED
      BY <2>1 DEF RcloneInv, Disturbed, Held
  <1>5. HistoryInv'
    BY <1>1, <1>2 DEF PollInv, HistoryInv
  <1>6. WalkInv'
    BY <1>1, <1>2 DEF PollInv, WalkInv, Queueing, Disturbed
  <1>7. CacheInv'
    <2> SUFFICES ASSUME pc = "vfs/queue", cache.kind = "present"
                 PROVE  /\ cache.mode = mode
                        /\ Queueing' => /\ Cardinality(always') <= cache.count
                                        /\ cache.count = 0 => emptied'
      BY <1>2 DEF CacheInv
    <2>1. /\ cache.mode = mode
          /\ Queueing => Cardinality(always) <= cache.count /\ (cache.count = 0 => emptied)
      BY DEF PollInv, CacheInv
    <2>2. Queueing' => Queueing
      BY <1>2 DEF Queueing, Disturbed
    <2>3. IsFiniteSet(always) /\ IsFiniteSet(always') /\ Cardinality(always') <= Cardinality(always)
      BY <1>1, PollerAssumption, FS_Subset DEF PollInv, PollerTypeOK
    <2>4. Cardinality(always) \in Nat /\ Cardinality(always') \in Nat
      BY <2>3, FS_CardinalityType
    <2>5. cache.count \in Nat
      BY PresentTypes DEF PollInv
    <2> QED
      BY <1>1, <2>1, <2>2, <2>3, <2>4, <2>5
  <1>8. QueueInv'
    BY <1>1, <1>2 DEF PollInv, QueueInv, Disturbed
  <1>9. SafeWasTrue' /\ KnownLeavesNothingOut' /\ KnownNeedsEveryWriteQueued'
    BY <1>2 DEF Disturbed, SafeWasTrue, KnownLeavesNothingOut, KnownNeedsEveryWriteQueued
  <1> QED
    BY <1>3, <1>4, <1>5, <1>6, <1>7, <1>8, <1>9 DEF PollInv

LEMMA EnvironmentKeeps ==
    ASSUME PollInv, Environment
    PROVE  PollInv'
  BY FilesDisturb, ReplacementDisturbs, DisturbedKeeps DEF Environment

(***************************************************************************)
(* Steps of a poll                                                         *)
(***************************************************************************)
LEMMA GoesKeeps ==
    ASSUME PollInv, pc # "idle", NEW next, Goes(next)
    PROVE  /\ pc' = next
           /\ UNCHANGED <<rclone, status, since, always>>
           /\ Waiting' = Waiting
           /\ emptied' \in BOOLEAN
           /\ emptied => emptied'
           /\ Waiting = {} => emptied'
  <1>1. Waiting' = Waiting
    BY DEF Goes, env, Waiting, Held
  <1> QED
    BY <1>1 DEF PollInv, PollerTypeOK, HistoryInv, Goes, env, Noticed

\* A reading that a poll may return.
Tells(r) ==
    /\ r \in Readings
    /\ r.known => /\ mode = "writes"
                  /\ sure => IF r.tier = "T3" THEN Cardinality(always) <= r.count
                             ELSE always \subseteq r.files
    /\ r.known /\ sure /\ r.count = 0 /\ r.tier # "T4" => emptied \/ Waiting = {}

LEMMA ReturnsKeeps ==
    ASSUME PollInv, pc # "idle", NEW r, Returns(r), Tells(r),
           UNCHANGED <<cachePath, metaPath, mode, sure>>,
           caps' \subseteq Commands, sampled' \in BOOLEAN
    PROVE  PollInv'
  <1>1. /\ pc' = "done"
        /\ UNCHANGED <<rclone, status, since, always>>
        /\ Waiting' = Waiting
        /\ emptied' \in BOOLEAN
        /\ emptied => emptied'
        /\ Waiting = {} => emptied'
    BY GoesKeeps DEF Returns
  <1>2. reading' = r /\ cache' = NotAsked /\ left' = {} /\ found' = {} /\ torn' = FALSE
    BY DEF Returns
  <1>3. PollerTypeOK'
    BY <1>1, <1>2 DEF PollInv, PollerTypeOK, Tells
  <1>4. RcloneInv' /\ HistoryInv' /\ WalkInv' /\ CacheInv' /\ QueueInv'
    BY <1>1, <1>2 DEF PollInv, RcloneInv, RootsAreThisRclones, Queueing, Held, HistoryInv,
       WalkInv, CacheInv, QueueInv
  <1>5. SafeWasTrue' /\ KnownLeavesNothingOut' /\ KnownNeedsEveryWriteQueued'
    BY <1>1, <1>2 DEF Tells, SafeWasTrue, SafeToUnmount, KnownLeavesNothingOut,
       KnownNeedsEveryWriteQueued, AllWritesQueued
  <1> QED
    BY <1>3, <1>4, <1>5 DEF PollInv

LEMMA UnknownTells ==
    ASSUME NEW r \in Readings, ~r.known
    PROVE  Tells(r)
  BY DEF Tells

LEMMA UnmonitoredTells == Tells(Unmonitored)
  <1>1. ~Unmonitored.known
    BY DEF Unmonitored, EmptyReading
  <1> QED
    BY <1>1, ReadingTypes, UnknownTells

LEMMA PartialTells ==
    ASSUME NEW r \in Readings
    PROVE  Tells(PartiallyObserved(r))
  <1>1. ~PartiallyObserved(r).known
    BY DEF PartiallyObserved, Readings
  <1> QED
    BY <1>1, ReadingEdits, UnknownTells

LEMMA BeginKeeps ==
    ASSUME PollInv, Begin
    PROVE  PollInv'
  <1>1. Waiting' = Waiting /\ Waiting \subseteq Files
    BY DEF Begin, env, Waiting, Held
  <1>2. PollerTypeOK'
    BY <1>1 DEF PollInv, PollerTypeOK, Begin, env, latches, walk, Commands
  <1> QED
    BY <1>1, <1>2 DEF PollInv, Begin, env, latches, RcloneInv, RootsAreThisRclones, Queueing,
       Held, HistoryInv, WalkInv, CacheInv, QueueInv, SafeWasTrue, KnownLeavesNothingOut,
       KnownNeedsEveryWriteQueued

LEMMA ProbeKeeps ==
    ASSUME PollInv, Probe
    PROVE  PollInv'
  <1>1. pc # "idle" /\ caps' \subseteq Commands /\ UNCHANGED <<cachePath, metaPath, mode, sampled, sure>>
    BY RcloneFields DEF PollInv, PollerTypeOK, Probe, Answers
  <1>2. CASE Returns(Unmonitored)
    BY <1>1, <1>2, UnmonitoredTells, ReturnsKeeps DEF PollInv, PollerTypeOK
  <1>3. CASE Continues("vfs/stats") /\ UNCHANGED cache
    <2>1. /\ pc' = "vfs/stats"
          /\ UNCHANGED <<rclone, status, since, always, left, found, torn, reading, cache>>
          /\ Waiting' = Waiting
          /\ emptied' \in BOOLEAN
      BY <1>1, <1>3, GoesKeeps DEF Continues, walk
    <2>2. PollerTypeOK'
      BY <1>1, <2>1 DEF PollInv, PollerTypeOK, Commands
    <2> QED
      BY <1>1, <2>1, <2>2 DEF PollInv, RcloneInv, RootsAreThisRclones, Queueing, Held,
         HistoryInv, WalkInv, CacheInv, QueueInv, SafeWasTrue, KnownLeavesNothingOut,
         KnownNeedsEveryWriteQueued
  <1> QED
    BY <1>2, <1>3 DEF Probe

LEMMA AskStatsKeeps ==
    ASSUME PollInv, AskStats
    PROVE  PollInv'
  <1>1. /\ pc' = "vfs/queue"
        /\ UNCHANGED <<rclone, status, since, always, left, found, torn, reading, caps, sampled>>
        /\ Waiting' = Waiting
        /\ emptied' \in BOOLEAN
        /\ emptied => emptied'
        /\ Waiting = {} => emptied'
    BY GoesKeeps DEF AskStats, Continues, walk
  <1>2. CASE cache' = NotAsked /\ UNCHANGED <<cachePath, metaPath, mode, sure>>
    <2>1. cache'.kind # "present"
      BY <1>2 DEF NotAsked
    <2>2. PollerTypeOK'
      BY <1>1, <1>2 DEF PollInv, PollerTypeOK, Commands
    <2> QED
      BY <1>1, <1>2, <2>1, <2>2 DEF PollInv, RcloneInv, RootsAreThisRclones, Queueing, Held,
         HistoryInv, WalkInv, CacheInv, QueueInv, SafeWasTrue, KnownLeavesNothingOut,
         KnownNeedsEveryWriteQueued
  <1>3. CASE StatsAnswered /\ sure' = TRUE
    <2>1. /\ {cachePath', metaPath'} \subseteq {rclone.root, NoRoot}
          /\ cachePath' = NoRoot <=> metaPath' = NoRoot
      BY <1>3, PollerAssumption, RcloneFields
         DEF StatsAnswered, ForgetRoots, LatchesRoots, PollInv, PollerTypeOK
    <2>2. /\ mode' \in {rclone.mode, Unread}
          /\ \/ cache' \in {NotAsked, NoCache}
             \/ cache' = Present(Cardinality(Queue), mode')
      BY <1>3 DEF StatsAnswered
    <2>3. mode' = "writes" => rclone.mode = "writes"
      BY <2>2 DEF Unread
    <2>4. Queue \subseteq Files /\ IsFiniteSet(Queue) /\ Cardinality(Queue) \in Nat
      BY PollerAssumption, FS_Subset, FS_CardinalityType DEF Queue, Held
    <2>5. PollerTypeOK'
      <3>1. rclone.root \in Roots /\ rclone.mode \in Modes
        BY RcloneFields DEF PollInv, PollerTypeOK
      <3>2. mode' \in Modes \cup {Unread}
        BY <2>2, <3>1
      <3>3. \/ cache' \in {NotAsked, NoCache}
            \/ cache' \in [kind : {"present"}, count : Nat, mode : Modes \cup {Unread}]
        BY <2>2, <2>4, <3>2 DEF Present
      <3> QED
        BY <1>1, <1>3, <2>1, <3>1, <3>2, <3>3 DEF PollInv, PollerTypeOK, Commands
    <2>6. RcloneInv'
      BY <1>1, <2>1, <2>3 DEF PollInv, RcloneInv, RootsAreThisRclones, Queueing, Held
    <2>7. CacheInv'
      <3> SUFFICES ASSUME cache'.kind = "present"
                   PROVE  /\ cache'.mode = mode'
                          /\ mode' = "writes" => /\ Cardinality(always) <= cache'.count
                                                 /\ cache'.count = 0 => emptied'
        BY <1>1 DEF CacheInv, Queueing
      <3>1. NotAsked.kind = "not asked" /\ NoCache.kind = "absent"
        BY DEF NotAsked, NoCache
      <3>2. cache'.mode = mode' /\ cache'.count = Cardinality(Queue)
        <4>1. cache' # NotAsked /\ cache' # NoCache
          BY <3>1
        <4>2. cache' = Present(Cardinality(Queue), mode')
          BY <2>2, <4>1
        <4> QED
          BY <4>2 DEF Present
      <3>3. rclone.mode = "writes" => Waiting = Queue
        BY NothingStreams DEF PollInv
      <3>4. rclone.mode = "writes" => Cardinality(always) <= Cardinality(Queue)
        BY <2>4, <3>3, FS_Subset DEF PollInv, HistoryInv
      <3>5. Cardinality(Queue) = 0 => Queue = {}
        BY <2>4, FS_EmptySet
      <3> QED
        BY <1>1, <2>3, <3>2, <3>3, <3>4, <3>5
    <2> QED
      BY <1>1, <1>3, <2>5, <2>6, <2>7 DEF PollInv, HistoryInv, WalkInv, QueueInv, SafeWasTrue,
         KnownLeavesNothingOut, KnownNeedsEveryWriteQueued
  <1> QED
    BY <1>2, <1>3 DEF AskStats

LEMMA RateTells ==
    ASSUME NEW r, Tells(r), NEW rate \in Rates
    PROVE  Tells(WithRate(r, rate))
  <1>1. r \in Readings /\ WithRate(r, rate) \in Readings
    BY ReadingEdits DEF Tells
  <1>2. /\ WithRate(r, rate).known = r.known
        /\ WithRate(r, rate).count = r.count
        /\ WithRate(r, rate).files = r.files
        /\ WithRate(r, rate).tier = r.tier
    BY <1>1 DEF WithRate, Readings
  <1> QED
    BY <1>1, <1>2 DEF Tells

LEMMA SampledKeeps ==
    ASSUME PollInv, pc # "idle", NEW r, Tells(r), NEW inFlight, Sampled(r, inFlight),
           UNCHANGED <<latches, sure>>
    PROVE  PollInv'
  <1>1. UNCHANGED <<cachePath, metaPath, mode, caps>> /\ caps' \subseteq Commands
    BY DEF latches, PollInv, PollerTypeOK
  <1>2. CASE ForgetsSample /\ Returns(r)
    BY <1>1, <1>2, ReturnsKeeps DEF ForgetsSample
  <1>3. ASSUME sampled' = TRUE, NEW rate \in Sample,
               Returns(WithRate(r, IF rate = "zero" /\ inFlight THEN "none" ELSE rate))
        PROVE  PollInv'
    <2>1. (IF rate = "zero" /\ inFlight THEN "none" ELSE rate) \in Rates
      BY DEF Sample, Rates
    <2> QED
      BY <1>1, <1>3, <2>1, RateTells, ReturnsKeeps
  <1> QED
    BY <1>2, <1>3 DEF Sampled

LEMMA QueueTells ==
    ASSUME PollInv, pc = "vfs/queue"
    PROVE  Tells(Qualified(FromQueue(Queue)))
  <1> DEFINE r == FromQueue(Queue)
  <1>1. Queue \subseteq Files /\ IsFiniteSet(Queue)
    BY PollerAssumption, FS_Subset DEF Queue, Held
  <1>2. r \in Readings
    BY <1>1, ReadingTypes
  <1>3. CASE cache.kind = "present" /\ AllWritesQueued(cache.mode)
    <2>1. mode = "writes"
      BY <1>3 DEF PollInv, CacheInv, AllWritesQueued
    <2>2. sure => Waiting = Queue /\ always \subseteq Queue
      BY <2>1, NothingStreams DEF PollInv, RcloneInv, Queueing, HistoryInv
    <2>3. r.files = Queue /\ r.count = Cardinality(Queue) /\ r.tier = "T2"
      BY DEF FromQueue, EmptyReading
    <2>4. Cardinality(Queue) = 0 => Queue = {}
      BY <1>1, FS_EmptySet
    <2>5. Tells(r)
      BY <1>2, <2>1, <2>2, <2>3, <2>4 DEF Tells
    <2> QED
      BY <1>3, <2>5 DEF Qualified
  <1>4. CASE ~(cache.kind = "present" /\ AllWritesQueued(cache.mode))
    BY <1>2, <1>4, PartialTells DEF Qualified
  <1> QED
    BY <1>3, <1>4

LEMMA StatsTells ==
    ASSUME PollInv, pc = "vfs/queue", cache.kind = "present"
    PROVE  /\ Tells(Qualified(FromStats(cache.count)))
           /\ Tells(PartiallyObserved(FromStats(cache.count)))
  <1> DEFINE r == FromStats(cache.count)
  <1>1. r \in Readings
    BY PresentTypes, ReadingTypes DEF PollInv
  <1>2. CASE AllWritesQueued(cache.mode)
    <2>1. mode = "writes"
      BY <1>2 DEF PollInv, CacheInv, AllWritesQueued
    <2>2. sure => Cardinality(always) <= cache.count /\ (cache.count = 0 => emptied)
      BY <2>1 DEF PollInv, CacheInv, Queueing
    <2>3. r.count = cache.count /\ r.tier = "T3"
      BY DEF FromStats, EmptyReading
    <2>4. Tells(r)
      BY <1>1, <2>1, <2>2, <2>3 DEF Tells
    <2> QED
      BY <1>1, <1>2, <2>4, PartialTells DEF Qualified
  <1>3. CASE ~AllWritesQueued(cache.mode)
    BY <1>1, <1>3, PartialTells DEF Qualified
  <1> QED
    BY <1>2, <1>3

LEMMA AskQueueKeeps ==
    ASSUME PollInv, AskQueue
    PROVE  PollInv'
  <1>1. /\ pc = "vfs/queue" /\ pc # "idle"
        /\ UNCHANGED <<latches, sure>>
        /\ UNCHANGED <<cachePath, metaPath, mode, caps>>
        /\ caps' \subseteq Commands /\ sampled \in BOOLEAN
    BY DEF AskQueue, latches, PollInv, PollerTypeOK
  <1> DEFINE q == Qualified(FromQueue(Queue))
  <1>2. CASE /\ Goes("core/stats") /\ reading' = q /\ cache' = NotAsked
             /\ UNCHANGED <<walk, sampled>>
    <2>1. /\ pc' = "core/stats"
          /\ UNCHANGED <<rclone, status, since, always, left, found, torn, sampled>>
          /\ Waiting' = Waiting
          /\ emptied' \in BOOLEAN
          /\ emptied => emptied'
          /\ Waiting = {} => emptied'
      BY <1>1, <1>2, GoesKeeps DEF walk
    <2>2. Tells(q)
      BY <1>1, QueueTells
    <2>3. q.tier = "T2"
      BY DEF Qualified, PartiallyObserved, FromQueue, EmptyReading
    <2>4. PollerTypeOK'
      BY <1>1, <1>2, <2>1, <2>2 DEF PollInv, PollerTypeOK, Commands, Tells
    <2>5. QueueInv'
      BY <1>1, <1>2, <2>1, <2>2, <2>3 DEF QueueInv, Tells
    <2> QED
      BY <1>1, <1>2, <2>1, <2>4, <2>5 DEF PollInv, RcloneInv, RootsAreThisRclones, Queueing,
         Held, HistoryInv, WalkInv, CacheInv, SafeWasTrue, KnownLeavesNothingOut,
         KnownNeedsEveryWriteQueued
  <1>3. CASE \E inFlight \in BOOLEAN : Sampled(q, inFlight)
    BY <1>1, <1>3, QueueTells, SampledKeeps
  <1>4. CASE /\ cache.kind = "present"
             /\ \E inFlight \in BOOLEAN : Sampled(Qualified(FromStats(cache.count)), inFlight)
    BY <1>1, <1>4, StatsTells, SampledKeeps
  <1>5. CASE /\ sampled' \in BOOLEAN
             /\ Returns(IF cache.kind = "present"
                        THEN PartiallyObserved(FromStats(cache.count)) ELSE Unmonitored)
    BY <1>1, <1>5, StatsTells, UnmonitoredTells, ReturnsKeeps
  <1>6. CASE sampled' \in BOOLEAN /\ Returns(Unmonitored)
    BY <1>1, <1>6, UnmonitoredTells, ReturnsKeeps
  <1> QED
    BY <1>1, <1>2, <1>3, <1>4, <1>5, <1>6 DEF AskQueue, ForgetsSample

LEMMA AskProgressKeeps ==
    ASSUME PollInv, AskProgress
    PROVE  PollInv'
  <1>1. pc = "core/stats" /\ UNCHANGED <<latches, sure>> /\ reading \in Readings
    BY DEF AskProgress, PollInv, PollerTypeOK
  <1>2. ASSUME NEW own
        PROVE  Tells(WithProgress(reading, own))
    <2>1. /\ WithProgress(reading, own).known = reading.known
          /\ WithProgress(reading, own).count = reading.count
          /\ WithProgress(reading, own).files = reading.files
          /\ WithProgress(reading, own).tier = reading.tier
      BY <1>1 DEF WithProgress, Readings
    <2>2. /\ reading.tier = "T2"
          /\ reading.known => /\ mode = "writes"
                              /\ sure => /\ always \subseteq reading.files
                                         /\ reading.count = 0 => emptied
      BY <1>1 DEF PollInv, QueueInv
    <2> QED
      BY <1>1, <2>1, <2>2, ReadingEdits DEF Tells
  <1> QED
    BY <1>1, <1>2, SampledKeeps DEF AskProgress

LEMMA FailuresKeep ==
    ASSUME PollInv, Unreachable \/ Faulted
    PROVE  PollInv'
  <1>1. /\ pc \in {"vfs/stats", "vfs/queue"} /\ pc # "idle"
        /\ UNCHANGED <<cachePath, metaPath, mode, caps, sure>>
        /\ caps' \subseteq Commands
        /\ sampled' = FALSE
    BY DEF Unreachable, Faulted, Asking, ForgetsSample, latches, PollInv, PollerTypeOK
  <1>2. CASE Returns(Unmonitored)
    BY <1>1, <1>2, UnmonitoredTells, ReturnsKeeps
  <1>3. CASE /\ cachePath # NoRoot /\ metaPath # NoRoot
             /\ Goes("walk") /\ left' = Held(metaPath) /\ found' = {} /\ torn' = FALSE
             /\ cache' = NotAsked /\ UNCHANGED reading
    <2>1. /\ pc' = "walk"
          /\ UNCHANGED <<rclone, status, since, always>>
          /\ Waiting' = Waiting
          /\ emptied' \in BOOLEAN
      BY <1>1, <1>3, GoesKeeps
    <2>2. PollerTypeOK'
      BY <1>1, <1>3, <2>1 DEF PollInv, PollerTypeOK, Held
    <2>3. WalkInv'
      <3>1. sure => Waiting \subseteq Held(metaPath)
        BY <1>3 DEF PollInv, RcloneInv, RootsAreThisRclones, Waiting
      <3> QED
        BY <1>1, <1>3, <2>1, <3>1 DEF PollInv, HistoryInv, WalkInv, Queueing
    <2> QED
      BY <1>1, <1>3, <2>1, <2>2, <2>3 DEF PollInv, RcloneInv, RootsAreThisRclones, Queueing,
         Held, HistoryInv, CacheInv, QueueInv, SafeWasTrue, KnownLeavesNothingOut,
         KnownNeedsEveryWriteQueued
  <1> QED
    BY <1>2, <1>3 DEF Unreachable, Faulted

LEMMA VisitKeeps ==
    ASSUME PollInv, NEW f \in Files, Visit(f)
    PROVE  PollInv'
  <1>1. /\ pc = "walk"
        /\ UNCHANGED <<cachePath, metaPath, mode, caps, sampled, cache, reading, sure>>
        /\ f \in left /\ left' = left \ {f}
        /\ torn' \in BOOLEAN /\ found' \in SUBSET Files
    BY DEF Visit, latches, PollInv, PollerTypeOK
  <1>2. /\ pc' = "walk"
        /\ UNCHANGED <<rclone, status, since, always>>
        /\ Waiting' = Waiting
        /\ emptied' \in BOOLEAN
    BY <1>1, GoesKeeps DEF Visit
  <1>3. PollerTypeOK'
    BY <1>1, <1>2 DEF PollInv, PollerTypeOK
  <1>4. WalkInv'
    <2> SUFFICES ASSUME Queueing, ~torn'
                 PROVE  always \subseteq found' \cup left'
      BY <1>1, <1>2 DEF PollInv, WalkInv, Queueing
    <2>1. ~torn /\ metaPath = rclone.root /\ always \subseteq found \cup left
      BY <1>1 DEF Visit, PollInv, WalkInv, RcloneInv, RootsAreThisRclones, Queueing
    <2>2. found' = IF f \in Dirty(metaPath) THEN found \cup {f} ELSE found
      BY <1>1 DEF Visit, ReadItem
    <2>3. f \in always => f \in Dirty(metaPath)
      BY <2>1 DEF PollInv, HistoryInv, RcloneInv, Waiting, Dirty
    <2> QED
      BY <1>1, <2>1, <2>2, <2>3
  <1> QED
    BY <1>1, <1>2, <1>3, <1>4 DEF PollInv, RcloneInv, RootsAreThisRclones, Queueing, Held,
       HistoryInv, CacheInv, QueueInv, SafeWasTrue, KnownLeavesNothingOut,
       KnownNeedsEveryWriteQueued

LEMMA WalkEndsKeep ==
    ASSUME PollInv, WalkEnds \/ WalkFails
    PROVE  PollInv'
  <1>1. /\ pc = "walk" /\ pc # "idle"
        /\ UNCHANGED <<cachePath, metaPath, mode, caps, sampled, sure>>
        /\ caps' \subseteq Commands /\ sampled' \in BOOLEAN
    BY DEF WalkEnds, WalkFails, latches, PollInv, PollerTypeOK
  <1> DEFINE scan == FromScan(found, IsComplete)
  <1>2. scan \in Readings /\ scan.known = IsComplete /\ scan.files = found /\ scan.tier = "T4"
    BY ReadingTypes DEF FromScan, EmptyReading, IsComplete, PollInv, PollerTypeOK
  <1>3. AllWritesQueued(mode) => Tells(scan)
    BY <1>1, <1>2 DEF AllWritesQueued, Tells, IsComplete, PollInv, WalkInv, Queueing
  <1> QED
    BY <1>1, <1>2, <1>3, PartialTells, UnmonitoredTells, ReturnsKeeps DEF WalkEnds, WalkFails

LEMMA DeliverKeeps ==
    ASSUME PollInv, Deliver
    PROVE  PollInv'
  <1>1. PollerTypeOK'
    BY ReadingTypes DEF PollInv, PollerTypeOK, Deliver, env, latches, walk
  <1> QED
    BY <1>1 DEF PollInv, Deliver, env, latches, walk, RcloneInv, RootsAreThisRclones, Queueing,
       Held, HistoryInv, WalkInv, CacheInv, QueueInv, SafeWasTrue, KnownLeavesNothingOut,
       KnownNeedsEveryWriteQueued

LEMMA StutterKeeps ==
    ASSUME PollInv, UNCHANGED pollerVars
    PROVE  PollInv'
  <1>1. UNCHANGED <<rclone, status, caps, cachePath, metaPath, mode, sampled, pc, cache, left,
                    found, torn, reading, always, emptied, sure, since>>
    BY DEF pollerVars, env, latches, walk, history
  <1> QED
    BY <1>1 DEF PollInv, PollerTypeOK, RcloneInv, RootsAreThisRclones, Queueing, Held,
       HistoryInv, Waiting, WalkInv, CacheInv, QueueInv, SafeWasTrue, KnownLeavesNothingOut,
       KnownNeedsEveryWriteQueued

LEMMA PollInductive == PollInv /\ [PollerNext]_pollerVars => PollInv'
  <1> SUFFICES ASSUME PollInv, [PollerNext]_pollerVars PROVE PollInv'
    OBVIOUS
  <1> QED
    BY EnvironmentKeeps, BeginKeeps, ProbeKeeps, AskStatsKeeps, AskQueueKeeps,
       AskProgressKeeps, FailuresKeep, VisitKeeps, WalkEndsKeep, DeliverKeeps, StutterKeeps
       DEF PollerNext, PollStep

THEOREM PollInvariant == PollerSpec => []PollInv
  BY InitPoll, PollInductive, PTL DEF PollerSpec

\* The poller's latches and working state keep their types; both roots are known or
\* neither is (poller.rs:454).
THEOREM PollerTypes == PollerSpec => []PollerTypeOK
  <1>1. PollInv => PollerTypeOK
    BY DEF PollInv
  <1> QED
    BY <1>1, PollInvariant, PTL

\* Asked over rc, a mount is called safe to unmount only if at some moment of the poll
\* nothing waited in its cache or streamed past it (transfer.rs:64-70).
THEOREM SafeIsTrue == PollerSpec => []SafeWasTrue
  <1>1. PollInv => SafeWasTrue
    BY DEF PollInv
  <1> QED
    BY <1>1, PollInvariant, PTL

\* Figures said to be the whole story leave out no file that waited all through the
\* poll, from the queue, the counts or the disk (transfer.rs:55-67, scan.rs:77-89).
THEOREM KnownIsComplete == PollerSpec => []KnownLeavesNothingOut
  <1>1. PollInv => KnownLeavesNothingOut
    BY DEF PollInv
  <1> QED
    BY <1>1, PollInvariant, PTL

\* The fallback scans no tree but the one the last answering vfs/stats named
\* (poller.rs:406-413).
THEOREM RootsAreLatched == PollerSpec => []RootsAreThisRclones
  <1>1. PollInv => RootsAreThisRclones
    BY DEF PollInv, RcloneInv
  <1> QED
    BY <1>1, PollInvariant, PTL

\* A mode that is not reported, not recognised, or lets writes past the queue makes no
\* figures the whole story (poller.rs:209-213, 362-368).
THEOREM UnreadFailsClosed == PollerSpec => []KnownNeedsEveryWriteQueued
  <1>1. PollInv => KnownNeedsEveryWriteQueued
    BY DEF PollInv
  <1> QED
    BY <1>1, PollInvariant, PTL

(***************************************************************************)
(* Rates                                                                   *)
(***************************************************************************)
\* The one way to end a poll with an older sample kept is that this rclone lists no
\* queue: then it gives no rate before another has come.
ListsQueue == "vfs/queue" \in caps \cap rclone.commands

\* `since` is of this poll only when it has ended: before, it is of those before it.
RateInv ==
    /\ caps = {} => ~sampled /\ pc \in {"idle", "rc/list", "done"}
    /\ pc = "rc/list" => caps = {}
    /\ pc = "walk" => ~sampled
    /\ pc = "core/stats" => reading.rate = "none" /\ (sampled => since # "lapsed")
    /\ sampled /\ pc \notin {"core/stats", "done"} => since # "lapsed" \/ ~ListsQueue
    /\ pc = "done" /\ sampled =>
          (reading.tier = "T2" /\ reading.count > 0) \/ since = "replaced" \/ ~ListsQueue
    /\ RateSpansNoLapse

\* What a poll returns, by whether it leaves a sample behind.
LEMMA ReturnsRate ==
    ASSUME RateInv, NEW r \in Readings, Returns(r), UNCHANGED <<rclone, since>>,
           r.rate # "none" => since # "lapsed",
           sampled' => \/ r.tier = "T2" /\ r.count > 0 /\ caps' # {}
                       \/ sampled /\ UNCHANGED caps /\ (since = "replaced" \/ ~ListsQueue)
    PROVE  RateInv'
  <1>1. pc' = "done" /\ reading' = r
    BY DEF Returns, Goes
  <1> QED
    BY <1>1 DEF RateInv, RateSpansNoLapse, ListsQueue

LEMMA UnmonitoredRate == Unmonitored \in Readings /\ Unmonitored.rate = "none"
  <1>1. Unmonitored.rate = "none"
    BY DEF Unmonitored, EmptyReading
  <1> QED
    BY <1>1, ReadingTypes

LEMMA SampledRate ==
    ASSUME PollInv, RateInv, pc \in {"vfs/queue", "core/stats"},
           NEW r \in Readings, r.rate = "none", r.tier \in {"T2", "T3"},
           r.tier = "T2" /\ sampled => since # "lapsed",
           NEW inFlight, Sampled(r, inFlight), UNCHANGED latches
    PROVE  RateInv'
  <1>1. UNCHANGED <<rclone, since, caps>> /\ caps # {}
    BY DEF Sampled, Returns, Goes, env, latches, RateInv
  <1>2. CASE ForgetsSample /\ Returns(r)
    BY <1>1, <1>2, ReturnsRate DEF ForgetsSample
  <1>3. CASE /\ ~(r.count = 0 \/ ~HasByteTotal(r))
             /\ sampled' = TRUE
             /\ \E rate \in Sample :
                   Returns(WithRate(r, IF rate = "zero" /\ inFlight THEN "none" ELSE rate))
    <2>1. PICK rate \in Sample :
              Returns(WithRate(r, IF rate = "zero" /\ inFlight THEN "none" ELSE rate))
      BY <1>3
    <2> DEFINE said == IF rate = "zero" /\ inFlight THEN "none" ELSE rate
    <2>2. said \in Rates /\ (said # "none" => sampled)
      BY DEF Sample, Rates
    <2>3. /\ WithRate(r, said) \in Readings
          /\ WithRate(r, said).rate = said
          /\ WithRate(r, said).tier = r.tier
          /\ WithRate(r, said).count = r.count
      BY <2>2, ReadingEdits DEF WithRate, Readings
    <2>4. r.tier = "T2" /\ r.count > 0
      <3>1. r.count \in Nat
        BY DEF Readings
      <3> QED
        BY <1>3, <3>1 DEF HasByteTotal
    <2> HIDE DEF said
    <2> QED
      BY <1>1, <2>1, <2>2, <2>3, <2>4, ReturnsRate DEF said
  <1> QED
    BY <1>2, <1>3 DEF Sampled

LEMMA EnvironmentRate ==
    ASSUME PollInv, RateInv, Environment
    PROVE  RateInv'
  <1>1. /\ pc # "done"
        /\ UNCHANGED <<caps, sampled, pc, reading>>
        /\ UNCHANGED <<rclone, since>> \/ since' = "replaced"
    <2>1. CASE \E f, g \in Files : Opens(f) \/ Closes(f) \/ Uploads(f) \/ Renames(f, g)
      BY <2>1 DEF Environment, Opens, Closes, Uploads, Renames, FileMoves, latches
    <2>2. CASE \E r \in Rclones : ReplacedBy(r)
      BY <2>2 DEF Environment, ReplacedBy, latches
    <2> QED
      BY <2>1, <2>2 DEF Environment
  <1> QED
    BY <1>1 DEF RateInv, RateSpansNoLapse, ListsQueue

LEMMA AskQueueRate ==
    ASSUME PollInv, RateInv, AskQueue
    PROVE  RateInv'
  <1>1. /\ pc = "vfs/queue" /\ UNCHANGED <<latches, caps, rclone, since>> /\ caps # {}
        /\ sampled => since # "lapsed" \/ ~ListsQueue
    BY DEF AskQueue, latches, Sampled, Returns, Goes, env, RateInv
  <1> DEFINE q == Qualified(FromQueue(Queue))
  <1> DEFINE c == Qualified(FromStats(cache.count))
  <1>2. q \in Readings /\ q.rate = "none" /\ q.tier = "T2"
    <2>1. q \in Readings
      BY <1>1, QueueTells DEF Tells
    <2> QED
      BY <2>1 DEF Qualified, PartiallyObserved, FromQueue, EmptyReading
  <1>3. cache.kind = "present" =>
            /\ c \in Readings /\ c.rate = "none" /\ c.tier = "T3"
            /\ PartiallyObserved(FromStats(cache.count)) \in Readings
            /\ PartiallyObserved(FromStats(cache.count)).rate = "none"
    <2>1. cache.kind = "present" =>
              c \in Readings /\ PartiallyObserved(FromStats(cache.count)) \in Readings
      BY <1>1, StatsTells DEF Tells
    <2> QED
      BY <2>1 DEF Qualified, PartiallyObserved, FromStats, EmptyReading
  <1>4. CASE ListsQueue /\ Goes("core/stats") /\ reading' = q /\ UNCHANGED sampled
    BY <1>1, <1>2, <1>4 DEF Goes, RateInv, RateSpansNoLapse
  <1>5. CASE ListsQueue /\ \E inFlight \in BOOLEAN : Sampled(q, inFlight)
    BY <1>1, <1>2, <1>5, SampledRate
  <1>6. CASE ForgetsSample /\ Returns(IF cache.kind = "present"
                                      THEN PartiallyObserved(FromStats(cache.count))
                                      ELSE Unmonitored)
    BY <1>1, <1>3, <1>6, UnmonitoredRate, ReturnsRate DEF ForgetsSample
  <1>7. CASE cache.kind = "present" /\ \E inFlight \in BOOLEAN : Sampled(c, inFlight)
    BY <1>1, <1>3, <1>7, SampledRate
  <1>8. CASE ~ListsQueue /\ Returns(Unmonitored) /\ UNCHANGED sampled
    BY <1>1, <1>8, UnmonitoredRate, ReturnsRate
  <1> QED
    BY <1>4, <1>5, <1>6, <1>7, <1>8 DEF AskQueue, Has, ListsQueue

LEMMA AskProgressRate ==
    ASSUME PollInv, RateInv, AskProgress
    PROVE  RateInv'
  <1>1. /\ pc = "core/stats" /\ reading \in Readings /\ reading.rate = "none"
        /\ reading.tier = "T2" /\ (sampled => since # "lapsed") /\ UNCHANGED latches
    BY DEF AskProgress, PollInv, PollerTypeOK, QueueInv, RateInv
  <1>2. ASSUME NEW own
        PROVE  /\ WithProgress(reading, own) \in Readings
               /\ WithProgress(reading, own).rate = "none"
               /\ WithProgress(reading, own).tier = "T2"
    BY <1>1, ReadingEdits DEF WithProgress, Readings
  <1> QED
    BY <1>1, <1>2, SampledRate DEF AskProgress

LEMMA FailuresRate ==
    ASSUME PollInv, RateInv, Unreachable \/ Faulted
    PROVE  RateInv'
  <1>1. /\ pc \in {"vfs/stats", "vfs/queue"} /\ caps # {}
        /\ sampled' = FALSE /\ UNCHANGED <<caps, rclone, since>>
    BY DEF Unreachable, Faulted, Asking, ForgetsSample, latches, RateInv, Returns, Goes, env
  <1>2. CASE Returns(Unmonitored)
    BY <1>1, <1>2, UnmonitoredRate, ReturnsRate
  <1>3. CASE Goes("walk")
    BY <1>1, <1>3 DEF Goes, RateInv, RateSpansNoLapse
  <1> QED
    BY <1>2, <1>3 DEF Unreachable, Faulted

LEMMA ProbeRate ==
    ASSUME PollInv, RateInv, Probe
    PROVE  RateInv'
  <1>1. pc = "rc/list" /\ ~sampled /\ UNCHANGED <<sampled, rclone, since>>
    BY DEF Probe, RateInv, Returns, Continues, Goes, env
  <1>2. CASE caps' = {} /\ Returns(Unmonitored)
    BY <1>1, <1>2, UnmonitoredRate, ReturnsRate
  <1>3. CASE caps' # {} /\ Continues("vfs/stats")
    BY <1>1, <1>3 DEF Continues, Goes, RateInv, RateSpansNoLapse
  <1> QED
    BY <1>2, <1>3 DEF Probe

LEMMA WalkRate ==
    ASSUME PollInv, RateInv, WalkEnds \/ WalkFails \/ \E f \in Files : Visit(f)
    PROVE  RateInv'
  <1>1. pc = "walk" /\ ~sampled /\ caps # {} /\ UNCHANGED <<sampled, caps, rclone, since>>
    BY DEF WalkEnds, WalkFails, Visit, RateInv, latches, Returns, Goes, env
  <1>2. CASE \E f \in Files : Visit(f)
    BY <1>1, <1>2 DEF Visit, Goes, RateInv, RateSpansNoLapse
  <1>3. CASE WalkFails
    BY <1>1, <1>3, UnmonitoredRate, ReturnsRate DEF WalkFails
  <1>4. CASE WalkEnds
    <2> DEFINE scan == FromScan(found, IsComplete)
    <2>1. scan \in Readings /\ scan.rate = "none"
      BY ReadingTypes DEF FromScan, EmptyReading, IsComplete, PollInv, PollerTypeOK
    <2>2. PartiallyObserved(scan) \in Readings /\ PartiallyObserved(scan).rate = "none"
      BY <2>1, ReadingEdits DEF PartiallyObserved, Readings
    <2> QED
      BY <1>1, <1>4, <2>1, <2>2, ReturnsRate DEF WalkEnds
  <1> QED
    BY <1>2, <1>3, <1>4

LEMMA RateInductive == PollInv /\ RateInv /\ [PollerNext]_pollerVars => RateInv'
  <1> SUFFICES ASSUME PollInv, RateInv, [PollerNext]_pollerVars PROVE RateInv'
    OBVIOUS
  <1>1. CASE Begin \/ AskStats \/ Deliver \/ UNCHANGED pollerVars
    <2>1. CASE Begin
      BY <2>1 DEF Begin, env, latches, RateInv, RateSpansNoLapse, ListsQueue
    <2>2. CASE AskStats
      BY <2>2 DEF AskStats, Continues, Goes, env, RateInv, RateSpansNoLapse, ListsQueue
    <2>3. CASE Deliver
      BY <2>3 DEF Deliver, env, latches, RateInv, RateSpansNoLapse, ListsQueue
    <2>4. CASE UNCHANGED pollerVars
      BY <2>4 DEF pollerVars, env, latches, history, RateInv, RateSpansNoLapse, ListsQueue
    <2> QED
      BY <1>1, <2>1, <2>2, <2>3, <2>4
  <1> QED
    BY <1>1, EnvironmentRate, AskQueueRate, AskProgressRate, FailuresRate, ProbeRate, WalkRate
       DEF PollerNext, PollStep

\* A rate is of two polls in a row of one rclone that saw bytes to send
\* (transfer.rs:381-382); where an older sample is kept past a poll that saw none, no
\* rate comes of it.
THEOREM RatesAreFresh == PollerSpec => []RateSpansNoLapse
  <1>1. PollerInit => RateInv
    BY ReadingTypes DEF PollerInit, RateInv, RateSpansNoLapse, NoReading, EmptyReading
  <1>2. RateInv => RateSpansNoLapse
    BY DEF RateInv
  <1> QED
    BY <1>1, <1>2, RateInductive, PollInvariant, PTL DEF PollerSpec

(***************************************************************************)
(* Calls                                                                   *)
(***************************************************************************)
\* A call that may have ended, one attempt later.
Retry(call, try) == IF call.ended # "pending" THEN call ELSE RC!NextTry(call, try)

First(tries) == Retry(RC!Unanswered, tries[1])
Second(tries) == Retry(First(tries), tries[2])
Third(tries) == Retry(Second(tries), tries[3])

LEMMA CallUnfolds ==
    ASSUME NEW tries
    PROVE  RC!CallRaw(tries) = Third(tries)
  <1> DEFINE After(g, n) == IF n = 0 THEN RC!Unanswered
                            ELSE IF g[n - 1].ended # "pending" THEN g[n - 1]
                            ELSE RC!NextTry(g[n - 1], tries[n])
  <1> DEFINE h == [n \in 0..3 |-> IF n = 0 THEN RC!Unanswered ELSE IF n = 1 THEN First(tries)
                                  ELSE IF n = 2 THEN Second(tries) ELSE Third(tries)]
  <1> DEFINE after == CHOOSE g : g = [n \in 0..3 |-> After(g, n)]
  <1>1. \A n \in 0..3 : n = 0 \/ n = 1 \/ n = 2 \/ n = 3
    OBVIOUS
  <1>2. h[0] = RC!Unanswered /\ h[1] = First(tries) /\ h[2] = Second(tries) /\ h[3] = Third(tries)
    OBVIOUS
  <1>3. \A n \in 0..3 : h[n] = After(h, n)
    <2> HIDE DEF h
    <2>1. After(h, 0) = h[0]
      BY <1>2
    <2>2. After(h, 1) = h[1]
      BY <1>2 DEF First, Retry
    <2>3. After(h, 2) = h[2]
      BY <1>2 DEF Second, Retry
    <2>4. After(h, 3) = h[3]
      BY <1>2 DEF Third, Retry
    <2> HIDE DEF After
    <2> QED
      BY <1>1, <2>1, <2>2, <2>3, <2>4
  <1>4. h = [n \in 0..3 |-> After(h, n)]
    <2>1. h = [n \in 0..3 |-> h[n]]
      OBVIOUS
    <2> HIDE DEF h, After
    <2> QED
      BY <1>3, <2>1
  <1>5. after = [n \in 0..3 |-> After(after, n)]
    <2> HIDE DEF h, After
    <2> QED
      BY <1>4
  <1>6. \A n \in 0..3 : after[n] = After(after, n)
    <2> HIDE DEF After, after
    <2> QED
      BY <1>5
  <1>7. after[3] = Third(tries)
    <2> HIDE DEF after
    <2>1. after[0] = RC!Unanswered
      BY <1>6
    <2>2. after[1] = First(tries)
      BY <1>6, <2>1 DEF First, Retry
    <2>3. after[2] = Second(tries)
      BY <1>6, <2>2 DEF Second, Retry
    <2> QED
      BY <1>6, <2>3 DEF Third, Retry
  <1>8. RC!CallRaw(tries) = after[3]
    BY DEF RC!CallRaw, RC!MAX_ATTEMPTS
  <1> QED
    BY <1>7, <1>8

\* Attempts of any length.
AnyTries == [1..RC!MAX_ATTEMPTS -> [met : RC!AttemptResults, takes : Nat]]

LEMMA AttemptsEnd ==
    ASSUME NEW place \in RC!Places, NEW server \in RC!Servers
    PROVE  RC!Attempt(place, server) \in
               {"NotListening", "Connect", "InsecureSocket", "Transport", "Failed",
                "ResponseTooLarge", "Answered"}
  BY DEF RC!Attempt, RC!Verify, RC!Servers, RC!Answered

LEMMA AttemptsSaySo == "Timeout" \notin RC!AttemptResults /\ "pending" \notin RC!AttemptResults
  BY AttemptsEnd DEF RC!AttemptResults

\* What holds of a call after each attempt: while it has not ended there is time left,
\* and all it met was a broken connection.
Under(call, tries, n) ==
    /\ call.spent \in Nat /\ call.asked \in 1..n /\ call.spent <= 100
    /\ \A k \in 1..(call.asked - 1) : tries[k].met = "Transport"
    /\ call.ended = "pending" =>
          call.asked = n /\ call.asked < 3 /\ call.spent < 100 /\ tries[n].met = "Transport"
    /\ call.ended = "Timeout" => call.spent = 100
    /\ call.ended \notin {"Timeout", "pending"} => call.ended = tries[call.asked].met
    /\ call.ended = "Transport" =>
          call.asked = 3 \/ call.spent + 1 * 2^(call.asked - 1) >= 100

LEMMA TryUnder ==
    ASSUME NEW tries \in AnyTries, NEW call, NEW n \in 1..3,
           call.spent \in Nat, call.spent <= 100, call.asked = n - 1, call.ended = "pending",
           \A k \in 1..(n - 1) : tries[k].met = "Transport"
    PROVE  Under(Retry(call, tries[n]), tries, n)
  <1> DEFINE try == tries[n]
  <1> DEFINE next == Retry(call, try)
  <1> DEFINE wait == 1 * 2^(n - 1)
  <1>1. try.takes \in Nat /\ try.met \in RC!AttemptResults /\ try.met # "Timeout" /\ try.met # "pending"
    BY AttemptsSaySo DEF AnyTries, RC!MAX_ATTEMPTS
  <1>2. wait \in Nat /\ wait > 0
    <2>1. 2^0 = 1 /\ 2^1 = 2 /\ 2^2 = 4
      OBVIOUS
    <2>2. CASE n = 1
      <3>1. n - 1 = 0
        BY <2>2
      <3>2. wait = 1
        BY <2>1, <3>1
      <3> QED
        BY <3>2
    <2>3. CASE n = 2
      <3>1. n - 1 = 1
        BY <2>3
      <3>2. wait = 2
        BY <2>1, <3>1
      <3> QED
        BY <3>2
    <2>4. CASE n = 3
      <3>1. n - 1 = 2
        BY <2>4
      <3>2. wait = 4
        BY <2>1, <3>1
      <3> QED
        BY <3>2
    <2> QED
      BY <2>2, <2>3, <2>4
  <1>3. next = IF try.takes > 100 - call.spent
               THEN [spent |-> 100, asked |-> n, ended |-> "Timeout"]
               ELSE IF \/ try.met # "Transport" \/ n >= 3
                       \/ wait >= 100 - (call.spent + try.takes)
               THEN [spent |-> call.spent + try.takes, asked |-> n, ended |-> try.met]
               ELSE [spent |-> call.spent + try.takes + wait, asked |-> n, ended |-> "pending"]
    <2>1. call.asked + 1 = n
      OBVIOUS
    <2> QED
      BY <2>1 DEF Retry, RC!NextTry, RC!CALL_TIMEOUT, RC!MAX_ATTEMPTS, RC!RETRY_BASE_DELAY
  <1> HIDE DEF wait
  <1>4. CASE try.takes > 100 - call.spent
    <2>1. next.spent = 100 /\ next.asked = n /\ next.ended = "Timeout"
      BY <1>3, <1>4
    <2> HIDE DEF next
    <2> QED
      BY <2>1 DEF Under, next
  <1>5. CASE /\ ~(try.takes > 100 - call.spent)
             /\ \/ try.met # "Transport" \/ n >= 3
                \/ wait >= 100 - (call.spent + try.takes)
    <2>1. next.spent = call.spent + try.takes /\ next.asked = n /\ next.ended = try.met
      BY <1>3, <1>5
    <2>2. next.spent \in Nat /\ next.spent <= 100
      BY <1>1, <1>5, <2>1
    <2>3. next.ended = "Transport" => n = 3 \/ next.spent + wait >= 100
      BY <1>1, <1>2, <1>5, <2>1
    <2> HIDE DEF next
    <2> QED
      BY <1>1, <2>1, <2>2, <2>3 DEF Under, next, wait
  <1>6. CASE /\ ~(try.takes > 100 - call.spent)
             /\ ~(\/ try.met # "Transport" \/ n >= 3
                  \/ wait >= 100 - (call.spent + try.takes))
    <2>1. next.spent = call.spent + try.takes + wait /\ next.asked = n /\ next.ended = "pending"
      BY <1>3, <1>6
    <2>2. next.spent \in Nat /\ next.spent < 100 /\ n < 3
      BY <1>1, <1>2, <1>6, <2>1
    <2> HIDE DEF next
    <2> QED
      BY <1>6, <2>1, <2>2 DEF Under, next
  <1> QED
    BY <1>4, <1>5, <1>6

LEMMA RetryUnder ==
    ASSUME NEW tries \in AnyTries, NEW n \in 1..2, NEW call, Under(call, tries, n)
    PROVE  Under(Retry(call, tries[n + 1]), tries, n + 1)
  <1>1. CASE call.ended # "pending"
    BY <1>1 DEF Retry, Under
  <1>2. CASE call.ended = "pending"
    <2>1. /\ call.spent \in Nat /\ call.spent <= 100 /\ call.asked = n
          /\ \A k \in 1..(n - 1) : tries[k].met = "Transport"
          /\ tries[n].met = "Transport"
      BY <1>2 DEF Under
    <2>2. \A k \in 1..n : tries[k].met = "Transport"
      <3>1. \A k \in 1..n : k = n \/ k \in 1..(n - 1)
        OBVIOUS
      <3> QED
        BY <2>1, <3>1
    <2>3. n + 1 \in 1..3 /\ (n + 1) - 1 = n
      OBVIOUS
    <2> QED
      BY <1>2, <2>1, <2>2, <2>3, TryUnder
  <1> QED
    BY <1>1, <1>2

\* However long its attempts take, a call ends within its budget, with what its last
\* attempt met or saying that the budget is spent, and asks again only after a broken
\* connection (rc.rs:13-19, 367-368).
THEOREM CallsEnd == \A tries \in AnyTries : RC!HonestCall(tries)
  <1> SUFFICES ASSUME NEW tries \in AnyTries PROVE RC!HonestCall(tries)
    OBVIOUS
  <1>1. Under(First(tries), tries, 1)
    <2>1. RC!Unanswered.spent = 0 /\ RC!Unanswered.asked = 0 /\ RC!Unanswered.ended = "pending"
      BY DEF RC!Unanswered
    <2>2. \A k \in 1..(1 - 1) : tries[k].met = "Transport"
      OBVIOUS
    <2> QED
      BY <2>1, <2>2, TryUnder DEF First
  <1>2. Under(Second(tries), tries, 2)
    BY <1>1, RetryUnder DEF Second
  <1>3. Under(Third(tries), tries, 3)
    BY <1>2, RetryUnder DEF Third
  <1>4. Third(tries).ended # "pending"
    BY <1>3 DEF Under
  <1> QED
    BY <1>3, <1>4, CallUnfolds DEF RC!HonestCall, Under, RC!MAX_ATTEMPTS, RC!CALL_TIMEOUT,
       RC!RETRY_BASE_DELAY

\* A request is sent to nobody but an rclone of ours that nobody else can reach
\* (rc.rs:377-379).
LEMMA AttemptsAreHonest ==
    ASSUME NEW place \in RC!Places, NEW server \in RC!Servers
    PROVE  RC!HonestAttempt(place, server)
  BY DEF RC!HonestAttempt, RC!Attempt, RC!Verify, RC!IsUnreachable, RC!Answered, RC!Places, RC!Servers

\* Every call of a poll is such a call.
THEOREM CallsAreAllHonest == PollerSpec => []CallsAreHonest
  <1>1. [1..RC!MAX_ATTEMPTS -> RC!Tries] \subseteq AnyTries
    BY DEF AnyTries, RC!Tries
  <1>2. CallsAreHonest
    BY <1>1, CallsEnd, AttemptsAreHonest DEF CallsAreHonest
  <1> QED
    BY <1>2, PTL
=============================================================================
