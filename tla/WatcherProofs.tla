---------------------------- MODULE WatcherProofs ----------------------------
(***************************************************************************)
(* The watcher, for any sets of names and figures: a listener is owed      *)
(* exactly what the registry holds beyond it, and no nudge is lost.        *)
(***************************************************************************)
EXTENDS Watcher, RegistryProofs

LEMMA NextListener ==
    ASSUME ListenerInv, [WatcherNext]_watcherVars
    PROVE  ListenerInv'
  <1>1. CASE UNCHANGED registryVars
    BY <1>1 DEF ListenerInv, registryVars, RegistryTypeOK, TickInv, ListenerSeesRows,
       ListenerSeesFigures, NoFigureOnceDown, Serving, ApplyReading
  <1>2. CASE \E n \in Names : WorldMoves(n)
    BY <1>2, MovesListener
  <1>3. CASE WakeToSweep \/ (\E due : WakeToPoll(due) \/ SweepFails(due))
    BY <1>3, WakeListener
  <1>4. CASE \E due : Sweep(due)
    BY <1>4, SweepListener
  <1>5. CASE \E n \in Names : Poll(n)
    BY <1>5, PollListener
  <1>6. CASE \E change \in news : Announce(change)
    BY <1>6, AnnounceListener
  <1>7. \/ UNCHANGED registryVars
        \/ \E n \in Names : WorldMoves(n) \/ Poll(n)
        \/ WakeToSweep \/ (\E due : WakeToPoll(due) \/ SweepFails(due) \/ Sweep(due))
        \/ \E change \in news : Announce(change)
    <2>1. CASE UNCHANGED watcherVars
      BY <2>1 DEF watcherVars
    <2>2. ASSUME NEW n \in Names,
                 \/ Request(n) \/ Cycle(n) \/ Remount(n) \/ ActedOn(n) \/ Refused(n)
                 \/ PollOne(n) \/ Outside(n)
          PROVE  UNCHANGED registryVars \/ WorldMoves(n) \/ Poll(n)
      BY <2>2 DEF Request, Cycle, Remount, ActedOn, Refused, PollOne, Outside
    <2>3. ASSUME NEW nudged \in BOOLEAN, TickSweep(nudged) \/ TickPoll(nudged)
          PROVE  WakeToSweep \/ (\E due : WakeToPoll(due))
      BY <2>3 DEF TickSweep, TickPoll
    <2>4. CASE SweepEnds \/ SweepGivesUp \/ Publish
      BY <2>4 DEF SweepEnds, SweepGivesUp, Publish
    <2> QED
      BY <2>1, <2>2, <2>3, <2>4 DEF WatcherNext
  <1> QED
    BY <1>1, <1>2, <1>3, <1>4, <1>5, <1>6, <1>7

\* A nudge not yet slept on is a permit; one slept on has brought the deadline forward.
NudgeInv ==
    owed /\ ~woken => phase # "sweep" /\ sweepDue = "gap"

WatcherInv ==
    /\ ListenerInv
    /\ WatcherTypeOK
    /\ ReplacedPollersAreNamed
    /\ NudgeInv

LEMMA NextTypes ==
    ASSUME WatcherTypeOK, ListenerInv', [WatcherNext]_watcherVars
    PROVE  WatcherTypeOK'
  <1> USE DEF WatcherTypeOK
  <1>0. RegistryTypeOK'
    BY DEF ListenerInv
  <1>1. CASE UNCHANGED watcherVars
    BY <1>0, <1>1 DEF watcherVars
  <1>2. ASSUME NEW n \in Names,
               \/ Request(n) \/ Cycle(n) \/ Remount(n) \/ ActedOn(n) \/ Refused(n)
               \/ PollOne(n) \/ Outside(n)
        PROVE  WatcherTypeOK'
    BY <1>0, <1>2 DEF Request, Cycle, Remount, ActedOn, Refused, PollOne, Outside
  <1>3. ASSUME NEW nudged \in BOOLEAN, TickSweep(nudged) \/ TickPoll(nudged)
        PROVE  WatcherTypeOK'
    BY <1>0, <1>3 DEF TickSweep, TickPoll, Wakes, Forgotten
  <1>4. CASE SweepEnds \/ SweepGivesUp \/ Publish
    BY <1>0, <1>4 DEF SweepEnds, SweepGivesUp, Publish, Retain
  <1> QED
    BY <1>1, <1>2, <1>3, <1>4 DEF WatcherNext

LEMMA NextPollers ==
    ASSUME WatcherTypeOK, ReplacedPollersAreNamed, [WatcherNext]_watcherVars
    PROVE  ReplacedPollersAreNamed'
  <1> USE DEF ReplacedPollersAreNamed, WatcherTypeOK
  <1>1. CASE UNCHANGED watcherVars
    BY <1>1 DEF watcherVars
  <1>2. ASSUME NEW n \in Names,
               \/ Request(n) \/ Cycle(n) \/ Remount(n) \/ ActedOn(n) \/ Refused(n)
               \/ PollOne(n) \/ Outside(n)
        PROVE  ReplacedPollersAreNamed'
    BY <1>2 DEF Request, Cycle, Remount, ActedOn, Refused, PollOne, Outside
  <1>3. ASSUME NEW nudged \in BOOLEAN, TickSweep(nudged) \/ TickPoll(nudged)
        PROVE  ReplacedPollersAreNamed'
    BY <1>3 DEF TickSweep, TickPoll, Wakes, Forgotten
  <1>4. CASE SweepEnds \/ SweepGivesUp \/ Publish
    BY <1>4 DEF SweepEnds, SweepGivesUp, Publish, Retain
  <1> QED
    BY <1>1, <1>2, <1>3, <1>4 DEF WatcherNext

LEMMA NextNudge ==
    ASSUME NudgeInv, [WatcherNext]_watcherVars
    PROVE  NudgeInv'
  <1> USE DEF NudgeInv
  <1>1. CASE UNCHANGED watcherVars
    BY <1>1 DEF watcherVars, registryVars
  <1>2. ASSUME NEW n \in Names,
               \/ Request(n) \/ Cycle(n) \/ Remount(n) \/ ActedOn(n) \/ Refused(n)
               \/ PollOne(n) \/ Outside(n)
        PROVE  NudgeInv'
    BY <1>2 DEF Request, Cycle, Remount, ActedOn, Refused, PollOne, Outside, WorldMoves,
       registryVars, Poll, Proceed
  <1>3. ASSUME NEW nudged \in BOOLEAN, TickSweep(nudged) \/ TickPoll(nudged)
        PROVE  NudgeInv'
    BY <1>3 DEF TickSweep, TickPoll, Wakes, WakeToSweep, WakeToPoll, Proceed
  <1>4. CASE SweepEnds \/ SweepGivesUp \/ Publish
    BY <1>4 DEF SweepEnds, SweepGivesUp, Publish, Sweep, SweepFails, Announce, Proceed
  <1> QED
    BY <1>1, <1>2, <1>3, <1>4 DEF WatcherNext

LEMMA WatcherInvariant == WatcherSpec => []WatcherInv
  <1>1. WatcherInit => WatcherInv
    <2> SUFFICES ASSUME WatcherInit PROVE WatcherInv
      OBVIOUS
    <2>1. ListenerInv
      BY InitListener DEF WatcherInit
    <2>2. WatcherTypeOK
      BY <2>1 DEF WatcherInit, WatcherTypeOK, ListenerInv, Serving
    <2>3. ReplacedPollersAreNamed /\ NudgeInv
      BY DEF WatcherInit, ReplacedPollersAreNamed, NudgeInv
    <2> QED
      BY <2>1, <2>2, <2>3 DEF WatcherInv
  <1>2. WatcherInv /\ [WatcherNext]_watcherVars => WatcherInv'
    BY NextListener, NextTypes, NextPollers, NextNudge DEF WatcherInv
  <1> QED
    BY <1>1, <1>2, PTL DEF WatcherSpec

\* The variables of the watcher keep their types (watch.rs:68-84).
THEOREM WatcherTypes == WatcherSpec => []WatcherTypeOK
  BY WatcherInvariant, PTL DEF WatcherInv

\* A client that has heard every signal is owed exactly the changes, if any, that make
\* its row what ListMounts answers and its figure what GetTransferState answers
\* (registry.rs:40-81, dbus.rs:123-138).
THEOREM ListenersAreOwed == WatcherSpec => []ListenerIsOwed
  <1>1. WatcherInv => ListenerIsOwed
    BY DEF WatcherInv, ListenerInv, ListenerIsOwed
  <1> QED
    BY <1>1, WatcherInvariant, PTL

\* No figure is kept for a mount that is not up (registry.rs:43-47).
THEOREM FiguresAreOfTheMounted == WatcherSpec => []NoFigureOnceDown
  <1>1. WatcherInv => NoFigureOnceDown
    BY DEF WatcherInv, ListenerInv
  <1> QED
    BY <1>1, WatcherInvariant, PTL

\* A poller of an rclone that a request replaced is on its way out (watch.rs:40-54, 156-163).
THEOREM PollersAreForgotten == WatcherSpec => []ReplacedPollersAreNamed
  BY WatcherInvariant, PTL DEF WatcherInv

\* No nudge is slept through (watch.rs:129-154).
THEOREM NudgesAreHeeded == WatcherSpec => []NudgeIsHeeded
  <1>1. WatcherInv => NudgeIsHeeded
    BY DEF WatcherInv, NudgeInv, NudgeIsHeeded
  <1> QED
    BY <1>1, WatcherInvariant, PTL

(***************************************************************************)
(* The registry implements the abstract tables                             *)
(***************************************************************************)
\* Only a publication changes what a listener holds, and it names what the registry holds.
LEMMA PublishDelivers ==
    ASSUME ListenerInv, NEW change \in news, Announce(change)
    PROVE  /\ UNCHANGED <<rows, readings>>
           /\ told' = told \/ \E n \in Names : told' = [told EXCEPT ![n] = rows[n]]
           /\ heard' = heard \/ \E n \in Names : heard' = [heard EXCEPT ![n] = readings[n]]
  <1>1. /\ change \in Changes /\ change.name \in Names
        /\ heard \in [Names -> Figures \cup {Nothing}] /\ told \in Tables
        /\ UNCHANGED <<rows, readings>>
        /\ told' = Apply(change, told) /\ heard' = ApplyReading(change, heard)
    BY DEF Announce, ListenerInv, RegistryTypeOK, Changes
  <1>2. CASE change.kind = "transfer"
    <2>1. told' = told
      BY <1>1, <1>2 DEF Apply
    <2>2. heard' = [heard EXCEPT ![change.name] = change.value]
      BY <1>1, <1>2 DEF ApplyReading
    <2>3. ApplyReading(change, heard)[change.name] = readings[change.name]
      BY <1>1, <1>2 DEF ListenerInv, ListenerSeesFigures
    <2>4. change.value = readings[change.name]
      BY <1>1, <1>2, <2>3 DEF ApplyReading
    <2> QED
      BY <1>1, <2>1, <2>2, <2>4
  <1>3. CASE change.kind # "transfer"
    <2>1. told' = [told EXCEPT ![change.name] = change.value]
      BY <1>1, <1>3 DEF Apply
    <2>2. change.value = rows[change.name]
      BY <1>1, <1>3 DEF ListenerInv, ListenerSeesRows
    <2>3. CASE change.kind = "mount"
      BY <1>1, <2>1, <2>2, <2>3 DEF ApplyReading
    <2>4. CASE change.kind = "removed"
      <3>1. heard' = [heard EXCEPT ![change.name] = Nothing]
        BY <1>1, <2>4 DEF ApplyReading
      <3>2. ApplyReading(change, heard)[change.name] = readings[change.name]
        BY <1>1, <2>4 DEF ListenerInv, ListenerSeesFigures
      <3>3. readings[change.name] = Nothing
        BY <1>1, <2>4, <3>2 DEF ApplyReading
      <3> QED
        BY <1>1, <2>1, <2>2, <3>1, <3>3
    <2> QED
      BY <1>1, <1>3, <2>3, <2>4 DEF Changes
  <1> QED
    BY <1>2, <1>3

\* No other step of the watcher, nor of anybody else, touches a listener's copy.
LEMMA OthersTellNothing ==
    ASSUME [WatcherNext]_watcherVars, ~\E change \in news : Announce(change)
    PROVE  UNCHANGED <<told, heard>>
  <1>1. CASE UNCHANGED watcherVars
    BY <1>1 DEF watcherVars, registryVars
  <1>2. ASSUME NEW n \in Names,
               \/ Request(n) \/ Cycle(n) \/ Remount(n) \/ ActedOn(n) \/ Refused(n)
               \/ PollOne(n) \/ Outside(n)
        PROVE  UNCHANGED <<told, heard>>
    BY <1>2 DEF Request, Cycle, Remount, ActedOn, Refused, PollOne, Outside, WorldMoves,
       registryVars, Poll
  <1>3. ASSUME NEW nudged \in BOOLEAN, TickSweep(nudged) \/ TickPoll(nudged)
        PROVE  UNCHANGED <<told, heard>>
    BY <1>3 DEF TickSweep, TickPoll, WakeToSweep, WakeToPoll
  <1>4. CASE SweepEnds \/ SweepGivesUp \/ Publish
    BY <1>4 DEF SweepEnds, SweepGivesUp, Publish, Sweep, SweepFails
  <1> QED
    BY <1>1, <1>2, <1>3, <1>4 DEF WatcherNext

\* The safety half of Mirrored, for the rows and for the figures: every step of the
\* watcher changes the registry's table, delivers one entry of it, or does neither
\* (registry.rs:40-72, watch.rs:89-112).
THEOREM RowsImplementMirror == WatcherSpec => RowsMirror!MirrorSafety
  <1>1. WatcherInit => RowsMirror!MirrorInit
    BY DEF WatcherInit, RegistryInit, RowsMirror!MirrorInit, Tables, NoRows, States
  <1>2. ListenerInv /\ ListenerInv' /\ [WatcherNext]_watcherVars
            => [RowsMirror!MirrorNext]_(RowsMirror!mirrorVars)
    <2> SUFFICES ASSUME ListenerInv, ListenerInv', [WatcherNext]_watcherVars
                 PROVE  [RowsMirror!MirrorNext]_(RowsMirror!mirrorVars)
      OBVIOUS
    <2> USE DEF RowsMirror!MirrorNext, RowsMirror!Change, RowsMirror!Deliver, RowsMirror!mirrorVars
    <2>1. CASE \E change \in news : Announce(change)
      BY <2>1, PublishDelivers
    <2>2. CASE ~\E change \in news : Announce(change)
      <3>1. rows' \in [Names -> States \cup {Absent}]
        BY DEF ListenerInv, RegistryTypeOK, Tables
      <3> QED
        BY <2>2, <3>1, OthersTellNothing
    <2> QED
      BY <2>1, <2>2
  <1>3. WatcherInv => ListenerInv
    BY DEF WatcherInv
  <1> QED
    BY <1>1, <1>2, <1>3, WatcherInvariant, PTL DEF WatcherSpec, RowsMirror!MirrorSafety

\* The same of the figures (registry.rs:74-81, watch.rs:206-252).
THEOREM FiguresImplementMirror == WatcherSpec => FiguresMirror!MirrorSafety
  <1>1. WatcherInit => FiguresMirror!MirrorInit
    BY DEF WatcherInit, RegistryInit, FiguresMirror!MirrorInit
  <1>2. ListenerInv /\ ListenerInv' /\ [WatcherNext]_watcherVars
            => [FiguresMirror!MirrorNext]_(FiguresMirror!mirrorVars)
    <2> SUFFICES ASSUME ListenerInv, ListenerInv', [WatcherNext]_watcherVars
                 PROVE  [FiguresMirror!MirrorNext]_(FiguresMirror!mirrorVars)
      OBVIOUS
    <2> USE DEF FiguresMirror!MirrorNext, FiguresMirror!Change, FiguresMirror!Deliver,
            FiguresMirror!mirrorVars
    <2>1. CASE \E change \in news : Announce(change)
      BY <2>1, PublishDelivers
    <2>2. CASE ~\E change \in news : Announce(change)
      <3>1. readings' \in [Names -> Figures \cup {Nothing}]
        BY DEF ListenerInv, RegistryTypeOK
      <3> QED
        BY <2>2, <3>1, OthersTellNothing
    <2> QED
      BY <2>1, <2>2
  <1>3. WatcherInv => ListenerInv
    BY DEF WatcherInv
  <1> QED
    BY <1>1, <1>2, <1>3, WatcherInvariant, PTL DEF WatcherSpec, FiguresMirror!MirrorSafety
=============================================================================
