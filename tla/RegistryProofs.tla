---------------------------- MODULE RegistryProofs ----------------------------
(***************************************************************************)
(* The registry by itself, for any sets of names and figures: what a       *)
(* listener is owed is exactly what the registry holds beyond it, through  *)
(* every step of a tick.                                                   *)
(***************************************************************************)
EXTENDS Registry, TLAPS

\* A sweep begins with nothing left to publish, and a name still to be polled has had
\* no reading published in this tick.
TickInv ==
    /\ phase \in {"asleep", "sweep"} => news = {}
    /\ phase = "poll" \/ toPoll = {}
    /\ toPoll \subseteq Serving(rows)
    /\ \A c \in news : c.kind = "transfer" => c.name \notin toPoll

ListenerInv ==
    /\ RegistryTypeOK
    /\ TickInv
    /\ ListenerSeesRows
    /\ ListenerSeesFigures
    /\ NoFigureOnceDown

LEMMA InitListener == RegistryInit => ListenerInv
  <1> SUFFICES ASSUME RegistryInit PROVE ListenerInv
    OBVIOUS
  <1>1. RegistryTypeOK
    BY DEF RegistryInit, RegistryTypeOK, Tables, NoRows, States
  <1>2. TickInv
    BY DEF RegistryInit, TickInv
  <1>3. ListenerSeesRows /\ ListenerSeesFigures
    BY DEF RegistryInit, ListenerSeesRows, ListenerSeesFigures
  <1>4. NoFigureOnceDown
    BY DEF RegistryInit, FirstTick, NoFigureOnceDown
  <1> QED
    BY <1>1, <1>2, <1>3, <1>4 DEF ListenerInv

LEMMA MovesListener ==
    ASSUME ListenerInv, NEW n \in Names, WorldMoves(n)
    PROVE  ListenerInv'
  <1>1. world' \in Tables
    BY DEF ListenerInv, RegistryTypeOK, WorldMoves, Tables, Findable, States
  <1> QED
    BY <1>1 DEF ListenerInv, RegistryTypeOK, WorldMoves, TickInv, ListenerSeesRows,
       ListenerSeesFigures, NoFigureOnceDown, Serving, ApplyReading

LEMMA SweepListener ==
    ASSUME ListenerInv, NEW due, Sweep(due)
    PROVE  ListenerInv'
  <1>1. /\ news = {} /\ rows' = world /\ world' = world /\ told' = told /\ heard' = heard
        /\ news' = Dropped(world) \cup Changed(world) \cup Gone(world)
        /\ readings' = [n \in Names |-> IF Pollable(world[n]) THEN readings[n] ELSE Nothing]
        /\ due \subseteq Serving(world)
    BY DEF ListenerInv, TickInv, Sweep, ObserveMounts
  <1>2. RegistryTypeOK'
    <2>1. news' \subseteq Changes
      BY <1>1 DEF ListenerInv, RegistryTypeOK, Tables, Dropped, Changed, Gone, Transfer,
         MountChange, Removed, Changes
    <2>2. phase' \in {"asleep", "poll", "publish"} /\ toPoll' \subseteq Names
      BY <1>1 DEF Sweep, Proceed, Serving
    <2>3. readings' \in [Names -> Figures \cup {Nothing}]
      BY <1>1 DEF ListenerInv, RegistryTypeOK
    <2> QED
      BY <1>1, <2>1, <2>2, <2>3 DEF ListenerInv, RegistryTypeOK
  <1>3. TickInv'
    <2>1. \A c \in news' : c.kind = "transfer" => ~Pollable(world[c.name])
      BY <1>1 DEF Dropped, Changed, Gone, Transfer, MountChange, Removed
    <2> QED
      BY <1>1, <2>1 DEF TickInv, Sweep, Proceed, Serving
  <1>4. ListenerSeesRows'
    <2> SUFFICES ASSUME NEW n \in Names
                 PROVE  LET owe == {c \in news' : c.name = n /\ c.kind # "transfer"}
                        IN  \/ owe = {} /\ told'[n] = rows'[n]
                            \/ \E c \in owe : owe = {c} /\ c.value = rows'[n]
      BY DEF ListenerSeesRows
    <2> DEFINE owe == {c \in news' : c.name = n /\ c.kind # "transfer"}
    <2>1. told[n] = rows[n]
      BY <1>1 DEF ListenerInv, ListenerSeesRows
    <2>2. CASE rows[n] = world[n]
      <3>1. owe = {}
        BY <1>1, <2>2 DEF Dropped, Changed, Gone, Transfer, MountChange, Removed
      <3> QED
        BY <1>1, <2>1, <2>2, <3>1
    <2>3. CASE rows[n] # world[n] /\ world[n] # Absent
      <3>1. owe = {MountChange(n, world[n])}
        BY <1>1, <2>3 DEF Dropped, Changed, Gone, Transfer, MountChange, Removed
      <3>2. MountChange(n, world[n]).value = world[n]
        BY DEF MountChange
      <3> QED
        BY <1>1, <3>1, <3>2
    <2>4. CASE rows[n] # world[n] /\ world[n] = Absent
      <3>1. owe = {Removed(n)}
        BY <1>1, <2>4 DEF Dropped, Changed, Gone, Transfer, MountChange, Removed
      <3>2. Removed(n).value = Absent
        BY DEF Removed
      <3> QED
        BY <1>1, <2>4, <3>1, <3>2
    <2> QED
      BY <2>2, <2>3, <2>4
  <1>5. ListenerSeesFigures'
    <2> SUFFICES ASSUME NEW n \in Names
                 PROVE  LET owe == {c \in news' : c.name = n /\ c.kind # "mount"}
                        IN  \/ owe = {} /\ heard'[n] = readings'[n]
                            \/ \E c \in owe :
                                  owe = {c} /\ ApplyReading(c, heard')[n] = readings'[n]
      BY DEF ListenerSeesFigures
    <2> DEFINE owe == {c \in news' : c.name = n /\ c.kind # "mount"}
    <2>1. heard[n] = readings[n] /\ heard \in [Names -> Figures \cup {Nothing}]
      BY <1>1 DEF ListenerInv, ListenerSeesFigures, RegistryTypeOK
    <2>2. CASE world[n] = Absent /\ rows[n] # Absent
      <3>1. owe = {Removed(n)}
        BY <1>1, <2>2 DEF Dropped, Changed, Gone, Transfer, MountChange, Removed
      <3>2. ApplyReading(Removed(n), heard)[n] = Nothing
        BY <2>1 DEF ApplyReading, Removed
      <3>3. readings'[n] = Nothing
        BY <1>1, <2>2 DEF Pollable, Absent
      <3> QED
        BY <1>1, <3>1, <3>2, <3>3
    <2>3. CASE world[n] # Absent /\ ~Pollable(world[n]) /\ readings[n] # Nothing
      <3>1. owe = {Transfer(n, Nothing)}
        BY <1>1, <2>3 DEF Dropped, Changed, Gone, Transfer, MountChange, Removed
      <3>2. ApplyReading(Transfer(n, Nothing), heard)[n] = Nothing
        BY <2>1 DEF ApplyReading, Transfer
      <3>3. readings'[n] = Nothing
        BY <1>1, <2>3
      <3> QED
        BY <1>1, <3>1, <3>2, <3>3
    <2>4. CASE /\ ~(world[n] = Absent /\ rows[n] # Absent)
               /\ ~(world[n] # Absent /\ ~Pollable(world[n]) /\ readings[n] # Nothing)
      <3>1. owe = {}
        BY <1>1, <2>4 DEF Dropped, Changed, Gone, Transfer, MountChange, Removed
      <3>2. Pollable(world[n]) \/ readings[n] = Nothing
        <4>1. CASE world[n] = Absent
          <5>1. rows[n] = Absent
            BY <2>4, <4>1
          <5>2. ~Pollable(rows[n])
            BY <5>1 DEF Pollable, Absent
          <5> QED
            BY <5>2 DEF ListenerInv, NoFigureOnceDown
        <4> QED
          BY <2>4, <4>1
      <3> QED
        BY <1>1, <2>1, <3>1, <3>2
    <2> QED
      BY <2>2, <2>3, <2>4
  <1>6. NoFigureOnceDown'
    BY <1>1 DEF NoFigureOnceDown
  <1> QED
    BY <1>2, <1>3, <1>4, <1>5, <1>6 DEF ListenerInv

\* The ticks that only move the watcher along: rows, readings and news stay.
LEMMA WakeListener ==
    ASSUME ListenerInv,
           WakeToSweep \/ (\E due : WakeToPoll(due) \/ SweepFails(due))
    PROVE  ListenerInv'
  <1>1. UNCHANGED <<world, rows, readings, news, told, heard>>
    BY DEF WakeToSweep, WakeToPoll, SweepFails
  <1>2. news = {} /\ toPoll' \subseteq Serving(rows)
    BY DEF ListenerInv, TickInv, WakeToSweep, WakeToPoll, SweepFails, Proceed
  <1>3. phase' \in {"asleep", "sweep", "poll", "publish"} /\ (phase' = "poll" \/ toPoll' = {})
    BY DEF ListenerInv, TickInv, WakeToSweep, WakeToPoll, SweepFails, Proceed
  <1> QED
    BY <1>1, <1>2, <1>3 DEF ListenerInv, RegistryTypeOK, TickInv, ListenerSeesRows,
       ListenerSeesFigures, NoFigureOnceDown, Serving, ApplyReading

LEMMA PollListener ==
    ASSUME ListenerInv, NEW n \in Names, Poll(n)
    PROVE  ListenerInv'
  <1>1. PICK f \in Figures : ObserveTransfer(n, f)
    BY DEF Poll
  <1>2. /\ UNCHANGED <<world, rows, told, heard>>
        /\ readings' = [readings EXCEPT ![n] = f]
        /\ news' = IF readings[n] = f THEN news ELSE news \cup {Transfer(n, f)}
        /\ n \in toPoll /\ toPoll' = toPoll \ {n} /\ toPoll' \subseteq toPoll
        /\ rows[n] = "mounted" /\ n \in Serving(rows)
    BY <1>1 DEF Poll, ObserveTransfer, Proceed, ListenerInv, TickInv, Serving, Pollable
  <1>3. readings \in [Names -> Figures \cup {Nothing}] /\ heard \in [Names -> Figures \cup {Nothing}]
    BY DEF ListenerInv, RegistryTypeOK
  <1>4. {c \in news : c.name = n /\ c.kind # "mount"} = {}
    <2> SUFFICES ASSUME NEW c \in news, c.name = n, c.kind # "mount" PROVE FALSE
      OBVIOUS
    <2>1. c.kind = "removed" /\ c.value = Absent
      BY <1>2 DEF ListenerInv, TickInv, RegistryTypeOK, Changes
    <2>2. c.value = rows[n]
      BY <2>1 DEF ListenerInv, ListenerSeesRows
    <2> QED
      BY <1>2, <2>1, <2>2 DEF Absent
  <1>5. RegistryTypeOK'
    <2>1. Transfer(n, f) \in Changes
      BY DEF Transfer, Changes
    <2>2. phase' \in {"asleep", "poll", "publish"}
      BY DEF Poll, Proceed
    <2>3. toPoll' \subseteq Names
      BY <1>2 DEF ListenerInv, RegistryTypeOK
    <2> QED
      BY <1>2, <1>3, <2>1, <2>2, <2>3 DEF ListenerInv, RegistryTypeOK
  <1>6. TickInv'
    BY <1>2 DEF ListenerInv, TickInv, Poll, Proceed, Serving, Transfer
  <1>7. ListenerSeesRows'
    <2> SUFFICES ASSUME NEW k \in Names
                 PROVE  {c \in news' : c.name = k /\ c.kind # "transfer"}
                            = {c \in news : c.name = k /\ c.kind # "transfer"}
      BY <1>2 DEF ListenerInv, ListenerSeesRows
    <2> QED
      BY <1>2 DEF Transfer
  <1>8. ListenerSeesFigures'
    <2> SUFFICES ASSUME NEW k \in Names
                 PROVE  LET owe == {c \in news' : c.name = k /\ c.kind # "mount"}
                        IN  \/ owe = {} /\ heard'[k] = readings'[k]
                            \/ \E c \in owe :
                                  owe = {c} /\ ApplyReading(c, heard')[k] = readings'[k]
      BY DEF ListenerSeesFigures
    <2> DEFINE owe == {c \in news' : c.name = k /\ c.kind # "mount"}
    <2>1. CASE k # n
      <3>1. owe = {c \in news : c.name = k /\ c.kind # "mount"}
        BY <1>2, <2>1 DEF Transfer
      <3>2. readings'[k] = readings[k]
        BY <1>2, <1>3, <2>1
      <3> QED
        BY <1>2, <3>1, <3>2 DEF ListenerInv, ListenerSeesFigures, ApplyReading
    <2>2. CASE k = n /\ readings[n] = f
      BY <1>2, <1>3, <1>4, <2>2 DEF ListenerInv, ListenerSeesFigures
    <2>3. CASE k = n /\ readings[n] # f
      <3>1. owe = {Transfer(n, f)}
        BY <1>2, <1>4, <2>3 DEF Transfer
      <3>2. ApplyReading(Transfer(n, f), heard')[n] = f
        BY <1>2, <1>3 DEF ApplyReading, Transfer
      <3> QED
        BY <1>2, <1>3, <2>3, <3>1, <3>2
    <2> QED
      BY <2>1, <2>2, <2>3
  <1>9. NoFigureOnceDown'
    BY <1>2, <1>3 DEF ListenerInv, NoFigureOnceDown, Pollable
  <1> QED
    BY <1>5, <1>6, <1>7, <1>8, <1>9 DEF ListenerInv

LEMMA AnnounceListener ==
    ASSUME ListenerInv, NEW change \in news, Announce(change)
    PROVE  ListenerInv'
  <1>1. /\ UNCHANGED <<world, rows, readings>>
        /\ told' = Apply(change, told) /\ heard' = ApplyReading(change, heard)
        /\ news' = news \ {change} /\ toPoll' = {}
    BY DEF Announce, Proceed
  <1>2. /\ told \in Tables /\ heard \in [Names -> Figures \cup {Nothing}]
        /\ change \in Changes /\ change.name \in Names
        /\ change.kind \in {"mount", "removed", "transfer"}
    BY DEF ListenerInv, RegistryTypeOK, Changes
  <1>3. told' \in Tables
    <2>1. CASE change.kind = "transfer"
      BY <1>1, <1>2, <2>1 DEF Apply
    <2>2. CASE change.kind # "transfer"
      <3>1. change.value = rows[change.name]
        BY <1>2, <2>2 DEF ListenerInv, ListenerSeesRows
      <3>2. rows \in Tables
        BY DEF ListenerInv, RegistryTypeOK
      <3>3. /\ change.value \in Findable(change.name) \cup {Absent}
              /\ change.value \in States \cup {Absent}
        BY <1>2, <3>1, <3>2 DEF Tables
      <3>4. told' = [told EXCEPT ![change.name] = change.value]
        BY <1>1, <2>2 DEF Apply
      <3> QED
        BY <1>2, <3>3, <3>4 DEF Tables
    <2> QED
      BY <2>1, <2>2
  <1>4. heard' \in [Names -> Figures \cup {Nothing}]
    <2>1. change.kind = "transfer" => change.value \in Figures \cup {Nothing}
      BY <1>2 DEF Changes
    <2> QED
      BY <1>1, <1>2, <2>1 DEF ApplyReading
  <1>5. RegistryTypeOK'
    BY <1>1, <1>3, <1>4 DEF ListenerInv, RegistryTypeOK, Announce, Proceed
  <1>6. TickInv'
    BY <1>1 DEF ListenerInv, TickInv, Announce, Proceed
  <1>7. ListenerSeesRows'
    <2> SUFFICES ASSUME NEW k \in Names
                 PROVE  LET owe == {c \in news' : c.name = k /\ c.kind # "transfer"}
                        IN  \/ owe = {} /\ told'[k] = rows'[k]
                            \/ \E c \in owe : owe = {c} /\ c.value = rows'[k]
      BY DEF ListenerSeesRows
    <2> DEFINE owe == {c \in news' : c.name = k /\ c.kind # "transfer"}
    <2> DEFINE owed0 == {c \in news : c.name = k /\ c.kind # "transfer"}
    <2>1. \/ owed0 = {} /\ told[k] = rows[k]
          \/ \E c \in owed0 : owed0 = {c} /\ c.value = rows[k]
      BY DEF ListenerInv, ListenerSeesRows
    <2>2. CASE change \in owed0
      <3>1. owe = {} /\ change.value = rows[k]
        BY <1>1, <2>1, <2>2
      <3>2. told'[k] = change.value
        BY <1>1, <1>2, <2>2 DEF Apply, Tables
      <3> QED
        BY <1>1, <3>1, <3>2
    <2>3. CASE change \notin owed0
      <3>1. owe = owed0
        BY <1>1, <2>3
      <3>2. told'[k] = told[k]
        BY <1>1, <1>2, <2>3 DEF Apply, Tables
      <3> QED
        BY <1>1, <2>1, <3>1, <3>2
    <2> QED
      BY <2>2, <2>3
  <1>8. ListenerSeesFigures'
    <2> SUFFICES ASSUME NEW k \in Names
                 PROVE  LET owe == {c \in news' : c.name = k /\ c.kind # "mount"}
                        IN  \/ owe = {} /\ heard'[k] = readings'[k]
                            \/ \E c \in owe :
                                  owe = {c} /\ ApplyReading(c, heard')[k] = readings'[k]
      BY DEF ListenerSeesFigures
    <2> DEFINE owe == {c \in news' : c.name = k /\ c.kind # "mount"}
    <2> DEFINE owed0 == {c \in news : c.name = k /\ c.kind # "mount"}
    <2>1. \/ owed0 = {} /\ heard[k] = readings[k]
          \/ \E c \in owed0 : owed0 = {c} /\ ApplyReading(c, heard)[k] = readings[k]
      BY DEF ListenerInv, ListenerSeesFigures
    <2>2. CASE change \in owed0
      <3>1. owe = {} /\ ApplyReading(change, heard)[k] = readings[k]
        BY <1>1, <2>1, <2>2
      <3> QED
        BY <1>1, <3>1
    <2>3. CASE change \notin owed0
      <3>1. owe = owed0
        BY <1>1, <2>3
      <3>2. heard'[k] = heard[k]
        BY <1>1, <1>2, <2>3 DEF ApplyReading
      <3>3. \A c \in owed0 : ApplyReading(c, heard')[k] = ApplyReading(c, heard)[k]
        BY <1>2, <1>4 DEF ApplyReading
      <3> QED
        BY <1>1, <2>1, <3>1, <3>2, <3>3
    <2> QED
      BY <2>2, <2>3
  <1>9. NoFigureOnceDown'
    BY <1>1 DEF ListenerInv, NoFigureOnceDown
  <1> QED
    BY <1>5, <1>6, <1>7, <1>8, <1>9 DEF ListenerInv

-----------------------------------------------------------------------------
(* Signals of two kinds never change one entry of a listener: a configured *)
(* row is never removed, and only a configured mount has figures.          *)

SignalsApart ==
    /\ \A n \in Names : world[n] \in Findable(n)
    /\ \A c \in news : /\ c.kind = "removed" => c.name \notin Configured
                       /\ c.kind = "transfer" => c.name \in Configured
    /\ \A n \in Names \ Configured : readings[n] = Nothing

LEMMA ConfiguredIsListed ==
    ASSUME NEW n \in Configured
    PROVE  Absent \notin Findable(n)
  BY RegistryAssumption DEF RegistryAssumption, Findable, Absent

LEMMA OnlyConfiguredMounts ==
    ASSUME NEW n \in Names \ Configured
    PROVE  "mounted" \notin Findable(n) \cup {Absent}
  <1>1. Absent # "mounted"
    BY DEF Absent
  <1>2. Findable(n) \subseteq {"orphaned", "foreign", Absent}
    BY DEF Findable
  <1> QED
    BY <1>1, <1>2

LEMMA InitApart == RegistryInit => SignalsApart
  <1> SUFFICES ASSUME RegistryInit PROVE SignalsApart
    OBVIOUS
  <1>1. \A n \in Names : world[n] \in Findable(n)
    BY DEF RegistryInit
  <1>2. ASSUME NEW n \in Names \ Configured PROVE readings[n] = Nothing
    <2>1. rows[n] \in Findable(n) \cup {Absent}
      BY <1>1 DEF RegistryInit, NoRows
    <2> QED
      BY <2>1, OnlyConfiguredMounts DEF RegistryInit, FirstTick, Pollable
  <1> QED
    BY <1>1, <1>2 DEF RegistryInit, SignalsApart

LEMMA MovesApart ==
    ASSUME SignalsApart, world \in Tables, NEW n \in Names, WorldMoves(n)
    PROVE  SignalsApart' /\ world' \in Tables
  BY DEF SignalsApart, WorldMoves, Tables, Findable, States

LEMMA SweepApart ==
    ASSUME ListenerInv, SignalsApart, NEW due, Sweep(due)
    PROVE  SignalsApart'
  <1>1. /\ news' = Dropped(world) \cup Changed(world) \cup Gone(world) /\ world' = world
        /\ readings' = [n \in Names |-> IF Pollable(world[n]) THEN readings[n] ELSE Nothing]
    BY DEF ListenerInv, TickInv, Sweep, ObserveMounts
  <1>2. \A c \in Dropped(world) : c.kind = "transfer" /\ c.name \in Configured
    BY DEF Dropped, Transfer, SignalsApart
  <1>3. \A c \in Changed(world) : c.kind = "mount"
    BY DEF Changed, MountChange
  <1>4. \A c \in Gone(world) : c.kind = "removed" /\ c.name \notin Configured
    BY ConfiguredIsListed DEF Gone, Removed, SignalsApart
  <1> QED
    BY <1>1, <1>2, <1>3, <1>4 DEF SignalsApart

LEMMA PollApart ==
    ASSUME ListenerInv, SignalsApart, NEW n \in Names, Poll(n)
    PROVE  SignalsApart'
  <1>1. PICK f \in Figures : ObserveTransfer(n, f)
    BY DEF Poll
  <1>2. n \in Configured
    <2>1. rows[n] = "mounted" /\ rows[n] \in Findable(n) \cup {Absent}
      BY DEF Poll, ListenerInv, TickInv, RegistryTypeOK, Serving, Pollable, Tables
    <2> QED
      BY <2>1, OnlyConfiguredMounts
  <1>3. readings \in [Names -> Figures \cup {Nothing}]
    BY DEF ListenerInv, RegistryTypeOK
  <1> QED
    BY <1>1, <1>2, <1>3 DEF SignalsApart, Poll, ObserveTransfer, Transfer

\* What a tick does short of publishing: a listener is told nothing, and what changes of
\* a configured mount joins what it is owed.
LoopStep ==
    \/ \E n \in Names : WorldMoves(n)
    \/ WakeToSweep
    \/ \E due : WakeToPoll(due)
    \/ \E due : Sweep(due)
    \/ \E n \in Names : Poll(n)

LEMMA LoopKeepsListener ==
    ASSUME ListenerInv, LoopStep
    PROVE  ListenerInv'
  BY MovesListener, WakeListener, SweepListener, PollListener DEF LoopStep

LEMMA LoopKeepsApart ==
    ASSUME ListenerInv, SignalsApart, LoopStep
    PROVE  SignalsApart'
  <1>1. CASE WakeToSweep \/ \E due : WakeToPoll(due)
    BY <1>1 DEF WakeToSweep, WakeToPoll, SignalsApart
  <1> QED
    BY <1>1, MovesApart, SweepApart, PollApart DEF LoopStep, ListenerInv, RegistryTypeOK

LEMMA LoopOwes ==
    ASSUME ListenerInv, SignalsApart, LoopStep
    PROVE  /\ UNCHANGED <<told, heard>>
           /\ news \subseteq news'
           /\ \A n \in Configured :
                 /\ rows'[n] # rows[n]
                        => \E c \in news' : c.kind = "mount" /\ c.name = n
                 /\ readings'[n] # readings[n]
                        => \E c \in news' : c.kind = "transfer" /\ c.name = n
  <1>1. CASE \/ \E n \in Names : WorldMoves(n)
             \/ WakeToSweep \/ \E due : WakeToPoll(due)
    BY <1>1 DEF WorldMoves, WakeToSweep, WakeToPoll
  <1>2. CASE \E due : Sweep(due)
    <2>1. /\ news = {} /\ rows' = world /\ told' = told /\ heard' = heard
          /\ news' = Dropped(world) \cup Changed(world) \cup Gone(world)
          /\ readings' = [n \in Names |-> IF Pollable(world[n]) THEN readings[n] ELSE Nothing]
      BY <1>2 DEF ListenerInv, TickInv, Sweep, ObserveMounts
    <2>2. ASSUME NEW n \in Configured
          PROVE  n \in Names /\ world[n] # Absent
      BY ConfiguredIsListed DEF SignalsApart, Names
    <2>3. ASSUME NEW n \in Configured, rows'[n] # rows[n]
          PROVE  \E c \in news' : c.kind = "mount" /\ c.name = n
      <3>1. MountChange(n, world[n]) \in Changed(world)
        BY <2>1, <2>2, <2>3 DEF Changed
      <3> QED
        BY <2>1, <3>1 DEF MountChange
    <2>4. ASSUME NEW n \in Configured, readings'[n] # readings[n]
          PROVE  \E c \in news' : c.kind = "transfer" /\ c.name = n
      <3>1. Transfer(n, Nothing) \in Dropped(world)
        BY <2>1, <2>2, <2>4 DEF Dropped
      <3> QED
        BY <2>1, <3>1 DEF Transfer
    <2> QED
      BY <2>1, <2>3, <2>4
  <1>3. CASE \E n \in Names : Poll(n)
    <2>1. PICK n \in Names : Poll(n)
      BY <1>3
    <2>2. PICK f \in Figures : ObserveTransfer(n, f)
      BY <2>1 DEF Poll
    <2>3. /\ UNCHANGED <<rows, told, heard>>
          /\ readings' = [readings EXCEPT ![n] = f]
          /\ news' = IF readings[n] = f THEN news ELSE news \cup {Transfer(n, f)}
          /\ readings \in [Names -> Figures \cup {Nothing}]
      BY <2>1, <2>2 DEF Poll, ObserveTransfer, ListenerInv, RegistryTypeOK
    <2>4. readings'[n] # readings[n] => Transfer(n, f) \in news'
      BY <2>3
    <2>5. \A k \in Configured \ {n} : readings'[k] = readings[k]
      BY <2>3 DEF Names
    <2> QED
      BY <2>3, <2>4, <2>5 DEF Transfer
  <1> QED
    BY <1>1, <1>2, <1>3 DEF LoopStep

LEMMA AnnounceApart ==
    ASSUME SignalsApart, NEW change \in news, Announce(change)
    PROVE  SignalsApart'
  BY DEF SignalsApart, Announce
=============================================================================
