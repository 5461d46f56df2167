----------------------------- MODULE TrayProofs -----------------------------
(***************************************************************************)
(* The tray's copy, for any sets of names and figures and any bounds: once *)
(* nothing is on its way, the rows and the figures it shows of configured  *)
(* mounts are the registry's, and what it shows of a life of the service   *)
(* that is over it is about to be told to drop.                            *)
(*                                                                         *)
(* The copy may lag in three places: a change not published yet, a signal  *)
(* not applied yet, and a reading not asked for yet.  A snapshot may be    *)
(* newer than signals that are applied to it later, so while one waits     *)
(* nothing is known of the entry it names, but that the last one in its    *)
(* stream says what a listener was last told.  An entry that nothing is on *)
(* its way for is the registry's.                                          *)
(***************************************************************************)
EXTENDS Tray, RegistryProofs

\* Where the tray talks to no owner, where it shows rows, and where it fills a snapshot.
Apart == {"bus", "ask", "unowned", "backoff"}
Showing == {"serve", "describe", "relist", "reread"}
Filling == {"read", "reread"}

\* The signals of a stream; whether any is for n; and what the last of those says.
Said(q) == {q[i] : i \in 1..Len(q)}

NoneFor(q, n) == \A c \in Said(q) : c.name # n

LastSays(q, n, value) ==
    \A i \in 1..Len(q) :
        q[i].name = n /\ (\A j \in 1..Len(q) : j > i => q[j].name # n) => q[i].value = value

TrayTypeOK ==
    /\ owned \in BOOLEAN /\ owners \in Nat /\ refresh \in BOOLEAN
    /\ step \in Apart \cup Showing \cup Filling \cup {"subscribe", "list"}
    /\ target \in {"none", "current", "gone"}
    /\ streams \in {{}, {"mount"}, {"mount", "removed"}, Kinds}
    /\ queue \in [Kinds -> Seq(Changes)]
    /\ toRead \subseteq Names /\ missed \subseteq Names
    /\ {listed, mounts} \subseteq [Names -> States \cup {Absent}]
    /\ {asked, transfers} \subseteq [Names -> Figures \cup {Nothing}]
    /\ link \in Links

\* What the service is, alive or not.
ServiceInv ==
    /\ RegistryTypeOK
    /\ SignalsApart
    /\ owned => ListenerInv
    /\ ~owned => phase = "asleep" /\ toPoll = {} /\ news = {}

SessionInv ==
    /\ (step \in Apart) <=> (target = "none")
    /\ (step \in Showing) <=> (link = "up")
    /\ target = "current" => owned
    /\ target = "gone" => owners > 0
    /\ target = "none" => streams = {}
    /\ step = "subscribe" => streams # Kinds
    /\ step \notin Apart \cup {"subscribe"} => streams = Kinds
    /\ \A k \in Kinds \ streams : queue[k] = <<>>
    /\ \A n \in toRead : asked[n] = Nothing

\* The rows a session has, those of a snapshot it is filling first; and its figures.
Rows == IF step \in Filling THEN listed ELSE mounts
FiguresHad == IF step \in Filling THEN asked ELSE transfers
Copying == step \in Showing \cup Filling

\* A reading of n was passed over, and no figure has been had since.
Passed(n) == n \in missed /\ FiguresHad[n] = Nothing

\* Nothing of a kind is on its way for n.
NothingFor(kind, n) ==
    /\ NoneFor(queue[kind], n)
    /\ \A c \in news : ~(c.kind = kind /\ c.name = n)

CopyInv ==
    target = "current" => \A n \in Configured :
        /\ LastSays(queue["mount"], n, told[n])
        /\ LastSays(queue["transfer"], n, heard[n])
        /\ Copying /\ NothingFor("mount", n) => Rows[n] = rows[n]
        /\ Copying /\ NothingFor("transfer", n) /\ ~(step \in Filling /\ n \in toRead) /\ ~Passed(n)
               => FiguresHad[n] = readings[n]

\* Each stream has its kind; what is removed was not configured, and only what is
\* configured has figures.
GuestsInv ==
    /\ \A k \in Kinds : \A c \in Said(queue[k]) : c.kind = k
    /\ \A c \in Said(queue["removed"]) : c.name \notin Configured
    /\ \A c \in Said(queue["transfer"]) : c.name \in Configured
    /\ \A n \in Names \ Configured : asked[n] = Nothing /\ transfers[n] = Nothing

TrayInv == TrayTypeOK /\ ServiceInv /\ SessionInv /\ CopyInv /\ GuestsInv

-----------------------------------------------------------------------------
(* Streams                                                                 *)

LEMMA SaidAppend ==
    ASSUME NEW q \in Seq(Changes), NEW c \in Changes
    PROVE  /\ Append(q, c) \in Seq(Changes)
           /\ Said(Append(q, c)) = Said(q) \cup {c}
  BY DEF Said

LEMMA SaidTail ==
    ASSUME NEW q \in Seq(Changes), q # <<>>
    PROVE  /\ Tail(q) \in Seq(Changes)
           /\ Head(q) \in Changes
           /\ Said(q) = {Head(q)} \cup Said(Tail(q))
  <1>1. /\ Tail(q) \in Seq(Changes) /\ Head(q) \in Changes /\ Head(q) = q[1]
        /\ Len(q) \in Nat /\ Len(q) > 0 /\ Len(Tail(q)) = Len(q) - 1
        /\ \A i \in 1..Len(Tail(q)) : Tail(q)[i] = q[i + 1]
    OBVIOUS
  <1>2. ASSUME NEW i \in 1..Len(q) PROVE q[i] \in {Head(q)} \cup Said(Tail(q))
    <2>1. CASE i = 1
      BY <1>1, <2>1
    <2>2. CASE i # 1
      <3>1. i - 1 \in 1..Len(Tail(q)) /\ (i - 1) + 1 = i
        BY <1>1, <2>2
      <3>2. Tail(q)[i - 1] = q[i]
        BY <1>1, <3>1
      <3> QED
        BY <3>1, <3>2 DEF Said
    <2> QED
      BY <2>1, <2>2
  <1>3. Head(q) \in Said(q)
    BY <1>1 DEF Said
  <1>4. ASSUME NEW i \in 1..Len(Tail(q)) PROVE Tail(q)[i] \in Said(q)
    <2>1. i + 1 \in 1..Len(q) /\ Tail(q)[i] = q[i + 1]
      BY <1>1
    <2> QED
      BY <2>1 DEF Said
  <1> QED
    BY <1>1, <1>2, <1>3, <1>4 DEF Said

LEMMA SaidNothing == Said(<<>>) = {}
  BY DEF Said

LEMMA LastAppend ==
    ASSUME NEW q \in Seq(Changes), NEW c \in Changes, NEW n, NEW v, NEW w,
           LastSays(q, n, v), w = IF c.name = n THEN c.value ELSE v
    PROVE  LastSays(Append(q, c), n, w)
  <1> SUFFICES ASSUME NEW i \in 1..Len(Append(q, c)), Append(q, c)[i].name = n,
                      \A j \in 1..Len(Append(q, c)) : j > i => Append(q, c)[j].name # n
               PROVE  Append(q, c)[i].value = w
    BY DEF LastSays
  <1>1. CASE i = Len(q) + 1
    BY <1>1
  <1>2. CASE i \in 1..Len(q)
    <2>1. c.name # n
      BY <1>2
    <2>2. q[i].name = n /\ \A j \in 1..Len(q) : j > i => q[j].name # n
      BY <1>2
    <2> QED
      BY <1>2, <2>1, <2>2 DEF LastSays
  <1> QED
    BY <1>1, <1>2

LEMMA LastTail ==
    ASSUME NEW q \in Seq(Changes), q # <<>>, NEW n, NEW v, LastSays(q, n, v)
    PROVE  /\ LastSays(Tail(q), n, v)
           /\ NoneFor(Tail(q), n) /\ Head(q).name = n => Head(q).value = v
  <1>1. /\ Len(q) \in Nat /\ Len(q) > 0 /\ Len(Tail(q)) = Len(q) - 1 /\ Head(q) = q[1]
        /\ \A i \in 1..Len(Tail(q)) : Tail(q)[i] = q[i + 1] /\ i + 1 \in 1..Len(q)
    OBVIOUS
  <1>2. LastSays(Tail(q), n, v)
    <2> SUFFICES ASSUME NEW i \in 1..Len(Tail(q)), Tail(q)[i].name = n,
                        \A j \in 1..Len(Tail(q)) : j > i => Tail(q)[j].name # n
                 PROVE  Tail(q)[i].value = v
      BY DEF LastSays
    <2>1. ASSUME NEW j \in 1..Len(q), j > i + 1 PROVE q[j].name # n
      <3>1. j - 1 \in 1..Len(Tail(q)) /\ j - 1 > i /\ Tail(q)[j - 1] = q[j]
        BY <1>1, <2>1
      <3> QED
        BY <3>1
    <2> QED
      BY <1>1, <2>1 DEF LastSays
  <1>3. ASSUME NoneFor(Tail(q), n), Head(q).name = n PROVE Head(q).value = v
    <2>1. ASSUME NEW j \in 1..Len(q), j > 1 PROVE q[j].name # n
      <3>1. j - 1 \in 1..Len(Tail(q)) /\ Tail(q)[j - 1] = q[j]
        BY <1>1, <2>1
      <3> QED
        BY <1>3, <3>1 DEF NoneFor, Said
    <2> QED
      BY <1>1, <1>3, <2>1 DEF LastSays
  <1> QED
    BY <1>2, <1>3

-----------------------------------------------------------------------------
(* The service's steps                                                     *)

LEMMA InitTray == TrayInit => TrayInv
  <1> SUFFICES ASSUME TrayInit PROVE TrayInv
    OBVIOUS
  <1>1. ServiceInv
    BY InitListener, InitApart DEF TrayInit, ServiceInv, ListenerInv, RegistryInit
  <1>2. \A k \in Kinds : queue[k] = <<>>
    BY DEF TrayInit, Empty
  <1>3. TrayTypeOK
    <2>1. Empty \in [Kinds -> Seq(Changes)]
      BY DEF Empty
    <2> QED
      BY <2>1 DEF TrayInit, TrayTypeOK, Apart, NoRows, NoFigures, Links
  <1>4. SessionInv
    BY <1>2 DEF TrayInit, SessionInv, Apart, Showing
  <1>5. CopyInv
    BY DEF TrayInit, CopyInv
  <1>6. GuestsInv
    BY <1>2, SaidNothing DEF TrayInit, GuestsInv, NoFigures, Kinds
  <1> QED
    BY <1>1, <1>3, <1>4, <1>5, <1>6 DEF TrayInv

\* A tick short of publishing only adds to what is on its way.
LEMMA LoopKeeps ==
    ASSUME TrayInv, owned, LoopStep,
           UNCHANGED <<owned, owners, refresh, attachVars, modelVars>>
    PROVE  TrayInv'
  <1> USE DEF attachVars, modelVars
  <1>1. ServiceInv'
    BY LoopKeepsListener, LoopKeepsApart DEF TrayInv, ServiceInv, ListenerInv
  <1>2. TrayTypeOK' /\ SessionInv' /\ GuestsInv'
    BY DEF TrayInv, TrayTypeOK, SessionInv, GuestsInv
  <1>3. CopyInv'
    <2> SUFFICES ASSUME target = "current", NEW n \in Configured
                 PROVE  /\ LastSays(queue["mount"], n, told'[n])
                        /\ LastSays(queue["transfer"], n, heard'[n])
                        /\ Copying /\ NothingFor("mount", n)' => Rows[n] = rows'[n]
                        /\ Copying /\ NothingFor("transfer", n)'
                               /\ ~(step \in Filling /\ n \in toRead) /\ ~Passed(n)
                               => FiguresHad[n] = readings'[n]
      BY DEF CopyInv, Copying, Rows, FiguresHad, Passed
    <2>1. /\ LastSays(queue["mount"], n, told[n])
          /\ LastSays(queue["transfer"], n, heard[n])
          /\ Copying /\ NothingFor("mount", n) => Rows[n] = rows[n]
          /\ Copying /\ NothingFor("transfer", n)
               /\ ~(step \in Filling /\ n \in toRead) /\ ~Passed(n)
               => FiguresHad[n] = readings[n]
      BY DEF TrayInv, CopyInv
    <2>2. /\ told' = told /\ heard' = heard /\ news \subseteq news'
          /\ rows'[n] # rows[n] => \E c \in news' : c.kind = "mount" /\ c.name = n
          /\ readings'[n] # readings[n] => \E c \in news' : c.kind = "transfer" /\ c.name = n
      BY LoopOwes DEF TrayInv, ServiceInv
    <2>3. NothingFor("mount", n)' => NothingFor("mount", n) /\ rows'[n] = rows[n]
      BY <2>2 DEF NothingFor
    <2>4. NothingFor("transfer", n)' => NothingFor("transfer", n) /\ readings'[n] = readings[n]
      BY <2>2 DEF NothingFor
    <2> QED
      BY <2>1, <2>2, <2>3, <2>4
  <1> QED
    BY <1>1, <1>2, <1>3 DEF TrayInv

LEMMA MoveKeeps ==
    ASSUME TrayInv, Move
    PROVE  TrayInv'
  <1>1. CASE owned
    BY <1>1, LoopKeeps DEF Move, LoopStep
  <1>2. CASE ~owned
    <2>1. PICK n \in Names : WorldMoves(n)
      BY DEF Move
    <2>2. ServiceInv'
      BY <1>2, <2>1, MovesApart DEF Move, TrayInv, ServiceInv, RegistryTypeOK, WorldMoves
    <2>3. CopyInv'
      BY <1>2 DEF Move, TrayInv, SessionInv, CopyInv, attachVars
    <2> QED
      BY <2>1, <2>2, <2>3 DEF Move, TrayInv, TrayTypeOK, SessionInv, GuestsInv, attachVars,
         modelVars
  <1> QED
    BY <1>1, <1>2

LEMMA TickKeeps ==
    ASSUME TrayInv, Tick
    PROVE  TrayInv'
  BY LoopKeeps DEF Tick, LoopStep

\* What is published moves from the news into its stream, or is missed by a tray that
\* has no rule for it yet, and so no copy.
LEMMA EmitKeeps ==
    ASSUME TrayInv, Emit
    PROVE  TrayInv'
  <1>1. PICK change \in news :
            /\ Announce(change)
            /\ queue' = IF target = "current" /\ change.kind \in streams
                        THEN [queue EXCEPT ![change.kind] = Append(@, change)]
                        ELSE queue
    BY DEF Emit
  <1>2. owned /\ UNCHANGED <<owned, owners, refresh, step, target, streams, toRead, listed,
                             asked, missed, link, mounts, transfers>>
    BY DEF Emit, modelVars
  <1>3. /\ change \in Changes /\ change.kind \in Kinds /\ change.name \in Names
        /\ queue \in [Kinds -> Seq(Changes)] /\ ListenerInv
        /\ told \in [Names -> States \cup {Absent}]
        /\ heard \in [Names -> Figures \cup {Nothing}]
        /\ change.kind = "removed" => change.name \notin Configured
        /\ change.kind = "transfer" => change.name \in Configured
    BY <1>2 DEF TrayInv, TrayTypeOK, ServiceInv, RegistryTypeOK, Changes, Kinds, Tables,
       SignalsApart
  <1>4. ServiceInv'
    BY <1>1, <1>2, <1>3, AnnounceListener, AnnounceApart DEF TrayInv, ServiceInv, ListenerInv
  <1>5. ASSUME NEW k \in Kinds
        PROVE  /\ queue'[k] \in Seq(Changes)
               /\ \/ queue'[k] = queue[k]
                  \/ k = change.kind /\ queue'[k] = Append(queue[k], change)
               /\ Said(queue[k]) \subseteq Said(queue'[k])
               /\ \A c \in Said(queue'[k]) : c \in Said(queue[k]) \/ (c = change /\ c.kind = k)
    <2>1. CASE queue'[k] = queue[k]
      BY <1>3, <2>1
    <2>2. CASE queue'[k] # queue[k]
      <3>1. k = change.kind /\ queue'[k] = Append(queue[k], change)
        BY <1>1, <1>3, <2>2
      <3> QED
        BY <1>3, <3>1, SaidAppend
    <2> QED
      BY <2>1, <2>2
  <1>6. TrayTypeOK'
    BY <1>1, <1>2, <1>3, <1>5 DEF TrayInv, TrayTypeOK
  <1>7. SessionInv'
    <2>1. \A k \in Kinds \ streams : queue'[k] = queue[k]
      BY <1>1, <1>3
    <2> QED
      BY <1>2, <2>1 DEF TrayInv, SessionInv
  <1>8. GuestsInv'
    BY <1>2, <1>3, <1>5 DEF TrayInv, GuestsInv, Kinds
  <1>9. CopyInv'
    <2> SUFFICES ASSUME target = "current", NEW n \in Configured
                 PROVE  /\ LastSays(queue'["mount"], n, told'[n])
                        /\ LastSays(queue'["transfer"], n, heard'[n])
                        /\ Copying /\ NothingFor("mount", n)' => Rows[n] = rows[n]
                        /\ Copying /\ NothingFor("transfer", n)'
                               /\ ~(step \in Filling /\ n \in toRead) /\ ~Passed(n)
                               => FiguresHad[n] = readings[n]
      BY <1>1, <1>2 DEF CopyInv, Copying, Rows, FiguresHad, Passed, Announce
    <2>1. /\ LastSays(queue["mount"], n, told[n])
          /\ LastSays(queue["transfer"], n, heard[n])
          /\ Copying /\ NothingFor("mount", n) => Rows[n] = rows[n]
          /\ Copying /\ NothingFor("transfer", n)
               /\ ~(step \in Filling /\ n \in toRead) /\ ~Passed(n)
               => FiguresHad[n] = readings[n]
      BY DEF TrayInv, CopyInv
    <2>2. /\ told'[n] = IF change.kind = "mount" /\ change.name = n THEN change.value ELSE told[n]
          /\ heard'[n] = IF change.kind = "transfer" /\ change.name = n
                         THEN change.value ELSE heard[n]
      BY <1>1, <1>3 DEF Announce, Apply, ApplyReading, Names, Kinds
    <2>3. ASSUME NEW k \in Kinds, k \notin streams PROVE queue[k] = <<>> /\ queue'[k] = <<>>
      BY <1>1, <1>3, <2>3 DEF TrayInv, SessionInv
    <2>4. LastSays(queue'["mount"], n, told'[n])
      <3>1. CASE change.kind # "mount"
        BY <1>1, <1>3, <2>1, <2>2, <3>1 DEF Kinds
      <3>2. CASE change.kind = "mount" /\ "mount" \in streams
        <4>1. queue'["mount"] = Append(queue["mount"], change)
          BY <1>1, <1>3, <3>2 DEF Kinds
        <4> QED
          BY <1>3, <2>1, <2>2, <3>2, <4>1, LastAppend DEF Kinds
      <3>3. CASE "mount" \notin streams
        BY <2>3, <3>3 DEF LastSays, Kinds
      <3> QED
        BY <3>1, <3>2, <3>3
    <2>5. LastSays(queue'["transfer"], n, heard'[n])
      <3>1. CASE change.kind # "transfer"
        BY <1>1, <1>3, <2>1, <2>2, <3>1 DEF Kinds
      <3>2. CASE change.kind = "transfer" /\ "transfer" \in streams
        <4>1. queue'["transfer"] = Append(queue["transfer"], change)
          BY <1>1, <1>3, <3>2 DEF Kinds
        <4> QED
          BY <1>3, <2>1, <2>2, <3>2, <4>1, LastAppend DEF Kinds
      <3>3. CASE "transfer" \notin streams
        BY <2>3, <3>3 DEF LastSays, Kinds
      <3> QED
        BY <3>1, <3>2, <3>3
    <2>6. ASSUME NEW k \in Kinds, Copying, NothingFor(k, n)' PROVE NothingFor(k, n)
      <3>1. change.kind \in streams
        BY <1>3, <2>6 DEF TrayInv, SessionInv, Copying, Showing, Filling, Apart
      <3>2. change \in Said(queue'[change.kind])
        BY <1>1, <1>3, <3>1, SaidAppend
      <3>3. ~(change.kind = k /\ change.name = n)
        BY <2>6, <3>2 DEF NothingFor, NoneFor
      <3>4. news' = news \ {change}
        BY <1>1 DEF Announce
      <3> QED
        BY <1>5, <2>6, <3>3, <3>4 DEF NothingFor, NoneFor
    <2> QED
      BY <2>1, <2>4, <2>5, <2>6 DEF Kinds
  <1> QED
    BY <1>4, <1>6, <1>7, <1>8, <1>9 DEF TrayInv

\* A life of the service that ends takes every guarantee of the copy with it; a new one
\* has not been subscribed to.
LEMMA StopKeeps ==
    ASSUME TrayInv, ServiceStops
    PROVE  TrayInv'
  <1>1. ServiceInv'
    BY DEF ServiceStops, TrayInv, ServiceInv, RegistryTypeOK, SignalsApart
  <1>2. TrayTypeOK'
    <2>1. owners' \in Nat /\ target' \in {"none", "current", "gone"}
      BY DEF ServiceStops, TrayInv, TrayTypeOK, Heard
    <2> QED
      BY <2>1 DEF ServiceStops, TrayInv, TrayTypeOK, modelVars
  <1>5. GuestsInv'
    BY DEF ServiceStops, TrayInv, GuestsInv, modelVars
  <1>3. SessionInv'
    BY DEF ServiceStops, TrayInv, TrayTypeOK, SessionInv, Heard, modelVars, Apart
  <1>4. CopyInv'
    BY DEF ServiceStops, CopyInv, TrayInv, SessionInv
  <1> QED
    BY <1>1, <1>2, <1>3, <1>4, <1>5 DEF TrayInv

LEMMA StartKeeps ==
    ASSUME TrayInv, ServiceStarts
    PROVE  TrayInv'
  <1>1. /\ rows' \in {world, NoRows} /\ world' = world /\ told' = rows' /\ heard' = readings'
        /\ readings' \in [Names -> Figures \cup {Nothing}]
        /\ \A n \in Names : readings'[n] = Nothing <=> ~Pollable(rows'[n])
        /\ phase' = "asleep" /\ toPoll' = {} /\ news' = {}
        /\ world \in Tables /\ \A n \in Names : world[n] \in Findable(n)
    BY DEF ServiceStarts, FirstTick, TrayInv, ServiceInv, RegistryTypeOK, SignalsApart
  <1>2. NoRows \in Tables
    BY DEF NoRows, Tables
  <1>3. RegistryTypeOK'
    BY <1>1, <1>2 DEF RegistryTypeOK
  <1>4. ListenerInv'
    BY <1>1, <1>3 DEF ListenerInv, TickInv, ListenerSeesRows, ListenerSeesFigures,
       NoFigureOnceDown
  <1>5. SignalsApart'
    <2>1. ASSUME NEW n \in Names \ Configured PROVE readings'[n] = Nothing
      <3>1. rows'[n] \in Findable(n) \cup {Absent}
        BY <1>1 DEF NoRows
      <3> QED
        BY <1>1, <3>1, OnlyConfiguredMounts DEF Pollable
    <2> QED
      BY <1>1, <2>1 DEF SignalsApart
  <1>6. ServiceInv' /\ CopyInv'
    BY <1>3, <1>4, <1>5 DEF ServiceStarts, ServiceInv, CopyInv, TrayInv, SessionInv,
       attachVars
  <1>7. TrayTypeOK' /\ SessionInv' /\ GuestsInv'
    BY DEF ServiceStarts, TrayInv, TrayTypeOK, SessionInv, GuestsInv, Heard, attachVars, modelVars
  <1> QED
    BY <1>6, <1>7 DEF TrayInv

-----------------------------------------------------------------------------
(* The linker's steps                                                      *)

LEMMA ServiceStays ==
    ASSUME ServiceInv, UNCHANGED <<registryVars, owned>>
    PROVE  ServiceInv'
  BY DEF registryVars, ServiceInv, RegistryTypeOK, SignalsApart, ListenerInv, TickInv,
     ListenerSeesRows, ListenerSeesFigures, NoFigureOnceDown, Serving, ApplyReading

\* Whatever ends a session or an attempt leaves nothing of it.
LEMMA DetachKeeps ==
    ASSUME TrayInv, UNCHANGED <<registryVars, owned>>, NEW next \in Apart, Detach(next),
           NEW state \in {"connecting", "down"}, Forget(state),
           owners' \in Nat, refresh' \in BOOLEAN
    PROVE  TrayInv'
  <1>1. ServiceInv'
    BY ServiceStays DEF TrayInv
  <1>2. /\ step' \in Apart /\ target' = "none" /\ streams' = {} /\ toRead' = {}
        /\ listed' = NoRows /\ asked' = NoFigures /\ missed' = {}
        /\ link' \in {"connecting", "down"}
        /\ mounts' = NoRows /\ transfers' = NoFigures /\ owned' = owned
        /\ queue' \in [Kinds -> Seq(Changes)] /\ \A k \in Kinds : queue'[k] = <<>>
    BY DEF Detach, Forget, Empty
  <1>3. TrayTypeOK'
    BY <1>2 DEF TrayInv, TrayTypeOK, NoRows, NoFigures, Links
  <1>4. SessionInv'
    BY <1>2 DEF SessionInv, Apart, Showing
  <1>5. GuestsInv'
    BY <1>2, SaidNothing DEF GuestsInv, NoFigures, Kinds
  <1>6. CopyInv'
    BY <1>2 DEF CopyInv
  <1> QED
    BY <1>1, <1>3, <1>4, <1>5, <1>6 DEF TrayInv

LEMMA DisconnectKeeps ==
    ASSUME TrayInv, Disconnect
    PROVE  TrayInv'
  BY DetachKeeps DEF Disconnect, Apart, TrayInv, TrayTypeOK

LEMMA GivesUpKeeps ==
    ASSUME TrayInv, GivesUp
    PROVE  TrayInv'
  <1>1. PICK error \in Attaching :
            IF L!Broken(error) THEN Disconnect
            ELSE /\ Detach("backoff")
                 /\ Forget("down")
                 /\ UNCHANGED <<registryVars, owned, owners, refresh>>
    BY DEF GivesUp
  <1>2. CASE L!Broken(error)
    BY <1>1, <1>2, DisconnectKeeps
  <1>3. CASE ~L!Broken(error)
    BY <1>1, <1>3, DetachKeeps DEF Apart, TrayInv, TrayTypeOK
  <1> QED
    BY <1>2, <1>3

LEMMA OwnerChangedKeeps ==
    ASSUME TrayInv, OwnerChanged
    PROVE  TrayInv'
  <1>1. owners' \in Nat /\ refresh' \in BOOLEAN
    BY DEF OwnerChanged, TrayInv, TrayTypeOK
  <1> QED
    BY <1>1, DetachKeeps DEF OwnerChanged, Apart

\* Steps of a tray that has no owner to talk to, before and after.
LEMMA ApartKeeps ==
    ASSUME TrayInv, target = "none", step' \in Apart,
           UNCHANGED <<registryVars, owned, target, streams, queue, toRead, listed, asked, missed>>,
           UNCHANGED modelVars \/ (step = "bus" /\ Forget("down")),
           owners' \in Nat, refresh' \in BOOLEAN
    PROVE  TrayInv'
  <1>1. ServiceInv'
    BY ServiceStays DEF TrayInv
  <1>2. link' # "up" /\ link' \in Links
    BY DEF modelVars, Forget, TrayInv, TrayTypeOK, SessionInv, Apart, Showing, Links
  <1>3. /\ mounts' \in [Names -> States \cup {Absent}]
        /\ transfers' \in [Names -> Figures \cup {Nothing}]
        /\ \A n \in Names \ Configured : transfers'[n] = Nothing
    BY DEF modelVars, Forget, NoRows, NoFigures, TrayInv, TrayTypeOK, GuestsInv
  <1>4. TrayTypeOK'
    BY <1>2, <1>3 DEF TrayInv, TrayTypeOK
  <1>5. SessionInv'
    BY <1>2 DEF TrayInv, SessionInv, Apart, Showing
  <1>6. GuestsInv' /\ CopyInv'
    BY <1>3 DEF TrayInv, GuestsInv, CopyInv
  <1> QED
    BY <1>1, <1>4, <1>5, <1>6 DEF TrayInv

LEMMA ConnectsKeeps ==
    ASSUME TrayInv, Connects \/ WakesUp \/ NoBus
    PROVE  TrayInv'
  <1>1. target = "none"
    BY DEF Connects, WakesUp, NoBus, TrayInv, SessionInv, Apart
  <1>2. owners' \in Nat
    <2>1. owners \in Nat
      BY DEF TrayInv, TrayTypeOK
    <2>2. owners' = owners \/ (owners > 0 /\ owners' = owners - 1)
      BY DEF Connects, WakesUp, NoBus
    <2> QED
      BY <2>1, <2>2
  <1>3. refresh' \in BOOLEAN
    <2>1. refresh' = refresh \/ refresh' = FALSE
      BY DEF Connects, WakesUp, NoBus
    <2> QED
      BY <2>1 DEF TrayInv, TrayTypeOK
  <1> QED
    BY <1>1, <1>2, <1>3, ApartKeeps DEF Connects, WakesUp, NoBus, Apart, attachVars

LEMMA AskOwnerKeeps ==
    ASSUME TrayInv, AskOwner
    PROVE  TrayInv'
  <1>1. CASE ~owned
    BY <1>1, DetachKeeps DEF AskOwner, Apart, TrayInv, TrayTypeOK
  <1>2. CASE owned
    <2>1. /\ step = "ask" /\ step' = "subscribe" /\ target' = "current" /\ target = "none"
          /\ UNCHANGED <<registryVars, owned, owners, refresh, streams, queue, toRead, listed,
                         asked, missed, modelVars>>
      BY <1>2 DEF AskOwner, TrayInv, SessionInv, Apart
    <2>2. ServiceInv'
      BY <2>1, ServiceStays DEF TrayInv
    <2>3. streams = {} /\ \A k \in Kinds : queue[k] = <<>>
      BY <2>1 DEF TrayInv, SessionInv
    <2>4. TrayTypeOK' /\ GuestsInv'
      BY <2>1 DEF TrayInv, TrayTypeOK, GuestsInv, modelVars
    <2>5. SessionInv'
      BY <1>2, <2>1, <2>3 DEF TrayInv, SessionInv, Apart, Showing, Kinds, modelVars
    <2>6. CopyInv'
      <3>1. ~Copying'
        BY <2>1 DEF Copying, Showing, Filling
      <3>2. \A n, v : LastSays(queue["mount"], n, v) /\ LastSays(queue["transfer"], n, v)
        BY <2>3 DEF LastSays, Kinds
      <3>3. queue' = queue
        BY <2>1
      <3> QED
        BY <3>1, <3>2, <3>3 DEF CopyInv
    <2> QED
      BY <2>2, <2>4, <2>5, <2>6 DEF TrayInv
  <1> QED
    BY <1>1, <1>2

LEMMA SubscribeKeeps ==
    ASSUME TrayInv, Subscribe
    PROVE  TrayInv'
  <1>1. ServiceInv'
    BY ServiceStays DEF TrayInv, Subscribe
  <1>2. /\ step = "subscribe" /\ target = "current" /\ target' = target
        /\ UNCHANGED <<owned, owners, refresh, queue, toRead, listed, asked, missed, link, mounts,
                       transfers, told, heard>>
    BY DEF Subscribe, Reached, modelVars, registryVars
  <1>3. streams \in {{}, {"mount"}, {"mount", "removed"}}
    BY <1>2 DEF TrayInv, TrayTypeOK, SessionInv
  <1>4. /\ streams' \in {{"mount"}, {"mount", "removed"}, Kinds} /\ streams \subseteq streams'
        /\ step' = IF streams' = Kinds THEN "list" ELSE "subscribe"
    <2>1. CASE streams = {}
      BY <1>2, <2>1 DEF Subscribe, Kinds
    <2>2. CASE streams = {"mount"}
      BY <1>2, <2>2 DEF Subscribe, Kinds
    <2>3. CASE streams = {"mount", "removed"}
      BY <1>2, <2>3 DEF Subscribe, Kinds
    <2> QED
      BY <1>3, <2>1, <2>2, <2>3
  <1>5. TrayTypeOK' /\ GuestsInv'
    BY <1>2, <1>4 DEF TrayInv, TrayTypeOK, GuestsInv
  <1>6. SessionInv'
    BY <1>2, <1>4 DEF TrayInv, SessionInv, Apart, Showing
  <1>7. CopyInv'
    <2>1. ~Copying'
      BY <1>4 DEF Copying, Showing, Filling
    <2> QED
      BY <1>2, <2>1 DEF TrayInv, CopyInv
  <1> QED
    BY <1>1, <1>5, <1>6, <1>7 DEF TrayInv

\* A property read again, or a refresh that begins: the copy is as it was.
LEMMA SessionKeeps ==
    ASSUME TrayInv, PropertyChanged \/ Restate \/ Refresh
    PROVE  TrayInv'
  <1>1. ServiceInv'
    BY ServiceStays DEF TrayInv, PropertyChanged, Restate, Refresh
  <1>2. /\ step \in {"serve", "describe"} /\ step' \in {"serve", "describe", "relist"}
        /\ UNCHANGED <<owned, owners, target, streams, queue, toRead, listed, asked, missed, link,
                       mounts, transfers, rows, readings, news, told, heard>>
        /\ refresh' \in {refresh, FALSE}
    BY DEF PropertyChanged, Restate, Refresh, modelVars, registryVars
  <1>3. TrayTypeOK' /\ GuestsInv'
    BY <1>2 DEF TrayInv, TrayTypeOK, GuestsInv, Showing
  <1>4. SessionInv'
    BY <1>2 DEF TrayInv, SessionInv, Apart, Showing
  <1>5. CopyInv'
    <2>1. Copying /\ step \notin Filling /\ step' \notin Filling
      BY <1>2 DEF Copying, Showing, Filling
    <2>2. Rows' = Rows /\ FiguresHad' = FiguresHad /\ \A n : Passed(n)' <=> Passed(n)
      BY <1>2, <2>1 DEF Rows, FiguresHad, Passed
    <2>3. \A k, n : NothingFor(k, n)' <=> NothingFor(k, n)
      BY <1>2 DEF NothingFor
    <2> QED
      BY <1>2, <2>1, <2>2, <2>3 DEF TrayInv, CopyInv
  <1> QED
    BY <1>1, <1>3, <1>4, <1>5 DEF TrayInv

\* What is listed is what is kept, and a mount that is not listed has no figure.
LEMMA ListKeeps ==
    ASSUME TrayInv, List
    PROVE  TrayInv'
  <1>1. ServiceInv'
    BY ServiceStays DEF TrayInv, List
  <1>2. /\ step \in {"list", "relist"} /\ step' = IF step = "list" THEN "read" ELSE "reread"
        /\ target = "current" /\ target' = target /\ owned /\ ListenerInv
        /\ listed' = rows /\ asked' = NoFigures /\ missed' = {}
        /\ toRead' = {n \in Names : rows[n] # Absent}
        /\ UNCHANGED <<owned, owners, refresh, streams, queue, link, mounts, transfers, rows,
                       readings, told, heard>>
    BY DEF List, ListMounts, Reached, modelVars, registryVars, TrayInv, ServiceInv, SessionInv
  <1>3. rows \in [Names -> States \cup {Absent}]
    BY <1>2 DEF ListenerInv, RegistryTypeOK, Tables
  <1>4. TrayTypeOK' /\ GuestsInv'
    BY <1>2, <1>3 DEF TrayInv, TrayTypeOK, GuestsInv, NoFigures, Filling
  <1>5. SessionInv'
    BY <1>2 DEF TrayInv, SessionInv, Apart, Showing, NoFigures
  <1>6. CopyInv'
    <2>1. step' \in Filling /\ Rows' = rows' /\ FiguresHad' = NoFigures
      BY <1>2 DEF Filling, Rows, FiguresHad
    <2>2. ASSUME NEW n \in Configured, n \notin toRead' PROVE readings[n] = NoFigures[n]
      <3>1. n \in Names /\ rows[n] = Absent
        BY <1>2, <2>2 DEF Names
      <3>2. ~Pollable(rows[n])
        BY <3>1 DEF Pollable, Absent
      <3> QED
        BY <1>2, <3>1, <3>2 DEF ListenerInv, NoFigureOnceDown, NoFigures
    <2>3. \A n \in Configured : LastSays(queue["mount"], n, told[n])
                                /\ LastSays(queue["transfer"], n, heard[n])
      BY <1>2 DEF TrayInv, CopyInv
    <2> QED
      BY <1>2, <2>1, <2>2, <2>3 DEF CopyInv
  <1> QED
    BY <1>1, <1>4, <1>5, <1>6 DEF TrayInv

LEMMA ReadKeeps ==
    ASSUME TrayInv, NEW n \in Names, Read(n)
    PROVE  TrayInv'
  <1>1. ServiceInv'
    BY ServiceStays DEF TrayInv, Read
  <1>2. /\ step \in Filling /\ toRead' = toRead \ {n} /\ n \in toRead
        /\ asked' = IF target = "current" /\ Known(n)
                    THEN [asked EXCEPT ![n] = readings[n]] ELSE asked
        /\ UNCHANGED <<owned, owners, refresh, step, target, streams, queue, listed, missed, link,
                       mounts, transfers, rows, readings, news, told, heard>>
    BY DEF Read, Reached, GetTransferState, Filling, modelVars, registryVars
  <1>3. /\ asked \in [Names -> Figures \cup {Nothing}]
        /\ readings \in [Names -> Figures \cup {Nothing}]
        /\ \A k \in Names \ Configured : readings[k] = Nothing
    BY DEF TrayInv, TrayTypeOK, ServiceInv, RegistryTypeOK, SignalsApart
  <1>4. TrayTypeOK' /\ SessionInv'
    BY <1>2, <1>3 DEF TrayInv, TrayTypeOK, SessionInv
  <1>5. GuestsInv'
    BY <1>2, <1>3 DEF TrayInv, GuestsInv
  <1>6. CopyInv'
    <2> SUFFICES ASSUME target = "current", NEW k \in Configured
                 PROVE  /\ LastSays(queue["mount"], k, told[k])
                        /\ LastSays(queue["transfer"], k, heard[k])
                        /\ NothingFor("mount", k) => listed[k] = rows[k]
                        /\ NothingFor("transfer", k) /\ k \notin toRead'
                               /\ ~(k \in missed /\ asked'[k] = Nothing)
                               => asked'[k] = readings[k]
      BY <1>2 DEF CopyInv, Copying, Rows, FiguresHad, Passed, NothingFor
    <2>1. /\ LastSays(queue["mount"], k, told[k])
          /\ LastSays(queue["transfer"], k, heard[k])
          /\ NothingFor("mount", k) => listed[k] = rows[k]
          /\ NothingFor("transfer", k) /\ k \notin toRead /\ ~(k \in missed /\ asked[k] = Nothing)
               => asked[k] = readings[k]
      BY <1>2 DEF TrayInv, CopyInv, Copying, Rows, FiguresHad, Passed
    <2>2. k \in Names /\ (k = n => asked'[k] = readings[k]) /\ (k # n => asked'[k] = asked[k])
      BY <1>2, <1>3 DEF Known, Names
    <2> QED
      BY <1>2, <2>1, <2>2
  <1> QED
    BY <1>1, <1>4, <1>5, <1>6 DEF TrayInv

\* What is passed over is missed, if there was anything to give.
LEMMA PassOverKeeps ==
    ASSUME TrayInv, NEW n \in Names, PassOver(n)
    PROVE  TrayInv'
  <1>1. ServiceInv'
    BY ServiceStays DEF TrayInv, PassOver
  <1>2. /\ step \in Filling /\ toRead' = toRead \ {n}
        /\ missed' = missed \cup {k \in {n} : readings[k] # Nothing}
        /\ UNCHANGED <<owned, owners, refresh, step, target, streams, queue, listed, asked, link,
                       mounts, transfers, rows, readings, news, told, heard>>
    BY DEF PassOver, GetTransferState, Filling, modelVars, registryVars
  <1>3. TrayTypeOK' /\ SessionInv' /\ GuestsInv'
    BY <1>2 DEF TrayInv, TrayTypeOK, SessionInv, GuestsInv
  <1>4. CopyInv'
    <2> SUFFICES ASSUME target = "current", NEW k \in Configured
                 PROVE  /\ LastSays(queue["mount"], k, told[k])
                        /\ LastSays(queue["transfer"], k, heard[k])
                        /\ NothingFor("mount", k) => listed[k] = rows[k]
                        /\ NothingFor("transfer", k) /\ k \notin toRead'
                               /\ ~(k \in missed' /\ asked[k] = Nothing)
                               => asked[k] = readings[k]
      BY <1>2 DEF CopyInv, Copying, Rows, FiguresHad, Passed, NothingFor
    <2>1. /\ LastSays(queue["mount"], k, told[k])
          /\ LastSays(queue["transfer"], k, heard[k])
          /\ NothingFor("mount", k) => listed[k] = rows[k]
          /\ NothingFor("transfer", k) /\ k \notin toRead /\ ~(k \in missed /\ asked[k] = Nothing)
               => asked[k] = readings[k]
      BY <1>2 DEF TrayInv, CopyInv, Copying, Rows, FiguresHad, Passed
    <2>2. step \in Filling /\ n \in toRead => asked[n] = Nothing
      BY DEF TrayInv, SessionInv
    <2> QED
      BY <1>2, <2>1, <2>2
  <1> QED
    BY <1>1, <1>3, <1>4 DEF TrayInv

LEMMA AdoptKeeps ==
    ASSUME TrayInv, Adopt
    PROVE  TrayInv'
  <1>1. ServiceInv'
    BY ServiceStays DEF TrayInv, Adopt
  <1>2. /\ step \in Filling /\ step' = "serve" /\ toRead = {} /\ link' = "up"
        /\ mounts' = listed /\ transfers' = asked /\ listed' = NoRows /\ asked' = NoFigures
        /\ UNCHANGED <<owned, owners, refresh, target, streams, queue, toRead, missed,
                       rows, readings, news, told, heard>>
    BY DEF Adopt, Filling, registryVars
  <1>3. TrayTypeOK' /\ GuestsInv'
    BY <1>2 DEF TrayInv, TrayTypeOK, GuestsInv, NoRows, NoFigures, Showing, Links
  <1>4. SessionInv'
    BY <1>2 DEF TrayInv, SessionInv, Apart, Showing, Filling
  <1>5. CopyInv'
    <2>1. /\ Copying /\ step' \notin Filling /\ Rows' = Rows /\ FiguresHad' = FiguresHad
          /\ \A n : Passed(n)' <=> Passed(n)
      BY <1>2 DEF Copying, Filling, Rows, FiguresHad, Passed
    <2>2. \A k, n : NothingFor(k, n)' <=> NothingFor(k, n)
      BY <1>2 DEF NothingFor
    <2> QED
      BY <1>2, <2>1, <2>2 DEF TrayInv, CopyInv
  <1> QED
    BY <1>1, <1>3, <1>4, <1>5 DEF TrayInv

\* A signal that is applied was the last that waits for its entry, and says what the
\* registry holds, or is not, and then nothing is claimed of the entry.
LEMMA ReceiveKeeps ==
    ASSUME TrayInv, NEW kind \in Kinds, Receive(kind)
    PROVE  TrayInv'
  <1> DEFINE change == Head(queue[kind])
  <1>1. ServiceInv'
    BY ServiceStays DEF TrayInv, Receive
  <1>2. /\ step = "serve" /\ queue[kind] # <<>>
        /\ mounts' = Apply(change, mounts) /\ transfers' = ApplyReading(change, transfers)
        /\ queue' = [queue EXCEPT ![kind] = Tail(@)]
        /\ missed' = IF change.kind = "mount" THEN missed ELSE missed \ {change.name}
        /\ UNCHANGED <<owned, owners, refresh, step, target, streams, toRead, listed, asked, link,
                       rows, readings, news, told, heard>>
    BY DEF Receive, registryVars
  <1>3. /\ queue \in [Kinds -> Seq(Changes)]
        /\ mounts \in [Names -> States \cup {Absent}]
        /\ transfers \in [Names -> Figures \cup {Nothing}]
    BY DEF TrayInv, TrayTypeOK
  <1>4. /\ Tail(queue[kind]) \in Seq(Changes) /\ change \in Changes
        /\ Said(queue[kind]) = {change} \cup Said(Tail(queue[kind]))
    BY <1>2, <1>3, SaidTail
  <1>5. /\ change.kind = kind /\ change.name \in Names
        /\ kind = "removed" => change.name \notin Configured /\ change.value = Absent
        /\ kind = "mount" => change.value \in States
        /\ kind = "transfer" => change.name \in Configured /\ change.value \in Figures \cup {Nothing}
    BY <1>4 DEF TrayInv, GuestsInv, Changes
  <1>6. \A k \in Kinds : queue'[k] = IF k = kind THEN Tail(queue[kind]) ELSE queue[k]
    BY <1>2, <1>3
  <1>7. TrayTypeOK'
    <2>1. queue' \in [Kinds -> Seq(Changes)]
      BY <1>2, <1>3, <1>4
    <2>2. mounts' \in [Names -> States \cup {Absent}]
      BY <1>2, <1>3, <1>5 DEF Apply, Kinds
    <2>3. transfers' \in [Names -> Figures \cup {Nothing}]
      BY <1>2, <1>3, <1>5 DEF ApplyReading, Kinds
    <2> QED
      BY <1>2, <2>1, <2>2, <2>3 DEF TrayInv, TrayTypeOK
  <1>8. SessionInv'
    <2>1. kind \in streams
      BY <1>2 DEF TrayInv, SessionInv
    <2> QED
      BY <1>2, <1>6, <2>1 DEF TrayInv, SessionInv
  <1>9. GuestsInv'
    <2>1. ASSUME NEW k \in Kinds PROVE Said(queue'[k]) \subseteq Said(queue[k])
      BY <1>4, <1>6
    <2>2. ASSUME NEW n \in Names \ Configured PROVE transfers'[n] = Nothing
      BY <1>2, <1>3, <1>5 DEF ApplyReading, TrayInv, GuestsInv, Kinds
    <2> QED
      BY <1>2, <2>1, <2>2 DEF TrayInv, GuestsInv, Kinds
  <1>10. CopyInv'
    <2> SUFFICES ASSUME target = "current", NEW n \in Configured
                 PROVE  /\ LastSays(queue'["mount"], n, told[n])
                        /\ LastSays(queue'["transfer"], n, heard[n])
                        /\ NothingFor("mount", n)' => mounts'[n] = rows[n]
                        /\ NothingFor("transfer", n)' /\ ~(n \in missed' /\ transfers'[n] = Nothing)
                               => transfers'[n] = readings[n]
      BY <1>2 DEF CopyInv, Rows, FiguresHad, Passed, Filling
    <2>1. /\ LastSays(queue["mount"], n, told[n])
          /\ LastSays(queue["transfer"], n, heard[n])
          /\ NothingFor("mount", n) => mounts[n] = rows[n]
          /\ NothingFor("transfer", n) /\ ~(n \in missed /\ transfers[n] = Nothing)
               => transfers[n] = readings[n]
      BY <1>2 DEF TrayInv, CopyInv, Copying, Rows, FiguresHad, Passed, Showing, Filling
    <2>2. /\ n \in Names /\ ListenerInv /\ SignalsApart
          /\ news \subseteq Changes
      BY DEF Names, TrayInv, SessionInv, ServiceInv, ListenerInv, RegistryTypeOK
    <2>3. LastSays(queue'["mount"], n, told[n]) /\ LastSays(queue'["transfer"], n, heard[n])
      BY <1>2, <1>3, <1>6, <2>1, LastTail DEF Kinds
    <2>4. ASSUME NothingFor("mount", n)' PROVE mounts'[n] = rows[n]
      <3>1. CASE kind = "mount" /\ change.name = n
        <4>1. mounts'[n] = change.value
          BY <1>2, <1>3, <1>5, <2>2, <3>1 DEF Apply
        <4>2. change.value = told[n]
          BY <1>2, <1>3, <1>6, <2>1, <2>4, <3>1, LastTail DEF NothingFor
        <4>3. {c \in news : c.name = n /\ c.kind # "transfer"} = {}
          BY <1>2, <2>2, <2>4 DEF NothingFor, SignalsApart, Changes
        <4> QED
          BY <2>2, <4>1, <4>2, <4>3 DEF ListenerInv, ListenerSeesRows
      <3>2. CASE ~(kind = "mount" /\ change.name = n)
        <4>1. mounts'[n] = mounts[n]
          BY <1>2, <1>3, <1>5, <2>2, <3>2 DEF Apply, Kinds
        <4>2. NothingFor("mount", n)
          BY <1>2, <1>4, <1>6, <2>4, <3>2 DEF NothingFor, NoneFor, Kinds
        <4> QED
          BY <2>1, <4>1, <4>2
      <3> QED
        BY <3>1, <3>2
    <2>5. ASSUME NothingFor("transfer", n)', ~(n \in missed' /\ transfers'[n] = Nothing)
          PROVE  transfers'[n] = readings[n]
      <3>1. CASE kind = "transfer" /\ change.name = n
        <4>1. transfers'[n] = change.value
          BY <1>2, <1>3, <1>5, <2>2, <3>1 DEF ApplyReading
        <4>2. change.value = heard[n]
          BY <1>2, <1>3, <1>6, <2>1, <2>5, <3>1, LastTail DEF NothingFor
        <4>3. {c \in news : c.name = n /\ c.kind # "mount"} = {}
          BY <1>2, <2>2, <2>5 DEF NothingFor, SignalsApart, Changes
        <4> QED
          BY <2>2, <4>1, <4>2, <4>3 DEF ListenerInv, ListenerSeesFigures
      <3>2. CASE ~(kind = "transfer" /\ change.name = n)
        <4>1. transfers'[n] = transfers[n]
          BY <1>2, <1>3, <1>5, <2>2, <3>2 DEF ApplyReading, Kinds
        <4>2. NothingFor("transfer", n)
          BY <1>2, <1>4, <1>6, <2>5, <3>2 DEF NothingFor, NoneFor, Kinds
        <4>3. n \in missed => n \in missed'
          BY <1>2, <1>5, <3>2 DEF Kinds
        <4> QED
          BY <2>1, <2>5, <4>1, <4>2, <4>3
      <3> QED
        BY <3>1, <3>2
    <2> QED
      BY <2>3, <2>4, <2>5
  <1> QED
    BY <1>1, <1>7, <1>8, <1>9, <1>10 DEF TrayInv

LEMMA AsksRefreshKeeps ==
    ASSUME TrayInv, AsksRefresh \/ UNCHANGED trayVars
    PROVE  TrayInv'
  <1>1. /\ UNCHANGED <<registryVars, owned, owners, attachVars, modelVars>>
        /\ refresh' \in {refresh, TRUE}
    BY DEF AsksRefresh, trayVars
  <1>2. ServiceInv'
    BY <1>1, ServiceStays DEF TrayInv
  <1> QED
    BY <1>1, <1>2 DEF TrayInv, TrayTypeOK, SessionInv, GuestsInv, CopyInv, Copying, NothingFor,
       Rows, FiguresHad, Passed, registryVars, attachVars, modelVars

LEMMA StepKeeps ==
    ASSUME TrayInv, [TrayNext]_trayVars
    PROVE  TrayInv'
  <1>1. CASE BusLost
    BY <1>1, DisconnectKeeps DEF BusLost
  <1>2. CASE Linker
    BY <1>2, ConnectsKeeps, AskOwnerKeeps, SubscribeKeeps, GivesUpKeeps, ListKeeps, AdoptKeeps,
       OwnerChangedKeeps, SessionKeeps, ReadKeeps, PassOverKeeps, ReceiveKeeps DEF Linker
  <1>3. CASE TrayNext /\ ~Linker /\ ~BusLost
    BY <1>3, TickKeeps, EmitKeeps, MoveKeeps, StopKeeps, StartKeeps, AsksRefreshKeeps,
       ConnectsKeeps, SessionKeeps DEF TrayNext
  <1> QED
    BY <1>1, <1>2, <1>3, AsksRefreshKeeps

-----------------------------------------------------------------------------
(* What follows                                                            *)

\* What a session has of configured mounts is the registry's wherever nothing is on its
\* way, in every state of every life of the service and of the tray.
THEOREM CopyIsCurrent == TraySpec => []TrayInv
  <1>1. TrayInv /\ [TrayNext]_trayVars => TrayInv'
    BY StepKeeps
  <1> QED
    BY <1>1, InitTray, PTL DEF TraySpec

LEMMA QuietIsSettled ==
    ASSUME TrayInv, Quiet, NEW n \in Names
    PROVE  /\ n \in Configured => mounts[n] = rows[n]
           /\ transfers[n] = readings[n] \/ (n \in missed /\ transfers[n] = Nothing)
  <1>1. /\ step = "serve" /\ target = "current" /\ owned /\ phase = "asleep" /\ news = {}
        /\ queue["mount"] = <<>> /\ queue["transfer"] = <<>>
    BY DEF Quiet, Kinds, TrayInv, SessionInv, ServiceInv, ListenerInv, TickInv
  <1>2. NothingFor("mount", n) /\ NothingFor("transfer", n)
    BY <1>1, SaidNothing DEF NothingFor, NoneFor
  <1>3. CASE n \in Configured
    BY <1>1, <1>2, <1>3 DEF TrayInv, CopyInv, Copying, Rows, FiguresHad, Passed, Showing, Filling
  <1>4. CASE n \notin Configured
    BY <1>4 DEF TrayInv, GuestsInv, ServiceInv, SignalsApart
  <1> QED
    BY <1>3, <1>4

\* Once everything said has been applied, every configured mount is drawn as the service
\* reports it, whatever order its kinds of signal, the list and a refresh came in.
THEOREM RowsSettle == TraySpec => []ConfiguredRowsSettle
  <1>1. TrayInv => ConfiguredRowsSettle
    BY QuietIsSettled DEF ConfiguredRowsSettle, Names
  <1> QED
    BY <1>1, CopyIsCurrent, PTL

\* And so is every figure, of configured mounts and of guests, or it is missing: of a mount
\* whose reading was passed over, and of which no figure has been said since.
THEOREM ReadingsSettle == TraySpec => []FiguresSettle
  <1>1. TrayInv => FiguresSettle
    BY QuietIsSettled DEF FiguresSettle
  <1> QED
    BY <1>1, CopyIsCurrent, PTL

\* Rows of a life that is over are shown only while the event that ends them is still to
\* be read.
THEOREM OldRowsGo == TraySpec => []OldRowsAreDoomed
  <1>1. TrayInv => OldRowsAreDoomed
    BY DEF TrayInv, TrayTypeOK, SessionInv, OldRowsAreDoomed, Apart, Showing
  <1> QED
    BY <1>1, CopyIsCurrent, PTL
=============================================================================
