-------------------------- MODULE SupervisorProofs --------------------------
(***************************************************************************)
(* For every set of names, points, clients and configs: the supervisor's   *)
(* state keeps its type, no two requests work on one unit, a mount asks    *)
(* systemd for a name no rclone of ours is running under, and what is      *)
(* stopped or released is what was looked at.                              *)
(*                                                                         *)
(* A request either moves on inside its work (Moves), or ends (Ending), or *)
(* takes one of the few steps that touch the locks.  What the two shapes   *)
(* preserve is shown once, and each action is shown to have its shape.     *)
(***************************************************************************)
EXTENDS SupervisorProperties, TLAPS, FiniteSetTheorems

-----------------------------------------------------------------------------
(* The host's state keeps its type, whatever the supervisor does to it and *)
(* whatever happens to it.                                                 *)

\* What the supervisor's calls make of the units and of the mount table is well typed.
LEMMA StoppedType ==
  ASSUME HostTypeOK, NEW n \in Names
  PROVE  Stopped(n) \in [Names -> Unit]
  BY DEF HostTypeOK, Stopped, Unit, Phases, NoUnit

LEMMA ResetFailedType ==
  ASSUME NEW us \in [Names -> Unit], NEW n \in Names, NEW cleared \in ResetFailed(us, n)
  PROVE  cleared \in [Names -> Unit]
  BY DEF ResetFailed, Unit, Phases, NoUnit

LEMMA StartedType ==
  ASSUME NEW us \in [Names -> Unit], NEW n \in Names, NEW p \in Points \cup {NoPoint}
  PROVE  Started(us, n, p) \in [Names -> Unit]
  BY DEF Started, Unit, Phases

LEMMA UnmountedType ==
  ASSUME HostTypeOK, NEW p
  PROVE  Unmounted(p) \in [Points -> Entry]
  BY DEF HostTypeOK, Unmounted, Entry, Empty

LEMMA LeftBehindType ==
  ASSUME HostTypeOK, NEW n \in Names
  PROVE  LeftBehind(n) \in [Points -> Entry]
  BY DEF HostTypeOK, LeftBehind, Entry

\* A unit's status is one of the five systemd.rs distinguishes.
LEMMA StatusType ==
  ASSUME HostTypeOK, NEW n \in Names
  PROVE  UnitStatus(n) \in Statuses
  BY DEF HostTypeOK, UnitStatus, Statuses, Unit, Phases

\* Nothing that happens outside breaks the type.
LEMMA SystemdType ==
  ASSUME HostTypeOK, NEW n \in Names,
         \/ Exec(n) \/ Serve(n) \/ StartFails(n) \/ ExitReleased(n) \/ StopUnmounts(n)
         \/ StopExits(n) \/ Crash(n) \/ Abort(n) \/ StopByHand(n)
  PROVE  HostTypeOK'
<1> USE DEF HostTypeOK
<1>1. CASE Exec(n)
  <2>1. units' \in [Names -> Unit] BY <1>1 DEF Exec, Unit, Phases
  <2>2. table' \in [Points -> Entry] BY <1>1, UnmountedType DEF Exec, ClearStale
  <2> QED BY <2>1, <2>2
<1>2. CASE Serve(n)
  <2>1. units' \in [Names -> Unit] BY <1>2 DEF Serve, Unit, Phases
  <2>2. PICK s \in Sources :
          table' = [table EXCEPT ![units[n].argv] = [by |-> n, spec |-> s, held |-> FALSE]]
        BY <1>2 DEF Serve
  <2>3. [by |-> n, spec |-> s, held |-> FALSE] \in Entry BY SourcesAssumption DEF Entry
  <2>4. table' \in [Points -> Entry] BY <2>2, <2>3
  <2> QED BY <2>1, <2>4
<1>3. CASE StartFails(n) BY <1>3 DEF StartFails, Restarts, Unit, Phases
<1>4. CASE ExitReleased(n) BY <1>4 DEF ExitReleased, NoUnit, Unit, Phases
<1>5. CASE StopUnmounts(n) BY <1>5, UnmountedType DEF StopUnmounts
<1>6. CASE StopExits(n)
  <2>1. units' \in [Names -> Unit] BY <1>6 DEF StopExits, NoUnit, Unit, Phases
  <2>2. table' \in [Points -> Entry] BY <1>6, LeftBehindType DEF StopExits
  <2> QED BY <2>1, <2>2
<1>7. CASE Crash(n)
  <2>1. units' \in [Names -> Unit] BY <1>7 DEF Crash, Restarts, Unit, Phases
  <2>2. table' \in [Points -> Entry] BY <1>7, LeftBehindType DEF Crash
  <2> QED BY <2>1, <2>2
<1>8. CASE Abort(n) BY <1>8, LeftBehindType DEF Abort
<1>9. CASE StopByHand(n) BY <1>9, StoppedType DEF StopByHand
<1> QED BY <1>1, <1>2, <1>3, <1>4, <1>5, <1>6, <1>7, <1>8, <1>9

LEMMA OthersType ==
  ASSUME HostTypeOK, NEW p \in Points,
         ForeignMounts(p) \/ ForeignDies(p) \/ ReleasedByHand(p) \/ Hold(p) \/ LetGo(p)
  PROVE  HostTypeOK'
<1> USE DEF HostTypeOK
<1>1. CASE ForeignMounts(p) BY <1>1, SourcesAssumption DEF ForeignMounts, Entry
<1>2. CASE ForeignDies(p) BY <1>2 DEF ForeignDies, Entry
<1>3. CASE ReleasedByHand(p) BY <1>3, UnmountedType DEF ReleasedByHand
<1>4. CASE Hold(p) BY <1>4 DEF Hold, Entry
<1>5. CASE LetGo(p) BY <1>5 DEF LetGo, Entry
<1> QED BY <1>1, <1>2, <1>3, <1>4, <1>5

-----------------------------------------------------------------------------
(* The supervisor's state.                                                 *)

ControlTypeOK ==
  /\ config \in Configs
  /\ pc \in [Clients -> Steps]
  /\ req \in [Clients -> Requests]
  /\ tgt \in [Clients -> [unit : Names, point : Points \cup {NoPoint}]]
  /\ saw \in [Clients -> [live : BOOLEAN, status : Statuses]]
  /\ result \in [Clients -> Results]
  /\ lockmap \in [Names -> Locks \cup {None}]
  /\ mine \in [Clients -> Locks \cup {None}]
  /\ redir \in [Clients -> Locks \cup {None}]
  /\ owner \in [Locks -> Clients \cup {None}]
  /\ intact \in [Clients -> BOOLEAN]

LEMMA TypeParts == TypeOK <=> HostTypeOK /\ ControlTypeOK
  BY DEF TypeOK, ControlTypeOK

IInv == TypeOK /\ LocksGuard /\ MountsAreConfigured

\* A step inside a request's work: it keeps its locks and its target.
Moves(c) ==
  /\ pc[c] \in Acting
  /\ \E s \in Acting : pc' = [pc EXCEPT ![c] = s]
  /\ UNCHANGED <<config, req, tgt, result, lockVars>>
  /\ saw' \in [Clients -> [live : BOOLEAN, status : Statuses]]
  /\ intact' \in [Clients -> BOOLEAN]

\* The end of a request, which leaves the map as it is.
Ending(c) ==
  /\ pc[c] # "idle"
  /\ \E r \in Results : Finish(c, r)
  /\ UNCHANGED lockmap

-----------------------------------------------------------------------------

LEMMA Blanks ==
  /\ AnyName \in Names
  /\ NoRequest \in Requests
  /\ NoTarget \in [unit : Names, point : Points \cup {NoPoint}]
  /\ NoSaw \in [live : BOOLEAN, status : Statuses]
<1>1. AnyName \in Names BY NamesAssumption DEF AnyName
<1> QED BY <1>1 DEF NoRequest, Requests, NoTarget, NoSaw, Statuses

LEMMA TrackType ==
  ASSUME TypeOK, NEW ds, Track(ds)
  PROVE  intact' \in [Clients -> BOOLEAN]
  BY DEF TypeOK, Track

LEMMA MovesType ==
  ASSUME TypeOK, NEW c \in Clients, Moves(c)
  PROVE  ControlTypeOK'
  BY DEF TypeOK, ControlTypeOK, Moves, Acting, MountSteps, UnmountSteps, Steps, lockVars

LEMMA FinishType ==
  ASSUME TypeOK, NEW c \in Clients, NEW r \in Results, Finish(c, r),
         lockmap' \in [Names -> Locks \cup {None}]
  PROVE  ControlTypeOK'
  BY Blanks DEF TypeOK, ControlTypeOK, Finish, Goto, Steps

LEMMA MovesGuard ==
  ASSUME TypeOK, LocksGuard, NEW c \in Clients, Moves(c)
  PROVE  LocksGuard'
  BY DEF TypeOK, LocksGuard, HeldByMap, HeldByPc, Guard, Own, Moves, Acting, MountSteps,
         UnmountSteps, lockVars

LEMMA FinishGuard ==
  ASSUME TypeOK, LocksGuard, NEW c \in Clients, NEW r, Finish(c, r),
         \A d \in Clients \ {c} :
           /\ mine[d] # None => lockmap'[req[d].name] = mine[d]
           /\ redir[d] # None => lockmap'[Own(d)] = redir[d]
  PROVE  LocksGuard'
<1> USE DEF LocksGuard
<1>1. HeldByMap'
  BY DEF TypeOK, HeldByMap, Finish, Goto, Own
<1>2. HeldByPc'
  <2>1. ASSUME NEW d \in Clients, d = c
        PROVE  pc'[d] = "idle" /\ mine'[d] = None /\ redir'[d] = None
               /\ \A l \in Locks : owner'[l] # d
    BY <2>1, ClientsAssumption DEF TypeOK, Finish, Goto
  <2>2. ASSUME NEW d \in Clients, d # c
        PROVE  /\ pc'[d] = pc[d] /\ mine'[d] = mine[d] /\ redir'[d] = redir[d]
               /\ req'[d] = req[d] /\ tgt'[d] = tgt[d]
               /\ \A l \in Locks : (owner'[l] = d) <=> (owner[l] = d)
    BY <2>2, ClientsAssumption DEF TypeOK, Finish, Goto
  <2>3. \A d \in Clients : mine[d] \in Locks \cup {None} /\ redir[d] \in Locks \cup {None}
    BY DEF TypeOK
  <2> QED BY <2>1, <2>2, <2>3 DEF HeldByPc, Guard, Own, Acting, MountSteps, UnmountSteps
<1> QED BY <1>1, <1>2

-----------------------------------------------------------------------------
(* Each action of a request has its shape, and types what it changes.      *)

Shape(c) == HostTypeOK' /\ (Moves(c) \/ Ending(c))

\* The bookkeeping operators give the shapes.
LEMMA ContinueShape ==
  ASSUME TypeOK, NEW c \in Clients, pc[c] \in Acting, NEW s \in Acting, Continue(c, s)
  PROVE  Shape(c)
  BY DEF TypeOK, HostTypeOK, Shape, Continue, Goto, Moves, hostVars, lockVars

LEMMA AnswerShape ==
  ASSUME TypeOK, NEW c \in Clients, pc[c] # "idle", NEW r \in Results, Answer(c, r)
  PROVE  Shape(c)
  BY DEF TypeOK, HostTypeOK, Shape, Answer, Ending, hostVars

LEMMA ReleaseShape ==
  ASSUME TypeOK, NEW c \in Clients, pc[c] \in Acting, NEW s \in Acting, NEW how,
         ReleaseWorks(c, how), Goto(c, s), UNCHANGED <<req, tgt, saw, result, lockVars>>
  PROVE  Shape(c)
<1>1. table' \in [Points -> Entry] BY UnmountedType DEF TypeOK, ReleaseWorks
<1>2. HostTypeOK' BY <1>1 DEF TypeOK, HostTypeOK, ReleaseWorks
<1>3. intact' \in [Clients -> BOOLEAN] BY TrackType DEF ReleaseWorks
<1> QED BY <1>2, <1>3 DEF TypeOK, Shape, Moves, Goto

\* systemd forgets a failed unit, and the request ends.
LEMMA ClearedShape ==
  ASSUME TypeOK, NEW c \in Clients, pc[c] # "idle", NEW r \in Results, Finish(c, r),
         units' \in ResetFailed(units, Own(c)), UNCHANGED <<table, lockmap>>
  PROVE  Shape(c)
<1>1. Own(c) \in Names BY DEF TypeOK, Own
<1>2. units' \in [Names -> Unit] BY <1>1, ResetFailedType DEF TypeOK, HostTypeOK
<1> QED BY <1>2 DEF TypeOK, HostTypeOK, Shape, Ending

Words == {"ok", "unknown", "notManaged", "busy", "failed"}
LEMMA WordsAreResults == Words \subseteq Results BY DEF Words, Results

LEMMA UnmountShape ==
  ASSUME TypeOK, NEW c \in Clients,
         \/ LookAtPoint(c) \/ LookAtUnit(c) \/ (\E unread \in Unreadables : CheckSource(c, unread))
         \/ AskKernel(c) \/ KernelRefuses(c) \/ StopUnit(c) \/ AwaitGone(c) \/ AwaitUnitGone(c)
         \/ Escalate(c) \/ AskAgain(c) \/ RefusedAgain(c) \/ Detach(c) \/ DetachFails(c)
         \/ Settle(c)
  PROVE  Shape(c)
<1> USE DEF Acting, MountSteps, UnmountSteps
<1>0. Own(c) \in Names BY DEF TypeOK, Own
<1>a. \A s \in Acting : Continue(c, s) /\ pc[c] \in Acting => Shape(c) BY ContinueShape
<1>b. \A r \in Words : Answer(c, r) /\ pc[c] \in Acting => Shape(c)
  BY AnswerShape, WordsAreResults
<1>c. \A s \in Acting, how \in {"Refuse", "Detach"} :
        ReleaseWorks(c, how) /\ Goto(c, s) /\ UNCHANGED <<req, tgt, saw, result, lockVars>>
          /\ pc[c] \in Acting => Shape(c)
  BY ReleaseShape
<1>d. "ok" \in Results BY DEF Results
<1>1. CASE LookAtPoint(c)
  BY <1>1 DEF LookAtPoint, TypeOK, HostTypeOK, Shape, Moves, Goto, IsMountedAt, hostVars
<1>2. CASE LookAtUnit(c)
  <2>1. UnitStatus(Own(c)) \in Statuses BY <1>0, StatusType DEF TypeOK
  <2> DEFINE Sees == /\ saw' = [saw EXCEPT ![c].status = UnitStatus(Own(c))]
                     /\ Goto(c, IF saw[c].live THEN "source" ELSE "stop")
                     /\ UNCHANGED <<hostVars, req, tgt, result, lockVars, intact>>
  <2>2. pc[c] = "status" /\ (Answer(c, "notManaged") \/ Answer(c, "ok") \/ Sees)
    BY <1>2 DEF LookAtUnit
  <2>3. CASE Sees
    <3>1. saw' \in [Clients -> [live : BOOLEAN, status : Statuses]] BY <2>1, <2>3 DEF TypeOK
    <3>2. HostTypeOK' BY <2>3 DEF TypeOK, HostTypeOK, hostVars
    <3> QED BY <2>2, <2>3, <3>1, <3>2 DEF TypeOK, Shape, Moves, Goto
  <2> QED BY <2>2, <2>3, <1>b DEF Words
<1>3. CASE \E unread \in Unreadables : CheckSource(c, unread)
  BY <1>3, <1>a, <1>b DEF CheckSource, Words
<1>4. CASE AskKernel(c)
  BY <1>4, <1>c DEF AskKernel
<1>5. CASE KernelRefuses(c)
  BY <1>5, <1>a, <1>b DEF KernelRefuses, Words
<1>6. CASE StopUnit(c)
  <2>1. units' \in [Names -> Unit] BY <1>6, <1>0, StoppedType DEF StopUnit, TypeOK
  <2>2. intact' \in [Clients -> BOOLEAN] BY <1>6, TrackType DEF StopUnit, Acts
  <2> QED BY <1>6, <2>1, <2>2 DEF StopUnit, Acts, Goto, TypeOK, HostTypeOK, Shape, Moves
<1>7. CASE AwaitGone(c)
  BY <1>7, <1>a DEF AwaitGone
<1>8. CASE AwaitUnitGone(c)
  BY <1>8, <1>b, <1>d, ClearedShape DEF AwaitUnitGone, Words
<1>9. CASE Escalate(c)
  BY <1>9, <1>a, <1>b DEF Escalate, Words
<1>10. CASE AskAgain(c)
  BY <1>10, <1>c DEF AskAgain
<1>11. CASE RefusedAgain(c)
  BY <1>11, <1>a, <1>b DEF RefusedAgain, Words
<1>12. CASE Detach(c)
  BY <1>12, <1>c DEF Detach
<1>13. CASE DetachFails(c)
  BY <1>13, <1>b DEF DetachFails, Words
<1>14. CASE Settle(c)
  BY <1>14, <1>b, <1>d, ClearedShape DEF Settle, Words
<1> QED BY <1>1, <1>2, <1>3, <1>4, <1>5, <1>6, <1>7, <1>8, <1>9, <1>10, <1>11, <1>12, <1>13,
           <1>14

LEMMA MountShape ==
  ASSUME TypeOK, NEW c \in Clients, MountStep(c)
  PROVE  Shape(c)
<1> USE DEF Acting, MountSteps, UnmountSteps
<1>0. Own(c) \in Names /\ Point(c) \in Points \cup {NoPoint} BY DEF TypeOK, Own, Point
<1>a. \A s \in Acting : Continue(c, s) /\ pc[c] \in Acting => Shape(c) BY ContinueShape
<1>b. \A r \in Words : Answer(c, r) /\ pc[c] \in Acting => Shape(c)
  BY AnswerShape, WordsAreResults
<1>c. \A s \in Acting, how \in {"Refuse", "Detach"} :
        ReleaseWorks(c, how) /\ Goto(c, s) /\ UNCHANGED <<req, tgt, saw, result, lockVars>>
          /\ pc[c] \in Acting => Shape(c)
  BY ReleaseShape
<1>1. CASE \E unread \in Unreadables : Moved(c, unread)
  BY <1>1, <1>a, <1>b DEF Moved, Words
<1>2. CASE \E unread \in Unreadables : FindStale(c, unread)
  BY <1>2, <1>b DEF FindStale, Words, TypeOK, HostTypeOK, Shape, Moves, Goto, hostVars
<1>3. CASE \E unread \in Unreadables : OverLive(c, unread)
  BY <1>3, <1>a, <1>b DEF OverLive, Words
<1>4. CASE FindEmpty(c)
  BY <1>4, <1>a DEF FindEmpty
<1>5. CASE FindLive(c)
  BY <1>5, <1>a DEF FindLive
<1>6. CASE Clear(c)
  BY <1>6, <1>c DEF Clear
<1>7. CASE ClearFails(c)
  BY <1>7, <1>b DEF ClearFails, Words
<1>8. CASE AwaitName(c)
  BY <1>8, <1>a, <1>b DEF AwaitName, Words
<1>9. CASE Begin(c)
  BY <1>9, <1>a DEF Begin
<1>10. CASE Start(c)
  <2>1. \A cleared \in ResetFailed(units, Own(c)) : cleared \in [Names -> Unit]
    BY <1>0, ResetFailedType DEF TypeOK, HostTypeOK
  <2>2. \A cleared \in ResetFailed(units, Own(c)) :
          Started(cleared, Own(c), Point(c)) \in [Names -> Unit]
    BY <1>0, <2>1, StartedType
  <2>3. HostTypeOK' BY <1>10, <2>1, <2>2 DEF Start, Acts, TypeOK, HostTypeOK
  <2>4. "failed" \in Results BY DEF Results
  <2>5. Acts(c, "ready") => intact' \in [Clients -> BOOLEAN] BY TrackType DEF Acts
  <2> QED BY <1>10, <2>3, <2>4, <2>5 DEF Start, Acts, Goto, Shape, Moves, Ending, TypeOK, lockVars
<1>11. CASE AwaitReady(c)
  BY <1>11, <1>b DEF AwaitReady, Words
<1> QED BY <1>1, <1>2, <1>3, <1>4, <1>5, <1>6, <1>7, <1>8, <1>9, <1>10, <1>11 DEF MountStep

-----------------------------------------------------------------------------
(* The steps that touch the locks.                                         *)

LEMMA InductiveParts ==
  ASSUME HostTypeOK', ControlTypeOK', LocksGuard', MountsAreConfigured'
  PROVE  IInv'
  BY DEF IInv, TypeOK, HostTypeOK, ControlTypeOK

LEMMA ShapeInductive ==
  ASSUME IInv, NEW c \in Clients, Shape(c)
  PROVE  IInv'
<1> USE DEF IInv
<1>1. CASE Moves(c)
  <2>1. MountsAreConfigured'
    BY <1>1 DEF Moves, MountsAreConfigured, Configured, TypeOK, Acting, MountSteps, UnmountSteps
  <2> QED BY <1>1, <2>1, MovesType, MovesGuard, InductiveParts DEF Shape
<1>2. CASE Ending(c)
  <2>1. PICK r \in Results : Finish(c, r) BY <1>2 DEF Ending
  <2>2. UNCHANGED lockmap BY <1>2 DEF Ending
  <2>3. ControlTypeOK' BY <2>1, <2>2, FinishType DEF TypeOK
  <2>4. LocksGuard' BY <2>1, <2>2, FinishGuard DEF LocksGuard, HeldByMap
  <2>5. MountsAreConfigured' BY <2>1 DEF Finish, Goto, MountsAreConfigured, Configured, TypeOK
  <2> QED BY <2>3, <2>4, <2>5, InductiveParts DEF Shape
<1> QED BY <1>1, <1>2 DEF Shape

\* `lock_for` keeps every mutex somebody can be waiting for, and its owner.
LEMMA LockForKeeps ==
  ASSUME TypeOK, NEW n \in Names, NEW l \in Locks, LockFor(n, l)
  PROVE  /\ lockmap' \in [Names -> Locks \cup {None}]
         /\ owner' \in [Locks -> Clients \cup {None}]
         /\ lockmap'[n] = l
         /\ \A m \in Names : lockmap[m] # None => lockmap'[m] = lockmap[m]
         /\ \A k \in Locks : \/ owner'[k] = owner[k]
                            \/ /\ owner'[k] = None
                               /\ \A d \in Clients : mine[d] # k /\ redir[d] # k
<1>1. CASE lockmap[n] # None
  <2>1. l = lockmap[n] /\ lockmap' = lockmap /\ owner' = owner BY <1>1 DEF LockFor
  <2> QED BY <2>1 DEF TypeOK
<1>2. CASE lockmap[n] = None
  <2>1. /\ l \in Unused
        /\ lockmap' = [lockmap EXCEPT ![n] = l]
        /\ owner' = [owner EXCEPT ![l] = None]
    BY <1>2 DEF LockFor
  <2>2. \A d \in Clients : mine[d] # l /\ redir[d] # l BY <2>1 DEF Unused
  <2>3. /\ lockmap' \in [Names -> Locks \cup {None}]
        /\ owner' \in [Locks -> Clients \cup {None}]
    BY <2>1 DEF TypeOK
  <2>4. lockmap'[n] = l /\ \A m \in Names : m # n => lockmap'[m] = lockmap[m]
    BY <2>1 DEF TypeOK
  <2>5. \A k \in Locks : owner'[k] = IF k = l THEN None ELSE owner[k]
    BY <2>1 DEF TypeOK
  <2> QED BY <1>2, <2>2, <2>3, <2>4, <2>5
<1> QED BY <1>1, <1>2

LEMMA AskInductive ==
  ASSUME IInv, NEW c \in Clients, NEW r \in Asks, Ask(c, r)
  PROVE  IInv'
<1> USE DEF IInv
<1>1. PICK l \in Locks : LockFor(r.name, l) /\ mine' = [mine EXCEPT ![c] = l]
  BY DEF Ask
<1>2. r \in Requests /\ r.name \in Names BY AsksAssumption DEF Requests
<1>3. HostTypeOK' BY DEF Ask, TypeOK, HostTypeOK, hostVars
<1>4. ControlTypeOK'
  BY <1>1, <1>2, LockForKeeps DEF Ask, Goto, TypeOK, ControlTypeOK, Steps, Results, hostVars
<1>5. MountsAreConfigured'
  BY <1>2 DEF Ask, Goto, MountsAreConfigured, Configured, TypeOK
<1>6. LocksGuard'
  <2>1. /\ mine'[c] = l /\ l # None /\ pc'[c] = "lock" /\ redir'[c] = None
        /\ req'[c].name = r.name /\ lockmap'[r.name] = l /\ mine[c] = None /\ pc[c] = "idle"
    BY <1>1, <1>2, LockForKeeps, LocksAssumption DEF Ask, Goto, TypeOK, LocksGuard, HeldByPc
  <2>2. \A d \in Clients \ {c} : /\ mine'[d] = mine[d] /\ redir'[d] = redir[d] /\ pc'[d] = pc[d]
                                 /\ req'[d] = req[d] /\ tgt'[d] = tgt[d]
    BY <1>1 DEF Ask, Goto, TypeOK
  <2>3. HeldByMap'
    BY <1>1, <1>2, <2>1, <2>2, LockForKeeps DEF HeldByMap, LocksGuard, Own, TypeOK, Requests
  <2>4. HeldByPc'
    BY <1>1, <1>2, <2>1, <2>2, LockForKeeps, ClientsAssumption
       DEF HeldByPc, LocksGuard, Own, Guard, TypeOK, Acting, MountSteps, UnmountSteps
  <2> QED BY <2>3, <2>4 DEF LocksGuard
<1> QED BY <1>3, <1>4, <1>5, <1>6, InductiveParts

\* A refusal to mount an orphan's name takes no lock and leaves no trace but its answer.
LEMMA MountUnconfiguredInductive ==
  ASSUME IInv, NEW c \in Clients, NEW n, NEW unread, MountUnconfigured(c, n, unread)
  PROVE  IInv'
<1> USE DEF IInv
<1>1. HostTypeOK' /\ ControlTypeOK'
  BY DEF MountUnconfigured, TypeOK, HostTypeOK, ControlTypeOK, Results, hostVars, lockVars
<1>2. LocksGuard'
  BY DEF MountUnconfigured, LocksGuard, HeldByMap, HeldByPc, Guard, Own, lockVars
<1>3. MountsAreConfigured' BY DEF MountUnconfigured, MountsAreConfigured, Configured
<1> QED BY <1>1, <1>2, <1>3, InductiveParts

LEMMA ConfigTargetType ==
  ASSUME TypeOK, NEW n, Configured(n)
  PROVE  /\ ConfigTarget(n) \in [unit : Names, point : Points \cup {NoPoint}]
         /\ ConfigTarget(n).unit = n
  BY ConfigsAssumption DEF TypeOK, Configured, ConfigTarget

LEMMA UnmountTargetsType ==
  ASSUME TypeOK, NEW n \in Names, NEW unread, NEW t \in UnmountTargets(n, unread)
  PROVE  t \in [unit : Names, point : Points \cup {NoPoint}]
<1>1. \A o \in Names : OrphanTarget(o) \in [unit : Names, point : Points \cup {NoPoint}]
  BY DEF TypeOK, HostTypeOK, Unit, OrphanTarget
<1>2. Orphans(unread) \subseteq Names /\ OrphansAt(config[n], unread) \subseteq Names
  BY DEF Orphans, OrphansAt
<1>3. CASE ~Configured(n) BY <1>1, <1>2, <1>3 DEF UnmountTargets
<1>4. CASE Configured(n) BY <1>1, <1>2, <1>4, ConfigTargetType DEF UnmountTargets
<1> QED BY <1>3, <1>4

LEMMA TakeLockInductive ==
  ASSUME IInv, NEW c \in Clients, TakeLock(c)
  PROVE  IInv'
<1> USE DEF IInv
<1>1. mine[c] \in Locks /\ owner[mine[c]] = None /\ pc[c] = "lock" /\ redir[c] = None
  BY DEF TakeLock, TypeOK, LocksGuard, HeldByPc
<1>2. owner' = [owner EXCEPT ![mine[c]] = c] /\ UNCHANGED <<req, lockmap, mine, redir, config>>
  BY DEF TakeLock, Goto
<1>3. HostTypeOK' BY DEF TakeLock, TypeOK, HostTypeOK, hostVars
<1>4. owner' \in [Locks -> Clients \cup {None}] BY <1>1, <1>2 DEF TypeOK
<1>5. CASE req[c].op = "mount"
  <2>1. Configured(req[c].name) BY <1>1, <1>5 DEF MountsAreConfigured
  <2>2. /\ tgt' = [tgt EXCEPT ![c] = ConfigTarget(req[c].name)]
        /\ pc' = [pc EXCEPT ![c] = "moved"]
    BY <1>5 DEF TakeLock, Goto
  <2>3. /\ tgt' \in [Clients -> [unit : Names, point : Points \cup {NoPoint}]]
        /\ tgt'[c].unit = req[c].name
    BY <2>1, <2>2, ConfigTargetType DEF TypeOK
  <2>4. ControlTypeOK'
    BY <1>2, <1>4, <2>2, <2>3 DEF TakeLock, TypeOK, ControlTypeOK, Steps, Acting, MountSteps
  <2>5. \A d \in Clients \ {c} : tgt'[d] = tgt[d] /\ pc'[d] = pc[d] BY <2>2 DEF TypeOK
  <2>6. pc'[c] = "moved" BY <2>2 DEF TypeOK
  <2>7. HeldByMap' BY <1>1, <1>2, <2>5 DEF LocksGuard, HeldByMap, Own, TypeOK
  <2>8. HeldByPc'
    BY <1>1, <1>2, <2>3, <2>5, <2>6, LocksAssumption, ClientsAssumption
       DEF LocksGuard, HeldByPc, Guard, Own, TypeOK, Acting, MountSteps, UnmountSteps
  <2>9. MountsAreConfigured' BY <1>2, <2>5, <2>6 DEF MountsAreConfigured, Configured, TypeOK
  <2> QED BY <1>3, <2>4, <2>7, <2>8, <2>9, InductiveParts DEF LocksGuard
<1>6. CASE req[c].op # "mount"
  <2>2. tgt' = tgt /\ pc' = [pc EXCEPT ![c] = "target"] BY <1>6 DEF TakeLock, Goto
  <2>4. ControlTypeOK' BY <1>2, <1>4, <2>2 DEF TakeLock, TypeOK, ControlTypeOK, Steps
  <2>7. HeldByMap' BY <1>1, <1>2, <2>2 DEF LocksGuard, HeldByMap, Own, TypeOK
  <2>8. HeldByPc'
    BY <1>1, <1>2, <2>2, LocksAssumption, ClientsAssumption
       DEF LocksGuard, HeldByPc, Guard, Own, TypeOK, Acting, MountSteps, UnmountSteps
  <2>9. MountsAreConfigured' BY <1>2, <2>2 DEF MountsAreConfigured, Configured, TypeOK
  <2> QED BY <1>3, <2>4, <2>7, <2>8, <2>9, InductiveParts DEF LocksGuard
<1> QED BY <1>5, <1>6

LEMMA FindTargetInductive ==
  ASSUME IInv, NEW c \in Clients, NEW unread, FindTarget(c, unread)
  PROVE  IInv'
<1> USE DEF IInv
<1>1. pc[c] = "target" /\ req[c].name \in Names /\ redir[c] = None
  BY DEF FindTarget, TypeOK, Requests, LocksGuard, HeldByPc
<1>2. PICK t \in UnmountTargets(req[c].name, unread) :
        /\ tgt' = [tgt EXCEPT ![c] = t]
        /\ Goto(c, IF t.unit # req[c].name THEN "redirect" ELSE "look")
  BY DEF FindTarget
<1>3. t \in [unit : Names, point : Points \cup {NoPoint}] BY <1>1, UnmountTargetsType
<1>4. /\ tgt' \in [Clients -> [unit : Names, point : Points \cup {NoPoint}]]
      /\ tgt'[c] = t /\ \A d \in Clients \ {c} : tgt'[d] = tgt[d] /\ pc'[d] = pc[d]
      /\ pc'[c] = IF t.unit # req[c].name THEN "redirect" ELSE "look"
  BY <1>2, <1>3 DEF TypeOK, Goto
<1>5. UNCHANGED <<hostVars, config, req, saw, result, lockmap, mine, redir, owner>>
  BY <1>2 DEF FindTarget, lockVars, Goto
<1>6. HostTypeOK' BY <1>5 DEF TypeOK, HostTypeOK, hostVars
<1>7. ControlTypeOK'
  <2>1. pc' \in [Clients -> Steps] BY <1>2 DEF Goto, TypeOK, Steps, Acting, UnmountSteps
  <2>2. intact' \in [Clients -> BOOLEAN] BY DEF FindTarget, TypeOK
  <2> QED BY <1>4, <1>5, <2>1, <2>2 DEF TypeOK, ControlTypeOK
<1>8. HeldByMap' BY <1>1, <1>4, <1>5 DEF LocksGuard, HeldByMap, Own
<1>9. HeldByPc'
  BY <1>1, <1>4, <1>5 DEF LocksGuard, HeldByPc, Guard, Own, Acting, MountSteps, UnmountSteps
<1>10. MountsAreConfigured' BY <1>1, <1>4, <1>5 DEF MountsAreConfigured, Configured
<1> QED BY <1>6, <1>7, <1>8, <1>9, <1>10, InductiveParts DEF LocksGuard

LEMMA LookUpRedirectInductive ==
  ASSUME IInv, NEW c \in Clients, LookUpRedirect(c)
  PROVE  IInv'
<1> USE DEF IInv
<1>1. pc[c] = "redirect" /\ Own(c) \in Names /\ redir[c] = None /\ Own(c) # req[c].name
  BY DEF LookUpRedirect, TypeOK, LocksGuard, HeldByPc, Own
<1>2. PICK l \in Locks : LockFor(Own(c), l) /\ redir' = [redir EXCEPT ![c] = l]
  BY DEF LookUpRedirect
<1>3. UNCHANGED <<hostVars, config, req, tgt, saw, result, mine, intact>>
  BY DEF LookUpRedirect, Goto
<1>4. HostTypeOK' BY <1>3 DEF TypeOK, HostTypeOK, hostVars
<1>5. /\ redir'[c] = l /\ l # None /\ pc'[c] = "redirlock"
      /\ \A d \in Clients \ {c} : redir'[d] = redir[d] /\ pc'[d] = pc[d]
  BY <1>2, LocksAssumption DEF LookUpRedirect, Goto, TypeOK
<1>6. ControlTypeOK'
  BY <1>1, <1>2, <1>3, LockForKeeps DEF LookUpRedirect, Goto, TypeOK, ControlTypeOK, Steps
<1>7. HeldByMap'
  BY <1>1, <1>2, <1>3, <1>5, LockForKeeps DEF LocksGuard, HeldByMap, Own, TypeOK, Requests
<1>8. HeldByPc'
  BY <1>1, <1>2, <1>3, <1>5, LockForKeeps, ClientsAssumption
     DEF LocksGuard, HeldByPc, Guard, Own, TypeOK, Acting, MountSteps, UnmountSteps
<1>9. MountsAreConfigured' BY <1>3, <1>5 DEF MountsAreConfigured, Configured
<1> QED BY <1>4, <1>6, <1>7, <1>8, <1>9, InductiveParts DEF LocksGuard

LEMMA TakeRedirectInductive ==
  ASSUME IInv, NEW c \in Clients, TakeRedirect(c)
  PROVE  IInv'
<1> USE DEF IInv
<1>1. /\ pc[c] = "redirlock" /\ redir[c] \in Locks /\ owner[redir[c]] = None
      /\ Own(c) # req[c].name
  BY DEF TakeRedirect, TypeOK, LocksGuard, HeldByPc
<1>2. /\ owner' = [owner EXCEPT ![redir[c]] = c]
      /\ pc' = [pc EXCEPT ![c] = "look"]
      /\ UNCHANGED <<hostVars, config, req, tgt, saw, result, lockmap, mine, redir, intact>>
  BY DEF TakeRedirect, Goto
<1>3. HostTypeOK' BY <1>2 DEF TypeOK, HostTypeOK, hostVars
<1>4. ControlTypeOK' BY <1>1, <1>2 DEF TypeOK, ControlTypeOK, Steps, Acting, UnmountSteps
<1>5. HeldByMap' BY <1>2 DEF LocksGuard, HeldByMap, Own
<1>6. HeldByPc'
  BY <1>1, <1>2, LocksAssumption, ClientsAssumption
     DEF LocksGuard, HeldByPc, Guard, Own, TypeOK, Acting, MountSteps, UnmountSteps
<1>7. MountsAreConfigured' BY <1>2 DEF MountsAreConfigured, Configured, TypeOK
<1> QED BY <1>3, <1>4, <1>5, <1>6, <1>7, InductiveParts DEF LocksGuard

\* Two references to a mutex are the map's and the request's own: nobody is queued on it.
LEMMA OnlyUser ==
  ASSUME TypeOK, LocksGuard, NEW c \in Clients, mine[c] # None, StrongCount(mine[c]) = 2,
         NEW d \in Clients \ {c}
  PROVE  mine[d] # mine[c] /\ redir[d] # mine[c]
<1> DEFINE l == mine[c]
           A == { n \in Names : lockmap[n] = l }
           B == { e \in Clients : mine[e] = l }
           C == { e \in Clients : redir[e] = l }
<1> HIDE DEF l
<1>1. IsFiniteSet(A) /\ IsFiniteSet(B) /\ IsFiniteSet(C)
  <2>1. A \in SUBSET Names /\ B \in SUBSET Clients /\ C \in SUBSET Clients OBVIOUS
  <2> QED BY <2>1, FS_Subset, NamesAssumption, ClientsAssumption
<1>2. Cardinality(A) \in Nat /\ Cardinality(B) \in Nat /\ Cardinality(C) \in Nat
  BY <1>1, FS_CardinalityType
<1>3. req[c].name \in A
  BY DEF l, LocksGuard, HeldByMap, TypeOK, Requests
<1>4. c \in B BY DEF l
<1>5. Cardinality(A) # 0 BY <1>1, <1>3, FS_EmptySet
<1>6. Cardinality(B) # 0 BY <1>1, <1>4, FS_EmptySet
<1>7. Cardinality(A) + Cardinality(B) + Cardinality(C) = 2
  BY DEF StrongCount, l
<1>8. Cardinality(B) = 1 /\ Cardinality(C) = 0
  BY <1>2, <1>5, <1>6, <1>7
<1>9. C = {} BY <1>1, <1>8, FS_EmptySet
<1>10. PICK x : B = {x} BY <1>1, <1>8, FS_Singleton
<1>11. mine[d] # l BY <1>4, <1>10
<1>12. redir[d] # l BY <1>9
<1> QED BY <1>11, <1>12 DEF l

LEMMA UnknownNameInductive ==
  ASSUME IInv, NEW c \in Clients, NEW unread, UnknownName(c, unread)
  PROVE  IInv'
<1> USE DEF IInv
<1>1. /\ pc[c] = "target" /\ Finish(c, "unknown") /\ UNCHANGED hostVars
      /\ lockmap' = IF StrongCount(mine[c]) = 2 THEN [lockmap EXCEPT ![req[c].name] = None]
                                                ELSE lockmap
  BY DEF UnknownName
<1>2. mine[c] # None BY <1>1 DEF LocksGuard, HeldByPc
<1>3. lockmap' \in [Names -> Locks \cup {None}] BY <1>1 DEF TypeOK
<1>4. "unknown" \in Results BY DEF Results
<1>5. HostTypeOK' BY <1>1 DEF TypeOK, HostTypeOK, hostVars
<1>6. ControlTypeOK' BY <1>1, <1>3, <1>4, FinishType
<1>7. ASSUME NEW d \in Clients \ {c}
      PROVE  /\ mine[d] # None => lockmap'[req[d].name] = mine[d]
             /\ redir[d] # None => lockmap'[Own(d)] = redir[d]
  <2>1. /\ mine[d] # None => lockmap[req[d].name] = mine[d]
        /\ redir[d] # None => lockmap[Own(d)] = redir[d]
        /\ lockmap[req[c].name] = mine[c]
    BY <1>2 DEF LocksGuard, HeldByMap
  <2>2. CASE StrongCount(mine[c]) = 2
    <3>1. mine[d] # mine[c] /\ redir[d] # mine[c] BY <1>2, <2>2, OnlyUser
    <3> QED BY <1>1, <2>1, <2>2, <3>1 DEF TypeOK
  <2> QED BY <1>1, <2>1, <2>2
<1>8. LocksGuard' BY <1>1, <1>7, FinishGuard
<1>9. MountsAreConfigured' BY <1>1 DEF Finish, Goto, MountsAreConfigured, Configured, TypeOK
<1> QED BY <1>5, <1>6, <1>8, <1>9, InductiveParts

LEMMA CallFailsShape ==
  ASSUME TypeOK, NEW c \in Clients, CallFails(c) \/ RedirectTimesOut(c)
  PROVE  Shape(c)
<1>1. "failed" \in Results /\ "busy" \in Results BY DEF Results
<1>2. pc[c] # "idle" BY DEF CallFails, CallsSystemd, RedirectTimesOut
<1> QED BY <1>1, <1>2, AnswerShape DEF CallFails, RedirectTimesOut

\* What happens outside reaches a request only through the host.
LEMMA OutsideInductive ==
  ASSUME IInv, HostTypeOK', Outside
  PROVE  IInv'
<1> USE DEF IInv
<1>1. intact' \in [Clients -> BOOLEAN] BY TrackType DEF Outside
<1>2. ControlTypeOK' BY <1>1 DEF Outside, TypeOK, ControlTypeOK, lockVars
<1>3. LocksGuard' BY DEF Outside, LocksGuard, HeldByMap, HeldByPc, Guard, Own, lockVars
<1>4. MountsAreConfigured' BY DEF Outside, MountsAreConfigured, Configured
<1> QED BY <1>2, <1>3, <1>4, InductiveParts

-----------------------------------------------------------------------------

LEMMA InitInv == Init => IInv
<1> SUFFICES ASSUME Init PROVE IInv OBVIOUS
<1>1. TypeOK BY Blanks DEF Init, TypeOK, Steps, Results
<1>2. LocksGuard
  BY ClientsAssumption, Blanks
     DEF Init, LocksGuard, HeldByMap, HeldByPc, Acting, MountSteps, UnmountSteps
<1>3. MountsAreConfigured BY DEF Init, MountsAreConfigured
<1> QED BY <1>1, <1>2, <1>3 DEF IInv

LEMMA OperationInductive ==
  ASSUME IInv, NEW c \in Clients, Operation(c)
  PROVE  IInv'
<1>0. TypeOK BY DEF IInv
<1>1. CASE MountStep(c) BY <1>0, <1>1, MountShape, ShapeInductive
<1>2. CASE UnmountStep(c)
  <2>1. CASE \E unread \in Unreadables : UnknownName(c, unread)
    BY <2>1, UnknownNameInductive
  <2>2. CASE \E unread \in Unreadables : FindTarget(c, unread)
    BY <2>2, FindTargetInductive
  <2>3. CASE LookUpRedirect(c) BY <2>3, LookUpRedirectInductive
  <2>4. CASE RedirectTimesOut(c) BY <1>0, <2>4, CallFailsShape, ShapeInductive
  <2>5. CASE \/ LookAtPoint(c) \/ LookAtUnit(c)
             \/ (\E unread \in Unreadables : CheckSource(c, unread))
             \/ AskKernel(c) \/ KernelRefuses(c) \/ StopUnit(c) \/ AwaitGone(c)
             \/ AwaitUnitGone(c) \/ Escalate(c) \/ AskAgain(c) \/ RefusedAgain(c)
             \/ Detach(c) \/ DetachFails(c) \/ Settle(c)
    BY <1>0, <2>5, UnmountShape, ShapeInductive
  <2> QED BY <1>2, <2>1, <2>2, <2>3, <2>4, <2>5 DEF UnmountStep
<1>3. CASE Lock(c) BY <1>3, TakeLockInductive, TakeRedirectInductive DEF Lock
<1>4. CASE CallFails(c) BY <1>0, <1>4, CallFailsShape, ShapeInductive
<1> QED BY <1>1, <1>2, <1>3, <1>4 DEF Operation

LEMMA NextInv == IInv /\ [Next]_vars => IInv'
<1> SUFFICES ASSUME IInv, [Next]_vars PROVE IInv' OBVIOUS
<1>0. TypeOK /\ HostTypeOK BY DEF IInv, TypeOK
<1>1. CASE \E c \in Clients : Request(c)
  BY <1>1, AskInductive, MountUnconfiguredInductive DEF Request
<1>2. CASE \E c \in Clients : Operation(c)
  BY <1>2, OperationInductive
<1>3. CASE \E n \in Names : Systemd(n)
  BY <1>0, <1>3, SystemdType, OutsideInductive DEF Systemd
<1>4. CASE \E p \in Points : Others(p)
  BY <1>0, <1>4, OthersType, OutsideInductive DEF Others
<1>5. CASE UNCHANGED vars
  BY <1>5 DEF IInv, TypeOK, HostTypeOK, LocksGuard, HeldByMap, HeldByPc, Guard, Own,
              MountsAreConfigured, Configured, vars, hostVars, opVars, lockVars
<1> QED BY <1>1, <1>2, <1>3, <1>4, <1>5 DEF Next

THEOREM Inductive == Spec => []IInv
  BY InitInv, NextInv, PTL DEF Spec

\* The state of a request, of the locks and of the host keeps its type.
THEOREM TypeCorrect == Spec => []TypeOK
<1>1. IInv => TypeOK BY DEF IInv
<1> QED BY <1>1, Inductive, PTL

\* A request owns the map's mutex of the unit it acts on, for as long as it acts.
THEOREM LocksCorrect == Spec => []LocksGuard
<1>1. IInv => LocksGuard BY DEF IInv
<1> QED BY <1>1, Inductive, PTL

\* `unmount` and `mount` never work on one unit at once, whatever names were asked for.
LEMMA GuardExcludes == IInv => UnitExclusion
<1> SUFFICES ASSUME IInv, NEW c \in Clients, NEW d \in Clients, c # d,
                    pc[c] \in Acting, pc[d] \in Acting, Own(c) = Own(d)
             PROVE  FALSE
  BY DEF UnitExclusion
<1>1. \A e \in {c, d} : Guard(e) # None /\ owner[Guard(e)] = e
  BY DEF IInv, LocksGuard, HeldByPc
<1>2. \A e \in {c, d} : Guard(e) = lockmap[Own(e)]
  BY <1>1 DEF IInv, LocksGuard, HeldByMap, Guard
<1> QED BY <1>1, <1>2

THEOREM Exclusion == Spec => []UnitExclusion
  BY Inductive, GuardExcludes, PTL

-----------------------------------------------------------------------------
(* A name a mount asks systemd for is free.                                *)

LEMMA ContinueTo ==
  ASSUME TypeOK, NEW c \in Clients, NEW s, Continue(c, s)
  PROVE  pc'[c] = s /\ UNCHANGED <<hostVars, tgt>> /\ (\A d \in Clients \ {c} : pc'[d] = pc[d])
  BY DEF TypeOK, Continue, Goto

LEMMA FinishTo ==
  ASSUME TypeOK, NEW c \in Clients, NEW r, Finish(c, r)
  PROVE  /\ pc'[c] = "idle"
         /\ \A d \in Clients \ {c} : pc'[d] = pc[d] /\ tgt'[d] = tgt[d]
  BY DEF TypeOK, Finish, Goto

\* What one operation can do to the others: it changes the unit it works on and no other.
Local(c) ==
  /\ \A d \in Clients \ {c} : pc'[d] = pc[d] /\ tgt'[d] = tgt[d]
  /\ \A n \in Names : units'[n] = units[n] \/ (n = Own(c) /\ pc[c] \in Acting)

\* And how it comes to ask for a name: over a unit that is not running.
ComesToStart(c) ==
  pc'[c] = "start" => /\ UNCHANGED <<units, tgt>>
                      /\ UnitStatus(Own(c)) \in {"Inactive", "Failed"}

LEMMA OthersUnits ==
  ASSUME TypeOK, NEW n \in Names, NEW m \in Names, n # m
  PROVE  /\ Stopped(n)[m] = units[m]
         /\ \A cleared \in ResetFailed(units, n) :
              cleared[m] = units[m] /\ \A p : Started(cleared, n, p)[m] = units[m]
  BY DEF TypeOK, HostTypeOK, Stopped, ResetFailed, Started

LEMMA OperationLocal ==
  ASSUME TypeOK, NEW c \in Clients, Operation(c)
  PROVE  Local(c) /\ ComesToStart(c)
<1> USE DEF Local, ComesToStart, hostVars, Acting, MountSteps, UnmountSteps
<1>0. Own(c) \in Names BY DEF TypeOK, Own
<1>a. \A s : Continue(c, s) /\ s # "start" => Local(c) /\ ComesToStart(c) BY ContinueTo
<1>b. \A r : Answer(c, r) => Local(c) /\ ComesToStart(c) BY FinishTo DEF Answer
<1>c. \A how, s : /\ ReleaseWorks(c, how) /\ Goto(c, s) /\ s # "start"
                  /\ UNCHANGED <<req, tgt, saw, result, lockVars>>
                  => Local(c) /\ ComesToStart(c)
  BY DEF ReleaseWorks, Goto, TypeOK
<1>d. \A r : /\ Finish(c, r) /\ units' \in ResetFailed(units, Own(c)) /\ pc[c] \in Acting
             => Local(c) /\ ComesToStart(c)
  BY <1>0, FinishTo, OthersUnits
<1>1. CASE MountStep(c)
  <2>1. CASE \E unread \in Unreadables : Moved(c, unread) BY <2>1, <1>a, <1>b DEF Moved
  <2>2. CASE \E unread \in Unreadables : FindStale(c, unread)
    BY <2>2, <1>b DEF FindStale, Goto, TypeOK
  <2>3. CASE \E unread \in Unreadables : OverLive(c, unread) BY <2>3, <1>a, <1>b DEF OverLive
  <2>4. CASE FindEmpty(c) BY <2>4, <1>a DEF FindEmpty
  <2>5. CASE FindLive(c) BY <2>5, <1>a DEF FindLive
  <2>6. CASE Clear(c) BY <2>6, <1>c DEF Clear
  <2>7. CASE ClearFails(c) BY <2>7, <1>b DEF ClearFails
  <2>8. CASE AwaitName(c)
    BY <2>8, <1>b, ContinueTo DEF AwaitName
  <2>9. CASE Begin(c)
    <3>1. UnitStatus(Own(c)) \in Statuses BY <1>0, StatusType DEF TypeOK
    <3> QED BY <2>9, <3>1, ContinueTo DEF Begin, Statuses
  <2>10. CASE Start(c)
    <3>1. \/ /\ \E cleared \in ResetFailed(units, Own(c)) :
                   units' = Started(cleared, Own(c), Point(c))
             /\ Acts(c, "ready")
          \/ units' \in ResetFailed(units, Own(c)) /\ Finish(c, "failed")
      BY <2>10 DEF Start
    <3>2. pc[c] = "start" BY <2>10 DEF Start
    <3> QED BY <1>0, <1>d, <3>1, <3>2, OthersUnits DEF Acts, Goto, TypeOK
  <2>11. CASE AwaitReady(c) BY <2>11, <1>b DEF AwaitReady
  <2> QED BY <1>1, <2>1, <2>2, <2>3, <2>4, <2>5, <2>6, <2>7, <2>8, <2>9, <2>10, <2>11 DEF MountStep
<1>2. CASE UnmountStep(c)
  <2>1. CASE \E unread \in Unreadables : UnknownName(c, unread)
    BY <2>1, FinishTo DEF UnknownName
  <2>2. CASE \E unread \in Unreadables : FindTarget(c, unread)
    BY <2>2 DEF FindTarget, Goto, TypeOK
  <2>3. CASE \E unread \in Unreadables : CheckSource(c, unread)
    BY <2>3, <1>a, <1>b DEF CheckSource
  <2>4. CASE LookUpRedirect(c) BY <2>4 DEF LookUpRedirect, Goto, TypeOK
  <2>5. CASE RedirectTimesOut(c) BY <2>5, <1>b DEF RedirectTimesOut
  <2>6. CASE LookAtPoint(c) BY <2>6 DEF LookAtPoint, Goto, TypeOK
  <2>7. CASE LookAtUnit(c) BY <2>7, <1>b DEF LookAtUnit, Goto, TypeOK
  <2>8. CASE AskKernel(c) BY <2>8, <1>c DEF AskKernel
  <2>9. CASE KernelRefuses(c) BY <2>9, <1>a, <1>b DEF KernelRefuses
  <2>10. CASE StopUnit(c) BY <1>0, <2>10, OthersUnits DEF StopUnit, Acts, Goto, TypeOK
  <2>11. CASE AwaitGone(c) BY <2>11, <1>a DEF AwaitGone
  <2>12. CASE AwaitUnitGone(c) BY <2>12, <1>b, <1>d DEF AwaitUnitGone
  <2>13. CASE Escalate(c) BY <2>13, <1>a, <1>b DEF Escalate
  <2>14. CASE AskAgain(c) BY <2>14, <1>c DEF AskAgain
  <2>15. CASE RefusedAgain(c) BY <2>15, <1>a, <1>b DEF RefusedAgain
  <2>16. CASE Detach(c) BY <2>16, <1>c DEF Detach
  <2>17. CASE DetachFails(c) BY <2>17, <1>b DEF DetachFails
  <2>18. CASE Settle(c) BY <2>18, <1>b, <1>d DEF Settle
  <2> QED BY <1>2, <2>1, <2>2, <2>3, <2>4, <2>5, <2>6, <2>7, <2>8, <2>9, <2>10, <2>11, <2>12,
             <2>13, <2>14, <2>15, <2>16, <2>17, <2>18 DEF UnmountStep
<1>3. CASE TakeLock(c) BY <1>3 DEF TakeLock, Goto, TypeOK
<1>4. CASE TakeRedirect(c) BY <1>4 DEF TakeRedirect, Goto, TypeOK
<1>5. CASE CallFails(c) BY <1>5, <1>b DEF CallFails
<1> QED BY <1>1, <1>2, <1>3, <1>4, <1>5 DEF Operation, Lock

\* Nothing but this service starts a unit that is not loaded, or one that failed.
LEMMA NobodyElseStarts ==
  ASSUME TypeOK, NEW n \in Names, NEW m \in Names, Systemd(n),
         units[m].phase \in {"inactive", "failed"}
  PROVE  units'[m].phase \in {"inactive", "failed"}
  BY DEF TypeOK, HostTypeOK, Systemd, Exec, Serve, StartFails, Restarts, ExitReleased,
         StopUnmounts, StopExits, Crash, Abort, StopByHand, Stopped, NoUnit

LEMMA StartStep ==
  ASSUME IInv, StartFindsNameFree, [Next]_vars
  PROVE  StartFindsNameFree'
<1> SUFFICES ASSUME NEW c \in Clients, pc'[c] = "start"
             PROVE  units'[tgt'[c].unit].phase \in {"inactive", "failed"}
  BY DEF StartFindsNameFree, Own
<1>0. TypeOK /\ Own(c) \in Names BY DEF IInv, TypeOK, Own
<1>1. pc[c] = "start" => units[Own(c)].phase \in {"inactive", "failed"}
  BY DEF StartFindsNameFree
<1>2. CASE Operation(c)
  <2>1. UNCHANGED <<units, tgt>> /\ UnitStatus(Own(c)) \in {"Inactive", "Failed"}
    BY <1>0, <1>2, OperationLocal DEF ComesToStart
  <2>2. units[Own(c)].phase \in {"inactive", "failed"}
    BY <1>0, <2>1 DEF UnitStatus, TypeOK, HostTypeOK, Unit, Phases
  <2> QED BY <2>1, <2>2 DEF Own
<1>3. ASSUME NEW d \in Clients \ {c}, Operation(d)
      PROVE  units'[tgt'[c].unit].phase \in {"inactive", "failed"}
  <2>1. pc[c] = "start" /\ tgt'[c] = tgt[c]
        /\ (units'[Own(c)] = units[Own(c)] \/ (Own(c) = Own(d) /\ pc[d] \in Acting))
    BY <1>0, <1>3, OperationLocal DEF Local
  <2>2. ~(Own(c) = Own(d) /\ pc[d] \in Acting)
    BY <2>1, GuardExcludes DEF UnitExclusion, Acting, MountSteps
  <2> QED BY <1>1, <2>1, <2>2 DEF Own
<1>4. CASE \E d \in Clients : Request(d)
  <2>1. pc[c] = "start" /\ UNCHANGED <<units, tgt>>
    BY <1>0, <1>4 DEF Request, Ask, MountUnconfigured, Goto, TypeOK, hostVars
  <2> QED BY <1>1, <2>1 DEF Own
<1>5. CASE \E n \in Names : Systemd(n)
  <2>1. pc[c] = "start" /\ UNCHANGED tgt BY <1>5 DEF Systemd, Outside
  <2> QED BY <1>0, <1>1, <1>5, <2>1, NobodyElseStarts DEF Own
<1>6. CASE \E p \in Points : Others(p)
  <2>1. pc[c] = "start" /\ UNCHANGED <<tgt, units>>
    BY <1>6 DEF Others, Outside, ForeignMounts, ForeignDies, ReleasedByHand, Hold, LetGo
  <2> QED BY <1>1, <2>1 DEF Own
<1>7. CASE UNCHANGED vars
  BY <1>1, <1>7 DEF vars, hostVars, opVars, Own
<1> QED BY <1>2, <1>3, <1>4, <1>5, <1>6, <1>7 DEF Next

\* mount removes the rc socket, and asks systemd for the name, only when no rclone of that
\* unit runs: whoever else could start or stop it is kept out by the unit's lock.
THEOREM StartSafe == Spec => []StartFindsNameFree
<1>1. Init => StartFindsNameFree BY DEF Init, StartFindsNameFree
<1>2. IInv /\ StartFindsNameFree /\ [Next]_vars => StartFindsNameFree' BY StartStep
<1> QED BY <1>1, <1>2, Inductive, PTL DEF Spec

(***************************************************************************)
(* What unmount and mount stop and release is what they looked at, and     *)
(* what a sweep reports is true of the host it read.                       *)
(*                                                                         *)
(* A live mount of ours is always served by the unit whose argv names its  *)
(* point (ServedByUnits).  On top of it every request keeps, from one      *)
(* await to the next, what it has established about its target (At): a     *)
(* step of its own brings it to a point where more is known, and a step of *)
(* anybody else either leaves that alone or is remembered by `intact`.     *)
(***************************************************************************)
\* Where an unmount has found its target.
Found == UnmountSteps \cup {"redirect", "redirlock"}

\* Nothing but its point is served by the unit c acts on.
Alone(c) == \A p \in Points : p # Point(c) => table[p].by # Own(c)

\* What holds of c's request where it awaits s.
At(c, s) ==
  /\ s \in MountSteps => req[c].op = "mount"
  /\ s \in Found \cup {"target"} => req[c].op = "unmount"
  /\ s \in Found \cup MountSteps => Point(c) \in Points
  /\ s \in Found /\ intact[c] => Contested(Own(c)) \/ Alone(c)
  /\ s = "status" /\ ~saw[c].live /\ intact[c] => ~IsMountedAt(Point(c))
  /\ s \in {"source", "release"} => saw[c].live
  /\ s = "stop" /\ intact[c] /\ (~Forced(c) \/ ~saw[c].live) => ~IsMountedAt(Point(c))
  /\ s = "unitgone" /\ intact[c] => ~IsMountedAt(Point(c))
  /\ /\ s \in {"release", "stop", "gone", "escalate", "again"} /\ ~Forced(c) /\ intact[c]
     /\ table[Point(c)].by = Foreign /\ ~table[Point(c)].spec
     => ServingStatus(saw[c].status)
  /\ s = "clear" /\ intact[c] => table[Point(c)].by \in {Dead, NoOne}

Kept == \A c \in Clients : At(c, pc[c])

RInv == IInv /\ ServedByUnits /\ Kept

-----------------------------------------------------------------------------
(* Live mounts of ours are served by the units whose argv names them.      *)

\* What the operations do to the host.
Effect(c) ==
  \/ UNCHANGED hostVars
  \/ table' = Unmounted(Point(c)) /\ UNCHANGED units
  \/ units' = Stopped(Own(c)) /\ UNCHANGED table
  \/ units' \in ResetFailed(units, Own(c)) /\ UNCHANGED table
  \/ /\ pc[c] = "start"
     /\ \E cleared \in ResetFailed(units, Own(c)) :
          CanStart(cleared, Own(c)) /\ units' = Started(cleared, Own(c), Point(c))
     /\ UNCHANGED table

\* A mount never changes its source under the same server.
SourceStays == \A p \in Points : table'[p].by = table[p].by => table'[p].spec = table[p].spec

\* No mount appears that we serve, and a unit that serves one keeps its argv and runs on.
NothingServed ==
  /\ \A q \in Points :
       \/ table'[q] = table[q]
       \/ table'[q] = Empty
       \/ /\ table'[q].by = table[q].by /\ table'[q].spec = table[q].spec
          /\ table'[q].by # NoOne
       \/ table'[q].by \in {Foreign, Dead} /\ table[q].by # table'[q].by
  /\ \A n \in Names :
       \/ units'[n] = units[n]
       \/ /\ units'[n].argv = units[n].argv
          /\ units[n].phase # "inactive" /\ units'[n].phase \in {"up", "stopping"}
       \/ /\ (units'[n].phase = "inactive") <=> (units'[n].argv = NoPoint)
          /\ \A q \in Points : table'[q].by # n

LEMMA NothingServedKeeps ==
  ASSUME HostTypeOK, ServedByUnits, NothingServed
  PROVE  ServedByUnits' /\ SourceStays
<1> USE MarkersAssumption DEF NothingServed, ServedByUnits
<1>0. Empty.by = NoOne /\ Empty.spec = TRUE BY DEF Empty
<1>1. SourceStays BY <1>0 DEF SourceStays
<1>2. ASSUME NEW q \in Points, table'[q].by \in Names
      PROVE  /\ units'[table'[q].by].phase \in {"up", "stopping"}
             /\ units'[table'[q].by].argv = q
  <2>1. table'[q].by = table[q].by BY <1>0, <1>2
  <2> QED BY <1>2, <2>1
<1>3. ASSUME NEW q \in Points, table'[q].by = NoOne
      PROVE  table'[q] = Empty
  BY <1>3
<1>4. ASSUME NEW n \in Names
      PROVE  (units'[n].phase = "inactive") <=> (units'[n].argv = NoPoint)
  BY <1>4
<1> QED BY <1>1, <1>2, <1>3, <1>4

\* What the host's helpers do, place by place and unit by unit.
LEMMA TableAt ==
  ASSUME HostTypeOK, NEW p, NEW n, NEW q \in Points
  PROVE  /\ Unmounted(p)[q] = IF q = p THEN Empty ELSE table[q]
         /\ table[q].by # n => LeftBehind(n)[q] = table[q]
         /\ table[q].by = n => /\ LeftBehind(n)[q].by = Dead
                               /\ LeftBehind(n)[q].spec = table[q].spec
  BY DEF HostTypeOK, Unmounted, LeftBehind, Entry

LEMMA PhaseAt ==
  ASSUME HostTypeOK, NEW n \in Names, NEW ph, NEW m \in Names
  PROVE  /\ [units EXCEPT ![n].phase = ph][m].argv = units[m].argv
         /\ [units EXCEPT ![n].phase = ph][m].phase = IF m = n THEN ph ELSE units[m].phase
         /\ m # n => [units EXCEPT ![n].phase = ph][m] = units[m]
  BY DEF HostTypeOK, Unit

LEMMA ForgottenAt ==
  ASSUME HostTypeOK, NEW n \in Names
  PROVE  /\ [units EXCEPT ![n] = NoUnit][n] = NoUnit
         /\ \A m \in Names \ {n} : [units EXCEPT ![n] = NoUnit][m] = units[m]
  BY DEF HostTypeOK

\* A unit that is down serves nothing.
LEMMA DownServesNothing ==
  ASSUME HostTypeOK, ServedByUnits, NEW n \in Names, units[n].phase \notin {"up", "stopping"}
  PROVE  \A q \in Points : table[q].by # n
  BY DEF ServedByUnits

LEMMA StoppedServed ==
  ASSUME HostTypeOK, ServedByUnits, NEW n \in Names,
         units' = Stopped(n), table' = table
  PROVE  ServedByUnits' /\ SourceStays
<1>0. NoUnit.phase = "inactive" /\ NoUnit.argv = NoPoint BY DEF NoUnit
<1>1. ASSUME NEW m \in Names
      PROVE  \/ units'[m] = units[m]
             \/ /\ units'[m].argv = units[m].argv
                /\ units[m].phase # "inactive" /\ units'[m].phase \in {"up", "stopping"}
             \/ /\ (units'[m].phase = "inactive") <=> (units'[m].argv = NoPoint)
                /\ \A q \in Points : table'[q].by # m
  <2>1. CASE units[n].phase = "activating"
    <3>1. units' = [units EXCEPT ![n] = NoUnit] BY <2>1 DEF Stopped
    <3>2. \A q \in Points : table'[q].by # n BY <2>1, DownServesNothing
    <3> QED BY <1>0, <3>1, <3>2, ForgottenAt
  <2>2. CASE units[n].phase \in {"starting", "up"}
    <3>1. units' = [units EXCEPT ![n].phase = "stopping"] BY <2>2 DEF Stopped
    <3> QED BY <2>2, <3>1, PhaseAt
  <2>3. CASE units[n].phase \notin {"activating", "starting", "up"}
    BY <2>3 DEF Stopped
  <2> QED BY <2>1, <2>2, <2>3
<1> QED BY <1>1, NothingServedKeeps DEF NothingServed

LEMMA UnmountedServed ==
  ASSUME HostTypeOK, ServedByUnits, NEW p, table' = Unmounted(p), units' = units
  PROVE  ServedByUnits' /\ SourceStays
  BY TableAt, NothingServedKeeps DEF NothingServed

\* What changes one unit that serves nothing.
LEMMA IdleUnitServed ==
  ASSUME HostTypeOK, ServedByUnits, NEW n \in Names, units[n].phase \notin {"up", "stopping"},
         \A m \in Names \ {n} : units'[m] = units[m],
         (units'[n].phase = "inactive") <=> (units'[n].argv = NoPoint), table' = table
  PROVE  ServedByUnits' /\ SourceStays
  BY DownServesNothing, NothingServedKeeps DEF NothingServed

LEMMA EffectServed ==
  ASSUME TypeOK, ServedByUnits, NEW c \in Clients, Effect(c),
         pc[c] = "start" => Point(c) \in Points
  PROVE  ServedByUnits' /\ SourceStays
<1> DEFINE n == Own(c)
<1>0. HostTypeOK /\ n \in Names BY DEF TypeOK, Own
<1>1. CASE UNCHANGED hostVars BY <1>0, <1>1, NothingServedKeeps DEF hostVars, NothingServed
<1>2. CASE table' = Unmounted(Point(c)) /\ UNCHANGED units BY <1>0, <1>2, UnmountedServed
<1>3. CASE units' = Stopped(n) /\ UNCHANGED table BY <1>0, <1>3, StoppedServed
<1>4. CASE units' \in ResetFailed(units, n) /\ UNCHANGED table
  <2>1. CASE units' = [units EXCEPT ![n] = NoUnit]
    <3>2. NoUnit.phase = "inactive" /\ NoUnit.argv = NoPoint BY DEF NoUnit
    <3>3. units[n].phase = "failed" \/ UNCHANGED units BY <1>4 DEF ResetFailed
    <3> QED BY <1>0, <1>4, <2>1, <3>2, <3>3, ForgottenAt, IdleUnitServed, NothingServedKeeps
            DEF NothingServed
  <2>2. CASE UNCHANGED units
    BY <1>0, <1>4, <2>2, NothingServedKeeps DEF NothingServed
  <2> QED BY <1>4, <2>1, <2>2 DEF ResetFailed
<1>5. CASE /\ pc[c] = "start"
           /\ \E cleared \in ResetFailed(units, n) :
                CanStart(cleared, n) /\ units' = Started(cleared, n, Point(c))
           /\ UNCHANGED table
  <2>1. units[n].phase \in {"inactive", "failed"}
    BY <1>0, <1>5 DEF HostTypeOK, ResetFailed, CanStart, Unit
  <2>2. /\ \A m \in Names \ {n} : units'[m] = units[m]
        /\ units'[n].phase = "activating" /\ units'[n].argv = Point(c)
    BY <1>0, <1>5 DEF HostTypeOK, ResetFailed, Started, Unit
  <2> QED BY <1>0, <1>5, <2>1, <2>2, IdleUnitServed, MarkersAssumption
<1> QED BY <1>1, <1>2, <1>3, <1>4, <1>5 DEF Effect

LEMMA SystemdServed ==
  ASSUME HostTypeOK, ServedByUnits, NEW n \in Names,
         \/ Exec(n) \/ Serve(n) \/ StartFails(n) \/ ExitReleased(n) \/ StopUnmounts(n)
         \/ StopExits(n) \/ Crash(n) \/ Abort(n) \/ StopByHand(n)
  PROVE  ServedByUnits' /\ SourceStays
<1>0. NoUnit.phase = "inactive" /\ NoUnit.argv = NoPoint BY DEF NoUnit
<1>a. units[n].phase # "inactive" => units[n].argv # NoPoint /\ units[n].argv \in Points
  BY DEF ServedByUnits, HostTypeOK, Unit
<1>1. CASE Exec(n)
  <2>1. table' = table \/ \E p \in Points : table' = Unmounted(p)
    BY <1>1 DEF Exec, ClearStale
  <2>2. \A q \in Points : table'[q] \in {table[q], Empty} BY <2>1, TableAt
  <2>3. \A q \in Points : table[q].by # n BY <1>1, DownServesNothing DEF Exec
  <2>4. \A q \in Points : table'[q].by # n BY <2>2, <2>3, MarkersAssumption DEF Empty
  <2> QED BY <1>1, <1>a, <2>2, <2>4, PhaseAt, NothingServedKeeps DEF Exec, NothingServed
<1>2. CASE Serve(n)
  <2>1. PICK s \in Sources :
          table' = [table EXCEPT ![units[n].argv] = [by |-> n, spec |-> s, held |-> FALSE]]
    BY <1>2 DEF Serve
  <2>2. /\ units[n].argv \in Points /\ table[units[n].argv].by = NoOne
        /\ units' = [units EXCEPT ![n].phase = "up"]
    BY <1>2, <1>a DEF Serve, IsMountedAt
  <2>3. /\ \A q \in Points : q # units[n].argv => table'[q] = table[q]
        /\ table'[units[n].argv].by = n
    BY <2>1, <2>2 DEF HostTypeOK
  <2>4. \A q \in Points : table[q].by # n BY <1>2, DownServesNothing DEF Serve
  <2>5. SourceStays BY <2>2, <2>3, MarkersAssumption DEF SourceStays
  <2>6. ASSUME NEW q \in Points
        PROVE  /\ table'[q].by \in Names => /\ units'[table'[q].by].phase \in {"up", "stopping"}
                                            /\ units'[table'[q].by].argv = q
               /\ table'[q].by = NoOne => table'[q] = Empty
    <3>0. units'[n].phase = "up" /\ units'[n].argv = units[n].argv BY <2>2, <1>2 DEF HostTypeOK, Unit, Serve
    <3>1. CASE q = units[n].argv BY <3>0, <2>2, <2>3, <3>1, PhaseAt, MarkersAssumption
    <3>2. CASE q # units[n].argv BY <2>2, <2>3, <2>4, <3>2, PhaseAt DEF ServedByUnits
    <3> QED BY <3>1, <3>2
  <2>7. ASSUME NEW m \in Names
        PROVE  (units'[m].phase = "inactive") <=> (units'[m].argv = NoPoint)
    BY <1>2, <1>a, <2>2, PhaseAt DEF ServedByUnits, Serve
  <2> QED BY <2>5, <2>6, <2>7 DEF ServedByUnits
<1>3. CASE StartFails(n)
  BY <1>3, <1>a, PhaseAt, IdleUnitServed DEF StartFails, Restarts
<1>4. CASE ExitReleased(n)
  BY <1>0, <1>4, ForgottenAt, NothingServedKeeps DEF ExitReleased, NothingServed
<1>5. CASE StopUnmounts(n) BY <1>5, UnmountedServed DEF StopUnmounts
<1>6. CASE StopExits(n)
  <2>1. \A q \in Points : \/ table'[q] = table[q] /\ table[q].by # n
                          \/ table'[q].by = Dead /\ table[q].by = n
    BY <1>6, TableAt DEF StopExits
  <2>2. \A q \in Points : table'[q].by # n BY <2>1, MarkersAssumption
  <2>3. CASE units' = [units EXCEPT ![n] = NoUnit]
    <3>1. units'[n].phase = "inactive" /\ units'[n].argv = NoPoint BY <1>0, <2>3, ForgottenAt
    <3>2. \A m \in Names \ {n} : units'[m] = units[m] BY <2>3, ForgottenAt
    <3> QED BY <2>1, <2>2, <3>1, <3>2, NothingServedKeeps, MarkersAssumption DEF NothingServed
  <2>4. CASE units' = [units EXCEPT ![n].phase = "failed"]
    <3>1. units'[n].phase = "failed" /\ units'[n].argv # NoPoint
      BY <1>6, <1>a, <2>4, HostTypeOK DEF HostTypeOK, Unit, StopExits
    <3>2. \A m \in Names \ {n} : units'[m] = units[m] BY <2>4, PhaseAt
    <3> QED BY <2>1, <2>2, <3>1, <3>2, NothingServedKeeps, MarkersAssumption DEF NothingServed
  <2> QED BY <1>6, <2>3, <2>4 DEF StopExits
<1>7. CASE Crash(n)
  <2>1. \A q \in Points : \/ table'[q] = table[q] /\ table[q].by # n
                          \/ table'[q].by = Dead /\ table[q].by = n
    BY <1>7, TableAt DEF Crash
  <2>2. \A q \in Points : table'[q].by # n BY <2>1, MarkersAssumption
  <2>3. \A m \in Names \ {n} : units'[m] = units[m] BY <1>7, PhaseAt DEF Crash, Restarts
  <2>4. (units'[n].phase = "inactive") <=> (units'[n].argv = NoPoint)
    BY <1>7, <1>a, PhaseAt DEF Crash, Restarts
  <2> QED BY <2>1, <2>2, <2>3, <2>4, NothingServedKeeps, MarkersAssumption DEF NothingServed
<1>8. CASE Abort(n)
  <2>1. \A q \in Points : \/ table'[q] = table[q]
                          \/ table'[q].by = Dead /\ table[q].by = n
    BY <1>8, TableAt DEF Abort
  <2> QED BY <1>8, <2>1, NothingServedKeeps, MarkersAssumption DEF Abort, NothingServed
<1>9. CASE StopByHand(n) BY <1>9, StoppedServed DEF StopByHand
<1> QED BY <1>1, <1>2, <1>3, <1>4, <1>5, <1>6, <1>7, <1>8, <1>9

LEMMA OthersServed ==
  ASSUME HostTypeOK, ServedByUnits, NEW p \in Points,
         ForeignMounts(p) \/ ForeignDies(p) \/ ReleasedByHand(p) \/ Hold(p) \/ LetGo(p)
  PROVE  ServedByUnits' /\ SourceStays
<1> USE MarkersAssumption, NothingServedKeeps DEF NothingServed
<1>1. CASE ForeignMounts(p) BY <1>1 DEF ForeignMounts, IsMountedAt, HostTypeOK
<1>2. CASE ForeignDies(p) BY <1>2 DEF ForeignDies, HostTypeOK, Entry
<1>3. CASE ReleasedByHand(p) BY <1>3, UnmountedServed DEF ReleasedByHand
<1>4. CASE Hold(p) BY <1>4 DEF Hold, IsMountedAt, HostTypeOK, Entry
<1>5. CASE LetGo(p)
  <2>1. table[p].by # NoOne BY <1>5 DEF LetGo, ServedByUnits, Empty
  <2> QED BY <1>5, <2>1 DEF LetGo, HostTypeOK, Entry
<1> QED BY <1>1, <1>2, <1>3, <1>4, <1>5

-----------------------------------------------------------------------------
(* What a step of anybody else leaves of c's request.                      *)

Elsewhere(c) ==
  /\ pc'[c] = pc[c] /\ req'[c] = req[c] /\ tgt'[c] = tgt[c] /\ saw'[c] = saw[c]
  /\ intact'[c] => intact[c] /\ Undisturbed(tgt[c])

\* What was alone at its point stays so, and what is not shared stays unshared or is down.
LEMMA UndisturbedAlone ==
  ASSUME TypeOK, ServedByUnits', NEW c \in Clients, tgt'[c] = tgt[c], Undisturbed(tgt[c]),
         Contested(Own(c)) \/ Alone(c)
  PROVE  Contested(Own(c))' \/ Alone(c)'
<1>0. Own(c) \in Names /\ tgt[c].unit = Own(c) /\ Own(c)' = Own(c) /\ Point(c)' = Point(c)
  BY DEF TypeOK, Own, Point
<1>1. /\ \A p \in Points : table'[p].by = Own(c) => table[p].by = Own(c)
      /\ \A n \in Names : (units'[n].argv = units'[Own(c)].argv)
                             = (units[n].argv = units[Own(c)].argv)
  BY <1>0 DEF Undisturbed
<1>2. CASE Alone(c) BY <1>0, <1>1, <1>2 DEF Alone
<1>3. CASE Contested(Own(c)) /\ units'[Own(c)].argv # NoPoint
  BY <1>0, <1>1, <1>3 DEF Contested
<1>4. CASE units'[Own(c)].argv = NoPoint
  <2>1. units'[Own(c)].phase = "inactive" BY <1>0, <1>4 DEF ServedByUnits
  <2>2. \A p \in Points : table'[p].by # Own(c) BY <1>0, <2>1 DEF ServedByUnits
  <2> QED BY <1>0, <2>2 DEF Alone
<1> QED BY <1>2, <1>3, <1>4

LEMMA ElsewhereKeeps ==
  ASSUME TypeOK, ServedByUnits', SourceStays, NEW c \in Clients, Elsewhere(c), At(c, pc[c])
  PROVE  At(c, pc[c])'
<1>1. /\ pc'[c] = pc[c] /\ req'[c] = req[c] /\ tgt'[c] = tgt[c] /\ saw'[c] = saw[c]
      /\ Point(c)' = Point(c) /\ Own(c)' = Own(c) /\ Forced(c)' = Forced(c)
  BY DEF Elsewhere, Point, Own, Forced
<1>2. intact'[c] => intact[c] /\ Undisturbed(tgt[c]) BY DEF Elsewhere
<1>3. intact'[c] /\ Point(c) \in Points =>
        \/ table'[Point(c)].by \in {table[Point(c)].by, NoOne}
        \/ table[Point(c)].by \in Names /\ table'[Point(c)].by = Dead
  BY <1>2 DEF Undisturbed, Leftover, Point, TypeOK
<1>4. intact'[c] /\ (Contested(Own(c)) \/ Alone(c)) => Contested(Own(c))' \/ Alone(c)'
  BY <1>1, <1>2, UndisturbedAlone
<1>5. table'[Point(c)].by = table[Point(c)].by /\ Point(c) \in Points =>
        table'[Point(c)].spec = table[Point(c)].spec
  BY DEF SourceStays
<1>6. pc[c] \in Found \cup MountSteps => Point(c) \in Points BY DEF At
<1> QED BY <1>1, <1>2, <1>3, <1>4, <1>5, <1>6, MarkersAssumption
        DEF At, IsMountedAt, Found, MountSteps, UnmountSteps

LEMMA QuietUndisturbed ==
  ASSUME UNCHANGED hostVars, NEW t
  PROVE  Undisturbed(t)
  BY DEF Undisturbed, hostVars

\* Every step of d's request changes the host as Effect says, and is tracked for the others.
Tracked(d) ==
  /\ Effect(d)
  /\ \A c \in Clients \ {d} : Elsewhere(c)

LEMMA ContinueTracked ==
  ASSUME TypeOK, NEW d \in Clients, NEW s, Continue(d, s)
  PROVE  Tracked(d)
  BY QuietUndisturbed DEF TypeOK, Continue, Goto, Tracked, Effect, Elsewhere

LEMMA FinishTracked ==
  ASSUME TypeOK, NEW d \in Clients, NEW r, Finish(d, r), Effect(d)
  PROVE  Tracked(d)
  BY DEF TypeOK, Finish, Goto, Tracked, Elsewhere

LEMMA AnswerTracked ==
  ASSUME TypeOK, NEW d \in Clients, NEW r, Answer(d, r)
  PROVE  Tracked(d)
  BY FinishTracked DEF Answer, Effect

LEMMA ActsTracked ==
  ASSUME TypeOK, NEW d \in Clients, NEW s, Acts(d, s), Effect(d)
  PROVE  Tracked(d)
  BY DEF TypeOK, Acts, Track, Goto, Tracked, Elsewhere

LEMMA ReleaseTracked ==
  ASSUME TypeOK, NEW d \in Clients, NEW s, NEW how, ReleaseWorks(d, how), Goto(d, s),
         UNCHANGED <<req, tgt, saw, result, lockVars>>
  PROVE  Tracked(d)
  BY DEF TypeOK, ReleaseWorks, Track, Goto, Tracked, Effect, Elsewhere

\* A step that leaves the host and everything of the others alone.
LEMMA PrivateTracked ==
  ASSUME TypeOK, NEW d \in Clients, UNCHANGED hostVars,
         \A c \in Clients \ {d} : /\ pc'[c] = pc[c] /\ req'[c] = req[c] /\ tgt'[c] = tgt[c]
                                  /\ saw'[c] = saw[c] /\ intact'[c] = intact[c]
  PROVE  Tracked(d)
  BY QuietUndisturbed DEF Tracked, Effect, Elsewhere

LEMMA OperationTracked ==
  ASSUME TypeOK, NEW d \in Clients, Operation(d)
  PROVE  Tracked(d)
<1>a. \A s : Continue(d, s) => Tracked(d) BY ContinueTracked
<1>b. \A r : Answer(d, r) => Tracked(d) BY AnswerTracked
<1>c. \A how, s : /\ ReleaseWorks(d, how) /\ Goto(d, s)
                  /\ UNCHANGED <<req, tgt, saw, result, lockVars>>
                  => Tracked(d)
  BY ReleaseTracked
<1>d. \A r : /\ Finish(d, r) /\ units' \in ResetFailed(units, Own(d)) /\ UNCHANGED table
             => Tracked(d)
  BY FinishTracked DEF Effect
<1>1. CASE MountStep(d)
  <2>1. CASE \E unread \in Unreadables : Moved(d, unread) BY <2>1, <1>a, <1>b DEF Moved
  <2>2. CASE \E unread \in Unreadables : FindStale(d, unread)
    BY <2>2, <1>b, PrivateTracked DEF FindStale, Goto, TypeOK
  <2>3. CASE \E unread \in Unreadables : OverLive(d, unread) BY <2>3, <1>a, <1>b DEF OverLive
  <2>4. CASE FindEmpty(d) BY <2>4, <1>a DEF FindEmpty
  <2>5. CASE FindLive(d) BY <2>5, <1>a DEF FindLive
  <2>6. CASE Clear(d) BY <2>6, <1>c DEF Clear
  <2>7. CASE ClearFails(d) BY <2>7, <1>b DEF ClearFails
  <2>8. CASE AwaitName(d) BY <2>8, <1>a, <1>b DEF AwaitName
  <2>9. CASE Begin(d) BY <2>9, <1>a DEF Begin
  <2>10. CASE Start(d)
    <3>1. CASE /\ \E cleared \in ResetFailed(units, Own(d)) :
                    CanStart(cleared, Own(d)) /\ units' = Started(cleared, Own(d), Point(d))
               /\ Acts(d, "ready")
      <4>1. Effect(d) BY <2>10, <3>1 DEF Start, Effect, Acts
      <4> QED BY <3>1, <4>1, ActsTracked
    <3>2. CASE units' \in ResetFailed(units, Own(d)) /\ UNCHANGED table /\ Finish(d, "failed")
      BY <3>2, <1>d
    <3> QED BY <2>10, <3>1, <3>2 DEF Start
  <2>11. CASE AwaitReady(d) BY <2>11, <1>b DEF AwaitReady
  <2> QED BY <1>1, <2>1, <2>2, <2>3, <2>4, <2>5, <2>6, <2>7, <2>8, <2>9, <2>10, <2>11 DEF MountStep
<1>2. CASE UnmountStep(d)
  <2>1. CASE \E unread \in Unreadables : UnknownName(d, unread)
    BY <2>1, FinishTracked DEF UnknownName, Effect
  <2>2. CASE \E unread \in Unreadables : FindTarget(d, unread)
    BY <2>2, PrivateTracked DEF FindTarget, Goto, TypeOK
  <2>3. CASE \E unread \in Unreadables : CheckSource(d, unread)
    BY <2>3, <1>a, <1>b DEF CheckSource
  <2>4. CASE LookUpRedirect(d) BY <2>4, PrivateTracked DEF LookUpRedirect, Goto, TypeOK
  <2>5. CASE RedirectTimesOut(d) BY <2>5, <1>b DEF RedirectTimesOut
  <2>6. CASE LookAtPoint(d) BY <2>6, PrivateTracked DEF LookAtPoint, Goto, TypeOK
  <2>7. CASE LookAtUnit(d) BY <2>7, <1>b, PrivateTracked DEF LookAtUnit, Goto, TypeOK
  <2>8. CASE AskKernel(d) BY <2>8, <1>c DEF AskKernel
  <2>9. CASE KernelRefuses(d) BY <2>9, <1>a, <1>b DEF KernelRefuses
  <2>10. CASE StopUnit(d) BY <2>10, ActsTracked DEF StopUnit, Acts, Effect
  <2>11. CASE AwaitGone(d) BY <2>11, <1>a DEF AwaitGone
  <2>12. CASE AwaitUnitGone(d) BY <2>12, <1>b, <1>d DEF AwaitUnitGone
  <2>13. CASE Escalate(d) BY <2>13, <1>a, <1>b DEF Escalate
  <2>14. CASE AskAgain(d) BY <2>14, <1>c DEF AskAgain
  <2>15. CASE RefusedAgain(d) BY <2>15, <1>a, <1>b DEF RefusedAgain
  <2>16. CASE Detach(d) BY <2>16, <1>c DEF Detach
  <2>17. CASE DetachFails(d) BY <2>17, <1>b DEF DetachFails
  <2>18. CASE Settle(d) BY <2>18, <1>b, <1>d DEF Settle
  <2> QED BY <1>2, <2>1, <2>2, <2>3, <2>4, <2>5, <2>6, <2>7, <2>8, <2>9, <2>10, <2>11, <2>12,
             <2>13, <2>14, <2>15, <2>16, <2>17, <2>18 DEF UnmountStep
<1>3. CASE TakeLock(d) BY <1>3, PrivateTracked DEF TakeLock, Goto, TypeOK
<1>4. CASE TakeRedirect(d) BY <1>4, PrivateTracked DEF TakeRedirect, Goto, TypeOK
<1>5. CASE CallFails(d) BY <1>5, <1>b DEF CallFails
<1> QED BY <1>1, <1>2, <1>3, <1>4, <1>5 DEF Operation, Lock

-----------------------------------------------------------------------------
(* What a step of its own leaves of c's request.                           *)

\* Wherever a unit serves, it is where its argv says.
LEMMA ServesItsArgv ==
  ASSUME HostTypeOK, ServedByUnits, NEW n \in Names, NEW p \in Points, table[p].by = n
  PROVE  units[n].argv = p /\ units[n].phase \in {"up", "stopping"} /\ IsServing(n)
  BY DEF ServedByUnits, IsServing, ServingStatus, UnitStatus

LEMMA ServingHasArgv ==
  ASSUME HostTypeOK, ServedByUnits, NEW n \in Names, IsServing(n)
  PROVE  units[n].argv \in Points
  BY DEF HostTypeOK, ServedByUnits, Unit, IsServing, ServingStatus, UnitStatus

\* The target of an unmount serves its point and no other, if every argv was read, or shares
\* its argv with the unit the config has there.
LEMMA TargetAlone ==
  ASSUME TypeOK, ServedByUnits, NEW n \in Names, NEW unread,
         NEW t \in UnmountTargets(n, unread)
  PROVE  /\ t.unit \in Names /\ t.point \in Points
         /\ unread = {} => \/ Contested(t.unit)
                           \/ \A p \in Points : p # t.point => table[p].by # t.unit
<1>0. HostTypeOK BY DEF TypeOK
<1>1. ASSUME NEW o \in Orphans(unread), t = OrphanTarget(o)
      PROVE  /\ t.unit \in Names /\ t.point \in Points
             /\ \A p \in Points : p # t.point => table[p].by # t.unit
  <2>1. o \in Names /\ IsServing(o) /\ t.unit = o /\ t.point = units[o].argv
    BY <1>1 DEF Orphans, OrphanTarget
  <2> QED BY <1>0, <2>1, ServesItsArgv, ServingHasArgv
<1>2. ASSUME Configured(n), t = ConfigTarget(n), IsServing(n) => n \notin Orphans(unread)
      PROVE  /\ t.unit \in Names /\ t.point \in Points
             /\ unread = {} => \/ Contested(t.unit)
                               \/ \A p \in Points : p # t.point => table[p].by # t.unit
  <2>1. t.unit = n /\ t.point = config[n] /\ config[n] \in Points
    BY <1>2, ConfigsAssumption DEF ConfigTarget, Configured, TypeOK
  <2>2. ASSUME unread = {}, NEW p \in Points, p # config[n], table[p].by = n
        PROVE  Contested(n)
    <3>1. units[n].argv = p /\ IsServing(n) BY <1>0, <2>2, ServesItsArgv
    <3>2. IsMountedAt(p) BY <2>2, MarkersAssumption DEF IsMountedAt
    <3>3. ConfiguredUnitHolds(p, unread) BY <1>2, <2>2, <3>1, <3>2 DEF Orphans
    <3>4. PICK m \in DOMAIN config : config[m] = p /\ units[m].argv = p
      BY <2>2, <3>3 DEF ConfiguredUnitHolds
    <3>5. m \in Names /\ m # n BY <2>2, <3>4, ConfigsAssumption DEF TypeOK
    <3> QED BY <2>2, <3>1, <3>4, <3>5, MarkersAssumption DEF Contested
  <2> QED BY <2>1, <2>2
<1>3. OrphansAt(config[n], unread) \subseteq Orphans(unread) BY DEF OrphansAt
<1>4. \/ \E o \in Orphans(unread) : t = OrphanTarget(o)
      \/ Configured(n) /\ t = ConfigTarget(n) /\ (IsServing(n) => n \notin Orphans(unread))
  <2>1. CASE ~Configured(n) BY <2>1 DEF UnmountTargets
  <2>2. CASE Configured(n) BY <1>3, <2>2 DEF UnmountTargets
  <2> QED BY <2>1, <2>2
<1> QED BY <1>1, <1>2, <1>4

LEMMA ContinueAt ==
  ASSUME TypeOK, NEW c \in Clients, NEW s, Continue(c, s), At(c, s)
  PROVE  At(c, pc[c])'
<1>1. pc'[c] = s BY DEF TypeOK, Continue, Goto
<1>2. UNCHANGED <<units, table, req, tgt, saw, intact>> BY DEF Continue, hostVars
<1> QED BY <1>1, <1>2 DEF At, Point, Own, Forced, Contested, Alone, IsMountedAt

\* Nothing is known of a request that has ended.
LEMMA FinishAt ==
  ASSUME TypeOK, NEW c \in Clients, NEW r, Finish(c, r)
  PROVE  At(c, pc[c])'
  BY DEF TypeOK, Finish, Goto, At, Found, MountSteps, UnmountSteps

\* A point that was released holds nothing, and its unit serves no more than before.
LEMMA ReleaseAt ==
  ASSUME TypeOK, NEW c \in Clients, NEW s, NEW how, ReleaseWorks(c, how), Goto(c, s),
         UNCHANGED <<req, tgt, saw, result, lockVars>>,
         s \in MountSteps => pc[c] \in MountSteps,
         s \in Found \cup {"target"} =>
           pc[c] \in Found /\ s \notin {"target", "status", "source", "release"},
         At(c, pc[c])
  PROVE  At(c, pc[c])'
<1>1. pc'[c] = s /\ intact'[c] = intact[c] BY DEF TypeOK, Goto, ReleaseWorks, Track
<1>2. UNCHANGED <<units, req, tgt, saw>> /\ table' = Unmounted(Point(c)) BY DEF ReleaseWorks
<1>3. Point(c)' = Point(c) /\ Own(c)' = Own(c) /\ Forced(c)' = Forced(c) /\ Own(c) \in Names
  BY <1>2 DEF Point, Own, Forced, TypeOK
<1>4. Contested(Own(c))' = Contested(Own(c)) BY <1>2, <1>3 DEF Contested
<1>5. \A q \in Points : table'[q] \in {table[q], Empty} BY <1>2, TableAt DEF TypeOK
<1>6. Empty.by = NoOne /\ NoOne \notin Names BY MarkersAssumption DEF Empty
<1>7. Alone(c) => Alone(c)' BY <1>3, <1>5, <1>6 DEF Alone
<1>8. Point(c) \in Points => table'[Point(c)].by = NoOne BY <1>2, <1>6, TableAt DEF TypeOK
<1> QED BY <1>1, <1>2, <1>3, <1>4, <1>7, <1>8, MarkersAssumption
        DEF At, IsMountedAt, Found, MountSteps, UnmountSteps

LEMMA StopAt ==
  ASSUME TypeOK, ServedByUnits', NEW c \in Clients, StopUnit(c), At(c, "stop")
  PROVE  At(c, pc[c])'
<1>0. HostTypeOK /\ Own(c) \in Names BY DEF TypeOK, Own
<1>1. /\ pc'[c] = (IF saw[c].live THEN "gone" ELSE "unitgone") /\ intact'[c] = intact[c]
      /\ UNCHANGED <<table, req, tgt, saw>> /\ units' = Stopped(Own(c))
  BY DEF StopUnit, Acts, Goto, Track, TypeOK
<1>2. Point(c)' = Point(c) /\ Own(c)' = Own(c) /\ Forced(c)' = Forced(c) /\ Alone(c)' = Alone(c)
  BY <1>1 DEF Point, Own, Forced, Alone
<1>3. ASSUME Contested(Own(c))
      PROVE  Contested(Own(c))' \/ Alone(c)'
  <2>1. CASE units'[Own(c)].argv = units[Own(c)].argv
    <3>1. \A m \in Names \ {Own(c)} : units'[m] = units[m] BY <1>0, <1>1, OthersUnits
    <3> QED BY <1>2, <1>3, <2>1, <3>1 DEF Contested
  <2>2. CASE units'[Own(c)].argv # units[Own(c)].argv
    <3>1. units'[Own(c)].phase = "inactive"
      BY <1>0, <1>1, <2>2 DEF Stopped, HostTypeOK, Unit, NoUnit
    <3>2. \A p \in Points : table'[p].by # Own(c) BY <1>0, <3>1 DEF ServedByUnits
    <3> QED BY <1>2, <3>2 DEF Alone
  <2> QED BY <2>1, <2>2
<1> QED BY <1>1, <1>2, <1>3 DEF At, IsMountedAt, Found, MountSteps, UnmountSteps

LEMMA UnmountKeeps ==
  ASSUME RInv, ServedByUnits', NEW c \in Clients, UnmountStep(c)
  PROVE  At(c, pc[c])'
<1> USE DEF Found, MountSteps, UnmountSteps
<1>0. TypeOK /\ ServedByUnits /\ At(c, pc[c]) BY DEF RInv, IInv, Kept
<1>a. \A s : Continue(c, s) /\ At(c, s) => At(c, pc[c])' BY <1>0, ContinueAt
<1>b. \A r : Answer(c, r) => At(c, pc[c])' BY <1>0, FinishAt DEF Answer
<1>c. \A how, s : /\ ReleaseWorks(c, how) /\ Goto(c, s)
                  /\ UNCHANGED <<req, tgt, saw, result, lockVars>>
                  /\ pc[c] \in Found /\ s \in Found \ {"target", "status", "source", "release"}
                  => At(c, pc[c])'
  BY <1>0, ReleaseAt
<1>1. CASE \E unread \in Unreadables : UnknownName(c, unread)
  BY <1>0, <1>1, FinishAt DEF UnknownName
<1>2. CASE \E unread \in Unreadables : FindTarget(c, unread)
  <2>0. PICK unread \in Unreadables : FindTarget(c, unread) BY <1>2
  <2>1. PICK t \in UnmountTargets(req[c].name, unread) :
          /\ pc[c] = "target"
          /\ tgt' = [tgt EXCEPT ![c] = t]
          /\ Goto(c, IF t.unit # req[c].name THEN "redirect" ELSE "look")
          /\ intact' = [intact EXCEPT ![c] = (unread = {})]
          /\ UNCHANGED <<hostVars, req, saw>>
    BY <2>0 DEF FindTarget
  <2>2. /\ tgt'[c] = t /\ intact'[c] = (unread = {}) /\ pc'[c] \in {"redirect", "look"}
        /\ req'[c] = req[c] /\ UNCHANGED <<units, table>>
    BY <1>0, <2>1 DEF TypeOK, Goto, hostVars
  <2>3. Own(c)' = t.unit /\ Point(c)' = t.point BY <2>2 DEF Own, Point
  <2>4. /\ t.point \in Points
        /\ unread = {} => \/ Contested(t.unit)
                          \/ \A p \in Points : p # t.point => table[p].by # t.unit
    BY <1>0, TargetAlone DEF TypeOK, Requests
  <2>5. unread = {} => Contested(Own(c))' \/ Alone(c)'
    BY <2>2, <2>3, <2>4 DEF Contested, Alone
  <2>6. req[c].op = "unmount" BY <1>0, <2>1 DEF At
  <2> QED BY <2>2, <2>3, <2>4, <2>5, <2>6 DEF At
<1>3. CASE \E unread \in Unreadables : CheckSource(c, unread)
  <2>1. PICK unread \in Unreadables : CheckSource(c, unread) BY <1>3
  <2>2. CASE Suspect(c) /\ ~Established(c, unread) BY <1>b, <2>1, <2>2 DEF CheckSource
  <2>3. CASE ~Suspect(c) \/ Established(c, unread)
    <3>1. Continue(c, "release") /\ pc[c] = "source" BY <2>1, <2>3 DEF CheckSource
    <3>2. table[Point(c)].by = Foreign /\ ~table[Point(c)].spec /\ ~Forced(c)
            => ServingStatus(saw[c].status)
      BY <2>3, MarkersAssumption DEF Suspect, Established, IsMountedAt
    <3>3. At(c, "release") BY <1>0, <3>1, <3>2 DEF At
    <3> QED BY <1>a, <3>1, <3>3
  <2> QED BY <2>2, <2>3
<1>4. CASE LookUpRedirect(c)
  <2>1. /\ pc[c] = "redirect" /\ pc'[c] = "redirlock"
        /\ UNCHANGED <<units, table, req, tgt, saw, intact>>
    BY <1>0, <1>4 DEF LookUpRedirect, Goto, TypeOK, hostVars
  <2> QED BY <1>0, <2>1 DEF At, Point, Own, Forced, Contested, Alone, IsMountedAt
<1>5. CASE RedirectTimesOut(c) BY <1>5, <1>b DEF RedirectTimesOut
<1>6. CASE LookAtPoint(c)
  <2>1. /\ pc[c] = "look" /\ pc'[c] = "status" /\ saw'[c].live = IsMountedAt(Point(c))
        /\ UNCHANGED <<units, table, req, tgt, intact>>
    BY <1>0, <1>6 DEF LookAtPoint, Goto, TypeOK, hostVars
  <2> QED BY <1>0, <2>1 DEF At, Point, Own, Forced, Contested, Alone, IsMountedAt
<1>7. CASE LookAtUnit(c)
  <2>1. \/ \E r : Answer(c, r)
        \/ /\ saw' = [saw EXCEPT ![c].status = UnitStatus(Own(c))]
           /\ Goto(c, IF saw[c].live THEN "source" ELSE "stop")
           /\ UNCHANGED <<hostVars, req, tgt, result, lockVars, intact>>
    BY <1>7 DEF LookAtUnit
  <2>2. ASSUME saw' = [saw EXCEPT ![c].status = UnitStatus(Own(c))],
               Goto(c, IF saw[c].live THEN "source" ELSE "stop"),
               UNCHANGED <<hostVars, req, tgt, intact>>
        PROVE  At(c, pc[c])'
    <3>1. /\ pc[c] = "status" /\ pc'[c] = (IF saw[c].live THEN "source" ELSE "stop")
          /\ saw'[c].live = saw[c].live
          /\ UNCHANGED <<units, table, req, tgt, intact>>
      BY <1>0, <1>7, <2>2 DEF LookAtUnit, Goto, TypeOK, hostVars
    <3> QED BY <1>0, <3>1, MarkersAssumption
            DEF At, Point, Own, Forced, Contested, Alone, IsMountedAt
  <2> QED BY <1>b, <2>1, <2>2
<1>8. CASE AskKernel(c)
  BY <1>8, <1>c DEF AskKernel
<1>9. CASE KernelRefuses(c)
  <2>1. CASE IsMountedAt(Point(c)) /\ ~MayDetach(c) BY <1>9, <1>b, <2>1 DEF KernelRefuses
  <2>2. CASE ~IsMountedAt(Point(c)) \/ MayDetach(c)
    <3>1. PICK s \in {"stop", "escalate"} : Continue(c, s) BY <1>9, <2>2 DEF KernelRefuses
    <3>2. pc[c] = "release" BY <1>9 DEF KernelRefuses
    <3>3. At(c, s) BY <1>0, <2>2, <3>2, MarkersAssumption DEF At, MayDetach, IsMountedAt
    <3> QED BY <1>a, <3>1, <3>3
  <2> QED BY <2>1, <2>2
<1>10. CASE StopUnit(c)
  BY <1>0, <1>10, StopAt DEF StopUnit
<1>11. CASE AwaitGone(c)
  <2>1. PICK s \in {"escalate", "unitgone"} :
          Continue(c, s) /\ (s = "unitgone" => ~IsMountedAt(Point(c)))
    BY <1>11 DEF AwaitGone
  <2>2. At(c, s) BY <1>0, <1>11, <2>1 DEF At, AwaitGone
  <2> QED BY <1>a, <2>1, <2>2
<1>12. CASE AwaitUnitGone(c) BY <1>0, <1>12, <1>b, FinishAt DEF AwaitUnitGone
<1>13. CASE Escalate(c)
  <2>1. At(c, "again") BY <1>0, <1>13 DEF At, Escalate
  <2> QED BY <1>13, <1>a, <1>b, <2>1 DEF Escalate
<1>14. CASE AskAgain(c) BY <1>14, <1>c DEF AskAgain
<1>15. CASE RefusedAgain(c)
  <2>1. At(c, "detach") BY <1>0, <1>15 DEF At, RefusedAgain
  <2> QED BY <1>15, <1>a, <1>b, <2>1 DEF RefusedAgain
<1>16. CASE Detach(c) BY <1>16, <1>c DEF Detach
<1>17. CASE DetachFails(c) BY <1>17, <1>b DEF DetachFails
<1>18. CASE Settle(c) BY <1>0, <1>18, <1>b, FinishAt DEF Settle
<1> QED BY <1>1, <1>2, <1>3, <1>4, <1>5, <1>6, <1>7, <1>8, <1>9, <1>10, <1>11, <1>12, <1>13,
           <1>14, <1>15, <1>16, <1>17, <1>18 DEF UnmountStep

LEMMA MountKeeps ==
  ASSUME RInv, NEW c \in Clients, MountStep(c)
  PROVE  At(c, pc[c])'
<1> USE DEF Found, MountSteps, UnmountSteps
<1>0. TypeOK /\ ServedByUnits /\ At(c, pc[c]) BY DEF RInv, IInv, Kept
<1>a. \A s : Continue(c, s) /\ At(c, s) => At(c, pc[c])' BY <1>0, ContinueAt
<1>b. \A r : Answer(c, r) => At(c, pc[c])' BY <1>0, FinishAt DEF Answer
\* Only a point about to be cleared is more than configured.
<1>c. \A s \in MountSteps \ {"clear"} : pc[c] \in MountSteps => At(c, s)
  BY <1>0 DEF At
<1>1. CASE \E unread \in Unreadables : Moved(c, unread)
  BY <1>1, <1>a, <1>b, <1>c DEF Moved
<1>2. CASE \E unread \in Unreadables : FindStale(c, unread)
  <2>1. PICK unread \in Unreadables : FindStale(c, unread) BY <1>2
  <2>2. CASE Taken(c, unread) BY <1>b, <2>1, <2>2 DEF FindStale
  <2>3. CASE ~Taken(c, unread)
    <3>1. /\ pc[c] = "point" /\ pc'[c] = "clear" /\ table[Point(c)].by = Dead
          /\ UNCHANGED <<units, table, req, tgt, saw>>
      BY <1>0, <2>1, <2>3 DEF FindStale, IsStale, Goto, TypeOK, hostVars
    <3> QED BY <1>0, <3>1 DEF At, Point
  <2> QED BY <2>2, <2>3
<1>3. CASE \E unread \in Unreadables : OverLive(c, unread)
  BY <1>3, <1>a, <1>b, <1>c DEF OverLive
<1>4. CASE FindEmpty(c) BY <1>4, <1>a, <1>c DEF FindEmpty
<1>5. CASE FindLive(c) BY <1>5, <1>a, <1>c DEF FindLive
<1>6. CASE Clear(c) BY <1>0, <1>6, ReleaseAt DEF Clear
<1>7. CASE ClearFails(c) BY <1>7, <1>b DEF ClearFails
<1>8. CASE AwaitName(c) BY <1>8, <1>a, <1>b, <1>c DEF AwaitName
<1>9. CASE Begin(c) BY <1>9, <1>a, <1>c DEF Begin
<1>10. CASE Start(c)
  <2>1. CASE Acts(c, "ready")
    <3>1. pc[c] = "start" /\ pc'[c] = "ready" /\ UNCHANGED <<table, req, tgt>>
      BY <1>0, <1>10, <2>1 DEF Start, Acts, Goto, TypeOK
    <3> QED BY <1>0, <3>1 DEF At, Point
  <2>2. CASE Finish(c, "failed") BY <1>0, <2>2, FinishAt
  <2> QED BY <1>10, <2>1, <2>2 DEF Start
<1>11. CASE AwaitReady(c) BY <1>11, <1>b DEF AwaitReady
<1> QED BY <1>1, <1>2, <1>3, <1>4, <1>5, <1>6, <1>7, <1>8, <1>9, <1>10, <1>11 DEF MountStep

LEMMA OwnKeeps ==
  ASSUME RInv, ServedByUnits', NEW c \in Clients, Operation(c)
  PROVE  At(c, pc[c])'
<1>0. TypeOK /\ At(c, pc[c]) BY DEF RInv, IInv, Kept
<1>1. CASE TakeLock(c)
  <2>1. pc[c] = "lock" /\ UNCHANGED req BY <1>1 DEF TakeLock
  <2>2. CASE req[c].op = "mount"
    <3>1. pc'[c] = "moved" /\ tgt'[c] = ConfigTarget(req[c].name)
      BY <1>0, <1>1, <2>2 DEF TakeLock, Goto, TypeOK
    <3>2. Configured(req[c].name) BY <2>1, <2>2 DEF RInv, IInv, MountsAreConfigured
    <3>3. Point(c)' \in Points
      BY <1>0, <3>1, <3>2, ConfigsAssumption DEF Point, ConfigTarget, Configured, TypeOK
    <3> QED BY <2>1, <2>2, <3>1, <3>3 DEF At, Found, MountSteps, UnmountSteps
  <2>3. CASE req[c].op # "mount"
    <3>1. pc'[c] = "target" BY <1>0, <1>1, <2>3 DEF TakeLock, Goto, TypeOK
    <3>2. req[c].op = "unmount" BY <1>0, <2>3 DEF TypeOK, Requests
    <3> QED BY <2>1, <3>1, <3>2 DEF At, Found, MountSteps, UnmountSteps
  <2> QED BY <2>2, <2>3
<1>2. CASE TakeRedirect(c)
  <2>1. /\ pc[c] = "redirlock" /\ pc'[c] = "look"
        /\ UNCHANGED <<units, table, req, tgt, saw, intact>>
    BY <1>0, <1>2 DEF TakeRedirect, Goto, TypeOK, hostVars
  <2> QED BY <1>0, <2>1 DEF At, Point, Own, Contested, Alone, Found, MountSteps, UnmountSteps
<1>3. CASE CallFails(c) BY <1>0, <1>3, FinishAt DEF CallFails, Answer
<1> QED BY <1>1, <1>2, <1>3, MountKeeps, UnmountKeeps DEF Operation, Lock

-----------------------------------------------------------------------------

LEMMA RInit == Init => RInv
<1> SUFFICES ASSUME Init PROVE RInv OBVIOUS
<1>1. ServedByUnits BY DEF Init, HostConsistent
<1>2. Kept BY DEF Init, Kept, At, Found, MountSteps, UnmountSteps
<1> QED BY <1>1, <1>2, InitInv DEF RInv

\* Nobody's steps but a request's own bring it anywhere.
LEMMA ElsewhereKept ==
  ASSUME RInv, ServedByUnits', SourceStays, \A d \in Clients : Elsewhere(d)
  PROVE  Kept'
<1>1. ASSUME NEW d \in Clients PROVE At(d, pc[d])'
  BY ElsewhereKeeps DEF RInv, IInv, Kept
<1> QED BY <1>1 DEF Kept

LEMMA OutsideElsewhere ==
  ASSUME TypeOK, Outside
  PROVE  \A d \in Clients : Elsewhere(d)
  BY DEF TypeOK, Outside, Track, Elsewhere

LEMMA RNext == RInv /\ [Next]_vars => RInv'
<1> SUFFICES ASSUME RInv, [Next]_vars PROVE RInv' OBVIOUS
<1>0. TypeOK /\ HostTypeOK /\ ServedByUnits /\ Kept BY DEF RInv, IInv, TypeOK
<1>1. IInv' BY NextInv DEF RInv
<1>2. ASSUME NEW c \in Clients, Operation(c) PROVE ServedByUnits' /\ Kept'
  <2>1. Effect(c) /\ \A d \in Clients \ {c} : Elsewhere(d)
    BY <1>0, <1>2, OperationTracked DEF Tracked
  <2>2. pc[c] = "start" => Point(c) \in Points BY <1>0 DEF Kept, At, MountSteps
  <2>3. ServedByUnits' /\ SourceStays BY <1>0, <2>1, <2>2, EffectServed
  <2>4. ASSUME NEW d \in Clients PROVE At(d, pc[d])'
    <3>1. CASE d = c BY <1>2, <2>3, <3>1, OwnKeeps
    <3>2. CASE d # c BY <1>0, <2>1, <2>3, <3>2, ElsewhereKeeps DEF Kept
    <3> QED BY <3>1, <3>2
  <2> QED BY <2>3, <2>4 DEF Kept
<1>3. ASSUME NEW c \in Clients, Request(c) PROVE ServedByUnits' /\ Kept'
  <2>1. UNCHANGED hostVars /\ \A d \in Clients \ {c} : Elsewhere(d)
    BY <1>0, <1>3, QuietUndisturbed
       DEF Request, Ask, MountUnconfigured, Goto, TypeOK, Elsewhere
  <2>2. ServedByUnits' /\ SourceStays BY <1>0, <2>1, NothingServedKeeps DEF NothingServed, hostVars
  <2>3. At(c, pc[c])'
    <3>1. pc'[c] \in {"idle", "lock"}
      BY <1>0, <1>3 DEF Request, Ask, MountUnconfigured, Goto, TypeOK
    <3> QED BY <3>1 DEF At, Found, MountSteps, UnmountSteps
  <2>4. ASSUME NEW d \in Clients PROVE At(d, pc[d])'
    BY <1>0, <2>1, <2>2, <2>3, ElsewhereKeeps DEF Kept
  <2> QED BY <2>2, <2>4 DEF Kept
<1>4. ASSUME NEW n \in Names, Systemd(n) PROVE ServedByUnits' /\ Kept'
  <2>1. ServedByUnits' /\ SourceStays BY <1>0, <1>4, SystemdServed DEF Systemd
  <2> QED BY <1>0, <1>4, <2>1, OutsideElsewhere, ElsewhereKept DEF Systemd
<1>5. ASSUME NEW p \in Points, Others(p) PROVE ServedByUnits' /\ Kept'
  <2>1. ServedByUnits' /\ SourceStays BY <1>0, <1>5, OthersServed DEF Others
  <2> QED BY <1>0, <1>5, <2>1, OutsideElsewhere, ElsewhereKept DEF Others
<1>6. ASSUME UNCHANGED vars PROVE ServedByUnits' /\ Kept'
  <2>1. UNCHANGED hostVars BY <1>6 DEF vars
  <2>2. ServedByUnits' /\ SourceStays BY <1>0, <2>1, NothingServedKeeps DEF NothingServed, hostVars
  <2>3. \A d \in Clients : Elsewhere(d) BY <1>6, <2>1, QuietUndisturbed DEF vars, opVars, Elsewhere
  <2> QED BY <2>2, <2>3, ElsewhereKept
<1>7. ServedByUnits' /\ Kept' BY <1>2, <1>3, <1>4, <1>5, <1>6 DEF Next
<1> QED BY <1>1, <1>7 DEF RInv

\* At every await a request knows of its target what At says, and a mount of ours is always
\* served by the unit whose argv names its point.
THEOREM Released == Spec => []RInv
  BY RInit, RNext, PTL DEF Spec

-----------------------------------------------------------------------------
(* What a request is asked to do it does to its target, and says so.       *)

\* An unforced stop signals rclone only once nothing it serves is mounted any more.
THEOREM StopsCutNobody == Spec => UnforcedStopCutsNobody
<1>1. RInv /\ [Next]_vars => [\A c \in Clients : ~Contested(Own(c)) => StopCutsNobody(c)]_vars
  <2> SUFFICES ASSUME RInv, NEW c \in Clients, ~Contested(Own(c)), pc[c] = "stop",
                      ~Forced(c), intact[c]
               PROVE  ~IsMountedAt(Point(c)) /\ \A p \in Points : table[p].by # Own(c)
    BY DEF StopCutsNobody, Step
  <2>1. At(c, "stop") BY DEF RInv, Kept
  <2>2. ~IsMountedAt(Point(c)) /\ Alone(c) BY <2>1 DEF At, Found, UnmountSteps
  <2>3. NoOne # Own(c) BY MarkersAssumption DEF RInv, IInv, TypeOK, Own
  <2> QED BY <2>2, <2>3 DEF Alone, IsMountedAt
<1> QED BY <1>1, Released, PTL DEF Spec, UnforcedStopCutsNobody

\* A mount whose source is another is released, unforced, only on a running unit's word.
THEOREM RunningUnitsVouch == Spec => OnlyARunningUnitVouches
<1>1. RInv /\ [Next]_vars => [\A c \in Clients : VouchedFor(c)]_vars
  <2> SUFFICES ASSUME RInv, NEW c \in Clients, pc[c] \in {"release", "again"},
                      ~Forced(c), intact[c],
                      table[Point(c)].by = Foreign, ~table[Point(c)].spec
               PROVE  ServingStatus(saw[c].status)
    BY DEF VouchedFor, TakesDown, Step
  <2> QED BY DEF RInv, Kept, At
<1> QED BY <1>1, Released, PTL DEF Spec, OnlyARunningUnitVouches

\* Only FindStale brings a mount to clear its point, and not over a unit of ours.
LEMMA DecidesToClear ==
  ASSUME RInv, [Next]_vars, NEW c \in Clients, Step(c, {"point"}, {"clear"})
  PROVE  \E unread \in Unreadables :
           /\ IsStale(Point(c)) /\ ~Taken(c, unread) /\ intact'[c] = (unread = {})
<1>0. TypeOK /\ pc[c] = "point" /\ pc'[c] = "clear" BY DEF RInv, IInv, Step
<1>1. CASE Operation(c)
  <2>1. PICK unread \in Unreadables : FindStale(c, unread)
    <3>1. \A s : Continue(c, s) => s = "clear" BY <1>0, ContinueTo
    <3>2. \A r : ~Answer(c, r) BY <1>0, FinishTo DEF Answer
    <3> QED
      BY <1>0, <1>1, <3>1, <3>2
         DEF Operation, MountStep, UnmountStep, Lock, CallFails, TakeLock, TakeRedirect, Moved,
             OverLive, FindEmpty, FindLive, Clear, ClearFails, AwaitName, Begin, Start,
             AwaitReady, UnknownName, FindTarget, CheckSource, LookUpRedirect,
             RedirectTimesOut, LookAtPoint, LookAtUnit, AskKernel, KernelRefuses, StopUnit,
             AwaitGone, AwaitUnitGone, Escalate, AskAgain, RefusedAgain, Detach, DetachFails,
             Settle
  <2>2. ~Answer(c, "notManaged") BY <1>0, FinishTo DEF Answer
  <2> QED BY <1>0, <2>1, <2>2 DEF FindStale, TypeOK
<1>2. CASE ~Operation(c)
  <2>1. pc'[c] = pc[c] \/ pc'[c] \in {"idle", "lock"}
    <3>1. ASSUME NEW d \in Clients \ {c}, Operation(d) PROVE pc'[c] = pc[c]
      BY <1>0, <3>1, OperationTracked DEF Tracked, Elsewhere
    <3>2. ASSUME NEW d \in Clients, Request(d) PROVE pc'[c] \in {pc[c], "idle", "lock"}
      BY <1>0, <3>2 DEF Request, Ask, MountUnconfigured, Goto, TypeOK
    <3>3. ASSUME Outside PROVE pc'[c] = pc[c] BY <3>3 DEF Outside
    <3>4. ASSUME UNCHANGED vars PROVE pc'[c] = pc[c] BY <3>4 DEF vars, opVars
    <3> QED BY <1>2, <3>1, <3>2, <3>3, <3>4 DEF Next, Systemd, Others
  <2> QED BY <1>0, <2>1
<1> QED BY <1>1, <1>2

\* mount clears nothing but a dead mount, and none with a unit of ours running behind it.
THEOREM OnlyLeftoversCleared == Spec => MountClearsOnlyLeftovers
<1>1. RInv /\ [Next]_vars => [\A c \in Clients : ClearsLeftovers(c)]_vars
  <2> SUFFICES ASSUME RInv, [Next]_vars, NEW c \in Clients PROVE ClearsLeftovers(c)
    OBVIOUS
  <2>1. TakesDown(c, {"clear"}) /\ intact[c] => IsStale(Point(c))
    BY DEF TakesDown, Step, RInv, Kept, At, IsMountedAt, IsStale
  <2>2. ASSUME Step(c, {"point"}, {"clear"}), intact'[c],
               NEW n \in Names, units[n].phase = "up", units[n].argv = Point(c)
        PROVE  \E m \in Names : AtHome(m, Point(c))
    <3>1. IsStale(Point(c)) /\ ~Taken(c, {}) BY <2>2, DecidesToClear
    <3>2. IsServing(n) /\ IsMountedAt(units[n].argv)
      BY <2>2, <3>1, MarkersAssumption
         DEF IsServing, ServingStatus, UnitStatus, IsStale, IsMountedAt
    <3>3. n \notin Orphans({}) BY <2>2, <3>1 DEF Taken, OrphansAt
    <3>4. (Configured(n) /\ config[n] = Point(c)) \/ ConfiguredUnitHolds(Point(c), {})
      BY <2>2, <3>2, <3>3 DEF Orphans
    <3>5. DOMAIN config \subseteq Names BY ConfigsAssumption DEF RInv, IInv, TypeOK
    <3> QED BY <2>2, <3>2, <3>4, <3>5 DEF AtHome, Configured, ConfiguredUnitHolds
  <2> QED BY <2>1, <2>2 DEF ClearsLeftovers
<1> QED BY <1>1, Released, PTL DEF Spec, MountClearsOnlyLeftovers

\* How an unmount comes to say ok: its unit is down, or its point is released.
LEMMA SaysUnmountedWhen ==
  ASSUME RInv, [Next]_vars, NEW c \in Clients, SaysUnmounted(c)
  PROVE  /\ pc[c] \in Found /\ UNCHANGED table
         /\ \/ units[Own(c)].phase \in {"inactive", "failed"}
            \/ ~IsMountedAt(Point(c))
         /\ intact[c] => ~IsMountedAt(Point(c))
<1>0. /\ TypeOK /\ At(c, pc[c]) /\ pc[c] # "idle" /\ pc'[c] = "idle" /\ Own(c) \in Names
      /\ req[c].op = "unmount" /\ result'[c] = "ok"
  BY DEF RInv, IInv, Kept, SaysUnmounted, Ends, TypeOK, Own
<1>1. pc[c] \notin MountSteps BY <1>0 DEF At
<1>a. \A s : Continue(c, s) => s = "idle" BY <1>0, ContinueTo
<1>b. \A r : Finish(c, r) => r = "ok" BY <1>0 DEF Finish, TypeOK
<1>2. CASE Operation(c)
  <2>1. \/ LookAtUnit(c) \/ AwaitUnitGone(c) \/ Escalate(c) \/ Settle(c)
    <3>1. ~MountStep(c)
      BY <1>1 DEF MountStep, MountSteps, Moved, FindStale, OverLive, FindEmpty, FindLive, Clear,
                  ClearFails, AwaitName, Begin, Start, AwaitReady
    <3>2. ~Lock(c) BY <1>0 DEF Lock, TakeLock, TakeRedirect, Goto, TypeOK
    <3>3. \A r : Answer(c, r) => r = "ok" BY <1>b DEF Answer
    <3>4. ~CallFails(c) BY <3>3 DEF CallFails
    <3>5. ~AskKernel(c) /\ ~StopUnit(c) /\ ~AskAgain(c) /\ ~Detach(c) /\ ~LookAtPoint(c)
          /\ ~LookUpRedirect(c)
      BY <1>0 DEF AskKernel, StopUnit, Acts, AskAgain, Detach, LookAtPoint, LookUpRedirect,
                  Goto, TypeOK
    <3>6. \A unread : ~FindTarget(c, unread) /\ ~UnknownName(c, unread) /\ ~CheckSource(c, unread)
      BY <1>0, <1>a, <1>b, <3>3 DEF FindTarget, UnknownName, CheckSource, Goto, TypeOK
    <3>7. ~RedirectTimesOut(c) /\ ~KernelRefuses(c) /\ ~AwaitGone(c) /\ ~RefusedAgain(c)
          /\ ~DetachFails(c)
      BY <1>a, <3>3 DEF RedirectTimesOut, KernelRefuses, AwaitGone, RefusedAgain, DetachFails
    <3> QED BY <1>2, <3>1, <3>2, <3>4, <3>5, <3>6, <3>7 DEF Operation, UnmountStep
  <2>2. CASE LookAtUnit(c)
    <3>1. /\ Answer(c, "ok") /\ pc[c] = "status" /\ UnitStatus(Own(c)) = "Inactive"
          /\ ~saw[c].live
      BY <1>0, <1>b, <2>2 DEF LookAtUnit, Answer, Goto, TypeOK
    <3>2. intact[c] => ~IsMountedAt(Point(c)) BY <1>0, <3>1 DEF At
    <3> QED BY <1>0, <3>1, <3>2 DEF Answer, hostVars, UnitStatus, TypeOK, HostTypeOK, Unit, Phases,
                                    Found, UnmountSteps
  <2>3. CASE AwaitUnitGone(c)
    <3>1. /\ pc[c] = "unitgone" /\ UnitStatus(Own(c)) \in {"Inactive", "Failed"}
          /\ units' \in ResetFailed(units, Own(c)) /\ UNCHANGED table
      BY <1>b, <2>3 DEF AwaitUnitGone, Answer
    <3>2. intact[c] => ~IsMountedAt(Point(c)) BY <1>0, <3>1 DEF At
    <3> QED BY <1>0, <3>1, <3>2
            DEF UnitStatus, TypeOK, HostTypeOK, Unit, Phases, Found, UnmountSteps
  <2>4. CASE Escalate(c)
    BY <1>a, <2>4 DEF Escalate, Answer, hostVars, Found, UnmountSteps
  <2>5. CASE Settle(c)
    BY <1>b, <2>5 DEF Settle, Answer, hostVars, Found, UnmountSteps
  <2> QED BY <2>1, <2>2, <2>3, <2>4, <2>5
<1>3. CASE ~Operation(c)
  <2>1. pc'[c] = pc[c] \/ pc[c] = "idle"
    <3>1. ASSUME NEW d \in Clients \ {c}, Operation(d) PROVE pc'[c] = pc[c]
      BY <1>0, <3>1, OperationTracked DEF Tracked, Elsewhere
    <3>2. ASSUME NEW d \in Clients, Request(d) PROVE pc'[c] = pc[c] \/ pc[c] = "idle"
      BY <1>0, <3>2 DEF Request, Ask, MountUnconfigured, Goto, TypeOK
    <3>3. ASSUME Outside PROVE pc'[c] = pc[c] BY <3>3 DEF Outside
    <3>4. ASSUME UNCHANGED vars PROVE pc'[c] = pc[c] BY <3>4 DEF vars, opVars
    <3> QED BY <1>3, <3>1, <3>2, <3>3, <3>4 DEF Next, Systemd, Others
  <2> QED BY <1>0, <2>1
<1> QED BY <1>2, <1>3

\* After an ok the unit serves its point no longer, nor any other it served undisturbed.
THEOREM OkMeansDown == Spec => UnmountOkMeansDown
<1>1. RInv /\ [Next]_vars =>
        [\A c \in Clients : SaysUnmounted(c) =>
           \A p \in Points : p = Point(c) \/ (intact[c] /\ ~Contested(Own(c)))
                               => table'[p].by # Own(c)]_vars
  <2> SUFFICES ASSUME RInv, [Next]_vars, NEW c \in Clients, SaysUnmounted(c), NEW p \in Points,
                      p = Point(c) \/ (intact[c] /\ ~Contested(Own(c)))
               PROVE  table'[p].by # Own(c)
    OBVIOUS
  <2>0. HostTypeOK /\ ServedByUnits /\ At(c, pc[c]) /\ Own(c) \in Names /\ NoOne # Own(c)
    BY MarkersAssumption DEF RInv, IInv, Kept, TypeOK, Own
  <2>1. /\ pc[c] \in Found /\ UNCHANGED table
        /\ units[Own(c)].phase \in {"inactive", "failed"} \/ ~IsMountedAt(Point(c))
    BY SaysUnmountedWhen
  <2>2. CASE units[Own(c)].phase \in {"inactive", "failed"}
    BY <2>0, <2>1, <2>2, DownServesNothing
  <2>3. CASE ~IsMountedAt(Point(c)) /\ p = Point(c) BY <2>0, <2>1, <2>3 DEF IsMountedAt
  <2>4. CASE intact[c] /\ ~Contested(Own(c)) /\ p # Point(c)
    BY <2>0, <2>1, <2>4 DEF At, Alone
  <2> QED BY <2>1, <2>2, <2>3, <2>4
<1> QED BY <1>1, Released, PTL DEF Spec, UnmountOkMeansDown

\* After an ok nothing is mounted at the point, unless something new came to be.
THEOREM OkLeavesNothing == Spec => UnmountOkLeavesNothing
<1>1. RInv /\ [Next]_vars =>
        [\A c \in Clients : SaysUnmounted(c) /\ intact[c] => ~IsMountedAt(Point(c))]_vars
  BY SaysUnmountedWhen
<1> QED BY <1>1, Released, PTL DEF Spec, UnmountOkLeavesNothing

-----------------------------------------------------------------------------
(* What a sweep reports is true of the host it read.                       *)

\* A unit of ours that is up is at home, or an orphan, or another is at home at its point.
LEMMA UpIsAccounted ==
  ASSUME TypeOK, ServedByUnits, NEW n \in Names, NEW p \in Points, table[p].by = n
  PROVE  /\ IsServing(n) /\ units[n].argv = p
         /\ n \in Orphans({}) \/ \E m \in Names : AtHome(m, p)
<1>1. IsServing(n) /\ units[n].argv = p BY ServesItsArgv DEF TypeOK
<1>2. IsMountedAt(p) BY MarkersAssumption DEF IsMountedAt
<1>3. DOMAIN config \subseteq Names BY ConfigsAssumption DEF TypeOK
<1> QED BY <1>1, <1>2, <1>3 DEF Orphans, AtHome, Configured, ConfiguredUnitHolds

LEMMA RowsOfThree ==
  ASSUME NEW r \in Rows
  PROVE  \/ /\ Configured(r.name) /\ r.state = Resolve(r.name, {})
            /\ r.point = config[r.name]
         \/ /\ r.name \in Orphans({}) /\ ~Configured(r.name) /\ r.state = "Orphaned"
            /\ r.point = units[r.name].argv
         \/ /\ r.state = "Foreign" /\ r.point \in Points
            /\ \A n \in DOMAIN config : config[n] # r.point
            /\ \A o \in Orphans({}) : units[o].argv # r.point
  BY DEF Rows, Reconcile, Configured

\* A mount of ours is shown as somebody else's at most under another entry's name.
LEMMA NeverForeign == TypeOK /\ ServedByUnits => OursIsNeverForeign
<1> SUFFICES ASSUME TypeOK, ServedByUnits, NEW r \in Rows, r.state = "Foreign",
                    table[r.point].by \in Names
             PROVE  /\ table[r.point].by # r.name
                    /\ Configured(r.name) /\ \E m \in Names \ {r.name} : AtHome(m, r.point)
  BY DEF OursIsNeverForeign
<1> DEFINE n == table[r.point].by
<1>1. CASE Configured(r.name) /\ r.state = Resolve(r.name, {}) /\ r.point = config[r.name]
  <2>1. r.name \in Names /\ r.point \in Points
    BY <1>1, ConfigsAssumption DEF TypeOK, Configured
  <2>2. UnitStatus(r.name) = "Inactive" /\ OrphansAt(r.point, {}) = {} BY <1>1 DEF Resolve
  <2>3. ~IsServing(r.name) BY <2>2 DEF IsServing, ServingStatus
  <2>4. n # r.name /\ n \notin Orphans({})
    BY <2>1, <2>2, <2>3, UpIsAccounted DEF OrphansAt
  <2>5. PICK m \in Names : AtHome(m, r.point) BY <2>1, <2>4, UpIsAccounted
  <2> QED BY <1>1, <2>3, <2>4, <2>5 DEF AtHome
<1>2. CASE /\ r.point \in Points
           /\ \A m \in DOMAIN config : config[m] # r.point
           /\ \A o \in Orphans({}) : units[o].argv # r.point
  BY <1>2, UpIsAccounted DEF AtHome, Configured
<1> QED BY <1>1, <1>2, RowsOfThree

\* Once systemd is at rest, whoever is at home at a point is who serves it.
LEMMA SettledAtHome ==
  ASSUME TypeOK, ServedByUnits, Settled, NEW m \in Names, NEW p, AtHome(m, p)
  PROVE  table[p].by = m
  BY DEF Settled, AtHome

\* Once systemd is at rest, every mount of ours is named by a row, and answers to that name.
LEMMA StayStoppable == TypeOK /\ ServedByUnits => OwnMountsStayStoppable
<1> SUFFICES ASSUME TypeOK, ServedByUnits, Settled, NEW p \in Points, table[p].by \in Names
             PROVE  \E r \in Rows :
                      /\ r.state # "Foreign"
                      /\ UnmountTargets(r.name, {}) = { [unit |-> table[p].by, point |-> p] }
  BY DEF OwnMountsStayStoppable
<1> DEFINE n == table[p].by
<1>1. IsServing(n) /\ units[n].argv = p /\ (n \in Orphans({}) \/ AtHome(n, p))
  BY UpIsAccounted, SettledAtHome
<1>2. CASE Configured(n)
  <2> DEFINE r == [name |-> n, state |-> Resolve(n, {}), point |-> config[n]]
  <2>1. r \in Rows BY <1>2 DEF Rows, Reconcile, Configured
  <2>2. UnitStatus(n) # "Inactive" BY <1>1 DEF IsServing, ServingStatus
  <2>3. Resolve(n, {}) # "Foreign" BY <2>2 DEF Resolve
  <2>4. UnmountTargets(n, {}) = { [unit |-> n, point |-> p] }
    BY <1>1, <1>2 DEF UnmountTargets, OrphanTarget, ConfigTarget, AtHome
  <2> QED BY <2>1, <2>3, <2>4
<1>3. CASE ~Configured(n)
  <2> DEFINE r == [name |-> n, state |-> "Orphaned", point |-> units[n].argv]
  <2>1. n \in Orphans({}) BY <1>1, <1>3 DEF AtHome
  <2>2. r \in Rows BY <1>3, <2>1 DEF Rows, Reconcile
  <2>3. UnmountTargets(n, {}) = { [unit |-> n, point |-> p] }
    BY <1>1, <1>3, <2>1 DEF UnmountTargets, OrphanTarget
  <2> QED BY <2>2, <2>3
<1> QED BY <1>2, <1>3

\* Once systemd is at rest, a row that says mounted of an active unit is about that unit.
LEMMA MountedIsOurs == TypeOK /\ ServedByUnits => MountedRowIsOurs
<1> SUFFICES ASSUME TypeOK, ServedByUnits, Settled, NEW r \in Rows, r.state = "Mounted",
                    UnitStatus(r.name) = "Active"
             PROVE  table[r.point].by = r.name
  BY DEF MountedRowIsOurs
<1>1. Configured(r.name) /\ r.point = config[r.name] /\ r.state = Resolve(r.name, {})
  BY RowsOfThree
<1>2. r.name \in Names BY <1>1, ConfigsAssumption DEF TypeOK, Configured
<1>3. r.name \notin Orphans({}) BY <1>1 DEF Resolve
<1>4. IsServing(r.name) BY DEF IsServing, ServingStatus
<1>5. units[r.name].argv \in Points /\ table[units[r.name].argv].by = r.name
  BY <1>2, <1>4, ServingHasArgv DEF Settled, TypeOK
<1>6. AtHome(r.name, units[r.name].argv)
  BY <1>2, <1>3, <1>5, UpIsAccounted, SettledAtHome
<1> QED BY <1>1, <1>5, <1>6 DEF AtHome

\* What reconcile says of our own mounts, in every state the service can be in.
THEOREM SweepsAreTrue ==
  Spec => [](OursIsNeverForeign /\ OwnMountsStayStoppable /\ MountedRowIsOurs)
<1>1. RInv => OursIsNeverForeign /\ OwnMountsStayStoppable /\ MountedRowIsOurs
  BY NeverForeign, StayStoppable, MountedIsOurs DEF RInv, IInv
<1> QED BY <1>1, Released, PTL
=============================================================================
