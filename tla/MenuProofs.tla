----------------------------- MODULE MenuProofs -----------------------------
(***************************************************************************)
(* What is proved of the menu, of clicks on an old one, of the notice, of  *)
(* what is said of a table, and of the rows it is said in: for any mounts, *)
(* views, bounds, journals and files.                                      *)
(***************************************************************************)
EXTENDS Menu, TextProofs, FiniteSetTheorems

\* Nothing that leaves the table, the link and what is shown alone can make a refusal
\* that was still open an answered one (model.rs:97-110).
LEMMA NothingAnswers ==
    ASSUME NoticesAreOpen, UNCHANGED <<link, mounts>>, notice' \subseteq notice
    PROVE  NoticesAreOpen'
BY DEF NoticesAreOpen, Pending

\* What is recorded with the table at hand is open unless it says that it is late.
LEMMA RecordsOpen ==
    ASSUME NEW target, NEW table, NEW late,
           Answered(target, table) => late,
           Notice(target, late).about # None, ~Notice(target, late).late
    PROVE  Pending(Notice(target, late), table)
<1>1. ~Answered(target, table)
  BY DEF Notice
<1>2. target.about # None
  BY DEF Notice
<1> QED
  BY <1>1, <1>2 DEF Answered, Notice, Pending

LEMMA EveryStepKeepsNoticesOpen ==
    ASSUME NoticesAreOpen, [MenuNext]_menuVars
    PROVE  NoticesAreOpen'
<1>1. ASSUME NEW drawn \in panel, NEW place \in Places(drawn), Click(place)
      PROVE  NoticesAreOpen'
  BY <1>1, NothingAnswers DEF Click, Act
<1>2. CASE Activate
  BY <1>2, NothingAnswers DEF Activate, Act
<1>3. CASE Redraw \/ Fetch \/ RetryNow
  BY <1>3, NothingAnswers DEF Redraw, Fetch, RetryNow
<1>4. CASE GoDown \/ GoConnecting \/ GoUp
  BY <1>4 DEF GoDown, GoConnecting, GoUp, Forget, NoticesAreOpen
<1>5. CASE Resync
  <2>1. notice' = {Notice(shown, shown.late \/ Answered(shown, mounts')) : shown \in notice}
    BY <1>5 DEF Resync
  <2>2. ASSUME NEW shown \in notice,
               LET now == Notice(shown, shown.late \/ Answered(shown, mounts'))
               IN  now.about # None /\ ~now.late
        PROVE  Pending(Notice(shown, shown.late \/ Answered(shown, mounts')), mounts')
    BY <2>2, RecordsOpen
  <2> QED
    BY <2>1, <2>2 DEF NoticesAreOpen
<1>6. ASSUME NEW n \in Names, RemoveMount(n)
      PROVE  NoticesAreOpen'
  BY <1>6 DEF RemoveMount, NoticesAreOpen, Pending
<1>7. ASSUME NEW n \in Names, NEW view \in Drawn, UpsertMount(n, view)
      PROVE  NoticesAreOpen'
  BY <1>7 DEF UpsertMount, NoticesAreOpen, Pending
<1>8. ASSUME NEW target \in BagToSet(tasks), Succeeds(target)
      PROVE  NoticesAreOpen'
  BY <1>8, NothingAnswers DEF Succeeds
<1>9. ASSUME NEW target \in BagToSet(tasks), Fails(target)
      PROVE  NoticesAreOpen'
  <2>1. notice' = {Notice(target, Answered(target, mounts))} /\ mounts' = mounts
    BY <1>9 DEF Fails
  <2> QED
    BY <2>1, RecordsOpen DEF NoticesAreOpen
<1>10. CASE UNCHANGED menuVars
  BY <1>10, NothingAnswers DEF menuVars
<1> QED
  BY <1>1, <1>2, <1>3, <1>4, <1>5, <1>6, <1>7, <1>8, <1>9, <1>10 DEF MenuNext

\* A refusal that was recorded in time is on screen only while it can still be answered,
\* whatever the mounts do (model.rs:326-344).
THEOREM NoticesStayOpen == MenuSpec => []NoticesAreOpen
<1>1. MenuInit => NoticesAreOpen
  BY DEF MenuInit, NoticesAreOpen
<1>2. NoticesAreOpen /\ [MenuNext]_menuVars => NoticesAreOpen'
  BY EveryStepKeepsNoticesOpen
<1> QED
  BY <1>1, <1>2, PTL DEF MenuSpec

(***************************************************************************)
(* What is asked                                                           *)
(***************************************************************************)
\* Names are listed, tasks are counted, and a model without a link has no table.
ModelInv ==
    /\ DOMAIN mounts \subseteq Names
    /\ IsABag(tasks)
    /\ link \in {"connecting", "up"} \cup LinkErrors
    /\ link # "up" => mounts = NoTable

LEMMA NotUp == "up" \notin LinkErrors /\ "connecting" \notin LinkErrors
  BY DEF LinkErrors

LEMMA TablesAreOfNames == \A table \in Tables : DOMAIN table \subseteq Names
  BY DEF Tables

LEMMA TakenOff ==
    ASSUME IsABag(tasks), NEW target, tasks' = tasks (-) SetToBag({target})
    PROVE  IsABag(tasks') /\ \A t : UnderWay(t)' <= UnderWay(t)
  <1> DEFINE left == [e \in DOMAIN tasks |->
                         IF e \in {target} THEN tasks[e] - SetToBag({target})[e] ELSE tasks[e]]
  <1>1. tasks' = [e \in {d \in DOMAIN left : left[d] > 0} |-> left[e]]
    BY DEF SetToBag, (-)
  <1>2. \A e \in DOMAIN tasks : tasks[e] \in Nat /\ tasks[e] > 0
    BY DEF IsABag
  <1>3. \A e \in DOMAIN tasks : left[e] \in Int /\ left[e] <= tasks[e]
    BY <1>2 DEF SetToBag
  <1>4. DOMAIN tasks' \subseteq DOMAIN tasks
        /\ \A e \in DOMAIN tasks' : tasks'[e] \in Nat /\ tasks'[e] > 0 /\ tasks'[e] <= tasks[e]
    <2> HIDE DEF left
    <2>1. DOMAIN left = DOMAIN tasks
      BY DEF left
    <2> QED
      BY <1>1, <1>3, <2>1
  <1>5. IsABag(tasks')
    <2>1. tasks' = [e \in DOMAIN tasks' |-> tasks'[e]]
      BY <1>1
    <2> HIDE DEF left
    <2> QED
      BY <1>4, <2>1 DEF IsABag
  <1> HIDE DEF left
  <1> QED
    BY <1>2, <1>4, <1>5 DEF UnderWay, BagIn, BagToSet

\* What an action adds to the tasks is what was asked and reports back.
LEMMA ActRequests ==
    ASSUME IsABag(tasks), NEW asked, Act(asked)
    PROVE  /\ IsABag(tasks')
           /\ \A t \in Targets :
                 t \in Requested <=> \E a \in asked : ReportsBack(a) /\ t = Target(a)
  <1> DEFINE sent == {Target(a) : a \in {a \in asked : ReportsBack(a)}}
  <1>1. tasks' = tasks (+) SetToBag(sent)
    BY DEF Act
  <1>2. /\ DOMAIN tasks' = DOMAIN tasks \cup sent
        /\ \A e \in DOMAIN tasks' :
              tasks'[e] = (IF e \in DOMAIN tasks THEN tasks[e] ELSE 0) + (IF e \in sent THEN 1 ELSE 0)
        /\ tasks' = [e \in DOMAIN tasks' |-> tasks'[e]]
    <2> HIDE DEF sent
    <2> QED
      BY <1>1 DEF SetToBag, (+)
  <1>3. \A e \in DOMAIN tasks : tasks[e] \in Nat /\ tasks[e] > 0
    BY DEF IsABag
  <1>4. IsABag(tasks')
    <2> HIDE DEF sent
    <2>1. \A e \in DOMAIN tasks' : tasks'[e] \in Nat /\ tasks'[e] > 0
      BY <1>2, <1>3
    <2> QED
      BY <1>2, <2>1 DEF IsABag
  <1>5. \A t : UnderWay(t)' > UnderWay(t) <=> t \in sent
    <2> HIDE DEF sent
    <2> QED
      BY <1>2, <1>3 DEF UnderWay, BagIn, BagToSet
  <1> QED
    BY <1>4, <1>5 DEF Requested

LEMMA InitModel == MenuInit => ModelInv
  BY DEF MenuInit, ModelInv, NoTable, EmptyBag, SetToBag, IsABag

\* Whatever is asked is asked of a mount that is listed.
LEMMA AskedAreTargets ==
    ASSUME ModelInv, NEW says, NEW n, NEW a, a \in Asked(says, n)
    PROVE  Target(a) \in Targets
  <1>1. CASE a.does \in Verbs
    <2>1. a.about \in DOMAIN mounts
      <3>1. CASE says \in Verbs
        <4>1. Asked(says, n) = VerbAsked(says, n)
          BY <3>1 DEF Asked, Verbs
        <4> QED
          BY <4>1 DEF VerbAsked, CanGo, Action
      <3>2. CASE says = "Mount all"
        <4>1. Asked(says, n) = {Action("Mount", m) : m \in CanGoInBulk(TRUE)}
          BY <3>2 DEF Asked, Verbs
        <4>2. PICK m \in CanGoInBulk(TRUE) : a = Action("Mount", m)
          BY <4>1
        <4>3. m \in DOMAIN mounts
          BY DEF CanGoInBulk
        <4> QED
          BY <4>2, <4>3 DEF Action
      <3>3. CASE says = "Unmount all"
        <4>1. Asked(says, n) = {Action("Unmount", m) : m \in CanGoInBulk(FALSE)}
          BY <3>3 DEF Asked, Verbs
        <4>2. PICK m \in CanGoInBulk(FALSE) : a = Action("Unmount", m)
          BY <4>1
        <4>3. m \in DOMAIN mounts
          BY DEF CanGoInBulk
        <4> QED
          BY <4>2, <4>3 DEF Action
      <3>4. CASE says = "Open"
        <4>1. Asked(says, n) = {Action("Open", m) : m \in {n} \cap stored.open}
          BY <3>4 DEF Asked, Verbs
        <4> QED
          BY <1>1, <4>1 DEF Action, Verbs
      <3>5. CASE says \notin Verbs \cup {"Mount all", "Unmount all", "Open"}
        <4>1. Asked(says, n) = {Action(says, None)}
          BY <3>5 DEF Asked, Verbs
        <4>2. a = Action(says, None)
          BY <4>1
        <4> QED
          BY <1>1, <3>5, <4>2 DEF Action
      <3> QED
        BY <3>1, <3>2, <3>3, <3>4, <3>5
    <2>2. Target(a) = [about |-> a.about, wants |-> a.does = "Mount"]
      BY <1>1 DEF Target
    <2>3. Target(a) \in [about : Names, wants : BOOLEAN]
      BY <2>1, <2>2 DEF ModelInv
    <2> QED
      BY <2>3 DEF Targets
  <1>2. CASE a.does \notin Verbs
    BY <1>2 DEF Target, Targets, Action, Verbs
  <1> QED
    BY <1>1, <1>2

LEMMA NextKeepsModel ==
    ASSUME ModelInv, [MenuNext]_menuVars
    PROVE  ModelInv'
  <1>1. ASSUME NEW drawn \in panel, NEW place \in Places(drawn), Click(place)
        PROVE  ModelInv'
    <2>1. PICK asked : Act(asked)
      BY <1>1 DEF Click
    <2> QED
      BY <2>1, ActRequests DEF ModelInv, Act
  <1>2. CASE Activate
    <2>1. PICK asked : Act(asked)
      BY <1>2 DEF Activate
    <2> QED
      BY <2>1, ActRequests DEF ModelInv, Act
  <1>3. CASE Redraw \/ Fetch \/ RetryNow \/ UNCHANGED menuVars
    BY <1>3 DEF Redraw, Fetch, RetryNow, menuVars, ModelInv
  <1>4. CASE GoDown \/ GoConnecting
    BY <1>4, MenuAssumption DEF GoDown, GoConnecting, Forget, ModelInv, NoTable
  <1>5. CASE GoUp
    BY <1>5, TablesAreOfNames DEF GoUp, ModelInv
  <1>6. CASE Resync
    BY <1>6, TablesAreOfNames DEF Resync, ModelInv
  <1>7. ASSUME NEW n \in Names, RemoveMount(n)
        PROVE  ModelInv'
    BY <1>7 DEF RemoveMount, ModelInv
  <1>8. ASSUME NEW n \in Names, NEW view \in Drawn, UpsertMount(n, view)
        PROVE  ModelInv'
    BY <1>8 DEF UpsertMount, ModelInv
  <1>9. ASSUME NEW target \in BagToSet(tasks), Succeeds(target) \/ Fails(target)
        PROVE  ModelInv'
    BY <1>9, TakenOff DEF Succeeds, Fails, ModelInv
  <1> QED
    BY <1>1, <1>2, <1>3, <1>4, <1>5, <1>6, <1>7, <1>8, <1>9 DEF MenuNext

LEMMA ModelStays == MenuSpec => []ModelInv
  BY InitModel, NextKeepsModel, PTL DEF MenuSpec

\* What is gone from the screen because of an action was answered by what it asks.
LEMMA SupersededIsAsked ==
    ASSUME ModelInv, NEW asked, Act(asked), \A a \in asked : Target(a) \in Targets,
           NEW shown \in notice, notice' = {}
    PROVE  IF shown.about = None THEN Requested # {}
           ELSE \E t \in Requested : t.about = shown.about
  <1>1. PICK a \in asked : Supersedes(a, shown)
    BY DEF Act
  <1>2. ReportsBack(a) => Target(a) \in Requested
    BY ActRequests DEF ModelInv
  <1>3. CASE shown.about = None
    BY <1>1, <1>2, <1>3 DEF Supersedes
  <1>4. CASE shown.about # None
    <2>1. Target(a).about = shown.about
      BY <1>1, <1>4 DEF Supersedes
    <2>2. a.does \in Verbs
      BY <1>4, <2>1 DEF Target, Action, Verbs
    <2>3. ReportsBack(a)
      BY <2>2 DEF ReportsBack, Verbs
    <2> QED
      BY <1>2, <1>4, <2>1, <2>3
  <1> QED
    BY <1>3, <1>4

LEMMA RefusalStays ==
    ASSUME ModelInv, [MenuNext]_menuVars,
           NEW shown \in notice, notice' = {}, link = "up", link' = "up"
    PROVE  IF shown.about = None THEN Requested # {}
           ELSE \/ \E t \in Requested : t.about = shown.about
                \/ ~Pending(shown, mounts')
  <1>1. ASSUME NEW drawn \in panel, NEW place \in Places(drawn), Click(place)
        PROVE  IF shown.about = None THEN Requested # {}
               ELSE \E t \in Requested : t.about = shown.about
    BY <1>1, AskedAreTargets, SupersededIsAsked DEF Click
  <1>2. CASE Activate
    <2>1. Act({Action("Refresh", None)})
      BY <1>2 DEF Activate
    <2>2. \A a \in {Action("Refresh", None)} : Target(a) \in Targets
      BY DEF Target, Targets, Action, Verbs
    <2> QED
      BY <2>1, <2>2, SupersededIsAsked
  <1>3. CASE Redraw \/ Fetch \/ RetryNow \/ UNCHANGED menuVars
    BY <1>3 DEF Redraw, Fetch, RetryNow, menuVars
  <1>4. CASE GoDown \/ GoConnecting \/ GoUp
    BY <1>4, NotUp, MenuAssumption DEF GoDown, GoConnecting, GoUp, Forget
  <1>5. CASE Resync
    BY <1>5 DEF Resync
  <1>6. ASSUME NEW n \in Names, RemoveMount(n)
        PROVE  shown.about # None /\ ~Pending(shown, mounts')
    BY <1>6, MenuAssumption DEF RemoveMount, Pending
  <1>7. ASSUME NEW n \in Names, NEW view \in Drawn, UpsertMount(n, view)
        PROVE  shown.about # None /\ ~Pending(shown, mounts')
    <2>1. shown.about = n /\ shown.wants = view.live
      BY <1>7 DEF UpsertMount
    <2>2. mounts'[n] = view
      BY <1>7 DEF UpsertMount
    <2> QED
      BY <2>1, <2>2, MenuAssumption DEF Pending
  <1>8. ASSUME NEW target \in BagToSet(tasks), Succeeds(target) \/ Fails(target)
        PROVE  FALSE
    BY <1>8 DEF Succeeds, Fails
  <1> QED
    BY <1>1, <1>2, <1>3, <1>4, <1>5, <1>6, <1>7, <1>8 DEF MenuNext

\* With any number of mounts and of actions under way, what went wrong stays on screen
\* until its mount gets there or is gone, that mount is asked something again, or another
\* outcome takes its place; what is about no mount, until anything is asked
\* (model.rs:132-155).
THEOREM RefusalsLast == MenuSpec => RefusalsStay
  <1>1. ModelInv /\ [MenuNext]_menuVars =>
            [\A shown \in notice :
                notice' = {} /\ link = "up" /\ link' = "up" =>
                    IF shown.about = None THEN Requested # {}
                    ELSE \/ \E t \in Requested : t.about = shown.about
                         \/ ~Pending(shown, mounts')]_menuVars
    BY RefusalStays
  <1> QED
    BY <1>1, ModelStays, PTL DEF MenuSpec, RefusalsStay

(***************************************************************************)
(* What a click lands on                                                   *)
(***************************************************************************)
Groups(menu) == <<menu.managed, menu.foreign>>

\* Unless a refresh came between, a menu with its ids kept has its rows kept: in what the
\* panel drew, and in what is about to be built.
DrawnInv ==
    /\ stored.managed \cup stored.foreign \subseteq Names
    /\ ~resynced =>
          /\ \A drawn \in panel : Groups(drawn) = Groups(stored)
          /\ Shape(Build(link, mounts)) = Shape(stored) =>
                Groups(Build(link, mounts)) = Groups(stored)

LEMMA NamesAreFinite == IsFiniteSet(Names)
  <1>1. Order \in [1..Len(Order) -> Names] /\ Len(Order) \in Nat
    BY MenuAssumption
  <1>2. Order \in Surjection(1..Len(Order), Names)
    BY <1>1, MenuAssumption DEF Surjection
  <1> QED
    BY <1>1, <1>2, FS_Interval, FS_Surjection

LEMMA Built ==
    ASSUME NEW l, NEW table
    PROVE  LET menu == Build(l, table)
           IN  /\ menu.fixed = FixedItems(l, menu.managed)
               /\ menu.managed = {n \in DOMAIN table : table[n].managed}
               /\ menu.foreign = DOMAIN table \ menu.managed
               /\ menu.managed \cup menu.foreign = DOMAIN table
               /\ menu.managed \cap menu.foreign = {}
  BY DEF Build

LEMMA ShapeSays ==
    ASSUME NEW one, NEW other, Shape(one) = Shape(other)
    PROVE  /\ one.fixed = other.fixed
           /\ Cardinality(one.managed) = Cardinality(other.managed)
           /\ Cardinality(one.foreign) = Cardinality(other.foreign)
  BY DEF Shape

\* Of two groups, one within the other, with as many rows.
LEMMA AsManyRows ==
    ASSUME NEW S \in SUBSET Names, NEW T \in SUBSET Names, S \subseteq T \/ T \subseteq S,
           Cardinality(S) = Cardinality(T)
    PROVE  S = T
  <1>1. IsFiniteSet(S) /\ IsFiniteSet(T)
    BY NamesAreFinite, FS_Subset
  <1> QED
    BY <1>1, FS_Subset

\* A group that gains or loses one row at most.
LEMMA OneRowChanges ==
    ASSUME NEW S \in SUBSET Names, NEW T \in SUBSET Names, NEW n, S \ {n} = T \ {n},
           Cardinality(S) = Cardinality(T)
    PROVE  S = T
  <1>1. S \subseteq T \/ T \subseteq S
    OBVIOUS
  <1> QED
    BY <1>1, AsManyRows

\* An edit of one row shows in the shape, or changes no group.
LEMMA EditOfOneRow ==
    ASSUME ModelInv, ModelInv', stored = Build(link, mounts), NEW n \in Names,
           DOMAIN mounts' \ {n} = DOMAIN mounts \ {n},
           \A m \in DOMAIN mounts \ {n} : mounts'[m] = mounts[m],
           Shape(Build(link', mounts')) = Shape(stored)
    PROVE  Groups(Build(link', mounts')) = Groups(stored)
  <1> DEFINE now == Build(link', mounts')
  <1>1. /\ now.managed \ {n} = stored.managed \ {n}
        /\ now.foreign \ {n} = stored.foreign \ {n}
    <2>1. /\ now.managed = {m \in DOMAIN mounts' : mounts'[m].managed}
          /\ now.foreign = DOMAIN mounts' \ now.managed
      BY DEF Build
    <2>2. /\ stored.managed = {m \in DOMAIN mounts : mounts[m].managed}
          /\ stored.foreign = DOMAIN mounts \ stored.managed
      BY Built
    <2> HIDE DEF now
    <2>3. now.managed \ {n} = stored.managed \ {n}
      BY <2>1, <2>2
    <2> QED
      BY <2>1, <2>2, <2>3
  <1>2. /\ now.managed \cup now.foreign \subseteq Names
        /\ stored.managed \cup stored.foreign \subseteq Names
    BY Built DEF ModelInv
  <1>3. /\ Cardinality(now.managed) = Cardinality(stored.managed)
        /\ Cardinality(now.foreign) = Cardinality(stored.foreign)
    BY ShapeSays
  <1> HIDE DEF now
  <1>4. now.managed = stored.managed
    BY <1>1, <1>2, <1>3, OneRowChanges
  <1>5. now.foreign = stored.foreign
    BY <1>1, <1>2, <1>3, OneRowChanges
  <1> QED
    BY <1>4, <1>5 DEF now, Groups

LEMMA LinkShows ==
    ASSUME NEW l \in {"connecting"} \cup LinkErrors, NEW managed, NEW others
    PROVE  FixedItems("up", managed) # FixedItems(l, others)
  <1>1. "StopService" \in FixedItems("up", managed)
    BY NotUp DEF FixedItems
  <1>2. "StopService" \notin FixedItems(l, others)
    <2>1. CASE l = "connecting"
      BY <2>1, NotUp DEF FixedItems
    <2>2. CASE l \in LinkErrors
      BY <2>2, NotUp DEF FixedItems
    <2> QED
      BY <2>1, <2>2
  <1> QED
    BY <1>1, <1>2

\* A table that comes or goes with the link shows.
LEMMA LinkMoves ==
    ASSUME ModelInv, ModelInv', stored = Build(link, mounts), ~(link = "up" /\ link' = "up"),
           Shape(Build(link', mounts')) = Shape(stored)
    PROVE  Groups(Build(link', mounts')) = Groups(stored)
  <1>1. Build(link', mounts').fixed = stored.fixed
    BY ShapeSays
  <1>2. link # "up" /\ link' # "up"
    <2>1. stored.fixed = FixedItems(link, stored.managed)
      BY Built
    <2>2. Build(link', mounts').fixed = FixedItems(link', Build(link', mounts').managed)
      BY DEF Build
    <2> QED
      BY <1>1, <2>1, <2>2, LinkShows DEF ModelInv
  <1>3. mounts = NoTable /\ mounts' = NoTable
    BY <1>2 DEF ModelInv, NoTable
  <1>4. DOMAIN NoTable = {}
    BY DEF NoTable
  <1>5. \A l : Build(l, NoTable).managed = {} /\ Build(l, NoTable).foreign = {}
    BY <1>4 DEF Build
  <1> QED
    BY <1>3, <1>5 DEF Groups

LEMMA InitDrawn == MenuInit => DrawnInv
  BY Built DEF MenuInit, DrawnInv, NoTable

\* Whatever leaves the model, the menu and the panel alone.
LEMMA NothingDrawn ==
    ASSUME DrawnInv, UNCHANGED <<link, mounts, stored, panel, resynced>>
    PROVE  DrawnInv'
  BY DEF DrawnInv

LEMMA EditsKeepDrawn ==
    ASSUME DrawnInv, UNCHANGED <<stored, panel, resynced>>,
           Shape(Build(link', mounts')) = Shape(stored) =>
               Groups(Build(link', mounts')) = Groups(stored)
    PROVE  DrawnInv'
  BY DEF DrawnInv

LEMMA RedrawKeepsDrawn ==
    ASSUME ModelInv, DrawnInv, Redraw
    PROVE  DrawnInv'
  <1>1. /\ stored' = Build(link, mounts) /\ UNCHANGED <<link, mounts>>
        /\ stored'.managed \cup stored'.foreign \subseteq Names
    BY Built DEF Redraw, ModelInv
  <1>2. Groups(Build(link', mounts')) = Groups(stored')
    BY <1>1
  <1>3. CASE Shape(Build(link, mounts)) = Shape(stored)
    BY <1>1, <1>2, <1>3 DEF Redraw, DrawnInv
  <1>4. CASE Shape(Build(link, mounts)) # Shape(stored)
    <2>1. panel' = {}
      BY <1>4 DEF Redraw
    <2> QED
      BY <1>1, <1>2, <2>1 DEF DrawnInv
  <1> QED
    BY <1>3, <1>4

LEMMA FetchKeepsDrawn ==
    ASSUME DrawnInv, Fetch
    PROVE  DrawnInv'
  <1>1. panel' = {stored} /\ UNCHANGED <<link, mounts, stored>>
    BY DEF Fetch
  <1>2. ~resynced' => ~resynced \/ stored = Build(link, mounts)
    BY DEF Fetch
  <1> QED
    BY <1>1, <1>2 DEF DrawnInv

LEMMA NextKeepsDrawn ==
    ASSUME ModelInv, ModelInv', DrawnInv, [MenuNext]_menuVars
    PROVE  DrawnInv'
  <1>1. ASSUME NEW drawn \in panel, NEW place \in Places(drawn), Click(place)
        PROVE  DrawnInv'
    BY <1>1, NothingDrawn DEF Click, Act
  <1>2. CASE Activate \/ RetryNow \/ UNCHANGED menuVars
    BY <1>2, NothingDrawn DEF Activate, Act, RetryNow, menuVars
  <1>3. CASE GoDown \/ GoConnecting
    <2>1. link' # "up" /\ UNCHANGED <<stored, panel, resynced>> /\ stored = Build(link, mounts)
      BY <1>3, NotUp, MenuAssumption DEF GoDown, GoConnecting, Forget, Drawable
    <2> QED
      BY <2>1, LinkMoves, EditsKeepDrawn
  <1>4. CASE GoUp
    BY <1>4, LinkMoves, EditsKeepDrawn DEF GoUp, Drawable
  <1>5. CASE Resync
    BY <1>5 DEF Resync, DrawnInv
  <1>6. ASSUME NEW n \in Names, RemoveMount(n)
        PROVE  DrawnInv'
    BY <1>6, EditOfOneRow, EditsKeepDrawn DEF RemoveMount, Drawable
  <1>7. ASSUME NEW n \in Names, NEW view \in Drawn, UpsertMount(n, view)
        PROVE  DrawnInv'
    BY <1>7, EditOfOneRow, EditsKeepDrawn DEF UpsertMount, Drawable
  <1>8. ASSUME NEW target \in BagToSet(tasks), Succeeds(target) \/ Fails(target)
        PROVE  DrawnInv'
    BY <1>8, NothingDrawn DEF Succeeds, Fails
  <1> QED
    BY <1>1, <1>2, <1>3, <1>4, <1>5, <1>6, <1>7, <1>8, RedrawKeepsDrawn, FetchKeepsDrawn
       DEF MenuNext

LEMMA DrawnStays == MenuSpec => [](ModelInv /\ DrawnInv)
  <1>1. ModelInv /\ DrawnInv /\ [MenuNext]_menuVars => ModelInv' /\ DrawnInv'
    BY NextKeepsModel, NextKeepsDrawn
  <1> QED
    BY <1>1, InitModel, InitDrawn, PTL DEF MenuSpec

\* The row at a place is of the same mount in both.
LEMMA SameRow ==
    ASSUME NEW one, NEW other, Groups(one) = Groups(other), NEW place \in Places(one)
    PROVE  Row(one, place) = Row(other, place)
  <1>1. place.group \in {"fixed", "managed", "foreign"}
    BY DEF Places
  <1>2. one.managed = other.managed /\ one.foreign = other.foreign
    BY DEF Groups
  <1>3. CASE place.group = "fixed"
    BY <1>3 DEF Row
  <1>4. CASE place.group = "managed"
    BY <1>2, <1>4 DEF Row
  <1>5. CASE place.group = "foreign"
    BY <1>2, <1>5 DEF Row
  <1> QED
    BY <1>1, <1>3, <1>4, <1>5

\* Whatever the model is when an item is clicked, it asks for nothing but what it says.
LEMMA ItemsAskWhatTheySay ==
    ASSUME NEW says, NEW n, NEW a, a \in Asked(says, n)
    PROVE  CASE says \in Verbs -> Target(a) = Target(Action(says, n))
             [] says = "Mount all" -> Target(a).about \in DOMAIN mounts /\ Target(a).wants
             [] says = "Unmount all" -> Target(a).about \in DOMAIN mounts /\ ~Target(a).wants
             [] OTHER -> Target(a).about = None
  <1>1. CASE says \in Verbs
    <2>1. Asked(says, n) = VerbAsked(says, n)
      BY <1>1 DEF Asked, Verbs
    <2>2. a = Action(says, n)
      BY <2>1 DEF VerbAsked
    <2> QED
      BY <1>1, <2>2 DEF Verbs
  <1>2. CASE says = "Mount all"
    <2>1. PICK m \in CanGoInBulk(TRUE) : a = Action("Mount", m)
      BY <1>2 DEF Asked, Verbs
    <2>2. m \in DOMAIN mounts
      BY DEF CanGoInBulk
    <2> QED
      BY <1>2, <2>1, <2>2 DEF Target, Action, Verbs
  <1>3. CASE says = "Unmount all"
    <2>1. PICK m \in CanGoInBulk(FALSE) : a = Action("Unmount", m)
      BY <1>3 DEF Asked, Verbs
    <2>2. m \in DOMAIN mounts
      BY DEF CanGoInBulk
    <2> QED
      BY <1>3, <2>1, <2>2 DEF Target, Action, Verbs
  <1>4. CASE says \notin Verbs \cup {"Mount all", "Unmount all"}
    <2>1. a.does \notin Verbs
      <3>1. CASE says = "Open"
        <4>1. PICK m : a = Action("Open", m)
          BY <3>1 DEF Asked, Verbs
        <4> QED
          BY <4>1 DEF Action, Verbs
      <3>2. CASE says # "Open"
        <4>1. Asked(says, n) = {Action(says, None)}
          BY <1>4, <3>2 DEF Asked, Verbs
        <4>2. a = Action(says, None)
          BY <4>1
        <4> QED
          BY <1>4, <4>2 DEF Action
      <3> QED
        BY <3>1, <3>2
    <2> QED
      BY <1>4, <2>1 DEF Target
  <1> QED
    BY <1>1, <1>2, <1>3, <1>4 DEF Verbs

\* What a click adds is what was read off the item.
LEMMA ClickAsks ==
    ASSUME ModelInv, DrawnInv, ~resynced,
           NEW drawn \in panel, NEW place \in Places(drawn), Click(place), NEW t \in Requested
    PROVE  CASE place.says \in Verbs -> t = Target(Action(place.says, Row(drawn, place)))
             [] place.says = "Mount all" -> t.about # None /\ t.wants
             [] place.says = "Unmount all" -> t.about # None /\ ~t.wants
             [] OTHER -> t.about = None
  <1> DEFINE n == Row(stored, place)
  <1>1. n = Row(drawn, place)
    BY SameRow DEF DrawnInv
  <1>2. Act(Asked(place.says, n)) /\ IsABag(tasks)
    BY DEF Click, ModelInv
  <1>3. PICK a \in Asked(place.says, n) : t = Target(a)
    BY <1>2, ActRequests DEF Requested
  <1>4. \A m \in DOMAIN mounts : m # None
    BY MenuAssumption DEF ModelInv
  <1> HIDE DEF n
  <1> QED
    BY <1>1, <1>3, <1>4, ItemsAskWhatTheySay DEF Verbs

\* With any number of mounts, and however they have moved between the drawing and the
\* click, a click asks nothing but what was read off the item: that verb, of that mount.
\* Rows that a refresh has exchanged since are set apart (menu.rs:286-296, 305-334).
THEOREM ClicksLand == MenuSpec => ClicksAskWhatWasDrawn
  <1>1. ModelInv /\ DrawnInv =>
            \A drawn \in panel : \A place \in Places(drawn) :
                ~resynced /\ Click(place) =>
                    \A t \in Requested :
                        CASE place.says \in Verbs -> t = Target(Action(place.says, Row(drawn, place)))
                          [] place.says = "Mount all" -> t.about # None /\ t.wants
                          [] place.says = "Unmount all" -> t.about # None /\ ~t.wants
                          [] OTHER -> t.about = None
    BY ClickAsks
  <1> QED
    BY <1>1, DrawnStays, PTL DEF ClicksAskWhatWasDrawn

(***************************************************************************)
(* Sums.  An induction on the size of a set is an argument about the least *)
(* size at which it fails.                                                 *)
(***************************************************************************)
\* What is summed after the element that is chosen first.
Rest(s) == s \ {CHOOSE x \in s : TRUE}

\* What the sum of the counts over a set is made of.
SumStep(g, s, r) == IF s = {} THEN 0 ELSE r[CHOOSE x \in s : TRUE].count + g[Rest(s)]

Below(S, n) == {s \in SUBSET S : Cardinality(s) <= n}

LEMMA RestIsSmaller ==
    ASSUME NEW S, IsFiniteSet(S), NEW s \in SUBSET S, s # {}
    PROVE  /\ Rest(s) \in SUBSET S
           /\ (CHOOSE x \in s : TRUE) \in s
           /\ Cardinality(s) \in Nat \ {0}
           /\ Cardinality(Rest(s)) = Cardinality(s) - 1
  <1>1. (CHOOSE x \in s : TRUE) \in s
    OBVIOUS
  <1>2. IsFiniteSet(s)
    BY FS_Subset
  <1>3. Cardinality(s) \in Nat /\ Cardinality(s) # 0
    BY <1>2, FS_CardinalityType, FS_EmptySet
  <1>4. Cardinality(Rest(s)) = Cardinality(s) - 1
    BY <1>1, <1>2, FS_RemoveElement DEF Rest
  <1> QED
    BY <1>1, <1>3, <1>4 DEF Rest

LEMMA SumExists ==
    ASSUME NEW S, IsFiniteSet(S), NEW r
    PROVE  \E g : g = [s \in SUBSET S |-> SumStep(g, s, r)]
  <1> DEFINE Summed(n) == \E g : /\ g = [s \in Below(S, n) |-> g[s]]
                                 /\ \A s \in Below(S, n) : g[s] = SumStep(g, s, r)
             failing == {n \in Nat : ~Summed(n)}
  <1>1. Summed(0)
    <2> DEFINE g == [s \in Below(S, 0) |-> 0]
    <2>1. \A s \in Below(S, 0) : s = {}
      BY FS_Subset, FS_EmptySet, FS_CardinalityType DEF Below
    <2>2. \A s \in Below(S, 0) : g[s] = SumStep(g, s, r)
      BY <2>1 DEF SumStep
    <2>3. g = [s \in Below(S, 0) |-> g[s]]
      OBVIOUS
    <2> HIDE DEF g
    <2> QED
      BY <2>2, <2>3
  <1>2. ASSUME NEW n \in Nat, Summed(n) PROVE Summed(n + 1)
    <2>1. PICK g : \A s \in Below(S, n) : g[s] = SumStep(g, s, r)
      BY <1>2
    <2> DEFINE h == [s \in Below(S, n + 1) |-> SumStep(g, s, r)]
    <2>2. \A s \in Below(S, n + 1) : s # {} => Rest(s) \in Below(S, n)
      <3> SUFFICES ASSUME NEW s \in Below(S, n + 1), s # {} PROVE Rest(s) \in Below(S, n)
        OBVIOUS
      <3>1. s \in SUBSET S /\ Cardinality(s) <= n + 1
        BY DEF Below
      <3> QED
        BY <3>1, RestIsSmaller DEF Below
    <2>3. Below(S, n) \subseteq Below(S, n + 1)
      <3> SUFFICES ASSUME NEW s \in Below(S, n) PROVE s \in Below(S, n + 1)
        OBVIOUS
      <3>1. s \in SUBSET S /\ Cardinality(s) <= n
        BY DEF Below
      <3>2. Cardinality(s) \in Nat
        BY <3>1, FS_Subset, FS_CardinalityType
      <3> QED
        BY <3>1, <3>2 DEF Below
    <2>4. \A s \in Below(S, n) : h[s] = g[s]
      BY <2>1, <2>3
    <2>5. \A s \in Below(S, n + 1) : h[s] = SumStep(h, s, r)
      <3> SUFFICES ASSUME NEW s \in Below(S, n + 1) PROVE h[s] = SumStep(h, s, r)
        OBVIOUS
      <3>1. h[s] = SumStep(g, s, r)
        OBVIOUS
      <3>2. s # {} => h[Rest(s)] = g[Rest(s)]
        BY <2>2, <2>4
      <3> HIDE DEF h
      <3> QED
        BY <3>1, <3>2 DEF SumStep
    <2>6. h = [s \in Below(S, n + 1) |-> h[s]]
      OBVIOUS
    <2> HIDE DEF h
    <2> QED
      BY <2>5, <2>6
  <1>3. failing = {}
    <2> SUFFICES ASSUME failing # {} PROVE FALSE
      OBVIOUS
    <2>1. failing \in SUBSET Nat
      OBVIOUS
    <2>2. PICK n \in failing : \A m \in failing : n <= m
      <3> HIDE DEF failing
      <3> QED
        BY <2>1, SomeLeast
    <2>3. n \in Nat /\ ~Summed(n)
      OBVIOUS
    <2> HIDE DEF Summed
    <2>4. n # 0
      BY <1>1, <2>3
    <2>5. n - 1 \in Nat /\ n - 1 \notin failing
      <3> HIDE DEF failing
      <3> QED
        BY <2>2, <2>3, <2>4
    <2>6. Summed(n - 1)
      BY <2>5
    <2>7. Summed((n - 1) + 1)
      BY <1>2, <2>5, <2>6
    <2>8. (n - 1) + 1 = n
      BY <2>3
    <2> QED
      BY <2>3, <2>7, <2>8
  <1>4. Cardinality(S) \in Nat
    BY FS_CardinalityType
  <1>5. Summed(Cardinality(S))
    <2> HIDE DEF Summed
    <2> QED
      BY <1>3, <1>4
  <1>6. Below(S, Cardinality(S)) = SUBSET S
    BY FS_Subset DEF Below
  <1>7. PICK g : /\ g = [s \in SUBSET S |-> g[s]]
                 /\ \A s \in SUBSET S : g[s] = SumStep(g, s, r)
    BY <1>5, <1>6
  <1>8. g = [s \in SUBSET S |-> SumStep(g, s, r)]
    BY <1>7
  <1> QED
    BY <1>8

\* The total of what is pending at the mounts of a set.
CountOver(r, S) == MapThenSumSet(LAMBDA n : r[n].count, S)

LEMMA SumOfCounts ==
    ASSUME NEW S, IsFiniteSet(S), NEW r, \A n \in S : r[n].count \in Nat
    PROVE  /\ CountOver(r, S) \in Nat
           /\ CountOver(r, S) = 0 <=> \A n \in S : r[n].count = 0
  <1> DEFINE iter == CHOOSE g : g = [s \in SUBSET S |-> SumStep(g, s, r)]
             Good(s) == /\ iter[s] \in Nat
                        /\ iter[s] = 0 <=> \A n \in s : r[n].count = 0
             sizes == {k \in Nat : \E s \in SUBSET S : Cardinality(s) = k /\ ~Good(s)}
  <1>1. \A s \in SUBSET S : iter[s] = SumStep(iter, s, r)
    <2>1. iter = [s \in SUBSET S |-> SumStep(iter, s, r)]
      BY SumExists
    <2> HIDE DEF iter
    <2> QED
      BY <2>1
  <1>2. CountOver(r, S) = iter[S]
    BY DEF CountOver, MapThenSumSet, MapThenFoldSet, SumStep, Rest
  <1> HIDE DEF iter
  <1>3. sizes = {}
    <2> SUFFICES ASSUME sizes # {} PROVE FALSE
      OBVIOUS
    <2>1. PICK k \in sizes : \A m \in sizes : k <= m
      <3>1. sizes \in SUBSET Nat
        OBVIOUS
      <3> HIDE DEF sizes
      <3> QED
        BY <3>1, SomeLeast
    <2>2. PICK s \in SUBSET S : Cardinality(s) = k /\ ~Good(s)
      OBVIOUS
    <2>3. s # {}
      BY <1>1, <2>2 DEF SumStep
    <2> DEFINE x == CHOOSE x \in s : TRUE
    <2>4. /\ Rest(s) \in SUBSET S /\ x \in s /\ k \in Nat \ {0}
          /\ Cardinality(Rest(s)) = k - 1
      BY <2>2, <2>3, RestIsSmaller
    <2>5. Good(Rest(s))
      <3>1. k - 1 \in Nat /\ ~(k <= k - 1)
        BY <2>4
      <3>2. k - 1 \notin sizes
        <4> HIDE DEF sizes
        <4> QED
          BY <2>1, <3>1
      <3> HIDE DEF Good
      <3> QED
        BY <2>4, <3>1, <3>2
    <2>6. iter[s] = r[x].count + iter[Rest(s)]
      BY <1>1, <2>3 DEF SumStep
    <2>7. r[x].count \in Nat /\ s = Rest(s) \cup {x}
      BY <2>4 DEF Rest
    <2> HIDE DEF x
    <2>8. Good(s)
      BY <2>5, <2>6, <2>7
    <2> QED
      BY <2>2, <2>8
  <1>4. Good(S)
    <2>1. Cardinality(S) \in Nat
      BY FS_CardinalityType
    <2> HIDE DEF Good
    <2> QED
      BY <1>3, <2>1
  <1> QED
    BY <1>2, <1>4

(***************************************************************************)
(* What is said of a table                                                 *)
(***************************************************************************)
\* Any reading a client can get: the figures are numbers, and live progress comes from T2.
Legible ==
    [tier : {"T2", "T3", "T4", Novel, None}, known : BOOLEAN, reason : BOOLEAN, count : Nat,
     unsized : Nat, health : Healths, rate : Rates]

LEMMA ReadingsAreLegible == Readings(MaxCount) \subseteq Legible
  <1>1. MaxCount \in Nat
    BY MenuAssumption
  <1>2. \A n \in 0..MaxCount : n \in Nat
    BY <1>1
  <1>3. ASSUME NEW tier \in {"T2", "T3", "T4"}, NEW known \in BOOLEAN, NEW reason \in BOOLEAN,
               NEW count \in 0..MaxCount, NEW unsized \in 0..MaxCount,
               NEW health \in Healths, NEW rate \in Rates
        PROVE  TransferView(tier, known, reason, count, unsized, health, rate) \in Legible
    BY <1>2 DEF TransferView, Legible
  <1>4. /\ QueueReadings(MaxCount) \subseteq Legible
        /\ StatsReadings(MaxCount) \subseteq Legible
        /\ ScanReadings(MaxCount) \subseteq Legible
    <2>1. None \in Rates /\ "unasked" \in Healths /\ TRUE \in BOOLEAN
      BY DEF Rates, Healths
    <2>2. \A known \in BOOLEAN : (~known) \in BOOLEAN
      OBVIOUS
    <2>3. ASSUME NEW r \in QueueReadings(MaxCount) PROVE r \in Legible
      <3>1. PICK known \in BOOLEAN, count \in 0..MaxCount, unsized \in 0..MaxCount,
                 health \in Healths, rate \in Rates :
                r = TransferView("T2", known, ~known, count, unsized, health, rate)
        BY DEF QueueReadings
      <3> QED
        BY <1>3, <2>1, <2>2, <3>1
    <2>4. ASSUME NEW r \in StatsReadings(MaxCount) PROVE r \in Legible
      <3>1. PICK known \in BOOLEAN, count \in 0..MaxCount, health \in Healths \ {"unasked"} :
                r = TransferView("T3", known, ~known, count, count, health, None)
        BY DEF StatsReadings
      <3> QED
        BY <1>3, <2>1, <2>2, <3>1
    <2>5. ASSUME NEW r \in ScanReadings(MaxCount) PROVE r \in Legible
      <3>1. PICK known \in BOOLEAN, count \in 0..MaxCount, unsized \in 0..MaxCount :
                r = TransferView("T4", known, TRUE, count, unsized, "unasked", None)
        BY SMT DEF ScanReadings, TransferView
      <3> QED
        BY <1>3, <2>1, <2>2, <3>1
    <2> QED
      BY <2>3, <2>4, <2>5
  <1>5. Unmonitored \in Legible
    BY DEF Unmonitored, TransferView, Legible, Rates, Healths
  <1>6. \A r \in Legible : [r EXCEPT !.tier = Novel] \in Legible
    BY DEF Legible
  <1> HIDE DEF Legible
  <1> QED
    BY <1>4, <1>5, <1>6 DEF Readings

LEMMA UnflattensTier ==
    ASSUME NEW v \in Legible
    PROVE  LET r == Unflatten(v)
           IN  /\ r.known = v.known /\ r.reason = v.reason /\ r.count = v.count
               /\ r.unsized = v.unsized /\ r.tier = TierFromName(v.tier)
  BY DEF Unflatten, Legible

LEMMA VouchedTier ==
    ASSUME NEW v \in Legible, Vouched(Unflatten(v))
    PROVE  v.unsized = 0 /\ v.known /\ v.tier \in {"T2", "T4"}
  <1>1. /\ Unflatten(v).unsized = 0 /\ Unflatten(v).known
        /\ TierFromName(v.tier) \notin {"T3", None}
    BY UnflattensTier DEF Vouched, HasByteTotal
  <1>2. v.tier \in {"T2", "T3", "T4", Novel, None}
    BY DEF Legible
  <1> QED
    BY <1>1, <1>2, UnflattensTier DEF TierFromName, Tiers, Novel, None

\* A table of finitely many rows, and readings of some of those that are ours.
Table(ms, views) ==
    /\ IsFiniteSet(DOMAIN ms)
    /\ DOMAIN views \subseteq Ours(ms)
    /\ \A n \in DOMAIN views : views[n] \in Legible

Told(views) == [n \in DOMAIN views |-> Unflatten(views[n])]

Unread(ms, views) == Ours(ms) \ DOMAIN views

Blind(views) == {n \in DOMAIN views : views[n].reason \/ ~views[n].known}

LEMMA SummaryTells ==
    ASSUME NEW ms, NEW views, Table(ms, views)
    PROVE  LET s == Summary(ms, Told(views))
           IN  /\ s.unobservable = Cardinality(Unread(ms, views)) + Cardinality(Blind(views))
               /\ s.failed = Cardinality({n \in DOMAIN ms : ms[n].state = "failed"})
               /\ s.live = Cardinality(Live(ms)) /\ s.unmanaged = Cardinality(Unmanaged(ms))
               /\ s.files = CountOver(Told(views), DOMAIN views)
               /\ s.estimable => /\ s.unobservable = 0
                                 /\ \A n \in DOMAIN views :
                                       views[n].count > 0 => Vouched(Unflatten(views[n]))
  <1> DEFINE told == Told(views)
  <1>1. DOMAIN told = DOMAIN views /\ \A n \in DOMAIN views : told[n] = Unflatten(views[n])
    BY DEF Told
  <1>2. Ours(ms) \cap DOMAIN told = DOMAIN views
    BY <1>1 DEF Table
  <1>3. {n \in DOMAIN views : told[n].reason \/ ~told[n].known} = Blind(views)
    BY <1>1, UnflattensTier DEF Blind, Table
  <1>4. Ours(ms) \ DOMAIN told = Unread(ms, views)
    BY <1>1 DEF Unread
  <1>5. \A n \in DOMAIN views : told[n].count = views[n].count
    BY <1>1, UnflattensTier DEF Table
  <1> DEFINE s == Summary(ms, told)
  <1>6. /\ s.failed = Cardinality({n \in DOMAIN ms : ms[n].state = "failed"})
        /\ s.live = Cardinality(Live(ms)) /\ s.unmanaged = Cardinality(Unmanaged(ms))
    BY DEF Summary, Aggregate
  <1>7. s.unobservable = Cardinality(Unread(ms, views)) + Cardinality(Blind(views))
    <2>1. s.unobservable =
              Cardinality(Ours(ms) \ DOMAIN told)
              + Cardinality({n \in Ours(ms) \cap DOMAIN told : told[n].reason \/ ~told[n].known})
      <3> HIDE DEF told
      <3> QED
        BY DEF Summary, Aggregate
    <2> QED
      BY <1>2, <1>3, <1>4, <2>1
  <1>8. s.files = CountOver(told, DOMAIN views)
    <2>1. s.files = CountOver(told, Ours(ms) \cap DOMAIN told)
      <3> HIDE DEF told
      <3> QED
        BY DEF CountOver, Summary, Aggregate
    <2> QED
      BY <1>2, <2>1
  <1>9. s.estimable = (/\ s.unobservable = 0
                       /\ \A n \in Ours(ms) \cap DOMAIN told :
                             told[n].count > 0 => Vouched(told[n]))
    <2> HIDE DEF told
    <2> QED
      BY DEF Summary, Aggregate
  <1> HIDE DEF s, told
  <1>10. s.estimable => \A n \in DOMAIN views :
                            views[n].count > 0 => Vouched(Unflatten(views[n]))
    BY <1>1, <1>2, <1>5, <1>9
  <1> QED
    BY <1>6, <1>7, <1>8, <1>9, <1>10 DEF s, told

\* What the figures of a summary stand for.
LEMMA SummaryCounts ==
    ASSUME NEW ms, NEW views, Table(ms, views)
    PROVE  LET s == Summary(ms, Told(views))
           IN  /\ s.unobservable \in Nat
               /\ s.unobservable = 0 => /\ Ours(ms) = DOMAIN views
                                        /\ \A n \in Ours(ms) : views[n].known /\ ~views[n].reason
               /\ s.files \in Nat
               /\ s.files = 0 <=> \A n \in DOMAIN views : views[n].count = 0
               /\ s.failed > 0 <=> \E n \in DOMAIN ms : ms[n].state = "failed"
               /\ s.live = s.unmanaged <=> Ours(ms) = {}
               /\ s.unmanaged = 0 <=> Unmanaged(ms) = {}
  <1> DEFINE s == Summary(ms, Told(views))
             failed == {n \in DOMAIN ms : ms[n].state = "failed"}
  <1>1. /\ Live(ms) \subseteq DOMAIN ms /\ Unmanaged(ms) \subseteq Live(ms)
        /\ Ours(ms) = Live(ms) \ Unmanaged(ms) /\ DOMAIN views \subseteq Ours(ms)
    BY DEF Live, Unmanaged, Ours, Table
  <1>2. /\ IsFiniteSet(Unread(ms, views)) /\ IsFiniteSet(Blind(views)) /\ IsFiniteSet(failed)
        /\ IsFiniteSet(Live(ms)) /\ IsFiniteSet(Unmanaged(ms)) /\ IsFiniteSet(DOMAIN views)
    <2>1. /\ Unread(ms, views) \subseteq DOMAIN ms /\ Blind(views) \subseteq DOMAIN ms
          /\ failed \subseteq DOMAIN ms /\ Live(ms) \subseteq DOMAIN ms
          /\ Unmanaged(ms) \subseteq DOMAIN ms /\ DOMAIN views \subseteq DOMAIN ms
      BY <1>1 DEF Unread, Blind
    <2> HIDE DEF failed
    <2> QED
      BY <2>1, FS_Subset DEF Table
  <1>3. /\ s.unobservable = Cardinality(Unread(ms, views)) + Cardinality(Blind(views))
        /\ s.failed = Cardinality(failed)
        /\ s.live = Cardinality(Live(ms)) /\ s.unmanaged = Cardinality(Unmanaged(ms))
        /\ s.files = CountOver(Told(views), DOMAIN views)
    BY SummaryTells
  <1> HIDE DEF s, failed
  <1>4. s.unobservable \in Nat /\ (s.unobservable = 0 => Unread(ms, views) = {} /\ Blind(views) = {})
    <2> DEFINE unread == Cardinality(Unread(ms, views))
               blind == Cardinality(Blind(views))
    <2>1. /\ unread \in Nat /\ blind \in Nat
          /\ unread = 0 => Unread(ms, views) = {}
          /\ blind = 0 => Blind(views) = {}
      BY <1>2, FS_CardinalityType, FS_EmptySet
    <2>2. s.unobservable = unread + blind
      BY <1>3
    <2> HIDE DEF unread, blind
    <2>3. s.unobservable \in Nat /\ (s.unobservable = 0 => unread = 0 /\ blind = 0)
      BY <2>1, <2>2
    <2> QED
      BY <2>1, <2>3
  <1>5. Unread(ms, views) = {} /\ Blind(views) = {} =>
            /\ Ours(ms) = DOMAIN views
            /\ \A n \in Ours(ms) : views[n].known /\ ~views[n].reason
    BY <1>1 DEF Unread, Blind
  <1>6. s.files \in Nat /\ (s.files = 0 <=> \A n \in DOMAIN views : views[n].count = 0)
    <2> DEFINE told == Told(views)
    <2>1. \A n \in DOMAIN views : told[n].count = views[n].count /\ views[n].count \in Nat
      BY UnflattensTier DEF Told, Table, Legible
    <2>2. s.files = CountOver(told, DOMAIN views)
      BY <1>3
    <2> HIDE DEF told
    <2>3. \A n \in DOMAIN views : told[n].count \in Nat
      BY <2>1
    <2> QED
      BY <1>2, <2>1, <2>2, <2>3, SumOfCounts
  <1>7. s.failed > 0 <=> \E n \in DOMAIN ms : ms[n].state = "failed"
    <2>1. Cardinality(failed) \in Nat /\ (Cardinality(failed) = 0 <=> failed = {})
      BY <1>2, FS_CardinalityType, FS_EmptySet
    <2>2. failed # {} <=> \E n \in DOMAIN ms : ms[n].state = "failed"
      BY DEF failed
    <2> QED
      BY <1>3, <2>1, <2>2
  <1>8. s.live = s.unmanaged <=> Ours(ms) = {}
    <2>1. Cardinality(Live(ms)) = Cardinality(Unmanaged(ms)) => Live(ms) = Unmanaged(ms)
      BY <1>1, <1>2, FS_Subset
    <2>2. Ours(ms) = {} => Live(ms) = Unmanaged(ms)
      BY <1>1
    <2> QED
      BY <1>1, <1>3, <2>1, <2>2
  <1>9. s.unmanaged = 0 <=> Unmanaged(ms) = {}
    BY <1>2, <1>3, FS_EmptySet
  <1> QED
    BY <1>4, <1>5, <1>6, <1>7, <1>8, <1>9 DEF s

\* Whatever the table and the readings are, nothing is claimed of them that they do not
\* show.
LEMMA TableIsHonest ==
    ASSUME NEW ms, NEW views, Table(ms, views)
    PROVE  HonestTable(ms, views)
  <1> DEFINE readings == Told(views)
             s == Summary(ms, readings)
             state == State("up", s)
             told == Described("up", s)
  <1>1. /\ s.unobservable \in Nat
        /\ s.unobservable = 0 => /\ Ours(ms) = DOMAIN views
                                 /\ \A n \in Ours(ms) : views[n].known /\ ~views[n].reason
        /\ s.files \in Nat
        /\ s.files = 0 <=> \A n \in DOMAIN views : views[n].count = 0
        /\ s.failed > 0 <=> \E n \in DOMAIN ms : ms[n].state = "failed"
        /\ s.live = s.unmanaged <=> Ours(ms) = {}
        /\ s.unmanaged = 0 <=> Unmanaged(ms) = {}
    BY SummaryCounts
  <1>2. s.estimable => /\ s.unobservable = 0
                       /\ \A n \in DOMAIN views :
                             views[n].count > 0 => Vouched(Unflatten(views[n]))
    BY SummaryTells
  <1>3. told[2] = PendingLine(s) /\ told[3] = RateLine(s)
    BY DEF Described
  <1>4. /\ DOMAIN readings = DOMAIN views
        /\ \A n \in DOMAIN views : /\ readings[n].count = views[n].count
                                   /\ readings[n].known = views[n].known
                                   /\ views[n].count \in Nat /\ views[n].known \in BOOLEAN
    BY UnflattensTier DEF Told, Table, Legible
  <1>5. DOMAIN views \subseteq Ours(ms)
    BY DEF Table
  <1> HIDE DEF s, readings
  <1>6. state = (IF s.failed > 0 \/ s.errored \/ s.full THEN "attention"
                 ELSE IF s.unobservable > 0 THEN "degraded"
                 ELSE IF s.files > 0 THEN "syncing"
                 ELSE IF s.live = s.unmanaged THEN "offline" ELSE "idle")
    BY DEF State
  <1>7. PendingLine(s) = (IF s.live = s.unmanaged THEN None
                          ELSE IF s.files = 0
                               THEN IF s.unobservable > 0 THEN "unknown" ELSE "all_synced"
                          ELSE IF s.unobservable > 0 THEN "at_least" ELSE "pending")
    BY DEF PendingLine
  <1> HIDE DEF state, told
  <1>8. state = "idle" \/ told[2] = "all_synced" =>
            s.unobservable = 0 /\ s.files = 0 /\ s.live # s.unmanaged
    BY <1>1, <1>3, <1>6, <1>7 DEF None
  <1>9. state = "idle" \/ told[2] = "all_synced" =>
            /\ Ours(ms) # {}
            /\ \A n \in Ours(ms) : Clear(n, views) /\ ~views[n].reason
    BY <1>1, <1>8 DEF Clear
  <1>10. told[2] = "all_synced" => state \in {"idle", "attention"}
    BY <1>1, <1>6, <1>8
  <1>11. \A n \in DOMAIN views : /\ Clear(n, views) <=> PendingHeadline(n, readings) = "all_synced"
                                 /\ Clear(n, views) <=> PendingSummary(n, views) = "up_to_date"
    BY <1>4 DEF Clear, PendingHeadline, PendingSummary
  <1>12. told[3] = "with_time_left" =>
             \A n \in Ours(ms) :
                 /\ n \in DOMAIN views /\ views[n].known /\ ~views[n].reason
                 /\ views[n].count > 0 => views[n].unsized = 0 /\ views[n].tier \in {"T2", "T4"}
    <2> SUFFICES ASSUME told[3] = "with_time_left", NEW n \in Ours(ms)
                 PROVE  /\ n \in DOMAIN views /\ views[n].known /\ ~views[n].reason
                        /\ views[n].count > 0 =>
                              views[n].unsized = 0 /\ views[n].tier \in {"T2", "T4"}
      OBVIOUS
    <2>1. s.estimable
      BY <1>3 DEF RateLine, None
    <2>2. n \in DOMAIN views /\ views[n].known /\ ~views[n].reason
      BY <1>1, <1>2, <2>1
    <2>3. views[n].count > 0 => Vouched(Unflatten(views[n]))
      BY <1>2, <2>1, <2>2
    <2> QED
      BY <2>2, <2>3, VouchedTier DEF Table
  <1>13. (\E n \in DOMAIN ms : ms[n].state = "failed") => NeedsAttention(state)
    BY <1>1, <1>6 DEF NeedsAttention
  <1>14. state = "offline" => Ours(ms) = {}
    BY <1>1, <1>6
  <1>15. Unmanaged(ms) # {} => Headline(state, s) \notin {"idle", "offline"}
    <2>1. Unmanaged(ms) # {} => s.unmanaged # 0
      BY <1>1
    <2> QED
      BY <2>1 DEF Headline
  <1>16. state = "syncing" => told[2] = "pending"
    <2> SUFFICES ASSUME state = "syncing" PROVE told[2] = "pending"
      OBVIOUS
    <2>1. s.unobservable = 0 /\ s.files # 0
      BY <1>1, <1>6
    <2>2. Ours(ms) # {}
      BY <1>1, <1>5, <2>1
    <2> QED
      BY <1>1, <1>3, <1>7, <2>1, <2>2
  <1> QED
    BY <1>9, <1>10, <1>11, <1>12, <1>13, <1>14, <1>15, <1>16
       DEF HonestTable, told, state, s, readings, Told

LEMMA LinkIsHonest == HonestLink
  <1>1. ASSUME NEW error \in LinkErrors, NEW command \in Commands
        PROVE  LET left == Execute(command, error, <<>>)
               IN  /\ left.printed = {}
                   /\ left.code # 0
                   /\ left.code = 1 <=> error = "Refused"
                   /\ left.complains <=> left.reason = None
    <2>1. error # None
      BY DEF LinkErrors, None
    <2>2. ExitCode(error) # 0 /\ (ExitCode(error) = 1 <=> error = "Refused")
      <3>1. CASE error = "Refused"
        BY <3>1 DEF ExitCode
      <3>2. CASE error = "NotRunning"
        BY <3>2 DEF ExitCode
      <3>3. CASE error \in {"Incompatible", "TooOld"}
        BY <3>3 DEF ExitCode
      <3>4. CASE error \in {"NoSessionBus", "Transport", "Silent"}
        BY <3>4 DEF ExitCode
      <3> QED
        BY <3>1, <3>2, <3>3, <3>4 DEF LinkErrors
    <2>3. DisconnectedReason(error) # None
      BY DEF LinkErrors, DisconnectedReason, None
    <2> QED
      BY <2>1, <2>2, <2>3 DEF Execute
  <1>2. \A name \in ErrorNames : OfferStart(FromZbus(name)) <=> name \in NoOwner
    BY DEF ErrorNames, OfferStart, FromZbus, NoOwner, NotOurs
  <1>3. \A refusal \in Refusals : ExitCode(FromIpc(refusal)) = 1
    BY DEF Refusals, ExitCode, FromIpc
  <1> QED
    BY <1>1, <1>2, <1>3 DEF HonestLink

\* Whatever mounts are listed, whatever a poll can publish of any of them and however many
\* files it counts: "up to date" and "all synced" are said only where every mount of ours
\* that serves has a reading that says so, an estimate only where every reading can be
\* added up, and the icon, the menu and the command line say it of the same mounts
\* (model.rs:170-190, 388-486; menu.rs:230-245; client.rs:279-295).
THEOREM SurfacesStayHonest == MenuSpec => []SurfacesAreHonest
  <1>1. ModelInv => SurfacesAreHonest
    <2> SUFFICES ASSUME ModelInv
                 PROVE  \A read \in SUBSET Ours(mounts) : \A views \in [read -> Readings(MaxCount)] :
                            HonestTable(mounts, views)
      BY LinkIsHonest DEF SurfacesAreHonest
    <2> TAKE read \in SUBSET Ours(mounts)
    <2> TAKE views \in [read -> Readings(MaxCount)]
    <2>1. IsFiniteSet(DOMAIN mounts)
      BY NamesAreFinite, FS_Subset DEF ModelInv
    <2>2. \A n \in DOMAIN views : views[n] \in Legible
      BY ReadingsAreLegible
    <2> QED
      BY <2>1, <2>2, TableIsHonest DEF Table
  <1> QED
    BY <1>1, ModelStays, PTL

(***************************************************************************)
(* What a unit said                                                        *)
(***************************************************************************)
Unrepeated(said, text) ==
    IF said # <<>> /\ Last(said) = text THEN said ELSE Append(said, text)

RepeatStep(S) == [x \in Seq(S) \X S |-> Unrepeated(x[1], x[2])]

LEMMA RepeatsIsFolded ==
    ASSUME NEW S, NEW text \in Seq(S)
    PROVE  /\ Acts(RepeatStep(S), Seq(S), S)
           /\ Folded(Seq(S), RepeatStep(S), <<>>, text, WithoutRepeats(text))
  <1> DEFINE n == Len(text)
             V == Seq(S)
             E == S
             G == RepeatStep(S)
             base == <<>>
             Step(x, c) == Unrepeated(x, c)
             Folds(g) == g = [s \in SUBSET (1..n) |->
                                 IF s = {} THEN base ELSE Step(g[s \ {Max(s)}], text[Max(s)])]
             iter == CHOOSE g : Folds(g)
  <1>1. \A x \in V, c \in E : Step(x, c) \in V
    BY AppendProperties DEF Unrepeated
  <1>2. \A x \in V, c \in E : G[<<x, c>>] = Step(x, c)
    BY DEF RepeatStep
  <1>3. WithoutRepeats(text) = iter[1..n]
    <2>1. DOMAIN text = 1..n
      BY LenProperties
    <2> QED
      BY <2>1 DEF WithoutRepeats, FoldLeft, MapThenFoldSet, Unrepeated
  <1>4. G = [x \in V \X E |-> Step(x[1], x[2])]
    BY DEF RepeatStep
  <1>13. base \in V
    BY DEF V, base
  <1> HIDE DEF Step, G, V, E, base
  <1>14. text \in Seq(E)
    BY DEF E
  <1>5. Acts(G, V, E)
    BY <1>1, <1>4 DEF Acts
  <1>6. PICK h : Iterator(V, G, base, text, h)
    BY <1>5, <1>13, <1>14, IteratorExists DEF HasIterator
  <1>7. ASSUME NEW s \in SUBSET (1..n)
        PROVE  h[s] = IF s = {} THEN base ELSE Step(h[s \ {Max(s)}], text[Max(s)])
    <2>1. CASE s = {}
      BY <1>6, <2>1 DEF Iterator, Iterates
    <2>2. CASE s # {}
      <3>1. text[Max(s)] \in E /\ s \ {Max(s)} \in SUBSET (1..n)
        BY <1>14, <2>2, GreatestOf
      <3>2. h[s \ {Max(s)}] \in V
        BY <1>6, <3>1 DEF Iterator
      <3>3. h[s] = G[<<h[s \ {Max(s)}], text[Max(s)]>>]
        BY <1>6, <2>2, <3>2 DEF Iterator, Iterates
      <3> QED
        BY <1>2, <2>2, <3>1, <3>2, <3>3
    <2> QED
      BY <2>1, <2>2
  <1>8. Folds(h)
    BY <1>6, <1>7 DEF Iterator
  <1>9. Folds(iter)
    BY <1>8
  <1> HIDE DEF iter
  <1>10. ASSUME NEW s \in SUBSET (1..n), s # {}, iter[s \ {Max(s)}] \in V
         PROVE  iter[s] = G[<<iter[s \ {Max(s)}], text[Max(s)]>>]
    <2>1. text[Max(s)] \in E
      BY <1>10, <1>14, GreatestOf
    <2>2. iter[s] = Step(iter[s \ {Max(s)}], text[Max(s)])
      BY <1>9, <1>10
    <2> QED
      BY <1>2, <1>10, <2>1, <2>2
  <1>11. Iterates(V, G, base, text, iter)
    BY <1>9, <1>10 DEF Iterates
  <1>12. Folded(V, G, base, text, iter[1..n])
    BY <1>5, <1>11, <1>13, <1>14, IteratesFolds
  <1> QED
    BY <1>3, <1>5, <1>12 DEF G, V, E, base

LEMMA RepeatsGrows ==
    ASSUME NEW S, NEW text \in Seq(S), NEW c \in S
    PROVE  /\ WithoutRepeats(<<>>) = <<>>
           /\ WithoutRepeats(text) \in Seq(S)
           /\ WithoutRepeats(Append(text, c)) = Unrepeated(WithoutRepeats(text), c)
  <1> DEFINE V == Seq(S)
             E == S
             G == RepeatStep(S)
             base == <<>>
             longer == Append(text, c)
             none == <<>>
  <1>1. longer \in Seq(E) /\ none \in Seq(E)
    BY AppendProperties
  <1>2. Acts(G, V, E) /\ Folded(V, G, base, text, WithoutRepeats(text))
    BY RepeatsIsFolded
  <1>3. Folded(V, G, base, longer, WithoutRepeats(longer)) /\ Folded(V, G, base, none, WithoutRepeats(none))
    <2> HIDE DEF longer, none
    <2> QED
      BY <1>1, RepeatsIsFolded
  <1>4. \A x \in V : G[<<x, c>>] = Unrepeated(x, c)
    BY DEF RepeatStep
  <1> HIDE DEF G, V, base
  <1>5. WithoutRepeats(none) = base
    BY <1>3, FoldedNothing
  <1> DEFINE r == WithoutRepeats(text)
             q == WithoutRepeats(longer)
  <1>6. Folded(V, G, base, text, r) /\ Folded(V, G, base, longer, q)
    BY <1>2, <1>3
  <1>7. EndsIn(E, longer, text, c)
    BY DEF EndsIn
  <1>8. r \in V /\ q = G[<<r, c>>]
    <2> HIDE DEF r, q, longer, E
    <2> QED
      BY <1>2, <1>6, <1>7, FoldedGrows
  <1> QED
    BY <1>4, <1>5, <1>8 DEF V, base

Newline == "\n"

\* Every text, words that are put into one included: the provers do not see that a word
\* with anything but letters in it is a string.
Chars ==
    STRING \cup {Newline, REDACTED, "[rclone's command line withheld]", "rclone", " ", "logged", "nothing",
                 Cut, "Failed:"}

HasInk(text) == \E c \in ToSet(text) : c \notin Blanks

LEMMA TuplesHold ==
    /\ \A a : ToSet(<<a>>) = {a}
    /\ \A a, b, c, d, e : ToSet(<<a, b, c, d, e>>) = {a, b, c, d, e}
  <1>1. ASSUME NEW a PROVE ToSet(<<a>>) = {a}
    <2>1. DOMAIN <<a>> = 1..1 /\ <<a>>[1] = a
      OBVIOUS
    <2>2. 1..1 = {1}
      OBVIOUS
    <2> DEFINE t == <<a>>
    <2> HIDE DEF t
    <2> QED
      BY <2>1, <2>2 DEF ToSet, t
  <1>2. ASSUME NEW a, NEW b, NEW c, NEW d, NEW e PROVE ToSet(<<a, b, c, d, e>>) = {a, b, c, d, e}
    <2> DEFINE t == <<a, b, c, d, e>>
    <2>1. DOMAIN t = 1..5 /\ t[1] = a /\ t[2] = b /\ t[3] = c /\ t[4] = d /\ t[5] = e
      OBVIOUS
    <2>2. 1..5 = {1, 2, 3, 4, 5}
      OBVIOUS
    <2> HIDE DEF t
    <2>3. ToSet(t) = {t[i] : i \in 1..5}
      BY <2>1 DEF ToSet
    <2> QED
      BY <2>1, <2>2, <2>3 DEF t
  <1> QED
    BY <1>1, <1>2

\* What is put into a reason, and that none of it is what is taken out.
LEMMA WordingIs ==
    /\ Newline \in Chars /\ Newline \in Wording /\ Newline \in Blanks
    /\ REDACTED \in Chars /\ REDACTED \in Wording /\ REDACTED \notin Blanks
    /\ ARGV_ECHO \notin Wording
    /\ ARGV_WITHHELD \in Seq(Chars) /\ ToSet(ARGV_WITHHELD) \subseteq Wording /\ HasInk(ARGV_WITHHELD)
    /\ NothingLogged \in Seq(Chars) /\ ToSet(NothingLogged) \subseteq Wording /\ HasInk(NothingLogged)
  <1> DEFINE withheld == "[rclone's command line withheld]"
             rclone == "rclone"
             space == " "
             logged == "logged"
             nothing == "nothing"
  <1>1. {Newline, REDACTED, withheld, rclone, space, logged, nothing} \subseteq Chars
    BY Zenon DEF Chars, Newline, REDACTED
  <1>2. /\ Newline \in Blanks /\ REDACTED \notin Blanks /\ withheld \notin Blanks /\ rclone \notin Blanks
    BY Zenon DEF Blanks, Newline, REDACTED
  <1>3. ARGV_ECHO \notin {Newline, REDACTED, withheld, rclone, space, logged, nothing}
    BY Zenon DEF ARGV_ECHO, Newline, REDACTED
  <1>4. ARGV_WITHHELD = <<withheld>> /\ NothingLogged = <<rclone, space, logged, space, nothing>>
    BY Zenon DEF ARGV_WITHHELD, NothingLogged
  <1>5. Wording = {REDACTED, Newline} \cup ToSet(ARGV_WITHHELD) \cup ToSet(NothingLogged)
    BY Zenon DEF Wording, Newline
  <1> HIDE DEF withheld, rclone, space, logged, nothing
  <1>6. ToSet(ARGV_WITHHELD) = {withheld} /\ ToSet(NothingLogged) = {rclone, space, logged, nothing}
    BY <1>4, TuplesHold
  <1>7. ARGV_WITHHELD \in Seq(Chars) /\ NothingLogged \in Seq(Chars)
    BY <1>1, <1>4
  <1> QED
    BY <1>1, <1>2, <1>3, <1>5, <1>6, <1>7 DEF HasInk

LEMMA StripKeeps ==
    ASSUME NEW S, NEW text \in Seq(S)
    PROVE  Strip(text) \in Seq(S) /\ (Strip(text) # <<>> => HasInk(Strip(text)))
  <1> DEFINE inked == {i \in DOMAIN text : text[i] \notin Blanks}
             first == CHOOSE i \in inked : \A j \in inked : i <= j
             last == CHOOSE i \in inked : \A j \in inked : j <= i
             bare == SubSeq(text, first, last)
  <1>1. DOMAIN text = 1..Len(text) /\ Len(text) \in Nat /\ \A i \in 1..Len(text) : text[i] \in S
    BY LenProperties, ElementOfSeq
  <1>2. Strip(text) = IF inked = {} THEN <<>> ELSE bare
    BY DEF Strip
  <1>3. ASSUME inked # {} PROVE bare \in Seq(S) /\ HasInk(bare)
    <2>1. inked \in SUBSET (1..Len(text)) /\ \A i \in inked : text[i] \notin Blanks
      BY <1>1
    <2> HIDE DEF inked
    <2>2. first \in inked /\ \A j \in inked : first <= j
      <3>1. inked \in SUBSET Nat
        BY <2>1
      <3> QED
        BY <1>3, <3>1, SomeLeast
    <2>3. last \in inked /\ \A j \in inked : j <= last
      <3>1. Max(inked) \in inked /\ \A j \in inked : Max(inked) >= j
        BY <1>1, <1>3, <2>1, SomeGreatest
      <3>2. \A j \in inked : j <= Max(inked)
        BY <2>1, <3>1
      <3> QED
        BY <3>1, <3>2
    <2> HIDE DEF first, last
    <2>4. first \in 1..Len(text) /\ last \in 1..Len(text) /\ first <= last
      BY <2>1, <2>2, <2>3
    <2>5. \A i \in first..last : text[i] \in S
      BY <1>1, <2>4
    <2>6. /\ bare \in Seq(S) /\ Len(bare) = last - first + 1
          /\ \A i \in 1..(last - first + 1) : bare[i] = text[first + i - 1]
      <3>1. first \in Int /\ last \in Int
        BY <2>4
      <3> QED
        BY <2>4, <2>5, <3>1, SubSeqProperties
    <2>7. 1 \in 1..(last - first + 1) /\ first + 1 - 1 = first
      BY <2>4
    <2>8. bare[1] = text[first]
      BY <2>6, <2>7
    <2> HIDE DEF bare
    <2>9. ToSet(bare) = {bare[i] : i \in 1..Len(bare)}
      BY <2>6, ToSetIs
    <2>10. bare[1] \in ToSet(bare) /\ bare[1] \notin Blanks
      BY <2>1, <2>2, <2>6, <2>7, <2>8, <2>9
    <2> QED
      BY <2>6, <2>10 DEF HasInk
  <1> HIDE DEF bare, inked
  <1>4. <<>> \in Seq(S)
    OBVIOUS
  <1> QED
    BY <1>2, <1>3, <1>4

\* One line: what is quoted goes, what is said about it is wording, and ink stays.
LEMMA RedactedIs ==
    ASSUME NEW line \in Seq(Chars), NEW quoted
    PROVE  LET bare == Redacted(line, quoted)
           IN  /\ bare \in Seq(Chars)
               /\ \A c \in ToSet(bare) : c \in Wording \/ (c \notin quoted /\ c # ARGV_ECHO)
               /\ HasInk(line) => HasInk(bare)
  <1> DEFINE bare == Redacted(line, quoted)
  <1>1. CASE Contains(line, ARGV_ECHO)
    <2>1. bare = ARGV_WITHHELD
      BY <1>1 DEF Redacted
    <2> HIDE DEF bare
    <2> QED
      BY <2>1, WordingIs DEF bare
  <1>2. CASE ~Contains(line, ARGV_ECHO)
    <2>1. /\ DOMAIN line = 1..Len(line) /\ Len(line) \in Nat /\ \A i \in 1..Len(line) : line[i] \in Chars
      BY LenProperties, ElementOfSeq
    <2>2. bare = [i \in 1..Len(line) |-> IF line[i] \in quoted THEN REDACTED ELSE line[i]]
      BY <1>2, <2>1 DEF Redacted
    <2>3. /\ bare \in Seq(Chars) /\ Len(bare) = Len(line)
          /\ \A i \in 1..Len(line) : bare[i] = IF line[i] \in quoted THEN REDACTED ELSE line[i]
      <3> HIDE DEF bare
      <3> QED
        BY <2>1, <2>2, WordingIs
    <2> HIDE DEF bare
    <2>4. ToSet(bare) = {bare[i] : i \in 1..Len(line)} /\ ToSet(line) = {line[i] : i \in 1..Len(line)}
      BY <2>3, ToSetIs
    <2>5. ASSUME NEW i \in 1..Len(line) PROVE line[i] # ARGV_ECHO
      BY <1>2 DEF Contains
    <2>6. \A c \in ToSet(bare) : c \in Wording \/ (c \notin quoted /\ c # ARGV_ECHO)
      BY <2>3, <2>4, <2>5, WordingIs
    <2>7. ASSUME HasInk(line) PROVE HasInk(bare)
      <3>1. PICK i \in 1..Len(line) : line[i] \notin Blanks
        BY <2>4, <2>7 DEF HasInk
      <3>2. bare[i] \in ToSet(bare) /\ bare[i] \notin Blanks
        BY <2>3, <2>4, <3>1, WordingIs
      <3> QED
        BY <3>2 DEF HasInk
    <2> QED
      BY <2>3, <2>6, <2>7 DEF bare
  <1> QED
    BY <1>1, <1>2

LEMMA RedactIs ==
    ASSUME NEW text \in Seq(Chars), NEW extra_args, extra_args \cap Wording = {}
    PROVE  LET bare == Redact(text, extra_args)
           IN  /\ bare \in Seq(Chars)
               /\ ToSet(bare) \cap ({ARGV_ECHO} \cup (extra_args \ {NoArgument})) = {}
               /\ HasInk(text) => HasInk(bare)
  <1> DEFINE quoted == extra_args \ {NoArgument}
             lines == Split(text, Newline)
             bares == [i \in DOMAIN lines |-> Redacted(lines[i], quoted)]
             bare == Redact(text, extra_args)
  <1>1. bare = Join(bares, Newline)
    BY Zenon DEF Redact, Newline
  <1>2. lines \in Seq(Seq(Chars))
    BY SplitType
  <1> DEFINE Ls == lines
  <1>3. quoted \cap Wording = {}
    OBVIOUS
  <1> HIDE DEF quoted
  <1>4. ASSUME HasInk(text) PROVE \E i \in 1..Len(lines) : HasInk(lines[i])
    <2>1. PICK c \in ToSet(text) : c \notin Blanks
      BY <1>4 DEF HasInk
    <2>2. c # Newline
      BY <2>1, WordingIs
    <2>3. \E i \in 1..Len(lines) : c \in ToSet(lines[i])
      BY <2>2, SplitHolds
    <2> HIDE DEF lines
    <2> QED
      BY <2>1, <2>3 DEF HasInk
  <1> HIDE DEF lines
  <1>5. DOMAIN lines = 1..Len(lines) /\ Len(lines) \in Nat /\ \A i \in 1..Len(lines) : lines[i] \in Seq(Chars)
    BY <1>2, LenProperties, ElementOfSeq
  <1>6. ASSUME NEW i \in 1..Len(lines)
        PROVE  /\ Redacted(lines[i], quoted) \in Seq(Chars)
               /\ \A c \in ToSet(Redacted(lines[i], quoted)) : c \in Wording \/ (c \notin quoted /\ c # ARGV_ECHO)
               /\ HasInk(lines[i]) => HasInk(Redacted(lines[i], quoted))
    BY <1>5, RedactedIs
  <1>7. /\ bares \in Seq(Seq(Chars)) /\ Len(bares) = Len(lines)
        /\ \A i \in 1..Len(lines) : bares[i] = Redacted(lines[i], quoted)
    BY <1>5, <1>6
  <1> HIDE DEF bares, bare
  <1>8. /\ bare \in Seq(Chars)
        /\ \A i \in 1..Len(bares) : ToSet(bares[i]) \subseteq ToSet(bare)
        /\ \A c \in ToSet(bare) : c = Newline \/ \E i \in 1..Len(bares) : c \in ToSet(bares[i])
    BY <1>1, <1>7, WordingIs, JoinHolds
  <1>9. ASSUME NEW c \in ToSet(bare) PROVE c # ARGV_ECHO /\ c \notin quoted
    <2>1. c \in Wording \/ (c \notin quoted /\ c # ARGV_ECHO)
      BY <1>6, <1>7, <1>8, WordingIs
    <2> QED
      BY <1>3, <2>1, WordingIs
  <1>10. ASSUME HasInk(text) PROVE HasInk(bare)
    <2>1. PICK i \in 1..Len(lines) : HasInk(lines[i])
      BY <1>4, <1>10
    <2>2. HasInk(bares[i])
      BY <1>6, <1>7, <2>1
    <2> QED
      BY <1>7, <1>8, <2>2 DEF HasInk
  <1> QED
    BY <1>8, <1>9, <1>10 DEF bare, quoted

\* What a unit or systemd logged.
Logged == [systemd : BOOLEAN, message : SUBSET Seq(Chars)]

Mute(journal) == {entry \in ToSet(journal) : ~Says(entry)}

Foreign(journal) == {entry \in ToSet(journal) : entry.systemd}

\* What it says, before it is stripped.
Speech(journal) ==
    LET entries == Dropping(journal, Mute(journal))
        own == Dropping(entries, Foreign(entries))
        shown == IF own = <<>> THEN entries ELSE own
    IN  Join(WithoutRepeats([i \in DOMAIN shown |-> Text(shown[i])]), Newline)

LEMMA UnitSays ==
    ASSUME NEW journal \in Seq(Logged)
    PROVE  WhatTheUnitSaid(journal) = Strip(Speech(journal)) /\ Speech(journal) \in Seq(Chars)
  <1> DEFINE entries == Dropping(journal, Mute(journal))
             own == Dropping(entries, Foreign(entries))
             shown == IF own = <<>> THEN entries ELSE own
             texts == [i \in DOMAIN shown |-> Text(shown[i])]
  <1>1. entries \in Seq(Logged) /\ ToSet(entries) = ToSet(journal) \ Mute(journal)
    BY DroppingType, DroppingLeaves
  <1>2. \A entry \in ToSet(entries) : Says(entry)
    BY <1>1 DEF Mute
  <1>3. /\ WhatTheUnitSaid(journal) = Strip(Join(WithoutRepeats(texts), Newline))
        /\ Speech(journal) = Join(WithoutRepeats(texts), Newline)
    BY Zenon DEF WhatTheUnitSaid, Newline, Mute, Foreign, Speech
  <1> HIDE DEF entries
  <1>4. own \in Seq(Logged) /\ ToSet(own) = ToSet(entries) \ Foreign(entries)
    BY <1>1, DroppingType, DroppingLeaves
  <1> HIDE DEF own
  <1>5. shown \in Seq(Logged) /\ \A entry \in ToSet(shown) : Says(entry)
    BY <1>1, <1>2, <1>4
  <1> HIDE DEF shown
  <1>6. /\ DOMAIN shown = 1..Len(shown) /\ Len(shown) \in Nat
        /\ ToSet(shown) = {shown[i] : i \in 1..Len(shown)}
        /\ \A i \in 1..Len(shown) : shown[i] \in Logged
    BY <1>5, LenProperties, ElementOfSeq, ToSetIs
  <1>7. ASSUME NEW i \in 1..Len(shown) PROVE Text(shown[i]) \in Seq(Chars)
    <2>1. Says(shown[i]) /\ shown[i].message \subseteq Seq(Chars)
      BY <1>5, <1>6 DEF Logged
    <2>2. \E text \in shown[i].message : TRUE
      BY <2>1 DEF Says
    <2>3. Text(shown[i]) \in shown[i].message
      BY <2>2 DEF Text
    <2> QED
      BY <2>1, <2>3
  <1>8. texts \in Seq(Seq(Chars))
    BY <1>6, <1>7
  <1> HIDE DEF texts
  <1> DEFINE T == Seq(Chars)
             lines == WithoutRepeats(texts)
             said == Join(lines, Newline)
  <1>9. lines \in Seq(T)
    <2>1. Append(texts, <<>>) = Append(texts, <<>>) /\ <<>> \in T
      OBVIOUS
    <2> HIDE DEF T
    <2> QED
      BY <1>8, <2>1, RepeatsGrows DEF T
  <1> HIDE DEF lines
  <1>10. said \in Seq(Chars)
    BY <1>9, WordingIs, JoinHolds
  <1> HIDE DEF said
  <1> QED
    BY <1>3, <1>10 DEF said, lines

LEMMA ReasonTells ==
    ASSUME NEW journal \in Seq(Logged), NEW extra_args, extra_args \cap Wording = {}
    PROVE  LET reason == FailureReason(journal, extra_args)
           IN  /\ reason \in Seq(Chars) /\ HasInk(reason)
               /\ ToSet(reason) \cap ({ARGV_ECHO} \cup (extra_args \ {NoArgument})) = {}
  <1> DEFINE said == WhatTheUnitSaid(journal)
             reason == FailureReason(journal, extra_args)
  <1>1. reason = IF said = <<>> THEN NothingLogged ELSE Redact(said, extra_args)
    BY DEF FailureReason
  <1>2. said = Strip(Speech(journal)) /\ Speech(journal) \in Seq(Chars)
    BY UnitSays
  <1>3. said \in Seq(Chars) /\ (said # <<>> => HasInk(said))
    BY <1>2, StripKeeps
  <1> HIDE DEF said, reason
  <1>4. CASE said = <<>>
    BY <1>1, <1>4, WordingIs DEF reason
  <1>5. CASE said # <<>>
    <2>1. /\ Redact(said, extra_args) \in Seq(Chars)
          /\ ToSet(Redact(said, extra_args)) \cap ({ARGV_ECHO} \cup (extra_args \ {NoArgument})) = {}
          /\ HasInk(said) => HasInk(Redact(said, extra_args))
      BY <1>3, RedactIs
    <2> QED
      BY <1>1, <1>3, <1>5, <2>1 DEF reason
  <1> QED
    BY <1>4, <1>5

Spoken(shown) == Strip(Join(WithoutRepeats([i \in DOMAIN shown |-> Text(shown[i])]), Newline))

LEMMA OwnWordsSuffice ==
    ASSUME NEW journal \in Seq(Logged), NEW own, own = Dropping(journal, Foreign(journal)),
           \E entry \in ToSet(own) : Says(entry)
    PROVE  WhatTheUnitSaid(journal) = WhatTheUnitSaid(own)
  <1> DEFINE entries == Dropping(journal, Mute(journal))
             its == Dropping(entries, Foreign(entries))
             words == Dropping(own, Mute(own))
             all == Dropping(words, Foreign(words))
  <1>1. own \in Seq(Logged) /\ ToSet(own) = ToSet(journal) \ Foreign(journal)
    BY DroppingType, DroppingLeaves
  <1>2. entries \in Seq(Logged) /\ ToSet(entries) = ToSet(journal) \ Mute(journal)
    BY DroppingType, DroppingLeaves
  <1>3. words \in Seq(Logged) /\ ToSet(words) = ToSet(own) \ Mute(own)
    BY <1>1, DroppingType, DroppingLeaves
  <1>4. its = words
    <2>1. Dropping(entries, Foreign(entries)) = Dropping(entries, Foreign(journal))
      <3>1. \A c \in ToSet(entries) : c \in Foreign(entries) <=> c \in Foreign(journal)
        BY <1>2 DEF Foreign
      <3> HIDE DEF entries
      <3> QED
        BY <1>2, <3>1, DroppingSame
    <2>2. Dropping(entries, Foreign(journal)) = Dropping(own, Mute(journal))
      BY DroppingCommutes
    <2>3. Dropping(own, Mute(journal)) = Dropping(own, Mute(own))
      <3>1. \A c \in ToSet(own) : c \in Mute(journal) <=> c \in Mute(own)
        BY <1>1 DEF Mute
      <3> QED
        BY <1>1, <3>1, DroppingSame
    <2> HIDE DEF entries
    <2> QED
      BY <2>1, <2>2, <2>3
  <1>5. all = words
    <2>1. ToSet(words) \cap Foreign(words) = {}
      BY <1>1, <1>3 DEF Foreign
    <2> HIDE DEF words
    <2> QED
      BY <1>3, <2>1, DroppingNone
  <1>6. words # <<>>
    <2>1. PICK entry \in ToSet(own) : Says(entry)
      OBVIOUS
    <2>2. entry \in ToSet(words)
      BY <1>3, <2>1 DEF Mute
    <2>3. ToSet(<<>>) = {}
      BY DEF ToSet
    <2> HIDE DEF words
    <2> QED
      BY <2>2, <2>3
  <1>7. WhatTheUnitSaid(journal) = Spoken(IF its = <<>> THEN entries ELSE its)
    BY Zenon DEF WhatTheUnitSaid, Spoken, Newline, Mute, Foreign
  <1>8. WhatTheUnitSaid(own) = Spoken(IF all = <<>> THEN words ELSE all)
    BY Zenon DEF WhatTheUnitSaid, Spoken, Newline, Mute, Foreign
  <1> HIDE DEF entries, its, words, all
  <1> QED
    BY <1>4, <1>5, <1>6, <1>7, <1>8

(***************************************************************************)
(* What a panel draws                                                      *)
(***************************************************************************)
Underscore == "_"

Drawings(S) == [text : Seq(S), held : BOOLEAN]

Blank == [text |-> <<>>, held |-> FALSE]

DrawStep(S) == [x \in Drawings(S) \X S |-> Draw(x[1], x[2])]

LEMMA DrawIs ==
    ASSUME NEW S, NEW x \in Drawings(S), NEW c \in S
    PROVE  /\ Draw(x, c) \in Drawings(S)
           /\ c = Underscore /\ ~x.held => Draw(x, c) = [text |-> x.text, held |-> TRUE]
           /\ ~(c = Underscore /\ ~x.held) => Draw(x, c) = [text |-> Append(x.text, c), held |-> FALSE]
  <1>1. x = [text |-> x.text, held |-> x.held] /\ x.text \in Seq(S) /\ x.held \in BOOLEAN
    BY DEF Drawings
  <1>2. Draw(x, c) = IF c = Underscore /\ ~x.held THEN [text |-> x.text, held |-> TRUE]
                     ELSE [text |-> Append(x.text, c), held |-> FALSE]
    BY Zenon DEF Draw, Underscore
  <1>4. Append(x.text, c) \in Seq(S)
    BY <1>1, AppendProperties
  <1>5. CASE c = Underscore /\ ~x.held
    BY <1>1, <1>2, <1>5 DEF Drawings
  <1>6. CASE ~(c = Underscore /\ ~x.held)
    BY <1>2, <1>4, <1>6 DEF Drawings
  <1> QED
    BY <1>5, <1>6

LEMMA DrawingIsFolded ==
    ASSUME NEW S, NEW text \in Seq(S)
    PROVE  /\ Acts(DrawStep(S), Drawings(S), S)
           /\ Folded(Drawings(S), DrawStep(S), Blank, text, Drawing(text))
  <1> DEFINE n == Len(text)
             V == Drawings(S)
             E == S
             G == DrawStep(S)
             base == Blank
             Step(x, c) == Draw(x, c)
             Folds(g) == g = [s \in SUBSET (1..n) |->
                                 IF s = {} THEN base ELSE Step(g[s \ {Max(s)}], text[Max(s)])]
             iter == CHOOSE g : Folds(g)
  <1>1. \A x \in V, c \in E : Step(x, c) \in V
    BY DrawIs
  <1>2. \A x \in V, c \in E : G[<<x, c>>] = Step(x, c)
    BY DEF DrawStep
  <1>3. Drawing(text) = iter[1..n]
    <2>1. DOMAIN text = 1..n
      BY LenProperties
    <2> QED
      BY <2>1 DEF Drawing, FoldLeft, MapThenFoldSet, Blank
  <1>4. G = [x \in V \X E |-> Step(x[1], x[2])]
    BY DEF DrawStep
  <1>13. base \in V
    BY DEF V, base, Blank, Drawings
  <1> HIDE DEF Step, G, V, E, base
  <1>14. text \in Seq(E)
    BY DEF E
  <1>5. Acts(G, V, E)
    BY <1>1, <1>4 DEF Acts
  <1>6. PICK h : Iterator(V, G, base, text, h)
    BY <1>5, <1>13, <1>14, IteratorExists DEF HasIterator
  <1>7. ASSUME NEW s \in SUBSET (1..n)
        PROVE  h[s] = IF s = {} THEN base ELSE Step(h[s \ {Max(s)}], text[Max(s)])
    <2>1. CASE s = {}
      BY <1>6, <2>1 DEF Iterator, Iterates
    <2>2. CASE s # {}
      <3>1. text[Max(s)] \in E /\ s \ {Max(s)} \in SUBSET (1..n)
        BY <1>14, <2>2, GreatestOf
      <3>2. h[s \ {Max(s)}] \in V
        BY <1>6, <3>1 DEF Iterator
      <3>3. h[s] = G[<<h[s \ {Max(s)}], text[Max(s)]>>]
        BY <1>6, <2>2, <3>2 DEF Iterator, Iterates
      <3> QED
        BY <1>2, <2>2, <3>1, <3>2, <3>3
    <2> QED
      BY <2>1, <2>2
  <1>8. Folds(h)
    BY <1>6, <1>7 DEF Iterator
  <1>9. Folds(iter)
    BY <1>8
  <1> HIDE DEF iter
  <1>10. ASSUME NEW s \in SUBSET (1..n), s # {}, iter[s \ {Max(s)}] \in V
         PROVE  iter[s] = G[<<iter[s \ {Max(s)}], text[Max(s)]>>]
    <2>1. text[Max(s)] \in E
      BY <1>10, <1>14, GreatestOf
    <2>2. iter[s] = Step(iter[s \ {Max(s)}], text[Max(s)])
      BY <1>9, <1>10
    <2> QED
      BY <1>2, <1>10, <2>1, <2>2
  <1>11. Iterates(V, G, base, text, iter)
    BY <1>9, <1>10 DEF Iterates
  <1>12. Folded(V, G, base, text, iter[1..n])
    BY <1>5, <1>11, <1>13, <1>14, IteratesFolds
  <1> QED
    BY <1>3, <1>5, <1>12 DEF G, V, E, base

LEMMA DrawingGrows ==
    ASSUME NEW S, NEW text \in Seq(S), NEW c \in S
    PROVE  /\ Drawing(<<>>) = Blank
           /\ Drawing(text) \in Drawings(S)
           /\ Drawing(Append(text, c)) = Draw(Drawing(text), c)
  <1> DEFINE V == Drawings(S)
             E == S
             G == DrawStep(S)
             base == Blank
             longer == Append(text, c)
             none == <<>>
  <1>1. longer \in Seq(E) /\ none \in Seq(E)
    BY AppendProperties
  <1>2. Acts(G, V, E) /\ Folded(V, G, base, text, Drawing(text))
    BY DrawingIsFolded
  <1>3. Folded(V, G, base, longer, Drawing(longer)) /\ Folded(V, G, base, none, Drawing(none))
    <2> HIDE DEF longer, none
    <2> QED
      BY <1>1, DrawingIsFolded
  <1>4. \A x \in V : G[<<x, c>>] = Draw(x, c)
    BY DEF DrawStep
  <1> HIDE DEF G, V, base
  <1>5. Drawing(none) = base
    BY <1>3, FoldedNothing
  <1> DEFINE r == Drawing(text)
             q == Drawing(longer)
  <1>6. Folded(V, G, base, text, r) /\ Folded(V, G, base, longer, q)
    BY <1>2, <1>3
  <1>7. EndsIn(E, longer, text, c)
    BY DEF EndsIn
  <1>8. r \in V /\ q = G[<<r, c>>]
    <2> HIDE DEF r, q, longer, E
    <2> QED
      BY <1>2, <1>6, <1>7, FoldedGrows
  <1> QED
    BY <1>4, <1>5, <1>8 DEF V, base

\* An underscore twice.
Doubled(S) == [c \in S |-> IF c = Underscore THEN <<c, c>> ELSE <<c>>]

LEMMA EscapeSpreads ==
    ASSUME NEW S, NEW text \in Seq(S)
    PROVE  /\ EscapeLabel(text) = Spread(text, Doubled(S))
           /\ Spells(Doubled(S), S, S)
  <1>1. Spells(Doubled(S), S, S)
    BY DEF Doubled, Spells
  <1>2. \A c : (IF c = "_" THEN <<"_", "_">> ELSE <<c>>) = IF c = Underscore THEN <<c, c>> ELSE <<c>>
    BY Zenon DEF Underscore
  <1>3. \A i \in DOMAIN text : text[i] \in S
    BY LenProperties, ElementOfSeq
  <1>4. \A i \in DOMAIN text :
            Doubled(S)[text[i]] = IF text[i] = "_" THEN <<"_", "_">> ELSE <<text[i]>>
    BY <1>2, <1>3, Zenon DEF Doubled
  <1>5. [i \in DOMAIN text |-> IF text[i] = "_" THEN <<"_", "_">> ELSE <<text[i]>>]
            = [i \in DOMAIN text |-> Doubled(S)[text[i]]]
    BY <1>4, Zenon
  <1>6. EscapeLabel(text) = FlattenSeq([i \in DOMAIN text |-> Doubled(S)[text[i]]])
    BY <1>5, Zenon DEF EscapeLabel
  <1> QED
    BY <1>1, <1>6 DEF Spread

\* What is escaped is drawn as it was.
LEMMA DrawnWhole ==
    ASSUME NEW S, NEW text \in Seq(S)
    PROVE  /\ EscapeLabel(text) \in Seq(S)
           /\ PanelDraws(EscapeLabel(text)) = text
  <1> DEFINE f == Doubled(S)
             Whole(t) == Spread(t, f) \in Seq(S) /\ Drawing(Spread(t, f)) = [text |-> t, held |-> FALSE]
             T == {t \in Seq(S) : Whole(t)}
             none == <<>>
  <1>1. Spells(f, S, S)
    BY EscapeSpreads
  <1>2. none \in T
    <2>1. none \in Seq(S)
      OBVIOUS
    <2>2. Spread(none, f) = none
      <3> HIDE DEF f
      <3> QED
        BY DEF Spread, FlattenSeq
    <2>3. Drawing(none) = Blank
      <3> DEFINE G == DrawStep(S)
                 V == Drawings(S)
                 base == Blank
      <3>1. Folded(V, G, base, none, Drawing(none))
        BY <2>1, DrawingIsFolded
      <3> HIDE DEF G, V, base
      <3>2. Drawing(none) = base
        BY <3>1, FoldedNothing
      <3> QED
        BY <3>2 DEF base
    <2> QED
      BY <2>1, <2>2, <2>3 DEF Blank
  <1>3. ASSUME NEW t \in Seq(S), NEW c \in S, t \in T PROVE Append(t, c) \in T
    <2> DEFINE e == Spread(t, f)
               x == Drawing(e)
               y == Append(e, c)
    <2>1. e \in Seq(S) /\ x = [text |-> t, held |-> FALSE]
      BY <1>3
    <2>2. f[c] = IF c = Underscore THEN <<c, c>> ELSE <<c>>
      BY DEF Doubled
    <2>3. Spread(Append(t, c), f) = e \o f[c]
      <3> HIDE DEF f
      <3> QED
        BY <1>1, SpreadGrows
    <2> HIDE DEF f, e
    <2>4. y \in Seq(S) /\ Append(y, c) \in Seq(S) /\ Append(t, c) \in Seq(S)
      BY <2>1, AppendProperties
    <2>5. x \in Drawings(S) /\ Drawing(y) = Draw(x, c)
      BY <2>1, DrawingGrows
    <2>6. Drawing(Append(y, c)) = Draw(Drawing(y), c) /\ Drawing(y) \in Drawings(S)
      <3> HIDE DEF y
      <3> QED
        BY <2>4, DrawingGrows
    <2>7. x.text = t /\ x.held = FALSE
      BY <2>1
    <2> HIDE DEF x, y
    <2>8. CASE c = Underscore
      <3>1. Spread(Append(t, c), f) = Append(y, c)
        <4>1. e \o <<c, c>> = Append(Append(e, c), c)
          BY <2>1
        <4> QED
          BY <2>2, <2>3, <2>8, <4>1 DEF y
      <3>2. Drawing(y) = [text |-> t, held |-> TRUE]
        BY <2>5, <2>7, <2>8, DrawIs
      <3>3. Drawing(Append(y, c)) = [text |-> Append(t, c), held |-> FALSE]
        <4> DEFINE z == Drawing(y)
        <4>1. z \in Drawings(S) /\ z.text = t /\ z.held = TRUE
          BY <2>6, <3>2
        <4>2. Drawing(Append(y, c)) = Draw(z, c)
          BY <2>6
        <4> HIDE DEF z
        <4> QED
          BY <4>1, <4>2, DrawIs
      <3> QED
        BY <2>4, <3>1, <3>3
    <2>9. CASE c # Underscore
      <3>1. Spread(Append(t, c), f) = y
        <4>1. e \o <<c>> = Append(e, c)
          BY <2>1, AppendIsConcat
        <4> QED
          BY <2>2, <2>3, <2>9, <4>1 DEF y
      <3>2. Drawing(y) = [text |-> Append(t, c), held |-> FALSE]
        BY <2>5, <2>7, <2>9, DrawIs
      <3> QED
        BY <2>4, <3>1, <3>2
    <2> QED
      BY <2>8, <2>9
  <1>4. text \in T
    <2> HIDE DEF T
    <2> QED
      BY <1>2, <1>3, SequenceInduction
  <1>5. EscapeLabel(text) = Spread(text, f)
    BY EscapeSpreads
  <1> HIDE DEF f
  <1>6. EscapeLabel(text) \in Seq(S) /\ Drawing(EscapeLabel(text)) = [text |-> text, held |-> FALSE]
    BY <1>4, <1>5
  <1> QED
    BY <1>6 DEF PanelDraws

(***************************************************************************)
(* Words in pieces, lines of words                                         *)
(***************************************************************************)
LEMMA Quotient ==
    ASSUME NEW l \in Nat, NEW w \in Nat \ {0}
    PROVE  LET n == (l + w - 1) \div w
           IN  n \in Nat /\ l <= n * w /\ n * w <= l + w - 1
  <1> DEFINE a == l + w - 1
             n == a \div w
  <1>1. a \in Nat
    OBVIOUS
  <1>2. a = w * n + (a % w) /\ 0 <= a % w /\ a % w < w /\ n \in Int /\ a % w \in Int
    <2> HIDE DEF a
    <2> QED
      BY <1>1
  <1>3. n >= 0
    <2> HIDE DEF a
    <2> QED
      BY <1>1
  <1> HIDE DEF n
  <1>4. w * n = n * w /\ n * w \in Int
    BY <1>2
  <1> DEFINE p == n * w
  <1>5. a = p + (a % w)
    BY <1>2, <1>4
  <1>6. p \in Int
    BY <1>4
  <1> HIDE DEF p
  <1>7. l <= p /\ p <= a
    BY <1>2, <1>5, <1>6
  <1> QED
    BY <1>2, <1>3, <1>7 DEF p, n

LEMMA SubSeqJoins ==
    ASSUME NEW S, NEW s \in Seq(S), NEW a \in Nat, NEW b \in Nat, a <= b, b <= Len(s)
    PROVE  /\ SubSeq(s, 1, a) \in Seq(S) /\ Len(SubSeq(s, 1, a)) = a
           /\ SubSeq(s, a + 1, b) \in Seq(S) /\ Len(SubSeq(s, a + 1, b)) = b - a
           /\ SubSeq(s, 1, a) \o SubSeq(s, a + 1, b) = SubSeq(s, 1, b)
           /\ SubSeq(s, 1, b) \in Seq(S) /\ Len(SubSeq(s, 1, b)) = b
  <1> DEFINE x == SubSeq(s, 1, a)
             y == SubSeq(s, a + 1, b)
             z == SubSeq(s, 1, b)
  <1>1. \A i \in 1..b : s[i] \in S
    BY LenProperties, ElementOfSeq
  <1>2. x \in Seq(S) /\ Len(x) = a /\ \A i \in 1..a : x[i] = s[i]
    <2>1. \A i \in 1..a : s[i] \in S
      BY <1>1
    <2> QED
      BY <2>1, SubSeqProperties
  <1>3. y \in Seq(S) /\ Len(y) = b - a /\ \A i \in 1..(b - a) : y[i] = s[a + i]
    <2>1. \A i \in (a + 1)..b : s[i] \in S
      BY <1>1
    <2>2. /\ y \in Seq(S) /\ Len(y) = IF a + 1 <= b THEN b - (a + 1) + 1 ELSE 0
          /\ \A i \in 1..(b - (a + 1) + 1) : y[i] = s[a + 1 + i - 1]
      BY <2>1, SubSeqProperties
    <2> HIDE DEF y
    <2>3. Len(y) = b - a
      BY <2>2
    <2>4. ASSUME NEW i \in 1..(b - a) PROVE y[i] = s[a + i]
      <3>1. i \in 1..(b - (a + 1) + 1) /\ a + 1 + i - 1 = a + i
        OBVIOUS
      <3> QED
        BY <2>2, <3>1
    <2> QED
      BY <2>2, <2>3, <2>4
  <1>4. z \in Seq(S) /\ Len(z) = b /\ \A i \in 1..b : z[i] = s[i]
    BY <1>1, SubSeqProperties
  <1> HIDE DEF x, y, z
  <1>5. /\ x \o y \in Seq(S) /\ Len(x \o y) = b
        /\ \A i \in 1..b : (x \o y)[i] = IF i <= a THEN x[i] ELSE y[i - a]
    <2>1. /\ x \o y \in Seq(S) /\ Len(x \o y) = Len(x) + Len(y)
          /\ \A i \in 1..(Len(x) + Len(y)) : (x \o y)[i] = IF i <= Len(x) THEN x[i] ELSE y[i - Len(x)]
      BY <1>2, <1>3, ConcatProperties
    <2>2. Len(x) + Len(y) = b
      BY <1>2, <1>3
    <2> QED
      BY <1>2, <2>1, <2>2
  <1>6. ASSUME NEW i \in 1..b PROVE (x \o y)[i] = z[i]
    <2>1. CASE i <= a
      BY <1>2, <1>4, <1>5, <2>1
    <2>2. CASE ~(i <= a)
      <3>1. i - a \in 1..(b - a) /\ a + (i - a) = i
        BY <2>2
      <3>2. y[i - a] = s[i]
        BY <1>3, <3>1
      <3> QED
        BY <1>4, <1>5, <2>2, <3>2
    <2> QED
      BY <2>1, <2>2
  <1>7. x \o y = z
    BY <1>4, <1>5, <1>6, SeqEqual
  <1> QED
    BY <1>2, <1>3, <1>4, <1>7 DEF x, y, z

\* The pieces of a word are no wider, and are the word.
LEMMA PiecesOfAWord ==
    ASSUME NEW S, NEW word \in Seq(S), NEW width \in Nat \ {0}
    PROVE  /\ SplitToWidth(word, width) \in Seq(Seq(S))
           /\ \A k \in 1..Len(SplitToWidth(word, width)) : Len(SplitToWidth(word, width)[k]) <= width
           /\ FlattenSeq(SplitToWidth(word, width)) = word
  <1> DEFINE l == Len(word)
             n == (l + width - 1) \div width
             cut(k) == IF k < n THEN k * width ELSE l
             pieces == SplitToWidth(word, width)
  <1>1. l \in Nat /\ DOMAIN word = 1..l
    BY LenProperties
  <1>2. n \in Nat /\ l <= n * width /\ n * width <= l + width - 1
    <2> HIDE DEF l
    <2> QED
      BY <1>1, Quotient
  <1>3. pieces = [k \in 1..n |-> SubSeq(word, (k - 1) * width + 1, Min({k * width, l}))]
    BY DEF SplitToWidth
  <1> HIDE DEF n, l, pieces
  <1>4. ASSUME NEW k \in 1..n
        PROVE  /\ (k - 1) * width = cut(k - 1) /\ Min({k * width, l}) = cut(k)
               /\ cut(k - 1) \in Nat /\ cut(k) \in Nat
               /\ cut(k - 1) <= cut(k) /\ cut(k) <= cut(k - 1) + width /\ cut(k) <= l
    <2> DEFINE p == k * width
               q == (k - 1) * width
               r == n * width
    <2>1. p \in Nat /\ q \in Nat /\ r \in Nat /\ p = q + width
      BY <1>2
    <2>2. k < n => p + width <= r
      <3> SUFFICES ASSUME k < n PROVE p + width <= r
        OBVIOUS
      <3>1. (k + 1) * width = p + width /\ k + 1 \in Nat /\ k + 1 <= n
        BY <1>2
      <3>2. n = (k + 1) + (n - (k + 1)) /\ n - (k + 1) \in Nat
        BY <1>2, <3>1
      <3>3. r = (k + 1) * width + (n - (k + 1)) * width
        BY <1>2, <3>1, <3>2
      <3>4. (n - (k + 1)) * width \in Nat
        BY <3>2
      <3> DEFINE u == (n - (k + 1)) * width
                 v == (k + 1) * width
      <3>5. r = v + u /\ u \in Nat /\ v = p + width
        BY <3>1, <3>3, <3>4
      <3> HIDE DEF u, v, p, r
      <3> QED
        BY <2>1, <3>5
    <2>3. k = n => p = r
      OBVIOUS
    <2>4. Min({p, l}) \in {p, l} /\ Min({p, l}) <= p /\ Min({p, l}) <= l
      <3> DEFINE s == {p, l}
      <3>1. s \in SUBSET Nat /\ s # {}
        BY <1>1, <2>1
      <3> HIDE DEF s
      <3>2. Min(s) \in s /\ \A y \in s : Min(s) <= y
        BY <3>1, MinIsLeast
      <3> HIDE DEF p
      <3> QED
        BY <3>2 DEF s
    <2>5. l <= r /\ r <= l + width - 1
      BY <1>2
    <2>6. cut(k - 1) = q
      <3>1. k - 1 < n
        BY <1>2
      <3> QED
        BY <3>1
    <2>7. cut(k) = IF k < n THEN p ELSE l
      OBVIOUS
    <2> HIDE DEF p, q, r
    <2>8. Min({p, l}) = IF k < n THEN p ELSE l
      BY <1>1, <1>2, <2>1, <2>2, <2>3, <2>4, <2>5
    <2>9. /\ cut(k - 1) \in Nat /\ cut(k) \in Nat
          /\ cut(k - 1) <= cut(k) /\ cut(k) <= cut(k - 1) + width /\ cut(k) <= l
      <3> DEFINE c == cut(k - 1)
                 d == cut(k)
      <3>1. c = q /\ d = IF k < n THEN p ELSE l
        BY <2>6, <2>7
      <3> HIDE DEF c, d
      <3>2. c \in Nat /\ d \in Nat /\ c <= d /\ d <= c + width /\ d <= l
        BY <1>1, <1>2, <2>1, <2>2, <2>3, <2>5, <3>1
      <3> QED
        BY <3>2 DEF c, d
    <2> QED
      BY <2>6, <2>7, <2>8, <2>9 DEF p, q
  <1>5. cut(0) = 0 /\ cut(n) = l
    <2>1. n = 0 => l = 0
      BY <1>1, <1>2
    <2> QED
      BY <1>2, <2>1
  <1> HIDE DEF cut
  <1>10. n \in Nat
    BY <1>2
  <1>6. pieces = [k \in 1..n |-> SubSeq(word, cut(k - 1) + 1, cut(k))]
    BY <1>3, <1>4
  <1>7. ASSUME NEW k \in 1..n
        PROVE  /\ pieces[k] \in Seq(S) /\ Len(pieces[k]) <= width
               /\ SubSeq(word, 1, cut(k - 1)) \o pieces[k] = SubSeq(word, 1, cut(k))
    <2>1. pieces[k] = SubSeq(word, cut(k - 1) + 1, cut(k))
      BY <1>6
    <2> DEFINE c == cut(k - 1)
               d == cut(k)
    <2>2. c \in Nat /\ d \in Nat /\ c <= d /\ d <= l /\ d <= c + width
      BY <1>4
    <2> HIDE DEF c, d
    <2>4. d <= Len(word) /\ d - c <= width
      BY <2>2 DEF l
    <2>3. /\ SubSeq(word, c + 1, d) \in Seq(S) /\ Len(SubSeq(word, c + 1, d)) = d - c
          /\ SubSeq(word, 1, c) \o SubSeq(word, c + 1, d) = SubSeq(word, 1, d)
      BY <2>2, <2>4, SubSeqJoins
    <2> QED
      BY <2>1, <2>3, <2>4 DEF c, d
  <1>8. pieces \in Seq(Seq(S)) /\ Len(pieces) = n
    <2>1. \A k \in 1..n : SubSeq(word, cut(k - 1) + 1, cut(k)) \in Seq(S)
      BY <1>6, <1>7
    <2> QED
      BY <1>10, <1>6, <2>1
  <1>9. FlattenSeq(pieces) = word
    <2>1. PICK g : FlattenRun(S, pieces, g)
      BY <1>8, FlattenRuns
    <2> DEFINE h == [k \in 0..n |-> SubSeq(word, 1, cut(k))]
    <2>2. g[0] = h[0]
      <3>1. h[0] = SubSeq(word, 1, 0)
        BY <1>10, <1>5
      <3>2. SubSeq(word, 1, 0) = <<>>
        OBVIOUS
      <3> QED
        BY <2>1, <3>1, <3>2 DEF FlattenRun
    <2>3. ASSUME NEW k \in 1..n, g[k - 1] = h[k - 1] PROVE g[k] = h[k]
      <3>1. g[k] = g[k - 1] \o pieces[k]
        BY <1>8, <2>1 DEF FlattenRun
      <3>2. h[k - 1] = SubSeq(word, 1, cut(k - 1)) /\ h[k] = SubSeq(word, 1, cut(k))
        <4>1. k - 1 \in 0..n /\ k \in 0..n
          BY <1>10
        <4> QED
          BY <4>1, Zenon
      <3> HIDE DEF h
      <3> QED
        BY <1>7, <2>3, <3>1, <3>2
    <2>4. h[n] = SubSeq(word, 1, l)
      <3>1. n \in 0..n
        BY <1>10
      <3> QED
        BY <1>5, <3>1, Zenon
    <2> HIDE DEF h
    <2>5. g[n] = h[n]
      BY <1>10, <2>2, <2>3, RunsAgree
    <2>6. SubSeq(word, 1, l) = word
      <3>1. SubSeq(word, 1, l) \in Seq(S) /\ Len(SubSeq(word, 1, l)) = l
            /\ \A i \in 1..l : SubSeq(word, 1, l)[i] = word[i]
        <4>1. \A i \in 1..l : word[i] \in S
          BY <1>1, ElementOfSeq
        <4> QED
          BY <1>1, <4>1, SubSeqProperties
      <3> DEFINE z == SubSeq(word, 1, l)
      <3> HIDE DEF z
      <3>2. z = word
        BY <3>1, SeqEqual DEF l, z
      <3> QED
        BY <3>2 DEF z
    <2> QED
      BY <1>8, <2>1, <2>4, <2>5, <2>6 DEF FlattenRun
  <1> QED
    BY <1>7, <1>8, <1>9 DEF pieces

Space == " "

\* Rows that are not wider.
Narrow(S, width) == {row \in Seq(S) : Len(row) <= width}

\* What is in rows, without what is blank.
AllInk(rows) == Ink(FlattenSeq(rows))

LEMMA SpaceIsBlank == Space \in Blanks /\ Ink(<<Space>>) = <<>>
  <1> DEFINE S == {Space}
             none == <<>>
  <1>1. Space \in Blanks
    BY Zenon DEF Space, Blanks
  <1>2. Append(none, Space) = <<Space>>
    OBVIOUS
  <1>3. Space \in S /\ none \in Seq(S)
    OBVIOUS
  <1> HIDE DEF none, S
  <1>4. Dropping(Append(none, Space), Blanks) =
            IF Space \in Blanks THEN Dropping(none, Blanks) ELSE Append(Dropping(none, Blanks), Space)
    BY ONLY <1>3, DroppingGrows
  <1>5. Dropping(none, Blanks) = none
    BY DroppingNothing DEF none
  <1> QED
    BY <1>1, <1>2, <1>4, <1>5 DEF Ink, none

LEMMA InkJoins ==
    ASSUME NEW S, NEW s \in Seq(S), NEW t \in Seq(S)
    PROVE  Ink(s \o t) = Ink(s) \o Ink(t) /\ Ink(s) \in Seq(S) /\ Ink(t) \in Seq(S)
  BY DroppingConcat DEF Ink

LEMMA AllInkJoins ==
    ASSUME NEW S, NEW ss \in Seq(Seq(S)), NEW tt \in Seq(Seq(S))
    PROVE  /\ AllInk(ss \o tt) = AllInk(ss) \o AllInk(tt)
           /\ AllInk(ss) \in Seq(S) /\ AllInk(tt) \in Seq(S)
  <1>1. /\ FlattenSeq(ss \o tt) = FlattenSeq(ss) \o FlattenSeq(tt)
        /\ FlattenSeq(ss) \in Seq(S) /\ FlattenSeq(tt) \in Seq(S)
    BY FlattenConcat
  <1> DEFINE a == FlattenSeq(ss)
             b == FlattenSeq(tt)
  <1> HIDE DEF a, b
  <1>2. a \in Seq(S) /\ b \in Seq(S)
    BY <1>1 DEF a, b
  <1>3. Ink(a \o b) = Ink(a) \o Ink(b) /\ Ink(a) \in Seq(S) /\ Ink(b) \in Seq(S)
    BY <1>2, InkJoins
  <1> QED
    BY <1>1, <1>3 DEF AllInk, a, b

LEMMA AllInkGrows ==
    ASSUME NEW S, NEW rows \in Seq(Seq(S)), NEW row \in Seq(S)
    PROVE  /\ AllInk(<<>>) = <<>>
           /\ AllInk(rows) \in Seq(S)
           /\ AllInk(Append(rows, row)) = AllInk(rows) \o Ink(row)
  <1>1. /\ FlattenSeq(<<>>) = <<>> /\ FlattenSeq(rows) \in Seq(S)
        /\ FlattenSeq(Append(rows, row)) = FlattenSeq(rows) \o row
    BY FlattenGrows
  <1>2. Ink(<<>>) = <<>>
    BY DroppingNothing DEF Ink
  <1> DEFINE a == FlattenSeq(rows)
  <1> HIDE DEF a
  <1>3. a \in Seq(S)
    BY <1>1 DEF a
  <1>4. Ink(a \o row) = Ink(a) \o Ink(row) /\ Ink(a) \in Seq(S)
    BY <1>3, InkJoins
  <1> QED
    BY <1>1, <1>2, <1>4 DEF AllInk, a

\* A piece is side by side with what is there, where there is room, or has a row of its own.
LEMMA LayIs ==
    ASSUME NEW S, Space \in S, NEW width \in Nat,
           NEW rows \in Seq(Narrow(S, width)), NEW piece \in Narrow(S, width)
    PROVE  /\ Lay(rows, piece, width) \in Seq(Narrow(S, width))
           /\ AllInk(Lay(rows, piece, width)) = AllInk(rows) \o Ink(piece)
  <1> DEFINE N == Narrow(S, width)
             room == rows # <<>> /\ Len(Last(rows)) + 1 + Len(piece) <= width
             l == Last(rows)
             f == Front(rows)
             longer == l \o <<Space>> \o piece
  <1>1. N \subseteq Seq(S) /\ piece \in Seq(S) /\ Len(piece) <= width /\ Len(piece) \in Nat
    BY LenProperties DEF Narrow
  <1>2. rows \in Seq(Seq(S))
    <2> HIDE DEF N
    <2>1. rows \in Seq(N)
      BY DEF N
    <2> QED
      BY <1>1, <2>1, SeqGrows
  <1>3. Lay(rows, piece, width) = IF room THEN ReplaceAt(rows, Len(rows), longer) ELSE Append(rows, piece)
    BY Zenon DEF Lay, Space
  <1>4. CASE room
    <2>1. l \in N
      <3> HIDE DEF N
      <3>1. rows \in Seq(N)
        BY DEF N
      <3> QED
        BY <1>4, <3>1, FrontAndLast
    <2>2. l \in Seq(S) /\ Len(l) \in Nat
      BY <1>1, <2>1, LenProperties
    <2>3. <<Space>> \o piece \in Seq(S) /\ Len(<<Space>> \o piece) = Len(piece) + 1
      BY <1>1, LedBy
    <2> DEFINE p == <<Space>> \o piece
    <2>4. longer = l \o p
      BY <1>1, <2>2
    <2>5. longer \in Seq(S) /\ Len(longer) = Len(l) + (Len(piece) + 1)
      <3> HIDE DEF p, longer
      <3>1. p \in Seq(S) /\ Len(p) = Len(piece) + 1
        BY <2>3 DEF p
      <3> QED
        BY <2>2, <2>4, <3>1, ConcatProperties
    <2>6. Ink(longer) = Ink(l) \o Ink(piece) /\ Ink(l) \in Seq(S) /\ Ink(piece) \in Seq(S)
      <3> DEFINE o == <<Space>>
      <3>1. o \in Seq(S) /\ Ink(o) = <<>> /\ p = o \o piece
        BY SpaceIsBlank
      <3> HIDE DEF o
      <3>2. Ink(p) = Ink(o) \o Ink(piece) /\ Ink(piece) \in Seq(S)
        BY <1>1, <3>1, InkJoins
      <3>3. Ink(p) = Ink(piece)
        BY <3>1, <3>2, ConcatEmptySeq
      <3>4. p \in Seq(S)
        BY <2>3
      <3> HIDE DEF p, longer, l
      <3> QED
        BY <2>2, <2>4, <3>2, <3>3, <3>4, InkJoins
    <2> HIDE DEF longer
    <2>7. longer \in N
      BY <1>1, <1>4, <2>2, <2>5 DEF Narrow
    <2>8. /\ f \in Seq(N) /\ rows = Append(f, l)
          /\ ReplaceAt(rows, Len(rows), longer) = Append(f, longer)
      <3> HIDE DEF N
      <3>1. rows \in Seq(N)
        BY DEF N
      <3> QED
        BY <1>4, <2>7, <3>1, ReplaceLast
    <2> HIDE DEF l, f
    <2>9. Append(f, longer) \in Seq(N) /\ f \in Seq(Seq(S))
      <3> HIDE DEF N
      <3> QED
        BY <1>1, <2>7, <2>8, SeqGrows, AppendProperties
    <2>10. /\ AllInk(rows) = AllInk(f) \o Ink(l) /\ AllInk(f) \in Seq(S)
           /\ AllInk(Append(f, longer)) = AllInk(f) \o Ink(longer)
      BY <2>2, <2>5, <2>8, <2>9, AllInkGrows
    <2>11. AllInk(f) \o (Ink(l) \o Ink(piece)) = (AllInk(f) \o Ink(l)) \o Ink(piece)
      BY <2>6, <2>10, ConcatAssociative
    <2> QED
      BY <1>3, <1>4, <2>6, <2>8, <2>9, <2>10, <2>11
  <1>5. CASE ~room
    <2>1. Append(rows, piece) \in Seq(N)
      BY AppendProperties
    <2>2. AllInk(Append(rows, piece)) = AllInk(rows) \o Ink(piece)
      BY <1>1, <1>2, AllInkGrows
    <2> QED
      BY <1>3, <1>5, <2>1, <2>2
  <1> QED
    BY <1>4, <1>5

LayStep(S, width) ==
    [x \in Seq(Narrow(S, width)) \X Narrow(S, width) |-> Lay(x[1], x[2], width)]

LEMMA LaidOutIsFolded ==
    ASSUME NEW S, Space \in S, NEW width \in Nat, NEW text \in Seq(Narrow(S, width))
    PROVE  /\ Acts(LayStep(S, width), Seq(Narrow(S, width)), Narrow(S, width))
           /\ Folded(Seq(Narrow(S, width)), LayStep(S, width), <<>>, text, LaidOut(text, width))
  <1> DEFINE n == Len(text)
             V == Seq(Narrow(S, width))
             E == Narrow(S, width)
             G == LayStep(S, width)
             base == <<>>
             Step(x, c) == Lay(x, c, width)
             Folds(g) == g = [s \in SUBSET (1..n) |->
                                 IF s = {} THEN base ELSE Step(g[s \ {Max(s)}], text[Max(s)])]
             iter == CHOOSE g : Folds(g)
  <1>1. \A x \in V, c \in E : Step(x, c) \in V
    BY LayIs
  <1>2. \A x \in V, c \in E : G[<<x, c>>] = Step(x, c)
    BY DEF LayStep
  <1>3. LaidOut(text, width) = iter[1..n]
    <2>1. DOMAIN text = 1..n
      BY LenProperties
    <2> QED
      BY <2>1 DEF LaidOut, FoldLeft, MapThenFoldSet
  <1>4. G = [x \in V \X E |-> Step(x[1], x[2])]
    BY DEF LayStep
  <1>13. base \in V
    BY DEF V, base
  <1> HIDE DEF Step, G, V, E, base
  <1>14. text \in Seq(E)
    BY DEF E
  <1>5. Acts(G, V, E)
    BY <1>1, <1>4 DEF Acts
  <1>6. PICK h : Iterator(V, G, base, text, h)
    BY <1>5, <1>13, <1>14, IteratorExists DEF HasIterator
  <1>7. ASSUME NEW s \in SUBSET (1..n)
        PROVE  h[s] = IF s = {} THEN base ELSE Step(h[s \ {Max(s)}], text[Max(s)])
    <2>1. CASE s = {}
      BY <1>6, <2>1 DEF Iterator, Iterates
    <2>2. CASE s # {}
      <3>1. text[Max(s)] \in E /\ s \ {Max(s)} \in SUBSET (1..n)
        BY <1>14, <2>2, GreatestOf
      <3>2. h[s \ {Max(s)}] \in V
        BY <1>6, <3>1 DEF Iterator
      <3>3. h[s] = G[<<h[s \ {Max(s)}], text[Max(s)]>>]
        BY <1>6, <2>2, <3>2 DEF Iterator, Iterates
      <3> QED
        BY <1>2, <2>2, <3>1, <3>2, <3>3
    <2> QED
      BY <2>1, <2>2
  <1>8. Folds(h)
    BY <1>6, <1>7 DEF Iterator
  <1>9. Folds(iter)
    BY <1>8
  <1> HIDE DEF iter
  <1>10. ASSUME NEW s \in SUBSET (1..n), s # {}, iter[s \ {Max(s)}] \in V
         PROVE  iter[s] = G[<<iter[s \ {Max(s)}], text[Max(s)]>>]
    <2>1. text[Max(s)] \in E
      BY <1>10, <1>14, GreatestOf
    <2>2. iter[s] = Step(iter[s \ {Max(s)}], text[Max(s)])
      BY <1>9, <1>10
    <2> QED
      BY <1>2, <1>10, <2>1, <2>2
  <1>11. Iterates(V, G, base, text, iter)
    BY <1>9, <1>10 DEF Iterates
  <1>12. Folded(V, G, base, text, iter[1..n])
    BY <1>5, <1>11, <1>13, <1>14, IteratesFolds
  <1> QED
    BY <1>3, <1>5, <1>12 DEF G, V, E, base

LEMMA LaidOutGrows ==
    ASSUME NEW S, Space \in S, NEW width \in Nat, NEW text \in Seq(Narrow(S, width)), NEW c \in Narrow(S, width)
    PROVE  /\ LaidOut(<<>>, width) = <<>>
           /\ LaidOut(text, width) \in Seq(Narrow(S, width))
           /\ LaidOut(Append(text, c), width) = Lay(LaidOut(text, width), c, width)
  <1> DEFINE V == Seq(Narrow(S, width))
             E == Narrow(S, width)
             G == LayStep(S, width)
             base == <<>>
             longer == Append(text, c)
             none == <<>>
  <1>1. longer \in Seq(E) /\ none \in Seq(E)
    BY AppendProperties
  <1>2. Acts(G, V, E) /\ Folded(V, G, base, text, LaidOut(text, width))
    BY LaidOutIsFolded
  <1>3. Folded(V, G, base, longer, LaidOut(longer, width)) /\ Folded(V, G, base, none, LaidOut(none, width))
    <2> HIDE DEF longer, none
    <2> QED
      BY <1>1, LaidOutIsFolded
  <1>4. \A x \in V : G[<<x, c>>] = Lay(x, c, width)
    BY DEF LayStep
  <1> HIDE DEF G, V, base
  <1>5. LaidOut(none, width) = base
    BY <1>3, FoldedNothing
  <1> DEFINE r == LaidOut(text, width)
             q == LaidOut(longer, width)
  <1>6. Folded(V, G, base, text, r) /\ Folded(V, G, base, longer, q)
    BY <1>2, <1>3
  <1>7. EndsIn(E, longer, text, c)
    BY DEF EndsIn
  <1>8. r \in V /\ q = G[<<r, c>>]
    <2> HIDE DEF r, q, longer, E
    <2> QED
      BY <1>2, <1>6, <1>7, FoldedGrows
  <1> QED
    BY <1>4, <1>5, <1>8 DEF V, base

\* Laid out, pieces have the ink they had.
LEMMA LaidOutIs ==
    ASSUME NEW S, Space \in S, NEW width \in Nat, NEW pieces \in Seq(Narrow(S, width))
    PROVE  /\ LaidOut(pieces, width) \in Seq(Narrow(S, width))
           /\ AllInk(LaidOut(pieces, width)) = AllInk(pieces)
  <1> DEFINE N == Narrow(S, width)
             none == <<>>
             Good(p) == /\ LaidOut(p, width) \in Seq(N)
                        /\ AllInk(LaidOut(p, width)) = AllInk(p)
             T == {p \in Seq(N) : Good(p)}
  <1>1. N \subseteq Seq(S)
    BY DEF Narrow
  <1>2. none \in T
    <2>1. none \in Seq(N)
      OBVIOUS
    <2>2. LaidOut(none, width) = none
      <3> DEFINE G == LayStep(S, width)
                 V == Seq(Narrow(S, width))
                 base == none
                 r == LaidOut(none, width)
      <3>1. Folded(V, G, base, <<>>, r)
        <4>1. none \in Seq(Narrow(S, width))
          BY <2>1
        <4> HIDE DEF none
        <4>2. Folded(Seq(Narrow(S, width)), LayStep(S, width), <<>>, none, LaidOut(none, width))
          BY ONLY <4>1, Space \in S, width \in Nat, LaidOutIsFolded
        <4> QED
          BY <4>2 DEF none
      <3> HIDE DEF G, V, base, r
      <3>2. r = base
        BY <3>1, FoldedNothing
      <3> QED
        BY <3>2 DEF base, r
    <2> QED
      BY <2>1, <2>2
  <1>3. ASSUME NEW p \in Seq(N), NEW c \in N, p \in T PROVE Append(p, c) \in T
    <2> DEFINE r == LaidOut(p, width)
    <2>1. r \in Seq(N) /\ AllInk(r) = AllInk(p)
      BY <1>3
    <2>2. LaidOut(Append(p, c), width) = Lay(r, c, width)
      BY LaidOutGrows
    <2> HIDE DEF r
    <2>3. Lay(r, c, width) \in Seq(N) /\ AllInk(Lay(r, c, width)) = AllInk(r) \o Ink(c)
      BY <2>1, LayIs
    <2> HIDE DEF N
    <2>4. p \in Seq(Seq(S)) /\ c \in Seq(S)
      BY <1>1, SeqGrows
    <2>5. AllInk(Append(p, c)) = AllInk(p) \o Ink(c)
      BY <2>4, AllInkGrows
    <2>6. Append(p, c) \in Seq(N)
      BY AppendProperties
    <2> QED
      BY <2>1, <2>2, <2>3, <2>5, <2>6
  <1>4. pieces \in T
    <2> HIDE DEF T, N
    <2>1. pieces \in Seq(N)
      BY DEF N
    <2> QED
      BY <1>2, <1>3, <2>1, SequenceInduction
  <1> QED
    BY <1>4

\* Rows of rows, each of the ink of a text.
LEMMA InkOfMany ==
    ASSUME NEW S, NEW texts \in Seq(Seq(S)), NEW rows \in Seq(Seq(Seq(S))), Len(rows) = Len(texts),
           \A i \in 1..Len(texts) : AllInk(rows[i]) = Ink(texts[i])
    PROVE  AllInk(FlattenSeq(rows)) = AllInk(texts)
  <1> DEFINE n == Len(texts)
             X == Seq(S)
  <1>1. PICK g : FlattenRun(X, rows, g)
    BY FlattenRuns
  <1>2. PICK h : FlattenRun(S, texts, h)
    BY FlattenRuns
  <1>3. n \in Nat
    BY LenProperties
  <1> DEFINE a == [k \in 0..n |-> AllInk(g[k])]
             b == [k \in 0..n |-> Ink(h[k])]
  <1>4. /\ g \in [0..n -> Seq(X)] /\ g[0] = <<>> /\ \A i \in 1..n : g[i] = g[i - 1] \o rows[i]
        /\ FlattenSeq(rows) = g[n]
    BY <1>1 DEF FlattenRun
  <1>5. /\ h \in [0..n -> Seq(S)] /\ h[0] = <<>> /\ \A i \in 1..n : h[i] = h[i - 1] \o texts[i]
        /\ FlattenSeq(texts) = h[n]
    BY <1>2 DEF FlattenRun
  <1>6. \A i \in 1..n : AllInk(rows[i]) = Ink(texts[i]) /\ rows[i] \in Seq(X) /\ texts[i] \in Seq(S)
    BY ElementOfSeq
  <1> HIDE DEF n
  <1>7. \A k \in 0..n : a[k] = AllInk(g[k]) /\ b[k] = Ink(h[k]) /\ g[k] \in Seq(X) /\ h[k] \in Seq(S)
    BY <1>4, <1>5, Zenon
  <1> HIDE DEF a, b
  <1>8. a[0] = b[0]
    <2>1. AllInk(<<>>) = <<>> /\ Ink(<<>>) = <<>>
      <3>1. <<>> \in Seq(Seq(S)) /\ <<>> \in Seq(S)
        OBVIOUS
      <3>2. AllInk(<<>>) = <<>>
        BY <3>1, AllInkGrows
      <3> QED
        BY <3>2, DroppingNothing DEF Ink
    <2>2. 0 \in 0..n
      BY <1>3
    <2> QED
      BY <1>4, <1>5, <1>7, <2>1, <2>2
  <1>9. ASSUME NEW k \in 1..n, a[k - 1] = b[k - 1] PROVE a[k] = b[k]
    <2>1. k \in 0..n /\ k - 1 \in 0..n
      BY <1>3
    <2> DEFINE s == g[k - 1]
               t == h[k - 1]
               u == rows[k]
               v == texts[k]
    <2>2. /\ s \in Seq(X) /\ t \in Seq(S) /\ u \in Seq(X) /\ v \in Seq(S)
          /\ g[k] = s \o u /\ h[k] = t \o v /\ AllInk(s) = Ink(t) /\ AllInk(u) = Ink(v)
      BY <1>4, <1>5, <1>6, <1>7, <1>9, <2>1
    <2> HIDE DEF s, t, u, v
    <2>3. AllInk(s \o u) = AllInk(s) \o AllInk(u)
      BY <2>2, AllInkJoins
    <2>4. Ink(t \o v) = Ink(t) \o Ink(v)
      BY <2>2, InkJoins
    <2> QED
      BY <1>7, <2>1, <2>2, <2>3, <2>4
  <1>10. a[n] = b[n]
    BY <1>3, <1>8, <1>9, RunsAgree
  <1>11. n \in 0..n
    BY <1>3
  <1> QED
    BY <1>4, <1>5, <1>7, <1>10, <1>11 DEF AllInk

\* What is empty has no part in what is put together.
LEMMA FlattenDropsNothing ==
    ASSUME NEW S, NEW seqs \in Seq(Seq(S))
    PROVE  FlattenSeq(Dropping(seqs, {<<>>})) = FlattenSeq(seqs)
  <1> DEFINE V == Seq(S)
             none == <<>>
             nothing == {none}
             T == {t \in Seq(V) : FlattenSeq(Dropping(t, nothing)) = FlattenSeq(t)}
  <1>1. none \in T
    <2>1. Dropping(none, nothing) = none
      <3> HIDE DEF nothing
      <3> QED
        BY DroppingNothing
    <2> QED
      BY <2>1
  <1>2. ASSUME NEW t \in Seq(V), NEW c \in V, t \in T PROVE Append(t, c) \in T
    <2> DEFINE d == Dropping(t, nothing)
    <2>1. FlattenSeq(d) = FlattenSeq(t)
      BY <1>2
    <2> HIDE DEF V, nothing
    <2>2. d \in Seq(V) /\ Dropping(Append(t, c), nothing) = IF c \in nothing THEN d ELSE Append(d, c)
      BY DroppingGrows
    <2> HIDE DEF d
    <2>3. /\ FlattenSeq(Append(t, c)) = FlattenSeq(t) \o c /\ FlattenSeq(t) \in V
          /\ FlattenSeq(Append(d, c)) = FlattenSeq(d) \o c
      BY <2>2, FlattenGrows DEF V
    <2>4. CASE c \in nothing
      <3>1. FlattenSeq(t) \o c = FlattenSeq(t)
        BY <2>3, <2>4, ConcatEmptySeq DEF nothing, V
      <3> QED
        BY <2>1, <2>2, <2>3, <2>4, <3>1, AppendProperties
    <2>5. CASE c \notin nothing
      BY <2>1, <2>2, <2>3, <2>5, AppendProperties
    <2> QED
      BY <2>4, <2>5
  <1>3. seqs \in T
    <2> HIDE DEF T, V
    <2>1. seqs \in Seq(V)
      BY DEF V
    <2> QED
      BY <1>1, <1>2, <2>1, SequenceInduction
  <1> QED
    BY <1>3

\* The pieces of a line are no wider than asked for, and have its ink.
LEMMA PiecesOfALine ==
    ASSUME NEW S, NEW width \in Nat \ {0}, NEW line \in Seq(S)
    PROVE  /\ Pieces(line, width) \in Seq(Narrow(S, width))
           /\ AllInk(Pieces(line, width)) = Ink(line)
  <1> DEFINE N == Narrow(S, width)
             words == Words(line)
             n == Len(words)
             broken == [i \in DOMAIN words |-> SplitToWidth(words[i], width)]
             split == Split(line, Space)
  <1>1. split \in Seq(Seq(S)) /\ words = Dropping(split, {<<>>})
    <2>1. words = Dropping(split, {<<>>})
      BY Zenon DEF Words, Space
    <2> QED
      BY <2>1, SplitType
  <1>2. words \in Seq(Seq(S)) /\ AllInk(words) = AllInk(split)
    <2> HIDE DEF words, split
    <2>1. FlattenSeq(Dropping(split, {<<>>})) = FlattenSeq(split)
      BY <1>1, FlattenDropsNothing
    <2>2. Dropping(split, {<<>>}) \in Seq(Seq(S))
      <3> DEFINE R == {<<>>}
                 V == Seq(S)
      <3> HIDE DEF R, V
      <3>1. Dropping(split, R) \in Seq(V)
        BY <1>1, DroppingType DEF V
      <3> QED
        BY <3>1 DEF R, V
    <2> QED
      BY <1>1, <2>1, <2>2 DEF AllInk
  <1>3. AllInk(split) = Ink(line)
    BY SplitLoses, SpaceIsBlank DEF AllInk, Ink
  <1>4. Pieces(line, width) = FlattenSeq(broken)
    BY Zenon DEF Pieces
  <1> HIDE DEF words
  <1>5. DOMAIN words = 1..n /\ n \in Nat /\ \A i \in 1..n : words[i] \in Seq(S)
    BY <1>2, LenProperties, ElementOfSeq
  <1>6. ASSUME NEW i \in 1..n
        PROVE  SplitToWidth(words[i], width) \in Seq(N) /\ AllInk(SplitToWidth(words[i], width)) = Ink(words[i])
    <2> DEFINE w == words[i]
               p == SplitToWidth(w, width)
    <2>1. w \in Seq(S)
      BY <1>5
    <2> HIDE DEF w
    <2>2. /\ p \in Seq(Seq(S)) /\ \A k \in 1..Len(p) : Len(p[k]) <= width
          /\ FlattenSeq(p) = w
      BY <2>1, PiecesOfAWord
    <2> HIDE DEF p
    <2>3. \A k \in 1..Len(p) : p[k] \in N
      BY <2>2, ElementOfSeq DEF Narrow
    <2>4. p \in Seq(N)
      <3> HIDE DEF N
      <3>1. p = [k \in 1..Len(p) |-> p[k]] /\ Len(p) \in Nat
        BY <2>2, LenProperties
      <3> QED
        BY <2>3, <3>1
    <2> QED
      BY <2>2, <2>4 DEF AllInk, p, w
  <1>7. /\ broken \in Seq(Seq(N)) /\ Len(broken) = n
        /\ \A i \in 1..n : AllInk(broken[i]) = Ink(words[i])
    <2> HIDE DEF N, n
    <2> QED
      BY <1>5, <1>6
  <1>8. broken \in Seq(Seq(Seq(S)))
    <2> DEFINE B == broken
    <2> HIDE DEF B
    <2>1. Seq(N) \subseteq Seq(Seq(S)) /\ B \in Seq(Seq(N))
      <3>1. N \subseteq Seq(S)
        BY DEF Narrow
      <3>2. B \in Seq(Seq(N))
        BY <1>7 DEF B
      <3> HIDE DEF N
      <3>3. Seq(N) \subseteq Seq(Seq(S))
        BY <3>1, SeqGrows
      <3> QED
        BY <3>2, <3>3
    <2> HIDE DEF N
    <2>2. B \in Seq(Seq(Seq(S)))
      <3> DEFINE P == Seq(N)
                 Q == Seq(Seq(S))
      <3>1. P \subseteq Q /\ B \in Seq(P)
        BY <2>1
      <3> HIDE DEF P, Q
      <3>2. B \in Seq(Q)
        BY <3>1, SeqGrows
      <3> QED
        BY <3>2 DEF Q
    <2> QED
      BY <2>2 DEF B
  <1> HIDE DEF broken, N, n
  <1>9. FlattenSeq(broken) \in Seq(N)
    <2>1. <<>> \in Seq(N)
      OBVIOUS
    <2> QED
      BY <1>7, <2>1, FlattenGrows
  <1>10. AllInk(FlattenSeq(broken)) = AllInk(words)
    BY <1>2, <1>7, <1>8, InkOfMany DEF n
  <1> QED
    BY <1>2, <1>3, <1>4, <1>9, <1>10 DEF N

\* However many rows it takes, none is wider, and no ink is lost.
LEMMA NothingIsLost ==
    ASSUME NEW S, Space \in S, NEW width \in Nat \ {0}, NEW text \in Seq(S)
    PROVE  /\ Unbounded(text, width) \in Seq(Narrow(S, width))
           /\ AllInk(Unbounded(text, width)) = Ink(text)
  <1> DEFINE N == Narrow(S, width)
             lines == Split(text, Newline)
             n == Len(lines)
             laid == [i \in DOMAIN lines |-> LaidOut(Pieces(lines[i], width), width)]
  <1>1. lines \in Seq(Seq(S))
    BY SplitType
  <1>2. AllInk(lines) = Ink(text)
    <2>1. Newline \in Blanks
      BY WordingIs
    <2> QED
      BY <2>1, SplitLoses DEF AllInk, Ink
  <1>3. Unbounded(text, width) = FlattenSeq(laid)
    BY Zenon DEF Unbounded, Newline
  <1> HIDE DEF lines
  <1>4. DOMAIN lines = 1..n /\ n \in Nat /\ \A i \in 1..n : lines[i] \in Seq(S)
    BY <1>1, LenProperties, ElementOfSeq
  <1>5. ASSUME NEW i \in 1..n
        PROVE  /\ LaidOut(Pieces(lines[i], width), width) \in Seq(N)
               /\ AllInk(LaidOut(Pieces(lines[i], width), width)) = Ink(lines[i])
    <2> DEFINE w == lines[i]
               p == Pieces(w, width)
    <2>1. w \in Seq(S)
      BY <1>4
    <2> HIDE DEF w
    <2>2. p \in Seq(N) /\ AllInk(p) = Ink(w)
      BY <2>1, PiecesOfALine
    <2> HIDE DEF p
    <2>3. LaidOut(p, width) \in Seq(N) /\ AllInk(LaidOut(p, width)) = AllInk(p)
      BY <2>2, LaidOutIs
    <2> QED
      BY <2>2, <2>3 DEF p, w
  <1>6. /\ laid \in Seq(Seq(N)) /\ Len(laid) = n
        /\ \A i \in 1..n : AllInk(laid[i]) = Ink(lines[i])
    <2> HIDE DEF N, n
    <2> QED
      BY <1>4, <1>5
  <1> HIDE DEF laid, n
  <1>7. laid \in Seq(Seq(Seq(S)))
    <2>1. N \subseteq Seq(S)
      BY DEF Narrow
    <2> HIDE DEF N
    <2> DEFINE P == Seq(N)
               Q == Seq(Seq(S))
    <2>2. P \subseteq Q /\ laid \in Seq(P)
      BY <1>6, <2>1, SeqGrows
    <2> HIDE DEF P, Q
    <2>3. laid \in Seq(Q)
      BY <2>2, SeqGrows
    <2> QED
      BY <2>3 DEF Q
  <1> HIDE DEF N
  <1>8. FlattenSeq(laid) \in Seq(N)
    <2>1. <<>> \in Seq(N)
      OBVIOUS
    <2> QED
      BY <1>6, <2>1, FlattenGrows
  <1>9. AllInk(FlattenSeq(laid)) = AllInk(lines)
    BY <1>1, <1>6, <1>7, InkOfMany DEF n
  <1> QED
    BY <1>2, <1>3, <1>8, <1>9 DEF N

(***************************************************************************)
(* Rows of so many                                                         *)
(***************************************************************************)
LEMMA FirstOfLonger ==
    ASSUME NEW S, NEW s \in Seq(S), NEW c \in S, NEW k \in 0..Len(s)
    PROVE  /\ SubSeq(Append(s, c), 1, k) = SubSeq(s, 1, k)
           /\ SubSeq(s, 1, Len(s)) = s
  <1> DEFINE t == Append(s, c)
             x == SubSeq(t, 1, k)
             y == SubSeq(s, 1, k)
             z == SubSeq(s, 1, Len(s))
  <1>1. Len(s) \in Nat /\ \A i \in 1..Len(s) : s[i] \in S /\ t[i] = s[i]
    BY LenProperties, ElementOfSeq, AppendProperties
  <1> HIDE DEF t
  <1>2. x \in Seq(S) /\ Len(x) = k /\ \A i \in 1..k : x[i] = t[i]
    <2>1. \A i \in 1..k : t[i] \in S
      BY <1>1
    <2> QED
      BY <1>1, <2>1, SubSeqProperties
  <1>3. y \in Seq(S) /\ Len(y) = k /\ \A i \in 1..k : y[i] = s[i]
    <2>1. \A i \in 1..k : s[i] \in S
      BY <1>1
    <2> QED
      BY <1>1, <2>1, SubSeqProperties
  <1>4. z \in Seq(S) /\ Len(z) = Len(s) /\ \A i \in 1..Len(s) : z[i] = s[i]
    BY <1>1, SubSeqProperties
  <1> HIDE DEF x, y, z
  <1>5. x = y
    <2>1. \A i \in 1..k : x[i] = y[i]
      BY <1>1, <1>2, <1>3
    <2> QED
      BY <1>2, <1>3, <2>1, SeqEqual
  <1>6. z = s
    BY <1>4, SeqEqual
  <1> QED
    BY <1>5, <1>6 DEF x, y, z, t

\* A row that is cut ends in the mark, and has no ink but its own and that.
LEMMA CutRow ==
    ASSUME NEW S, Space \in S, Cut \in S, NEW row \in Narrow(S, RowWidth)
    PROVE  \E m \in Seq(S) :
              /\ Clip(row \o <<Space, Cut>>) = Append(m, Cut)
              /\ Ink(m) = Ink(row)
              /\ Len(m) <= RowWidth
  <1> DEFINE l == Len(row)
             a == Append(row, Space)
             x == Append(a, Cut)
  <1>1. row \in Seq(S) /\ l \in Nat /\ l <= RowWidth /\ RowWidth \in Nat
    BY LenProperties, RowsAssumption DEF Narrow
  <1>2. a \in Seq(S) /\ Len(a) = l + 1
    BY <1>1, AppendProperties
  <1>3. x \in Seq(S) /\ Len(x) = l + 2
    <2> HIDE DEF a
    <2>1. Len(x) = Len(a) + 1 /\ x \in Seq(S)
      BY <1>2, AppendProperties
    <2> QED
      BY <1>1, <1>2, <2>1
  <1>4. row \o <<Space, Cut>> = x
    BY <1>1
  <1>5. Ink(a) = Ink(row)
    <2>1. Space \in Blanks
      BY SpaceIsBlank
    <2> QED
      BY <1>1, <2>1, DroppingGrows DEF Ink
  <1>6. SubSeq(x, 1, l) = row /\ SubSeq(x, 1, l + 1) = a
    <2>1. SubSeq(a, 1, l) = row
      <3>1. l \in 0..Len(row)
        BY <1>1
      <3> QED
        BY <1>1, <3>1, FirstOfLonger
    <2> HIDE DEF a
    <2>2. l \in 0..Len(a) /\ l + 1 \in 0..Len(a)
      BY <1>1, <1>2
    <2>3. SubSeq(x, 1, l) = SubSeq(a, 1, l) /\ SubSeq(x, 1, l + 1) = SubSeq(a, 1, l + 1)
      BY <1>2, <2>2, FirstOfLonger
    <2>4. SubSeq(a, 1, l + 1) = a
      BY <1>2, <2>2, FirstOfLonger
    <2> QED
      BY <2>1, <2>3, <2>4
  <1>7. Clip(x) = IF l + 2 <= RowWidth THEN x ELSE Append(SubSeq(x, 1, RowWidth), Cut)
    BY <1>3 DEF Clip
  <1> HIDE DEF a, x, l
  <1>8. CASE l = RowWidth
    <2>1. Clip(x) = Append(row, Cut)
      BY <1>1, <1>6, <1>7, <1>8
    <2> QED
      BY <1>1, <1>4, <2>1 DEF l
  <1>9. CASE l + 1 = RowWidth
    <2>1. Clip(x) = Append(a, Cut)
      BY <1>1, <1>6, <1>7, <1>9
    <2>2. Len(a) <= RowWidth
      BY <1>1, <1>2, <1>9
    <2> QED
      BY <1>2, <1>4, <1>5, <2>1, <2>2
  <1>10. CASE l + 2 <= RowWidth
    <2>1. Clip(x) = Append(a, Cut)
      BY <1>7, <1>10 DEF x
    <2>2. Len(a) <= RowWidth
      BY <1>1, <1>2, <1>10
    <2> QED
      BY <1>2, <1>4, <1>5, <2>1, <2>2
  <1>11. l = RowWidth \/ l + 1 = RowWidth \/ l + 2 <= RowWidth
    BY <1>1
  <1> QED
    BY <1>8, <1>9, <1>10, <1>11

\* What is narrow is drawn as it is.
LEMMA NarrowIsWhole ==
    ASSUME NEW S, NEW row \in Narrow(S, RowWidth)
    PROVE  Clip(row) = row
  BY DEF Narrow, Clip

Clipped(rows) == [i \in DOMAIN rows |-> Clip(rows[i])]

\* What is drawn of a text is narrow, and whole, or marked where it was cut.
Readable(S, drawn, text) ==
    /\ drawn \in Seq(Seq(S))
    /\ \A i \in 1..Len(drawn) : Len(drawn[i]) <= RowWidth + 1
    /\ \/ AllInk(drawn) = Ink(text)
       \/ Last(Last(drawn)) = Cut /\ IsPrefix(Front(AllInk(drawn)), Ink(text))

LEMMA PrefixOfJoined ==
    ASSUME NEW S, NEW s \in Seq(S), NEW t \in Seq(S)
    PROVE  IsPrefix(s, s \o t)
  <1> DEFINE w == s \o t
             n == Len(s)
             x == SubSeq(s, 1, n)
             y == SubSeq(w, 1, n)
  <1>1. n \in Nat /\ Len(t) \in Nat /\ \A i \in 1..n : s[i] \in S
    BY LenProperties, ElementOfSeq
  <1>2. w \in Seq(S) /\ Len(w) = n + Len(t) /\ \A i \in 1..n : w[i] = s[i]
    <2>1. /\ w \in Seq(S) /\ Len(w) = Len(s) + Len(t)
          /\ \A i \in 1..(Len(s) + Len(t)) : w[i] = IF i <= Len(s) THEN s[i] ELSE t[i - Len(s)]
      BY ConcatProperties
    <2> HIDE DEF w
    <2> QED
      BY <1>1, <2>1
  <1> HIDE DEF w
  <1>3. x \in Seq(S) /\ Len(x) = n /\ \A i \in 1..n : x[i] = s[i]
    BY <1>1, SubSeqProperties
  <1>4. y \in Seq(S) /\ Len(y) = n /\ \A i \in 1..n : y[i] = w[i]
    <2>1. \A i \in 1..n : w[i] \in S
      BY <1>1, <1>2
    <2> QED
      BY <1>1, <2>1, SubSeqProperties
  <1> HIDE DEF x, y
  <1>5. x = y
    <2>1. \A i \in 1..n : x[i] = y[i]
      BY <1>2, <1>3, <1>4
    <2> QED
      BY <1>3, <1>4, <2>1, SeqEqual
  <1>6. Len(s) <= Len(w)
    BY <1>1, <1>2
  <1> QED
    BY <1>5, <1>6 DEF IsPrefix, w, x, y

LEMMA WrappedIsReadable ==
    ASSUME NEW S, Space \in S, Cut \in S, NEW text \in Seq(S), NEW max \in Nat \ {0}
    PROVE  LET rows == Wrap(text, RowWidth, max)
           IN  /\ rows \in Seq(Seq(S)) /\ Len(rows) <= max
               /\ Readable(S, Clipped(rows), text)
  <1> DEFINE N == Narrow(S, RowWidth)
             all == Unbounded(text, RowWidth)
             rows == Wrap(text, RowWidth, max)
             short == SubSeq(all, 1, max - 1)
             row == all[max]
             cut == row \o <<Space, Cut>>
             drawn == Clipped(rows)
  <1> SUFFICES rows \in Seq(Seq(S)) /\ Len(rows) <= max /\ Readable(S, drawn, text)
    OBVIOUS
  <1>1. RowWidth \in Nat \ {0} /\ N \subseteq Seq(S)
    BY RowsAssumption DEF Narrow
  <1>2. all \in Seq(N) /\ AllInk(all) = Ink(text)
    <2> HIDE DEF all
    <2> QED
      BY <1>1, NothingIsLost DEF all
  <1>3. rows = IF Len(all) <= max THEN all ELSE Append(short, cut)
    BY Zenon DEF Wrap, Space
  <1>4. \A r \in N : Clip(r) = r /\ Len(r) <= RowWidth /\ Len(r) \in Nat
    BY <1>1, NarrowIsWhole, LenProperties DEF Narrow
  <1> HIDE DEF all, rows, N
  <1>5. ASSUME NEW t \in Seq(N) PROVE Clipped(t) = t
    <2>1. DOMAIN t = 1..Len(t) /\ \A i \in 1..Len(t) : Clip(t[i]) = t[i]
      BY <1>4, LenProperties, ElementOfSeq
    <2>2. t = [i \in 1..Len(t) |-> t[i]]
      BY LenProperties
    <2> QED
      BY <2>1, <2>2, Zenon DEF Clipped
  <1>6. CASE Len(all) <= max
    <2>1. rows \in Seq(Seq(S)) /\ Len(rows) <= max /\ drawn = rows /\ rows \in Seq(N)
      BY <1>1, <1>2, <1>3, <1>5, <1>6, SeqGrows
    <2>2. \A i \in 1..Len(rows) : Len(rows[i]) <= RowWidth + 1
      <3>1. \A i \in 1..Len(rows) : rows[i] \in N
        BY <2>1, ElementOfSeq
      <3> QED
        BY <1>1, <1>4, <3>1
    <2> QED
      BY <1>2, <1>3, <1>6, <2>1, <2>2 DEF Readable
  <1>7. CASE ~(Len(all) <= max)
    <2>1. Len(all) \in Nat /\ max - 1 \in Nat /\ max - 1 < max /\ max < Len(all) /\ max \in 1..Len(all)
      BY <1>2, <1>7, LenProperties
    <2>2. row \in N
      BY <1>2, <2>1, ElementOfSeq
    <2> DEFINE rest == SubSeq(all, max + 1, Len(all))
               upto == SubSeq(all, 1, max)
    <2>3. /\ upto \in Seq(N) /\ rest \in Seq(N) /\ upto \o rest = SubSeq(all, 1, Len(all))
      <3>1. max <= Len(all)
        BY <2>1
      <3> QED
        BY <1>2, <2>1, <3>1, SubSeqJoins
    <2>4. SubSeq(all, 1, Len(all)) = all
      <3>1. 0 \in 0..Len(all)
        BY <2>1
      <3> QED
        BY <1>2, <2>2, <3>1, FirstOfLonger
    <2>5. short \in Seq(N) /\ Len(short) = max - 1 /\ upto = Append(short, row)
      <3> DEFINE k == max - 1
                 one == SubSeq(all, k + 1, max)
      <3>1. k \in Nat /\ k <= max /\ max <= Len(all) /\ k + 1 = max
        BY <2>1
      <3>2. /\ short \in Seq(N) /\ Len(short) = k /\ one \in Seq(N) /\ Len(one) = max - k
            /\ short \o one = upto
        <4> HIDE DEF k
        <4> QED
          BY <1>2, <3>1, SubSeqJoins DEF k
      <3>3. one[1] = all[max]
        <4>1. \A i \in max..max : all[i] \in N
          BY <1>2, <2>1, ElementOfSeq
        <4>2. one = SubSeq(all, max, max)
          BY <3>1
        <4>3. \A i \in 1..(max - max + 1) : SubSeq(all, max, max)[i] = all[max + i - 1]
          BY <4>1, SubSeqProperties
        <4>4. 1 \in 1..(max - max + 1) /\ max + 1 - 1 = max
          OBVIOUS
        <4> HIDE DEF one
        <4> QED
          BY <4>2, <4>3, <4>4
      <3>4. one = <<row>>
        <4>1. Len(one) = 1 /\ one \in Seq(N)
          BY <3>1, <3>2
        <4> HIDE DEF one, row
        <4>2. one[1] = row
          BY <3>3 DEF row
        <4>3. <<row>> \in Seq(N) /\ Len(<<row>>) = 1 /\ <<row>>[1] = row
          BY <2>2
        <4> QED
          BY <4>1, <4>2, <4>3
      <3> HIDE DEF one, short, upto, row
      <3>5. Append(short, row) = short \o <<row>>
        BY <2>2, <3>2, AppendIsConcat
      <3> QED
        BY <3>2, <3>4, <3>5
    <2> HIDE DEF upto, rest, short, row
    <2>6. PICK m \in Seq(S) : Clip(cut) = Append(m, Cut) /\ Ink(m) = Ink(row) /\ Len(m) <= RowWidth
      BY <2>2, CutRow DEF N
    <2>7. cut \in Seq(S)
      <3>1. row \in Seq(S)
        BY <1>1, <2>2
      <3>2. <<Space, Cut>> \in Seq(S)
        OBVIOUS
      <3> DEFINE u == <<Space, Cut>>
      <3> HIDE DEF u
      <3>3. row \o u \in Seq(S)
        BY <3>1, <3>2, ConcatProperties DEF u
      <3> QED
        BY <3>3 DEF u
    <2> DEFINE end == Clip(cut)
    <2>8. /\ end \in Seq(S) /\ Len(end) <= RowWidth + 1 /\ Last(end) = Cut
          /\ Ink(end) = Append(Ink(row), Cut)
      <3>0. end = Append(m, Cut)
        BY <2>6
      <3> HIDE DEF end
      <3>1. end = Append(m, Cut) /\ end \in Seq(S) /\ Len(end) = Len(m) + 1 /\ Len(m) \in Nat
        BY <3>0, AppendProperties, LenProperties
      <3>2. end # <<>>
        BY <3>1
      <3>3. Last(end) = Cut
        BY <3>1, <3>2, FrontAndLast
      <3>4. Cut \notin Blanks
        BY Zenon DEF Cut, Blanks
      <3>5. Ink(end) = Append(Ink(m), Cut)
        BY <3>1, <3>4, DroppingGrows DEF Ink
      <3> QED
        BY <1>1, <2>6, <3>1, <3>3, <3>5
    <2> HIDE DEF cut, end
    <2>9. rows = Append(short, cut)
      BY <1>3, <1>7
    <2>10. short \in Seq(Seq(S)) /\ upto \in Seq(Seq(S)) /\ rest \in Seq(Seq(S))
      BY <1>1, <2>3, <2>5, SeqGrows
    <2>11. rows \in Seq(Seq(S)) /\ Len(rows) = max /\ rows # <<>>
      <3>1. rows \in Seq(Seq(S)) /\ Len(rows) = Len(short) + 1
        BY <2>7, <2>9, <2>10, AppendProperties
      <3>2. Len(rows) = max
        BY <2>1, <2>5, <3>1
      <3> QED
        BY <2>1, <3>1, <3>2
    <2>12. drawn = Append(short, end)
      <3> DEFINE n == Len(short)
      <3>1. DOMAIN rows = 1..(n + 1) /\ n \in Nat /\ \A i \in 1..n : rows[i] = short[i] /\ short[i] \in N
        BY <2>5, <2>7, <2>9, <2>10, <2>11, LenProperties, AppendProperties, ElementOfSeq
      <3>2. rows[n + 1] = cut
        BY <2>7, <2>9, <2>10, AppendProperties
      <3> HIDE DEF n
      <3>3. drawn = [i \in 1..(n + 1) |-> Clip(rows[i])]
        BY <3>1 DEF Clipped
      <3>4. drawn[n + 1] = end
        BY <3>1, <3>2, <3>3 DEF end
      <3>5. \A i \in 1..n : drawn[i] = short[i]
        BY <1>4, <3>1, <3>3
      <3>6. \A i \in 1..(n + 1) : drawn[i] \in Seq(S)
        <4>1. \A i \in 1..n : drawn[i] \in Seq(S)
          BY <1>1, <3>1, <3>5
        <4>2. \A i \in 1..(n + 1) : i \in 1..n \/ i = n + 1
          BY <3>1
        <4> QED
          BY <2>8, <3>4, <4>1, <4>2
      <3> HIDE DEF drawn
      <3>7. drawn = [i \in 1..(n + 1) |-> drawn[i]]
        BY <3>3
      <3>8. drawn \in Seq(Seq(S)) /\ Len(drawn) = n + 1
        BY <3>1, <3>6, <3>7
      <3>9. /\ Append(short, end) \in Seq(Seq(S)) /\ Len(Append(short, end)) = n + 1
            /\ \A i \in 1..n : Append(short, end)[i] = short[i]
            /\ Append(short, end)[n + 1] = end
        BY <2>8, <2>10, AppendProperties DEF n
      <3>10. \A i \in 1..(n + 1) : drawn[i] = Append(short, end)[i]
        <4>1. \A i \in 1..(n + 1) : i \in 1..n \/ i = n + 1
          BY <3>1
        <4> QED
          BY <3>4, <3>5, <3>9, <4>1
      <3> DEFINE w == Append(short, end)
      <3> HIDE DEF w
      <3> QED
        BY <3>8, <3>9, <3>10, SeqEqual DEF w
    <2> HIDE DEF drawn
    <2>13. drawn \in Seq(Seq(S)) /\ drawn # <<>> /\ Last(drawn) = end
      <3>1. drawn \in Seq(Seq(S)) /\ drawn # <<>>
        BY <2>8, <2>10, <2>12, AppendProperties
      <3> QED
        BY <2>8, <2>10, <2>12, <3>1, FrontAndLast
    <2>14. \A i \in 1..Len(drawn) : Len(drawn[i]) <= RowWidth + 1
      <3> DEFINE n == Len(short)
      <3>1. /\ Len(drawn) = n + 1 /\ n \in Nat /\ \A i \in 1..n : drawn[i] = short[i]
            /\ drawn[n + 1] = end
        BY <2>8, <2>10, <2>12, AppendProperties, LenProperties
      <3>2. \A i \in 1..n : short[i] \in N
        BY <2>5, ElementOfSeq
      <3> HIDE DEF n
      <3>3. \A i \in 1..n : Len(drawn[i]) <= RowWidth + 1
        BY <1>1, <1>4, <3>1, <3>2
      <3>4. \A i \in 1..(n + 1) : i \in 1..n \/ i = n + 1
        BY <3>1
      <3> QED
        BY <2>8, <3>1, <3>3, <3>4
    <2>15. AllInk(drawn) = Append(AllInk(upto), Cut) /\ AllInk(upto) \in Seq(S)
      <3>1. row \in Seq(S)
        BY <1>1, <2>2
      <3>2. AllInk(upto) = AllInk(short) \o Ink(row) /\ AllInk(short) \in Seq(S)
        BY <2>5, <2>10, <3>1, AllInkGrows
      <3>3. AllInk(drawn) = AllInk(short) \o Ink(end)
        BY <2>8, <2>10, <2>12, AllInkGrows
      <3>4. Ink(row) \in Seq(S)
        BY <3>1, InkJoins
      <3>5. /\ AllInk(short) \o Append(Ink(row), Cut) = Append(AllInk(short) \o Ink(row), Cut)
            /\ AllInk(short) \o Ink(row) \in Seq(S)
        BY <3>2, <3>4, ConcatAppend
      <3> QED
        BY <2>8, <3>2, <3>3, <3>5
    <2>16. IsPrefix(AllInk(upto), Ink(text))
      <3>1. AllInk(upto \o rest) = AllInk(upto) \o AllInk(rest) /\ AllInk(rest) \in Seq(S)
        BY <2>10, AllInkJoins
      <3>2. Ink(text) = AllInk(upto) \o AllInk(rest)
        BY <1>2, <2>3, <2>4, <3>1
      <3> QED
        BY <2>15, <3>1, <3>2, PrefixOfJoined
    <2>17. Front(AllInk(drawn)) = AllInk(upto)
      <3> DEFINE a == AllInk(upto)
                 b == AllInk(drawn)
      <3>1. a \in Seq(S) /\ b = Append(a, Cut)
        BY <2>15
      <3> HIDE DEF a, b
      <3>2. b \in Seq(S) /\ b # <<>>
        BY <3>1, AppendProperties
      <3>3. Front(b) = a
        BY <3>1, <3>2, FrontAndLast
      <3> QED
        BY <3>3 DEF a, b
    <2>18. Readable(S, drawn, text)
      BY <2>8, <2>13, <2>14, <2>16, <2>17 DEF Readable
    <2>19. Len(rows) <= max
      BY <2>11
    <2> QED
      BY <2>11, <2>18, <2>19
  <1> QED
    BY <1>6, <1>7

\* A text and its mark are what a panel draws of the rows it takes: the others are hidden.
LEMMA BlockDraws ==
    ASSUME NEW S, Space \in S, Cut \in S, NEW text \in Seq(S), NEW max \in Nat \ {0}
    PROVE  Readable(S, AsDrawn(Block({text}, max)), text)
  <1> DEFINE R == SUBSET Seq(S)
             w == Wrap(text, RowWidth, max)
             n == Len(w)
             block == Block({text}, max)
             a == [i \in 1..n |-> OneRow(w[i])]
             b == [i \in 1..(max - n) |-> Hidden]
             drawn == Clipped(w)
             none == {Hidden}
  <1>1. w \in Seq(Seq(S)) /\ n <= max /\ Readable(S, drawn, text)
    BY WrappedIsReadable
  <1>2. block = [i \in 1..max |-> IF i <= n THEN OneRow(w[i]) ELSE Hidden]
    <2>1. (CHOOSE t \in {text} : TRUE) = text
      OBVIOUS
    <2>2. {text} # {}
      OBVIOUS
    <2> DEFINE o == {text}
    <2> HIDE DEF o
    <2>3. Block(o, max) = [i \in 1..max |-> IF i <= Len(Wrap(CHOOSE t \in o : TRUE, RowWidth, max))
                                            THEN OneRow(Wrap(CHOOSE t \in o : TRUE, RowWidth, max)[i])
                                            ELSE Hidden]
      BY <2>2 DEF Block, o
    <2> QED
      BY <2>1, <2>3 DEF o
  <1> HIDE DEF w, block
  <1>3. n \in Nat /\ DOMAIN w = 1..n /\ DOMAIN drawn = 1..n /\ \A i \in 1..n : drawn[i] = Clip(w[i])
    BY <1>1, LenProperties DEF Clipped
  <1>4. \A i \in 1..n : drawn[i] \in Seq(S)
    <2>1. drawn \in Seq(Seq(S))
      BY <1>1 DEF Readable
    <2>2. Len(drawn) = n
      BY <1>3, <2>1, LenProperties
    <2> HIDE DEF drawn, n
    <2> QED
      BY <2>1, <2>2, ElementOfSeq
  <1> HIDE DEF drawn, n
  <1>5. ASSUME NEW i \in 1..n
        PROVE  /\ OneRow(w[i]) = {EscapeLabel(drawn[i])} /\ OneRow(w[i]) \in R /\ OneRow(w[i]) # Hidden
               /\ PanelDraws(EscapeLabel(drawn[i])) = drawn[i]
    <2> DEFINE t == drawn[i]
    <2>1. t \in Seq(S) /\ OneRow(w[i]) = {EscapeLabel(t)}
      BY <1>3, <1>4 DEF OneRow
    <2> HIDE DEF t
    <2>2. EscapeLabel(t) \in Seq(S) /\ PanelDraws(EscapeLabel(t)) = t
      BY <2>1, DrawnWhole
    <2> QED
      BY <2>1, <2>2 DEF Hidden, t
  <1>6. a \in Seq(R) /\ Len(a) = n /\ DOMAIN a = 1..n
    <2>1. \A i \in 1..n : OneRow(w[i]) \in R
      BY <1>5
    <2> HIDE DEF R
    <2> QED
      BY <1>3, <2>1
  <1>7. b \in Seq(R) /\ Len(b) = max - n /\ max - n \in Nat
    <2>1. Hidden \in R
      BY DEF Hidden
    <2> HIDE DEF R
    <2>2. max - n \in Nat
      BY <1>1, <1>3
    <2> QED
      BY <2>1, <2>2
  <1>8. block = a \o b
    <2>1. /\ a \o b \in Seq(R) /\ Len(a \o b) = Len(a) + Len(b)
          /\ \A i \in 1..(Len(a) + Len(b)) : (a \o b)[i] = IF i <= Len(a) THEN a[i] ELSE b[i - Len(a)]
      <3> HIDE DEF a, b, R
      <3> QED
        BY <1>6, <1>7, ConcatProperties
    <2>2. Len(a) + Len(b) = max
      <3> HIDE DEF a, b
      <3> QED
        BY <1>3, <1>6, <1>7
    <2>3. \A i \in 1..n : a[i] = OneRow(w[i])
      OBVIOUS
    <2>4. \A i \in 1..(max - n) : b[i] = Hidden
      OBVIOUS
    <2> HIDE DEF a, b
    <2> DEFINE c == a \o b
    <2>5. c \in Seq(R) /\ Len(c) = max /\ \A i \in 1..max : c[i] = IF i <= n THEN a[i] ELSE b[i - n]
      BY <1>6, <2>1, <2>2
    <2> HIDE DEF c
    <2>6. ASSUME NEW i \in 1..max PROVE c[i] = IF i <= n THEN OneRow(w[i]) ELSE Hidden
      <3>1. CASE i <= n
        BY <1>3, <2>3, <2>5, <3>1
      <3>2. CASE ~(i <= n)
        <4>1. i - n \in 1..(max - n)
          BY <1>3, <1>7, <3>2
        <4> QED
          BY <2>4, <2>5, <3>2, <4>1
      <3> QED
        BY <3>1, <3>2
    <2>7. c = [i \in 1..max |-> c[i]]
      BY <2>5, LenProperties
    <2>8. c = block
      BY <1>2, <2>6, <2>7
    <2> QED
      BY <2>8 DEF c
  <1>9. Shown(block) = a
    <2>1. ToSet(a) = {a[i] : i \in 1..n} /\ ToSet(b) = {b[i] : i \in 1..(max - n)}
      <3> HIDE DEF a, b, R
      <3> QED
        BY <1>6, <1>7, ToSetIs
    <2>2. ToSet(a) \cap none = {}
      BY <1>5, <2>1
    <2>3. ToSet(b) \subseteq none
      BY <2>1
    <2> HIDE DEF a, b, R, none
    <2>4. Dropping(a, none) = a
      BY <1>6, <2>2, DroppingNone
    <2>5. Dropping(b, none) = <<>>
      BY <1>7, <2>3, DroppingAll
    <2>6. Dropping(a \o b, none) = Dropping(a, none) \o Dropping(b, none)
      BY <1>6, <1>7, DroppingConcat
    <2>7. a \o <<>> = a
      BY <1>6, ConcatEmptySeq
    <2> QED
      BY <1>8, <2>4, <2>5, <2>6, <2>7 DEF Shown, none
  <1>10. AsDrawn(block) = drawn
    <2>1. \A i \in 1..n : (CHOOSE label \in a[i] : TRUE) = EscapeLabel(drawn[i])
      BY <1>5
    <2>2. AsDrawn(block) = [i \in 1..n |-> PanelDraws(CHOOSE label \in a[i] : TRUE)]
      <3> HIDE DEF a
      <3> QED
        BY <1>6, <1>9 DEF AsDrawn
    <2> HIDE DEF a
    <2>3. AsDrawn(block) = [i \in 1..n |-> drawn[i]]
      BY <1>5, <2>1, <2>2
    <2>4. drawn = [i \in 1..n |-> drawn[i]]
      BY <1>3, Zenon DEF drawn, Clipped
    <2> QED
      BY <2>3, <2>4
  <1> QED
    BY <1>1, <1>10 DEF block

Failed == "Failed:"

LEMMA LabelIs ==
    ASSUME NEW reason \in Seq(Chars)
    PROVE  /\ <<"Failed:", " ">> \o reason \in Seq(Chars)
           /\ Space \in Chars /\ Cut \in Chars
  <1>1. Space \in Chars
    BY Zenon DEF Space, Chars
  <1>2. Cut \in Chars /\ Failed \in Chars
    BY Zenon DEF Failed, Chars
  <1>3. <<"Failed:", " ">> = <<Failed, Space>>
    BY Zenon DEF Failed, Space
  <1> DEFINE head == <<Failed, Space>>
  <1>4. head \in Seq(Chars)
    BY <1>1, <1>2
  <1> HIDE DEF head
  <1>5. head \o reason \in Seq(Chars)
    BY <1>4, ConcatProperties
  <1> QED
    BY <1>1, <1>2, <1>3, <1>5, Zenon DEF head

\* Whatever a unit logged, and whatever is withheld.
LEMMA ReasonsAreReadable ==
    ASSUME NEW journal \in Seq(Logged), NEW extra_args, extra_args \cap Wording = {}
    PROVE  ReadableReason(journal, extra_args)
  <1> DEFINE reason == FailureReason(journal, extra_args)
             own == Dropping(journal, Foreign(journal))
             label == <<"Failed:", " ">> \o reason
             block == Block({label}, ReasonRows)
             drawn == AsDrawn(block)
             ink == Ink(FlattenSeq(drawn))
  <1>1. /\ reason \in Seq(Chars) /\ HasInk(reason)
        /\ ToSet(reason) \cap ({ARGV_ECHO} \cup (extra_args \ {NoArgument})) = {}
    BY ReasonTells
  <1>2. Ink(reason) # <<>>
    <2> HIDE DEF reason
    <2>1. ToSet(Ink(reason)) = ToSet(reason) \ Blanks
      BY <1>1, DroppingLeaves DEF Ink
    <2>2. ToSet(Ink(reason)) # {}
      BY <1>1, <2>1 DEF HasInk
    <2>3. ToSet(<<>>) = {}
      BY DEF ToSet
    <2> QED
      BY <2>2, <2>3
  <1>3. (\E entry \in ToSet(own) : Says(entry)) => reason = FailureReason(own, extra_args)
    <2> SUFFICES ASSUME \E entry \in ToSet(own) : Says(entry)
                 PROVE  reason = FailureReason(own, extra_args)
      OBVIOUS
    <2>1. WhatTheUnitSaid(journal) = WhatTheUnitSaid(own)
      <3> HIDE DEF own
      <3>1. own = Dropping(journal, Foreign(journal))
        BY DEF own
      <3> QED
        BY <3>1, OwnWordsSuffice
    <2> HIDE DEF own
    <2> QED
      BY <2>1 DEF FailureReason
  <1>4. /\ drawn \in Seq(Seq(Chars)) /\ \A i \in 1..Len(drawn) : Len(drawn[i]) <= RowWidth + 1
        /\ \/ ink = Ink(label)
           \/ Last(Last(drawn)) = Cut /\ IsPrefix(Front(ink), Ink(label))
    <2>1. label \in Seq(Chars) /\ Space \in Chars /\ Cut \in Chars
      <3> HIDE DEF reason
      <3> QED
        BY <1>1, LabelIs
    <2> HIDE DEF label
    <2>2. Readable(Chars, drawn, label)
      BY <2>1, RowsAssumption, BlockDraws
    <2> HIDE DEF drawn
    <2> QED
      BY <2>2 DEF Readable, AllInk
  <1>5. DOMAIN drawn = 1..Len(drawn)
    <2> HIDE DEF drawn
    <2> QED
      BY <1>4, LenProperties
  <1>6. own = Dropping(journal, {entry \in ToSet(journal) : entry.systemd})
    BY DEF Foreign
  <1> HIDE DEF reason, own, label, drawn, ink
  <1>7. /\ ToSet(reason) \cap ({ARGV_ECHO} \cup (extra_args \ {NoArgument})) = {}
        /\ Ink(reason) # <<>>
        /\ (\E entry \in ToSet(own) : Says(entry)) => reason = FailureReason(own, extra_args)
        /\ \A i \in DOMAIN drawn : Len(drawn[i]) <= RowWidth + 1
        /\ \/ ink = Ink(label)
           \/ Last(Last(drawn)) = Cut /\ IsPrefix(Front(ink), Ink(label))
    BY <1>1, <1>2, <1>3, <1>4, <1>5
  <1> QED
    BY <1>6, <1>7, Zenon DEF ReadableReason, reason, label, drawn, ink

(***************************************************************************)
(* The shape of a submenu                                                  *)
(***************************************************************************)
\* So many rows.
Tall(s, n) == n \in Nat /\ \E X : s \in Seq(X) /\ Len(s) = n

\* The m rows of s on top of the n rows of t.
Stack(rows, s, m, t, n) ==
    /\ Tall(rows, m + n)
    /\ \A i \in 1..m : rows[i] = s[i]
    /\ \A i \in 1..n : rows[m + i] = t[i]

LEMMA Stacked ==
    ASSUME NEW s, NEW t, NEW m, NEW n, Tall(s, m), Tall(t, n)
    PROVE  Stack(s \o t, s, m, t, n)
  <1>1. PICK X : s \in Seq(X) /\ Len(s) = m
    BY DEF Tall
  <1>2. PICK Y : t \in Seq(Y) /\ Len(t) = n
    BY DEF Tall
  <1>3. m \in Nat /\ n \in Nat
    BY DEF Tall
  <1> DEFINE Z == X \cup Y
             w == s \o t
  <1>4. s \in Seq(Z) /\ t \in Seq(Z)
    <2>1. X \subseteq Z /\ Y \subseteq Z
      OBVIOUS
    <2> HIDE DEF Z
    <2> QED
      BY <1>1, <1>2, <2>1, SeqGrows
  <1> HIDE DEF Z
  <1>5. /\ w \in Seq(Z) /\ Len(w) = Len(s) + Len(t)
        /\ \A i \in 1..(Len(s) + Len(t)) : w[i] = IF i <= Len(s) THEN s[i] ELSE t[i - Len(s)]
    BY <1>4, ConcatProperties
  <1> HIDE DEF w
  <1>6. Tall(w, m + n)
    BY <1>1, <1>2, <1>3, <1>5 DEF Tall
  <1>7. \A i \in 1..m : w[i] = s[i]
    BY <1>1, <1>2, <1>3, <1>5
  <1>8. ASSUME NEW i \in 1..n PROVE w[m + i] = t[i]
    <2>1. m + i \in 1..(m + n) /\ ~(m + i <= m) /\ (m + i) - m = i
      BY <1>3
    <2> QED
      BY <1>1, <1>2, <1>5, <2>1
  <1> QED
    BY <1>6, <1>7, <1>8 DEF w, Stack

LEMMA FewRows ==
    /\ \A a : Tall(<<a>>, 1) /\ <<a>>[1] = a
    /\ \A a, b : Tall(<<a, b>>, 2) /\ <<a, b>>[1] = a /\ <<a, b>>[2] = b
  <1>1. ASSUME NEW a PROVE Tall(<<a>>, 1) /\ <<a>>[1] = a
    <2>1. <<a>> \in Seq({a}) /\ Len(<<a>>) = 1
      OBVIOUS
    <2> QED
      BY <2>1 DEF Tall
  <1>2. ASSUME NEW a, NEW b PROVE Tall(<<a, b>>, 2) /\ <<a, b>>[1] = a /\ <<a, b>>[2] = b
    <2>1. <<a, b>> \in Seq({a, b}) /\ Len(<<a, b>>) = 2
      OBVIOUS
    <2> QED
      BY <2>1 DEF Tall
  <1> QED
    BY <1>1, <1>2

\* A function on 1..n.
LEMMA TableIsTall ==
    ASSUME NEW n \in Nat, NEW f, f = [i \in 1..n |-> f[i]]
    PROVE  Tall(f, n)
  <1> DEFINE X == {f[i] : i \in 1..n}
  <1>1. \A i \in 1..n : f[i] \in X
    OBVIOUS
  <1> HIDE DEF X
  <1>2. f \in Seq(X) /\ Len(f) = n
    BY <1>1
  <1> QED
    BY <1>2 DEF Tall

LEMMA BlockIsTall ==
    ASSUME NEW option, NEW rows \in Nat
    PROVE  Tall(Block(option, rows), rows)
  <1> DEFINE b == Block(option, rows)
             W == IF option = {} THEN <<>> ELSE Wrap(CHOOSE text \in option : TRUE, RowWidth, rows)
  <1>1. b = [i \in 1..rows |-> IF i <= Len(W) THEN OneRow(W[i]) ELSE Hidden]
    BY Zenon DEF Block
  <1> HIDE DEF b, W
  <1>2. b = [i \in 1..rows |-> b[i]]
    BY <1>1
  <1> QED
    BY <1>2, TableIsTall DEF b

FileRow(reading, slot) ==
    RowOrGap(UNION {IF slot <= Len(r.files) THEN {FileLine(r.files[slot], r.has_progress)} ELSE {} :
                        r \in reading})

MoreRow(reading) == RowOrGap(UNION {If(Len(r.files) > FileCap, "and more") : r \in reading})

TransferRows == FileCap + 5 + DegradedRows

LEMMA TransferIs ==
    ASSUME NEW reading
    PROVE  LET rows == TransferLines(reading)
           IN  /\ Tall(rows, TransferRows)
               /\ \A slot \in 1..FileCap : rows[1 + slot] = FileRow(reading, slot)
               /\ rows[FileCap + 2] = MoreRow(reading)
  <1> DEFINE head == <<OneRow(<<"headline">>)>>
             files == [slot \in 1..FileCap |-> FileRow(reading, slot)]
             more == <<MoreRow(reading)>>
             failed == <<RowOrGap(UNION {If(r.errored, "failed to upload") : r \in reading})>>
             full == <<RowOrGap(UNION {If(r.full, "out of space") : r \in reading})>>
             disk == <<RowOrGap(UNION {If(r.tier = "T4", "files on disk") : r \in reading})>>
             degraded == Block(UNION {r.degraded : r \in reading}, DegradedRows)
             rows == TransferLines(reading)
  <1>1. rows = head \o files \o more \o failed \o full \o disk \o degraded
    BY Zenon DEF TransferLines, FileRow, MoreRow
  <1>2. FileCap \in Nat /\ DegradedRows \in Nat
    BY RowsAssumption
  <1>3. /\ Tall(head, 1) /\ Tall(more, 1) /\ Tall(failed, 1) /\ Tall(full, 1) /\ Tall(disk, 1)
        /\ more[1] = MoreRow(reading)
    BY FewRows, Zenon
  <1>4. Tall(files, FileCap) /\ \A slot \in 1..FileCap : files[slot] = FileRow(reading, slot)
    <2>1. \A slot \in 1..FileCap : files[slot] = FileRow(reading, slot)
      OBVIOUS
    <2>2. files = [i \in 1..FileCap |-> files[i]]
      OBVIOUS
    <2> HIDE DEF files
    <2> QED
      BY <1>2, <2>1, <2>2, TableIsTall
  <1>5. Tall(degraded, DegradedRows)
    BY <1>2, BlockIsTall
  <1> HIDE DEF head, files, more, failed, full, disk, degraded, rows
  <1> DEFINE w1 == head \o files
             w2 == w1 \o more
             w3 == w2 \o failed
             w4 == w3 \o full
             w5 == w4 \o disk
  <1>6. rows = w5 \o degraded
    BY <1>1
  <1>7. /\ Tall(w1, 1 + FileCap)
        /\ \A i \in 1..FileCap : w1[1 + i] = FileRow(reading, i)
    <2>1. Stack(w1, head, 1, files, FileCap)
      BY <1>3, <1>4, Stacked
    <2> HIDE DEF w1
    <2> QED
      BY <1>4, <2>1 DEF Stack
  <1> HIDE DEF w1
  <1>8. /\ Tall(w2, 1 + FileCap + 1)
        /\ \A i \in 1..FileCap : w2[1 + i] = FileRow(reading, i)
        /\ w2[1 + FileCap + 1] = MoreRow(reading)
    <2>1. /\ Tall(w2, 1 + FileCap + 1)
          /\ \A i \in 1..(1 + FileCap) : w2[i] = w1[i]
          /\ \A i \in 1..1 : w2[1 + FileCap + i] = more[i]
      <3>1. Stack(w2, w1, 1 + FileCap, more, 1)
        BY <1>3, <1>7, Stacked
      <3> HIDE DEF w2
      <3> QED
        BY <3>1 DEF Stack
    <2> HIDE DEF w2
    <2>2. \A i \in 1..FileCap : w2[1 + i] = w1[1 + i]
      BY <1>2, <2>1
    <2>3. w2[1 + FileCap + 1] = more[1]
      BY <2>1
    <2> QED
      BY <1>3, <1>7, <2>1, <2>2, <2>3
  <1> DEFINE n == FileCap + 2
  <1>9. /\ Tall(w2, n) /\ n \in Nat
        /\ \A i \in 1..FileCap : w2[1 + i] = FileRow(reading, i) /\ 1 + i \in 1..n
        /\ w2[n] = MoreRow(reading) /\ n \in 1..n
    <2>1. 1 + FileCap + 1 = n /\ n \in Nat /\ n \in 1..n /\ \A i \in 1..FileCap : 1 + i \in 1..n
      BY <1>2
    <2> HIDE DEF n, w2
    <2> QED
      BY <1>8, <2>1
  <1> HIDE DEF w2, n
  <1>10. Tall(w3, n + 1) /\ \A i \in 1..n : w3[i] = w2[i]
    <2>1. Stack(w3, w2, n, failed, 1)
      BY <1>3, <1>9, Stacked
    <2> HIDE DEF w3
    <2> QED
      BY <2>1 DEF Stack
  <1> HIDE DEF w3
  <1>11. Tall(w4, n + 1 + 1) /\ \A i \in 1..(n + 1) : w4[i] = w3[i]
    <2>1. Stack(w4, w3, n + 1, full, 1)
      BY <1>3, <1>10, Stacked
    <2> HIDE DEF w4
    <2> QED
      BY <2>1 DEF Stack
  <1> HIDE DEF w4
  <1>12. Tall(w5, n + 1 + 1 + 1) /\ \A i \in 1..(n + 1 + 1) : w5[i] = w4[i]
    <2>1. Stack(w5, w4, n + 1 + 1, disk, 1)
      BY <1>3, <1>11, Stacked
    <2> HIDE DEF w5
    <2> QED
      BY <2>1 DEF Stack
  <1> HIDE DEF w5
  <1>13. Tall(rows, n + 1 + 1 + 1 + DegradedRows) /\ \A i \in 1..(n + 1 + 1 + 1) : rows[i] = w5[i]
    <2>1. Stack(w5 \o degraded, w5, n + 1 + 1 + 1, degraded, DegradedRows)
      BY <1>5, <1>12, Stacked
    <2>2. Stack(rows, w5, n + 1 + 1 + 1, degraded, DegradedRows)
      BY <1>6, <2>1
    <2> QED
      BY <2>2 DEF Stack
  <1>14. \A i \in 1..n : rows[i] = w2[i]
    BY <1>9, <1>10, <1>11, <1>12, <1>13
  <1>15. n + 1 + 1 + 1 + DegradedRows = TransferRows
    BY <1>2 DEF n, TransferRows
  <1>16. /\ Tall(rows, TransferRows)
         /\ \A slot \in 1..FileCap : rows[1 + slot] = FileRow(reading, slot)
         /\ rows[n] = MoreRow(reading)
    BY <1>9, <1>13, <1>14, <1>15
  <1> QED
    BY <1>16 DEF rows, n

Buttons(managed) ==
    IF managed THEN <<Button("Mount"), Button("Unmount")>> ELSE <<OneRow(<<"Not managed">>), Hidden>>

SubmenuRows == ReasonRows + 7 + TransferRows

LEMMA ButtonsAreTwo == \A managed : Tall(Buttons(managed), 2)
  <1> DEFINE a == Button("Mount")
             b == Button("Unmount")
             c == OneRow(<<"Not managed">>)
             d == Hidden
  <1>1. \A managed : Buttons(managed) = IF managed THEN <<a, b>> ELSE <<c, d>>
    BY Zenon DEF Buttons
  <1> HIDE DEF a, b, c, d
  <1>2. Tall(<<a, b>>, 2) /\ Tall(<<c, d>>, 2)
    BY FewRows, Zenon
  <1> QED
    BY <1>1, <1>2, Zenon

LEMMA SubmenuIs ==
    ASSUME NEW view, NEW reading
    PROVE  LET rows == MountItem(view, reading)
               fixed == ReasonRows + 3
           IN  /\ Tall(rows, SubmenuRows)
               /\ rows[fixed] = Separator /\ rows[fixed + 1] = Button("Open")
               /\ rows[fixed + 2] = Buttons(view.managed)[1] /\ rows[fixed + 3] = Buttons(view.managed)[2]
               /\ rows[fixed + 4] = Separator
               /\ \A i \in 1..TransferRows : rows[fixed + 4 + i] = TransferLines(reading)[i]
  <1> DEFINE place == OneRow(IF view.point = {} THEN <<"no mount point">> ELSE CHOOSE p \in view.point : TRUE)
             remote == RowOrGap(view.remote)
             top == <<place, remote>>
             why == Block({<<"Failed:", " ">> \o reason : reason \in view.reason}, ReasonRows)
             opener == Button("Open")
             open == <<Separator, opener>>
             acts == Buttons(view.managed)
             bar == <<Separator>>
             lines == TransferLines(reading)
             rows == MountItem(view, reading)
             r == ReasonRows
             n == TransferRows
  <1>1. rows = top \o why \o open \o acts \o bar \o lines
    BY Zenon DEF MountItem, Buttons
  <1>2. r \in Nat /\ n \in Nat
    BY RowsAssumption DEF TransferRows
  <1>3. /\ Tall(top, 2) /\ Tall(open, 2) /\ open[1] = Separator /\ open[2] = opener
        /\ Tall(acts, 2) /\ Tall(bar, 1) /\ bar[1] = Separator
    <2> HIDE DEF place, remote, opener, acts
    <2>1. Tall(acts, 2)
      BY ButtonsAreTwo DEF acts
    <2> QED
      BY <2>1, FewRows, Zenon
  <1>4. Tall(why, r)
    BY <1>2, BlockIsTall
  <1>5. Tall(lines, n)
    BY TransferIs
  <1> HIDE DEF top, why, open, acts, bar, lines, rows, opener, r, n
  <1> DEFINE w1 == top \o why
             w2 == w1 \o open
             w3 == w2 \o acts
             w4 == w3 \o bar
  <1>6. rows = w4 \o lines
    BY <1>1
  <1>7. Stack(w1, top, 2, why, r)
    BY <1>3, <1>4, Stacked
  <1>8. Tall(w1, 2 + r)
    BY <1>7 DEF Stack
  <1> HIDE DEF w1
  <1>9. Stack(w2, w1, 2 + r, open, 2)
    BY <1>3, <1>8, Stacked
  <1>10. Tall(w2, 2 + r + 2)
    BY <1>9 DEF Stack
  <1> HIDE DEF w2
  <1>11. Stack(w3, w2, 2 + r + 2, acts, 2)
    BY <1>3, <1>10, Stacked
  <1>12. Tall(w3, 2 + r + 2 + 2)
    BY <1>11 DEF Stack
  <1> HIDE DEF w3
  <1>13. Stack(w4, w3, 2 + r + 2 + 2, bar, 1)
    BY <1>3, <1>12, Stacked
  <1>14. Tall(w4, 2 + r + 2 + 2 + 1)
    BY <1>13 DEF Stack
  <1> HIDE DEF w4
  <1>15. Stack(rows, w4, 2 + r + 2 + 2 + 1, lines, n)
    BY <1>5, <1>6, <1>14, Stacked
  <1>16. Tall(rows, r + 7 + n)
    <2>1. Tall(rows, 2 + r + 2 + 2 + 1 + n)
      BY <1>15 DEF Stack
    <2>2. 2 + r + 2 + 2 + 1 + n = r + 7 + n
      BY <1>2
    <2> QED
      BY <2>1, <2>2
  <1>17. \A i \in 1..n : rows[r + 3 + 4 + i] = lines[i]
    <2> SUFFICES ASSUME NEW i \in 1..n PROVE rows[r + 3 + 4 + i] = lines[i]
      OBVIOUS
    <2>1. rows[2 + r + 2 + 2 + 1 + i] = lines[i]
      BY <1>15 DEF Stack
    <2>2. 2 + r + 2 + 2 + 1 + i = r + 3 + 4 + i
      BY <1>2
    <2> QED
      BY <2>1, <2>2
  <1>18. /\ w2[r + 3] = Separator /\ w2[r + 4] = opener
    <2>1. 1 \in 1..2 /\ 2 \in 1..2 /\ 2 + r + 1 = r + 3 /\ 2 + r + 2 = r + 4
      BY <1>2
    <2>2. w2[2 + r + 1] = open[1] /\ w2[2 + r + 2] = open[2]
      BY <1>9, <2>1 DEF Stack
    <2> QED
      BY <1>3, <2>1, <2>2
  <1>19. /\ w3[r + 3] = w2[r + 3] /\ w3[r + 4] = w2[r + 4] /\ w3[r + 5] = acts[1] /\ w3[r + 6] = acts[2]
    <2>1. /\ 1 \in 1..2 /\ 2 \in 1..2 /\ 2 + r + 2 + 1 = r + 5 /\ 2 + r + 2 + 2 = r + 6
          /\ r + 3 \in 1..(2 + r + 2) /\ r + 4 \in 1..(2 + r + 2)
      BY <1>2
    <2>2. w3[2 + r + 2 + 1] = acts[1] /\ w3[2 + r + 2 + 2] = acts[2]
      BY <1>11, <2>1 DEF Stack
    <2>3. w3[r + 3] = w2[r + 3] /\ w3[r + 4] = w2[r + 4]
      BY <1>11, <2>1 DEF Stack
    <2> QED
      BY <2>1, <2>2, <2>3
  <1>20. (\A i \in {r + 3, r + 4, r + 5, r + 6} : w4[i] = w3[i]) /\ w4[r + 7] = Separator
    <2>1. /\ 1 \in 1..1 /\ 2 + r + 2 + 2 + 1 = r + 7
          /\ \A i \in {r + 3, r + 4, r + 5, r + 6} : i \in 1..(2 + r + 2 + 2)
      BY <1>2
    <2>2. w4[2 + r + 2 + 2 + 1] = bar[1]
      BY <1>13, <2>1 DEF Stack
    <2>3. \A i \in {r + 3, r + 4, r + 5, r + 6} : w4[i] = w3[i]
      BY <1>13, <2>1 DEF Stack
    <2> QED
      BY <1>3, <2>1, <2>2, <2>3
  <1>21. \A i \in {r + 3, r + 4, r + 5, r + 6, r + 7} : rows[i] = w4[i]
    <2>1. \A i \in {r + 3, r + 4, r + 5, r + 6, r + 7} : i \in 1..(2 + r + 2 + 2 + 1)
      BY <1>2
    <2> QED
      BY <1>15, <2>1 DEF Stack
  <1>22. /\ rows[r + 3] = Separator /\ rows[r + 4] = opener
         /\ rows[r + 5] = acts[1] /\ rows[r + 6] = acts[2] /\ rows[r + 7] = Separator
    BY <1>18, <1>19, <1>20, <1>21
  <1>23. r + 3 + 1 = r + 4 /\ r + 3 + 2 = r + 5 /\ r + 3 + 3 = r + 6 /\ r + 3 + 4 = r + 7
    BY <1>2
  <1>24. /\ Tall(rows, r + 7 + n)
         /\ rows[r + 3] = Separator /\ rows[r + 3 + 1] = opener
         /\ rows[r + 3 + 2] = acts[1] /\ rows[r + 3 + 3] = acts[2] /\ rows[r + 3 + 4] = Separator
         /\ \A i \in 1..n : rows[r + 3 + 4 + i] = lines[i]
    BY <1>16, <1>17, <1>22, <1>23
  <1> QED
    BY <1>24, Zenon DEF rows, r, opener, acts, n, lines, SubmenuRows

LEMMA SameSlice ==
    ASSUME NEW s, NEW t, NEW k, Tall(s, k), Tall(t, k), NEW m \in Nat \ {0}, NEW n \in Nat, n <= k,
           \A i \in m..n : s[i] = t[i]
    PROVE  SubSeq(s, m, n) = SubSeq(t, m, n)
  <1>1. PICK X : s \in Seq(X) /\ Len(s) = k
    BY DEF Tall
  <1>2. PICK Y : t \in Seq(Y) /\ Len(t) = k
    BY DEF Tall
  <1> DEFINE Z == X \cup Y
             x == SubSeq(s, m, n)
             y == SubSeq(t, m, n)
             l == IF m <= n THEN n - m + 1 ELSE 0
  <1>3. k \in Nat /\ \A i \in m..n : i \in 1..k
    BY DEF Tall
  <1>4. \A i \in m..n : s[i] \in Z /\ t[i] \in Z
    <2>1. \A i \in 1..k : s[i] \in X /\ t[i] \in Y
      BY <1>1, <1>2, ElementOfSeq
    <2> QED
      BY <1>3, <2>1
  <1> HIDE DEF Z
  <1>5. x \in Seq(Z) /\ Len(x) = l /\ \A i \in 1..(n - m + 1) : x[i] = s[m + i - 1]
    BY <1>4, SubSeqProperties
  <1>6. y \in Seq(Z) /\ Len(y) = l /\ \A i \in 1..(n - m + 1) : y[i] = t[m + i - 1]
    BY <1>4, SubSeqProperties
  <1> HIDE DEF x, y
  <1>7. \A i \in 1..l : i \in 1..(n - m + 1) /\ m + i - 1 \in m..n
    OBVIOUS
  <1> HIDE DEF l
  <1>8. \A i \in 1..l : x[i] = y[i]
    BY <1>5, <1>6, <1>7
  <1> QED
    BY <1>5, <1>6, <1>8, SeqEqual DEF x, y

\* What is said of a file where there is room, and that there are more where there is none.
LEMMA FilesAreShown ==
    ASSUME NEW reading, NEW r \in reading, \A q \in reading : r = q, NEW file \in Nat, file <= Len(r.files)
    PROVE  /\ FileRow(reading, file) = OneRow(FileLine(r.files[file], r.has_progress))
           /\ file > FileCap /\ Len(r.files) \in Nat => MoreRow(reading) # Hidden
  <1>1. reading = {r}
    OBVIOUS
  <1> DEFINE line == FileLine(r.files[file], r.has_progress)
  <1>2. FileRow(reading, file) = RowOrGap({line})
    <2>1. FileRow({r}, file) = RowOrGap(IF file <= Len(r.files) THEN {line} ELSE {})
      <3>1. UNION {IF file <= Len(q.files) THEN {FileLine(q.files[file], q.has_progress)} ELSE {} : q \in {r}}
                = IF file <= Len(r.files) THEN {line} ELSE {}
        OBVIOUS
      <3> QED
        BY <3>1 DEF FileRow
    <2> QED
      BY <1>1, <2>1
  <1> HIDE DEF line
  <1>3. RowOrGap({line}) = OneRow(line)
    BY DEF RowOrGap
  <1>4. ASSUME file > FileCap, Len(r.files) \in Nat PROVE MoreRow(reading) # Hidden
    <2> DEFINE more == "and more"
    <2>1. MoreRow({r}) = RowOrGap(UNION {If(Len(q.files) > FileCap, more) : q \in {r}})
      BY Zenon DEF MoreRow
    <2> HIDE DEF more
    <2>2. UNION {If(Len(q.files) > FileCap, more) : q \in {r}} = {<<more>>}
      <3>1. If(Len(r.files) > FileCap, more) = {<<more>>}
        BY <1>4, RowsAssumption DEF If
      <3> QED
        BY <3>1
    <2>3. RowOrGap({<<more>>}) = OneRow(<<more>>)
      BY DEF RowOrGap
    <2>4. OneRow(<<more>>) # Hidden
      BY DEF OneRow, Hidden
    <2> QED
      BY <1>1, <2>1, <2>2, <2>3, <2>4
  <1> QED
    BY <1>2, <1>3, <1>4 DEF line

\* Of a mount, what it is.
Subjects ==
    [point : SUBSET Seq(STRING), remote : SUBSET Seq(STRING), managed : BOOLEAN, reason : SUBSET Seq(STRING)]

LEMMA ShapeIsKept ==
    ASSUME NEW view \in Subjects, NEW reading, \A r, q \in reading : r = q,
           \A r \in reading : Len(r.files) \in Nat
    PROVE  KeepsItsShape(view, reading)
  <1> DEFINE bare == [view EXCEPT !.reason = {}, !.remote = {}]
             other == [view EXCEPT !.managed = ~@]
             rows == MountItem(view, reading)
             blank == MountItem(bare, {})
             foreign == MountItem(other, {})
             fixed == ReasonRows + 3
             n == TransferRows
             f == FileCap
  <1>1. bare.managed = view.managed
    BY DEF Subjects
  <1> HIDE DEF bare, other
  <1>2. Tall(rows, SubmenuRows) /\ Tall(blank, SubmenuRows) /\ Tall(foreign, SubmenuRows)
    BY SubmenuIs
  <1>3. Len(rows) = Len(blank) /\ Len(rows) = Len(foreign)
    BY <1>2 DEF Tall
  <1>4. /\ fixed \in Nat \ {0} /\ fixed + 4 \in Nat /\ fixed + 4 <= SubmenuRows /\ n \in Nat /\ f \in Nat
        /\ f + 2 \in 1..n
    BY RowsAssumption DEF SubmenuRows, TransferRows
  <1>5. /\ rows[fixed] = blank[fixed] /\ rows[fixed + 1] = blank[fixed + 1]
        /\ rows[fixed + 2] = blank[fixed + 2] /\ rows[fixed + 3] = blank[fixed + 3]
        /\ rows[fixed + 4] = blank[fixed + 4]
    <2>1. LET it == MountItem(view, reading)
              at == ReasonRows + 3
          IN  /\ it[at] = Separator /\ it[at + 1] = Button("Open")
              /\ it[at + 2] = Buttons(view.managed)[1] /\ it[at + 3] = Buttons(view.managed)[2]
              /\ it[at + 4] = Separator
      BY SubmenuIs, Zenon
    <2>2. LET it == MountItem(bare, {})
              at == ReasonRows + 3
          IN  /\ it[at] = Separator /\ it[at + 1] = Button("Open")
              /\ it[at + 2] = Buttons(bare.managed)[1] /\ it[at + 3] = Buttons(bare.managed)[2]
              /\ it[at + 4] = Separator
      BY SubmenuIs, Zenon
    <2> QED
      BY <1>1, <2>1, <2>2, Zenon
  <1>6. \A i \in 1..n : rows[fixed + 4 + i] = TransferLines(reading)[i]
    BY SubmenuIs
  <1> HIDE DEF rows, blank, foreign, fixed, n, f
  <1>7. SubSeq(rows, fixed, fixed + 4) = SubSeq(blank, fixed, fixed + 4)
    <2>1. \A i \in fixed..(fixed + 4) : i \in {fixed, fixed + 1, fixed + 2, fixed + 3, fixed + 4}
      BY <1>4
    <2>2. \A i \in fixed..(fixed + 4) : rows[i] = blank[i]
      BY <1>5, <2>1
    <2> QED
      BY <1>2, <1>4, <2>2, SameSlice
  <1>8. ASSUME NEW r \in reading, NEW file \in 1..Len(r.files)
        PROVE  \/ file <= f /\ rows[fixed + 5 + file] = OneRow(FileLine(r.files[file], r.has_progress))
               \/ file > f /\ rows[fixed + 6 + f] # Hidden
    <2>1. file \in Nat /\ 1 <= file /\ file <= Len(r.files) /\ Len(r.files) \in Nat /\ \A q \in reading : r = q
      OBVIOUS
    <2>2. /\ FileRow(reading, file) = OneRow(FileLine(r.files[file], r.has_progress))
          /\ file > f => MoreRow(reading) # Hidden
      BY <2>1, FilesAreShown DEF f
    <2>3. /\ \A slot \in 1..f : TransferLines(reading)[1 + slot] = FileRow(reading, slot)
          /\ TransferLines(reading)[f + 2] = MoreRow(reading)
      BY TransferIs DEF f
    <2>4. CASE file <= f
      <3>1. file \in 1..f /\ 1 + file \in 1..n /\ fixed + 4 + (1 + file) = fixed + 5 + file
        BY <1>4, <2>1, <2>4
      <3>2. rows[fixed + 4 + (1 + file)] = TransferLines(reading)[1 + file]
        BY <1>6, <3>1
      <3>3. rows[fixed + 5 + file] = OneRow(FileLine(r.files[file], r.has_progress))
        BY <2>2, <2>3, <3>1, <3>2
      <3> QED
        BY <2>4, <3>3
    <2>5. CASE file > f
      <3>1. fixed + 4 + (f + 2) = fixed + 6 + f
        BY <1>4
      <3>2. rows[fixed + 4 + (f + 2)] = TransferLines(reading)[f + 2]
        BY <1>4, <1>6
      <3>3. rows[fixed + 6 + f] # Hidden
        BY <2>2, <2>3, <2>5, <3>1, <3>2
      <3> QED
        BY <2>5, <3>3
    <2> QED
      BY <1>4, <2>1, <2>4, <2>5
  <1> QED
    BY <1>3, <1>7, <1>8, Zenon DEF KeepsItsShape, rows, blank, foreign, bare, other, fixed, f

LEMMA NoticeIsTall ==
    ASSUME NEW option
    PROVE  Tall(NoticeLines(option), NoticeRows + 1)
  <1> DEFINE b == Block(option, NoticeRows)
             last == IF option = {} THEN Hidden ELSE Separator
  <1>1. NoticeLines(option) = Append(b, last) /\ Tall(b, NoticeRows)
    BY BlockIsTall, RowsAssumption DEF NoticeLines
  <1> HIDE DEF b, last
  <1>2. PICK X : b \in Seq(X) /\ Len(b) = NoticeRows
    BY <1>1 DEF Tall
  <1> DEFINE Y == X \cup {last}
  <1>3. b \in Seq(Y) /\ last \in Y
    <2>1. X \subseteq Y /\ last \in Y
      OBVIOUS
    <2> HIDE DEF Y
    <2> QED
      BY <1>2, <2>1, SeqGrows
  <1> HIDE DEF Y
  <1>4. Append(b, last) \in Seq(Y) /\ Len(Append(b, last)) = NoticeRows + 1
    BY <1>2, <1>3, AppendProperties
  <1>5. NoticeRows + 1 \in Nat
    BY RowsAssumption
  <1> QED
    BY <1>1, <1>4, <1>5 DEF Tall

\* That is so in every state, since it is so whatever is logged, read or refused.
LEMMA RowsAlwaysReadable == RowsAreReadable
  <1>1. ASSUME NEW journal \in Journals, NEW extra_args \in SUBSET ExtraArgs
        PROVE  ReadableReason(journal, extra_args)
    <2> DEFINE E == [systemd : BOOLEAN, message : SUBSET Seq(STRING)]
    <2>1. journal \in Seq(E) /\ extra_args \cap Wording = {}
      BY JournalsAssumption
    <2>2. E \subseteq Logged
      <3>1. STRING \subseteq Chars
        BY Zenon DEF Chars
      <3>2. Seq(STRING) \subseteq Seq(Chars)
        BY <3>1, SeqGrows
      <3> QED
        BY <3>2 DEF Logged
    <2> HIDE DEF E
    <2>3. journal \in Seq(Logged)
      BY <2>1, <2>2, SeqGrows
    <2> QED
      BY <2>1, <2>3, ReasonsAreReadable
  <1>2. ASSUME NEW submenu \in Submenus
        PROVE  /\ KeepsItsShape(submenu.view, submenu.reading)
               /\ Len(NoticeLines(submenu.view.reason)) = Len(NoticeLines({}))
    <2>1. submenu.view \in Subjects
      BY SubmenusAssumption DEF Subjects
    <2>2. \A r, q \in submenu.reading : r = q
      BY SubmenusAssumption
    <2>3. \A r \in submenu.reading : Len(r.files) \in Nat
      <3> DEFINE F == [name : Seq(STRING), size : STRING, in_flight : STRING, sent : STRING]
      <3>1. \A r \in submenu.reading : r.files \in Seq(F)
        BY SubmenusAssumption
      <3> HIDE DEF F
      <3> QED
        BY <3>1, LenProperties
    <2>4. KeepsItsShape(submenu.view, submenu.reading)
      BY <2>1, <2>2, <2>3, ShapeIsKept
    <2>5. /\ Tall(NoticeLines(submenu.view.reason), NoticeRows + 1)
          /\ Tall(NoticeLines({}), NoticeRows + 1)
      BY NoticeIsTall
    <2> QED
      BY <2>4, <2>5 DEF Tall
  <1> QED
    BY <1>1, <1>2 DEF RowsAreReadable

\* Whatever a unit wrote before it failed, the menu says why and nothing that is withheld,
\* on rows a panel draws whole or marked; and whatever is said of a mount, of its files or
\* of a refusal, what can be clicked is where it was (supervisor.rs:1292-1310,
\* systemd.rs:452-466, menu.rs:19-42, 180-184, 482-491, model.rs:693-697).
THEOREM RowsStayReadable == MenuSpec => []RowsAreReadable
  BY RowsAlwaysReadable, PTL
=============================================================================
