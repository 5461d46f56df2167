-------------------------------- MODULE Menu --------------------------------
(***************************************************************************)
(* The menu the panel draws, what a click on it asks for, and what is said *)
(* of how that went (crates/tray: menu.rs, sni.rs, model.rs and the action *)
(* half of watch.rs).                                                      *)
(*                                                                         *)
(* ksni, which is not part of the repository, builds the menu again after  *)
(* every edit of the model, under a lock of its own, and runs a click as   *)
(* the callback stored at the clicked place, while the panel draws what it *)
(* fetched last.  A menu of another shape has other ids, and a click with  *)
(* an old id does nothing (menu.rs:33-39, 288-296).                        *)
(*                                                                         *)
(* An Option is a set of at most one element.                              *)
(***************************************************************************)
EXTENDS Surfaces, Rows, Bags

CONSTANTS
    Names,      \* of mounts
    Order,      \* a sequence of them: the order of a BTreeMap
    Drawn,      \* the views a row may have
    Downs,      \* the errors a link may be down with
    MaxTasks,   \* how many actions may be under way
    MaxCount,   \* files a reading counts at most
    Journals,   \* of a unit that failed, to look at
    ExtraArgs,  \* quoted, of which a mount may have any
    Submenus    \* of mounts, with or without a reading, to look at

ASSUME MenuAssumption ==
    /\ Order \in Seq(Names) /\ Len(Order) = Cardinality(Names)
    /\ Names = {Order[i] : i \in 1..Len(Order)}
    /\ None \notin Names
    /\ Drawn \subseteq Views
    /\ Downs \subseteq LinkErrors
    /\ {MaxTasks, MaxCount} \subseteq Nat

\* What a unit logs is a text or none; an argument is in quotes, which no wording is.
ASSUME JournalsAssumption ==
    /\ Journals \subseteq Seq([systemd : BOOLEAN, message : SUBSET Seq(STRING)])
    /\ ExtraArgs \subseteq STRING
    /\ ExtraArgs \cap Wording = {}

\* Of a mount, what it is and what was last read of it, if anything was.
ASSUME SubmenusAssumption ==
    /\ Submenus \subseteq
          [view : [point : SUBSET Seq(STRING), remote : SUBSET Seq(STRING), managed : BOOLEAN,
                   reason : SUBSET Seq(STRING)],
           reading : SUBSET [files : Seq([name : Seq(STRING), size : STRING, in_flight : STRING, sent : STRING]),
                             errored : BOOLEAN, has_progress : BOOLEAN, full : BOOLEAN, tier : STRING,
                             degraded : SUBSET Seq(STRING)]]
    /\ \A submenu \in Submenus : \A r, q \in submenu.reading : r = q

VARIABLES
    link,     \* TrayModel::link: "connecting", "up", or what it is down with
    mounts,   \* TrayModel::mounts, on the names that are listed
    notice,   \* TrayModel::notice, at most one
    permit,   \* the permit of `refresh`
    tasks,    \* a bag: the targets of the actions being carried out
    stored,   \* the menu built last, whose callbacks run
    panel,    \* the menu the panel fetched last, unless its ids are void
    resynced, \* the table was replaced since what it fetched was built
    ended     \* run has returned

menuVars == <<link, mounts, notice, permit, tasks, stored, panel, resynced, ended>>

Tables == UNION {[listed -> Drawn] : listed \in SUBSET Names}
NoTable == [n \in {} |-> Novel]

(***************************************************************************)
(* The menu                                                                *)
(***************************************************************************)
\* Items there is one of, by what the link is.
FixedItems(l, managed) ==
    CASE l = "connecting" -> {"Quit"}
      [] l \in LinkErrors ->
            {"Refresh", "Quit"} \cup (IF OfferStart(l) THEN {"StartService"} ELSE {})
      [] l = "up" ->
            {"Refresh", "StopService", "Quit"}
                \cup (IF managed # {} THEN {"Mount all", "Unmount all"} ELSE {})

\* build: managed mounts and what was started outside are two groups of rows; `open` are
\* the rows whose Open does something.  Blocks of text keep their size, so nothing else
\* makes a shape.
Build(l, ms) ==
    LET managed == {n \in DOMAIN ms : ms[n].managed}
    IN  [fixed |-> FixedItems(l, managed), managed |-> managed,
         foreign |-> DOMAIN ms \ managed, open |-> Live(ms)]

\* What ksni compares to tell whether ids can be kept.
Shape(menu) == <<menu.fixed, Cardinality(menu.managed), Cardinality(menu.foreign)>>

Verbs == {"Mount", "Unmount"}

\* Where something can be clicked.
Places(menu) ==
    [group : {"fixed"}, at : {0}, says : menu.fixed]
        \cup [group : {"managed"}, at : 1..Cardinality(menu.managed), says : Verbs \cup {"Open"}]
        \cup [group : {"foreign"}, at : 1..Cardinality(menu.foreign), says : {"Open"}]

InOrder(names) == SelectSeq(Order, LAMBDA n : n \in names)

\* The mount the row at a place is of.
Row(menu, place) ==
    IF place.group = "fixed" THEN None ELSE InOrder(menu[place.group])[place.at]

(***************************************************************************)
(* Actions                                                                 *)
(***************************************************************************)
Action(does, about) == [does |-> does, about |-> about]

\* Action::target: the mount it is about, and the `live` that would answer it.  Without
\* the one there is not the other.
Target(action) ==
    IF action.does \in Verbs
    THEN [about |-> action.about, wants |-> action.does = "Mount"]
    ELSE [about |-> None, wants |-> FALSE]

Targets == [about : Names, wants : BOOLEAN] \cup {Target(Action("Open", None))}

ReportsBack(action) == action.does \notin {"Refresh", "Quit"}

\* Mutant: anything asked of any mount clears what is shown.
SupersedesAny(action, showing) == ReportsBack(action)

Supersedes(action, showing) ==
    IF showing.about = None THEN ReportsBack(action)
    ELSE Target(action).about = showing.about

Settled(view) == view.state \notin {"mounting", "unmounting"}

\* Whether asking is still to some purpose.
CanGo(n, up) == n \in DOMAIN mounts /\ Settled(mounts[n]) /\ mounts[n].live # up

CanGoInBulk(up) == {n \in DOMAIN mounts : mounts[n].managed /\ CanGo(n, up)}

\* Mutant: one item, whose verb follows the mount.
VerbToggled(says, n) == {Action(verb, n) : verb \in {v \in Verbs : CanGo(n, v = "Mount")}}

\* Two items, either of which only ever asks for one thing.
VerbAsked(says, n) == IF CanGo(n, says = "Mount") THEN {Action(says, n)} ELSE {}

\* What the callback of an item asks for, by what the item says and the row it was built
\* for: decided as it is clicked, not as it was drawn.
Asked(says, n) ==
    CASE says \in Verbs -> VerbAsked(says, n)
      [] says = "Mount all" -> {Action("Mount", m) : m \in CanGoInBulk(TRUE)}
      [] says = "Unmount all" -> {Action("Unmount", m) : m \in CanGoInBulk(FALSE)}
      [] says = "Open" -> {Action("Open", m) : m \in {n} \cap stored.open}
      [] OTHER -> {Action(says, None)}

\* act, then run: what is asked is taken off the channel at once, and whatever is neither
\* Refresh nor Quit is carried out by a task of its own.
Act(asked) ==
    LET sent == SetToBag({Target(a) : a \in {a \in asked : ReportsBack(a)}})
    IN  /\ BagCardinality(tasks) + BagCardinality(sent) <= MaxTasks
        /\ tasks' = tasks (+) sent
        /\ notice' = {shown \in notice : \A a \in asked : ~Supersedes(a, shown)}
        /\ permit' = (permit \/ Action("Refresh", None) \in asked)
        /\ ended' = (Action("Quit", None) \in asked)
        /\ UNCHANGED <<link, mounts, stored, panel, resynced>>

(***************************************************************************)
(* The panel, and ksni                                                     *)
(***************************************************************************)
\* A click reaches the callback at its place in the menu built last.
Click(place) ==
    /\ ~ended
    /\ \E drawn \in panel : place \in Places(drawn)
    /\ Act(Asked(place.says, Row(stored, place)))

\* A click on the icon.
Activate ==
    /\ ~ended
    /\ ~permit
    /\ Act({Action("Refresh", None)})

\* Every edit is followed by a build, which keeps the ids of a menu of the same shape.
Redraw ==
    LET built == Build(link, mounts)
        kept == Shape(built) = Shape(stored)
    IN  /\ ~ended
        /\ stored # built
        /\ stored' = built
        /\ panel' = IF kept THEN panel ELSE {}
        /\ resynced' = (kept /\ resynced)
        /\ UNCHANGED <<link, mounts, notice, permit, tasks, ended>>

\* The panel opens the menu, or has applied the changes it was told of.
Fetch ==
    /\ ~ended
    /\ panel' = {stored}
    /\ resynced' = (resynced /\ stored # Build(link, mounts))
    /\ UNCHANGED <<link, mounts, notice, permit, tasks, stored, ended>>

(***************************************************************************)
(* Edits by the linker, which awaits each of them with its redraw          *)
(***************************************************************************)
Drawable == ~ended /\ stored = Build(link, mounts)

\* A refusal that can still be answered.
Pending(target, table) ==
    target.about \in DOMAIN table /\ table[target.about].live # target.wants

Answered(target, table) == target.about # None /\ ~Pending(target, table)

\* What is shown, and whether the table had answered it before it was.
Notice(target, late) == [about |-> target.about, wants |-> target.wants, late |-> late]

\* go_down and go_connecting.
Forget(l) ==
    /\ link' = l
    /\ mounts' = NoTable
    /\ notice' = {}
    /\ UNCHANGED <<permit, tasks, stored, panel, resynced, ended>>

GoDown ==
    /\ Drawable
    /\ \E error \in Downs : Forget(error)

GoConnecting ==
    /\ Drawable
    /\ link = "up"
    /\ Forget("connecting")

\* While there is no session, a wait is cut short by the permit.
RetryNow ==
    /\ ~ended
    /\ link # "up"
    /\ permit
    /\ permit' = FALSE
    /\ UNCHANGED <<link, mounts, notice, tasks, stored, panel, resynced, ended>>

GoUp ==
    /\ Drawable
    /\ link # "up"
    /\ link' = "up"
    /\ mounts' \in Tables
    /\ notice' = {}
    /\ UNCHANGED <<permit, tasks, stored, panel, resynced, ended>>

\* What is shown stays, whatever the new table says of the mount it is about.
Resync ==
    /\ Drawable
    /\ link = "up"
    /\ permit
    /\ permit' = FALSE
    /\ mounts' \in Tables
    /\ notice' = {Notice(shown, shown.late \/ Answered(shown, mounts')) : shown \in notice}
    /\ resynced' = TRUE
    /\ UNCHANGED <<link, tasks, stored, panel, ended>>

\* Mutant: a refusal outlives the state it was waiting for.
UpsertQuietly(n, view) ==
    /\ Drawable
    /\ link = "up"
    /\ mounts' = [m \in DOMAIN mounts \cup {n} |-> IF m = n THEN view ELSE mounts[m]]
    /\ UNCHANGED <<link, notice, permit, tasks, stored, panel, resynced, ended>>

UpsertMount(n, view) ==
    /\ Drawable
    /\ link = "up"
    /\ mounts' = [m \in DOMAIN mounts \cup {n} |-> IF m = n THEN view ELSE mounts[m]]
    /\ notice' = {shown \in notice : ~(shown.about = n /\ shown.wants = view.live)}
    /\ UNCHANGED <<link, permit, tasks, stored, panel, resynced, ended>>

RemoveMount(n) ==
    /\ Drawable
    /\ link = "up"
    /\ mounts' = [m \in DOMAIN mounts \ {n} |-> mounts[m]]
    /\ notice' = {shown \in notice : shown.about # n}
    /\ UNCHANGED <<link, permit, tasks, stored, panel, resynced, ended>>

(***************************************************************************)
(* Actions being carried out                                               *)
(***************************************************************************)
\* Success has nothing to say, and clears nothing.
Succeeds(target) ==
    /\ ~ended
    /\ BagIn(target, tasks)
    /\ tasks' = tasks (-) SetToBag({target})
    /\ UNCHANGED <<link, mounts, notice, permit, stored, panel, resynced, ended>>

\* No link, a refusal, silence, or a program that failed; at whatever time, and whatever
\* has become of the mount.
Fails(target) ==
    /\ ~ended
    /\ BagIn(target, tasks)
    /\ tasks' = tasks (-) SetToBag({target})
    /\ notice' = {Notice(target, Answered(target, mounts))}
    /\ UNCHANGED <<link, mounts, permit, stored, panel, resynced, ended>>

MenuInit ==
    /\ link = "connecting"
    /\ mounts = NoTable
    /\ notice = {}
    /\ permit = FALSE
    /\ tasks = EmptyBag
    /\ stored = Build(link, mounts)
    /\ panel = {}
    /\ resynced = FALSE
    /\ ended = FALSE

MenuNext ==
    \/ \E drawn \in panel : \E place \in Places(drawn) : Click(place)
    \/ Activate \/ Redraw \/ Fetch
    \/ GoDown \/ GoConnecting \/ RetryNow \/ GoUp \/ Resync
    \/ \E n \in Names : RemoveMount(n)
    \/ \E n \in Names, view \in Drawn : UpsertMount(n, view)
    \/ \E target \in BagToSet(tasks) : Succeeds(target) \/ Fails(target)

MenuSpec == MenuInit /\ [][MenuNext]_menuVars

(***************************************************************************)
(* What is promised                                                        *)
(***************************************************************************)
\* What is said depends on the tables alone: each is gone through once.
TableAlone ==
    /\ panel = {} /\ notice = {} /\ tasks = EmptyBag /\ ~permit
    /\ stored = Build(link, mounts)

\* "Up to date" and "All synced" are said only where every mount of ours that serves has
\* a reading that says so, an estimate only where every reading can be added up, and the
\* icon, the menu and the command line say it of the same mounts, whichever readings have
\* come: a figure that cannot be vouched for is not presented as progress, nor silence as
\* "nothing to send" (model.rs:170-190, 388-486; menu.rs:230-245; client.rs:279-295).
SurfacesAreHonest ==
    TableAlone =>
        /\ link # "up" => HonestLink
        /\ \A read \in SUBSET Ours(mounts) : \A views \in [read -> Readings(MaxCount)] :
              HonestTable(mounts, views)

\* Whatever a unit wrote before it failed, the menu says why, and whatever the menu says of
\* a mount, a click lands on what was drawn (supervisor.rs:1292-1310, systemd.rs:452-466,
\* menu.rs:19-42, 180-184, 482-491, model.rs:693-697).
RowsAreReadable ==
    TableAlone /\ link = "connecting" /\ ~ended =>
        /\ \A journal \in Journals, extra_args \in SUBSET ExtraArgs :
              ReadableReason(journal, extra_args)
        /\ \A submenu \in Submenus : KeepsItsShape(submenu.view, submenu.reading)
        /\ \A submenu \in Submenus :
              Len(NoticeLines(submenu.view.reason)) = Len(NoticeLines({}))

\* A refusal that was recorded in time is on screen only while its mount is listed and
\* is not where it was being sent: "the outcome of an action, kept until it stops being
\* true" (model.rs:97-110, 327-345).
NoticesAreOpen ==
    link = "up" =>
        \A shown \in notice : shown.about # None /\ ~shown.late => Pending(shown, mounts)

\* The requests a step adds.
UnderWay(t) == IF BagIn(t, tasks) THEN tasks[t] ELSE 0
Requested == {t \in Targets : UnderWay(t)' > UnderWay(t)}

\* However the mounts have moved between the drawing and the click, a click asks nothing
\* but what was read off the item: that verb, of that mount.  Rows that a refresh has
\* exchanged since are set apart (menu.rs:286-296, 305-334).
ClicksAskWhatWasDrawn ==
    [][\A drawn \in panel : \A place \in Places(drawn) :
          ~resynced /\ Click(place) =>
              \A t \in Requested :
                  CASE place.says \in Verbs -> t = Target(Action(place.says, Row(drawn, place)))
                    [] place.says = "Mount all" -> t.about # None /\ t.wants
                    [] place.says = "Unmount all" -> t.about # None /\ ~t.wants
                    [] OTHER -> t.about = None]_menuVars

\* While the link is up, what went wrong stays on screen until its mount gets there or is
\* gone, that mount is asked something again, or another outcome takes its place; what is
\* about no mount, until anything is asked (model.rs:132-155).
RefusalsStay ==
    [][\A shown \in notice :
          notice' = {} /\ link = "up" /\ link' = "up" =>
              IF shown.about = None THEN Requested # {}
              ELSE \/ \E t \in Requested : t.about = shown.about
                   \/ ~Pending(shown, mounts')]_menuVars
=============================================================================
