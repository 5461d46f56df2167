------------------------------ MODULE Surfaces ------------------------------
(***************************************************************************)
(* What the icon, the menu and the command line say of the rows and the    *)
(* readings a client holds (crates/tray: model.rs, menu.rs, sni.rs,        *)
(* client.rs).  A table is a function on the names that are listed, as the *)
(* model's maps are.  A sentence is what it claims; totals are of files,   *)
(* and of bytes only whether there is one to time by.                      *)
(***************************************************************************)
EXTENDS Link, FiniteSets, FiniteSetsExt

TrayStates ==
    {"connecting", "disconnected", "attention", "degraded", "syncing", "offline", "idle"}

(***************************************************************************)
(* TrayModel::summary                                                      *)
(***************************************************************************)
Live(mounts) == {n \in DOMAIN mounts : mounts[n].live}
Unmanaged(mounts) == {n \in Live(mounts) : ~mounts[n].managed}
Ours(mounts) == Live(mounts) \ Unmanaged(mounts)

\* Estimating asks for a total that every mount with something pending vouches for.
HasByteTotal(reading) == reading.tier \notin {"T3", None}
Vouched(reading) == HasByteTotal(reading) /\ reading.known /\ reading.unsized = 0

Aggregate(mounts, readings, unread) ==
    LET read == Ours(mounts) \cap DOMAIN readings
        blind == {n \in read : readings[n].reason \/ ~readings[n].known}
        unobservable == Cardinality(unread) + Cardinality(blind)
        Any(holds(_)) == \E n \in read : holds(readings[n])
        Count(of(_)) == MapThenSumSet(LAMBDA n : of(readings[n]), read)
    IN  [total |-> Cardinality(DOMAIN mounts),
         live |-> Cardinality(Live(mounts)),
         failed |-> Cardinality({n \in DOMAIN mounts : mounts[n].state = "failed"}),
         unmanaged |-> Cardinality(Unmanaged(mounts)),
         unobservable |-> unobservable,
         files |-> Count(LAMBDA r : r.count),
         unsized |-> Count(LAMBDA r : r.unsized),
         errored |-> Any(LAMBDA r : r.health = "errored"),
         full |-> Any(LAMBDA r : r.health = "full"),
         rate |-> IF Any(LAMBDA r : r.rate = "some") THEN "some"
                  ELSE IF Any(LAMBDA r : r.rate = "zero") THEN "zero" ELSE None,
         estimable |-> /\ unobservable = 0
                       /\ \A n \in read : readings[n].count > 0 => Vouched(readings[n]),
         diskOnly |-> Any(LAMBDA r : r.tier = "T4")]

\* Mutant: a mount without a reading is passed over.
SummaryOfTheRead(mounts, readings) == Aggregate(mounts, readings, {})

\* A mount of ours that serves and has told nothing counts as one that cannot be read.
Summary(mounts, readings) ==
    Aggregate(mounts, readings, Ours(mounts) \ DOMAIN readings)

(***************************************************************************)
(* The icon and its tooltip                                                *)
(***************************************************************************)
\* TrayModel::state, ordered by how loudly.
State(link, s) ==
    CASE link # "up" -> IF link = "connecting" THEN "connecting" ELSE "disconnected"
      [] link = "up" /\ (s.failed > 0 \/ s.errored \/ s.full) -> "attention"
      [] OTHER -> IF s.unobservable > 0 THEN "degraded"
                  ELSE IF s.files > 0 THEN "syncing"
                  ELSE IF s.live = s.unmanaged THEN "offline" ELSE "idle"

NeedsAttention(state) == state = "attention"

\* headline: the label of the state, or one that names what it leaves out.
Headline(state, s) ==
    IF s.unmanaged = 0 THEN state
    ELSE CASE state = "idle" -> "managed_idle"
           [] state = "offline" -> "no_managed"
           [] OTHER -> state

MountedLine(s) ==
    IF s.total = 0 THEN "no_mounts_configured"
    ELSE IF s.unmanaged > 0 THEN "of_which_not_managed" ELSE "counts"

PendingLine(s) ==
    CASE s.live = s.unmanaged -> None
      [] s.live # s.unmanaged /\ s.files = 0 ->
            IF s.unobservable > 0 THEN "unknown" ELSE "all_synced"
      [] OTHER -> IF s.unobservable > 0 THEN "at_least" ELSE "pending"

RateLine(s) ==
    IF s.rate # "some" THEN None
    ELSE IF s.estimable /\ s.files > 0 THEN "with_time_left" ELSE "speed"

\* tool_tip, and the four rows the menu begins with.
Described(link, s) ==
    IF link # "up" THEN <<>> ELSE <<MountedLine(s), PendingLine(s), RateLine(s)>>

(***************************************************************************)
(* One mount: a line of its submenu, and one of `status`                   *)
(***************************************************************************)
PendingHeadline(n, readings) ==
    IF n \notin DOMAIN readings THEN "no_information"
    ELSE LET r == readings[n]
         IN  IF r.count = 0 THEN (IF r.known THEN "all_synced" ELSE "unknown")
             ELSE IF r.known THEN "pending" ELSE "at_least"

\* The subcommands print the wire's own reading.
PendingSummary(n, views) ==
    IF n \notin DOMAIN views THEN None
    ELSE IF ~views[n].known THEN "unknown"
    ELSE IF views[n].count = 0 THEN "up_to_date" ELSE "pending"

Commands == {"list", "status", "status --json", "mount", "unmount"}

\* execute and main: what a subcommand leaves behind, `error` being the first thing that
\* went wrong.  Without an answer there is no table, not even an empty one; `printed` is
\* at most one.
Execute(command, error, mounts) ==
    LET told == error = None
        document == command = "status --json"
    IN  [code |-> IF told THEN 0 ELSE ExitCode(error),
         printed |-> IF told /\ command \notin {"mount", "unmount"} THEN {DOMAIN mounts} ELSE {},
         reason |-> IF document /\ ~told THEN DisconnectedReason(error) ELSE None,
         complains |-> ~told /\ ~document]

(***************************************************************************)
(* What is promised                                                        *)
(***************************************************************************)
\* Nothing is outstanding at this mount, and that was observed: is_idle of a reading
\* that is no fallback.
Clear(n, views) == n \in DOMAIN views /\ views[n].known /\ views[n].count = 0

HonestTable(mounts, views) ==
    LET readings == [n \in DOMAIN views |-> Unflatten(views[n])]
        s == Summary(mounts, readings)
        state == State("up", s)
        told == Described("up", s)
        pending == told[2]
    IN  /\ state = "idle" \/ pending = "all_synced" =>
              /\ Ours(mounts) # {}
              /\ \A n \in Ours(mounts) : Clear(n, views) /\ ~views[n].reason
        /\ pending = "all_synced" => state \in {"idle", "attention"}
        /\ \A n \in DOMAIN views :
              /\ Clear(n, views) <=> PendingHeadline(n, readings) = "all_synced"
              /\ Clear(n, views) <=> PendingSummary(n, views) = "up_to_date"
        /\ told[3] = "with_time_left" =>
              \A n \in Ours(mounts) :
                  /\ n \in DOMAIN views /\ views[n].known /\ ~views[n].reason
                  /\ views[n].count > 0 => views[n].unsized = 0 /\ views[n].tier \in {"T2", "T4"}
        /\ (\E n \in DOMAIN mounts : mounts[n].state = "failed") => NeedsAttention(state)
        /\ state = "offline" => Ours(mounts) = {}
        /\ Unmanaged(mounts) # {} => Headline(state, s) \notin {"idle", "offline"}
        /\ state = "syncing" => pending = "pending"

\* A link that is down says nothing of any mount, and says so once; only a refusal has
\* the code that speaks of a mount, and only an absent service is offered to be started.
HonestLink ==
    /\ \A error \in LinkErrors, command \in Commands :
          LET left == Execute(command, error, <<>>)
          IN  /\ left.printed = {}
              /\ left.code # 0
              /\ left.code = 1 <=> error = "Refused"
              /\ left.complains <=> left.reason = None
    /\ \A name \in ErrorNames : OfferStart(FromZbus(name)) <=> name \in NoOwner
    /\ \A refusal \in Refusals : ExitCode(FromIpc(refusal)) = 1
=============================================================================
