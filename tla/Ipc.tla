--------------------------------- MODULE Ipc ---------------------------------
(***************************************************************************)
(* What crosses the session bus (crates/core/src/ipc.rs): rows, readings   *)
(* and refusals, as a client may receive them from a service that is newer *)
(* than it is.                                                             *)
(*                                                                         *)
(* A row is its state with the two flags that travel beside it; a file     *)
(* list is its length.  A word this build does not know is Novel.          *)
(***************************************************************************)
EXTENDS Naturals

Novel == "novel"
None == "none"

MountStates ==
    {"unmounted", "mounting", "mounted", "unmounting", "failed", "foreign", "orphaned"}

IsLive(state) == state \in {"mounted", "foreign", "orphaned"}
IsManaged(state) == state # "foreign"

\* MountView::from: the flags are taken from the state as the row is built.
View(state) == [state |-> state, live |-> IsLive(state), managed |-> IsManaged(state)]

\* A state of a newer service comes with flags that still mean what they say.
NovelViews == [state : {Novel}, live : BOOLEAN, managed : BOOLEAN]

Views == {View(state) : state \in MountStates} \cup NovelViews

Tiers == {"T1", "T2", "T3", "T4"}

\* tier_from_name, through fidelity: what cannot be named is no tier at all.
TierFromName(name) == IF name \in Tiers THEN name ELSE None

\* TransferView, which is what a poll found, flattened: `count` files of which `unsized`
\* have no size, `reason` given or not, `health` what vfs/stats said of the cache.
TransferView(tier, known, reason, count, unsized, health, rate) ==
    [tier |-> tier, known |-> known, reason |-> reason, count |-> count,
     unsized |-> unsized, health |-> health, rate |-> rate]

Healths == {"unasked", "well", "errored", "full"}
Rates == {None, "zero", "some"}

\* TransferState::from, in the client.
Unflatten(view) == [view EXCEPT !.tier = TierFromName(@)]

\* What a poll of at most MaxCount files can publish, by the source that answered:
\* the queue alone, the queue with vfs/stats beside it, vfs/stats alone, a walk of the
\* cache, nothing; and the same from a service whose tiers have other names.
Unmonitored == TransferView(None, FALSE, TRUE, 0, 0, "unasked", None)

QueueReadings(MaxCount) ==
    {TransferView("T2", known, ~known, count, unsized, health, rate) :
        known \in BOOLEAN, count \in 0..MaxCount, unsized \in 0..MaxCount,
        health \in Healths, rate \in Rates}

StatsReadings(MaxCount) ==
    {TransferView("T3", known, ~known, count, count, health, None) :
        known \in BOOLEAN, count \in 0..MaxCount, health \in Healths \ {"unasked"}}

ScanReadings(MaxCount) ==
    {TransferView("T4", known, TRUE, count, unsized, "unasked", None) :
        known \in BOOLEAN, count \in 0..MaxCount, unsized \in 0..MaxCount}

Readings(MaxCount) ==
    LET found == {r \in QueueReadings(MaxCount) \cup StatsReadings(MaxCount)
                            \cup ScanReadings(MaxCount) :
                     /\ r.unsized <= r.count
                     /\ r.rate # None => r.count > 0
                     /\ r.tier = "T2" /\ r.known => r.health # "unasked"}
    IN  found \cup {Unmonitored} \cup {[r EXCEPT !.tier = Novel] : r \in found}

\* IpcError, but for ZBus: the service answering, and saying no.  Nothing raises the
\* one about pending uploads.
Refusals ==
    {"UnknownMount", "BadMountPoint", "RcloneFailed", "Busy", "Supervision", "NotManaged"}

INTERFACE_VERSION == 1
=============================================================================
