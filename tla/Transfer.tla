------------------------------- MODULE Transfer -------------------------------
(***************************************************************************)
(* What is outstanding for one mount and how much of that can be trusted   *)
(* (crates/core/src/transfer.rs): one constructor per source, and what may *)
(* be concluded from what they build.                                      *)
(*                                                                         *)
(* A file is its name.  Sizes, attempts, errors and the texts that explain *)
(* a reading are left out; a rate is none, zero or some.                   *)
(***************************************************************************)
EXTENDS Naturals, FiniteSets

CONSTANT Files

Tiers == {"T2", "T3", "T4"}

Unasked == "none"

Rates == {"none", "zero", "some"}

\* TransferState.  `tier` is its fidelity, `known` its outstanding_known.
Readings ==
    [tier : Tiers \cup {Unasked}, known : BOOLEAN, count : Nat, files : SUBSET Files,
     progress : BOOLEAN, rate : Rates]

EmptyReading(tier) ==
    [tier |-> tier, known |-> TRUE, count |-> 0, files |-> {}, progress |-> FALSE,
     rate |-> "none"]

\* vfs/queue, which lists what is closed and not uploaded.
FromQueue(items) ==
    [EmptyReading("T2") EXCEPT !.count = Cardinality(items), !.files = items]

\* vfs/stats alone: counts and no files.
FromStats(count) == [EmptyReading("T3") EXCEPT !.count = count]

\* The cache on disk: a walk that was cut short or could not read an entry has not
\* established that nothing else waits.
FromScan(dirty, complete) ==
    [EmptyReading("T4") EXCEPT
        !.known = complete, !.count = Cardinality(dirty), !.files = dirty]

Unmonitored == [EmptyReading(Unasked) EXCEPT !.known = FALSE]

PartiallyObserved(reading) == [reading EXCEPT !.known = FALSE]

WithProgress(reading, own) ==
    IF reading.tier = "T2" THEN [reading EXCEPT !.progress = own \cap reading.files # {}] ELSE reading

WithRate(reading, rate) == [reading EXCEPT !.rate = rate]

\* is_idle, and safe_to_unmount with it.
SafeToUnmount(reading) == reading.known /\ reading.count = 0

HasByteTotal(reading) == reading.tier \in {"T2", "T4"}
=============================================================================
