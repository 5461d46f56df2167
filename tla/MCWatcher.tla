----------------------------- MODULE MCWatcher -----------------------------
(* A mount of each kind, two ways of being down and two figures.            *)
EXTENDS Watcher
CONSTANTS home, leftover, guest, busy, idle
MCConfigured == {home}
MCOrphans == {leftover}
MCStrangers == {guest}
MCDowns == {"unmounted", "failed"}
MCFigures == {busy, idle}
=============================================================================
