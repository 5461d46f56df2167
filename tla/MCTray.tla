------------------------------- MODULE MCTray -------------------------------
(* A configured mount, somebody else's, and one figure; two signals may     *)
(* wait when a tick starts, and one name event once the service has stopped.*)
EXTENDS Tray
CONSTANTS home, guest, busy
MCConfigured == {home}
MCOrphans == {}
MCStrangers == {guest}
MCDowns == {"unmounted"}
MCFigures == {busy}
=============================================================================
