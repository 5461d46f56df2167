-------------------------------- MODULE Link --------------------------------
(***************************************************************************)
(* Telling apart the ways the service cannot be reached, shared by the     *)
(* tray and the one-shot subcommands (crates/tray/src/link.rs).  Sentences *)
(* are left out: an error is its kind.                                     *)
(***************************************************************************)
EXTENDS Ipc

LinkErrors ==
    {"NoSessionBus", "NotRunning", "Incompatible", "TooOld", "Refused", "Silent", "Transport"}

\* Names a bus daemon or a peer answers with; any other name, or none, is a transport
\* failure.
NoOwner == {"ServiceUnknown", "NameHasNoOwner"}
NotOurs == {"UnknownInterface", "UnknownObject", "UnknownMethod", "UnknownProperty"}
ErrorNames == NoOwner \cup NotOurs \cup {"NoReply", "AnythingElse"}

FromZbus(name) ==
    IF name \in NoOwner THEN "NotRunning"
    ELSE IF name \in NotOurs THEN "Incompatible"
    ELSE IF name = "NoReply" THEN "Silent" ELSE "Transport"

FromIpc(error) == IF error \in Refusals THEN "Refused" ELSE FromZbus(error)

MIN_INTERFACE == 1

\* build: what the handshake makes of the version it is answered with.
Handshake(version) == IF version < MIN_INTERFACE THEN "TooOld" ELSE None

\* What reaching for an owner that was there a moment ago can fail with: an error name,
\* patience running out, or a version that will not do.
AttachErrors ==
    {FromZbus(name) : name \in ErrorNames} \cup {"Silent"}
        \cup ({Handshake(version) : version \in 0..INTERFACE_VERSION} \ {None})

\* The one kind that says anything about a mount has a code of its own.
ExitCode(error) ==
    CASE error = "Refused" -> 1
      [] error = "NotRunning" -> 3
      [] error \in {"Incompatible", "TooOld"} -> 4
      [] error \in {"NoSessionBus", "Transport", "Silent"} -> 5

\* Down::from_error: starting the unit is offered where that is what is missing.
OfferStart(error) == error = "NotRunning"

\* disconnected_json: what `status --json` says in place of the mounts.
DisconnectedReason(error) ==
    CASE error = "NotRunning" -> "service not running"
      [] error = "NoSessionBus" -> "no session bus"
      [] error = "Incompatible" -> "interface incompatible"
      [] error = "TooOld" -> "service too old"
      [] error = "Silent" -> "service did not answer"
      [] error \in {"Transport", "Refused"} -> "service unreachable"

\* give_up: whether the connections to the bus are to be rebuilt first.
Broken(error) == error \in {"Transport", "NoSessionBus"}
=============================================================================
