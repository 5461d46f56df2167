-------------------------------- MODULE Units --------------------------------
(***************************************************************************)
(* The unit made of a mount, and what is read back of it: from systemd     *)
(* (crates/service/src/systemd.rs, supervisor.rs), which keeps a command   *)
(* line as it was given, and from the mount table.                         *)
(***************************************************************************)
EXTENDS Rclone, Mountinfo

Text(given) == Word("", given)

Argument(flag, given) == <<Flag(flag), Text(given)>>

(***************************************************************************)
(* Starting it                                                             *)
(***************************************************************************)
\* The service's own binary: where it was, replaced since, or not to be found.
Binary == {"in place", "replaced", "unknown"}

\* --config belongs to the program and goes before the subcommand.  An Option.
PreStartHook(own, config_path, name) ==
    IF own # "in place" THEN {}
    ELSE {Argument("--config", config_path) \o <<Flag("prepare-mount")>> \o Argument("--name", name)}

UnitSpec(mount, executable, socket, own, config_path) ==
    [name |-> UnitName(mount.name),
     executable |-> executable,
     args |-> MountArgs(mount, socket),
     pre_start |-> PreStartHook(own, config_path, mount.name)]

\* What systemd is told: the binary leads its own argv; a hook that fails is ignored.
StartTransient(spec) ==
    [name |-> spec.name,
     ExecStart |-> [argv |-> <<Text(spec.executable)>> \o spec.args, ignore_errors |-> FALSE],
     ExecStartPre |-> {[argv |-> <<Text(<<"own binary">>)>> \o args, ignore_errors |-> TRUE] :
                          args \in spec.pre_start}]

(***************************************************************************)
(* Reading it back                                                         *)
(***************************************************************************)
\* The two words behind "mount".  An Option.
Serving(argv) ==
    IF Len(argv) < 4 \/ argv[2] # Flag("mount") THEN {}
    ELSE {[fs_spec |-> argv[3].given, mount_point |-> argv[4].given]}

\* Of what has the prefix, only a service is asked for its command line.
ListUnits(loaded) ==
    {[name |-> unit.name,
      serving |-> IF Last(unit.name) = ".service" THEN Serving(unit.ExecStart.argv) ELSE {}] :
        unit \in {u \in loaded : Head(u.name) = UNIT_PREFIX}}

\* The mount a unit was started for.  An Option.
OrphanName(unit) ==
    LET name == SubSeq(unit, 2, Len(unit) - 1)
    IN  IF /\ Len(unit) > 1 /\ Head(unit) = UNIT_PREFIX /\ Last(unit) = ".service"
           /\ name \notin {<<>>, <<".">>, <<".", ".">>}
        THEN {name} ELSE {}

(***************************************************************************)
(* What the parser of the program's arguments, which is not part of the    *)
(* repository, makes of the hook's: a value may not look like a flag.      *)
(***************************************************************************)
LooksLikeAFlag(text) == Len(text) > 1 /\ Head(text) = "-"

PrepareMount(argv) ==
    IF /\ Len(argv) = 6
       /\ <<argv[2], argv[4], argv[5]>> = <<Flag("--config"), Flag("prepare-mount"), Flag("--name")>>
       /\ ~LooksLikeAFlag(argv[3].given) /\ ~LooksLikeAFlag(argv[6].given)
    THEN {[config |-> argv[3].given, name |-> argv[6].given]} ELSE {}
=============================================================================
