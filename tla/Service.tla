------------------------------- MODULE Service -------------------------------
(***************************************************************************)
(* The service from its start to its end (crates/service/src/main.rs),     *)
(* over the configuration file it reads once and may write, with the       *)
(* rclone it finds.  A start that is refused is tried again.  What is      *)
(* installed does not change while it is looked at.                        *)
(***************************************************************************)
EXTENDS ConfigFile, Units

CONSTANTS Configs,        \* what may be saved or written by hand, valid or not
          Installations,  \* what is at each path where an rclone may be
          PATHs,          \* the directories of PATH, by the file in them; "." is a relative one
          FALLBACK_PATHS,
          Spellings       \* names, texts, masks, sizes and extra arguments to look at

VARIABLES at,     \* how far main() is, or that it ended
          seen,   \* what it read
          rclone  \* the rclone it found

serviceVars == <<fileVars, at, seen, rclone>>

CURRENT_VERSION == 1

\* A file: whether it is TOML, its version, whether this build knows all its fields, and
\* what they say.
WrittenAs(config) ==
    [toml |-> TRUE, version |-> CURRENT_VERSION, known |-> TRUE, config |-> config]

Default == [rclone_path |-> "none", active_secs |-> 1, idle_secs |-> 15, mounts |-> <<>>]

\* A file that is not there is a configuration.  Its version is asked first.
Load(body) ==
    IF body = Nothing THEN "ok"
    ELSE IF body = Torn \/ ~body.toml THEN "Parse"
    ELSE IF body.version > CURRENT_VERSION THEN "FromTheFuture"
    ELSE IF ~body.known THEN "Parse"
    ELSE IF Validate(body.config) THEN "ok" ELSE "Invalid"

ConfigErrors == {"Parse", "FromTheFuture", "Invalid"}

ASSUME ServiceAssumption ==
    /\ Accepted = {WrittenAs(config) : config \in {c \in Configs : Validate(c)}}
    /\ \A body \in Contents : Load(body) = "ok" => body.config \in Configs
    /\ PATHs \subseteq Seq(STRING)
    /\ FALLBACK_PATHS \in Seq(STRING)

\* Wherever an rclone may be looked for there is a binary, or no file.
ASSUME InstallationsAssumption ==
    \A installed \in Installations :
        \A path \in ToSet(FALLBACK_PATHS) \cup UNION {ToSet(PATH) : PATH \in PATHs} :
            installed[path] \in Binaries

\* What may be spelled: a word of extra_args is complete in itself, takes the next one, is
\* about the mask or the socket, or is no flag.
ASSUME SpellingsAssumption ==
    /\ Spellings.names \subseteq Seq(STRING)
    /\ Spellings.texts \subseteq Seq(STRING)
    /\ Spellings.umasks \subseteq [sign : STRING, digits : Seq(Nat)]
    /\ Spellings.sizes \subseteq [sign : STRING, isNumber : BOOLEAN, unit : Seq(STRING)]
    /\ Spellings.extras \subseteq
          Seq([flag : {"", "--option", "--umask", "--umask="} \cup Switches \cup RcFlags,
               given : Seq(Nat)])
    /\ Spellings.mount \in
          [name : Seq(STRING), remote : Seq(STRING), path : Seq(STRING), mount_point : Seq(STRING),
           cache_mode : STRING,
           cache_max_size : [sign : STRING, isNumber : BOOLEAN, unit : Seq(STRING)],
           cache_max_age : [sign : STRING, isNumber : BOOLEAN, unit : Seq(STRING)],
           read_only : BOOLEAN, allow_other : BOOLEAN, uid : Seq(Nat), gid : Seq(Nat),
           umask : [sign : STRING, digits : Seq(Nat)],
           extra_args : Seq([flag : STRING, given : Seq(Nat)])]

Config == IF seen = Nothing THEN Default ELSE seen.config

ServiceInit ==
    /\ FileInit
    /\ at = "down"
    /\ seen = Nothing
    /\ rclone = "none"

Reaches(step) == at' = step /\ UNCHANGED fileVars

\* A word of the command line or the environment: what it is once trimmed, and whether it
\* was padded.  To EnvFilter any other word is a target, and a target that is "unmatched" is
\* none of the process's.
LogWords ==
    [is : {"a level", "off", "directives", "unmatched", "nothing", "not set"}, padded : BOOLEAN]

Trim(word) == [word EXCEPT !.padded = FALSE]

\* resolve_log_filter takes a flag that is a bare level, and whatever else RUST_LOG is that
\* is not blank.
FlagOk(flag) == flag.is \in {"not set", "a level", "off"}

LogFilter(flag, RUST_LOG) ==
    IF flag.is # "not set" THEN Trim(flag)
    ELSE IF RUST_LOG.is \notin {"nothing", "not set"} THEN Trim(RUST_LOG)
    ELSE [is |-> "a level", padded |-> FALSE]

\* Where the session says that things are kept.
Sessions ==
    [flag : LogWords, RUST_LOG : LogWords,
     XDG_CONFIG_HOME : {"set", "empty"}, HOME : {"set", "empty"},
     XDG_RUNTIME_DIR : {"set", "empty"}]

default_path(session) ==
    CASE session.XDG_CONFIG_HOME = "set" -> "XDG_CONFIG_HOME"
      [] session.XDG_CONFIG_HOME = "empty" /\ session.HOME = "set" -> "HOME"
      [] OTHER -> "NoConfigDir"

\* How far a session lets main get: not to the file, no further than that, or on.
Reach ==
    {IF ~FlagOk(session.flag) \/ default_path(session) = "NoConfigDir" THEN "nowhere"
     ELSE IF session.XDG_RUNTIME_DIR = "empty" THEN "the file" ELSE "on" : session \in Sessions}

Forgets == at' = "down" /\ seen' = Nothing /\ rclone' = "none"

\* main returns an error; it is started again.
Refuses == Forgets /\ UNCHANGED fileVars

\* It is stopped or killed.
Ends == at # "down" /\ Forgets /\ ProcessDies

LosesPower == Forgets /\ PowerFails

\* The file is read once, if it can be.
Loads ==
    /\ at = "down"
    /\ \/ Refuses
       \/ \E reach \in Reach \ {"nowhere"} :
             /\ seen' = file.holds
             /\ \/ Load(seen') \in ConfigErrors /\ Reaches("misconfigured")
                \/ Load(seen') = "ok" /\ reach = "on" /\ Reaches("discover")
             /\ UNCHANGED rclone

\* What may come of it, by what the configuration says.
Findings ==
    [override \in {c.rclone_path : c \in {Default} \cup Configs} |->
        {Discover(override, PATH, FALLBACK_PATHS, installed) :
            PATH \in PATHs, installed \in Installations}]

Discovers ==
    /\ at = "discover"
    /\ \E found \in Findings[Config.rclone_path] :
          IF found.ok THEN rclone' = found.path /\ Reaches("connect") /\ UNCHANGED seen
          ELSE Refuses

\* The user's systemd, the first sweep, and the bus name, which another service may have.
Connects ==
    /\ at = "connect"
    /\ \/ Reaches("serving") /\ UNCHANGED <<seen, rclone>>
       \/ Refuses

Saves ==
    /\ at = "serving"
    /\ \E s \in Savers : SaveStep(s)
    /\ UNCHANGED <<at, seen, rclone>>

UserEdits == Edits /\ UNCHANGED <<at, seen, rclone>>

ServiceNext == Loads \/ Discovers \/ Connects \/ Saves \/ Ends \/ LosesPower \/ UserEdits

ServiceSpec == ServiceInit /\ [][ServiceNext]_serviceVars
(***************************************************************************)
(* What is promised                                                        *)
(***************************************************************************)
\* A start is refused over the file only for something a user wrote there by hand: what
\* this program saved, whole or cut off, never keeps the next start from its mounts
\* (config.rs:524-525).  One that goes on has the rclone it was told to use, or one on an
\* absolute path (rclone.rs:126, 168-171).
StartsAreAccountable ==
    /\ at = "misconfigured" => seen \in Contents \ Accepted
    /\ rclone # "none" =>
          /\ Validate(Config)
          /\ IF Config.rclone_path = "none" THEN rclone # "." ELSE rclone = Config.rclone_path

\* Nothing has happened yet: TLC need look at the following in few states only.
Fresh == at = "down" /\ file = NoFile /\ kept = {NoFile} /\ \A n \in Names : temps[n] = NoFile

\* Mounts with each of the names, and with each of the texts in both paths and behind the
\* rest of the command line.
Mentioned ==
    {Mount(name, <<"a">>, <<"/", "a">>) : name \in Spellings.names}
        \cup {[Mount(<<"a">>, <<"a">>, <<"/">> \o text) EXCEPT
                  !.path = text, !.extra_args = <<Flag("--read-only"), Text(<<"/", "a">>)>>] :
                 text \in Spellings.texts}

\* A unit under the prefix that no service of ours started.
ByHand(unit) == [unit EXCEPT !.name = <<UNIT_PREFIX, ".", ".service">>,
                             !.ExecStart.argv = <<Text(<<"rclone">>), Flag("serve")>>]

KnownToSystemd(mount) ==
    \A own \in Binary :
        LET unit == StartTransient(
                        UnitSpec(mount, <<"rclone">>, <<"socket">>, own, <<"/", "config">>))
            serving == [fs_spec |-> FsSpec(mount), mount_point |-> mount.mount_point]
            told == UNION {PrepareMount(hook.argv) : hook \in unit.ExecStartPre}
        IN  /\ ListUnits({unit, ByHand(unit)}) =
                  {[name |-> unit.name, serving |-> {serving}],
                   [name |-> ByHand(unit).name, serving |-> {}]}
            /\ OrphanName(unit.name) = {mount.name} /\ OrphanName(ByHand(unit).name) = {}
            /\ own = "in place" /\ ~LooksLikeAFlag(mount.name) =>
                  told = {[config |-> <<"/", "config">>, name |-> mount.name]}

\* Between two mounts of something else, the second behind a line that makes no sense.
KnownToTheKernel(mount) ==
    \A fstype \in {<<"fuse.rclone">>, <<"fuse">>}, further \in 0..1 :
        LET own == MountEntry(mount.mount_point, FsSpec(mount), fstype)
            home == MountEntry(<<"/home">>, mount.mount_point, <<"fuse">>)
            read == Parse(KernelLine(home, further) \o <<"\n">> \o KernelLine(own, 1 - further)
                          \o <<"\n", "junk", " ", "-", "\n">> \o KernelLine(home, 0) \o <<"\n">>)
        IN  /\ read = <<home, own, home>>
            /\ RcloneAt(read, mount.mount_point) /\ ~RcloneAt(read, <<"/home">>)

\* A usable rclone is found if there is one where it may be looked for, an unusable one in
\* front of it hides nothing, and none is put in place of an explicit choice
\* (rclone.rs:123-150).
DiscoveryIsHonest ==
    \A override \in {"none"} \cup ToSet(FALLBACK_PATHS), PATH \in PATHs, installed \in Installations :
        LET found == Discover(override, PATH, FALLBACK_PATHS, installed)
            places == IF override # "none" THEN {override}
                      ELSE Absolute(ToSet(PATH \o FALLBACK_PATHS))
        IN  /\ found.ok <=> \E place \in places : Probe(place, installed).ok
            /\ found.ok => found.path \in places /\ Probe(found.path, installed).ok
            /\ ~found.ok /\ found.error = "NotFound" =>
                  \A place \in places : ~IsFile(place, installed)

\* Two names never meet, as units if validate takes both, as sockets whatever they are.
NamesStayApart ==
    \A a, b \in Spellings.names :
        a # b => /\ SocketName(a) # SocketName(b)
                 /\ NameOk(a) /\ NameOk(b) => UnitName(a) # UnitName(b)

\* What EffectiveUmask finds may be another option's, to which it is a value.
MaskIsAValue(extra_args) ==
    \E i \in 2..Len(extra_args) :
        extra_args[i - 1].flag = "--option" /\ IsUmask(extra_args[i])

\* Every rclone reads the mask of a mount that validate takes as EffectiveUmask does, unless
\* it is a value, and as every other rclone if it is the field's; it listens nowhere but on
\* the socket.
CommandLineIsUnderstood ==
    \A umask \in Spellings.umasks, extra_args \in Spellings.extras :
        LET mount == [Spellings.mount EXCEPT !.umask = umask, !.extra_args = extra_args]
            words == MountArgs(mount, <<"socket">>)
            given == ReadUmask(SubSeq(words, 4, Len(words)))
            own == CanonicalUmask(umask)
        IN  MountOk(mount) =>
                /\ given.ok /\ given.awaits = "" /\ ~MaskIsAValue(extra_args) =>
                      Low(given.umask, 8) = Low(EffectiveUmask(mount), 8)
                /\ umask # None => ReadBefore(own) = ReadNow(umask) /\ ~UmaskIsAmbiguous(own)
                /\ Cardinality({i \in DOMAIN words : words[i].flag = "--rc-addr"}) = 1

\* The filters that lose what the service has to say: to EnvFilter a padded word is a target
\* of that name, and a blank is its own default.
Loses(filter) == filter.padded \/ filter.is \in {"off", "unmatched", "nothing"}

\* Nothing is lost by a blank or padding, from either door, or by a flag that is misspelled:
\* only by off, or, without a flag, by a RUST_LOG that names none of the process's targets
\* (lib.rs:32-44).
LossIsAskedFor ==
    \A flag, RUST_LOG \in LogWords :
        FlagOk(flag) /\ Loses(LogFilter(flag, RUST_LOG)) =>
            IF flag.is = "not set" THEN RUST_LOG.is \in {"off", "unmatched"} ELSE flag.is = "off"

\* What the service starts it knows again: every unit of a mount that validate takes, among
\* whatever else is loaded under the prefix, by its name and its command line, and every
\* mount in the table, whatever its path contains and beside whatever line.  The hook is
\* told the mount's own configuration and name, unless the name looks like a flag.
\* (supervisor.rs:234-267, 311-330, 1399-1409; systemd.rs:63-71; mountinfo.rs:46-51, 104-109)
OwnMountsAreRecognised ==
    Fresh => \A mount \in {m \in Mentioned : MountOk(m)} : KnownToSystemd(mount) /\ KnownToTheKernel(mount)

\* What is accepted works: names stay apart, what comes of a mount means to rclone what it
\* says, a size is refused exactly if rclone would refuse it, and a usable rclone is used
\* (rc.rs:195-203, config.rs:258-261, 317-318, 368-373, rclone.rs:137-141).
WhatIsAcceptedWorks ==
    Fresh => /\ NamesStayApart
             /\ LossIsAskedFor
             /\ CommandLineIsUnderstood
             /\ \A size \in Spellings.sizes : size.isNumber => (SizeOk(size) <=> TakesSize(size))
             /\ DiscoveryIsHonest
=============================================================================
