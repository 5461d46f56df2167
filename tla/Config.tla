------------------------------- MODULE Config -------------------------------
(***************************************************************************)
(* A configuration (crates/core/src/config.rs): what validate asks of it,  *)
(* the rclone command line and the unit made of a mount, and the name of   *)
(* its rc socket (crates/core/src/rc.rs).  A name is a sequence of         *)
(* characters, where only their kinds matter; a mask, a size and an age    *)
(* are what their spellings are made of.  A mask of no digits, None, is no *)
(* mask.                                                                   *)
(***************************************************************************)
EXTENDS Naturals, Sequences, SequencesExt

(***************************************************************************)
(* Masks                                                                   *)
(***************************************************************************)
\* [+|0o]digits
Umask(sign, digits) == [sign |-> sign, digits |-> digits]

None == Umask("", <<>>)

IsOctal(umask) ==
    /\ umask.digits # <<>>
    /\ \A d \in ToSet(umask.digits) : d < 8
    /\ umask.sign \in {"", "+", "0o"}

Trimmed(sequence, leading) ==
    LET first == SelectInSeq(sequence, LAMBDA c : c # leading)
    IN  IF first = 0 THEN <<>> ELSE SubSeq(sequence, first, Len(sequence))

Significant(digits) == Trimmed(digits, 0)

\* No more than i32::MAX, which is 017777777777.
UmaskFits(umask) ==
    LET digits == Significant(umask.digits)
    IN  Len(digits) < 11 \/ (Len(digits) = 11 /\ digits[1] = 1)

UmaskOk(umask) == umask = None \/ (IsOctal(umask) /\ UmaskFits(umask))

\* The low nine bits, of digits in that base.
Low(digits, base) == FoldLeft(LAMBDA bits, d : (bits * base + d) % 512, 0, digits)

\* canonical_umask: octal behind a zero; what validate refuses stays as it is.
CanonicalUmask(umask) ==
    IF IsOctal(umask) /\ UmaskFits(umask)
    THEN LET digits == Significant(umask.digits)
         IN  Umask("", <<0>> \o (IF digits = <<>> THEN <<0>> ELSE digits))
    ELSE umask

\* umask_readings: before rclone 1.68.0 what starts with a zero is octal and the rest is
\* decimal.
ReadBefore(umask) ==
    IF umask.sign = "0o" \/ Head(umask.digits) = 0 THEN Low(umask.digits, 8)
    ELSE Low(umask.digits, 10)

ReadNow(umask) == Low(umask.digits, 8)

UmaskIsAmbiguous(umask) == IsOctal(umask) /\ ReadBefore(umask) # ReadNow(umask)

(***************************************************************************)
(* Sizes and ages                                                          *)
(***************************************************************************)
\* Spelled out: what leads it, a number, if it is one, and the letters after it.
Quantity(sign, isNumber, unit) == [sign |-> sign, isNumber |-> isNumber, unit |-> unit]

Empty == Quantity("", FALSE, <<>>)

Unset == Quantity("unset", FALSE, <<>>)

Scales == {"k", "K", "G"}

Without(letters, unit) ==
    IF unit # <<>> /\ Last(unit) \in letters THEN Front(unit) ELSE unit

\* size_suffix_ok; only the unit behind a number is judged.
SizeOk(size) ==
    LET unit == size.unit
        unscaled == Without({"b", "B"}, unit)
        scaled == IF unscaled # <<>> /\ Last(unscaled) = "i" THEN unscaled ELSE unit
    IN  /\ size # Empty /\ size.sign \notin {"-", " "}
        /\ \/ unit = <<>> \/ ~size.isNumber
           \/ unit \in {<<"b">>, <<"B">>}
           \/ Without({"i", "I"}, scaled) \in {<<scale>> : scale \in Scales}

DURATION_UNITS ==
    {<<"n", "s">>, <<"u", "s">>, <<"m", "s">>} \cup {<<u>> : u \in {"s", "m", "h", "d", "w", "M", "y"}}

\* duration_ok.
AgeOk(age) ==
    /\ age # Empty
    /\ age.unit = <<>> \/ ~age.isNumber \/ age.unit \in DURATION_UNITS

(***************************************************************************)
(* Names                                                                   *)
(***************************************************************************)
Alphanumeric == {"a", "2", "F"}

NameOk(name) ==
    /\ name \notin {<<>>, <<".">>, <<".", ".">>}
    /\ ToSet(name) \subseteq Alphanumeric \cup {"-", "_", "."}

RemoteOk(remote) ==
    /\ remote # <<>>
    /\ ToSet(remote) \subseteq Alphanumeric \cup {"_", ".", "+", "@", "-", " "}
    /\ Head(remote) \notin {"-", " "}
    /\ Last(remote) # " "

UNIT_PREFIX == "rvt-mount-"

\* A unit's name is its prefix, what is made of the mount's, and its type.
UnitName(name) ==
    <<UNIT_PREFIX>>
    \o [i \in DOMAIN name |-> IF name[i] \in Alphanumeric \cup {"_", "."} THEN name[i] ELSE "-"]
    \o <<".service">>

\* Mutant: a slash becomes a character that a name may have.
SocketNameFolded(name) == [i \in DOMAIN name |-> IF name[i] = "/" THEN "_" ELSE name[i]]

\* RcClient::socket_file_name.
SocketName(name) ==
    LET Escaped(c) == CASE c = "/" -> <<"%", "2", "F">>
                        [] c = "%" -> <<"%", "2", "5">>
                        [] OTHER -> <<c>>
    IN  FlattenSeq([i \in DOMAIN name |-> Escaped(name[i])])

\* A mount of which no more is said than has to be.
Mount(name, remote, mount_point) ==
    [name |-> name, remote |-> remote, path |-> <<>>, mount_point |-> mount_point,
     cache_mode |-> "writes", cache_max_size |-> Unset, cache_max_age |-> Unset,
     read_only |-> FALSE, allow_other |-> FALSE, uid |-> <<>>, gid |-> <<>>, umask |-> None,
     extra_args |-> <<>>]

(***************************************************************************)
(* The command line                                                        *)
(***************************************************************************)
\* A word of it: a flag, or what is given to one, or both joined by "=".
Word(flag, given) == [flag |-> flag, given |-> given]

Flag(flag) == Word(flag, <<>>)

IsUmask(word) == word.flag \in {"--umask", "--umask="}

\* What extra_args may not hold: "--rc" alone, before "-" or before "=".
RcFlags == {"--rc", "--rc-addr", "--rc="}

If(condition, words) == IF condition THEN words ELSE <<>>

\* A path is below the remote's root, with or without a slash.
FsSpec(mount) == mount.remote \o <<":">> \o Trimmed(mount.path, "/")

Option(flag, given) == If(given # <<>>, <<Flag(flag), Word("", given)>>)

Limit(flag, quantity) == If(quantity # Unset, <<Flag(flag), Word("", quantity.unit)>>)

MountArgs(mount, socket) ==
    <<Flag("mount"), Word("", FsSpec(mount)), Word("", mount.mount_point)>>
    \o Option("--vfs-cache-mode", <<mount.cache_mode>>)
    \o Limit("--vfs-cache-max-size", mount.cache_max_size)
    \o Limit("--vfs-cache-max-age", mount.cache_max_age)
    \o If(mount.read_only, <<Flag("--read-only")>>)
    \o If(mount.allow_other, <<Flag("--allow-other")>>)
    \o Option("--uid", mount.uid)
    \o Option("--gid", mount.gid)
    \o Option("--umask", CanonicalUmask(mount.umask).digits)
    \o <<Flag("--rc")>> \o Option("--rc-addr", socket) \o <<Flag("--rc-no-auth")>>
    \o mount.extra_args

\* What the last --umask of extra_args is given, which is whatever follows it, or else
\* the field.
EffectiveUmask(mount) ==
    LET extra == mount.extra_args
        Text(word) == IF word.flag = "" THEN word.given ELSE <<word.flag>>
        given == {i \in DOMAIN extra :
                     IsUmask(extra[i]) /\ (extra[i].flag = "--umask" => i < Len(extra))}
        last == CHOOSE i \in given : \A j \in given : j <= i
    IN  IF given = {} THEN mount.umask.digits
        ELSE IF extra[last].flag = "--umask" THEN Text(extra[last + 1])
        ELSE extra[last].given

(***************************************************************************)
(* validate                                                                *)
(***************************************************************************)
MAX_POLL_SECS == 86400

MountOk(mount) ==
    /\ NameOk(mount.name)
    /\ \A word \in ToSet(mount.extra_args) : word.flag \notin RcFlags
    /\ RemoteOk(mount.remote)
    /\ mount.mount_point # <<>> /\ Head(mount.mount_point) = "/"
    /\ UmaskOk(mount.umask)
    /\ SizeOk(mount.cache_max_size)
    /\ AgeOk(mount.cache_max_age)

Apart(mounts) ==
    \A i, j \in DOMAIN mounts :
        i # j => /\ mounts[i].name # mounts[j].name
                 /\ mounts[i].mount_point # mounts[j].mount_point

\* "." stands for every relative path.
Validate(config) ==
    /\ config.rclone_path # "."
    /\ {config.active_secs, config.idle_secs} \subseteq 1..MAX_POLL_SECS
    /\ \A i \in DOMAIN config.mounts : MountOk(config.mounts[i])
    /\ Apart(config.mounts)
=============================================================================
