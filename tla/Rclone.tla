------------------------------- MODULE Rclone -------------------------------
(***************************************************************************)
(* Finding an rclone to run (crates/core/src/rclone.rs), and what rclone   *)
(* makes of the command line it is given, as far as config.rs counts on    *)
(* it.  A binary is what asking it for its version shows.                  *)
(***************************************************************************)
EXTENDS Config

\* "1.60" stands for all below MINIMUM_VERSION, 1.61.
MINIMUM_VERSION == 61

Binaries ==
    [kind : {"no file", "NotExecutable", "CommandFailed", "UnparsableVersion"}]
        \cup [kind : {"runs"}, minor : {MINIMUM_VERSION - 1, MINIMUM_VERSION, 75}]

Found(path) == [ok |-> TRUE, path |-> path]

Failed(error) == [ok |-> FALSE, error |-> error]

\* A file that is not there cannot be run.
Probe(path, installed) ==
    CASE installed[path].kind = "runs" ->
            IF installed[path].minor < MINIMUM_VERSION THEN Failed("TooOld") ELSE Found(path)
      [] installed[path].kind = "no file" -> Failed("NotExecutable")
      [] OTHER -> Failed(installed[path].kind)

IsFile(path, installed) == installed[path].kind # "no file"

\* Relative directories are passed over.
Absolute(paths) == {p \in paths : p # "."}

\* Where the hits are, each once: those of PATH come first, then the usual places.
Candidates(all, installed) ==
    {i \in DOMAIN all : /\ all[i] \in Absolute(ToSet(all))
                        /\ IsFile(all[i], installed)
                        /\ \A j \in 1..(i - 1) : all[j] # all[i]}

FirstOf(places) == CHOOSE i \in places : \A j \in places : i <= j

\* An explicit choice is not substituted; otherwise the first that can be used, or else
\* what is wrong with the first there is.
Discover(override, PATH, fallback, installed) ==
    LET all == PATH \o fallback
        candidates == Candidates(all, installed)
        usable == {i \in candidates : Probe(all[i], installed).ok}
    IN  IF override # "none" THEN Probe(override, installed)
        ELSE IF candidates = {} THEN Failed("NotFound")
        ELSE Probe(all[FirstOf(IF usable = {} THEN candidates ELSE usable)], installed)

(***************************************************************************)
(* rclone's own reading of its arguments                                   *)
(***************************************************************************)
\* Complete in themselves, the last an option with its value joined to it.
Switches == {"--read-only", "--allow-other", "--rc", "--rc-no-auth", "--option="}

\* A flag that is no switch takes the next word, whatever that is; a word that is nothing's
\* is refused.  The last of a flag counts.
ReadUmask(words) ==
    FoldLeft(LAMBDA reading, word :
                 IF reading.awaits = "--umask"
                 THEN [awaits |-> "", umask |-> word.given, ok |-> reading.ok /\ word.flag = ""]
                 ELSE IF reading.awaits # "" THEN [reading EXCEPT !.awaits = ""]
                 ELSE CASE word.flag = "--umask=" -> [reading EXCEPT !.umask = word.given]
                        [] word.flag = "" -> [reading EXCEPT !.ok = FALSE]
                        [] word.flag \in Switches -> reading
                        [] OTHER -> [reading EXCEPT !.awaits = word.flag],
             [awaits |-> "", ok |-> TRUE, umask |-> <<>>], words)

TakesSize(size) ==
    /\ size.sign \notin {"-", " "}
    /\ \/ size.unit \in {<<>>, <<"b">>, <<"B">>}
       \/ \E scale \in Scales :
             size.unit \in {<<scale>>, <<scale, "i">>, <<scale, "I">>,
                            <<scale, "i", "b">>, <<scale, "i", "B">>}
=============================================================================
