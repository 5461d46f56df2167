------------------------------- MODULE Reasons -------------------------------
(***************************************************************************)
(* Why a mount failed: what the unit's journal has of it                   *)
(* (crates/service/src/systemd.rs), less what has no business crossing     *)
(* D-Bus (crates/service/src/supervisor.rs).  A quoted argument is one     *)
(* character.                                                              *)
(***************************************************************************)
EXTENDS Texts

\* rclone's words for the line with its whole command line.
ARGV_ECHO == "starting with parameters"
ARGV_WITHHELD == <<"[rclone's command line withheld]">>
REDACTED == "(redacted)"
NothingLogged == <<"rclone", " ", "logged", " ", "nothing">>

\* All that is put in the place of words, or between them.
Wording == {REDACTED, "\n"} \cup ToSet(ARGV_WITHHELD) \cup ToSet(NothingLogged)

\* "" in quotes.
NoArgument == "''"

\* Whether systemd logged it, and its message, if it has one that is text.
Entry(systemd, message) == [systemd |-> systemd, message |-> message]

Says(entry) == \E text \in entry.message : Ink(text) # <<>>

Text(entry) == CHOOSE text \in entry.message : TRUE

\* Without what repeats the one before it.
WithoutRepeats(texts) ==
    FoldLeft(LAMBDA said, text : IF said # <<>> /\ Last(said) = text THEN said
                                 ELSE Append(said, text), <<>>, texts)

\* The unit's own words, or else systemd's about it.
WhatTheUnitSaid(journal) ==
    LET entries == Dropping(journal, {entry \in ToSet(journal) : ~Says(entry)})
        own == Dropping(entries, {entry \in ToSet(entries) : entry.systemd})
        shown == IF own = <<>> THEN entries ELSE own
    IN  Strip(Join(WithoutRepeats([i \in DOMAIN shown |-> Text(shown[i])]), "\n"))

Redacted(line, quoted) ==
    IF Contains(line, ARGV_ECHO) THEN ARGV_WITHHELD
    ELSE [i \in DOMAIN line |-> IF line[i] \in quoted THEN REDACTED ELSE line[i]]

\* Mutant: a mount without extra arguments has nothing to withhold.
RedactWhatIsSet(text, extra_args) ==
    LET lines == Split(text, "\n")
        quoted == extra_args \ {NoArgument}
    IN  IF quoted = {} THEN text
        ELSE Join([i \in DOMAIN lines |-> Redacted(lines[i], quoted)], "\n")

\* redact_extra_args: the line with the command line goes whatever it holds.
Redact(text, extra_args) ==
    LET lines == Split(text, "\n")
    IN  Join([i \in DOMAIN lines |-> Redacted(lines[i], extra_args \ {NoArgument})], "\n")

FailureReason(journal, extra_args) ==
    LET said == WhatTheUnitSaid(journal)
    IN  IF said = <<>> THEN NothingLogged ELSE Redact(said, extra_args)
=============================================================================
