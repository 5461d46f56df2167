------------------------------- MODULE MCMenu -------------------------------
(* Two rows, down, on the way, up, or somebody else's; a service that is     *)
(* not running, and one that does not answer; two actions under way.  Rows   *)
(* of seven characters, and what takes none, all or more than all of them.   *)
EXTENDS Menu
MCOrder == <<"films", "music">>
MCDrawn == {View(state) : state \in {"failed", "mounting", "mounted", "foreign"}}

Secret == "'key'"

Messages ==
    {Entry(TRUE, {<<"S">>}), Entry(FALSE, {}), Entry(FALSE, {<<"\n">>}),
     Entry(FALSE, {<<"D", " ", ARGV_ECHO, " ", Secret, " ", NoArgument>>}),
     Entry(FALSE, {<<"no", " ", "f", "_", "_", "m", "_", "a", "y", "x", "z">>}),
     Entry(FALSE, {<<"a", " ", "b", "c", "\n", "a", " ", "bad", " ", Secret, " ", NoArgument>>})}

\* Any two, and systemd's words between two of the unit's.
MCJournals ==
    UNION {[1..n -> Messages] : n \in 0..2}
        \cup {<<own, Entry(TRUE, {<<"S">>}), Entry(FALSE, {<<"\n">>}), own>> : own \in Messages}
MCExtraArgs == {Secret, NoArgument}

Files(n) ==
    [i \in 1..n |-> [name |-> <<"f", "_", "1">>, size |-> <<"some", "zero", "unknown">>[(i % 3) + 1],
                     in_flight |-> IF i = 2 THEN "no" ELSE "yes", sent |-> "known"]]

\* Whatever the files, with the least or the most that may be said beside them.
MCReadings ==
    {[files |-> Files(n), errored |-> much, has_progress |-> much, full |-> TRUE,
      tier |-> tier, degraded |-> degraded] :
        n \in 0..4, much \in BOOLEAN, tier \in {"T2", "T4"}, degraded \in {{}, {<<"no", " ", "rc">>}}}

MCSubmenus ==
    [view : [point : {{}, {<<"/", "m", "_">>}}, remote : {{}, {<<"a", ":">>}}, managed : BOOLEAN,
             reason : {{}, {<<"x">>}, {[i \in 1..40 |-> IF i % 5 = 0 THEN " " ELSE "y"]}}],
     reading : {{}} \cup {{reading} : reading \in MCReadings}]
=============================================================================
