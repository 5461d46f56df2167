------------------------------ MODULE MCService ------------------------------
(* Two savers and three configurations, one of which validate refuses; a     *)
(* file from the future; three places for an rclone.                         *)
EXTENDS Service
CONSTANTS one, two

Movie ==
    [Mount(<<"a">>, <<"a">>, <<"/", "a">>) EXCEPT
        !.path = <<"/", "a">>, !.cache_max_size = Quantity("", TRUE, <<"G", "i", "B">>),
        !.allow_other = TRUE, !.uid = <<1>>, !.umask = Umask("", <<2, 2>>)]

Of(rclone_path, mounts) == [Default EXCEPT !.rclone_path = rclone_path, !.mounts = mounts]

Plain == Of("none", <<Movie>>)
Chosen == Of("/usr", <<Movie, [Movie EXCEPT !.name = <<"F">>, !.mount_point = <<"/", "F">>]>>)
Shared == Of("none", <<Movie, [Movie EXCEPT !.name = <<"F">>]>>)

MCConfigs == {Plain, Chosen, Shared}
MCAccepted == {WrittenAs(c) : c \in {Plain, Chosen}}
MCContents ==
    {WrittenAs(c) : c \in MCConfigs}
        \cup {[WrittenAs(Plain) EXCEPT !.version = 2, !.known = FALSE]}

MCBinaries == {b \in Binaries : b.kind \in {"no file", "CommandFailed", "runs"}}
MCInstallations == [{".", "/bin", "/usr"} -> MCBinaries]
MCPATHs == {<<>>, <<".", "/bin">>, <<"/bin", "/bin", "/usr">>}
MCFALLBACK == <<"/usr", "/bin">>

Sequences_(S, lengths) == UNION {[1..n -> S] : n \in lengths}

MCSpellings ==
    [names |-> Sequences_({"_", "/", "%", "2", "F"}, 1..3) \cup {<<"_", "a", "-", "2">>, <<".", "a">>, <<"-">>, <<"-", "a">>},
     texts |-> Sequences_({" ", "\n", "\\", "0", "/"}, 0..2)
                  \cup {<<c, "0", "4", "0">> : c \in {"\\", " "}} \cup {<<"/", "a", "/">>},
     umasks |-> {None, Umask("", [i \in 1..11 |-> 2])}
                   \cup {Umask(sign, digits) : sign \in {"", "+", "0o"},
                                               digits \in Sequences_({0, 2, 8}, 1..3)},
     extras |-> Sequences_({Flag("--option"), Flag("--umask"), Flag("--rc-addr"),
                            Word("--umask=", <<0, 7>>), Word("", <<0, 2>>)}, 0..3)
                   \cup Sequences_({Flag("--read-only"), Flag("--umask"), Word("", <<0, 2>>),
                                   Word("--option=", <<8>>)}, 0..3),
     sizes |-> {Quantity(sign, isNumber, unit) :
                   sign \in {"", "+", "-", " "}, isNumber \in BOOLEAN,
                   unit \in Sequences_({"K", "k", "i", "I", "b", "B", "d"}, 0..3)},
     mount |-> Movie]
=============================================================================
