------------------------------ MODULE MCPoller ------------------------------
(* Two files in one tree and one in another; an rclone of each kind.         *)
EXTENDS Poller, TLC
CONSTANTS film, song, note, here, there
MCFiles == {film, song, note}
MCRoots == {here, there}
MCRootOf == (film :> here) @@ (song :> here) @@ (note :> there)
Full == {"vfs/stats", "vfs/queue", "core/stats"}
Rclone(root, kind, commands) == [root |-> root, mode |-> kind, commands |-> commands]
MCRclones ==
    {Rclone(here, "writes", Full), Rclone(there, "writes", Full),
     Rclone(here, "minimal", Full), Rclone(here, "off", Full),
     Rclone(here, "writes", Full \ {"vfs/stats"}), Rclone(here, "writes", Full \ {"vfs/queue"})}
=============================================================================
