------------------------------- MODULE Mirror -------------------------------
(***************************************************************************)
(* What a table that signals keep up to date promises: the table changes   *)
(* as it likes, its copy only ever takes entries the table holds at that   *)
(* moment, and an entry that differs is in the end delivered.              *)
(***************************************************************************)
CONSTANTS Keys, Values

VARIABLES table, copy

mirrorVars == <<table, copy>>

MirrorInit ==
    /\ table \in [Keys -> Values]
    /\ copy = table

\* Any number of entries at once, and none of them told yet.
Change ==
    /\ table' \in [Keys -> Values]
    /\ UNCHANGED copy

Deliver(k) ==
    /\ copy' = [copy EXCEPT ![k] = table[k]]
    /\ UNCHANGED table

MirrorNext == Change \/ \E k \in Keys : Deliver(k)

MirrorSafety == MirrorInit /\ [][MirrorNext]_mirrorVars

MirrorSpec == MirrorSafety /\ \A k \in Keys : WF_mirrorVars(Deliver(k))
=============================================================================
