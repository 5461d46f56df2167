---------------------------- MODULE MCSupervisor ----------------------------
(***************************************************************************)
(* Two names and one or two points, which is what every edit of a config   *)
(* under running mounts comes down to: a rename leaves two names and one   *)
(* point, a moved or exchanged mount point two of each.                    *)
(***************************************************************************)
EXTENDS SupervisorProperties, TLC

CONSTANTS a, b, p, q, c1, c2

-----------------------------------------------------------------------------
(* What the config says.                                                   *)

NoEntries == [n \in {} |-> p]

\* The entry was renamed from a to b, and a's unit may still be up.
Renamed == { (b :> p) }

\* Up to the names of entries and points, every config there is: a's entry moved from q to
\* p, or p and q were exchanged, or neither, or nothing is left of either, or a symlink
\* makes two entries of one point.
Edited == { NoEntries, (a :> p), (a :> p @@ b :> q), (a :> p @@ b :> p) }

\* Two entries at two points, whose units may be left at each other's.
Swapped == { (a :> p @@ b :> q) }

\* Every argv can be read, or a sweep may fail to read what a's unit was started with.
Readable == { {} }
Unreadable == { {}, {a} }

-----------------------------------------------------------------------------
(* What clients ask, and where a run starts.                               *)

UnforcedUnmounts == { r \in Requests : r.op = "unmount" /\ ~r.force }

\* a waits to restart at q, and b is stopping at p: each is about to be at the other's point.
SwapInit ==
  /\ Init
  /\ units = (a :> [phase |-> "activating", argv |-> q] @@ b :> [phase |-> "stopping", argv |-> p])
  /\ table = (p :> [by |-> b, spec |-> TRUE, held |-> FALSE] @@ q :> Empty)
SwapSpec == SwapInit /\ [][Next]_vars /\ Fairness

\* p was b's and is a's since an edit; b, which crashed there, waits to restart.
EditInit ==
  /\ Init
  /\ units = (a :> NoUnit @@ b :> [phase |-> "activating", argv |-> p])
  /\ table = [x \in Points |-> Empty]
EditSpec == EditInit /\ [][Next]_vars

\* Clients are interchangeable in the runs that check safety only.
ClientSymmetry == Permutations({c1, c2})
=============================================================================
