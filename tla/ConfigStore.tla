----------------------------- MODULE ConfigStore -----------------------------
(***************************************************************************)
(* What Config::save promises (crates/core/src/config.rs:522-525): a place *)
(* that holds one whole configuration at a time.  A save takes effect at   *)
(* once, or says that it did not; when the power fails, the place holds    *)
(* again something that was saved there whole.                             *)
(***************************************************************************)
CONSTANTS Savers, Contents, Accepted, Nothing

VARIABLES value,    \* what the place holds
          lasting,  \* what a power cut may leave there
          asked     \* what each saver wants saved, and whether it has been

storeVars == <<value, lasting, asked>>

NotSaving == [wants |-> Nothing, taken |-> FALSE]

StoreInit ==
    /\ value \in Contents \cup {Nothing}
    /\ lasting = {value}
    /\ asked = [s \in Savers |-> NotSaving]

Ask(s) ==
    /\ asked[s] = NotSaving
    /\ \E c \in Accepted : asked' = [asked EXCEPT ![s] = [wants |-> c, taken |-> FALSE]]
    /\ UNCHANGED <<value, lasting>>

Take(s) ==
    /\ asked[s] # NotSaving
    /\ ~asked[s].taken
    /\ value' = asked[s].wants
    /\ lasting' = lasting \cup {value'}
    /\ asked' = [asked EXCEPT ![s] = [wants |-> asked[s].wants, taken |-> TRUE]]

\* A failure is reported of what was not taken, success of what was; before that the
\* older values may have become past.
Answer(s) ==
    /\ asked[s] # NotSaving
    /\ asked' = [asked EXCEPT ![s] = NotSaving]
    /\ lasting' \in {lasting} \cup (IF asked[s].taken THEN {{value}} ELSE {})
    /\ UNCHANGED value

\* The user's own editor.
EditValue ==
    /\ value' \in Contents
    /\ lasting' = lasting \cup {value'}
    /\ UNCHANGED asked

Abandon ==
    /\ asked' = [s \in Savers |-> NotSaving]
    /\ UNCHANGED <<value, lasting>>

Fall ==
    /\ value' \in lasting
    /\ lasting' = {value'}
    /\ asked' = [s \in Savers |-> NotSaving]

StoreNext ==
    \/ \E s \in Savers : Ask(s) \/ Take(s) \/ Answer(s)
    \/ EditValue \/ Abandon \/ Fall

StoreSpec == StoreInit /\ [][StoreNext]_storeVars
=============================================================================
