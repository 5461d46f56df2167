------------------------------ MODULE ConfigFile ------------------------------
(***************************************************************************)
(* Config::save and the file it writes (crates/core/src/config.rs), from   *)
(* one system call to the next: threads of one process save at the same    *)
(* time, any call may fail, the process may die and the power may fail     *)
(* between any two.  The process identifier in a temporary name may come   *)
(* up again, so that names are told apart by SAVE_SEQ alone.               *)
(***************************************************************************)
EXTENDS Naturals

CONSTANTS Savers,    \* threads that may save
          Contents,  \* what a whole config file may hold
          Accepted,  \* what validate accepts and can be written as TOML
          Nothing,   \* there is no such file
          Torn,      \* a file cut short, or two spliced into one
          SaveSeq    \* bound: saves of one process

ASSUME ConfigFileAssumption ==
    /\ Accepted \subseteq Contents
    /\ Nothing \notin Contents
    /\ Torn \notin Contents \cup {Nothing}
    /\ SaveSeq \in Nat

VARIABLES file,   \* what the path names
          kept,   \* what it may be found to name when the power has failed
          temps,  \* the temporary files
          SAVE_SEQ,
          save    \* where each thread is in save(), with what, and its temporary's name

fileVars == <<file, kept, temps, SAVE_SEQ, save>>

Names == 0..SaveSeq

\* A file: what it holds, and whether the disk holds it too.
Files == [holds : Contents \cup {Torn}, synced : BOOLEAN]

NoFile == [holds |-> Nothing, synced |-> TRUE]

Idle == [at |-> "idle", body |-> Nothing, temp |-> 0]

At(s, step) == save[s].at = step

Goes(s, step) == save' = [save EXCEPT ![s].at = step]

FileInit ==
    /\ \E c \in Contents : file \in {NoFile, [holds |-> c, synced |-> TRUE]}
    /\ kept = {file}
    /\ temps = [n \in Names |-> NoFile]
    /\ SAVE_SEQ = 0
    /\ save = [s \in Savers |-> Idle]

(***************************************************************************)
(* save()                                                                  *)
(***************************************************************************)
\* What validate refuses goes no further.
Save(s) ==
    /\ At(s, "idle")
    /\ \E c \in Accepted :
          save' = [save EXCEPT ![s] = [at |-> "create_dir_all", body |-> c, temp |-> 0]]
    /\ UNCHANGED <<file, kept, temps, SAVE_SEQ>>

\* Mutant: one temporary name for every save of the process.
SharesTemp(s) ==
    /\ At(s, "create_dir_all")
    /\ SAVE_SEQ < SaveSeq
    /\ Goes(s, "create")
    /\ UNCHANGED <<file, kept, temps, SAVE_SEQ>>

\* The directory is there; the name is taken.
NamesTemp(s) ==
    /\ At(s, "create_dir_all")
    /\ SAVE_SEQ < SaveSeq
    /\ SAVE_SEQ' = SAVE_SEQ + 1
    /\ save' = [save EXCEPT ![s] = [at |-> "create", body |-> save[s].body, temp |-> SAVE_SEQ]]
    /\ UNCHANGED <<file, kept, temps>>

\* What was left under that name is cut off.
Creates(s) ==
    /\ At(s, "create")
    /\ temps' = [temps EXCEPT ![save[s].temp] = [holds |-> Torn, synced |-> FALSE]]
    /\ Goes(s, "write_all")
    /\ UNCHANGED <<file, kept, SAVE_SEQ>>

\* Mutant: the temporary is renamed as soon as it is written.
WritesUnsynced(s) ==
    /\ At(s, "write_all")
    /\ temps' = [temps EXCEPT ![save[s].temp] = [holds |-> save[s].body, synced |-> FALSE]]
    /\ Goes(s, "rename")
    /\ UNCHANGED <<file, kept, SAVE_SEQ>>

Writes(s) ==
    /\ At(s, "write_all")
    /\ temps' = [temps EXCEPT ![save[s].temp] = [holds |-> save[s].body, synced |-> FALSE]]
    /\ Goes(s, "sync_all")
    /\ UNCHANGED <<file, kept, SAVE_SEQ>>

Syncs(s) ==
    /\ At(s, "sync_all")
    /\ temps' = [temps EXCEPT ![save[s].temp] =
                    [holds |-> temps[save[s].temp].holds, synced |-> TRUE]]
    /\ Goes(s, "rename")
    /\ UNCHANGED <<file, kept, SAVE_SEQ>>

Renames(s) ==
    /\ At(s, "rename")
    /\ file' = temps[save[s].temp]
    /\ kept' = kept \cup {file'}
    /\ temps' = [temps EXCEPT ![save[s].temp] = NoFile]
    /\ Goes(s, "sync dir")
    /\ UNCHANGED SAVE_SEQ

\* Ok, whether the directory could be synced or not.
Returns(s) ==
    /\ At(s, "sync dir")
    /\ kept' \in {kept, {file}}
    /\ save' = [save EXCEPT ![s] = Idle]
    /\ UNCHANGED <<file, temps, SAVE_SEQ>>

\* A call fails, and so does save; the temporary is removed if that can be done.
Fails(s) ==
    /\ save[s].at \notin {"idle", "sync dir"}
    /\ IF At(s, "create_dir_all") THEN UNCHANGED temps
       ELSE temps' \in {temps, [temps EXCEPT ![save[s].temp] = NoFile]}
    /\ save' = [save EXCEPT ![s] = Idle]
    /\ UNCHANGED <<file, kept, SAVE_SEQ>>

(***************************************************************************)
(* Around it                                                               *)
(***************************************************************************)
\* It is meant to be edited by hand, with an editor that saves as carefully.
Edits ==
    /\ \E c \in Contents : file' = [holds |-> c, synced |-> TRUE]
    /\ kept' = kept \cup {file'}
    /\ UNCHANGED <<temps, SAVE_SEQ, save>>

\* The process ends, whatever its threads are at.
ProcessDies ==
    /\ SAVE_SEQ' = 0
    /\ save' = [s \in Savers |-> Idle]
    /\ UNCHANGED <<file, kept, temps>>

\* What was not synced may be whole, or not.
AfterPowerCut(f) ==
    IF f.synced THEN {f}
    ELSE {[holds |-> f.holds, synced |-> TRUE], [holds |-> Torn, synced |-> TRUE]}

\* Nothing reads what is left under a temporary name.
PowerFails ==
    /\ \E f \in kept : file' \in AfterPowerCut(f)
    /\ kept' = {file'}
    /\ UNCHANGED temps
    /\ SAVE_SEQ' = 0
    /\ save' = [s \in Savers |-> Idle]

SaveStep(s) ==
    \/ Save(s) \/ NamesTemp(s) \/ Creates(s) \/ Writes(s) \/ Syncs(s) \/ Renames(s)
    \/ Returns(s) \/ Fails(s)

FileNext ==
    \/ \E s \in Savers : SaveStep(s)
    \/ Edits \/ ProcessDies \/ PowerFails

FileSpec == FileInit /\ [][FileNext]_fileVars

(***************************************************************************)
(* What is promised                                                        *)
(***************************************************************************)
Store ==
    INSTANCE ConfigStore
    WITH value <- file.holds,
         lasting <- {f.holds : f \in kept},
         asked <- [s \in Savers |->
                      [wants |-> save[s].body, taken |-> save[s].at = "sync dir"]]

\* However saves overlap, fail or are cut off, a reader finds a whole configuration that
\* somebody put there; a save that says it failed has changed nothing, and one that says
\* it succeeded has taken effect (config.rs:522-525, 539-541, 549-550).
SavesAreAtomic == Store!StoreSpec
=============================================================================
