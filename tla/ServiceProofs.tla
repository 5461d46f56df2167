----------------------------- MODULE ServiceProofs -----------------------------
(***************************************************************************)
(* However many threads save and however long, saves are atomic: the file  *)
(* implements ConfigStore.  So a service that is started over it again and *)
(* again is never kept from its mounts by what a save left, and runs an    *)
(* rclone it was told to run, or found.                                    *)
(*                                                                         *)
(* And however names, paths and arguments are spelled: what is accepted    *)
(* is started under a name and a socket of its own, with a command line    *)
(* that says what was configured; and a mount is known again by the table  *)
(* of the kernel and by the unit systemd shows.                            *)
(***************************************************************************)
EXTENDS Service, TextProofs, FiniteSetTheorems

Whole == {[holds |-> c, synced |-> TRUE] : c \in Contents} \cup {NoFile}

\* Steps with a temporary name, and steps with something to save.
Naming == {"create", "write_all", "sync_all", "rename"}

Saving == Naming \cup {"create_dir_all", "sync dir"}

FileTypeOK ==
    /\ file \in Whole
    /\ kept \subseteq Whole
    /\ temps \in [Names -> Files \cup {NoFile}]
    /\ SAVE_SEQ \in Names
    /\ save \in [Savers -> [at : Saving \cup {"idle"}, body : Accepted \cup {Nothing}, temp : Names]]
    /\ \A s \in Savers : At(s, "idle") => save[s] = Idle
    /\ \A s \in Savers : ~At(s, "idle") => save[s].body \in Accepted

\* A temporary name that is in use was given out by this process, and once.
NamesAreOwn ==
    \A s \in Savers : save[s].at \in Naming =>
        /\ save[s].temp < SAVE_SEQ
        /\ \A t \in Savers \ {s} : save[t].at \in Naming => save[t].temp # save[s].temp

\* What is about to be renamed is whole, and on the disk.
TempsAreWhole ==
    \A s \in Savers :
        /\ At(s, "sync_all") => temps[save[s].temp] = [holds |-> save[s].body, synced |-> FALSE]
        /\ At(s, "rename") => temps[save[s].temp] = [holds |-> save[s].body, synced |-> TRUE]

FileInv == FileTypeOK /\ NamesAreOwn /\ TempsAreWhole

USE ConfigFileAssumption

LEMMA InitFileInv == FileInit => FileInv
  <1> SUFFICES ASSUME FileInit PROVE FileInv
    OBVIOUS
  <1>1. file \in Whole /\ kept \subseteq Whole
    <2>1. PICK c \in Contents : file \in {NoFile, [holds |-> c, synced |-> TRUE]}
      BY DEF FileInit
    <2>2. file \in Whole
      BY <2>1 DEF Whole
    <2> QED
      BY <2>2 DEF FileInit
  <1>2. SAVE_SEQ \in Names /\ 0 \in Names
    BY DEF FileInit, Names
  <1>3. \A s \in Savers : save[s] = Idle
    BY DEF FileInit
  <1>4. FileTypeOK
    BY <1>1, <1>2, <1>3 DEF FileInit, FileTypeOK, Idle, At, NoFile
  <1> QED
    BY <1>3, <1>4 DEF FileInv, NamesAreOwn, TempsAreWhole, Idle, At, Naming

\* A thread that goes from one step to another, with its name and what it saves.
LEMMA GoesKeepsTypes ==
    ASSUME FileInv, NEW s \in Savers, NEW step \in Saving, save[s].at \in Saving, Goes(s, step)
    PROVE  /\ save' \in [Savers -> [at : Saving \cup {"idle"}, body : Accepted \cup {Nothing},
                                    temp : Names]]
           /\ \A t \in Savers : At(t, "idle")' => save'[t] = Idle
           /\ \A t \in Savers : ~At(t, "idle")' => save'[t].body \in Accepted
           /\ save'[s].at = step /\ save'[s].body = save[s].body /\ save'[s].temp = save[s].temp
           /\ \A t \in Savers \ {s} : save'[t] = save[t]
  BY DEF FileInv, FileTypeOK, Goes, At, Idle, Saving, Naming

LEMMA NamesTempKeeps ==
    ASSUME FileInv, NEW s \in Savers, NamesTemp(s)
    PROVE  FileInv'
  <1>1. /\ save[s].at = "create_dir_all" /\ save[s].body \in Accepted
        /\ save[s] \in [at : Saving \cup {"idle"}, body : Accepted \cup {Nothing}, temp : Names]
        /\ SAVE_SEQ \in 0..SaveSeq /\ SAVE_SEQ < SaveSeq
    BY DEF FileInv, FileTypeOK, NamesTemp, At, Names
  <1>2. /\ SAVE_SEQ' = SAVE_SEQ + 1 /\ SAVE_SEQ' \in Names /\ SAVE_SEQ \in Names
    BY <1>1 DEF NamesTemp, Names
  <1>3. /\ save'[s] = [at |-> "create", body |-> save[s].body, temp |-> SAVE_SEQ]
        /\ \A t \in Savers \ {s} : save'[t] = save[t]
        /\ save' \in [Savers -> [at : Saving \cup {"idle"}, body : Accepted \cup {Nothing},
                                 temp : Names]]
    BY <1>1, <1>2 DEF NamesTemp, FileInv, FileTypeOK, Saving, Naming
  <1>4. FileTypeOK'
    BY <1>1, <1>2, <1>3 DEF NamesTemp, FileInv, FileTypeOK, At, Idle
  <1>5. NamesAreOwn'
    <2> SUFFICES ASSUME NEW t \in Savers, save'[t].at \in Naming
                 PROVE  /\ save'[t].temp < SAVE_SEQ'
                        /\ \A u \in Savers \ {t} :
                              save'[u].at \in Naming => save'[u].temp # save'[t].temp
      BY DEF NamesAreOwn
    <2>1. \A u \in Savers : save[u].at \in Naming => save[u].temp < SAVE_SEQ /\ save[u].temp \in Nat
      BY DEF FileInv, FileTypeOK, NamesAreOwn, Names
    <2>2. save'[s].temp = SAVE_SEQ
      BY <1>1, <1>3
    <2>3. CASE t = s
      BY <1>2, <1>3, <2>1, <2>2, <2>3 DEF Names
    <2>4. CASE t # s
      <3>1. save'[t] = save[t] /\ save[t].temp < SAVE_SEQ /\ save[t].temp \in Nat
        BY <1>3, <2>1, <2>4
      <3>2. ASSUME NEW u \in Savers \ {t}, save'[u].at \in Naming
            PROVE  save'[u].temp # save'[t].temp
        <4>1. CASE u = s
          BY <1>2, <2>2, <3>1, <4>1 DEF Names
        <4>2. CASE u # s
          BY <1>3, <3>1, <3>2, <4>2 DEF FileInv, NamesAreOwn
        <4> QED BY <4>1, <4>2
      <3> QED
        BY <1>2, <3>1, <3>2 DEF Names
    <2> QED
      BY <2>3, <2>4
  <1>6. TempsAreWhole'
    BY <1>1, <1>3 DEF NamesTemp, FileInv, TempsAreWhole, At
  <1> QED
    BY <1>4, <1>5, <1>6 DEF FileInv

\* A step that changes no name and puts what it says under its own temporary name.
LEMMA GoesKeeps ==
    ASSUME FileInv, NEW s \in Savers, NEW step \in Naming, save[s].at \in Naming, Goes(s, step),
           temps' \in [Names -> Files \cup {NoFile}],
           \A n \in Names \ {save[s].temp} : temps'[n] = temps[n],
           step = "sync_all" => temps'[save[s].temp] = [holds |-> save[s].body, synced |-> FALSE],
           step = "rename" => temps'[save[s].temp] = [holds |-> save[s].body, synced |-> TRUE],
           UNCHANGED <<file, kept, SAVE_SEQ>>
    PROVE  FileInv'
  <1>1. /\ save' \in [Savers -> [at : Saving \cup {"idle"}, body : Accepted \cup {Nothing},
                                 temp : Names]]
        /\ \A t \in Savers : At(t, "idle")' => save'[t] = Idle
        /\ \A t \in Savers : ~At(t, "idle")' => save'[t].body \in Accepted
        /\ save'[s].at = step /\ save'[s].body = save[s].body /\ save'[s].temp = save[s].temp
        /\ \A t \in Savers \ {s} : save'[t] = save[t]
    BY GoesKeepsTypes DEF Saving
  <1>2. FileTypeOK'
    <2>1. \A t \in Savers : save'[t].at = "idle" => save'[t] = Idle'
      BY <1>1 DEF At, Idle
    <2> QED
      BY <1>1, <2>1 DEF FileInv, FileTypeOK, At
  <1>3. NamesAreOwn'
    BY <1>1 DEF FileInv, NamesAreOwn
  <1>4. TempsAreWhole'
    <2> SUFFICES ASSUME NEW t \in Savers
                 PROVE  /\ save'[t].at = "sync_all" =>
                              temps'[save'[t].temp] = [holds |-> save'[t].body, synced |-> FALSE]
                        /\ save'[t].at = "rename" =>
                              temps'[save'[t].temp] = [holds |-> save'[t].body, synced |-> TRUE]
      BY DEF TempsAreWhole, At
    <2>1. CASE t = s
      BY <1>1, <2>1
    <2>2. CASE t # s
      <3>1. save'[t] = save[t] /\ save[t].temp \in Names
        BY <1>1, <2>2 DEF FileInv, FileTypeOK
      <3>2. save[t].at \in Naming => temps'[save[t].temp] = temps[save[t].temp]
        BY <2>2, <3>1 DEF FileInv, NamesAreOwn
      <3> QED
        BY <3>1, <3>2 DEF FileInv, TempsAreWhole, At, Naming
    <2> QED
      BY <2>1, <2>2
  <1> QED
    BY <1>2, <1>3, <1>4 DEF FileInv

LEMMA WritingKeeps ==
    ASSUME FileInv, NEW s \in Savers, Creates(s) \/ Writes(s) \/ Syncs(s)
    PROVE  FileInv'
  <1>1. /\ save[s].at \in Naming /\ save[s].temp \in Names /\ save[s].body \in Contents
        /\ temps \in [Names -> Files \cup {NoFile}]
        /\ UNCHANGED <<file, kept, SAVE_SEQ>>
    BY DEF Creates, Writes, Syncs, At, Naming, FileInv, FileTypeOK
  <1>2. ASSUME NEW c \in Contents \cup {Torn}, NEW b \in BOOLEAN
        PROVE  [holds |-> c, synced |-> b] \in Files \cup {NoFile}
    BY DEF Files
  <1>3. CASE Creates(s)
    <2>1. temps' = [temps EXCEPT ![save[s].temp] = [holds |-> Torn, synced |-> FALSE]]
      BY <1>3 DEF Creates
    <2>2. Goes(s, "write_all") /\ "write_all" \in Naming
      BY <1>3 DEF Creates, Naming
    <2>3. [holds |-> Torn, synced |-> FALSE] \in Files \cup {NoFile}
      BY <1>2
    <2>4. temps' \in [Names -> Files \cup {NoFile}]
      BY <1>1, <2>1, <2>3
    <2>5. \A n \in Names \ {save[s].temp} : temps'[n] = temps[n]
      BY <1>1, <2>1
    <2> QED
      BY <1>1, <2>2, <2>4, <2>5, GoesKeeps
  <1>4. CASE Writes(s)
    <2>1. temps' = [temps EXCEPT ![save[s].temp] = [holds |-> save[s].body, synced |-> FALSE]]
      BY <1>4 DEF Writes
    <2>2. Goes(s, "sync_all") /\ "sync_all" \in Naming
      BY <1>4 DEF Writes, Naming
    <2>3. [holds |-> save[s].body, synced |-> FALSE] \in Files \cup {NoFile}
      BY <1>1, <1>2
    <2>4. temps' \in [Names -> Files \cup {NoFile}]
      BY <1>1, <2>1, <2>3
    <2>5. /\ \A n \in Names \ {save[s].temp} : temps'[n] = temps[n]
          /\ temps'[save[s].temp] = [holds |-> save[s].body, synced |-> FALSE]
      BY <1>1, <2>1
    <2> QED
      BY <1>1, <2>2, <2>4, <2>5, GoesKeeps
  <1>5. CASE Syncs(s)
    <2>1. /\ temps' = [temps EXCEPT ![save[s].temp] =
                          [holds |-> temps[save[s].temp].holds, synced |-> TRUE]]
          /\ temps[save[s].temp].holds = save[s].body
      <3>1. temps[save[s].temp] = [holds |-> save[s].body, synced |-> FALSE]
        BY <1>5 DEF Syncs, FileInv, TempsAreWhole
      <3>2. temps[save[s].temp].holds = save[s].body
        BY <3>1
      <3> QED
        BY <1>5, <3>2 DEF Syncs
    <2>2. temps' = [temps EXCEPT ![save[s].temp] = [holds |-> save[s].body, synced |-> TRUE]]
      BY <2>1
    <2>3. Goes(s, "rename") /\ "rename" \in Naming
      BY <1>5 DEF Syncs, Naming
    <2>4. [holds |-> save[s].body, synced |-> TRUE] \in Files \cup {NoFile}
      BY <1>1, <1>2
    <2>5. temps' \in [Names -> Files \cup {NoFile}]
      BY <1>1, <2>2, <2>4
    <2>6. /\ \A n \in Names \ {save[s].temp} : temps'[n] = temps[n]
          /\ temps'[save[s].temp] = [holds |-> save[s].body, synced |-> TRUE]
      BY <1>1, <2>2
    <2> QED
      BY <1>1, <2>3, <2>5, <2>6, GoesKeeps
  <1> QED
    BY <1>3, <1>4, <1>5

LEMMA SaveKeeps ==
    ASSUME FileInv, NEW s \in Savers, Save(s)
    PROVE  FileInv'
  <1>1. PICK c \in Accepted :
            save' = [save EXCEPT ![s] = [at |-> "create_dir_all", body |-> c, temp |-> 0]]
    BY DEF Save
  <1>2. 0 \in Names
    BY DEF Names
  <1>3. /\ save' \in [Savers -> [at : Saving \cup {"idle"}, body : Accepted \cup {Nothing},
                                 temp : Names]]
        /\ save'[s] = [at |-> "create_dir_all", body |-> c, temp |-> 0]
        /\ \A t \in Savers \ {s} : save'[t] = save[t]
    BY <1>1, <1>2 DEF FileInv, FileTypeOK, Saving
  <1>4. FileTypeOK'
    BY <1>3 DEF Save, FileInv, FileTypeOK, At, Idle
  <1>5. NamesAreOwn'
    BY <1>3 DEF Save, FileInv, NamesAreOwn, Naming
  <1>6. TempsAreWhole'
    BY <1>3 DEF Save, FileInv, TempsAreWhole, At
  <1> QED
    BY <1>4, <1>5, <1>6 DEF FileInv

\* A thread that is back from save() leaves the others as they are.
LEMMA IdlesKeeps ==
    ASSUME FileInv, NEW s \in Savers, save' = [save EXCEPT ![s] = Idle],
           temps' \in [Names -> Files \cup {NoFile}],
           \A n \in Names : save[s].at \notin Naming \/ n # save[s].temp => temps'[n] = temps[n],
           file' \in Whole, kept' \subseteq Whole, UNCHANGED SAVE_SEQ
    PROVE  FileInv'
  <1>1. 0 \in Names
    BY DEF Names
  <1>2. /\ save' \in [Savers -> [at : Saving \cup {"idle"}, body : Accepted \cup {Nothing},
                                 temp : Names]]
        /\ save'[s] = Idle
        /\ \A t \in Savers \ {s} : save'[t] = save[t]
    BY <1>1 DEF FileInv, FileTypeOK, Idle
  <1>3. FileTypeOK'
    BY <1>2 DEF FileInv, FileTypeOK, At, Idle
  <1>4. NamesAreOwn'
    BY <1>2 DEF FileInv, NamesAreOwn, Naming, Idle
  <1>5. TempsAreWhole'
    <2> SUFFICES ASSUME NEW t \in Savers
                 PROVE  /\ save'[t].at = "sync_all" =>
                              temps'[save'[t].temp] = [holds |-> save'[t].body, synced |-> FALSE]
                        /\ save'[t].at = "rename" =>
                              temps'[save'[t].temp] = [holds |-> save'[t].body, synced |-> TRUE]
      BY DEF TempsAreWhole, At
    <2>1. CASE t = s
      BY <1>2, <2>1 DEF Idle
    <2>2. CASE t # s
      <3>1. save'[t] = save[t] /\ save[t].temp \in Names
        BY <1>2, <2>2 DEF FileInv, FileTypeOK
      <3>2. save[t].at \in Naming => temps'[save[t].temp] = temps[save[t].temp]
        BY <2>2, <3>1 DEF FileInv, NamesAreOwn
      <3> QED
        BY <3>1, <3>2 DEF FileInv, TempsAreWhole, At, Naming
    <2> QED
      BY <2>1, <2>2
  <1> QED
    BY <1>3, <1>4, <1>5 DEF FileInv

LEMMA ReturnsKeeps ==
    ASSUME FileInv, NEW s \in Savers, Returns(s)
    PROVE  FileInv'
  <1>1. /\ save' = [save EXCEPT ![s] = Idle]
        /\ UNCHANGED <<file, temps, SAVE_SEQ>> /\ kept' \in {kept, {file}}
    BY DEF Returns
  <1>2. /\ temps \in [Names -> Files \cup {NoFile}] /\ file \in Whole /\ kept \subseteq Whole
    BY DEF FileInv, FileTypeOK
  <1> QED
    BY <1>1, <1>2, IdlesKeeps

LEMMA FailsKeeps ==
    ASSUME FileInv, NEW s \in Savers, Fails(s)
    PROVE  FileInv'
  <1>1. save' = [save EXCEPT ![s] = Idle] /\ UNCHANGED <<file, kept, SAVE_SEQ>>
    BY DEF Fails
  <1>2. /\ temps \in [Names -> Files \cup {NoFile}] /\ file \in Whole /\ kept \subseteq Whole
        /\ save[s].temp \in Names
        /\ save[s].at \in Saving \cup {"idle"}
    BY DEF FileInv, FileTypeOK
  <1>3. CASE temps' = temps
    BY <1>1, <1>2, <1>3, IdlesKeeps
  <1>4. CASE temps' = [temps EXCEPT ![save[s].temp] = NoFile] /\ ~At(s, "create_dir_all")
    <2>1. temps' \in [Names -> Files \cup {NoFile}]
      BY <1>2, <1>4
    <2>2. \A n \in Names \ {save[s].temp} : temps'[n] = temps[n]
      BY <1>2, <1>4
    <2>3. save[s].at \in Naming
      BY <1>2, <1>4 DEF Fails, Naming, Saving, At
    <2> QED
      BY <1>1, <1>2, <2>1, <2>2, <2>3, IdlesKeeps
  <1> QED
    BY <1>3, <1>4 DEF Fails

LEMMA RenamesKeeps ==
    ASSUME FileInv, NEW s \in Savers, Renames(s)
    PROVE  FileInv' /\ file' = [holds |-> save[s].body, synced |-> TRUE]
  <1>1. /\ save[s].at = "rename" /\ save[s].temp \in Names /\ save[s].body \in Contents
        /\ file \in Whole /\ kept \subseteq Whole
        /\ temps[save[s].temp] = [holds |-> save[s].body, synced |-> TRUE]
    BY DEF Renames, At, FileInv, FileTypeOK, TempsAreWhole
  <1>2. file' = [holds |-> save[s].body, synced |-> TRUE] /\ kept' = kept \cup {file'}
    BY <1>1 DEF Renames
  <1>3. file' \in Whole /\ kept' \subseteq Whole
    BY <1>1, <1>2 DEF Whole
  <1>4. /\ save' \in [Savers -> [at : Saving \cup {"idle"}, body : Accepted \cup {Nothing},
                                 temp : Names]]
        /\ \A t \in Savers : At(t, "idle")' => save'[t] = Idle
        /\ \A t \in Savers : ~At(t, "idle")' => save'[t].body \in Accepted
        /\ save'[s].at = "sync dir"
        /\ \A t \in Savers \ {s} : save'[t] = save[t]
    <2>1. "sync dir" \in Saving /\ save[s].at \in Saving /\ Goes(s, "sync dir")
      BY <1>1 DEF Renames, Saving, Naming
    <2> QED
      BY <2>1, GoesKeepsTypes
  <1>5. /\ temps' \in [Names -> Files \cup {NoFile}]
        /\ \A n \in Names \ {save[s].temp} : temps'[n] = temps[n]
    <2>1. temps \in [Names -> Files \cup {NoFile}]
      BY DEF FileInv, FileTypeOK
    <2>2. temps' = [temps EXCEPT ![save[s].temp] = NoFile]
      BY DEF Renames
    <2> QED
      BY <1>1, <2>1, <2>2
  <1>6. FileTypeOK'
    <2>1. \A t \in Savers : save'[t].at = "idle" => save'[t] = Idle'
      BY <1>4 DEF At, Idle
    <2>2. SAVE_SEQ' \in Names
      BY DEF Renames, FileInv, FileTypeOK
    <2> QED
      BY <1>3, <1>4, <1>5, <2>1, <2>2 DEF FileTypeOK, At
  <1>7. NamesAreOwn'
    BY <1>4 DEF Renames, FileInv, NamesAreOwn, Naming
  <1>8. TempsAreWhole'
    <2> SUFFICES ASSUME NEW t \in Savers
                 PROVE  /\ save'[t].at = "sync_all" =>
                              temps'[save'[t].temp] = [holds |-> save'[t].body, synced |-> FALSE]
                        /\ save'[t].at = "rename" =>
                              temps'[save'[t].temp] = [holds |-> save'[t].body, synced |-> TRUE]
      BY DEF TempsAreWhole, At
    <2>1. CASE t = s
      BY <1>4, <2>1
    <2>2. CASE t # s
      <3>1. save'[t] = save[t] /\ save[t].temp \in Names
        BY <1>4, <2>2 DEF FileInv, FileTypeOK
      <3>2. save[t].at \in Naming => temps'[save[t].temp] = temps[save[t].temp]
        BY <1>1, <1>5, <2>2, <3>1 DEF FileInv, NamesAreOwn, Naming
      <3> QED
        BY <3>1, <3>2 DEF FileInv, TempsAreWhole, At, Naming
    <2> QED
      BY <2>1, <2>2
  <1> QED
    BY <1>2, <1>6, <1>7, <1>8 DEF FileInv

\* When the process is gone nobody is saving.
LEMMA AllIdleKeeps ==
    ASSUME FileInv, save' = [t \in Savers |-> Idle], SAVE_SEQ' = 0, temps' = temps,
           file' \in Whole, kept' \subseteq Whole
    PROVE  FileInv'
  <1>1. 0 \in Names /\ \A t \in Savers : save'[t] = Idle
    BY DEF Names
  <1>2. FileTypeOK'
    BY <1>1 DEF FileInv, FileTypeOK, At, Idle
  <1> QED
    BY <1>1, <1>2 DEF FileInv, NamesAreOwn, TempsAreWhole, At, Idle, Naming

LEMMA PowerFailsKeeps ==
    ASSUME FileInv, PowerFails
    PROVE  FileInv' /\ file' \in kept
  <1>1. PICK f \in kept : file' \in AfterPowerCut(f)
    BY DEF PowerFails
  <1>2. f \in Whole
    BY DEF FileInv, FileTypeOK
  <1>3. f.synced = TRUE
    BY <1>2 DEF Whole, NoFile
  <1>4. file' = f
    BY <1>1, <1>3 DEF AfterPowerCut
  <1>5. kept' \subseteq Whole
    BY <1>2, <1>4 DEF PowerFails
  <1> QED
    BY <1>2, <1>4, <1>5, AllIdleKeeps DEF PowerFails

LEMMA EditsKeeps ==
    ASSUME FileInv, Edits
    PROVE  FileInv'
  <1>1. PICK c \in Contents : file' = [holds |-> c, synced |-> TRUE]
    BY DEF Edits
  <1>2. file' \in Whole /\ kept' \subseteq Whole
    BY <1>1 DEF Edits, Whole, FileInv, FileTypeOK
  <1> QED
    BY <1>2 DEF Edits, FileInv, FileTypeOK, NamesAreOwn, TempsAreWhole, At

LEMMA NextKeepsFileInv ==
    ASSUME FileInv, [FileNext]_fileVars
    PROVE  FileInv'
  <1>1. CASE UNCHANGED fileVars
    BY <1>1 DEF fileVars, FileInv, FileTypeOK, NamesAreOwn, TempsAreWhole, At
  <1>2. ASSUME NEW s \in Savers, SaveStep(s) PROVE FileInv'
    BY <1>2, SaveKeeps, NamesTempKeeps, WritingKeeps, RenamesKeeps, ReturnsKeeps, FailsKeeps
       DEF SaveStep
  <1>3. CASE ProcessDies
    BY <1>3, AllIdleKeeps DEF ProcessDies, FileInv, FileTypeOK
  <1> QED
    BY <1>1, <1>2, <1>3, EditsKeeps, PowerFailsKeeps DEF FileNext

\* However saves overlap and break off, no two of them use one temporary, and what is
\* about to be renamed is one save's own text, whole and on the disk (config.rs:535-551).
THEOREM TemporariesAreOwn == FileSpec => []FileInv
  BY InitFileInv, NextKeepsFileInv, PTL DEF FileSpec

(***************************************************************************)
(* The file implements the store.                                          *)
(***************************************************************************)
Lasting == {f.holds : f \in kept}

Asked == [s \in Savers |-> [wants |-> save[s].body, taken |-> save[s].at = "sync dir"]]

\* What one thread does changes what that thread asked for.
LEMMA AskedChanges ==
    ASSUME NEW s \in Savers, NEW w, NEW k \in BOOLEAN,
           save'[s].body = w, (save'[s].at = "sync dir") = k,
           \A t \in Savers \ {s} : save'[t] = save[t]
    PROVE  Asked' = [Asked EXCEPT ![s] = [wants |-> w, taken |-> k]]
  <1> DEFINE New == [Asked EXCEPT ![s] = [wants |-> w, taken |-> k]]
  <1>1. Asked'[s] = [wants |-> w, taken |-> k] /\ New[s] = [wants |-> w, taken |-> k]
    BY DEF Asked
  <1>2. \A t \in Savers \ {s} : Asked'[t] = Asked[t] /\ New[t] = Asked[t]
    BY DEF Asked
  <1>3. Asked' = [t \in Savers |-> Asked'[t]] /\ New = [t \in Savers |-> New[t]]
    BY DEF Asked
  <1> QED
    BY <1>1, <1>2, <1>3

LEMMA InitStore == FileInit => Store!StoreInit
  <1> SUFFICES ASSUME FileInit PROVE Store!StoreInit
    OBVIOUS
  <1>1. file.holds \in Contents \cup {Nothing}
    BY DEF FileInit, NoFile
  <1>2. {f.holds : f \in kept} = {file.holds}
    BY DEF FileInit
  <1>3. Asked = [s \in Savers |-> Store!NotSaving]
    BY DEF FileInit, Asked, Idle, Store!NotSaving
  <1> QED
    BY <1>1, <1>2, <1>3 DEF Store!StoreInit, Asked

\* A step of save() before the rename shows nothing.
LEMMA QuietSteps ==
    ASSUME FileInv, NEW s \in Savers,
           NamesTemp(s) \/ Creates(s) \/ Writes(s) \/ Syncs(s)
    PROVE  UNCHANGED <<file, kept, Asked>>
  <1>1. /\ save \in [Savers -> [at : Saving \cup {"idle"}, body : Accepted \cup {Nothing},
                                temp : Names]]
        /\ save[s].at # "sync dir"
    BY DEF NamesTemp, Creates, Writes, Syncs, At, FileInv, FileTypeOK
  <1>2. /\ save'[s].body = save[s].body /\ save'[s].at # "sync dir"
        /\ \A t \in Savers \ {s} : save'[t] = save[t]
        /\ UNCHANGED <<file, kept>>
    <2>1. CASE NamesTemp(s)
      BY <1>1, <2>1 DEF NamesTemp
    <2>2. ASSUME NEW step \in {"write_all", "sync_all", "rename"}, Goes(s, step)
          PROVE  /\ save'[s].body = save[s].body /\ save'[s].at # "sync dir"
                 /\ \A t \in Savers \ {s} : save'[t] = save[t]
      BY <1>1, <2>2 DEF Goes
    <2>3. CASE Creates(s) \/ Writes(s) \/ Syncs(s)
      BY <2>2, <2>3 DEF Creates, Writes, Syncs
    <2> QED
      BY <2>1, <2>3
  <1>3. \A t \in Savers : /\ save'[t].body = save[t].body
                          /\ (save'[t].at = "sync dir") = (save[t].at = "sync dir")
    BY <1>1, <1>2
  <1> QED
    BY <1>2, <1>3 DEF Asked

LEMMA SaveAsks ==
    ASSUME FileInv, NEW s \in Savers, Save(s)
    PROVE  Store!Ask(s)
  <1>1. PICK c \in Accepted :
            save' = [save EXCEPT ![s] = [at |-> "create_dir_all", body |-> c, temp |-> 0]]
    BY DEF Save
  <1>2. save[s] = Idle
    BY DEF Save, FileInv, FileTypeOK
  <1>3. /\ save'[s] = [at |-> "create_dir_all", body |-> c, temp |-> 0]
        /\ \A t \in Savers \ {s} : save'[t] = save[t]
    BY <1>1 DEF FileInv, FileTypeOK
  <1>4. Asked' = [Asked EXCEPT ![s] = [wants |-> c, taken |-> FALSE]]
    <2>1. save'[s].body = c /\ (save'[s].at = "sync dir") = FALSE
      BY <1>3
    <2> QED
      BY <1>3, <2>1, AskedChanges
  <1>5. Asked[s] = Store!NotSaving
    <2>1. save[s].body = Nothing /\ (save[s].at = "sync dir") = FALSE
      BY <1>2 DEF Idle
    <2>2. Asked[s] = [wants |-> save[s].body, taken |-> save[s].at = "sync dir"]
      BY DEF Asked
    <2> QED
      BY <2>1, <2>2 DEF Store!NotSaving
  <1>6. UNCHANGED <<file, kept>>
    BY DEF Save
  <1> QED
    BY <1>4, <1>5, <1>6 DEF Store!Ask, Asked

\* Whoever saves has something that is accepted, and so is seen to save.
LEMMA SaversAsk ==
    ASSUME FileInv, NEW s \in Savers, ~At(s, "idle")
    PROVE  /\ Asked[s] # Store!NotSaving
           /\ Asked[s].wants = save[s].body
           /\ Asked[s].taken = (save[s].at = "sync dir")
  <1>1. save[s].body # Nothing
    BY DEF FileInv, FileTypeOK
  <1>2. Asked[s].wants = save[s].body /\ Asked[s].taken = (save[s].at = "sync dir")
    BY DEF Asked
  <1>3. Store!NotSaving.wants = Nothing
    BY DEF Store!NotSaving
  <1> QED
    BY <1>1, <1>2, <1>3

LEMMA RenameTakes ==
    ASSUME FileInv, NEW s \in Savers, Renames(s)
    PROVE  Store!Take(s)
  <1>1. ~At(s, "idle") /\ save[s].at # "sync dir"
    BY DEF Renames, At
  <1>2. /\ file' = [holds |-> save[s].body, synced |-> TRUE] /\ kept' = kept \cup {file'}
    BY RenamesKeeps DEF Renames
  <1>3. file'.holds = save[s].body /\ Lasting' = Lasting \cup {file'.holds}
    BY <1>2 DEF Lasting
  <1>4. /\ save'[s].body = save[s].body /\ save'[s].at = "sync dir"
        /\ \A t \in Savers \ {s} : save'[t] = save[t]
    BY DEF Renames, Goes, FileInv, FileTypeOK
  <1>5. Asked' = [Asked EXCEPT ![s] = [wants |-> save[s].body, taken |-> TRUE]]
    BY <1>4, AskedChanges
  <1> QED
    BY <1>1, <1>3, <1>5, SaversAsk DEF Store!Take, Asked, Lasting

LEMMA EndOfSaveAnswers ==
    ASSUME FileInv, NEW s \in Savers, Returns(s) \/ Fails(s)
    PROVE  Store!Answer(s)
  <1>1. ~At(s, "idle") /\ save' = [save EXCEPT ![s] = Idle] /\ UNCHANGED file
    BY DEF Returns, Fails, At
  <1>2. /\ save'[s].body = Nothing /\ save'[s].at # "sync dir"
        /\ \A t \in Savers \ {s} : save'[t] = save[t]
    BY <1>1 DEF FileInv, FileTypeOK, Idle
  <1>3. Asked' = [Asked EXCEPT ![s] = Store!NotSaving]
    BY <1>2, AskedChanges DEF Store!NotSaving
  <1>4. \/ Lasting' = Lasting
        \/ save[s].at = "sync dir" /\ Lasting' = {file.holds}
    <2>1. kept' = kept \/ (save[s].at = "sync dir" /\ kept' = {file})
      BY DEF Returns, Fails, At
    <2> QED
      BY <2>1 DEF Lasting
  <1>5. Lasting' \in {Lasting} \cup (IF Asked[s].taken THEN {{file.holds}} ELSE {})
    BY <1>1, <1>4, SaversAsk
  <1> QED
    BY <1>1, <1>3, <1>5, SaversAsk DEF Store!Answer, Asked, Lasting

LEMMA AllIdleAskNothing ==
    ASSUME save' = [s \in Savers |-> Idle]
    PROVE  Asked' = [s \in Savers |-> Store!NotSaving]
  BY DEF Asked, Idle, Store!NotSaving

LEMMA StepStores ==
    ASSUME FileInv, [FileNext]_fileVars
    PROVE  [Store!StoreNext]_Store!storeVars
  <1>1. CASE UNCHANGED fileVars
    BY <1>1 DEF fileVars, Store!storeVars
  <1>2. ASSUME NEW s \in Savers, SaveStep(s)
        PROVE  [Store!StoreNext]_Store!storeVars
    <2>1. CASE NamesTemp(s) \/ Creates(s) \/ Writes(s) \/ Syncs(s)
      BY <2>1, QuietSteps DEF Store!storeVars, Asked
    <2>2. CASE Save(s) \/ Renames(s) \/ Returns(s) \/ Fails(s)
      BY <2>2, SaveAsks, RenameTakes, EndOfSaveAnswers DEF Store!StoreNext
    <2> QED
      BY <1>2, <2>1, <2>2 DEF SaveStep
  <1>3. CASE Edits
    <2>1. PICK c \in Contents : file' = [holds |-> c, synced |-> TRUE]
      BY <1>3 DEF Edits
    <2>2. file'.holds \in Contents /\ Lasting' = Lasting \cup {file'.holds}
      BY <1>3, <2>1 DEF Edits, Lasting
    <2> QED
      BY <1>3, <2>2 DEF Edits, Store!StoreNext, Store!EditValue, Lasting
  <1>4. CASE ProcessDies
    BY <1>4, AllIdleAskNothing DEF ProcessDies, Store!StoreNext, Store!Abandon, Asked
  <1>5. CASE PowerFails
    <2>1. file'.holds \in Lasting /\ Lasting' = {file'.holds}
      BY <1>5, PowerFailsKeeps DEF PowerFails, Lasting
    <2> QED
      BY <1>5, <2>1, AllIdleAskNothing DEF PowerFails, Store!StoreNext, Store!Fall, Asked, Lasting
  <1> QED
    BY <1>1, <1>2, <1>3, <1>4, <1>5 DEF FileNext

\* For any number of savers and configurations: a reader of the file finds a whole
\* configuration that somebody put there, a save that reports failure has changed nothing,
\* one that reports success has taken effect, and a power cut brings back only what had
\* been saved whole (config.rs:522-525, 539-541, 549-550).
THEOREM SavesImplementStore == FileSpec => SavesAreAtomic
  <1>1. FileInv /\ [FileNext]_fileVars => [Store!StoreNext]_Store!storeVars
    BY StepStores
  <1> QED
    BY <1>1, InitStore, TemporariesAreOwn, PTL DEF FileSpec, SavesAreAtomic, Store!StoreSpec

(***************************************************************************)
(* A start is accountable.                                                 *)
(***************************************************************************)
\* How far a start is once it has read a file it can go on with.
Started == {"discover", "connect", "serving"}

\* What was read decides how far a start comes, and what it may run.
StartInv ==
    /\ seen \in Contents \cup {Nothing}
    /\ at = "misconfigured" => Load(seen) \in ConfigErrors
    /\ at \in Started => Load(seen) = "ok"
    /\ at \notin {"connect", "serving"} => rclone = "none"
    /\ rclone # "none" =>
          /\ Load(seen) = "ok"
          /\ IF Config.rclone_path = "none" THEN rclone # "." ELSE rclone = Config.rclone_path

\* What loads is a configuration that validate takes, the one of a missing file included.
LEMMA LoadedIsValid ==
    ASSUME seen \in Contents \cup {Nothing}, Load(seen) = "ok"
    PROVE  Validate(Config) /\ Config.rclone_path \in {c.rclone_path : c \in {Default} \cup Configs}
  <1>1. CASE seen = Nothing
    <2>1. Config = Default
      BY <1>1 DEF Config
    <2>2. Default.rclone_path = "none" /\ Default.mounts = <<>>
      BY DEF Default
    <2>3. {Default.active_secs, Default.idle_secs} \subseteq 1..MAX_POLL_SECS
      BY DEF Default, MAX_POLL_SECS
    <2>4. \A i \in DOMAIN Default.mounts : FALSE
      BY <2>2
    <2>5. Validate(Default)
      BY <2>2, <2>3, <2>4 DEF Validate, Apart
    <2> QED
      BY <2>1, <2>5
  <1>2. CASE seen # Nothing
    <2>1. Config = seen.config
      BY <1>2 DEF Config
    <2>2. Validate(seen.config)
      BY <1>2 DEF Load
    <2>3. seen.config \in Configs
      BY <1>2, ServiceAssumption
    <2> QED
      BY <2>1, <2>2, <2>3
  <1> QED
    BY <1>1, <1>2

\* What this program saves, it reads.
LEMMA AcceptedLoads ==
    ASSUME NEW body \in Accepted
    PROVE  Load(body) = "ok"
  <1>1. PICK config \in Configs : body = WrittenAs(config) /\ Validate(config)
    BY ServiceAssumption
  <1>2. body.toml /\ body.known /\ body.config = config /\ body.version = CURRENT_VERSION
    BY <1>1 DEF WrittenAs
  <1>3. body # Nothing /\ body # Torn
    OBVIOUS
  <1>4. ~(body.version > CURRENT_VERSION)
    BY <1>2 DEF CURRENT_VERSION
  <1> QED
    BY <1>1, <1>2, <1>3, <1>4 DEF Load

LEMMA FirstIsOne ==
    ASSUME NEW places \in SUBSET Nat, places # {}
    PROVE  FirstOf(places) \in places
  <1>1. PICK i \in places : \A j \in places : ~(<<j, i>> \in OpToRel(<, Nat))
    BY NatLessThanWellFounded, WFMin
  <1>2. \A j \in places : i <= j
    <2> TAKE j \in places
    <2>1. i \in Nat /\ j \in Nat
      OBVIOUS
    <2>2. ~(j < i)
      BY <1>1, <2>1 DEF OpToRel
    <2> QED
      BY <2>1, <2>2
  <1> QED
    BY <1>2 DEF FirstOf

\* What is found is what was asked for, or lies on an absolute path.
LEMMA FoundWhereAsked ==
    ASSUME NEW override, NEW PATH \in PATHs, NEW installed,
           Discover(override, PATH, FALLBACK_PATHS, installed).ok
    PROVE  LET found == Discover(override, PATH, FALLBACK_PATHS, installed).path
           IN  IF override = "none" THEN found # "." ELSE found = override
  <1> DEFINE all == PATH \o FALLBACK_PATHS
             candidates == Candidates(all, installed)
             usable == {i \in candidates : Probe(all[i], installed).ok}
             tried == FirstOf(IF usable = {} THEN candidates ELSE usable)
  <1>1. ASSUME NEW path, Probe(path, installed).ok
        PROVE  Probe(path, installed).path = path
    BY <1>1 DEF Probe, Found, Failed
  <1>2. CASE override # "none"
    BY <1>1, <1>2 DEF Discover
  <1>3. CASE override = "none"
    <2>1. candidates # {} /\ Discover(override, PATH, FALLBACK_PATHS, installed) =
                                 Probe(all[tried], installed)
      BY <1>3 DEF Discover, Failed
    <2>2. all \in Seq(STRING)
      BY ServiceAssumption
    <2>3. candidates \in SUBSET Nat
      BY <2>2 DEF Candidates
    <2>4. tried \in candidates
      BY <2>1, <2>3, FirstIsOne
    <2>5. all[tried] # "."
      BY <2>4 DEF Candidates, Absolute
    <2>6. Discover(override, PATH, FALLBACK_PATHS, installed).path = all[tried]
      <3> HIDE DEF all, candidates, tried
      <3> QED
        BY <1>1, <2>1
    <2> HIDE DEF all, candidates, tried
    <2> QED
      BY <1>3, <2>5, <2>6
  <1> QED
    BY <1>2, <1>3

\* Whatever the service does, its file changes as the file alone does.
LEMMA ServiceMovesFile ==
    ASSUME [ServiceNext]_serviceVars
    PROVE  [FileNext]_fileVars
  <1>1. CASE UNCHANGED serviceVars
    BY <1>1 DEF serviceVars
  <1>2. CASE Loads \/ Discovers \/ Connects
    BY <1>2 DEF Loads, Discovers, Connects, Reaches, Refuses, fileVars
  <1>3. CASE Saves \/ UserEdits
    BY <1>3 DEF Saves, UserEdits, FileNext
  <1>4. CASE Ends \/ LosesPower
    BY <1>4 DEF Ends, LosesPower, FileNext
  <1> QED
    BY <1>1, <1>2, <1>3, <1>4 DEF ServiceNext

LEMMA NextKeepsStartInv ==
    ASSUME FileInv, StartInv, [ServiceNext]_serviceVars
    PROVE  StartInv'
  <1>1. CASE Forgets
    <2>1. Load(Nothing) = "ok"
      BY DEF Load
    <2> QED
      BY <1>1 DEF Forgets, StartInv, Started
  <1>2. CASE UNCHANGED <<at, seen, rclone>>
    BY <1>2 DEF StartInv, Started, Config, Load
  <1>3. CASE Loads
    <2>1. CASE Refuses
      BY <1>1, <2>1 DEF Refuses
    <2>2. CASE ~Refuses
      <3>1. /\ seen' = file.holds /\ rclone' = rclone
            /\ \/ Load(seen') \in ConfigErrors /\ at' = "misconfigured"
               \/ Load(seen') = "ok" /\ at' = "discover"
        BY <1>3, <2>2 DEF Loads, Reaches
      <3>2. file.holds \in Contents \cup {Nothing}
        BY DEF FileInv, FileTypeOK, Whole, NoFile
      <3>3. rclone = "none"
        BY <1>3 DEF Loads, StartInv
      <3> QED
        BY <3>1, <3>2, <3>3 DEF StartInv, Started
    <2> QED
      BY <2>1, <2>2
  <1>4. CASE Discovers
    <2>1. CASE Refuses
      BY <1>1, <2>1 DEF Refuses
    <2>2. CASE ~Refuses
      <3>1. at = "discover" /\ Load(seen) = "ok"
        BY <1>4 DEF Discovers, StartInv, Started
      <3>2. PICK found \in Findings[Config.rclone_path] :
                found.ok /\ rclone' = found.path /\ at' = "connect" /\ seen' = seen
        BY <1>4, <2>2 DEF Discovers, Reaches
      <3>3. Config.rclone_path \in {c.rclone_path : c \in {Default} \cup Configs}
        BY <3>1, LoadedIsValid DEF StartInv
      <3>4. PICK PATH \in PATHs, installed \in Installations :
                found = Discover(Config.rclone_path, PATH, FALLBACK_PATHS, installed)
        BY <3>2, <3>3 DEF Findings
      <3>5. IF Config.rclone_path = "none" THEN rclone' # "." ELSE rclone' = Config.rclone_path
        BY <3>2, <3>4, FoundWhereAsked
      <3> QED
        BY <3>1, <3>2, <3>5 DEF StartInv, Started, Config, Load
    <2> QED
      BY <2>1, <2>2
  <1>5. CASE Connects
    BY <1>1, <1>5 DEF Connects, Refuses, Reaches, StartInv, Started, Config, Load
  <1> QED
    BY <1>1, <1>2, <1>3, <1>4, <1>5
       DEF ServiceNext, serviceVars, Saves, UserEdits, Ends, LosesPower

LEMMA InitStartInv == ServiceInit => FileInv /\ StartInv
  BY InitFileInv DEF ServiceInit, StartInv, Started

LEMMA ServiceKeepsInvs == ServiceSpec => [](FileInv /\ StartInv)
  <1>1. FileInv /\ StartInv /\ [ServiceNext]_serviceVars => FileInv' /\ StartInv'
    BY ServiceMovesFile, NextKeepsFileInv, NextKeepsStartInv
  <1> QED
    BY <1>1, InitStartInv, PTL DEF ServiceSpec

\* Whatever a user writes and however saves end, a start is refused over the file only for
\* something that was written by hand; the rclone that one runs is the one it was told to,
\* or lies on an absolute path (config.rs:524-525, rclone.rs:126, 168-171).
THEOREM StartsAccount == ServiceSpec => []StartsAreAccountable
  <1>1. StartInv => StartsAreAccountable
    <2>1. ASSUME StartInv, at = "misconfigured" PROVE seen \in Contents \ Accepted
      <3>1. Load(seen) # "ok"
        BY <2>1 DEF StartInv, ConfigErrors
      <3>2. seen # Nothing
        BY <3>1 DEF Load
      <3> QED
        BY <2>1, <3>1, <3>2, AcceptedLoads DEF StartInv
    <2>2. ASSUME StartInv, rclone # "none" PROVE Validate(Config)
      BY <2>2, LoadedIsValid DEF StartInv
    <2> QED
      BY <2>1, <2>2 DEF StartInv, StartsAreAccountable
  <1> QED
    BY <1>1, ServiceKeepsInvs, PTL

\* The file stays an atomic store in the hands of the whole service, which saves only while
\* it serves, and is stopped and started over it (config.rs:522-525, 539-541, 549-550).
THEOREM ServiceSavesAtomically == ServiceSpec => SavesAreAtomic
  <1>1. FileInv /\ [ServiceNext]_serviceVars => [Store!StoreNext]_Store!storeVars
    BY ServiceMovesFile, StepStores
  <1>2. ServiceInit => Store!StoreInit
    BY InitStore DEF ServiceInit
  <1> QED
    BY <1>1, <1>2, ServiceKeepsInvs, PTL DEF ServiceSpec, SavesAreAtomic, Store!StoreSpec

(***************************************************************************)
(* Texts.  Every character that the model spells is a string, which the    *)
(* provers have to be told.                                                *)
(***************************************************************************)
Characters ==
    STRING \cup {"%", "2", "F", "5", "/", ".", "-", "_", ":", "\\", "0", "1", "3", "4", " ", "\n", "\t"}
           \cup {"36", "35", "98:0", "rw,noatime", "shared:1", "rw,user_id=1000", "fuse.rclone", "fuse"}
           \cup {"another byte", "/home", "junk", "rclone", "socket", UNIT_PREFIX, ".service"}
           \cup {"k", "K", "G", "i", "I", "b", "B", "a", "", "writes", "unset", "config"}

LEMMA TextsAreOfCharacters ==
    ASSUME NEW text \in Seq(STRING)
    PROVE  text \in Seq(Characters)
  <1>1. STRING \subseteq Characters
    BY Zenon DEF Characters
  <1> QED
    BY <1>1, SeqGrows

LEMMA StringsAreCharacters == STRING \subseteq Characters /\ Seq(STRING) \subseteq Seq(Characters)
  <1>1. STRING \subseteq Characters
    BY Zenon DEF Characters
  <1> QED
    BY <1>1, TextsAreOfCharacters

LEMMA ThreeAreASequence ==
    ASSUME NEW S, NEW a \in S, NEW b \in S, NEW c \in S
    PROVE  /\ <<a, b, c>> \in Seq(S) /\ Len(<<a, b, c>>) = 3 /\ <<a, b, c>> # <<>>
           /\ <<a, b, c>>[1] = a /\ <<a, b, c>>[2] = b /\ <<a, b, c>>[3] = c
  OBVIOUS

LEMMA FrontOfConcat ==
    ASSUME NEW S, NEW s \in Seq(S), NEW t \in Seq(S), NEW i \in 1..Len(s)
    PROVE  (s \o t)[i] = s[i]
  BY ConcatProperties

(***************************************************************************)
(* Names.                                                                  *)
(***************************************************************************)
\* RcClient::socket_file_name, one character of it.
Escaped == [c \in Characters |-> CASE c = "/" -> <<"%", "2", "F">>
                                   [] c = "%" -> <<"%", "2", "5">>
                                   [] OTHER -> <<c>>]

LEMMA SocketNameSpreads ==
    ASSUME NEW name \in Seq(Characters)
    PROVE  SocketName(name) = Spread(name, Escaped)
  <1>1. \A i \in DOMAIN name : name[i] \in Characters
    BY ElementOfSeq
  <1> QED
    BY <1>1 DEF SocketName, Spread, Escaped

LEMMA EscapedTells == Tells(Escaped, Characters, Characters)
  <1>1. ASSUME NEW c \in Characters
        PROVE  /\ Escaped[c] \in Seq(Characters) /\ Escaped[c] # <<>>
               /\ 1 \in 1..Len(Escaped[c]) /\ Escaped[c][1] = IF c \in {"/", "%"} THEN "%" ELSE c
               /\ c \in {"/", "%"} => /\ 3 \in 1..Len(Escaped[c])
                                      /\ Escaped[c][3] = IF c = "/" THEN "F" ELSE "5"
    <2>1. "%" \in Characters /\ "2" \in Characters /\ "F" \in Characters /\ "5" \in Characters
      BY Zenon DEF Characters
    <2>2. CASE c = "/"
      <3>1. Escaped[c] = <<"%", "2", "F">>
        BY <2>2 DEF Escaped
      <3> QED
        BY <2>1, <2>2, <3>1, ThreeAreASequence
    <2>3. CASE c = "%"
      <3>1. Escaped[c] = <<"%", "2", "5">>
        BY <2>3 DEF Escaped
      <3> QED
        BY <2>1, <2>3, <3>1, ThreeAreASequence
    <2>4. CASE c \notin {"/", "%"}
      <3>1. Escaped[c] = <<c>>
        BY <2>4 DEF Escaped
      <3> QED
        BY <2>4, <3>1, OneIsASequence
    <2> QED
      BY <2>2, <2>3, <2>4
  <1>2. Spells(Escaped, Characters, Characters)
    BY <1>1 DEF Spells, Escaped
  <1>3. ASSUME NEW c \in Characters, NEW d \in Characters,
               NEW a \in Seq(Characters), NEW b \in Seq(Characters),
               Escaped[c] \o a = Escaped[d] \o b
        PROVE  c = d
    <2>1. Escaped[c] \in Seq(Characters) /\ Escaped[d] \in Seq(Characters)
      BY <1>1
    <2>2. Escaped[c][1] = Escaped[d][1]
      BY <1>1, <1>3, <2>1, FrontOfConcat
    <2>3. 3 \in 1..Len(Escaped[c]) /\ 3 \in 1..Len(Escaped[d]) => Escaped[c][3] = Escaped[d][3]
      BY <1>3, <2>1, FrontOfConcat
    <2> QED
      BY <1>1, <2>2, <2>3
  <1> QED
    BY <1>1, <1>2, <1>3 DEF Tells

LEMMA SocketNamesTell ==
    ASSUME NEW a \in Seq(Characters), NEW b \in Seq(Characters), SocketName(a) = SocketName(b)
    PROVE  a = b
  BY SocketNameSpreads, EscapedTells, SpreadTells

\* One at either end.
LEMMA Wrapped ==
    ASSUME NEW S, NEW a \in S, NEW s \in Seq(S), NEW b \in S
    PROVE  LET w == <<a>> \o s \o <<b>>
           IN  /\ w \in Seq(S) /\ Len(w) = Len(s) + 2 /\ Len(s) \in Nat
               /\ w[1] = a /\ w[Len(s) + 2] = b
               /\ \A i \in 1..Len(s) : w[i + 1] = s[i]
  <1>1. /\ <<a>> \in Seq(S) /\ <<b>> \in Seq(S)
        /\ Len(<<a>>) = 1 /\ Len(<<b>>) = 1 /\ <<a>>[1] = a /\ <<b>>[1] = b
    OBVIOUS
  <1> DEFINE most == <<a>> \o s
  <1>2. /\ most \in Seq(S) /\ Len(most) = Len(s) + 1 /\ most[1] = a
        /\ \A i \in 1..Len(s) : most[i + 1] = s[i]
    BY LedBy
  <1> HIDE DEF most
  <1>3. /\ most \o <<b>> \in Seq(S) /\ Len(most \o <<b>>) = Len(s) + 2
        /\ \A i \in 1..(Len(s) + 1) : (most \o <<b>>)[i] = most[i]
        /\ (most \o <<b>>)[Len(s) + 2] = b
    BY <1>1, <1>2, ConcatProperties
  <1> QED
    BY <1>2, <1>3 DEF most

LEMMA NameOkLetters ==
    ASSUME NEW name \in Seq(Characters), NameOk(name)
    PROVE  /\ name # <<>>
           /\ \A i \in DOMAIN name : name[i] \in Alphanumeric \cup {"-", "_", "."}
  BY Zenon DEF NameOk, ToSet

LEMMA UnitNameWraps ==
    ASSUME NEW name \in Seq(Characters), NameOk(name)
    PROVE  /\ UnitName(name) = <<UNIT_PREFIX>> \o name \o <<".service">>
           /\ UnitName(name) \in Seq(Characters)
           /\ Len(UnitName(name)) = Len(name) + 2 /\ Len(name) \in Nat \ {0}
           /\ UnitName(name)[1] = UNIT_PREFIX /\ UnitName(name)[Len(name) + 2] = ".service"
           /\ \A i \in 1..Len(name) : UnitName(name)[i + 1] = name[i]
  <1> DEFINE inner == [i \in DOMAIN name |->
                          IF name[i] \in Alphanumeric \cup {"_", "."} THEN name[i] ELSE "-"]
  <1>1. \A i \in DOMAIN name : inner[i] = name[i]
    BY NameOkLetters, Zenon
  <1>2. name = [i \in DOMAIN name |-> name[i]]
    OBVIOUS
  <1>3. inner = name
    BY <1>1, <1>2, Zenon
  <1>4. UnitName(name) = <<UNIT_PREFIX>> \o name \o <<".service">>
    BY <1>3, Zenon DEF UnitName
  <1> DEFINE suffix == ".service"
  <1>5. UNIT_PREFIX \in Characters /\ suffix \in Characters
    BY Zenon DEF Characters
  <1>6. UnitName(name) = <<UNIT_PREFIX>> \o name \o <<suffix>>
    BY <1>4
  <1>7. Len(name) \in Nat \ {0}
    BY NameOkLetters, EmptySeq
  <1> HIDE DEF inner, suffix
  <1> DEFINE w == <<UNIT_PREFIX>> \o name \o <<suffix>>
  <1>8. /\ w \in Seq(Characters) /\ Len(w) = Len(name) + 2
        /\ w[1] = UNIT_PREFIX /\ w[Len(name) + 2] = suffix
        /\ \A i \in 1..Len(name) : w[i + 1] = name[i]
    BY <1>5, Wrapped
  <1> HIDE DEF w
  <1>9. UnitName(name) = w
    BY <1>6 DEF w
  <1> QED
    BY <1>4, <1>7, <1>8, <1>9 DEF suffix

LEMMA NamesApart == NamesStayApart
  <1> SUFFICES ASSUME NEW a \in Spellings.names, NEW b \in Spellings.names, a # b
               PROVE  /\ SocketName(a) # SocketName(b)
                      /\ NameOk(a) /\ NameOk(b) => UnitName(a) # UnitName(b)
    BY DEF NamesStayApart
  <1>1. a \in Seq(Characters) /\ b \in Seq(Characters)
    BY SpellingsAssumption, TextsAreOfCharacters
  <1>2. SocketName(a) # SocketName(b)
    BY <1>1, SocketNamesTell
  <1>3. ASSUME NameOk(a), NameOk(b), UnitName(a) = UnitName(b) PROVE FALSE
    <2>1. Len(a) = Len(b)
      BY <1>1, <1>3, UnitNameWraps
    <2>2. \A i \in 1..Len(a) : a[i] = b[i]
      BY <1>1, <1>3, <2>1, UnitNameWraps
    <2> QED
      BY <1>1, <2>1, <2>2, SeqEqual
  <1> QED
    BY <1>2, <1>3

(***************************************************************************)
(* Log filters.                                                            *)
(***************************************************************************)
LEMMA TrimKeeps ==
    ASSUME NEW X, NEW word \in [is : X, padded : BOOLEAN]
    PROVE  Trim(word).is = word.is /\ ~Trim(word).padded
  BY DEF Trim

LEMMA Unpadded ==
    ASSUME NEW x
    PROVE  LET word == [is |-> x, padded |-> FALSE] IN word.is = x /\ ~word.padded
  OBVIOUS

LEMMA LossesAreAskedFor == LossIsAskedFor
  <1> SUFFICES ASSUME NEW flag \in LogWords, NEW RUST_LOG \in LogWords,
                      FlagOk(flag), Loses(LogFilter(flag, RUST_LOG))
               PROVE  IF flag.is = "not set" THEN RUST_LOG.is \in {"off", "unmatched"}
                      ELSE flag.is = "off"
    BY Zenon DEF LossIsAskedFor
  <1>1. ASSUME NEW word \in LogWords, Loses(Trim(word))
        PROVE  word.is \in {"off", "unmatched", "nothing"}
    <2>1. Trim(word).is = word.is /\ ~Trim(word).padded
      BY TrimKeeps, Zenon DEF LogWords
    <2> QED
      BY <1>1, <2>1, Zenon DEF Loses
  <1>2. CASE flag.is # "not set"
    <2>1. Loses(Trim(flag))
      BY <1>2, Zenon DEF LogFilter
    <2>2. flag.is \in {"off", "unmatched", "nothing"}
      BY <1>1, <2>1
    <2>3. flag.is \in {"a level", "off"}
      BY <1>2, Zenon DEF FlagOk
    <2> QED
      BY <1>2, <2>2, <2>3, Zenon
  <1>3. CASE flag.is = "not set" /\ RUST_LOG.is \notin {"nothing", "not set"}
    <2>1. Loses(Trim(RUST_LOG))
      BY <1>3, Zenon DEF LogFilter
    <2>2. RUST_LOG.is \in {"off", "unmatched", "nothing"}
      BY <1>1, <2>1
    <2> QED
      BY <1>3, <2>2, Zenon
  <1>4. CASE flag.is = "not set" /\ RUST_LOG.is \in {"nothing", "not set"}
    <2>1. LogFilter(flag, RUST_LOG) = [is |-> "a level", padded |-> FALSE]
      BY <1>4, Zenon DEF LogFilter
    <2>2. LogFilter(flag, RUST_LOG).is = "a level" /\ ~LogFilter(flag, RUST_LOG).padded
      BY <2>1, Unpadded, Zenon
    <2> QED
      BY <2>2, Zenon DEF Loses
  <1> QED
    BY <1>2, <1>3, <1>4, Zenon

(***************************************************************************)
(* Sizes.                                                                  *)
(***************************************************************************)
\* What Without takes away.
LEMMA WithoutIs ==
    ASSUME NEW S, NEW letters, NEW unit \in Seq(S)
    PROVE  /\ Without(letters, unit) \in Seq(S)
           /\ \/ Without(letters, unit) = unit
              \/ \E e \in letters \cap S : unit = Append(Without(letters, unit), e)
  <1>1. CASE unit # <<>> /\ Last(unit) \in letters
    BY <1>1, FrontAndLast DEF Without
  <1> QED
    BY <1>1 DEF Without

LEMMA EndsWith ==
    ASSUME NEW S, NEW s, NEW t, NEW e, EndsIn(S, s, t, e)
    PROVE  /\ s \in Seq(S) /\ s # <<>> /\ Front(s) = t /\ Last(s) = e
  <1>1. s \in Seq(S) /\ s # <<>>
    BY AppendProperties, EmptySeq DEF EndsIn
  <1> QED
    BY <1>1, FrontAndLast DEF EndsIn

LEMMA WithoutOf ==
    ASSUME NEW S, NEW s, NEW t, NEW e, EndsIn(S, s, t, e), NEW letters
    PROVE  Without(letters, s) = IF e \in letters THEN t ELSE s
  BY EndsWith DEF Without

LEMMA AppendIs ==
    ASSUME NEW S, NEW s \in Seq(S), NEW e \in S, NEW t \in Seq(S), Len(t) = Len(s) + 1,
           \A i \in 1..Len(s) : t[i] = s[i], t[Len(s) + 1] = e
    PROVE  t = Append(s, e)
  <1>1. /\ Append(s, e) \in Seq(S) /\ Len(Append(s, e)) = Len(t)
        /\ \A i \in 1..Len(t) : Append(s, e)[i] = t[i]
    BY AppendProperties
  <1> QED
    BY <1>1, SeqEqual

LEMMA LongerLiterals ==
    ASSUME NEW a, NEW b, NEW c
    PROVE  /\ <<a>> = Append(<<>>, a) /\ <<a, b>> = Append(<<a>>, b)
           /\ <<a, b, c>> = Append(<<a, b>>, c)
  <1> DEFINE S == {a, b, c}
             one == <<a>>
             two == <<a, b>>
             three == <<a, b, c>>
  <1>1. one = Append(<<>>, a)
    OBVIOUS
  <1>2. /\ one \in Seq(S) /\ two \in Seq(S) /\ three \in Seq(S) /\ b \in S /\ c \in S
        /\ Len(two) = Len(one) + 1 /\ two[Len(one) + 1] = b
        /\ Len(three) = Len(two) + 1 /\ three[Len(two) + 1] = c
    OBVIOUS
  <1>3. (\A i \in 1..Len(one) : two[i] = one[i]) /\ (\A i \in 1..Len(two) : three[i] = two[i])
    OBVIOUS
  <1> HIDE DEF S, one, two, three
  <1>4. two = Append(one, b) /\ three = Append(two, c)
    BY <1>2, <1>3, AppendIs
  <1> QED
    BY <1>1, <1>4 DEF one, two, three

\* The units that rclone takes with a scale, over any letters.
TakenWith(scale, i, j, b, c) == {<<scale>>, <<scale, i>>, <<scale, j>>, <<scale, i, b>>, <<scale, i, c>>}

\* What size_suffix_ok takes, over any letters.
Judged(scale, i, is, bs, unit) ==
    LET unscaled == Without(bs, unit)
        scaled == IF unscaled # <<>> /\ Last(unscaled) = i THEN unscaled ELSE unit
    IN  Without(is, scaled) = <<scale>>

LEMMA TakenIsJudged ==
    ASSUME NEW S, NEW scale \in S, NEW i \in S, NEW j \in S, NEW b \in S, NEW c \in S,
           NEW is, NEW bs, is = {i, j}, bs = {b, c}, i # j, scale \notin is \cup bs, is \cap bs = {},
           NEW unit \in TakenWith(scale, i, j, b, c)
    PROVE  Judged(scale, i, is, bs, unit)
  <1> DEFINE one == <<scale>>
             two == <<scale, i>>
             three == <<scale, j>>
             ib == <<scale, i, b>>
             ic == <<scale, i, c>>
  <1>1. /\ one = Append(<<>>, scale) /\ two = Append(one, i) /\ three = Append(one, j)
        /\ ib = Append(two, b) /\ ic = Append(two, c)
    BY LongerLiterals
  <1>2. <<>> \in Seq(S)
    OBVIOUS
  <1>3. unit \in {one, two, three, ib, ic}
    BY Zenon DEF TakenWith
  <1>4. SUFFICES \A u \in {one, two, three, ib, ic} :
                     LET unscaled == Without(bs, u)
                         scaled == IF unscaled # <<>> /\ Last(unscaled) = i THEN unscaled ELSE u
                     IN  Without(is, scaled) = one
    BY <1>3, Zenon DEF Judged
  <1> HIDE DEF one, two, three, ib, ic
  <1>5. EndsIn(S, one, <<>>, scale)
    BY <1>1, <1>2 DEF EndsIn
  <1>6. one \in Seq(S) /\ one # <<>> /\ Last(one) = scale
    BY <1>5, EndsWith
  <1>7. EndsIn(S, two, one, i) /\ EndsIn(S, three, one, j)
    BY <1>1, <1>6 DEF EndsIn
  <1>8. two \in Seq(S) /\ two # <<>> /\ Last(two) = i /\ three # <<>> /\ Last(three) = j
    BY <1>7, EndsWith
  <1>9. EndsIn(S, ib, two, b) /\ EndsIn(S, ic, two, c)
    BY <1>1, <1>8 DEF EndsIn
  <1>10. /\ Without(bs, one) = one /\ Without(is, one) = one
         /\ Without(bs, two) = two /\ Without(is, two) = one
         /\ Without(bs, three) = three /\ Without(is, three) = one
         /\ Without(bs, ib) = two /\ Without(bs, ic) = two
    <2>1. /\ scale \notin bs /\ scale \notin is /\ i \notin bs /\ j \notin bs
          /\ i \in is /\ j \in is /\ b \in bs /\ c \in bs
      OBVIOUS
    <2>2. \A letters : Without(letters, one) = IF scale \in letters THEN <<>> ELSE one
      BY <1>5, WithoutOf
    <2>3. /\ \A letters : Without(letters, two) = IF i \in letters THEN one ELSE two
          /\ \A letters : Without(letters, three) = IF j \in letters THEN one ELSE three
      BY <1>7, WithoutOf
    <2>4. /\ \A letters : Without(letters, ib) = IF b \in letters THEN two ELSE ib
          /\ \A letters : Without(letters, ic) = IF c \in letters THEN two ELSE ic
      BY <1>9, WithoutOf
    <2> QED
      BY <2>1, <2>2, <2>3, <2>4, Zenon
  <1> QED
    BY <1>6, <1>8, <1>10

LEMMA JudgedIsTaken ==
    ASSUME NEW S, NEW scale \in S, NEW i \in S, NEW j \in S, NEW b \in S, NEW c \in S,
           NEW is, NEW bs, is = {i, j}, bs = {b, c}, i # j, scale \notin is \cup bs, is \cap bs = {},
           NEW unit \in Seq(S), Judged(scale, i, is, bs, unit)
    PROVE  unit \in TakenWith(scale, i, j, b, c)
  <1> DEFINE unscaled == Without(bs, unit)
             scaled == IF unscaled # <<>> /\ Last(unscaled) = i THEN unscaled ELSE unit
  <1>1. Without(is, scaled) = <<scale>>
    BY DEF Judged
  <1>2. /\ unscaled \in Seq(S)
        /\ unscaled = unit \/ unit = Append(unscaled, b) \/ unit = Append(unscaled, c)
    BY WithoutIs
  <1>3. scaled \in Seq(S) /\ <<>> \in Seq(S)
    BY <1>2
  <1> DEFINE one == <<scale>>
             two == <<scale, i>>
             three == <<scale, j>>
             ib == <<scale, i, b>>
             ic == <<scale, i, c>>
  <1>4. /\ one = Append(<<>>, scale) /\ two = Append(one, i) /\ three = Append(one, j)
        /\ ib = Append(two, b) /\ ic = Append(two, c)
    BY LongerLiterals
  <1>5. SUFFICES unit \in {one, two, three, ib, ic}
    BY Zenon DEF TakenWith
  <1>6. Without(is, scaled) = one
    BY <1>1
  <1> HIDE DEF one, two, three, ib, ic
  <1>7. scaled \in {one, two, three}
    <2> HIDE DEF scaled
    <2>1. scaled = one \/ \E e \in is \cap S : scaled = Append(one, e)
      BY <1>3, <1>6, WithoutIs
    <2> QED
      BY <1>4, <2>1
  <1>8. CASE scaled = unit
    BY <1>7, <1>8
  <1>9. CASE scaled # unit
    <2>1. scaled = unscaled /\ Last(unscaled) = i
      BY <1>9
    <2> HIDE DEF scaled, unscaled
    <2>2. EndsIn(S, one, <<>>, scale)
      BY <1>3, <1>4 DEF EndsIn
    <2>3. one \in Seq(S) /\ Last(one) = scale
      BY <2>2, EndsWith
    <2>4. EndsIn(S, three, one, j)
      BY <1>4, <2>3 DEF EndsIn
    <2>5. Last(three) = j
      BY <2>4, EndsWith
    <2>6. unscaled = two
      BY <1>7, <2>1, <2>3, <2>5
    <2> QED
      BY <1>2, <1>4, <2>6
  <1> QED
    BY <1>8, <1>9

LEMMA SizesAreJudgedAlike ==
    ASSUME NEW size \in Spellings.sizes, size.isNumber
    PROVE  SizeOk(size) <=> TakesSize(size)
  <1>1. size \in [sign : STRING, isNumber : BOOLEAN, unit : Seq(STRING)]
    BY SpellingsAssumption
  <1>2. size.unit \in Seq(Characters)
    BY <1>1, TextsAreOfCharacters
  <1>3. size # Empty
    <2>1. ~Empty.isNumber
      BY DEF Empty, Quantity
    <2> QED
      BY <2>1
  <1> DEFINE unit == size.unit
             is == {"i", "I"}
             bs == {"b", "B"}
  <1>4. SizeOk(size) <=> /\ size.sign \notin {"-", " "}
                         /\ \/ unit = <<>> \/ unit \in {<<"b">>, <<"B">>}
                            \/ \E scale \in Scales : Judged(scale, "i", is, bs, unit)
    BY <1>3, Zenon DEF SizeOk, Judged
  <1>5. TakesSize(size) <=> /\ size.sign \notin {"-", " "}
                            /\ \/ unit \in {<<>>, <<"b">>, <<"B">>}
                               \/ \E scale \in Scales : unit \in TakenWith(scale, "i", "I", "b", "B")
    BY Zenon DEF TakesSize, TakenWith
  <1>6. ASSUME NEW scale \in Scales
        PROVE  Judged(scale, "i", is, bs, unit) <=> unit \in TakenWith(scale, "i", "I", "b", "B")
    <2>1. /\ scale \in Characters /\ "i" \in Characters /\ "I" \in Characters
          /\ "b" \in Characters /\ "B" \in Characters
      BY Zenon DEF Scales, Characters
    <2>2. "i" # "I" /\ scale \notin is \cup bs /\ is \cap bs = {}
      BY DEF Scales
    <2> DEFINE i == "i"
               j == "I"
               b == "b"
               c == "B"
    <2>3. is = {i, j} /\ bs = {b, c}
      OBVIOUS
    <2> HIDE DEF is, bs, i, j, b, c
    <2>4. /\ i \in Characters /\ j \in Characters /\ b \in Characters /\ c \in Characters
          /\ i # j /\ scale \notin is \cup bs /\ is \cap bs = {}
      BY <2>1, <2>2, Zenon DEF i, j, b, c
    <2>5. Judged(scale, i, is, bs, unit) <=> unit \in TakenWith(scale, i, j, b, c)
      BY <1>2, <2>1, <2>3, <2>4, TakenIsJudged, JudgedIsTaken
    <2> QED
      BY <2>5, Zenon DEF i, j, b, c
  <1> QED
    BY <1>4, <1>5, <1>6, Zenon

(***************************************************************************)
(* Discovery.                                                              *)
(***************************************************************************)
LEMMA FirstIsLeast ==
    ASSUME NEW places \in SUBSET Nat, places # {}
    PROVE  FirstOf(places) \in places /\ \A j \in places : FirstOf(places) <= j
  BY SomeLeast DEF FirstOf

\* What asking a binary shows of where it is.
LEMMA ProbeTells ==
    ASSUME NEW path, NEW installed, installed[path] \in Binaries
    PROVE  /\ Probe(path, installed).ok \in BOOLEAN
           /\ Probe(path, installed).ok => /\ IsFile(path, installed)
                                           /\ Probe(path, installed).path = path
           /\ ~Probe(path, installed).ok => Probe(path, installed).error # "NotFound"
  <1>1. Found(path).ok = TRUE /\ Found(path).path = path
    BY DEF Found
  <1>2. \A error : Failed(error).ok = FALSE /\ Failed(error).error = error
    BY DEF Failed
  <1>3. installed[path].kind \in
            {"no file", "NotExecutable", "CommandFailed", "UnparsableVersion", "runs"}
    <2>1. \A X, Y : \A binary \in [kind : X] \cup [kind : {"runs"}, minor : Y] : binary.kind \in X \cup {"runs"}
      OBVIOUS
    <2> QED
      BY <2>1, Zenon DEF Binaries
  <1>4. CASE installed[path].kind = "runs"
    <2>1. Probe(path, installed) \in {Failed("TooOld"), Found(path)}
      BY <1>4, Zenon DEF Probe
    <2>2. IsFile(path, installed)
      BY <1>4, Zenon DEF IsFile
    <2>3. "TooOld" # "NotFound"
      OBVIOUS
    <2>4. CASE Probe(path, installed) = Failed("TooOld")
      BY <1>2, <2>3, <2>4, Zenon
    <2>5. CASE Probe(path, installed) = Found(path)
      BY <1>1, <2>2, <2>5, Zenon
    <2> QED
      BY <2>1, <2>4, <2>5
  <1>5. CASE installed[path].kind # "runs"
    <2>1. \/ Probe(path, installed) = Failed("NotExecutable")
          \/ Probe(path, installed) = Failed(installed[path].kind)
      BY <1>5, Zenon DEF Probe
    <2>2. installed[path].kind # "NotFound" /\ "NotExecutable" # "NotFound"
      BY <1>3, Zenon
    <2>3. PICK error : Probe(path, installed) = Failed(error) /\ error # "NotFound"
      BY <2>1, <2>2, Zenon
    <2> QED
      BY <1>2, <2>3, Zenon
  <1> QED
    BY <1>4, <1>5

LEMMA DiscoversHonestly == DiscoveryIsHonest
  <1> SUFFICES ASSUME NEW override \in {"none"} \cup ToSet(FALLBACK_PATHS), NEW PATH \in PATHs,
                      NEW installed \in Installations
               PROVE  LET found == Discover(override, PATH, FALLBACK_PATHS, installed)
                          places == IF override # "none" THEN {override}
                                    ELSE Absolute(ToSet(PATH \o FALLBACK_PATHS))
                      IN  /\ found.ok <=> \E place \in places : Probe(place, installed).ok
                          /\ found.ok => found.path \in places /\ Probe(found.path, installed).ok
                          /\ ~found.ok /\ found.error = "NotFound" =>
                                \A place \in places : ~IsFile(place, installed)
    BY Zenon DEF DiscoveryIsHonest
  <1> DEFINE found == Discover(override, PATH, FALLBACK_PATHS, installed)
             all == PATH \o FALLBACK_PATHS
             n == Len(all)
             candidates == Candidates(all, installed)
             usable == {i \in candidates : Probe(all[i], installed).ok}
             Ok(place) == Probe(place, installed).ok
  <1>1. CASE override # "none"
    <2>1. found = Probe(override, installed)
      BY <1>1 DEF Discover
    <2>2. installed[override] \in Binaries
      BY <1>1, InstallationsAssumption
    <2> HIDE DEF found
    <2>3. /\ found.ok \in BOOLEAN /\ found.ok = Ok(override)
          /\ found.ok => found.path = override
          /\ ~found.ok => found.error # "NotFound"
      BY <2>1, <2>2, ProbeTells
    <2> QED
      BY <1>1, <2>3, Zenon DEF found
  <1>2. CASE override = "none"
    <2> DEFINE places == Absolute(ToSet(all))
    <2>1. all \in Seq(STRING) /\ n \in Nat /\ DOMAIN all = 1..n
      BY ServiceAssumption, ConcatProperties
    <2>2. ASSUME NEW i \in 1..n PROVE installed[all[i]] \in Binaries
      <3>1. PATH \in Seq(STRING) /\ FALLBACK_PATHS \in Seq(STRING)
        BY ServiceAssumption
      <3>2. all[i] = IF i <= Len(PATH) THEN PATH[i] ELSE FALLBACK_PATHS[i - Len(PATH)]
        BY <3>1, ConcatProperties
      <3>3. n = Len(PATH) + Len(FALLBACK_PATHS)
        BY <3>1, ConcatProperties
      <3>4. all[i] \in ToSet(PATH) \cup ToSet(FALLBACK_PATHS)
        BY <3>1, <3>2, <3>3 DEF ToSet
      <3> QED
        BY <3>4, InstallationsAssumption
    <2>3. ASSUME NEW i \in 1..n
          PROVE  /\ Ok(all[i]) \in BOOLEAN
                 /\ Ok(all[i]) => IsFile(all[i], installed) /\ Probe(all[i], installed).path = all[i]
                 /\ ~Ok(all[i]) => Probe(all[i], installed).error # "NotFound"
      BY <2>2, ProbeTells
    <2>4. \A i \in candidates : i \in 1..n /\ all[i] \in places /\ IsFile(all[i], installed)
      BY <2>1 DEF Candidates, Absolute
    <2>5. ASSUME NEW place \in places, IsFile(place, installed)
          PROVE  \E i \in candidates : all[i] = place
      <3> DEFINE here == {i \in 1..n : all[i] = place}
      <3>1. here \in SUBSET Nat /\ here # {} /\ place # "."
        BY <2>1 DEF Absolute, ToSet
      <3>2. PICK i \in here : \A j \in here : i <= j
        <4> HIDE DEF here
        <4> QED
          BY <3>1, SomeLeast
      <3>3. \A j \in 1..(i - 1) : all[j] # all[i]
        BY <3>2
      <3>4. i \in candidates
        BY <2>1, <2>5, <3>1, <3>2, <3>3 DEF Candidates, Absolute
      <3> QED
        BY <3>2, <3>4
    <2>6. \A place \in places : \E i \in 1..n : all[i] = place
      BY <2>1 DEF Absolute, ToSet
    <2>7. found = IF candidates = {} THEN Failed("NotFound")
                  ELSE Probe(all[FirstOf(IF usable = {} THEN candidates ELSE usable)], installed)
      BY <1>2, Zenon DEF Discover
    <2>8. candidates \in SUBSET Nat
      BY <2>4
    <2> HIDE DEF found, all, n, candidates, places
    <2>9. CASE candidates = {}
      <3>1. ~found.ok /\ found.error = "NotFound"
        BY <2>7, <2>9 DEF Failed
      <3>2. \A place \in places : ~IsFile(place, installed)
        BY <2>5, <2>9
      <3>3. \A place \in places : ~Ok(place)
        BY <2>3, <2>6, <3>2
      <3> QED
        BY <1>2, <3>1, <3>2, <3>3 DEF found, places, all
    <2>10. CASE candidates # {} /\ usable = {}
      <3> DEFINE tried == FirstOf(candidates)
      <3>1. tried \in candidates
        BY <2>8, <2>10, FirstIsLeast
      <3>2. found = Probe(all[tried], installed)
        BY <2>7, <2>10
      <3> HIDE DEF tried
      <3>3. ~found.ok /\ found.error # "NotFound"
        BY <2>3, <2>4, <2>10, <3>1, <3>2
      <3>4. \A place \in places : ~Ok(place)
        BY <2>3, <2>5, <2>6, <2>10
      <3> QED
        BY <1>2, <3>3, <3>4 DEF found, places, all
    <2>11. CASE usable # {}
      <3> DEFINE tried == FirstOf(usable)
      <3>1. tried \in usable
        BY <2>8, <2>11, FirstIsLeast
      <3>2. candidates # {} /\ found = Probe(all[tried], installed)
        BY <2>7, <2>11
      <3> HIDE DEF tried
      <3>3. found.ok /\ found.path = all[tried] /\ all[tried] \in places /\ Ok(all[tried])
        BY <2>3, <2>4, <3>1, <3>2
      <3> QED
        BY <1>2, <3>3 DEF found, places, all
    <2> QED
      BY <2>9, <2>10, <2>11
  <1> QED
    BY <1>1, <1>2

(***************************************************************************)
(* Masks.                                                                  *)
(***************************************************************************)
LowStep(base) == [x \in Nat \X Nat |-> (x[1] * base + x[2]) % 512]

LEMMA LowIsFolded ==
    ASSUME NEW base \in Nat, NEW digits \in Seq(Nat)
    PROVE  /\ Acts(LowStep(base), Nat, Nat)
           /\ Folded(Nat, LowStep(base), 0, digits, Low(digits, base))
  <1> DEFINE n == Len(digits)
             G == LowStep(base)
             Step(bits, d) == (bits * base + d) % 512
             Folds(g) == g = [s \in SUBSET (1..n) |->
                                 IF s = {} THEN 0 ELSE Step(g[s \ {Max(s)}], digits[Max(s)])]
             iter == CHOOSE g : Folds(g)
  <1>1. \A bits, d \in Nat : Step(bits, d) \in Nat
    <2>1. \A bits, d \in Nat : bits * base + d \in Nat
      OBVIOUS
    <2>2. \A m \in Nat : m % 512 \in Nat
      OBVIOUS
    <2> QED
      BY <2>1, <2>2
  <1>2. \A bits, d \in Nat : G[<<bits, d>>] = Step(bits, d)
    BY DEF LowStep
  <1>3. Low(digits, base) = iter[1..n]
    <2>1. DOMAIN digits = 1..n
      OBVIOUS
    <2> QED
      BY <2>1 DEF Low, FoldLeft, MapThenFoldSet
  <1>4. G = [x \in Nat \X Nat |-> Step(x[1], x[2])]
    BY DEF LowStep
  <1> HIDE DEF Step, G
  <1>5. Acts(G, Nat, Nat)
    BY <1>1, <1>4 DEF Acts
  <1>6. PICK h : Iterator(Nat, G, 0, digits, h)
    BY <1>5, IteratorExists DEF HasIterator
  <1>7. ASSUME NEW s \in SUBSET (1..n)
        PROVE  h[s] = IF s = {} THEN 0 ELSE Step(h[s \ {Max(s)}], digits[Max(s)])
    <2>1. CASE s = {}
      BY <1>6, <2>1 DEF Iterator, Iterates
    <2>2. CASE s # {}
      <3>1. digits[Max(s)] \in Nat /\ s \ {Max(s)} \in SUBSET (1..n)
        BY <2>2, GreatestOf
      <3>2. h[s \ {Max(s)}] \in Nat
        BY <1>6, <3>1 DEF Iterator
      <3>3. h[s] = G[<<h[s \ {Max(s)}], digits[Max(s)]>>]
        BY <1>6, <2>2, <3>2 DEF Iterator, Iterates
      <3> QED
        BY <1>2, <2>2, <3>1, <3>2, <3>3
    <2> QED
      BY <2>1, <2>2
  <1>8. Folds(h)
    BY <1>6, <1>7 DEF Iterator
  <1>9. Folds(iter)
    BY <1>8
  <1> HIDE DEF iter
  <1>10. ASSUME NEW s \in SUBSET (1..n), s # {}, iter[s \ {Max(s)}] \in Nat
         PROVE  iter[s] = G[<<iter[s \ {Max(s)}], digits[Max(s)]>>]
    BY <1>2, <1>9, <1>10, GreatestOf
  <1>11. Iterates(Nat, G, 0, digits, iter)
    BY <1>9, <1>10 DEF Iterates
  <1>12. Folded(Nat, G, 0, digits, iter[1..n])
    BY <1>5, <1>11, IteratesFolds
  <1> QED
    BY <1>3, <1>5, <1>12 DEF G

LEMMA LowGrows ==
    ASSUME NEW base \in Nat, NEW digits \in Seq(Nat), NEW d \in Nat
    PROVE  /\ Low(<<>>, base) = 0
           /\ Low(digits, base) \in Nat
           /\ Low(Append(digits, d), base) = (Low(digits, base) * base + d) % 512
  <1> DEFINE G == LowStep(base)
             longer == Append(digits, d)
             none == <<>>
  <1>1. longer \in Seq(Nat) /\ none \in Seq(Nat)
    BY AppendProperties
  <1>2. Acts(G, Nat, Nat) /\ Folded(Nat, G, 0, digits, Low(digits, base))
    BY LowIsFolded
  <1>3. Folded(Nat, G, 0, longer, Low(longer, base)) /\ Folded(Nat, G, 0, none, Low(none, base))
    <2> HIDE DEF longer, none
    <2> QED
      BY <1>1, LowIsFolded
  <1>4. \A bits \in Nat : G[<<bits, d>>] = (bits * base + d) % 512
    BY DEF LowStep
  <1> HIDE DEF G
  <1>5. Low(none, base) = 0
    BY <1>3, FoldedNothing
  <1> DEFINE r == Low(digits, base)
             q == Low(longer, base)
  <1>6. Folded(Nat, G, 0, digits, r) /\ Folded(Nat, G, 0, longer, q)
    BY <1>2, <1>3
  <1>7. EndsIn(Nat, longer, digits, d)
    BY DEF EndsIn
  <1>8. r \in Nat /\ q = G[<<r, d>>]
    <2> HIDE DEF r, q, longer
    <2> QED
      BY <1>2, <1>6, <1>7, FoldedGrows
  <1> QED
    BY <1>4, <1>5, <1>8

LEMMA LowBehindZero ==
    ASSUME NEW base \in Nat, NEW digits \in Seq(Nat)
    PROVE  Low(<<0>> \o digits, base) = Low(digits, base)
  <1> DEFINE zero == <<0>>
             T == {t \in Seq(Nat) : Low(zero \o t, base) = Low(t, base)}
  <1>1. zero \in Seq(Nat) /\ <<>> \in Seq(Nat) /\ zero = Append(<<>>, 0) /\ zero \o <<>> = zero
    BY ConcatEmptySeq
  <1>2. Low(<<>>, base) = 0 /\ Low(zero, base) = (0 * base + 0) % 512
    <2> DEFINE none == <<>>
    <2>1. none \in Seq(Nat) /\ zero = Append(none, 0) /\ 0 \in Nat
      BY <1>1
    <2>2. Low(none, base) = 0
      BY <2>1, LowGrows
    <2> HIDE DEF none, zero
    <2>3. Low(Append(none, 0), base) = (Low(none, base) * base + 0) % 512
      BY <2>1, LowGrows
    <2> QED
      BY <2>1, <2>2, <2>3 DEF none
  <1>3. <<>> \in T
    <2>1. (0 * base + 0) % 512 = 0
      OBVIOUS
    <2> QED
      BY <1>1, <1>2, <2>1
  <1> HIDE DEF zero
  <1>4. ASSUME NEW t \in Seq(Nat), NEW d \in Nat, t \in T PROVE Append(t, d) \in T
    <2>1. zero \o Append(t, d) = Append(zero \o t, d) /\ zero \o t \in Seq(Nat)
      BY <1>1, ConcatAppend
    <2>2. Append(t, d) \in Seq(Nat)
      BY AppendProperties
    <2> DEFINE u == zero \o t
    <2>6. u \in Seq(Nat)
      BY <2>1
    <2> HIDE DEF u
    <2>3. Low(Append(u, d), base) = (Low(u, base) * base + d) % 512
      BY <2>6, LowGrows
    <2>4. Low(Append(t, d), base) = (Low(t, base) * base + d) % 512
      BY LowGrows
    <2>5. Low(u, base) = Low(t, base)
      BY <1>4 DEF u
    <2> QED
      BY <2>1, <2>2, <2>3, <2>4, <2>5 DEF u
  <1>5. \A t \in Seq(Nat) : t \in T
    <2> HIDE DEF T
    <2> QED
      BY <1>3, <1>4, SequenceInduction
  <1> QED
    BY <1>5 DEF zero

\* What is trimmed leads, and nothing else does.
LEMMA TrimmedFrom ==
    ASSUME NEW S, NEW s \in Seq(S), NEW leading
    PROVE  \E k \in 1..(Len(s) + 1) :
               /\ Trimmed(s, leading) = SubSeq(s, k, Len(s))
               /\ \A i \in 1..(k - 1) : s[i] = leading
               /\ k <= Len(s) => s[k] # leading
  <1> DEFINE n == Len(s)
             others == {i \in 1..n : s[i] # leading}
  <1>1. n \in Nat
    OBVIOUS
  <1>2. CASE others = {}
    <2>1. Trimmed(s, leading) = <<>>
      BY <1>2 DEF Trimmed, SelectInSeq
    <2>2. SubSeq(s, n + 1, n) = <<>>
      BY <1>1
    <2>3. \A i \in 1..n : s[i] = leading
      BY <1>2
    <2> QED
      BY <1>1, <2>1, <2>2, <2>3
  <1>3. CASE others # {}
    <2>1. Min(others) \in others /\ \A i \in others : Min(others) <= i
      <3>1. others \in SUBSET Nat
        OBVIOUS
      <3> HIDE DEF others
      <3> QED
        BY <1>3, <3>1, MinIsLeast
    <2>2. Min(others) \in 1..n /\ Min(others) # 0 /\ s[Min(others)] # leading
      BY <2>1
    <2>3. Trimmed(s, leading) = SubSeq(s, Min(others), n)
      BY <1>3, <2>2 DEF Trimmed, SelectInSeq
    <2> DEFINE k == Min(others)
    <2>4. ASSUME NEW i \in 1..(k - 1) PROVE s[i] = leading
      BY <2>1, <2>2
    <2>5. k \in 1..(n + 1) /\ s[k] # leading
      BY <2>2
    <2> HIDE DEF k
    <2> QED
      BY <2>3, <2>4, <2>5 DEF k
  <1> QED
    BY <1>2, <1>3

LEMMA SignificantKeeps ==
    ASSUME NEW base \in Nat, NEW digits \in Seq(Nat)
    PROVE  Significant(digits) \in Seq(Nat) /\ Low(Significant(digits), base) = Low(digits, base)
  <1> DEFINE n == Len(digits)
  <1>1. n \in Nat
    OBVIOUS
  <1>2. PICK k \in 1..(n + 1) : /\ Significant(digits) = SubSeq(digits, k, n)
                                /\ \A i \in 1..(k - 1) : digits[i] = 0
    BY TrimmedFrom DEF Significant
  <1> DEFINE T == {j \in 0..(k - 1) : Low(SubSeq(digits, j + 1, n), base) = Low(digits, base)}
  <1>3. \A j \in 1..(n + 1) : SubSeq(digits, j, n) \in Seq(Nat)
    OBVIOUS
  <1>4. 0 \in T
    <2>1. SubSeq(digits, 1, n) = digits /\ 0 \in 0..(k - 1) /\ 0 + 1 = 1
      BY <1>1, SubSeqFull
    <2> QED
      BY <2>1
  <1>5. ASSUME NEW j \in 0..((k - 1) - 1), j \in T PROVE j + 1 \in T
    <2>1. j \in Nat /\ j + 1 \in 1..(k - 1) /\ j + 1 \in 1..n
      BY <1>1
    <2> DEFINE long == SubSeq(digits, j + 1, n)
               short == SubSeq(digits, (j + 1) + 1, n)
    <2>2. /\ long \in Seq(Nat) /\ short \in Seq(Nat)
          /\ Len(long) = n - j /\ Len(short) = n - (j + 1)
          /\ long[1] = 0 /\ \A i \in 1..(n - (j + 1)) : long[i + 1] = short[i]
      BY <1>2, <2>1
    <2> HIDE DEF long, short
    <2>3. long = <<0>> \o short
      <3>1. /\ <<0>> \o short \in Seq(Nat) /\ Len(<<0>> \o short) = n - j
            /\ (<<0>> \o short)[1] = 0
            /\ \A i \in 1..(n - (j + 1)) : (<<0>> \o short)[i + 1] = short[i]
        BY <1>1, <2>1, <2>2, LedBy
      <3>2. \A i \in 1..(n - j) : i = 1 \/ (i - 1 \in 1..(n - (j + 1)) /\ i = (i - 1) + 1)
        BY <2>1
      <3>3. \A i \in 1..(n - j) : long[i] = (<<0>> \o short)[i]
        BY <2>2, <3>1, <3>2
      <3> QED
        BY <2>2, <3>1, <3>3, SeqEqual
    <2>4. Low(long, base) = Low(short, base)
      BY <2>2, <2>3, LowBehindZero
    <2> QED
      BY <1>5, <2>1, <2>4 DEF long, short
  <1>6. \A j \in 0..(k - 1) : j \in T
    <2>1. k - 1 \in Nat
      OBVIOUS
    <2> HIDE DEF T
    <2> QED
      BY <1>4, <1>5, <2>1, Induction
  <1>7. k - 1 \in T /\ (k - 1) + 1 = k
    BY <1>6
  <1> QED
    BY <1>2, <1>3, <1>7

(***************************************************************************)
(* What rclone makes of a command line, word by word.                      *)
(***************************************************************************)
NoFlag == ""

UmaskFlag == "--umask"

UmaskWith == "--umask="

OtherFlag == "--option"

Flags ==
    STRING \cup {NoFlag, OtherFlag, UmaskFlag, UmaskWith, "mount", "--vfs-cache-mode", "--vfs-cache-max-size",
                 "--vfs-cache-max-age", "--uid", "--gid"}
           \cup Switches \cup RcFlags

Givens == Seq(Characters \cup Nat)

Words == [flag : Flags, given : Givens]

Readings == [awaits : Flags, ok : BOOLEAN, umask : Givens]

NothingRead == [awaits |-> NoFlag, ok |-> TRUE, umask |-> <<>>]

ReadStep(reading, word) ==
    IF reading.awaits = UmaskFlag
    THEN [awaits |-> NoFlag, umask |-> word.given, ok |-> reading.ok /\ word.flag = NoFlag]
    ELSE IF reading.awaits # NoFlag THEN [reading EXCEPT !.awaits = NoFlag]
    ELSE CASE word.flag = UmaskWith -> [reading EXCEPT !.umask = word.given]
           [] word.flag = NoFlag -> [reading EXCEPT !.ok = FALSE]
           [] word.flag \in Switches -> reading
           [] OTHER -> [reading EXCEPT !.awaits = word.flag]

LEMMA FlagsDiffer ==
    /\ NoFlag # UmaskFlag /\ NoFlag # UmaskWith /\ UmaskFlag # UmaskWith
    /\ OtherFlag # NoFlag /\ OtherFlag # UmaskFlag /\ OtherFlag # UmaskWith
    /\ NoFlag \notin Switches /\ UmaskFlag \notin Switches /\ UmaskWith \notin Switches
    /\ OtherFlag \notin Switches
    /\ NoFlag \in Flags /\ UmaskFlag \in Flags /\ UmaskWith \in Flags /\ OtherFlag \in Flags
    /\ Switches \subseteq Flags
  BY Zenon DEF NoFlag, UmaskFlag, UmaskWith, OtherFlag, Switches, Flags

\* One word.
LEMMA ReadStepIs ==
    ASSUME NEW reading \in Readings, NEW word \in Words
    PROVE  /\ ReadStep(reading, word) \in Readings
           /\ reading.awaits = UmaskFlag =>
                 ReadStep(reading, word) =
                     [awaits |-> NoFlag, umask |-> word.given, ok |-> reading.ok /\ word.flag = NoFlag]
           /\ reading.awaits \notin {UmaskFlag, NoFlag} =>
                 ReadStep(reading, word) = [reading EXCEPT !.awaits = NoFlag]
           /\ reading.awaits = NoFlag =>
                 /\ word.flag = UmaskWith =>
                       ReadStep(reading, word) = [reading EXCEPT !.umask = word.given]
                 /\ word.flag = NoFlag => ReadStep(reading, word) = [reading EXCEPT !.ok = FALSE]
                 /\ word.flag \in Switches => ReadStep(reading, word) = reading
                 /\ word.flag \notin {UmaskWith, NoFlag} \cup Switches =>
                       ReadStep(reading, word) = [reading EXCEPT !.awaits = word.flag]
  <1>1. CASE reading.awaits = UmaskFlag
    <2>1. ReadStep(reading, word) =
              [awaits |-> NoFlag, umask |-> word.given, ok |-> reading.ok /\ word.flag = NoFlag]
      BY <1>1 DEF ReadStep
    <2>2. ReadStep(reading, word) \in Readings
      BY <2>1, FlagsDiffer DEF Readings, Words
    <2> QED
      BY <1>1, <2>1, <2>2, FlagsDiffer
  <1>2. CASE reading.awaits \notin {UmaskFlag, NoFlag}
    <2>1. ReadStep(reading, word) = [reading EXCEPT !.awaits = NoFlag]
      BY <1>2 DEF ReadStep
    <2>2. ReadStep(reading, word) \in Readings
      BY <2>1, FlagsDiffer DEF Readings
    <2> QED
      BY <1>2, <2>1, <2>2
  <1>3. CASE reading.awaits = NoFlag
    <2>1. ReadStep(reading, word) =
              CASE word.flag = UmaskWith -> [reading EXCEPT !.umask = word.given]
                [] word.flag = NoFlag -> [reading EXCEPT !.ok = FALSE]
                [] word.flag \in Switches -> reading
                [] OTHER -> [reading EXCEPT !.awaits = word.flag]
      BY <1>3, FlagsDiffer DEF ReadStep
    <2>2. CASE word.flag = UmaskWith
      <3>1. ReadStep(reading, word) = [reading EXCEPT !.umask = word.given]
        BY <2>1, <2>2, FlagsDiffer, Zenon
      <3> QED
        BY <1>3, <2>2, <3>1, FlagsDiffer DEF Readings, Words
    <2>3. CASE word.flag = NoFlag
      <3>1. ReadStep(reading, word) = [reading EXCEPT !.ok = FALSE]
        BY <2>1, <2>3, FlagsDiffer, Zenon
      <3> QED
        BY <1>3, <2>3, <3>1, FlagsDiffer DEF Readings, Words
    <2>4. CASE word.flag \in Switches
      <3>1. ReadStep(reading, word) = reading
        BY <2>1, <2>4, FlagsDiffer, Zenon
      <3> QED
        BY <1>3, <2>4, <3>1, FlagsDiffer
    <2>5. CASE word.flag \notin {UmaskWith, NoFlag} \cup Switches
      <3>1. ReadStep(reading, word) = [reading EXCEPT !.awaits = word.flag]
        BY <2>1, <2>5, Zenon
      <3> QED
        BY <1>3, <2>5, <3>1, FlagsDiffer DEF Readings, Words
    <2> QED
      BY <2>2, <2>3, <2>4, <2>5
  <1> QED
    BY <1>1, <1>2, <1>3

ReadingStep == [x \in Readings \X Words |-> ReadStep(x[1], x[2])]

LEMMA ReadIsFolded ==
    ASSUME NEW words \in Seq(Words)
    PROVE  /\ Acts(ReadingStep, Readings, Words)
           /\ Folded(Readings, ReadingStep, NothingRead, words, ReadUmask(words))
  <1> DEFINE n == Len(words)
             Folds(g) == g = [s \in SUBSET (1..n) |->
                                 IF s = {} THEN NothingRead ELSE ReadStep(g[s \ {Max(s)}], words[Max(s)])]
             iter == CHOOSE g : Folds(g)
  <1>1. Acts(ReadingStep, Readings, Words)
    BY ReadStepIs DEF Acts, ReadingStep
  <1>2. \A reading \in Readings, word \in Words : ReadingStep[<<reading, word>>] = ReadStep(reading, word)
    BY DEF ReadingStep
  <1>3. ReadUmask(words) = iter[1..n]
    <2>1. DOMAIN words = 1..n
      OBVIOUS
    <2> QED
      BY <2>1, Zenon DEF ReadUmask, FoldLeft, MapThenFoldSet, ReadStep, NothingRead, NoFlag, UmaskFlag, UmaskWith
  <1>4. NothingRead \in Readings
    <2>1. <<>> \in Givens
      BY DEF Givens
    <2> QED
      BY <2>1, FlagsDiffer DEF NothingRead, Readings
  <1>5. PICK h : Iterator(Readings, ReadingStep, NothingRead, words, h)
    BY <1>1, <1>4, IteratorExists DEF HasIterator
  <1>6. ASSUME NEW s \in SUBSET (1..n)
        PROVE  h[s] = IF s = {} THEN NothingRead ELSE ReadStep(h[s \ {Max(s)}], words[Max(s)])
    <2>1. CASE s = {}
      BY <1>5, <2>1 DEF Iterator, Iterates
    <2>2. CASE s # {}
      <3>1. words[Max(s)] \in Words /\ s \ {Max(s)} \in SUBSET (1..n)
        BY <2>2, GreatestOf
      <3>2. h[s \ {Max(s)}] \in Readings
        BY <1>5, <3>1 DEF Iterator
      <3>3. h[s] = ReadingStep[<<h[s \ {Max(s)}], words[Max(s)]>>]
        BY <1>5, <2>2, <3>2 DEF Iterator, Iterates
      <3> QED
        BY <1>2, <2>2, <3>1, <3>2, <3>3
    <2> QED
      BY <2>1, <2>2
  <1>7. Folds(h)
    BY <1>5, <1>6 DEF Iterator
  <1>8. Folds(iter)
    BY <1>7
  <1> HIDE DEF iter
  <1>9. ASSUME NEW s \in SUBSET (1..n), s # {}, iter[s \ {Max(s)}] \in Readings
         PROVE  iter[s] = ReadingStep[<<iter[s \ {Max(s)}], words[Max(s)]>>]
    BY <1>2, <1>8, <1>9, GreatestOf
  <1>10. Iterates(Readings, ReadingStep, NothingRead, words, iter)
    BY <1>8, <1>9 DEF Iterates
  <1>11. Folded(Readings, ReadingStep, NothingRead, words, iter[1..n])
    BY <1>1, <1>4, <1>10, IteratesFolds
  <1> QED
    BY <1>1, <1>3, <1>11

LEMMA ReadGrows ==
    ASSUME NEW words, NEW longer, NEW word, EndsIn(Words, longer, words, word)
    PROVE  /\ ReadUmask(<<>>) = NothingRead
           /\ ReadUmask(words) \in Readings
           /\ ReadUmask(longer) = ReadStep(ReadUmask(words), word)
  <1> DEFINE none == <<>>
             r == ReadUmask(words)
             q == ReadUmask(longer)
             o == ReadUmask(none)
             G == ReadingStep
  <1>1. words \in Seq(Words) /\ word \in Words /\ longer \in Seq(Words) /\ none \in Seq(Words)
    BY AppendProperties DEF EndsIn
  <1> HIDE DEF none
  <1>2. /\ Acts(G, Readings, Words)
        /\ Folded(Readings, G, NothingRead, words, r)
        /\ Folded(Readings, G, NothingRead, longer, q)
        /\ Folded(Readings, G, NothingRead, none, o)
    BY <1>1, ReadIsFolded
  <1> HIDE DEF r, q, o, G
  <1>3. o = NothingRead
    BY <1>2, FoldedNothing DEF none
  <1>4. r \in Readings /\ q = G[<<r, word>>]
    BY <1>2, FoldedGrows
  <1>5. G[<<r, word>>] = ReadStep(r, word)
    BY <1>1, <1>4 DEF G, ReadingStep
  <1> QED
    BY <1>3, <1>4, <1>5 DEF r, q, o, none

\* The words behind the three that the line begins with.
Rest(words) == SubSeq(words, 4, Len(words))

\* How far the words, after those three, have been read, and where the socket is named.
RcAddr == "--rc-addr"

Reads(lead, words, reading, sockets) ==
    /\ words \in Seq(Words)
    /\ Len(words) >= 3
    /\ ReadUmask(Rest(words)) = reading
    /\ {i \in DOMAIN words : words[i].flag = RcAddr} = sockets
    /\ \A i \in 1..3 : words[i] = lead[i]

LEMMA ReadsThree ==
    ASSUME NEW a \in Words, NEW b \in Words, NEW c \in Words,
           a.flag # RcAddr, b.flag # RcAddr, c.flag # RcAddr
    PROVE  Reads(<<a, b, c>>, <<a, b, c>>, NothingRead, {})
  <1> DEFINE words == <<a, b, c>>
  <1>1. /\ words \in Seq(Words) /\ Len(words) = 3
        /\ words[1] = a /\ words[2] = b /\ words[3] = c
    BY ThreeAreASequence
  <1> HIDE DEF words
  <1>2. Rest(words) = <<>>
    BY <1>1 DEF Rest
  <1>3. ReadUmask(<<>>) = NothingRead
    <2> DEFINE none == <<>>
               longer == Append(none, a)
    <2>1. none \in Seq(Words)
      OBVIOUS
    <2> HIDE DEF none
    <2>2. EndsIn(Words, longer, none, a)
      BY <2>1 DEF EndsIn
    <2> HIDE DEF longer
    <2> QED
      BY <2>2, ReadGrows
  <1>4. DOMAIN words = {1, 2, 3}
    BY <1>1
  <1>5. {i \in DOMAIN words : words[i].flag = RcAddr} = {}
    BY <1>1, <1>4
  <1> QED
    BY <1>1, <1>2, <1>3, <1>5 DEF Reads, words

LEMMA ReadsMore ==
    ASSUME NEW lead, NEW words, NEW reading, NEW sockets, Reads(lead, words, reading, sockets), NEW word \in Words
    PROVE  /\ reading \in Readings
           /\ Reads(lead, Append(words, word), ReadStep(reading, word),
                    IF word.flag = RcAddr THEN sockets \cup {Len(words) + 1} ELSE sockets)
  <1> DEFINE longer == Append(words, word)
             n == Len(words)
             rest == Rest(words)
             restLonger == Rest(longer)
  <1>1. /\ words \in Seq(Words) /\ n \in Nat /\ n >= 3 /\ ReadUmask(rest) = reading
        /\ DOMAIN words = 1..n
    BY DEF Reads
  <1>2. /\ longer \in Seq(Words) /\ Len(longer) = n + 1 /\ longer[n + 1] = word
        /\ \A i \in 1..n : longer[i] = words[i]
    BY <1>1, AppendProperties
  <1> HIDE DEF longer
  <1>3. /\ rest \in Seq(Words) /\ Len(rest) = n - 3
        /\ \A i \in 1..(n - 3) : rest[i] = words[i + 3]
    BY <1>1 DEF Rest
  <1>4. /\ restLonger \in Seq(Words) /\ Len(restLonger) = n - 2
        /\ \A i \in 1..(n - 2) : restLonger[i] = longer[i + 3]
    BY <1>1, <1>2 DEF Rest
  <1> HIDE DEF rest, restLonger, n
  <1>5. EndsIn(Words, restLonger, rest, word)
    <2>1. ASSUME NEW i \in 1..(n - 3) PROVE restLonger[i] = rest[i]
      <3>1. i \in 1..(n - 2) /\ i + 3 \in 1..n
        BY <1>1
      <3>2. restLonger[i] = longer[i + 3]
        BY <1>4, <3>1
      <3>3. longer[i + 3] = words[i + 3]
        BY <1>2, <3>1
      <3>4. rest[i] = words[i + 3]
        BY <1>3
      <3> QED
        BY <3>2, <3>3, <3>4
    <2>2. restLonger[(n - 3) + 1] = word
      BY <1>1, <1>2, <1>4
    <2>3. restLonger = Append(rest, word)
      BY <1>1, <1>3, <1>4, <2>1, <2>2, AppendIs
    <2> QED
      BY <1>3, <2>3 DEF EndsIn
  <1>6. ReadUmask(rest) \in Readings /\ ReadUmask(restLonger) = ReadStep(ReadUmask(rest), word)
    BY <1>5, ReadGrows
  <1>7. {i \in DOMAIN longer : longer[i].flag = RcAddr}
            = IF word.flag = RcAddr THEN sockets \cup {n + 1} ELSE sockets
    <2>1. DOMAIN longer = 1..(n + 1)
      BY <1>2
    <2>2. sockets = {i \in 1..n : words[i].flag = RcAddr}
      BY <1>1 DEF Reads
    <2> QED
      BY <1>1, <1>2, <2>1, <2>2
  <1>8. Len(longer) >= 3
    BY <1>1, <1>2
  <1>9. \A i \in 1..3 : longer[i] = lead[i]
    BY <1>1, <1>2 DEF Reads
  <1> QED
    BY <1>1, <1>2, <1>6, <1>7, <1>8, <1>9 DEF Reads, rest, restLonger, longer, n

\* A reading that is at rest, and what a word or an option makes of it.
Resting(umask) == [awaits |-> NoFlag, ok |-> TRUE, umask |-> umask]

LEMMA AtIsRead ==
    ASSUME NEW umask \in Givens
    PROVE  /\ Resting(umask) \in Readings
           /\ Resting(umask).awaits = NoFlag /\ Resting(umask).ok = TRUE /\ Resting(umask).umask = umask
  BY FlagsDiffer DEF Resting, Readings

LEMMA WordIs ==
    ASSUME NEW flag \in Flags, NEW given \in Givens
    PROVE  /\ Word(flag, given) \in Words /\ Flag(flag) \in Words
           /\ Word(flag, given).flag = flag /\ Word(flag, given).given = given
           /\ Flag(flag).flag = flag
  <1>1. <<>> \in Givens
    BY DEF Givens
  <1> QED
    BY <1>1 DEF Word, Flag, Words

LEMMA ReadsSwitch ==
    ASSUME NEW lead, NEW words, NEW umask \in Givens, NEW sockets, Reads(lead, words, Resting(umask), sockets),
           NEW flag \in Switches, flag # RcAddr
    PROVE  Reads(lead, words \o <<Flag(flag)>>, Resting(umask), sockets)
  <1> DEFINE word == Flag(flag)
             r == Resting(umask)
  <1>1. word \in Words /\ word.flag = flag
    <2>1. <<>> \in Givens /\ flag \in Flags
      BY FlagsDiffer DEF Givens
    <2> QED
      BY <2>1, WordIs
  <1>2. r \in Readings /\ r.awaits = NoFlag
    BY AtIsRead
  <1> HIDE DEF word, r
  <1>3. ReadStep(r, word) = r
    BY <1>1, <1>2, ReadStepIs
  <1>4. Reads(lead, Append(words, word), ReadStep(r, word),
              IF word.flag = RcAddr THEN sockets \cup {Len(words) + 1} ELSE sockets)
    BY <1>1, ReadsMore DEF r
  <1>5. Reads(lead, Append(words, word), r, sockets)
    BY <1>1, <1>3, <1>4
  <1>6. Append(words, word) = words \o <<word>>
    BY <1>1, AppendIsConcat DEF Reads
  <1> QED
    BY <1>5, <1>6 DEF word, r

LEMMA ReadsPair ==
    ASSUME NEW lead, NEW words, NEW umask \in Givens, NEW sockets, Reads(lead, words, Resting(umask), sockets),
           NEW flag \in Flags, flag \notin {UmaskWith, NoFlag} \cup Switches, NEW given \in Givens
    PROVE  Reads(lead, words \o <<Flag(flag), Word(NoFlag, given)>>,
                 Resting(IF flag = UmaskFlag THEN given ELSE umask),
                 IF flag = RcAddr THEN sockets \cup {Len(words) + 1} ELSE sockets)
  <1> DEFINE a == Flag(flag)
             b == Word(NoFlag, given)
             r == Resting(umask)
             q == ReadStep(r, a)
             s == IF flag = RcAddr THEN sockets \cup {Len(words) + 1} ELSE sockets
             u == Append(words, a)
             v == Resting(IF flag = UmaskFlag THEN given ELSE umask)
  <1>1. a \in Words /\ a.flag = flag /\ b \in Words /\ b.flag = NoFlag /\ b.given = given
    <2>1. <<>> \in Givens /\ NoFlag \in Flags
      BY FlagsDiffer DEF Givens
    <2> QED
      BY <2>1, WordIs
  <1>2. /\ r \in Readings /\ r.awaits = NoFlag /\ r.ok = TRUE /\ r.umask = umask
        /\ r = [awaits |-> NoFlag, ok |-> TRUE, umask |-> umask]
    BY AtIsRead DEF Resting
  <1>11. v = [awaits |-> NoFlag, ok |-> TRUE, umask |-> IF flag = UmaskFlag THEN given ELSE umask]
    BY DEF Resting
  <1>12. words \in Seq(Words)
    BY DEF Reads
  <1>13. words \o <<a, b>> = Append(u, b)
    <2>1. u = words \o <<a>>
      BY <1>1, <1>12, AppendIsConcat
    <2>2. <<a, b>> = Append(<<a>>, b)
      BY LongerLiterals
    <2>3. <<a>> \in Seq(Words)
      BY <1>1, OneIsASequence
    <2> DEFINE x == <<a>>
    <2> HIDE DEF x, a, b
    <2>4. words \o Append(x, b) = Append(words \o x, b)
      BY <1>1, <1>12, <2>3, ConcatAppend DEF x
    <2> QED
      BY <2>1, <2>2, <2>4 DEF x
  <1> HIDE DEF a, b
  <1>3. /\ q \in Readings /\ q.awaits = flag /\ q.ok = TRUE /\ q.umask = umask
        /\ flag # NoFlag
    <2>1. q = [r EXCEPT !.awaits = a.flag] /\ q \in Readings
      <3> HIDE DEF r, q
      <3>1. ReadStep(r, a) = [r EXCEPT !.awaits = a.flag] /\ ReadStep(r, a) \in Readings
        BY <1>1, <1>2, ReadStepIs
      <3> QED
        BY <3>1 DEF q
    <2> HIDE DEF q
    <2>2. q = [awaits |-> flag, ok |-> TRUE, umask |-> umask]
      BY <1>1, <1>2, <2>1
    <2> QED
      BY <2>1, <2>2
  <1>4. Reads(lead, u, q, s)
    <2>1. Reads(lead, Append(words, a), ReadStep(r, a),
                IF a.flag = RcAddr THEN sockets \cup {Len(words) + 1} ELSE sockets)
      BY <1>1, ReadsMore
    <2> QED
      BY <1>1, <2>1
  <1> HIDE DEF r, q, u, s, v
  <1>5. ReadStep(q, b) = v
    <2>1. CASE flag = UmaskFlag
      <3>1. ReadStep(q, b) = [awaits |-> NoFlag, umask |-> b.given, ok |-> q.ok /\ b.flag = NoFlag]
        BY <1>1, <1>3, <2>1, ReadStepIs
      <3>2. (q.ok /\ b.flag = NoFlag) = TRUE
        BY <1>1, <1>3
      <3> QED
        BY <1>1, <1>3, <1>11, <2>1, <3>1, <3>2
    <2>2. CASE flag # UmaskFlag
      <3>1. ReadStep(q, b) = [q EXCEPT !.awaits = NoFlag]
        BY <1>1, <1>3, <2>2, ReadStepIs
      <3> QED
        BY <1>3, <1>11, <2>2, <3>1 DEF Readings
    <2> QED
      BY <2>1, <2>2
  <1>6. Reads(lead, Append(u, b), ReadStep(q, b),
              IF b.flag = RcAddr THEN s \cup {Len(u) + 1} ELSE s)
    BY <1>1, <1>4, ReadsMore
  <1>7. b.flag # RcAddr
    BY <1>1, Zenon DEF NoFlag, RcAddr
  <1>8. Reads(lead, Append(u, b), v, s)
    BY <1>5, <1>6, <1>7
  <1> QED
    BY <1>8, <1>13 DEF v, s, a, b

\* An option that is left out.
LEMMA ReadsIf ==
    ASSUME NEW lead, NEW words, NEW reading, NEW sockets, Reads(lead, words, reading, sockets),
           NEW condition \in BOOLEAN, NEW more,
           condition => Reads(lead, words \o more, reading, sockets)
    PROVE  Reads(lead, words \o If(condition, more), reading, sockets)
  <1>1. CASE condition
    BY <1>1 DEF If
  <1>2. CASE ~condition
    <2>1. words \in Seq(Words)
      BY DEF Reads
    <2>2. words \o <<>> = words
      BY <2>1, ConcatEmptySeq
    <2> QED
      BY <1>2, <2>2 DEF If
  <1> QED
    BY <1>1, <1>2

\* The words of extra_args that validate takes.
Extras ==
    [flag : ({NoFlag, OtherFlag, UmaskFlag, UmaskWith} \cup Switches) \ RcFlags, given : Seq(Nat)]

\* Where a mask is given, whole, as EffectiveUmask looks for it, and what is given there.
Given(extra) ==
    {i \in DOMAIN extra :
        extra[i].flag \in {UmaskFlag, UmaskWith} /\ (extra[i].flag = UmaskFlag => i < Len(extra))}

GivenLast(extra, umask, said) ==
    /\ Given(extra) = {} => said = umask
    /\ \A i \in Given(extra) :
          (\A j \in Given(extra) : j <= i) =>
              IF extra[i].flag = UmaskFlag THEN extra[i + 1].flag = NoFlag /\ said = extra[i + 1].given
              ELSE said = extra[i].given

\* What a reading that began with a mask has come to behind extra_args.
Behind(extra, umask, reading) ==
    /\ reading \in Readings
    /\ reading.awaits \in {NoFlag, UmaskFlag, OtherFlag}
    /\ reading.awaits # NoFlag => extra # <<>> /\ extra[Len(extra)].flag = reading.awaits
    /\ extra # <<>> /\ extra[Len(extra)].flag = UmaskFlag /\ reading.ok = TRUE
          => reading.awaits = UmaskFlag
    /\ reading.ok = TRUE => GivenLast(extra, umask, reading.umask)

LEMMA ExtrasAreWords ==
    ASSUME NEW word \in Extras
    PROVE  /\ word \in Words /\ word.flag # RcAddr
           /\ word.flag \in {NoFlag, OtherFlag, UmaskFlag, UmaskWith} \cup Switches
  <1>1. Seq(Nat) \subseteq Givens
    <2>1. \A s \in Seq(Nat) : s \in Seq(Characters \cup Nat)
      <3>1. Nat \subseteq Characters \cup Nat
        OBVIOUS
      <3> QED
        BY <3>1, SeqGrows
    <2> QED
      BY <2>1 DEF Givens
  <1>2. RcAddr \in RcFlags
    BY Zenon DEF RcAddr, RcFlags
  <1> QED
    BY <1>1, <1>2, FlagsDiffer DEF Extras, Words

LEMMA GivenGrows ==
    ASSUME NEW extra \in Seq(Extras), NEW word \in Extras
    PROVE  /\ Append(extra, word) \in Seq(Extras)
           /\ Len(Append(extra, word)) = Len(extra) + 1
           /\ Append(extra, word)[Len(extra) + 1] = word
           /\ \A i \in 1..Len(extra) : Append(extra, word)[i] = extra[i]
           /\ Given(extra) \in SUBSET (1..Len(extra))
           /\ Given(Append(extra, word)) =
                 Given(extra)
                     \cup {i \in {Len(extra)} : extra # <<>> /\ extra[i].flag = UmaskFlag}
                     \cup {i \in {Len(extra) + 1} : word.flag = UmaskWith}
  <1> DEFINE longer == Append(extra, word)
             n == Len(extra)
  <1>1. /\ longer \in Seq(Extras) /\ Len(longer) = n + 1 /\ longer[n + 1] = word
        /\ \A i \in 1..n : longer[i] = extra[i]
        /\ n \in Nat /\ DOMAIN extra = 1..n /\ DOMAIN longer = 1..(n + 1)
    BY AppendProperties
  <1>2. extra # <<>> <=> n # 0
    BY EmptySeq
  <1> HIDE DEF longer
  <1>3. Given(extra) = {i \in 1..n : extra[i].flag \in {UmaskFlag, UmaskWith}
                                         /\ (extra[i].flag = UmaskFlag => i < n)}
    BY <1>1 DEF Given
  <1>4. Given(longer) = {i \in 1..(n + 1) : longer[i].flag \in {UmaskFlag, UmaskWith}
                                               /\ (longer[i].flag = UmaskFlag => i < n + 1)}
    BY <1>1 DEF Given
  <1> HIDE DEF n
  <1>5. ASSUME NEW i \in 1..(n + 1)
        PROVE  i \in Given(longer) <=> \/ i \in Given(extra)
                                       \/ i = n /\ n # 0 /\ extra[i].flag = UmaskFlag
                                       \/ i = n + 1 /\ word.flag = UmaskWith
    <2>1. CASE i = n + 1
      <3>1. longer[i] = word /\ ~(i < n + 1) /\ i \notin 1..n /\ i # n
        BY <1>1, <2>1
      <3> QED
        BY <1>3, <1>4, <2>1, <3>1, FlagsDiffer
    <2>2. CASE i # n + 1
      <3>1. i \in 1..n /\ i < n + 1 /\ (i < n <=> i # n) /\ n # 0
        BY <1>1, <2>2
      <3>2. longer[i] = extra[i]
        BY <1>1, <3>1
      <3> QED
        BY <1>3, <1>4, <2>2, <3>1, <3>2
    <2> QED
      BY <2>1, <2>2
  <1>6. /\ Given(longer) \subseteq 1..(n + 1) /\ Given(extra) \subseteq 1..(n + 1)
        /\ Given(extra) \in SUBSET (1..n)
    BY <1>1, <1>3, <1>4
  <1>7. n + 1 \in 1..(n + 1) /\ (n # 0 => n \in 1..(n + 1))
    BY <1>1
  <1>8. Given(longer) = Given(extra) \cup {i \in {n} : extra # <<>> /\ extra[i].flag = UmaskFlag}
                            \cup {i \in {n + 1} : word.flag = UmaskWith}
    BY <1>2, <1>5, <1>6, <1>7
  <1> QED
    BY <1>1, <1>6, <1>8 DEF longer, n

\* A word that gives nothing changes nothing.
LEMMA GivenKeeps ==
    ASSUME NEW extra \in Seq(Extras), NEW word \in Extras, NEW umask, NEW said,
           GivenLast(extra, umask, said),
           ~(extra # <<>> /\ extra[Len(extra)].flag = UmaskFlag), word.flag # UmaskWith
    PROVE  GivenLast(Append(extra, word), umask, said)
  <1> DEFINE longer == Append(extra, word)
             n == Len(extra)
  <1>1. /\ \A i \in 1..n : longer[i] = extra[i]
        /\ Given(extra) \in SUBSET (1..n)
        /\ Given(longer) = Given(extra) \cup {i \in {n} : extra # <<>> /\ extra[i].flag = UmaskFlag}
                               \cup {i \in {n + 1} : word.flag = UmaskWith}
    BY GivenGrows
  <1>2. DOMAIN extra = 1..n /\ n \in Nat
    OBVIOUS
  <1>3. Given(longer) = Given(extra)
    BY <1>1
  <1>4. \A i \in Given(extra) : extra[i].flag = UmaskFlag => i + 1 \in 1..n
    BY <1>1, <1>2 DEF Given
  <1> HIDE DEF longer
  <1>5. \A i \in Given(extra) : longer[i] = extra[i]
                                  /\ (extra[i].flag = UmaskFlag => longer[i + 1] = extra[i + 1])
    BY <1>1, <1>4
  <1> QED
    BY <1>3, <1>5 DEF GivenLast, longer

LEMMA BehindMore ==
    ASSUME NEW extra \in Seq(Extras), NEW word \in Extras, NEW umask, NEW reading,
           Behind(extra, umask, reading),
           extra # <<>> /\ extra[Len(extra)].flag = OtherFlag => word.flag \notin {UmaskFlag, UmaskWith}
    PROVE  Behind(Append(extra, word), umask, ReadStep(reading, word))
  <1> DEFINE longer == Append(extra, word)
             n == Len(extra)
             next == ReadStep(reading, word)
  <1> SUFFICES Behind(longer, umask, next)
    OBVIOUS
  <1>1. /\ longer \in Seq(Extras) /\ Len(longer) = n + 1 /\ longer[n + 1] = word
        /\ \A i \in 1..n : longer[i] = extra[i]
        /\ Given(extra) \in SUBSET (1..n)
        /\ Given(longer) = Given(extra) \cup {i \in {n} : extra # <<>> /\ extra[i].flag = UmaskFlag}
                               \cup {i \in {n + 1} : word.flag = UmaskWith}
    BY GivenGrows
  <1>2. n \in Nat /\ (extra # <<>> <=> n # 0)
    BY EmptySeq
  <1>3. /\ word \in Words
        /\ word.flag \in {NoFlag, OtherFlag, UmaskFlag, UmaskWith} \cup Switches
    BY ExtrasAreWords
  <1>4. /\ reading \in Readings /\ next \in Readings
        /\ reading.awaits \in {NoFlag, UmaskFlag, OtherFlag} /\ reading.ok \in BOOLEAN
    BY <1>3, ReadStepIs DEF Behind, Readings
  <1>5. longer # <<>> /\ longer[Len(longer)] = word
    <2>1. Len(longer) # 0
      BY <1>1, <1>2
    <2> HIDE DEF longer
    <2> QED
      BY <1>1, <2>1, EmptySeq
  <1>6. CASE reading.awaits = UmaskFlag
    <2>1. next = [awaits |-> NoFlag, umask |-> word.given, ok |-> reading.ok /\ word.flag = NoFlag]
      BY <1>3, <1>4, <1>6, ReadStepIs
    <2> HIDE DEF next, longer
    <2>2. next.awaits = NoFlag /\ next.umask = word.given
          /\ (next.ok = TRUE => reading.ok = TRUE /\ word.flag = NoFlag)
      BY <1>4, <2>1
    <2>3. extra # <<>> /\ extra[n].flag = UmaskFlag /\ n # 0
      BY <1>2, <1>6, FlagsDiffer DEF Behind
    <2>4. ASSUME next.ok = TRUE PROVE GivenLast(longer, umask, next.umask)
      <3>1. word.flag = NoFlag /\ word.flag # UmaskWith
        BY <2>2, <2>4, FlagsDiffer
      <3>2. Given(longer) = Given(extra) \cup {n}
        BY <1>1, <2>3, <3>1
      <3>3. n \in Given(longer) /\ \A i \in Given(longer) : i <= n
        BY <1>1, <1>2, <3>2
      <3>4. longer[n].flag = UmaskFlag /\ longer[n + 1] = word
        BY <1>1, <1>2, <2>3
      <3>5. \A i \in Given(longer) : (\A j \in Given(longer) : j <= i) => i = n
        BY <1>1, <1>2, <3>2, <3>3
      <3> QED
        BY <2>2, <3>1, <3>3, <3>4, <3>5 DEF GivenLast
    <2> QED
      BY <1>4, <1>5, <2>2, <2>4, FlagsDiffer DEF Behind
  <1>7. CASE reading.awaits = OtherFlag
    <2>1. next = [reading EXCEPT !.awaits = NoFlag]
      BY <1>3, <1>4, <1>7, FlagsDiffer, ReadStepIs
    <2> HIDE DEF next, longer
    <2>2. next.awaits = NoFlag /\ next.ok = reading.ok /\ next.umask = reading.umask
      BY <1>4, <2>1 DEF Readings
    <2>3. /\ extra # <<>> /\ extra[n].flag = OtherFlag
          /\ word.flag # UmaskFlag /\ word.flag # UmaskWith
      BY <1>7, FlagsDiffer DEF Behind
    <2>4. ASSUME next.ok = TRUE PROVE GivenLast(longer, umask, next.umask)
      <3>1. GivenLast(extra, umask, reading.umask)
        BY <2>2, <2>4 DEF Behind
      <3>2. ~(extra # <<>> /\ extra[Len(extra)].flag = UmaskFlag)
        BY <2>3, FlagsDiffer
      <3>3. GivenLast(Append(extra, word), umask, reading.umask)
        BY <2>3, <3>1, <3>2, GivenKeeps
      <3> QED
        BY <2>2, <3>3 DEF longer
    <2> QED
      BY <1>4, <1>5, <2>2, <2>3, <2>4 DEF Behind
  <1>8. CASE reading.awaits = NoFlag
    <2>1. CASE word.flag = UmaskWith
      <3>1. next = [reading EXCEPT !.umask = word.given]
        BY <1>3, <1>4, <1>8, <2>1, ReadStepIs
      <3> HIDE DEF next, longer
      <3>2. next.awaits = NoFlag /\ next.umask = word.given /\ next.ok = reading.ok
        BY <1>4, <1>8, <3>1 DEF Readings
      <3>3. n + 1 \in Given(longer) /\ \A i \in Given(longer) : i <= n + 1
        BY <1>1, <1>2, <2>1
      <3>4. \A i \in Given(longer) : (\A j \in Given(longer) : j <= i) => i = n + 1
        BY <1>1, <1>2, <3>3
      <3>5. GivenLast(longer, umask, next.umask)
        BY <1>1, <2>1, <3>2, <3>3, <3>4, FlagsDiffer DEF GivenLast
      <3> QED
        BY <1>4, <1>5, <2>1, <3>2, <3>5, FlagsDiffer DEF Behind
    <2>2. CASE word.flag = NoFlag
      <3>1. next = [reading EXCEPT !.ok = FALSE]
        BY <1>3, <1>4, <1>8, <2>2, ReadStepIs
      <3> HIDE DEF next, longer
      <3>2. next.awaits = NoFlag /\ next.ok = FALSE
        BY <1>4, <1>8, <3>1 DEF Readings
      <3> QED
        BY <1>4, <1>5, <2>2, <3>2, FlagsDiffer DEF Behind
    <2> DEFINE ends == extra # <<>> /\ extra[n].flag = UmaskFlag
    <2>3. reading.ok = TRUE => ~ends /\ GivenLast(extra, umask, reading.umask)
      BY <1>8, FlagsDiffer DEF Behind
    <2>4. reading.ok = TRUE /\ word.flag # UmaskWith => GivenLast(longer, umask, reading.umask)
      BY <2>3, GivenKeeps
    <2>5. CASE word.flag \in Switches
      <3>1. next = reading
        BY <1>3, <1>4, <1>8, <2>5, ReadStepIs
      <3> HIDE DEF next, longer
      <3> QED
        BY <1>4, <1>5, <1>8, <2>4, <2>5, <3>1, FlagsDiffer DEF Behind
    <2>6. CASE word.flag = UmaskFlag
      <3>1. next = [reading EXCEPT !.awaits = UmaskFlag]
        <4>1. word.flag \notin {UmaskWith, NoFlag} \cup Switches
          BY <2>6, FlagsDiffer
        <4> QED
          BY <1>3, <1>4, <1>8, <2>6, <4>1, ReadStepIs
      <3> HIDE DEF next, longer
      <3>2. next.awaits = UmaskFlag /\ next.ok = reading.ok /\ next.umask = reading.umask
        BY <1>4, <1>8, <3>1 DEF Readings
      <3> QED
        BY <1>4, <1>5, <2>4, <2>6, <3>2, FlagsDiffer DEF Behind
    <2>7. CASE word.flag = OtherFlag
      <3>1. next = [reading EXCEPT !.awaits = OtherFlag]
        <4>1. word.flag \notin {UmaskWith, NoFlag} \cup Switches
          BY <2>7, FlagsDiffer
        <4> QED
          BY <1>3, <1>4, <1>8, <2>7, <4>1, ReadStepIs
      <3> HIDE DEF next, longer
      <3>2. next.awaits = OtherFlag /\ next.ok = reading.ok /\ next.umask = reading.umask
        BY <1>4, <1>8, <3>1 DEF Readings
      <3> QED
        BY <1>4, <1>5, <2>4, <2>7, <3>2, FlagsDiffer DEF Behind
    <2> QED
      BY <1>3, <2>1, <2>2, <2>5, <2>6, <2>7
  <1> QED
    BY <1>4, <1>6, <1>7, <1>8

\* What is the value of an option stays it.
LEMMA ValuesGrow ==
    ASSUME NEW extra \in Seq(Extras), NEW word \in Extras, ~MaskIsAValue(Append(extra, word))
    PROVE  /\ ~MaskIsAValue(extra)
           /\ extra # <<>> /\ extra[Len(extra)].flag = OtherFlag => word.flag \notin {UmaskFlag, UmaskWith}
  <1> DEFINE longer == Append(extra, word)
             n == Len(extra)
  <1>1. /\ Len(longer) = n + 1 /\ longer[n + 1] = word /\ n \in Nat
        /\ \A i \in 1..n : longer[i] = extra[i]
    BY AppendProperties
  <1>2. extra # <<>> <=> n # 0
    BY EmptySeq
  <1> HIDE DEF longer
  <1>3. \A i \in 2..(n + 1) : ~(longer[i - 1].flag = OtherFlag /\ longer[i].flag \in {UmaskFlag, UmaskWith})
    BY <1>1, Zenon DEF MaskIsAValue, IsUmask, longer, OtherFlag, UmaskFlag, UmaskWith
  <1>4. ~MaskIsAValue(extra)
    <2>1. \A i \in 2..n : ~(extra[i - 1].flag = OtherFlag /\ extra[i].flag \in {UmaskFlag, UmaskWith})
      BY <1>1, <1>3
    <2> QED
      BY <2>1, Zenon DEF MaskIsAValue, IsUmask, OtherFlag, UmaskFlag, UmaskWith, n
  <1>5. ASSUME extra # <<>>, extra[n].flag = OtherFlag PROVE word.flag \notin {UmaskFlag, UmaskWith}
    <2>1. n + 1 \in 2..(n + 1) /\ (n + 1) - 1 = n /\ n \in 1..n
      BY <1>1, <1>2, <1>5
    <2> QED
      BY <1>1, <1>3, <1>5, <2>1
  <1> QED
    BY <1>4, <1>5 DEF n

\* All of extra_args, behind a line that rests with a mask.
LEMMA BehindAll ==
    ASSUME NEW lead, NEW words, NEW umask \in Givens, NEW sockets, Reads(lead, words, Resting(umask), sockets),
           NEW extra \in Seq(Extras)
    PROVE  \E reading :
              /\ Reads(lead, words \o extra, reading, sockets)
              /\ ~MaskIsAValue(extra) => Behind(extra, umask, reading)
  <1> DEFINE Read(e) == \E reading :
                           /\ Reads(lead, words \o e, reading, sockets)
                           /\ ~MaskIsAValue(e) => Behind(e, umask, reading)
             T == {e \in Seq(Extras) : Read(e)}
  <1>1. words \in Seq(Words)
    BY DEF Reads
  <1>2. <<>> \in T
    <2> DEFINE none == <<>>
    <2>1. none \in Seq(Extras) /\ words \o none = words /\ none = <<>>
      BY <1>1, ConcatEmptySeq
    <2>2. Given(none) = {}
      BY DEF Given
    <2> HIDE DEF none
    <2>3. Resting(umask) \in Readings /\ Resting(umask).awaits = NoFlag /\ Resting(umask).umask = umask
      BY AtIsRead
    <2>4. GivenLast(none, umask, Resting(umask).umask)
      BY <2>2, <2>3 DEF GivenLast
    <2>5. Behind(none, umask, Resting(umask))
      BY <2>1, <2>3, <2>4, FlagsDiffer DEF Behind
    <2>6. Reads(lead, words \o none, Resting(umask), sockets)
      BY <2>1
    <2> QED
      BY <2>1, <2>5, <2>6
  <1>3. ASSUME NEW e \in Seq(Extras), NEW word \in Extras, e \in T PROVE Append(e, word) \in T
    <2>1. PICK reading : /\ Reads(lead, words \o e, reading, sockets)
                         /\ ~MaskIsAValue(e) => Behind(e, umask, reading)
      BY <1>3
    <2>2. word \in Words /\ word.flag # RcAddr
      BY ExtrasAreWords
    <2>3. e \in Seq(Words)
      <3>1. Extras \subseteq Words
        BY ExtrasAreWords
      <3> QED
        BY <3>1, SeqGrows
    <2>4. words \o Append(e, word) = Append(words \o e, word)
      BY <1>1, <2>2, <2>3, ConcatAppend
    <2>5. Reads(lead, Append(words \o e, word), ReadStep(reading, word), sockets)
      <3>1. Reads(lead, Append(words \o e, word), ReadStep(reading, word),
                  IF word.flag = RcAddr THEN sockets \cup {Len(words \o e) + 1} ELSE sockets)
        BY <2>1, <2>2, ReadsMore
      <3> QED
        BY <2>2, <3>1
    <2>6. ~MaskIsAValue(Append(e, word)) => Behind(Append(e, word), umask, ReadStep(reading, word))
      BY <2>1, ValuesGrow, BehindMore
    <2>7. Append(e, word) \in Seq(Extras)
      BY AppendProperties
    <2>8. Read(Append(e, word))
      BY <2>4, <2>5, <2>6
    <2> QED
      BY <2>7, <2>8
  <1>4. \A e \in Seq(Extras) : e \in T
    <2> HIDE DEF T
    <2> QED
      BY <1>2, <1>3, SequenceInduction
  <1> QED
    BY <1>4

\* Options that are neither about the mask nor about the socket.
Plain == {"mount", "--vfs-cache-mode", "--vfs-cache-max-size", "--vfs-cache-max-age", "--uid", "--gid"}

LEMMA PlainFlags ==
    ASSUME NEW flag \in Plain
    PROVE  /\ flag \in Flags /\ flag \notin {UmaskWith, NoFlag} \cup Switches
           /\ flag # UmaskFlag /\ flag # RcAddr
  <1>1. Plain \subseteq Flags
    BY Zenon DEF Plain, Flags
  <1>2. UmaskWith \notin Plain /\ NoFlag \notin Plain /\ UmaskFlag \notin Plain /\ RcAddr \notin Plain
    BY Zenon DEF Plain, UmaskWith, NoFlag, UmaskFlag, RcAddr
  <1>3. "--read-only" \notin Plain /\ "--allow-other" \notin Plain /\ "--rc" \notin Plain
            /\ "--rc-no-auth" \notin Plain /\ "--option=" \notin Plain
    BY Zenon DEF Plain
  <1>4. flag \notin Switches
    BY <1>3, Zenon DEF Switches
  <1> QED
    BY <1>1, <1>2, <1>4

LEMMA OtherFlags ==
    /\ {"--read-only", "--allow-other", "--rc", "--rc-no-auth"} \subseteq Switches
    /\ "--read-only" # RcAddr /\ "--allow-other" # RcAddr /\ "--rc" # RcAddr /\ "--rc-no-auth" # RcAddr
    /\ RcAddr \in Flags /\ RcAddr \notin {UmaskWith, NoFlag} \cup Switches /\ RcAddr # UmaskFlag
    /\ NoFlag # RcAddr
  BY Zenon DEF Switches, RcAddr, Flags, RcFlags, UmaskWith, NoFlag, UmaskFlag

LEMMA GivensAre ==
    /\ Seq(Characters) \subseteq Givens /\ Seq(STRING) \subseteq Givens /\ Seq(Nat) \subseteq Givens
    /\ <<"socket">> \in Givens /\ <<"socket">> # <<>>
  <1>1. \A s \in Seq(Characters) : s \in Seq(Characters \cup Nat)
    <2>1. Characters \subseteq Characters \cup Nat
      OBVIOUS
    <2> QED
      BY <2>1, SeqGrows
  <1>2. \A s \in Seq(Nat) : s \in Seq(Characters \cup Nat)
    <2>1. Nat \subseteq Characters \cup Nat
      OBVIOUS
    <2> QED
      BY <2>1, SeqGrows
  <1>3. <<"socket">> \in Seq(Characters) /\ <<"socket">> # <<>>
    <2>1. "socket" \in Characters
      BY Zenon DEF Characters
    <2> QED
      BY <2>1, OneIsASequence
  <1> QED
    BY <1>1, <1>2, <1>3, TextsAreOfCharacters DEF Givens

\* A mount as it may be spelled.
Masks == [sign : Characters, digits : Seq(Nat)]

Quantities == [sign : Characters, isNumber : BOOLEAN, unit : Seq(Characters)]

Mounts ==
    [name : Seq(Characters), remote : Seq(Characters), path : Seq(Characters),
     mount_point : Seq(Characters), cache_mode : Characters,
     cache_max_size : Quantities, cache_max_age : Quantities,
     read_only : BOOLEAN, allow_other : BOOLEAN, uid : Seq(Nat), gid : Seq(Nat),
     umask : Masks, extra_args : Seq(Words)]

LEMMA FsSpecType ==
    ASSUME NEW remote \in Seq(Characters), NEW path \in Seq(Characters), NEW mount,
           mount.remote = remote, mount.path = path
    PROVE  FsSpec(mount) \in Seq(Characters) /\ FsSpec(mount) \in Givens
  <1>1. ":" \in Characters
    BY Zenon DEF Characters
  <1> DEFINE trimmed == Trimmed(path, "/")
  <1>2. trimmed \in Seq(Characters)
    <2>1. PICK k \in 1..(Len(path) + 1) : trimmed = SubSeq(path, k, Len(path))
      BY TrimmedFrom
    <2>2. \A i \in k..Len(path) : path[i] \in Characters
      BY <1>1
    <2>3. SubSeq(path, k, Len(path)) \in Seq(Characters)
      BY <1>1, <2>2, SubSeqProperties
    <2> QED
      BY <2>1, <2>3
  <1> DEFINE colon == <<":">>
  <1>3. colon \in Seq(Characters)
    BY <1>1, OneIsASequence
  <1>4. FsSpec(mount) = (remote \o colon) \o trimmed
    BY DEF FsSpec
  <1> HIDE DEF trimmed, colon
  <1>5. (remote \o colon) \o trimmed \in Seq(Characters)
    BY <1>1, <1>2, <1>3, ConcatProperties
  <1> QED
    BY <1>4, <1>5, GivensAre

LEMMA ReadsOption ==
    ASSUME NEW lead, NEW words, NEW umask \in Givens, NEW sockets, Reads(lead, words, Resting(umask), sockets),
           NEW flag \in Plain, NEW given \in Givens
    PROVE  Reads(lead, words \o Option(flag, given), Resting(umask), sockets)
  <1>1. Reads(lead, words \o <<Flag(flag), Word(NoFlag, given)>>, Resting(umask), sockets)
    BY PlainFlags, ReadsPair
  <1>2. Option(flag, given) = If(given # <<>>, <<Flag(flag), Word(NoFlag, given)>>)
    BY Zenon DEF Option, NoFlag
  <1>3. (given # <<>>) \in BOOLEAN
    OBVIOUS
  <1> DEFINE condition == given # <<>>
             more == <<Flag(flag), Word(NoFlag, given)>>
  <1> HIDE DEF condition, more
  <1>4. Reads(lead, words \o If(condition, more), Resting(umask), sockets)
    BY <1>1, <1>3, ReadsIf DEF condition, more
  <1> QED
    BY <1>2, <1>4 DEF condition, more

LEMMA ReadsLimit ==
    ASSUME NEW lead, NEW words, NEW umask \in Givens, NEW sockets, Reads(lead, words, Resting(umask), sockets),
           NEW flag \in Plain, NEW quantity \in Quantities
    PROVE  Reads(lead, words \o Limit(flag, quantity), Resting(umask), sockets)
  <1> DEFINE given == quantity.unit
             condition == quantity # Unset
             more == <<Flag(flag), Word(NoFlag, given)>>
  <1>1. given \in Givens
    BY GivensAre DEF Quantities
  <1> HIDE DEF given
  <1>2. Reads(lead, words \o <<Flag(flag), Word(NoFlag, given)>>, Resting(umask), sockets)
    BY <1>1, PlainFlags, ReadsPair
  <1>3. Limit(flag, quantity) = If(condition, more)
    BY Zenon DEF Limit, NoFlag, given
  <1>4. condition \in BOOLEAN
    OBVIOUS
  <1> HIDE DEF condition, more
  <1>5. Reads(lead, words \o If(condition, more), Resting(umask), sockets)
    BY <1>2, <1>4, ReadsIf DEF more
  <1> QED
    BY <1>3, <1>5

LEMMA ReadsSwitchIf ==
    ASSUME NEW lead, NEW words, NEW umask \in Givens, NEW sockets, Reads(lead, words, Resting(umask), sockets),
           NEW flag \in Switches, flag # RcAddr, NEW condition \in BOOLEAN
    PROVE  Reads(lead, words \o If(condition, <<Flag(flag)>>), Resting(umask), sockets)
  BY ReadsSwitch, ReadsIf

LEMMA ReadsUmask ==
    ASSUME NEW lead, NEW words, NEW sockets, Reads(lead, words, Resting(<<>>), sockets), NEW given \in Givens
    PROVE  Reads(lead, words \o Option("--umask", given), Resting(given), sockets)
  <1> DEFINE none == <<>>
             more == <<Flag(UmaskFlag), Word(NoFlag, given)>>
  <1>1. none \in Givens
    BY DEF Givens
  <1>2. UmaskFlag \in Flags /\ UmaskFlag \notin {UmaskWith, NoFlag} \cup Switches /\ UmaskFlag # RcAddr
    BY FlagsDiffer, OtherFlags
  <1>3. Option("--umask", given) = If(given # none, more)
    BY Zenon DEF Option, NoFlag, UmaskFlag
  <1>4. words \in Seq(Words)
    BY DEF Reads
  <1> HIDE DEF none
  <1>5. Reads(lead, words \o more, Resting(given), sockets)
    <2>1. Reads(lead, words \o <<Flag(UmaskFlag), Word(NoFlag, given)>>,
                Resting(IF UmaskFlag = UmaskFlag THEN given ELSE none),
                IF UmaskFlag = RcAddr THEN sockets \cup {Len(words) + 1} ELSE sockets)
      <3>1. Reads(lead, words, Resting(none), sockets)
        BY DEF none
      <3> QED
        BY <1>1, <1>2, <3>1, ReadsPair
    <2> QED
      BY <1>2, <2>1
  <1> HIDE DEF more
  <1>6. CASE given = none
    <2>1. If(given # none, more) = <<>> /\ words \o <<>> = words
      BY <1>4, <1>6, ConcatEmptySeq DEF If
    <2> QED
      BY <1>3, <1>6, <2>1 DEF none
  <1>7. CASE given # none
    <2>1. If(given # none, more) = more
      BY <1>7 DEF If
    <2> QED
      BY <1>3, <1>5, <2>1
  <1> QED
    BY <1>6, <1>7

LEMMA ReadsSocket ==
    ASSUME NEW lead, NEW words, NEW umask \in Givens, Reads(lead, words, Resting(umask), {}),
           NEW given \in Givens, given # <<>>
    PROVE  \E k \in Nat : Reads(lead, words \o Option("--rc-addr", given), Resting(umask), {k})
  <1> DEFINE more == <<Flag(RcAddr), Word(NoFlag, given)>>
  <1>1. Option("--rc-addr", given) = more
    BY Zenon DEF Option, If, NoFlag, RcAddr
  <1>2. Reads(lead, words \o <<Flag(RcAddr), Word(NoFlag, given)>>,
              Resting(IF RcAddr = UmaskFlag THEN given ELSE umask),
              IF RcAddr = RcAddr THEN {} \cup {Len(words) + 1} ELSE {})
    BY OtherFlags, ReadsPair
  <1>3. Len(words) + 1 \in Nat
    BY DEF Reads
  <1>4. Reads(lead, words \o more, Resting(umask), {Len(words) + 1})
    BY <1>2, OtherFlags
  <1> HIDE DEF more
  <1> QED
    BY <1>1, <1>3, <1>4

\* All of a mount's command line but extra_args.
Leading(mount) == <<Flag("mount"), Word("", FsSpec(mount)), Word("", mount.mount_point)>>

LEMMA LineIsRead ==
    ASSUME NEW mount \in Mounts, CanonicalUmask(mount.umask).digits \in Seq(Nat)
    PROVE  \E front : \E k \in Nat :
               /\ MountArgs(mount, <<"socket">>) = front \o mount.extra_args
               /\ Reads(Leading(mount), front, Resting(CanonicalUmask(mount.umask).digits), {k})
  <1> DEFINE socket == <<"socket">>
             digits == CanonicalUmask(mount.umask).digits
             none == <<>>
             lead == Leading(mount)
             a1 == <<Flag("mount"), Word("", FsSpec(mount)), Word("", mount.mount_point)>>
             o2 == Option("--vfs-cache-mode", <<mount.cache_mode>>)
             o3 == Limit("--vfs-cache-max-size", mount.cache_max_size)
             o4 == Limit("--vfs-cache-max-age", mount.cache_max_age)
             o5 == If(mount.read_only, <<Flag("--read-only")>>)
             o6 == If(mount.allow_other, <<Flag("--allow-other")>>)
             o7 == Option("--uid", mount.uid)
             o8 == Option("--gid", mount.gid)
             o9 == Option("--umask", digits)
             o10 == <<Flag("--rc")>>
             o11 == Option("--rc-addr", socket)
             o12 == <<Flag("--rc-no-auth")>>
             a8 == a1 \o o2 \o o3 \o o4 \o o5 \o o6 \o o7 \o o8
             a10 == a8 \o o9 \o o10
             a12 == a10 \o o11 \o o12
  <1>1. MountArgs(mount, socket) = a12 \o mount.extra_args
    BY Zenon DEF MountArgs
  <1>2. /\ digits \in Givens /\ none \in Givens
        /\ socket \in Givens /\ socket # <<>>
        /\ <<mount.cache_mode>> \in Givens /\ mount.uid \in Givens /\ mount.gid \in Givens
        /\ mount.mount_point \in Givens
        /\ mount.cache_max_size \in Quantities /\ mount.cache_max_age \in Quantities
        /\ mount.read_only \in BOOLEAN /\ mount.allow_other \in BOOLEAN
    <2>1. <<mount.cache_mode>> \in Seq(Characters)
      BY OneIsASequence DEF Mounts
    <2>2. none \in Givens
      BY DEF Givens
    <2> HIDE DEF none
    <2> QED
      BY <2>1, <2>2, GivensAre DEF Mounts
  <1>3. FsSpec(mount) \in Givens
    BY FsSpecType DEF Mounts
  <1> HIDE DEF digits, socket, none
  <1>4. Reads(lead, a1, Resting(none), {})
    <2> DEFINE w1 == Flag("mount")
               w2 == Word(NoFlag, FsSpec(mount))
               w3 == Word(NoFlag, mount.mount_point)
    <2>1. a1 = <<w1, w2, w3>>
      BY Zenon DEF NoFlag
    <2>2. "mount" \in Plain
      BY Zenon DEF Plain
    <2>3. w1 \in Words /\ w1.flag # RcAddr
      <3> DEFINE flag == "mount"
      <3> HIDE DEF flag
      <3>1. flag \in Plain
        BY <2>2 DEF flag
      <3>2. flag \in Flags /\ flag # RcAddr
        BY <3>1, PlainFlags
      <3>3. Flag(flag) \in Words /\ Flag(flag).flag = flag
        BY <1>2, <3>2, WordIs
      <3> QED
        BY <3>2, <3>3 DEF flag
    <2>4. w2 \in Words /\ w2.flag # RcAddr /\ w3 \in Words /\ w3.flag # RcAddr
      BY <1>2, <1>3, FlagsDiffer, OtherFlags, WordIs
    <2> HIDE DEF w1, w2, w3
    <2>7. lead = a1
      BY Zenon DEF Leading
    <2>5. Reads(<<w1, w2, w3>>, <<w1, w2, w3>>, NothingRead, {})
      BY <2>3, <2>4, ReadsThree
    <2>6. NothingRead = Resting(none)
      BY DEF NothingRead, Resting, none
    <2> HIDE DEF lead
    <2> QED
      BY <2>1, <2>5, <2>6, <2>7
  <1> HIDE DEF a1, lead
  <1>5. Reads(lead, a8, Resting(none), {})
    <2>1. /\ "--vfs-cache-mode" \in Plain /\ "--vfs-cache-max-size" \in Plain
          /\ "--vfs-cache-max-age" \in Plain /\ "--uid" \in Plain /\ "--gid" \in Plain
      BY Zenon DEF Plain
    <2>2. /\ "--read-only" \in Switches /\ "--allow-other" \in Switches
          /\ "--read-only" # RcAddr /\ "--allow-other" # RcAddr
      BY OtherFlags
    <2> DEFINE u2 == a1 \o o2
               u3 == u2 \o o3
               u4 == u3 \o o4
               u5 == u4 \o o5
               u6 == u5 \o o6
               u7 == u6 \o o7
               u8 == u7 \o o8
    <2>3. Reads(lead, u2, Resting(none), {})
      BY <1>2, <1>4, <2>1, ReadsOption
    <2> HIDE DEF u2
    <2>4. Reads(lead, u3, Resting(none), {})
      BY <1>2, <2>1, <2>3, ReadsLimit
    <2> HIDE DEF u3
    <2>5. Reads(lead, u4, Resting(none), {})
      BY <1>2, <2>1, <2>4, ReadsLimit
    <2> HIDE DEF u4
    <2>6. Reads(lead, u5, Resting(none), {})
      BY <1>2, <2>2, <2>5, ReadsSwitchIf
    <2> HIDE DEF u5
    <2>7. Reads(lead, u6, Resting(none), {})
      BY <1>2, <2>2, <2>6, ReadsSwitchIf
    <2> HIDE DEF u6
    <2>8. Reads(lead, u7, Resting(none), {})
      BY <1>2, <2>1, <2>7, ReadsOption
    <2> HIDE DEF u7
    <2>9. Reads(lead, u8, Resting(none), {})
      BY <1>2, <2>1, <2>8, ReadsOption
    <2> QED
      BY <2>9 DEF u2, u3, u4, u5, u6, u7
  <1> HIDE DEF a8, o10, o12
  <1>6. Reads(lead, a10, Resting(digits), {})
    <2>1. Reads(lead, a8 \o o9, Resting(digits), {})
      BY <1>2, <1>5, ReadsUmask DEF none
    <2> DEFINE u9 == a8 \o o9
    <2>2. Reads(lead, u9, Resting(digits), {})
      BY <2>1
    <2> HIDE DEF u9
    <2>3. Reads(lead, u9 \o o10, Resting(digits), {})
      BY <1>2, <2>2, OtherFlags, ReadsSwitch DEF o10
    <2> QED
      BY <2>3 DEF u9
  <1> HIDE DEF a10
  <1>7. PICK k \in Nat : Reads(lead, a10 \o o11, Resting(digits), {k})
    BY <1>2, <1>6, ReadsSocket
  <1>8. Reads(lead, a12, Resting(digits), {k})
    <2> DEFINE u11 == a10 \o o11
    <2>1. Reads(lead, u11, Resting(digits), {k})
      BY <1>7
    <2> HIDE DEF u11
    <2>2. Reads(lead, u11 \o o12, Resting(digits), {k})
      BY <1>2, <2>1, OtherFlags, ReadsSwitch DEF o12
    <2> QED
      BY <2>2 DEF u11
  <1> HIDE DEF a12
  <1>9. MountArgs(mount, <<"socket">>) = a12 \o mount.extra_args
    BY <1>1 DEF socket
  <1>10. Reads(Leading(mount), a12, Resting(CanonicalUmask(mount.umask).digits), {k})
    BY <1>8 DEF digits, lead
  <1> QED
    BY <1>9, <1>10

LEMMA UmaskSays ==
    ASSUME NEW sign, NEW digits
    PROVE  Umask(sign, digits).digits = digits
  BY DEF Umask

\* canonical_umask.
LEMMA CanonicalIs ==
    ASSUME NEW umask \in Masks, UmaskOk(umask)
    PROVE  /\ CanonicalUmask(umask).digits \in Seq(Nat)
           /\ Low(CanonicalUmask(umask).digits, 8) = Low(umask.digits, 8)
           /\ umask # None =>
                 /\ ReadBefore(CanonicalUmask(umask)) = ReadNow(umask)
                 /\ ReadNow(CanonicalUmask(umask)) = ReadNow(umask)
  <1> DEFINE digits == umask.digits
             own == CanonicalUmask(umask)
             significant == Significant(digits)
  <1>1. digits \in Seq(Nat)
    BY DEF Masks
  <1>2. CASE umask = None
    <2>1. umask.digits = <<>>
      BY <1>2, Zenon DEF None, Umask
    <2>2. own = umask
      BY <2>1 DEF CanonicalUmask, IsOctal
    <2> QED
      BY <1>1, <1>2, <2>2
  <1>3. CASE umask # None
    <2>1. IsOctal(umask) /\ UmaskFits(umask)
      BY <1>3 DEF UmaskOk
    <2>2. significant \in Seq(Nat) /\ Low(significant, 8) = Low(digits, 8)
      BY <1>1, SignificantKeeps
    <2> DEFINE zero == <<0>>
               rest == IF significant = <<>> THEN zero ELSE significant
    <2>3. own = Umask("", zero \o rest)
      BY <2>1, Zenon DEF CanonicalUmask
    <2>4. own.digits = zero \o rest
      BY <2>3, UmaskSays
    <2>5. zero \in Seq(Nat) /\ rest \in Seq(Nat)
      BY <2>2
    <2>6. Low(rest, 8) = Low(digits, 8)
      <3>1. CASE significant = <<>>
        <4>1. zero \o <<>> = zero /\ <<>> \in Seq(Nat)
          BY <2>5, ConcatEmptySeq
        <4>2. Low(zero \o <<>>, 8) = Low(<<>>, 8)
          BY <4>1, LowBehindZero
        <4> QED
          BY <2>2, <3>1, <4>1, <4>2
      <3> QED
        BY <2>2, <3>1
    <2> HIDE DEF own, rest
    <2>7. Low(own.digits, 8) = Low(digits, 8)
      BY <2>4, <2>5, <2>6, LowBehindZero
    <2>8. own.digits \in Seq(Nat) /\ Head(own.digits) = 0
      <3>1. zero \o rest \in Seq(Nat) /\ (zero \o rest)[1] = 0
        BY <2>5, LedBy
      <3>2. Head(zero \o rest) = (zero \o rest)[1]
        OBVIOUS
      <3> QED
        BY <2>4, <3>1, <3>2
    <2>9. ReadBefore(own) = Low(own.digits, 8) /\ ReadNow(own) = Low(own.digits, 8)
      BY <2>8 DEF ReadBefore, ReadNow
    <2> QED
      BY <2>7, <2>8, <2>9 DEF own, ReadNow
  <1> QED
    BY <1>2, <1>3

LEMMA EffectiveIs ==
    ASSUME NEW mount, mount.extra_args \in Seq(Extras),
           NEW said, GivenLast(mount.extra_args, mount.umask.digits, said)
    PROVE  EffectiveUmask(mount) = said
  <1> DEFINE extra == mount.extra_args
             last == CHOOSE i \in Given(extra) : \A j \in Given(extra) : j <= i
  <1>1. EffectiveUmask(mount) =
            IF Given(extra) = {} THEN mount.umask.digits
            ELSE IF extra[last].flag = UmaskFlag
            THEN IF extra[last + 1].flag = NoFlag THEN extra[last + 1].given ELSE <<extra[last + 1].flag>>
            ELSE extra[last].given
    BY Zenon DEF EffectiveUmask, IsUmask, Given, UmaskFlag, UmaskWith, NoFlag
  <1> HIDE DEF extra
  <1>2. extra \in Seq(Extras) /\ GivenLast(extra, mount.umask.digits, said)
    BY DEF extra
  <1>3. CASE Given(extra) = {}
    BY <1>1, <1>3, <1>2 DEF GivenLast
  <1>4. CASE Given(extra) # {}
    <2> DEFINE n == Len(extra)
    <2>1. n \in Nat /\ Given(extra) \in SUBSET (1..n)
      BY <1>2 DEF Given
    <2>2. \E i \in Given(extra) : \A j \in Given(extra) : j <= i
      <3> DEFINE s == Given(extra)
      <3> HIDE DEF s, n
      <3>1. Max(s) \in s /\ \A y \in s : Max(s) >= y
        BY <1>4, <2>1, SomeGreatest DEF s
      <3>2. \A y \in s : y \in Nat /\ Max(s) \in Nat
        BY <2>1, <3>1 DEF s
      <3>3. \A y \in s : y <= Max(s)
        BY <3>1, <3>2
      <3>4. \E i \in s : \A j \in s : j <= i
        BY <3>1, <3>3
      <3> QED
        BY <3>4 DEF s
    <2>3. last \in Given(extra) /\ \A j \in Given(extra) : j <= last
      BY <2>2
    <2> HIDE DEF last
    <2> QED
      BY <1>1, <1>4, <1>2, <2>3 DEF GivenLast
  <1> QED
    BY <1>3, <1>4

LEMMA EffectiveIsLow ==
    ASSUME NEW mount, NEW extra \in Seq(Extras), mount.extra_args = extra,
           NEW own, NEW said, GivenLast(extra, own, said),
           Low(own, 8) = Low(mount.umask.digits, 8)
    PROVE  Low(said, 8) = Low(EffectiveUmask(mount), 8)
  <1> DEFINE digits == mount.umask.digits
             q == IF Given(extra) = {} THEN digits ELSE said
  <1> HIDE DEF digits
  <1>1. GivenLast(extra, digits, q)
    BY DEF GivenLast
  <1>2. EffectiveUmask(mount) = q
    <2> HIDE DEF q
    <2>1. mount.extra_args \in Seq(Extras) /\ GivenLast(mount.extra_args, mount.umask.digits, q)
      BY <1>1 DEF digits
    <2> QED
      BY <2>1, EffectiveIs
  <1>3. CASE Given(extra) = {}
    <2>1. said = own /\ q = digits
      BY <1>3 DEF GivenLast
    <2> QED
      BY <1>2, <2>1 DEF digits
  <1>4. CASE Given(extra) # {}
    BY <1>2, <1>4
  <1> QED
    BY <1>3, <1>4

Spelled(umask, extra_args) == [Spellings.mount EXCEPT !.umask = umask, !.extra_args = extra_args]

LEMMA SpelledMounts ==
    ASSUME NEW umask \in Spellings.umasks, NEW extra_args \in Spellings.extras, NEW mount,
           mount = Spelled(umask, extra_args),
           MountOk(mount)
    PROVE  /\ mount \in Mounts /\ mount.umask = umask /\ mount.extra_args = extra_args
           /\ umask \in Masks
           /\ extra_args \in Seq(Extras)
  <1> DEFINE spelled == {"", "--option", "--umask", "--umask="} \cup Switches \cup RcFlags
             some == [flag : spelled, given : Seq(Nat)]
  <1>1. umask \in Masks
    <2>1. umask \in [sign : STRING, digits : Seq(Nat)]
      BY SpellingsAssumption, Zenon
    <2> QED
      BY <2>1, StringsAreCharacters DEF Masks
  <1>2. extra_args \in Seq(some)
    BY SpellingsAssumption, Zenon
  <1>3. spelled = {NoFlag, OtherFlag, UmaskFlag, UmaskWith} \cup Switches \cup RcFlags
    BY Zenon DEF NoFlag, OtherFlag, UmaskFlag, UmaskWith
  <1>4. spelled \subseteq Flags /\ STRING \subseteq Flags
    BY <1>3, FlagsDiffer, Zenon DEF Flags
  <1> HIDE DEF spelled
  <1>5. some \subseteq Words
    BY <1>4, GivensAre DEF Words
  <1>6. extra_args \in Seq(Words)
    <2> HIDE DEF some
    <2> QED
      BY <1>2, <1>5, SeqGrows
  <1>7. Spellings.mount \in
            [name : Seq(STRING), remote : Seq(STRING), path : Seq(STRING), mount_point : Seq(STRING),
             cache_mode : STRING,
             cache_max_size : [sign : STRING, isNumber : BOOLEAN, unit : Seq(STRING)],
             cache_max_age : [sign : STRING, isNumber : BOOLEAN, unit : Seq(STRING)],
             read_only : BOOLEAN, allow_other : BOOLEAN, uid : Seq(Nat), gid : Seq(Nat),
             umask : [sign : STRING, digits : Seq(Nat)],
             extra_args : Seq([flag : STRING, given : Seq(Nat)])]
    BY SpellingsAssumption, Zenon
  <1>12. [sign : STRING, isNumber : BOOLEAN, unit : Seq(STRING)] \subseteq Quantities
    BY StringsAreCharacters DEF Quantities
  <1>8. mount \in Mounts /\ mount.umask = umask /\ mount.extra_args = extra_args
    <2> DEFINE Q == [sign : STRING, isNumber : BOOLEAN, unit : Seq(STRING)]
    <2> HIDE DEF Q
    <2> QED
      BY <1>1, <1>6, <1>7, <1>12, StringsAreCharacters DEF Mounts, Spelled, Q
  <1>9. \A i \in 1..Len(extra_args) : extra_args[i] \in some /\ extra_args[i].flag \notin RcFlags
    <2> HIDE DEF some
    <2>1. \A i \in 1..Len(extra_args) : extra_args[i] \in some
      BY <1>2, ElementOfSeq
    <2>2. DOMAIN extra_args = 1..Len(extra_args)
      BY <1>2
    <2> QED
      BY <1>8, <2>1, <2>2 DEF MountOk, ToSet
  <1>10. \A i \in 1..Len(extra_args) : extra_args[i] \in Extras
    <2>1. \A word \in some : word.flag \notin RcFlags => word \in Extras
      BY <1>3 DEF Extras
    <2> HIDE DEF some
    <2> QED
      BY <1>9, <2>1
  <1>11. extra_args \in Seq(Extras)
    <2> HIDE DEF some
    <2>1. Len(extra_args) \in Nat /\ DOMAIN extra_args = 1..Len(extra_args)
          /\ extra_args = [i \in 1..Len(extra_args) |-> extra_args[i]]
      BY <1>2
    <2> DEFINE n == Len(extra_args)
               f == [i \in 1..n |-> extra_args[i]]
    <2>2. f \in [1..n -> Extras]
      BY <1>10
    <2> HIDE DEF n, f
    <2>3. f \in Seq(Extras)
      BY <2>1, <2>2 DEF n
    <2> QED
      BY <2>1, <2>3 DEF n, f
  <1> QED
    BY <1>1, <1>8, <1>11

LEMMA CommandLinesAreUnderstood == CommandLineIsUnderstood
  <1> DEFINE wordsOf(mount) == MountArgs(mount, <<"socket">>)
             givenOf(mount) == ReadUmask(SubSeq(wordsOf(mount), 4, Len(wordsOf(mount))))
  <1>1. ASSUME NEW umask \in Spellings.umasks, NEW extra_args \in Spellings.extras, NEW mount,
               mount = Spelled(umask, extra_args), MountOk(mount)
        PROVE  /\ givenOf(mount).ok /\ givenOf(mount).awaits = "" /\ ~MaskIsAValue(extra_args) =>
                     Low(givenOf(mount).umask, 8) = Low(EffectiveUmask(mount), 8)
               /\ umask # None => ReadBefore(CanonicalUmask(umask)) = ReadNow(umask)
                                      /\ ~UmaskIsAmbiguous(CanonicalUmask(umask))
               /\ Cardinality({i \in DOMAIN wordsOf(mount) : wordsOf(mount)[i].flag = "--rc-addr"}) = 1
    <2>1. /\ mount \in Mounts /\ mount.umask = umask /\ mount.extra_args = extra_args
          /\ umask \in Masks
          /\ extra_args \in Seq(Extras)
      BY <1>1, SpelledMounts
    <2>2. UmaskOk(umask)
      BY <1>1, <2>1 DEF MountOk
    <2> DEFINE lead == Leading(mount)
               own == CanonicalUmask(umask)
               digits == own.digits
               words == wordsOf(mount)
               given == givenOf(mount)
    <2>3. /\ digits \in Seq(Nat) /\ Low(digits, 8) = Low(umask.digits, 8)
          /\ umask # None => ReadBefore(own) = ReadNow(umask) /\ ReadNow(own) = ReadNow(umask)
      BY <2>1, <2>2, CanonicalIs
    <2>4. PICK front : \E k \in Nat : /\ words = front \o extra_args
                                      /\ Reads(lead, front, Resting(digits), {k})
      <3> HIDE DEF own, wordsOf, lead
      <3>1. CanonicalUmask(mount.umask).digits = digits
        BY <2>1 DEF own
      <3>2. CanonicalUmask(mount.umask).digits \in Seq(Nat)
        BY <2>3, <3>1
      <3>3. \E front : \E k \in Nat :
                /\ MountArgs(mount, <<"socket">>) = front \o mount.extra_args
                /\ Reads(Leading(mount), front, Resting(CanonicalUmask(mount.umask).digits), {k})
        BY <2>1, <3>2, LineIsRead
      <3> QED
        BY <2>1, <3>1, <3>3 DEF wordsOf, lead
    <2>5. PICK k \in Nat : words = front \o extra_args /\ Reads(lead, front, Resting(digits), {k})
      BY <2>4
    <2> HIDE DEF own, lead
    <2>6. digits \in Givens
      BY <2>3, GivensAre
    <2> DEFINE d == digits
    <2> HIDE DEF d
    <2>7. PICK reading : /\ Reads(lead, front \o extra_args, reading, {k})
                         /\ ~MaskIsAValue(extra_args) => Behind(extra_args, d, reading)
      BY <2>1, <2>5, <2>6, BehindAll DEF d
    <2>8. Reads(lead, words, reading, {k})
      BY <2>5, <2>7
    <2> HIDE DEF words
    <2>9. given = reading /\ {i \in DOMAIN words : words[i].flag = RcAddr} = {k}
      BY <2>8 DEF Reads, Rest, words
    <2>10. ASSUME given.ok, ~MaskIsAValue(extra_args) PROVE Low(given.umask, 8) = Low(EffectiveUmask(mount), 8)
      <3>1. reading.ok = TRUE
        BY <2>7, <2>9, <2>10 DEF Behind, Readings
      <3>2. GivenLast(extra_args, d, reading.umask)
        BY <2>7, <2>10, <3>1 DEF Behind
      <3>3. Low(d, 8) = Low(mount.umask.digits, 8)
        BY <2>1, <2>3 DEF d
      <3>4. Low(reading.umask, 8) = Low(EffectiveUmask(mount), 8)
        <4> DEFINE said == reading.umask
        <4> HIDE DEF said
        <4>1. GivenLast(extra_args, d, said)
          BY <3>2 DEF said
        <4>2. Low(said, 8) = Low(EffectiveUmask(mount), 8)
          BY <2>1, <3>3, <4>1, EffectiveIsLow
        <4> QED
          BY <4>2 DEF said
      <3> QED
        BY <2>9, <3>4
    <2>11. Cardinality({i \in DOMAIN words : words[i].flag = "--rc-addr"}) = 1
      <3>1. Cardinality({k}) = 1
        BY FS_Singleton
      <3> QED
        BY <2>9, <3>1, Zenon DEF RcAddr
    <2>12. umask # None => ~UmaskIsAmbiguous(own)
      BY <2>3 DEF UmaskIsAmbiguous
    <2> QED
      BY <2>3, <2>10, <2>11, <2>12 DEF own, words
  <1> QED
    BY <1>1, Zenon DEF CommandLineIsUnderstood, Spelled

\* Whatever is installed and however names, masks, sizes and extra arguments are spelled
\* (SpellingsAssumption), what is accepted works: names of mounts stay apart as units and as
\* sockets, every rclone listens on the socket alone and reads the mask that was meant,
\* unless it is spelled as another option's value, a size is refused exactly if rclone would
\* refuse it, the log is lost only if that was asked for, and a usable rclone is used
\* (rc.rs:195-203, config.rs:258-261, 317-318, 368-373, lib.rs:32-44, rclone.rs:137-141).
THEOREM AcceptedWorks == ServiceSpec => []WhatIsAcceptedWorks
  <1>1. WhatIsAcceptedWorks
    BY NamesApart, LossesAreAskedFor, CommandLinesAreUnderstood, SizesAreJudgedAlike,
       DiscoversHonestly, Zenon
       DEF WhatIsAcceptedWorks
  <1> QED
    BY <1>1, PTL

(***************************************************************************)
(* What the service starts, systemd shows it again.                        *)
(***************************************************************************)
\* The first four words of the command line: the binary, and what a mount's begins with.
LEMMA ArgvLeads ==
    ASSUME NEW mount \in Mounts, UmaskOk(mount.umask), NEW binary \in Words
    PROVE  LET argv == <<binary>> \o MountArgs(mount, <<"socket">>)
           IN  /\ Len(argv) >= 4
               /\ argv[2] = Flag("mount")
               /\ argv[3].given = FsSpec(mount) /\ argv[4].given = mount.mount_point
  <1> DEFINE args == MountArgs(mount, <<"socket">>)
             digits == CanonicalUmask(mount.umask).digits
             lead == Leading(mount)
             extra == mount.extra_args
             argv == <<binary>> \o args
  <1>1. mount.umask \in Masks /\ extra \in Seq(Words)
    BY DEF Mounts
  <1>2. digits \in Seq(Nat)
    BY <1>1, CanonicalIs
  <1>3. PICK front : \E k \in Nat : args = front \o extra /\ Reads(lead, front, Resting(digits), {k})
    <2>1. CanonicalUmask(mount.umask).digits \in Seq(Nat)
      BY <1>2
    <2> QED
      BY <2>1, LineIsRead
  <1> HIDE DEF args, digits, lead, extra
  <1>4. front \in Seq(Words) /\ Len(front) >= 3 /\ \A i \in 1..3 : front[i] = lead[i]
    BY <1>3 DEF Reads
  <1>5. /\ args \in Seq(Words) /\ Len(args) >= 3
        /\ \A i \in 1..3 : args[i] = lead[i]
    <2>1. /\ front \o extra \in Seq(Words) /\ Len(front \o extra) = Len(front) + Len(extra)
          /\ Len(front) \in Nat /\ Len(extra) \in Nat
          /\ \A i \in 1..Len(front) : (front \o extra)[i] = front[i]
      BY <1>1, <1>4, ConcatProperties, LenProperties
    <2>2. args = front \o extra
      BY <1>3
    <2>3. \A i \in 1..3 : i \in 1..Len(front)
      BY <1>4, <2>1
    <2> QED
      BY <1>4, <2>1, <2>2, <2>3
  <1>6. lead[1] = Flag("mount") /\ lead[2].given = FsSpec(mount) /\ lead[3].given = mount.mount_point
    <2> DEFINE none == ""
               first == Flag("mount")
    <2>1. lead = <<first, Word(none, FsSpec(mount)), Word(none, mount.mount_point)>>
      BY Zenon DEF lead, Leading
    <2> HIDE DEF none, first
    <2>2. /\ lead[1] = first /\ lead[2] = Word(none, FsSpec(mount))
          /\ lead[3] = Word(none, mount.mount_point)
      BY <2>1
    <2>3. \A flag, given : Word(flag, given).given = given
      BY DEF Word
    <2> QED
      BY <2>2, <2>3 DEF first
  <1>7. /\ Len(argv) = Len(args) + 1 /\ Len(args) \in Nat
        /\ \A i \in 1..Len(args) : argv[i + 1] = args[i]
    BY <1>5, LedBy
  <1>8. /\ 1 \in 1..Len(args) /\ 2 \in 1..Len(args) /\ 3 \in 1..Len(args)
        /\ 1 + 1 = 2 /\ 2 + 1 = 3 /\ 3 + 1 = 4
        /\ 1 \in 1..3 /\ 2 \in 1..3 /\ 3 \in 1..3
    BY <1>5, <1>7
  <1>9. argv[2] = lead[1] /\ argv[3] = lead[2] /\ argv[4] = lead[3] /\ Len(argv) >= 4
    <2> HIDE DEF argv
    <2> QED
      BY <1>5, <1>7, <1>8
  <1> QED
    BY <1>6, <1>9 DEF args

LEMMA MiddleOfThree ==
    ASSUME NEW a, NEW b, NEW c
    PROVE  SubSeq(<<a, b, c>>, 2, Len(<<a, b, c>>) - 1) = <<b>>
  <1> DEFINE S == {a, b, c}
             three == <<a, b, c>>
             one == <<b>>
  <1>1. three \in Seq(S) /\ Len(three) = 3 /\ three[2] = b
    BY ThreeAreASequence
  <1>2. one \in Seq(S) /\ Len(one) = 1 /\ one[1] = b
    BY OneIsASequence
  <1> HIDE DEF three, one
  <1> DEFINE middle == SubSeq(three, 2, 2)
  <1>3. middle \in Seq(S) /\ Len(middle) = 1 /\ middle[1] = b
    BY <1>1
  <1> HIDE DEF middle
  <1>4. middle = one
    BY <1>2, <1>3, SeqEqual
  <1>5. Len(three) - 1 = 2
    BY <1>1
  <1> QED
    BY <1>4, <1>5 DEF middle, three, one

LEMMA SixInARow ==
    ASSUME NEW a, NEW b, NEW c, NEW d, NEW e, NEW f
    PROVE  LET six == <<a>> \o (<<b, c>> \o <<d>> \o <<e, f>>)
           IN  /\ Len(six) = 6 /\ six[2] = b /\ six[3] = c /\ six[4] = d /\ six[5] = e /\ six[6] = f
  <1> DEFINE S == {a, b, c, d, e, f}
             s1 == <<a>>
             s2 == <<b, c>>
             s3 == <<d>>
             s4 == <<e, f>>
             s23 == s2 \o s3
             s234 == s23 \o s4
             six == s1 \o s234
  <1>1. /\ s1 \in Seq(S) /\ Len(s1) = 1
        /\ s2 \in Seq(S) /\ Len(s2) = 2 /\ s2[1] = b /\ s2[2] = c
        /\ s3 \in Seq(S) /\ Len(s3) = 1 /\ s3[1] = d
        /\ s4 \in Seq(S) /\ Len(s4) = 2 /\ s4[1] = e /\ s4[2] = f
    OBVIOUS
  <1> HIDE DEF s1, s2, s3, s4, S
  <1>2. /\ s23 \in Seq(S) /\ Len(s23) = 3 /\ s23[1] = b /\ s23[2] = c /\ s23[3] = d
    <2>1. s23[1] = s2[1] /\ s23[2] = s2[2] /\ s23[2 + 1] = s3[1]
      <3>1. 1 \in 1..Len(s2) /\ 2 \in 1..Len(s2) /\ 1 \in 1..Len(s3)
        BY <1>1
      <3> QED
        BY <1>1, <3>1, BehindOf
    <2>2. s23 \in Seq(S) /\ Len(s23) = 3
      <3>1. s23 \in Seq(S) /\ Len(s23) = Len(s2) + Len(s3)
        <4> HIDE DEF s23
        <4>1. s2 \in Seq(S) /\ s3 \in Seq(S)
          BY <1>1
        <4> QED
          BY <4>1, BehindOf DEF s23
      <3> HIDE DEF s23
      <3> QED
        BY <1>1, <3>1
    <2> HIDE DEF s23
    <2> QED
      BY <1>1, <2>1, <2>2
  <1> HIDE DEF s23
  <1>3. /\ s234 \in Seq(S) /\ Len(s234) = 5
        /\ s234[1] = b /\ s234[2] = c /\ s234[3] = d /\ s234[4] = e /\ s234[5] = f
    <2>5. s23 \in Seq(S) /\ s4 \in Seq(S)
      BY <1>1, <1>2
    <2>6. /\ s23 \o s4 \in Seq(S) /\ Len(s23 \o s4) = Len(s23) + Len(s4)
          /\ \A i \in 1..Len(s23) : (s23 \o s4)[i] = s23[i]
          /\ \A i \in 1..Len(s4) : (s23 \o s4)[Len(s23) + i] = s4[i]
      BY <2>5, BehindOf
    <2>1. /\ s234[1] = s23[1] /\ s234[2] = s23[2] /\ s234[3] = s23[3]
          /\ s234[3 + 1] = s4[1] /\ s234[3 + 2] = s4[2]
      <3>1. 1 \in 1..Len(s23) /\ 2 \in 1..Len(s23) /\ 3 \in 1..Len(s23)
            /\ 1 \in 1..Len(s4) /\ 2 \in 1..Len(s4)
        BY <1>1, <1>2
      <3> QED
        BY <1>2, <2>6, <3>1
    <2>2. s234 \in Seq(S) /\ Len(s234) = 5
      BY <1>1, <1>2, <2>6
    <2> HIDE DEF s234
    <2> QED
      BY <1>1, <1>2, <2>1, <2>2
  <1> HIDE DEF s234
  <1>4. /\ Len(six) = 6
        /\ six[2] = b /\ six[3] = c /\ six[4] = d /\ six[5] = e /\ six[6] = f
    <2>5. s1 \in Seq(S) /\ s234 \in Seq(S)
      BY <1>1, <1>3
    <2>6. /\ s1 \o s234 \in Seq(S) /\ Len(s1 \o s234) = Len(s1) + Len(s234)
          /\ \A i \in 1..Len(s1) : (s1 \o s234)[i] = s1[i]
          /\ \A i \in 1..Len(s234) : (s1 \o s234)[Len(s1) + i] = s234[i]
      BY <2>5, BehindOf
    <2>1. /\ six[1 + 1] = s234[1] /\ six[1 + 2] = s234[2] /\ six[1 + 3] = s234[3]
          /\ six[1 + 4] = s234[4] /\ six[1 + 5] = s234[5]
      <3>1. 1 \in 1..Len(s234) /\ 2 \in 1..Len(s234) /\ 3 \in 1..Len(s234)
            /\ 4 \in 1..Len(s234) /\ 5 \in 1..Len(s234)
        BY <1>3
      <3> QED
        BY <1>1, <2>6, <3>1
    <2>2. Len(six) = 6
      BY <1>1, <1>3, <2>6
    <2> HIDE DEF six
    <2> QED
      BY <1>3, <2>1, <2>2
  <1> QED
    BY <1>4 DEF s1, s234, s23, s2, s3, s4

LEMMA Handmade ==
    LET name == <<UNIT_PREFIX, ".", ".service">>
    IN  /\ Head(name) = UNIT_PREFIX /\ Last(name) = ".service" /\ OrphanName(name) = {}
        /\ name # <<>>
  <1> DEFINE name == <<UNIT_PREFIX, ".", ".service">>
  <1>1. Head(name) = UNIT_PREFIX /\ Last(name) = ".service" /\ name # <<>>
    BY DEF Last
  <1>2. SubSeq(name, 2, Len(name) - 1) = <<".">>
    BY MiddleOfThree
  <1> QED
    BY <1>1, <1>2, Zenon DEF OrphanName

\* The name in the unit's is the mount's.
LEMMA OrphanIsNamed ==
    ASSUME NEW name \in Seq(Characters), NameOk(name)
    PROVE  /\ OrphanName(UnitName(name)) = {name}
           /\ Head(UnitName(name)) = UNIT_PREFIX /\ Last(UnitName(name)) = ".service"
  <1> DEFINE unit == UnitName(name)
             n == Len(name)
             suffix == ".service"
  <1>1. /\ unit \in Seq(Characters) /\ Len(unit) = n + 2 /\ n \in Nat \ {0}
        /\ unit[1] = UNIT_PREFIX /\ unit[n + 2] = suffix
        /\ \A i \in 1..n : unit[i + 1] = name[i]
    BY UnitNameWraps
  <1> HIDE DEF unit, suffix
  <1>2. Head(unit) = UNIT_PREFIX /\ Last(unit) = suffix
    BY <1>1 DEF Last
  <1> DEFINE inner == SubSeq(unit, 2, Len(unit) - 1)
  <1>3. inner = name
    <2>1. inner = SubSeq(unit, 2, n + 1)
      BY <1>1
    <2>2. /\ SubSeq(unit, 2, n + 1) \in Seq(Characters) /\ Len(SubSeq(unit, 2, n + 1)) = n
          /\ \A i \in 1..n : SubSeq(unit, 2, n + 1)[i] = unit[i + 1]
      BY <1>1
    <2> HIDE DEF inner
    <2>3. \A i \in 1..n : inner[i] = name[i]
      BY <1>1, <2>1, <2>2
    <2> QED
      BY <2>1, <2>2, <2>3, SeqEqual
  <1>4. name \notin {<<>>, <<".">>, <<".", ".">>}
    BY DEF NameOk
  <1>5. Len(unit) > 1
    BY <1>1
  <1> HIDE DEF inner
  <1>6. OrphanName(unit) = {inner}
    BY <1>2, <1>3, <1>4, <1>5, Zenon DEF OrphanName, inner, suffix
  <1> QED
    BY <1>2, <1>3, <1>6 DEF unit, suffix

\* The hook reads its own arguments.
LEMMA HookIsTold ==
    ASSUME NEW name \in Seq(Characters), ~LooksLikeAFlag(name), NEW own
    PROVE  LET config == <<"/", "config">>
               args == Argument("--config", config) \o <<Flag("prepare-mount")>> \o Argument("--name", name)
           IN  PrepareMount(<<own>> \o args) = {[config |-> config, name |-> name]}
  <1> DEFINE config == <<"/", "config">>
             w1 == Flag("--config")
             w2 == Text(config)
             w3 == Flag("prepare-mount")
             w4 == Flag("--name")
             w5 == Text(name)
             args == Argument("--config", config) \o <<w3>> \o Argument("--name", name)
             argv == <<own>> \o args
  <1>1. args = <<w1, w2>> \o <<w3>> \o <<w4, w5>>
    BY Zenon DEF Argument
  <1>2. ~LooksLikeAFlag(config)
    BY DEF LooksLikeAFlag
  <1>3. w2.given = config /\ w5.given = name
    BY DEF Text, Word
  <1> HIDE DEF w1, w2, w3, w4, w5, config
  <1>4. argv = <<own>> \o (<<w1, w2>> \o <<w3>> \o <<w4, w5>>)
    BY <1>1
  <1> HIDE DEF argv
  <1>6. /\ Len(argv) = 6 /\ argv[2] = w1 /\ argv[3] = w2 /\ argv[4] = w3
        /\ argv[5] = w4 /\ argv[6] = w5
    <2>1. LET six == <<own>> \o (<<w1, w2>> \o <<w3>> \o <<w4, w5>>)
          IN  /\ Len(six) = 6 /\ six[2] = w1 /\ six[3] = w2 /\ six[4] = w3
              /\ six[5] = w4 /\ six[6] = w5
      BY SixInARow
    <2> QED
      BY <1>4, <2>1
  <1>7. PrepareMount(argv) = {[config |-> config, name |-> name]}
    <2>1. <<argv[2], argv[4], argv[5]>> = <<Flag("--config"), Flag("prepare-mount"), Flag("--name")>>
      BY <1>6 DEF w1, w3, w4
    <2> QED
      BY <1>2, <1>3, <1>6, <2>1, Zenon DEF PrepareMount
  <1> QED
    BY <1>7 DEF argv, w3, config

Spawn(mount, own) ==
    StartTransient(UnitSpec(mount, <<"rclone">>, <<"socket">>, own, <<"/", "config">>))

LEMMA UnitIsTold ==
    ASSUME NEW mount \in Mounts, UmaskOk(mount.umask), NameOk(mount.name), NEW own
    PROVE  LET unit == Spawn(mount, own)
           IN  /\ unit.name = UnitName(mount.name)
               /\ Serving(unit.ExecStart.argv) =
                      {[fs_spec |-> FsSpec(mount), mount_point |-> mount.mount_point]}
  <1> DEFINE unit == Spawn(mount, own)
             binary == Text(<<"rclone">>)
             argv == <<binary>> \o MountArgs(mount, <<"socket">>)
  <1>1. unit.name = UnitName(mount.name) /\ unit.ExecStart.argv = argv
    BY DEF Spawn, StartTransient, UnitSpec
  <1>2. binary \in Words
    <2> DEFINE given == <<"rclone">>
    <2>1. "rclone" \in Characters
      BY Zenon DEF Characters
    <2>2. given \in Givens
      BY <2>1, OneIsASequence, GivensAre
    <2>3. binary = Word(NoFlag, given)
      BY Zenon DEF Text, NoFlag
    <2> HIDE DEF given
    <2> QED
      BY <2>2, <2>3, FlagsDiffer, WordIs
  <1> HIDE DEF unit, binary
  <1>3. /\ Len(argv) >= 4 /\ argv[2] = Flag("mount")
        /\ argv[3].given = FsSpec(mount) /\ argv[4].given = mount.mount_point
    BY <1>2, ArgvLeads
  <1> HIDE DEF argv
  <1>4. ~(Len(argv) < 4)
    <2>1. argv \in Seq(Words)
      <3> DEFINE args == MountArgs(mount, <<"socket">>)
      <3>1. args \in Seq(Words)
        <4>1. CanonicalUmask(mount.umask).digits \in Seq(Nat)
          BY CanonicalIs DEF Mounts
        <4>2. PICK front : \E k \in Nat :
                  /\ MountArgs(mount, <<"socket">>) = front \o mount.extra_args
                  /\ Reads(Leading(mount), front, Resting(CanonicalUmask(mount.umask).digits), {k})
          BY <4>1, LineIsRead
        <4>3. front \in Seq(Words) /\ mount.extra_args \in Seq(Words)
          BY <4>2 DEF Reads, Mounts
        <4> QED
          BY <4>2, <4>3, ConcatProperties
      <3> HIDE DEF args
      <3>2. <<binary>> \o args \in Seq(Words)
        BY <1>2, <3>1, LedBy
      <3> QED
        BY <3>2 DEF argv, args
    <2> QED
      BY <1>3, <2>1
  <1>5. Serving(argv) = {[fs_spec |-> FsSpec(mount), mount_point |-> mount.mount_point]}
    BY <1>3, <1>4, Zenon DEF Serving
  <1> QED
    BY <1>1, <1>5 DEF unit

LEMMA UnitsAreListed ==
    ASSUME NEW mount \in Mounts, UmaskOk(mount.umask), NameOk(mount.name), NEW own
    PROVE  LET unit == Spawn(mount, own)
               serving == [fs_spec |-> FsSpec(mount), mount_point |-> mount.mount_point]
           IN  /\ ListUnits({unit, ByHand(unit)}) =
                      {[name |-> unit.name, serving |-> {serving}],
                       [name |-> ByHand(unit).name, serving |-> {}]}
               /\ OrphanName(unit.name) = {mount.name} /\ OrphanName(ByHand(unit).name) = {}
  <1> DEFINE unit == Spawn(mount, own)
             hand == ByHand(unit)
             serving == [fs_spec |-> FsSpec(mount), mount_point |-> mount.mount_point]
             Shown(u) == [name |-> u.name,
                          serving |-> IF Last(u.name) = ".service" THEN Serving(u.ExecStart.argv) ELSE {}]
  <1>1. unit.name = UnitName(mount.name) /\ Serving(unit.ExecStart.argv) = {serving}
    BY UnitIsTold
  <1>2. /\ OrphanName(unit.name) = {mount.name}
        /\ Head(unit.name) = UNIT_PREFIX /\ Last(unit.name) = ".service"
    BY <1>1, OrphanIsNamed DEF Mounts
  <1>3. /\ hand.name = <<UNIT_PREFIX, ".", ".service">>
        /\ hand.ExecStart.argv = <<Text(<<"rclone">>), Flag("serve")>>
    BY DEF ByHand, Spawn, StartTransient
  <1>4. /\ Head(hand.name) = UNIT_PREFIX /\ Last(hand.name) = ".service"
        /\ OrphanName(hand.name) = {}
    BY <1>3, Handmade
  <1>5. Serving(hand.ExecStart.argv) = {}
    <2> DEFINE argv == <<Text(<<"rclone">>), Flag("serve")>>
    <2>1. Len(argv) < 4
      OBVIOUS
    <2> HIDE DEF argv
    <2>2. hand.ExecStart.argv = argv
      BY <1>3 DEF argv
    <2> QED
      BY <2>1, <2>2, Zenon DEF Serving
  <1> HIDE DEF unit, hand, serving
  <1>6. ListUnits({unit, hand}) = {Shown(unit), Shown(hand)}
    <2>1. {u \in {unit, hand} : Head(u.name) = UNIT_PREFIX} = {unit, hand}
      BY <1>2, <1>4
    <2>2. ListUnits({unit, hand}) = {Shown(u) : u \in {unit, hand}}
      BY <2>1, Zenon DEF ListUnits
    <2> HIDE DEF Shown
    <2> QED
      BY <2>2
  <1>7. Shown(unit) = [name |-> unit.name, serving |-> {serving}]
    BY <1>1, <1>2, Zenon
  <1>8. Shown(hand) = [name |-> hand.name, serving |-> {}]
    BY <1>4, <1>5, Zenon
  <1> HIDE DEF Shown
  <1> QED
    BY <1>2, <1>4, <1>6, <1>7, <1>8 DEF unit, hand, serving

LEMMA HookIsGiven ==
    ASSUME NEW mount \in Mounts, ~LooksLikeAFlag(mount.name)
    PROVE  UNION {PrepareMount(hook.argv) : hook \in Spawn(mount, "in place").ExecStartPre}
               = {[config |-> <<"/", "config">>, name |-> mount.name]}
  <1> DEFINE config == <<"/", "config">>
             binary == Text(<<"own binary">>)
             args == Argument("--config", config) \o <<Flag("prepare-mount")>>
                         \o Argument("--name", mount.name)
             hook == [argv |-> <<binary>> \o args, ignore_errors |-> TRUE]
             pre == Spawn(mount, "in place").ExecStartPre
  <1> HIDE DEF config, binary
  <1>1. pre = {hook}
    <2> DEFINE Hooks(all) == {[argv |-> <<binary>> \o words, ignore_errors |-> TRUE] : words \in all}
    <2>1. PreStartHook("in place", config, mount.name) = {args}
      BY Zenon DEF PreStartHook
    <2>2. pre = Hooks(PreStartHook("in place", config, mount.name))
      BY Zenon DEF Spawn, StartTransient, UnitSpec, config, binary
    <2> HIDE DEF args
    <2>3. Hooks({args}) = {[argv |-> <<binary>> \o args, ignore_errors |-> TRUE]}
      OBVIOUS
    <2> HIDE DEF Hooks, pre
    <2> QED
      BY <2>1, <2>2, <2>3
  <1>2. PrepareMount(hook.argv) = {[config |-> config, name |-> mount.name]}
    <2>1. hook.argv = <<binary>> \o args
      OBVIOUS
    <2>2. PrepareMount(<<binary>> \o args) = {[config |-> config, name |-> mount.name]}
      BY HookIsTold DEF Mounts, config
    <2> HIDE DEF hook, args
    <2> QED
      BY <2>1, <2>2
  <1> HIDE DEF hook, pre
  <1>3. UNION {PrepareMount(h.argv) : h \in {hook}} = PrepareMount(hook.argv)
    OBVIOUS
  <1> QED
    BY <1>1, <1>2, <1>3 DEF pre, config

LEMMA SystemdKnows ==
    ASSUME NEW mount \in Mounts, UmaskOk(mount.umask), NameOk(mount.name)
    PROVE  KnownToSystemd(mount)
  <1> DEFINE Listed(unit) ==
                 /\ ListUnits({unit, ByHand(unit)}) =
                        {[name |-> unit.name,
                          serving |-> {[fs_spec |-> FsSpec(mount), mount_point |-> mount.mount_point]}],
                         [name |-> ByHand(unit).name, serving |-> {}]}
                 /\ OrphanName(unit.name) = {mount.name} /\ OrphanName(ByHand(unit).name) = {}
             Told(unit) == UNION {PrepareMount(hook.argv) : hook \in unit.ExecStartPre}
                               = {[config |-> <<"/", "config">>, name |-> mount.name]}
  <1>2. \A own : Listed(Spawn(mount, own))
    BY UnitsAreListed
  <1>3. ~LooksLikeAFlag(mount.name) => Told(Spawn(mount, "in place"))
    BY HookIsGiven
  <1>4. \A own \in Binary : /\ Listed(Spawn(mount, own))
                            /\ own = "in place" /\ ~LooksLikeAFlag(mount.name) => Told(Spawn(mount, own))
    <2> HIDE DEF Listed, Told
    <2> QED
      BY <1>2, <1>3, Zenon
  <1> QED
    BY <1>4, Zenon DEF KnownToSystemd, Spawn

(***************************************************************************)
(* The mount table.  What the kernel escapes is read back.                 *)
(***************************************************************************)
Blank == " "

Tab == "\t"

Newline == "\n"

Backslash == "\\"

Dash == "-"

Pairs(a, b, c, d) ==
    {<<a, <<"0", "4", "0">>>>, <<b, <<"0", "1", "1">>>>, <<c, <<"0", "1", "2">>>>, <<d, <<"1", "3", "4">>>>}

Digits == {"0", "1", "2", "3", "4"}

LEMMA PairsTell ==
    ASSUME NEW a, NEW b, NEW c, NEW d, a # b, a # c, a # d, b # c, b # d, c # d,
           NEW p \in Pairs(a, b, c, d)
    PROVE  /\ \A q \in Pairs(a, b, c, d) : q[1] = p[1] \/ q[2] = p[2] => q = p
           /\ p[1] \in {a, b, c, d}
           /\ p[2] \in Seq(Digits) /\ Len(p[2]) = 3 /\ p[2] = <<p[2][1], p[2][2], p[2][3]>>
           /\ p[2][1] \in {"0", "1"} /\ p[2][2] \in Digits /\ p[2][3] \in Digits
  <1>1. ASSUME NEW q \in Pairs(a, b, c, d), q[1] = p[1] PROVE q = p
    BY <1>1 DEF Pairs
  <1>2. ASSUME NEW q \in Pairs(a, b, c, d), q[2] = p[2] PROVE q = p
    <2> DEFINE x == <<"0", "4", "0">>
               y == <<"0", "1", "1">>
               z == <<"0", "1", "2">>
               w == <<"1", "3", "4">>
    <2>1. x # y /\ x # z /\ x # w /\ y # z /\ y # w /\ z # w
      OBVIOUS
    <2>2. /\ p \in {<<a, x>>, <<b, y>>, <<c, z>>, <<d, w>>}
          /\ q \in {<<a, x>>, <<b, y>>, <<c, z>>, <<d, w>>}
      BY DEF Pairs
    <2> HIDE DEF x, y, z, w
    <2> QED
      BY <1>2, <2>1, <2>2
  <1>3. p[1] \in {a, b, c, d}
    BY DEF Pairs
  <1>4. \E x, y, z \in Digits : p[2] = <<x, y, z>> /\ x \in {"0", "1"}
    BY DEF Pairs, Digits
  <1> QED
    BY <1>1, <1>2, <1>3, <1>4

LEMMA BlanksDiffer ==
    /\ KernelEscapes = Pairs(Blank, Tab, Newline, Backslash)
    /\ Blank # Tab /\ Blank # Newline /\ Blank # Backslash /\ Tab # Newline /\ Tab # Backslash
    /\ Newline # Backslash
    /\ {Blank, Tab, Newline, Backslash} \subseteq Characters /\ Digits \subseteq Characters
    /\ Blank \notin Digits /\ Newline \notin Digits /\ Backslash \notin Digits
  BY Zenon DEF KernelEscapes, Pairs, Blank, Tab, Newline, Backslash, Characters, Digits

Escapees == {Blank, Tab, Newline, Backslash}

LEMMA CodeIs ==
    ASSUME NEW pair \in KernelEscapes
    PROVE  /\ \A q \in KernelEscapes : q[1] = pair[1] \/ q[2] = pair[2] => q = pair
           /\ pair[1] \in Escapees /\ pair[1] \in Characters
           /\ pair[2] \in Seq(Characters) /\ Len(pair[2]) = 3
           /\ \A i \in 1..3 : pair[2][i] \in Digits
           /\ IsByte(pair[2]) /\ Byte(pair[2]) = pair[1]
  <1>1. pair \in Pairs(Blank, Tab, Newline, Backslash)
    BY BlanksDiffer
  <1>2. /\ \A q \in Pairs(Blank, Tab, Newline, Backslash) : q[1] = pair[1] \/ q[2] = pair[2] => q = pair
        /\ pair[1] \in {Blank, Tab, Newline, Backslash}
        /\ pair[2] \in Seq(Digits) /\ Len(pair[2]) = 3
        /\ pair[2][1] \in {"0", "1"} /\ pair[2][2] \in Digits /\ pair[2][3] \in Digits
    BY <1>1, BlanksDiffer, PairsTell
  <1>3. \A q \in KernelEscapes : q[1] = pair[1] \/ q[2] = pair[2] => q = pair
    BY <1>2, BlanksDiffer
  <1>4. pair[1] \in Escapees /\ pair[1] \in Characters
    BY <1>2, BlanksDiffer DEF Escapees
  <1>5. pair[2] \in Seq(Characters)
    BY <1>2, BlanksDiffer, SeqGrows
  <1>6. \A i \in 1..3 : pair[2][i] \in Digits
    BY <1>2, ElementOfSeq
  <1> DEFINE digits == pair[2]
  <1>7. IsByte(digits)
    <2> HIDE DEF digits
    <2>1. digits[1] \in {"0", "1"} /\ digits[2] \in Digits /\ digits[3] \in Digits
      BY <1>2 DEF digits
    <2> QED
      BY <2>1 DEF IsByte, Digits
  <1>8. Byte(digits) = pair[1]
    <2>1. digits[1] # "+"
      BY <1>2
    <2>2. (CHOOSE q \in KernelEscapes : q[2] = digits) = pair
      BY <1>3
    <2> HIDE DEF digits
    <2>3. \E q \in KernelEscapes : q[2] = digits
      BY DEF digits
    <2>4. Byte(digits) = (CHOOSE q \in KernelEscapes : q[2] = digits)[1]
      BY <2>1, <2>3, Zenon DEF Byte
    <2> QED
      BY <2>2, <2>4
  <1> QED
    BY <1>2, <1>3, <1>4, <1>5, <1>6, <1>7, <1>8

LEMMA ByteIsOne ==
    ASSUME NEW digits
    PROVE  Byte(digits) \in Characters
  <1> DEFINE code == IF digits[1] = "+" THEN [digits EXCEPT ![1] = "0"] ELSE digits
  <1>1. CASE \E pair \in KernelEscapes : pair[2] = code
    <2> DEFINE chosen == CHOOSE pair \in KernelEscapes : pair[2] = code
    <2>1. chosen \in KernelEscapes
      BY <1>1
    <2>2. Byte(digits) = chosen[1]
      BY <1>1, Zenon DEF Byte
    <2> HIDE DEF chosen
    <2> QED
      BY <2>1, <2>2, CodeIs
  <1>2. CASE ~\E pair \in KernelEscapes : pair[2] = code
    <2>1. Byte(digits) = "another byte"
      BY <1>2, Zenon DEF Byte
    <2> QED
      BY <2>1, Zenon DEF Characters
  <1> QED
    BY <1>1, <1>2

\* Escape, one character of it.
Coded ==
    [c \in Characters |->
        IF \E pair \in KernelEscapes : pair[1] = c
        THEN <<Backslash>> \o (CHOOSE pair \in KernelEscapes : pair[1] = c)[2]
        ELSE <<c>>]

LEMMA EscapeSpreads ==
    ASSUME NEW text \in Seq(Characters)
    PROVE  Escape(text) = Spread(text, Coded)
  <1> DEFINE Written(c) == IF \E pair \in KernelEscapes : pair[1] = c
                           THEN <<Backslash>> \o (CHOOSE pair \in KernelEscapes : pair[1] = c)[2]
                           ELSE <<c>>
  <1>1. Escape(text) = FlattenSeq([i \in DOMAIN text |-> Written(text[i])])
    BY Zenon DEF Escape, Backslash
  <1>2. \A c \in Characters : Coded[c] = Written(c)
    BY DEF Coded
  <1>3. \A i \in DOMAIN text : text[i] \in Characters
    BY ElementOfSeq
  <1> HIDE DEF Written
  <1>4. [i \in DOMAIN text |-> Written(text[i])] = [i \in DOMAIN text |-> Coded[text[i]]]
    BY <1>2, <1>3
  <1> QED
    BY <1>1, <1>4, Zenon DEF Spread

LEMMA CodedIs ==
    ASSUME NEW c \in Characters
    PROVE  /\ Coded[c] \in Seq(Characters) /\ Len(Coded[c]) \in Nat \ {0}
           /\ c \notin Escapees => Coded[c] = <<c>>
           /\ c \in Escapees =>
                 \E pair \in KernelEscapes :
                     /\ pair[1] = c
                     /\ Len(Coded[c]) = 4 /\ Coded[c][1] = Backslash
                     /\ \A i \in 1..3 : Coded[c][i + 1] = pair[2][i]
           /\ \A i \in 1..Len(Coded[c]) : Coded[c][i] \notin {Blank, Newline}
  <1>1. CASE c \in Escapees
    <2>1. PICK pair \in KernelEscapes : pair[1] = c
      <3>1. \A a, b, x, y : /\ \E p \in Pairs(a, b, x, y) : p[1] = a
                            /\ \E p \in Pairs(a, b, x, y) : p[1] = b
                            /\ \E p \in Pairs(a, b, x, y) : p[1] = x
                            /\ \E p \in Pairs(a, b, x, y) : p[1] = y
        BY DEF Pairs
      <3> QED
        BY <1>1, <3>1, BlanksDiffer DEF Escapees
    <2>2. (CHOOSE q \in KernelEscapes : q[1] = c) = pair
      BY <2>1, CodeIs
    <2> DEFINE code == pair[2]
    <2>3. /\ code \in Seq(Characters) /\ Len(code) = 3 /\ \A i \in 1..3 : code[i] \in Digits
      BY CodeIs
    <2>4. Coded[c] = <<Backslash>> \o code
      BY <2>1, <2>2 DEF Coded
    <2>5. Backslash \in Characters
      BY BlanksDiffer
    <2> HIDE DEF code
    <2>6. /\ Coded[c] \in Seq(Characters) /\ Len(Coded[c]) = 4
          /\ Coded[c][1] = Backslash
          /\ \A i \in 1..3 : Coded[c][i + 1] = code[i]
      BY <2>3, <2>4, <2>5, LedBy
    <2>7. ASSUME NEW i \in 1..4 PROVE Coded[c][i] \notin {Blank, Newline}
      <3>1. CASE i = 1
        BY <2>6, <3>1, BlanksDiffer
      <3>2. CASE i # 1
        <4>1. i - 1 \in 1..3 /\ (i - 1) + 1 = i
          BY <3>2
        <4>2. Coded[c][(i - 1) + 1] = code[i - 1] /\ code[i - 1] \in Digits
          BY <2>3, <2>6, <4>1
        <4>3. Coded[c][i] \in Digits
          BY <4>1, <4>2
        <4> QED
          BY <4>3, BlanksDiffer
      <3> QED
        BY <3>1, <3>2
    <2> QED
      BY <1>1, <2>1, <2>6, <2>7 DEF code
  <1>2. CASE c \notin Escapees
    <2>1. ~\E pair \in KernelEscapes : pair[1] = c
      BY <1>2, CodeIs
    <2>2. Coded[c] = <<c>>
      BY <2>1 DEF Coded
    <2>3. c \notin {Blank, Newline}
      BY <1>2 DEF Escapees
    <2> QED
      BY <1>2, <2>2, <2>3, OneIsASequence
  <1> QED
    BY <1>1, <1>2

\* One step of Unescape, and the states it goes through.
Unescaping == [said : Seq(Characters), next : Nat]

NothingSaid == [said |-> <<>>, next |-> 1]

ReadOn(text, done, i) ==
    IF i < done.next THEN done
    ELSE IF IsEscape(text, i)
    THEN [said |-> Append(done.said, Byte(SubSeq(text, i + 1, i + 3))), next |-> i + 4]
    ELSE [said |-> Append(done.said, text[i]), next |-> i + 1]

\* What is made of a text, index by index.
Unescapes(text, run) ==
    /\ run \in [0..Len(text) -> Unescaping]
    /\ run[0] = NothingSaid
    /\ \A i \in 1..Len(text) : run[i] = ReadOn(text, run[i - 1], i)
    /\ Unescape(text) = run[Len(text)].said

LEMMA ReadOnType ==
    ASSUME NEW text \in Seq(Characters), NEW done \in Unescaping, NEW i \in 1..Len(text)
    PROVE  ReadOn(text, done, i) \in Unescaping
  <1>1. done.said \in Seq(Characters) /\ i \in Nat /\ text[i] \in Characters
    BY ElementOfSeq DEF Unescaping
  <1>2. \A c \in Characters : Append(done.said, c) \in Seq(Characters)
    BY <1>1, AppendProperties
  <1>3. Byte(SubSeq(text, i + 1, i + 3)) \in Characters
    BY ByteIsOne
  <1> DEFINE byte == Byte(SubSeq(text, i + 1, i + 3))
  <1> HIDE DEF byte
  <1>4. Append(done.said, byte) \in Seq(Characters) /\ Append(done.said, text[i]) \in Seq(Characters)
    BY <1>1, <1>2, <1>3 DEF byte
  <1>5. i + 4 \in Nat /\ i + 1 \in Nat
    BY <1>1
  <1> DEFINE a == Append(done.said, byte)
             b == Append(done.said, text[i])
  <1>6. a \in Seq(Characters) /\ b \in Seq(Characters)
    BY <1>4
  <1> HIDE DEF a, b
  <1>7. [said |-> a, next |-> i + 4] \in Unescaping /\ [said |-> b, next |-> i + 1] \in Unescaping
    BY <1>5, <1>6 DEF Unescaping
  <1> QED
    BY <1>7 DEF ReadOn, a, b, byte

LEMMA UnescapeRuns ==
    ASSUME NEW text \in Seq(Characters)
    PROVE  \E run : Unescapes(text, run)
  <1> DEFINE n == Len(text)
             places == [i \in DOMAIN text |-> i]
             G == [x \in Unescaping \X (1..n) |-> ReadOn(text, x[1], x[2])]
             Folds(g) == g = [s \in SUBSET (1..n) |->
                                 IF s = {} THEN NothingSaid
                                 ELSE ReadOn(text, g[s \ {Max(s)}], places[Max(s)])]
             iter == CHOOSE g : Folds(g)
  <1>1. n \in Nat /\ DOMAIN text = 1..n
    BY LenProperties
  <1>2. /\ places \in Seq(1..n) /\ Len(places) = n /\ DOMAIN places = 1..n
        /\ \A i \in 1..n : places[i] = i
    <2> HIDE DEF n
    <2>1. places = [i \in 1..n |-> i]
      BY <1>1
    <2> HIDE DEF places
    <2> QED
      BY <1>1, <2>1
  <1>3. Unescape(text) = iter[1..n].said
    BY <1>2, Zenon DEF Unescape, FoldLeft, MapThenFoldSet, ReadOn, NothingSaid
  <1>4. NothingSaid \in Unescaping
    BY DEF NothingSaid, Unescaping
  <1>5. Acts(G, Unescaping, 1..n)
    BY ReadOnType DEF Acts
  <1>6. \A done \in Unescaping, i \in 1..n : G[<<done, i>>] = ReadOn(text, done, i)
    OBVIOUS
  <1> HIDE DEF G, places, n
  <1>7. PICK h : Iterator(Unescaping, G, NothingSaid, places, h)
    BY <1>2, <1>4, <1>5, IteratorExists DEF HasIterator
  <1>8. ASSUME NEW s \in SUBSET (1..n)
        PROVE  h[s] = IF s = {} THEN NothingSaid ELSE ReadOn(text, h[s \ {Max(s)}], places[Max(s)])
    <2>1. CASE s = {}
      BY <1>7, <2>1 DEF Iterator, Iterates
    <2>2. CASE s # {}
      <3>1. places[Max(s)] \in 1..n /\ s \ {Max(s)} \in SUBSET (1..n)
        BY <1>2, <2>2, GreatestOf
      <3>2. h[s \ {Max(s)}] \in Unescaping
        BY <1>2, <1>7, <3>1 DEF Iterator
      <3>3. h[s] = G[<<h[s \ {Max(s)}], places[Max(s)]>>]
        BY <1>2, <1>7, <2>2, <3>2 DEF Iterator, Iterates
      <3> QED
        BY <1>6, <2>2, <3>1, <3>2, <3>3
    <2> QED
      BY <2>1, <2>2
  <1>9. Folds(h)
    BY <1>2, <1>7, <1>8 DEF Iterator
  <1>10. Folds(iter)
    BY <1>9
  <1> HIDE DEF iter
  <1>11. ASSUME NEW s \in SUBSET (1..n), s # {}, iter[s \ {Max(s)}] \in Unescaping
         PROVE  iter[s] = G[<<iter[s \ {Max(s)}], places[Max(s)]>>]
    <2>1. places[Max(s)] \in 1..n
      BY <1>2, <1>11, GreatestOf
    <2> QED
      BY <1>6, <1>10, <1>11, <2>1
  <1>12. Iterates(Unescaping, G, NothingSaid, places, iter)
    BY <1>2, <1>10, <1>11 DEF Iterates
  <1>13. Folded(Unescaping, G, NothingSaid, places, iter[1..n])
    BY <1>2, <1>4, <1>5, <1>12, IteratesFolds
  <1>14. PICK run : /\ run \in [0..n -> Unescaping] /\ run[0] = NothingSaid
                    /\ \A i \in 1..n : run[i] = G[<<run[i - 1], places[i]>>]
                    /\ iter[1..n] = run[n]
    BY <1>2, <1>13 DEF Folded
  <1>15. ASSUME NEW i \in 1..n PROVE run[i] = ReadOn(text, run[i - 1], i)
    <2>1. i - 1 \in 0..n
      BY <1>1
    <2>2. run[i - 1] \in Unescaping
      BY <1>14, <2>1
    <2> QED
      BY <1>2, <1>6, <1>14, <2>2
  <1>16. Unescapes(text, run)
    BY <1>3, <1>14, <1>15 DEF Unescapes, n
  <1> QED
    BY <1>16

\* A sequence in the middle of another.
Holds(text, p, code) ==
    p + Len(code) <= Len(text) /\ \A i \in 1..Len(code) : text[p + i] = code[i]

LEMMA HeldBetween ==
    ASSUME NEW S, NEW front \in Seq(S), NEW code \in Seq(S), NEW rest \in Seq(S)
    PROVE  Holds(front \o (code \o rest), Len(front), code)
  <1> DEFINE behind == code \o rest
             text == front \o behind
  <1>1. /\ behind \in Seq(S) /\ Len(behind) = Len(code) + Len(rest)
        /\ Len(rest) \in Nat /\ Len(code) \in Nat
        /\ \A i \in 1..Len(code) : behind[i] = code[i]
    BY BehindOf
  <1> HIDE DEF behind
  <1>5. behind \in Seq(S)
    BY <1>1
  <1>2. /\ Len(text) = Len(front) + Len(behind) /\ Len(front) \in Nat
        /\ \A i \in 1..Len(behind) : text[Len(front) + i] = behind[i]
    BY <1>5, BehindOf
  <1> HIDE DEF text
  <1>3. Len(front) + Len(code) <= Len(text)
    BY <1>1, <1>2
  <1>4. ASSUME NEW i \in 1..Len(code) PROVE text[Len(front) + i] = code[i]
    <2>1. i \in 1..Len(behind)
      BY <1>1
    <2> QED
      BY <1>1, <1>2, <2>1
  <1> QED
    BY <1>3, <1>4 DEF Holds, text, behind

\* What the code of one character adds to what is said.
LEMMA CodeIsReadAs ==
    ASSUME NEW text \in Seq(Characters), NEW run, Unescapes(text, run),
           NEW p \in Nat, NEW c \in Characters, Holds(text, p, Coded[c]),
           NEW said \in Seq(Characters), run[p] = [said |-> said, next |-> p + 1]
    PROVE  run[p + Len(Coded[c])] =
               [said |-> Append(said, c), next |-> p + Len(Coded[c]) + 1]
  <1> DEFINE n == Len(text)
             code == Coded[c]
             k == Len(code)
             q == p + 1
  <1>1. p \in Nat /\ n \in Nat /\ k \in Nat \ {0} /\ code \in Seq(Characters)
    BY CodedIs, LenProperties
  <1>4. p + k <= n /\ \A i \in 1..k : text[p + i] = code[i]
    BY DEF Holds
  <1>5. run[p] = [said |-> said, next |-> q]
    OBVIOUS
  <1>6. \A i \in 1..n : run[i] = ReadOn(text, run[i - 1], i)
    BY DEF Unescapes
  <1> HIDE DEF n, k, code
  <1>7. q \in 1..n /\ q - 1 = p /\ text[q] = code[1]
    <2>1. 1 \in 1..k
      BY <1>1
    <2> QED
      BY <1>1, <1>4, <2>1
  <1>8. run[q] = ReadOn(text, run[p], q)
    BY <1>6, <1>7
  <1>9. ~(q < run[p].next) /\ run[p].said = said
    BY <1>1, <1>5
  <1> HIDE DEF q
  <1>10. CASE c \notin Escapees
    <2>1. code = <<c>> /\ k = 1 /\ code[1] = c
      BY <1>10, CodedIs, OneIsASequence DEF code, k
    <2>2. ~IsEscape(text, q)
      BY <1>7, <1>10, <2>1, Zenon DEF IsEscape, Escapees, Backslash
    <2>3. run[q] = [said |-> Append(said, c), next |-> q + 1]
      BY <1>7, <1>8, <1>9, <2>1, <2>2 DEF ReadOn
    <2> QED
      BY <2>1, <2>3 DEF k, q, code
  <1>11. CASE c \in Escapees
    <2>1. PICK pair \in KernelEscapes :
              /\ pair[1] = c /\ k = 4 /\ code[1] = Backslash
              /\ \A i \in 1..3 : code[i + 1] = pair[2][i]
      BY <1>11, CodedIs DEF code, k
    <2> DEFINE digits == pair[2]
               three == SubSeq(text, q + 1, q + 3)
    <2>2. /\ digits \in Seq(Characters) /\ Len(digits) = 3 /\ IsByte(digits) /\ Byte(digits) = c
      BY <2>1, CodeIs
    <2>3. q + 3 <= n /\ q \in Nat /\ q = p + 1
      BY <1>1, <1>4, <2>1 DEF q
    <2>4. three = digits
      <3>1. /\ three \in Seq(Characters) /\ Len(three) = 3
            /\ \A i \in 1..3 : three[i] = text[q + i]
        BY <1>7, <2>3 DEF n
      <3>2. ASSUME NEW i \in 1..3 PROVE text[q + i] = digits[i]
        <4>1. i + 1 \in 1..k /\ q + i = p + (i + 1)
          BY <1>1, <2>1, <2>3
        <4>2. text[p + (i + 1)] = code[i + 1]
          BY <1>4, <4>1
        <4> QED
          BY <2>1, <4>1, <4>2
      <3> HIDE DEF three, digits
      <3> QED
        BY <2>2, <3>1, <3>2, SeqEqual
    <2>5. IsEscape(text, q)
      <3> HIDE DEF digits
      <3>1. text[q] = Backslash
        BY <1>7, <2>1
      <3> QED
        BY <2>2, <2>3, <2>4, <3>1, Zenon DEF IsEscape, Backslash, n
    <2>6. run[q] = [said |-> Append(said, c), next |-> q + 4]
      <3> HIDE DEF digits, three
      <3>1. Byte(SubSeq(text, q + 1, q + 3)) = c
        BY <2>2, <2>4 DEF three
      <3> QED
        BY <1>8, <1>9, <2>5, <3>1 DEF ReadOn
    <2> DEFINE r == [said |-> Append(said, c), next |-> q + 4]
    <2>7. r.next = q + 4
      OBVIOUS
    <2> HIDE DEF r
    <2>8. ASSUME NEW i \in 1..3, run[q + i - 1] = r PROVE run[q + i] = r
      <3>1. q + i \in 1..n /\ (q + i) - 1 = q + i - 1 /\ q + i < q + 4
        BY <2>3, <1>1
      <3>2. run[q + i] = ReadOn(text, run[q + i - 1], q + i)
        BY <1>6, <3>1
      <3> QED
        BY <2>7, <2>8, <3>1, <3>2 DEF ReadOn
    <2>9. run[q + 1] = r
      <3>1. 1 \in 1..3 /\ q + 1 - 1 = q
        BY <2>3
      <3> QED
        BY <2>6, <2>8, <3>1 DEF r
    <2>10. run[q + 2] = r
      <3>1. 2 \in 1..3 /\ q + 2 - 1 = q + 1
        BY <2>3
      <3> QED
        BY <2>8, <2>9, <3>1
    <2>11. run[q + 3] = r
      <3>1. 3 \in 1..3 /\ q + 3 - 1 = q + 2
        BY <2>3
      <3> QED
        BY <2>8, <2>10, <3>1
    <2>12. p + k = q + 3 /\ p + k + 1 = q + 4
      BY <1>1, <2>1, <2>3
    <2> QED
      BY <2>11, <2>12 DEF r, k, code
  <1> QED
    BY <1>10, <1>11

\* The first p characters have been read, as what said holds.
HasRead(run, p, said) == run[p] = [said |-> said, next |-> p + 1]

LEMMA CodeIsRead ==
    ASSUME NEW text \in Seq(Characters), NEW run, Unescapes(text, run),
           NEW p \in Nat, NEW c \in Characters, Holds(text, p, Coded[c]),
           NEW said \in Seq(Characters), HasRead(run, p, said)
    PROVE  HasRead(run, p + Len(Coded[c]), Append(said, c))
  <1>1. run[p] = [said |-> said, next |-> p + 1]
    BY DEF HasRead
  <1>2. run[p + Len(Coded[c])] = [said |-> Append(said, c), next |-> p + Len(Coded[c]) + 1]
    BY <1>1, CodeIsReadAs
  <1> QED
    BY <1>2 DEF HasRead

LEMMA CodesSpell == Spells(Coded, Characters, Characters)
  BY CodedIs DEF Spells, Coded

LEMMA CodesConcat ==
    ASSUME NEW s \in Seq(Characters), NEW t \in Seq(Characters)
    PROVE  Spread(s \o t, Coded) = Spread(s, Coded) \o Spread(t, Coded)
  <1> DEFINE f == Coded
             S == Characters
             R == Characters
  <1>1. Spells(f, S, R) /\ s \in Seq(S) /\ t \in Seq(S)
    BY CodesSpell
  <1> HIDE DEF f, S, R
  <1>2. Spread(s \o t, f) = Spread(s, f) \o Spread(t, f)
    BY <1>1, SpreadConcat
  <1> QED
    BY <1>2 DEF f

\* What was escaped is read back.
LEMMA UnescapeEscapes ==
    ASSUME NEW t \in Seq(Characters)
    PROVE  /\ Escape(t) \in Seq(Characters) /\ Unescape(Escape(t)) = t
  <1> DEFINE text == Escape(t)
             Code(u) == Spread(u, Coded)
  <1>1. Spells(Coded, Characters, Characters)
    BY CodedIs DEF Spells, Coded
  <1>2. \A u \in Seq(Characters) : Code(u) \in Seq(Characters)
    BY <1>1, CodedIs, EscapeSpreads, SpreadConcat
  <1>3. text = Code(t) /\ text \in Seq(Characters)
    BY <1>2, EscapeSpreads
  <1>4. PICK run : Unescapes(text, run)
    BY <1>3, UnescapeRuns
  <1> DEFINE Claim(u) == run[Len(Code(u))] = [said |-> u, next |-> Len(Code(u)) + 1]
             T == {u \in Seq(Characters) : \A v \in Seq(Characters) : u \o v = t => Claim(u)}
  <1> HIDE DEF text
  <1>5. <<>> \in T
    <2> DEFINE none == <<>>
    <2>1. none \in Seq(Characters) /\ Len(none) = 0
      OBVIOUS
    <2>2. Code(none) = <<>>
      BY DEF Spread, FlattenSeq
    <2>3. Len(Code(none)) = 0
      BY <2>1, <2>2
    <2>4. run[0] = [said |-> none, next |-> 0 + 1]
      BY <1>4 DEF Unescapes, NothingSaid
    <2> HIDE DEF Code, none
    <2> QED
      BY <2>1, <2>3, <2>4 DEF none
  <1>6. ASSUME NEW u \in Seq(Characters), NEW c \in Characters, u \in T PROVE Append(u, c) \in T
    <2>1. Append(u, c) \in Seq(Characters) /\ <<c>> \in Seq(Characters) /\ Append(u, c) = u \o <<c>>
      BY AppendProperties, AppendIsConcat, OneIsASequence
    <2>2. ASSUME NEW v \in Seq(Characters), Append(u, c) \o v = t PROVE Claim(Append(u, c))
      <3> DEFINE w == <<c>> \o v
      <3>1. w \in Seq(Characters) /\ u \o w = t
        <4>1. w \in Seq(Characters) /\ u \o w = (u \o <<c>>) \o v
          BY <2>1, ConcatProperties, ConcatAssociative
        <4> QED
          BY <2>1, <2>2, <4>1
      <3>2. Claim(u)
        BY <1>6, <3>1
      <3>3. Code(w) = Coded[c] \o Code(v)
        <4> DEFINE one == <<c>>
        <4>1. Code(one) = Coded[c] /\ one \in Seq(Characters)
          BY <1>1, <2>1, SpreadOne
        <4> HIDE DEF one
        <4>2. Spread(one \o v, Coded) = Spread(one, Coded) \o Spread(v, Coded)
          BY <4>1, CodesConcat, Zenon
        <4>3. Spread(one \o v, Coded) = Coded[c] \o Spread(v, Coded)
          BY <4>1, <4>2
        <4> QED
          BY <4>3 DEF one
      <3> HIDE DEF w
      <3>4. text = Code(u) \o Code(w)
        <4>1. Spread(u \o w, Coded) = Spread(u, Coded) \o Spread(w, Coded)
          BY <3>1, CodesConcat, Zenon
        <4> QED
          BY <1>3, <3>1, <4>1
      <3>5. Code(Append(u, c)) = Code(u) \o Coded[c]
        BY <1>1, SpreadGrows
      <3>6. Code(u) \in Seq(Characters) /\ Code(v) \in Seq(Characters) /\ Coded[c] \in Seq(Characters)
        BY <1>2, CodedIs
      <3> DEFINE front == Code(u)
                 rest == Code(v)
                 code == Coded[c]
      <3>7. /\ front \in Seq(Characters) /\ rest \in Seq(Characters) /\ code \in Seq(Characters)
            /\ text = front \o (code \o rest)
            /\ run[Len(front)] = [said |-> u, next |-> Len(front) + 1]
        BY <3>2, <3>3, <3>4, <3>6
      <3> HIDE DEF front, rest, code
      <3>10. Holds(front \o (code \o rest), Len(front), code) /\ Len(front) \in Nat
        BY <3>7, HeldBetween
      <3>8. run[Len(front) + Len(code)] =
                [said |-> Append(u, c), next |-> Len(front) + Len(code) + 1]
        <4> DEFINE k == Len(front)
        <4>1. k \in Nat /\ run[k] = [said |-> u, next |-> k + 1] /\ Holds(text, k, Coded[c])
          BY <3>7, <3>10 DEF code
        <4> HIDE DEF k
        <4>2. HasRead(run, k, u)
          BY <4>1 DEF HasRead
        <4>3. HasRead(run, k + Len(Coded[c]), Append(u, c))
          BY <1>3, <1>4, <4>1, <4>2, CodeIsRead
        <4> QED
          BY <4>3 DEF HasRead, k, code
      <3>9. Len(front \o code) = Len(front) + Len(code)
        BY <3>6, <3>7, ConcatProperties
      <3> QED
        BY <3>5, <3>8, <3>9 DEF front, code
    <2> QED
      BY <2>1, <2>2
  <1>7. \A u \in Seq(Characters) : u \in T
    <2> HIDE DEF T
    <2> QED
      BY <1>5, <1>6, SequenceInduction
  <1>8. Claim(t)
    <2>1. <<>> \in Seq(Characters) /\ t \o <<>> = t
      BY ConcatEmptySeq
    <2> QED
      BY <1>7, <2>1
  <1>9. Unescape(text) = run[Len(text)].said
    BY <1>4 DEF Unescapes
  <1> QED
    BY <1>3, <1>8, <1>9 DEF text

Lacking(text, c) ==
    text \in Seq(Characters) /\ \A i \in 1..Len(text) : text[i] # c

LEMMA WithoutJoin ==
    ASSUME NEW c, NEW s, NEW t, Lacking(s, c), Lacking(t, c)
    PROVE  Lacking(s \o t, c)
  <1>1. s \in Seq(Characters) /\ t \in Seq(Characters)
    BY DEF Lacking
  <1>2. /\ s \o t \in Seq(Characters) /\ Len(s \o t) = Len(s) + Len(t)
        /\ Len(s) \in Nat /\ Len(t) \in Nat
        /\ \A i \in 1..Len(s) + Len(t) : (s \o t)[i] = IF i <= Len(s) THEN s[i] ELSE t[i - Len(s)]
    BY <1>1, ConcatProperties, LenProperties
  <1>3. ASSUME NEW i \in 1..Len(s \o t) PROVE (s \o t)[i] # c
    <2>1. CASE i <= Len(s)
      BY <1>2, <2>1 DEF Lacking
    <2>2. CASE ~(i <= Len(s))
      <3>1. i - Len(s) \in 1..Len(t)
        BY <1>2, <2>2
      <3> QED
        BY <1>2, <2>2, <3>1 DEF Lacking
    <2> QED
      BY <2>1, <2>2
  <1> QED
    BY <1>2, <1>3 DEF Lacking

\* No blank and no end of a line is left, and what says something still does.
Unbroken(text) == Lacking(text, Blank) /\ Lacking(text, Newline)

LEMMA UnbrokenJoin ==
    ASSUME NEW s, NEW t, Unbroken(s), Unbroken(t)
    PROVE  Unbroken(s \o t)
  BY WithoutJoin DEF Unbroken

LEMMA EscapeIsUnbroken ==
    ASSUME NEW t \in Seq(Characters)
    PROVE  /\ Unbroken(Escape(t))
           /\ t # <<>> => Escape(t) # <<>>
  <1> DEFINE Code(u) == Spread(u, Coded)
             T == {u \in Seq(Characters) : /\ Unbroken(Code(u))
                                           /\ u # <<>> => Code(u) # <<>>}
  <1>1. <<>> \in T
    <2> DEFINE none == <<>>
    <2>1. none \in Seq(Characters) /\ Len(none) = 0
      OBVIOUS
    <2>2. Code(none) = none
      BY DEF Spread, FlattenSeq
    <2>3. Unbroken(none)
      BY <2>1 DEF Unbroken, Lacking
    <2> HIDE DEF Code
    <2> QED
      BY <2>1, <2>2, <2>3
  <1>2. ASSUME NEW u \in Seq(Characters), NEW c \in Characters, u \in T PROVE Append(u, c) \in T
    <2>1. Append(u, c) \in Seq(Characters)
      BY AppendProperties
    <2>2. Code(Append(u, c)) = Code(u) \o Coded[c]
      BY CodesSpell, SpreadGrows
    <2>3. Unbroken(Code(u)) /\ Unbroken(Coded[c])
      BY <1>2, CodedIs DEF Unbroken, Lacking
    <2> DEFINE front == Code(u)
               code == Coded[c]
    <2>4. front \in Seq(Characters) /\ code \in Seq(Characters) /\ Len(code) \in Nat \ {0}
      BY <2>3, CodedIs DEF Unbroken, Lacking
    <2>5. Unbroken(front \o code)
      BY <2>3, UnbrokenJoin
    <2> HIDE DEF front, code
    <2>6. Len(front \o code) = Len(front) + Len(code) /\ Len(front) \in Nat
      BY <2>4, ConcatProperties, LenProperties
    <2>7. front \o code # <<>>
      <3>1. Len(front \o code) # 0
        BY <2>4, <2>6
      <3>2. Len(<<>>) = 0
        OBVIOUS
      <3> QED
        BY <3>1, <3>2
    <2> QED
      BY <2>1, <2>2, <2>5, <2>7 DEF front, code
  <1> HIDE DEF T
  <1>3. t \in T
    BY <1>1, <1>2, SequenceInduction
  <1> QED
    BY <1>3, EscapeSpreads DEF T

\* What is in front is cut into these pieces, whatever follows.
Cuts(lead, pieces, separator) ==
    /\ lead \in Seq(Characters) /\ pieces \in Seq(Seq(Characters))
    /\ \A t \in Seq(Characters) : Split(lead \o t, separator) = pieces \o Split(t, separator)

LEMMA CutsOn ==
    ASSUME NEW separator, NEW s, NEW p, Cuts(s, p, separator), NEW t, NEW q, Cuts(t, q, separator)
    PROVE  Cuts(s \o t, p \o q, separator)
  <1>1. /\ s \in Seq(Characters) /\ t \in Seq(Characters)
        /\ p \in Seq(Seq(Characters)) /\ q \in Seq(Seq(Characters))
    BY DEF Cuts
  <1>2. s \o t \in Seq(Characters) /\ p \o q \in Seq(Seq(Characters))
    BY <1>1, ConcatProperties
  <1>3. ASSUME NEW u \in Seq(Characters)
        PROVE  Split((s \o t) \o u, separator) = (p \o q) \o Split(u, separator)
    <2> DEFINE w == t \o u
               z == Split(u, separator)
    <2>1. w \in Seq(Characters) /\ (s \o t) \o u = s \o w
      BY <1>1, ConcatProperties, ConcatAssociative
    <2>2. Split(w, separator) = q \o z
      BY DEF Cuts
    <2>3. z \in Seq(Seq(Characters))
      BY SplitType
    <2> HIDE DEF w, z
    <2>4. Split(s \o w, separator) = p \o (q \o z)
      BY <2>1, <2>2 DEF Cuts
    <2>5. p \o (q \o z) = (p \o q) \o z
      <3> DEFINE V == Seq(Characters)
      <3>1. p \in Seq(V) /\ q \in Seq(V) /\ z \in Seq(V)
        BY <1>1, <2>3
      <3> HIDE DEF V
      <3> QED
        BY ONLY <3>1, ConcatAssociative
    <2> QED
      BY <2>1, <2>4, <2>5 DEF z
  <1> QED
    BY <1>2, <1>3 DEF Cuts

LEMMA PieceCuts ==
    ASSUME NEW separator \in Characters, NEW s \in Seq(Characters), separator \notin ToSet(s)
    PROVE  Cuts(Append(s, separator), <<s>>, separator)
  <1>1. Append(s, separator) \in Seq(Characters) /\ <<s>> \in Seq(Seq(Characters))
    BY AppendProperties, OneIsASequence
  <1>2. Split(s, separator) = <<s>>
    BY SplitOne
  <1>3. ASSUME NEW t \in Seq(Characters)
        PROVE  Split(Append(s, separator) \o t, separator) = <<s>> \o Split(t, separator)
    <2>1. Split(Append(s, separator) \o t, separator) = Split(s, separator) \o Split(t, separator)
      BY SplitConcat
    <2> QED
      BY <1>2, <2>1
  <1> QED
    BY <1>1, <1>3 DEF Cuts

\* The words of a line that say nothing of the mount.
Id == "36"

Parent == "35"

Device == "98:0"

Root == "/"

Options == "rw,noatime"

Shared == "shared:1"

Super == "rw,user_id=1000"

KernelWords == {Id, Parent, Device, Root, Options, Shared, Super, Dash}

LEMMA KernelWordsAre ==
    /\ KernelWords \subseteq Characters \ {Blank, Newline}
    /\ Options # Dash /\ Shared # Dash
    /\ Blank \in Characters /\ Newline \in Characters
  BY Zenon DEF KernelWords, Characters, Blank, Newline, Dash, Id, Parent, Device, Root, Options, Shared, Super

\* A word and the blank behind it, and what is cut out of them.
Gap(c) == <<c>>

Worded(word) == <<word, Blank>>

Field(word) == << <<word>> >>

LEMMA WordCuts ==
    ASSUME NEW word \in KernelWords
    PROVE  /\ Cuts(Worded(word), Field(word), Blank) /\ Worded(word) \in Seq(Characters)
           /\ Unbroken(<<word>>) /\ <<word>> \in Seq(Characters)
  <1>1. word \in Characters /\ word \notin {Blank, Newline} /\ Blank \in Characters
    BY KernelWordsAre
  <1>2. <<word>> \in Seq(Characters) /\ <<word>>[1] = word /\ Len(<<word>>) = 1
    BY <1>1, OneIsASequence
  <1>3. Blank \notin ToSet(<<word>>)
    BY <1>1, <1>2 DEF ToSet
  <1>4. <<word, Blank>> = Append(<<word>>, Blank)
    BY LongerLiterals
  <1>5. Unbroken(<<word>>)
    BY <1>1, <1>2 DEF Unbroken, Lacking
  <1>6. Append(<<word>>, Blank) \in Seq(Characters)
    BY <1>1, <1>2, AppendProperties
  <1> QED
    BY <1>1, <1>2, <1>3, <1>4, <1>5, <1>6, PieceCuts DEF Worded, Field

LEMMA TextMore ==
    ASSUME NEW p \in Seq(Seq(Characters)), NEW text \in Seq(Characters)
    PROVE  /\ p \o <<text>> \in Seq(Seq(Characters)) /\ Len(p \o <<text>>) = Len(p) + 1
           /\ Len(p) \in Nat
           /\ \A i \in 1..Len(p) : (p \o <<text>>)[i] = p[i]
           /\ (p \o <<text>>)[Len(p) + 1] = text
  <1>1. p \o <<text>> = Append(p, text)
    BY AppendIsConcat
  <1> QED
    BY <1>1, AppendProperties, LenProperties

LEMMA WordMore ==
    ASSUME NEW p \in Seq(Seq(Characters)), NEW word \in KernelWords
    PROVE  /\ p \o Field(word) \in Seq(Seq(Characters)) /\ Len(p \o Field(word)) = Len(p) + 1
           /\ Len(p) \in Nat
           /\ \A i \in 1..Len(p) : (p \o Field(word))[i] = p[i]
           /\ (p \o Field(word))[Len(p) + 1] = <<word>>
  <1> DEFINE text == <<word>>
  <1>1. text \in Seq(Characters) /\ Field(word) = <<text>>
    BY WordCuts DEF Field
  <1> HIDE DEF text
  <1>2. /\ p \o <<text>> \in Seq(Seq(Characters)) /\ Len(p \o <<text>>) = Len(p) + 1
        /\ Len(p) \in Nat
        /\ \A i \in 1..Len(p) : (p \o <<text>>)[i] = p[i]
        /\ (p \o <<text>>)[Len(p) + 1] = text
    BY <1>1, TextMore
  <1> QED
    BY <1>1, <1>2 DEF text

LineLead == ((Worded(Id) \o Worded(Parent)) \o Worded(Device)) \o Worded(Root)

FurtherFields(further) == FlattenSeq([i \in 1..further |-> <<Shared, Blank>>])

Line(point, fstype, source, further) ==
    LineLead \o point \o (Gap(Blank) \o Worded(Options)) \o FurtherFields(further)
    \o Worded(Dash) \o fstype \o Gap(Blank) \o source \o (Gap(Blank) \o <<Super>>)

LEMMA KernelLineIs ==
    ASSUME NEW mount_point, NEW source, NEW fstype, NEW further
    PROVE  KernelLine(MountEntry(mount_point, source, fstype), further) =
               Line(Escape(mount_point), Escape(fstype), Escape(source), further)
  <1> DEFINE entry == MountEntry(mount_point, source, fstype)
             lead == <<Id, Blank, Parent, Blank, Device, Blank, Root, Blank>>
             options == <<Blank, Options, Blank>>
             super == <<Blank, Super>>
  <1>1. entry.mount_point = mount_point /\ entry.source = source /\ entry.fstype = fstype
    BY DEF MountEntry
  <1> HIDE DEF entry
  <1>2. lead = LineLead /\ options = Gap(Blank) \o Worded(Options) /\ super = Gap(Blank) \o <<Super>>
    <2>1. lead = LineLead
      BY DEF LineLead, Worded
    <2>2. options = Gap(Blank) \o Worded(Options)
      BY DEF Gap, Worded
    <2>3. super = Gap(Blank) \o <<Super>>
      BY DEF Gap
    <2> QED
      BY <2>1, <2>2, <2>3
  <1>3. KernelLine(entry, further) =
            lead \o Escape(entry.mount_point) \o options \o FurtherFields(further)
            \o Worded(Dash) \o Escape(entry.fstype) \o Gap(Blank) \o Escape(entry.source) \o super
    BY Zenon DEF KernelLine, FurtherFields, Worded, Gap, Blank, Dash, Id, Parent, Device, Root,
                 Options, Shared, Super
  <1> HIDE DEF lead, options, super
  <1> QED
    BY <1>1, <1>2, <1>3, Zenon DEF entry, Line

LEMMA NothingCuts ==
    ASSUME NEW separator
    PROVE  Cuts(<<>>, <<>>, separator)
  <1>1. <<>> \in Seq(Characters) /\ <<>> \in Seq(Seq(Characters))
    OBVIOUS
  <1>2. ASSUME NEW t \in Seq(Characters)
        PROVE  Split(<<>> \o t, separator) = <<>> \o Split(t, separator)
    <2>1. Split(t, separator) \in Seq(Seq(Characters))
      BY SplitType
    <2> QED
      BY <2>1, ConcatEmptySeq
  <1> QED
    BY <1>1, <1>2 DEF Cuts

LEMMA FurtherFieldsAre ==
    ASSUME NEW further \in 0..1
    PROVE  FurtherFields(further) = IF further = 1 THEN Worded(Shared) ELSE <<>>
  <1> DEFINE two == <<Shared, Blank>>
  <1>1. two \in Seq(Characters)
    BY WordCuts DEF KernelWords, Worded
  <1> HIDE DEF two
  <1>2. [i \in 1..1 |-> two] = <<two>> /\ [i \in 1..0 |-> two] = <<>>
    OBVIOUS
  <1>3. FlattenSeq(<<two>>) = two /\ FlattenSeq(<<>>) = <<>>
    BY <1>1, FlattenOne DEF FlattenSeq
  <1>4. further = 1 \/ further = 0
    OBVIOUS
  <1> QED
    BY <1>2, <1>3, <1>4 DEF FurtherFields, two, Worded

LEMMA FieldCuts ==
    ASSUME NEW c \in Characters, NEW lead, NEW pieces, Cuts(lead, pieces, c), NEW field, Lacking(field, c)
    PROVE  /\ Cuts(lead \o (field \o Gap(c)), pieces \o <<field>>, c)
           /\ (lead \o field) \o Gap(c) = lead \o (field \o Gap(c))
           /\ \A rest \in Seq(Characters) :
                 (lead \o field) \o (Gap(c) \o rest) = (lead \o (field \o Gap(c))) \o rest
  <1> DEFINE gap == Gap(c)
             piece == field \o gap
             one == <<field>>
  <1>1. lead \in Seq(Characters) /\ field \in Seq(Characters) /\ gap \in Seq(Characters)
    BY OneIsASequence DEF Cuts, Lacking, Gap
  <1>2. c \notin ToSet(field)
    BY DEF Lacking, ToSet
  <1>3. Cuts(piece, one, c)
    <2>1. Append(field, c) = piece
      BY <1>1, AppendIsConcat DEF Gap
    <2>2. Cuts(Append(field, c), one, c)
      BY <1>1, <1>2, PieceCuts
    <2> QED
      BY <2>1, <2>2
  <1> HIDE DEF gap
  <1>4. (lead \o field) \o gap = lead \o piece
    BY <1>1, ConcatAssociative
  <1>5. ASSUME NEW rest \in Seq(Characters)
        PROVE  (lead \o field) \o (gap \o rest) = (lead \o piece) \o rest
    <2> DEFINE front == lead \o field
    <2>1. front \in Seq(Characters) /\ front \o gap = lead \o piece
      BY <1>1, <1>4, ConcatProperties
    <2> HIDE DEF front, piece
    <2>2. front \in Seq(Characters)
      BY <2>1
    <2>3. front \o (gap \o rest) = (front \o gap) \o rest
      BY <1>1, <2>2, ConcatAssociative
    <2> QED
      BY <2>1, <2>3 DEF front
  <1> HIDE DEF piece, one
  <1>6. Cuts(lead \o piece, pieces \o one, c)
    BY <1>3, CutsOn
  <1> QED
    BY <1>4, <1>5, <1>6 DEF gap, piece, one

LeadFields == ((Field(Id) \o Field(Parent)) \o Field(Device)) \o Field(Root)

LEMMA LeadCuts == Cuts(LineLead, LeadFields, Blank)
  <1>1. /\ Cuts(Worded(Id), Field(Id), Blank) /\ Cuts(Worded(Parent), Field(Parent), Blank)
        /\ Cuts(Worded(Device), Field(Device), Blank) /\ Cuts(Worded(Root), Field(Root), Blank)
    BY WordCuts DEF KernelWords
  <1>2. Cuts(Worded(Id) \o Worded(Parent), Field(Id) \o Field(Parent), Blank)
    BY <1>1, CutsOn
  <1>3. Cuts((Worded(Id) \o Worded(Parent)) \o Worded(Device),
             (Field(Id) \o Field(Parent)) \o Field(Device), Blank)
    BY <1>1, <1>2, CutsOn
  <1> QED
    BY <1>1, <1>3, CutsOn DEF LineLead, LeadFields


FurtherPieces(further) == IF further = 1 THEN Field(Shared) ELSE <<>>

Fields(point, fstype, source, further) ==
    LeadFields \o <<point>> \o Field(Options) \o FurtherPieces(further)
    \o Field(Dash) \o <<fstype>> \o <<source>> \o Field(Super)

LEMMA LineIsCut ==
    ASSUME NEW point, NEW fstype, NEW source, Unbroken(point), Unbroken(fstype), Unbroken(source),
           NEW further \in 0..1
    PROVE  /\ Line(point, fstype, source, further) \in Seq(Characters)
           /\ Split(Line(point, fstype, source, further), Blank) = Fields(point, fstype, source, further)
  <1> DEFINE a == LineLead
             pa == LeadFields
             b == a \o (point \o Gap(Blank))
             pb == pa \o <<point>>
             c == b \o Worded(Options)
             pc == pb \o Field(Options)
             d == c \o FurtherFields(further)
             pd == pc \o FurtherPieces(further)
             e == d \o Worded(Dash)
             pe == pd \o Field(Dash)
             f == e \o (fstype \o Gap(Blank))
             pf == pe \o <<fstype>>
             g == f \o (source \o Gap(Blank))
             pg == pf \o <<source>>
             super == <<Super>>
  <1>0. Blank \in Characters /\ Lacking(point, Blank) /\ Lacking(fstype, Blank) /\ Lacking(source, Blank)
    BY KernelWordsAre DEF Unbroken
  <1>1. super \in Seq(Characters) /\ Worded(Options) \in Seq(Characters) /\ Split(super, Blank) = Field(Super)
    <2>1. super \in Seq(Characters) /\ Unbroken(super) /\ Worded(Options) \in Seq(Characters)
      BY WordCuts DEF KernelWords
    <2>2. Blank \notin ToSet(super)
      BY <2>1 DEF Unbroken, Lacking, ToSet
    <2> QED
      BY <2>1, <2>2, SplitOne DEF Field
  <1>2. Cuts(a, pa, Blank)
    BY LeadCuts
  <1> HIDE DEF a, pa, super
  <1>3. Cuts(b, pb, Blank) /\ (a \o point) \o (Gap(Blank) \o Worded(Options)) = c
    BY <1>0, <1>1, <1>2, FieldCuts
  <1> HIDE DEF b, pb
  <1>4. Cuts(c, pc, Blank)
    <2>1. Cuts(Worded(Options), Field(Options), Blank)
      BY WordCuts DEF KernelWords
    <2> QED
      BY <1>3, <2>1, CutsOn
  <1> HIDE DEF c, pc
  <1>5. Cuts(d, pd, Blank)
    <2>1. Cuts(FurtherFields(further), FurtherPieces(further), Blank)
      <3>1. Cuts(Worded(Shared), Field(Shared), Blank) /\ Cuts(<<>>, <<>>, Blank)
        BY WordCuts, NothingCuts DEF KernelWords
      <3>2. FurtherFields(further) = IF further = 1 THEN Worded(Shared) ELSE <<>>
        BY FurtherFieldsAre
      <3> QED
        BY <3>1, <3>2 DEF FurtherPieces
    <2> QED
      BY <1>4, <2>1, CutsOn
  <1> HIDE DEF d, pd
  <1>6. Cuts(e, pe, Blank)
    <2>1. Cuts(Worded(Dash), Field(Dash), Blank)
      BY WordCuts DEF KernelWords
    <2> QED
      BY <1>5, <2>1, CutsOn
  <1> HIDE DEF e, pe
  <1>7. Cuts(f, pf, Blank) /\ (e \o fstype) \o Gap(Blank) = f
    BY <1>0, <1>6, FieldCuts
  <1> HIDE DEF f, pf
  <1>8. Cuts(g, pg, Blank) /\ (f \o source) \o (Gap(Blank) \o super) = g \o super
    BY <1>0, <1>1, <1>7, FieldCuts
  <1> HIDE DEF g, pg
  <1>9. Line(point, fstype, source, further) = g \o super
    <2>1. Line(point, fstype, source, further) =
              ((((((((a \o point) \o (Gap(Blank) \o Worded(Options))) \o FurtherFields(further))
              \o Worded(Dash)) \o fstype) \o Gap(Blank)) \o source) \o (Gap(Blank) \o super))
      BY DEF Line, a, super
    <2>2. (((c \o FurtherFields(further)) \o Worded(Dash)) \o fstype) \o Gap(Blank) = f
      BY <1>7 DEF d, e
    <2> QED
      BY <1>3, <1>8, <2>1, <2>2
  <1>10. g \o super \in Seq(Characters) /\ Split(g \o super, Blank) = pg \o Split(super, Blank)
    BY <1>1, <1>8, ConcatProperties DEF Cuts
  <1>11. pg \o Field(Super) = Fields(point, fstype, source, further)
    BY DEF Fields, pa, pb, pc, pd, pe, pf, pg
  <1> QED
    BY <1>1, <1>9, <1>10, <1>11

\* Where the fields of a line are.
Fielded(fields, point, fstype, source, further) ==
    /\ fields \in Seq(Seq(Characters)) /\ Len(fields) = 10 + further
    /\ fields[5] = point /\ fields[6] = <<Options>>
    /\ further = 1 => fields[7] = <<Shared>>
    /\ fields[7 + further] = <<Dash>>
    /\ fields[8 + further] = fstype /\ fields[9 + further] = source

LEMMA FieldsAre ==
    ASSUME NEW point \in Seq(Characters), NEW fstype \in Seq(Characters), NEW source \in Seq(Characters),
           NEW further \in 0..1
    PROVE  Fielded(Fields(point, fstype, source, further), point, fstype, source, further)
  <1> DEFINE W == Seq(Seq(Characters))
             Lone(x) == <<x>>
             p1 == Field(Id)
             p2 == p1 \o Field(Parent)
             p3 == p2 \o Field(Device)
             p4 == p3 \o Field(Root)
             p5 == p4 \o Lone(point)
             p6 == p5 \o Field(Options)
             q == p6 \o FurtherPieces(further)
             q1 == q \o Field(Dash)
             q2 == q1 \o Lone(fstype)
             q3 == q2 \o Lone(source)
             q4 == q3 \o Field(Super)
             Cell(x) == <<x>>
             More(p, l, x) == /\ l \in W /\ Len(l) = Len(p) + 1 /\ Len(p) \in Nat
                              /\ \A i \in 1..Len(p) : l[i] = p[i]
                              /\ l[Len(p) + 1] = x
  <1>1. \A p \in W : \A word \in KernelWords : More(p, p \o Field(word), Cell(word))
    BY WordMore
  <1>2. \A p \in W : \A text \in Seq(Characters) : More(p, p \o Lone(text), text)
    BY TextMore
  <1>3. /\ Id \in KernelWords /\ Parent \in KernelWords /\ Device \in KernelWords /\ Root \in KernelWords
        /\ Options \in KernelWords /\ Shared \in KernelWords /\ Dash \in KernelWords /\ Super \in KernelWords
    BY DEF KernelWords
  <1>4. p1 \in W /\ Len(p1) = 1
    <2>1. <<Id>> \in Seq(Characters)
      BY <1>3, WordCuts
    <2> QED
      BY <2>1, OneIsASequence DEF Field
  <1> HIDE DEF W, Lone, Cell, More, p1
  <1>5. More(p1, p2, Cell(Parent))
    BY <1>1, <1>3, <1>4
  <1> HIDE DEF p2
  <1>6. p2 \in W /\ Len(p2) = 2
    BY <1>4, <1>5 DEF More
  <1>7. More(p2, p3, Cell(Device))
    BY <1>1, <1>3, <1>6
  <1> HIDE DEF p3
  <1>8. p3 \in W /\ Len(p3) = 3
    BY <1>6, <1>7 DEF More
  <1>9. More(p3, p4, Cell(Root))
    BY <1>1, <1>3, <1>8
  <1> HIDE DEF p4
  <1>10. p4 \in W /\ Len(p4) = 4
    BY <1>8, <1>9 DEF More
  <1>11. More(p4, p5, point)
    BY <1>2, <1>10
  <1> HIDE DEF p5
  <1>12. p5 \in W /\ Len(p5) = 5 /\ p5[5] = point
    BY <1>10, <1>11 DEF More
  <1>13. More(p5, p6, Cell(Options))
    BY <1>1, <1>3, <1>12
  <1> HIDE DEF p6
  <1>14. p6 \in W /\ Len(p6) = 6 /\ p6[5] = point /\ p6[6] = Cell(Options)
    BY <1>12, <1>13 DEF More
  <1>15. /\ q \in W /\ Len(q) = 6 + further /\ q[5] = point /\ q[6] = Cell(Options)
         /\ further = 1 => q[7] = Cell(Shared)
    <2>1. CASE further = 1
      <3>1. q = p6 \o Field(Shared)
        BY <2>1 DEF FurtherPieces
      <3> HIDE DEF q
      <3>2. More(p6, q, Cell(Shared))
        BY <1>1, <1>3, <1>14, <3>1
      <3> QED
        BY <1>14, <2>1, <3>2 DEF More
    <2>2. CASE further = 0
      <3>1. q = p6
        BY <1>14, <2>2, ConcatEmptySeq DEF FurtherPieces, W
      <3> HIDE DEF q
      <3> QED
        BY <1>14, <2>2, <3>1
    <2> QED
      BY <2>1, <2>2
  <1> HIDE DEF q
  <1>16. More(q, q1, Cell(Dash))
    BY <1>1, <1>3, <1>15
  <1> HIDE DEF q1
  <1>17. /\ q1 \in W /\ Len(q1) = 7 + further /\ q1[5] = point /\ q1[6] = Cell(Options)
         /\ further = 1 => q1[7] = Cell(Shared)
         /\ q1[7 + further] = Cell(Dash)
    BY <1>15, <1>16 DEF More
  <1>18. More(q1, q2, fstype)
    BY <1>2, <1>17
  <1> HIDE DEF q2
  <1>19. /\ q2 \in W /\ Len(q2) = 8 + further /\ q2[5] = point /\ q2[6] = Cell(Options)
         /\ further = 1 => q2[7] = Cell(Shared)
         /\ q2[7 + further] = Cell(Dash) /\ q2[8 + further] = fstype
    BY <1>17, <1>18 DEF More
  <1>20. More(q2, q3, source)
    BY <1>2, <1>19
  <1> HIDE DEF q3
  <1>21. /\ q3 \in W /\ Len(q3) = 9 + further /\ q3[5] = point /\ q3[6] = Cell(Options)
         /\ further = 1 => q3[7] = Cell(Shared)
         /\ q3[7 + further] = Cell(Dash) /\ q3[8 + further] = fstype /\ q3[9 + further] = source
    BY <1>19, <1>20 DEF More
  <1>22. More(q3, q4, Cell(Super))
    BY <1>1, <1>3, <1>21
  <1> HIDE DEF q4
  <1>23. /\ q4 \in W /\ Len(q4) = 10 + further /\ q4[5] = point /\ q4[6] = Cell(Options)
         /\ further = 1 => q4[7] = Cell(Shared)
         /\ q4[7 + further] = Cell(Dash) /\ q4[8 + further] = fstype /\ q4[9 + further] = source
    BY <1>21, <1>22 DEF More
  <1>24. Fields(point, fstype, source, further) = q4
    BY DEF Fields, LeadFields, Lone, p1, p2, p3, p4, p5, p6, q, q1, q2, q3, q4
  <1> QED
    BY <1>23, <1>24 DEF Fielded, W, Cell

\* Where what is mounted begins.
Dashed(fields) == SelectInSubSeq(fields, 6, Len(fields), LAMBDA field : field = <<"-">>)

Parsed(fields, separator) ==
    IF separator = 0 \/ separator + 2 > Len(fields) THEN <<>>
    ELSE IF fields[5] = <<>> \/ fields[separator + 1] = <<>> THEN <<>>
    ELSE <<MountEntry(Unescape(fields[5]), Unescape(fields[separator + 2]),
                      Unescape(fields[separator + 1]))>>

LEMMA ParseLineIs ==
    ASSUME NEW line
    PROVE  ParseLine(line) = Parsed(Split(line, Blank), Dashed(Split(line, Blank)))
  BY Zenon DEF ParseLine, Parsed, Dashed, Blank

LEMMA DashedIs ==
    ASSUME NEW fields
    PROVE  LET I == {i \in 6..Len(fields) : fields[i] = <<Dash>>}
           IN  Dashed(fields) = IF I # {} THEN Min(I) ELSE 0
  BY Zenon DEF Dashed, SelectInSubSeq, Dash

LEMMA FieldsAreParsed ==
    ASSUME NEW fields, NEW point, NEW fstype, NEW source, NEW further \in 0..1,
           Fielded(fields, point, fstype, source, further), point # <<>>, fstype # <<>>
    PROVE  Parsed(fields, Dashed(fields)) =
               <<MountEntry(Unescape(point), Unescape(source), Unescape(fstype))>>
  <1> DEFINE I == {i \in 6..Len(fields) : fields[i] = <<Dash>>}
             d == 7 + further
  <1>1. <<Options>> # <<Dash>> /\ <<Shared>> # <<Dash>>
    BY KernelWordsAre
  <1>2. /\ Len(fields) = 10 + further /\ fields[5] = point /\ fields[6] # <<Dash>>
        /\ further = 1 => fields[7] # <<Dash>>
        /\ fields[d] = <<Dash>> /\ fields[d + 1] = fstype /\ fields[d + 2] = source
    <2>1. d + 1 = 8 + further /\ d + 2 = 9 + further
      OBVIOUS
    <2> QED
      BY <1>1, <2>1 DEF Fielded
  <1>3. d \in 6..Len(fields) /\ I \subseteq Nat
    BY <1>2
  <1>4. d \in I
    BY <1>2, <1>3
  <1>5. \A i \in I : d <= i
    BY <1>2
  <1> HIDE DEF I
  <1>6. Min(I) \in I /\ \A i \in I : Min(I) <= i
    BY <1>3, <1>4, MinIsLeast
  <1>7. Min(I) = d
    <2> DEFINE m == Min(I)
    <2>1. m \in I /\ m <= d /\ d \in Nat
      BY <1>3, <1>4, <1>6
    <2> HIDE DEF m, d
    <2>2. m \in Nat /\ d <= m
      BY <1>3, <1>5, <2>1
    <2> QED
      BY <2>1, <2>2 DEF m
  <1>8. Dashed(fields) = d
    BY <1>4, <1>7, DashedIs DEF I
  <1>9. d # 0 /\ ~(d + 2 > Len(fields))
    BY <1>2
  <1> HIDE DEF d
  <1> QED
    BY <1>2, <1>8, <1>9 DEF Parsed

LEMMA TooFewFields ==
    ASSUME NEW fields, Len(fields) \in Nat, Len(fields) < 6
    PROVE  Parsed(fields, Dashed(fields)) = <<>>
  <1> DEFINE I == {i \in 6..Len(fields) : fields[i] = <<Dash>>}
  <1>1. I = {}
    OBVIOUS
  <1> HIDE DEF I
  <1>2. Dashed(fields) = 0
    BY <1>1, DashedIs DEF I
  <1> QED
    BY <1>2 DEF Parsed

\* It ends where it ends.
LEMMA LineIsOne ==
    ASSUME NEW point, NEW fstype, NEW source, Unbroken(point), Unbroken(fstype), Unbroken(source),
           NEW further \in 0..1
    PROVE  Lacking(Line(point, fstype, source, further), Newline)
  <1> DEFINE Good(text) == Lacking(text, Newline)
  <1>1. \A s, t : Good(s) /\ Good(t) => Good(s \o t)
    BY WithoutJoin
  <1>2. Good(point) /\ Good(fstype) /\ Good(source)
    BY DEF Unbroken
  <1>3. Good(Gap(Blank))
    <2>1. Blank \in Characters /\ Blank # Newline
      BY KernelWordsAre, BlanksDiffer
    <2>2. /\ <<Blank>> \in Seq(Characters) /\ Len(<<Blank>>) = 1 /\ <<Blank>>[1] = Blank
      BY <2>1, OneIsASequence
    <2> QED
      BY <2>1, <2>2 DEF Gap, Lacking
  <1>4. \A word \in KernelWords : Good(<<word>>) /\ Good(Worded(word))
    <2> TAKE word \in KernelWords
    <2> DEFINE w == <<word>>
    <2>1. Good(w)
      BY WordCuts DEF Unbroken
    <2>2. Worded(word) = w \o Gap(Blank)
      BY DEF Worded, Gap
    <2> HIDE DEF w, Good
    <2>3. Good(w \o Gap(Blank))
      BY <1>1, <1>3, <2>1
    <2> QED
      BY <2>1, <2>2, <2>3 DEF w
  <1>5. Good(<<>>)
    <2> DEFINE none == <<>>
    <2>1. none \in Seq(Characters) /\ Len(none) = 0
      OBVIOUS
    <2> HIDE DEF none
    <2>2. Good(none)
      BY <2>1 DEF Lacking
    <2> QED
      BY <2>2 DEF none
  <1> DEFINE super == <<Super>>
  <1> HIDE DEF Good
  <1>6. /\ Good(Worded(Id)) /\ Good(Worded(Parent)) /\ Good(Worded(Device)) /\ Good(Worded(Root))
        /\ Good(Worded(Options)) /\ Good(Worded(Shared)) /\ Good(Worded(Dash)) /\ Good(super)
    BY <1>4 DEF KernelWords
  <1> HIDE DEF super
  <1>7. Good(FurtherFields(further))
    BY <1>5, <1>6, FurtherFieldsAre
  <1>8. Good(LineLead)
    BY <1>1, <1>6 DEF LineLead
  <1>9. Good(Line(point, fstype, source, further))
    <2>1. Good(Gap(Blank) \o Worded(Options)) /\ Good(Gap(Blank) \o super)
      BY <1>1, <1>3, <1>6
    <2>2. Good(((LineLead \o point) \o (Gap(Blank) \o Worded(Options))) \o FurtherFields(further))
      BY <1>1, <1>2, <1>7, <1>8, <2>1
    <2> DEFINE front == ((LineLead \o point) \o (Gap(Blank) \o Worded(Options))) \o FurtherFields(further)
    <2>3. Line(point, fstype, source, further) =
              ((((front \o Worded(Dash)) \o fstype) \o Gap(Blank)) \o source) \o (Gap(Blank) \o super)
      BY DEF Line, super
    <2> HIDE DEF front
    <2>4. Good(front)
      BY <2>2 DEF front
    <2>5. Good((front \o Worded(Dash)) \o fstype)
      BY <1>1, <1>2, <1>6, <2>4
    <2>6. Good((((front \o Worded(Dash)) \o fstype) \o Gap(Blank)) \o source)
      BY <1>1, <1>2, <1>3, <2>5
    <2>7. Good(((((front \o Worded(Dash)) \o fstype) \o Gap(Blank)) \o source) \o (Gap(Blank) \o super))
      BY <1>1, <2>1, <2>6
    <2> QED
      BY <2>3, <2>7
  <1> QED
    BY <1>9 DEF Good

LEMMA KernelLineIsParsed ==
    ASSUME NEW mount_point \in Seq(Characters), NEW source \in Seq(Characters),
           NEW fstype \in Seq(Characters), mount_point # <<>>, fstype # <<>>, NEW further \in 0..1
    PROVE  LET entry == MountEntry(mount_point, source, fstype)
           IN  /\ Lacking(KernelLine(entry, further), Newline)
               /\ ParseLine(KernelLine(entry, further)) = <<entry>>
  <1> DEFINE p == Escape(mount_point)
             s == Escape(source)
             t == Escape(fstype)
             line == Line(p, t, s, further)
             fields == Fields(p, t, s, further)
  <1>1. Unbroken(p) /\ Unbroken(s) /\ Unbroken(t) /\ p # <<>> /\ t # <<>>
    BY EscapeIsUnbroken
  <1>2. Unescape(p) = mount_point /\ Unescape(s) = source /\ Unescape(t) = fstype
    BY UnescapeEscapes
  <1>3. p \in Seq(Characters) /\ s \in Seq(Characters) /\ t \in Seq(Characters)
    BY <1>1 DEF Unbroken, Lacking
  <1>4. KernelLine(MountEntry(mount_point, source, fstype), further) = line
    BY KernelLineIs
  <1> HIDE DEF p, s, t
  <1>5. Lacking(line, Newline) /\ Split(line, Blank) = fields
    BY <1>1, LineIsCut, LineIsOne
  <1>6. Fielded(fields, p, t, s, further)
    BY <1>3, FieldsAre
  <1> HIDE DEF line, fields
  <1>7. Parsed(fields, Dashed(fields)) = <<MountEntry(mount_point, source, fstype)>>
    BY <1>1, <1>2, <1>6, FieldsAreParsed
  <1>8. ParseLine(line) = <<MountEntry(mount_point, source, fstype)>>
    BY <1>5, <1>7, ParseLineIs
  <1> QED
    BY <1>4, <1>5, <1>8

\* A line that makes no sense, between others.
Junk == "junk"

Senseless == <<Junk, Blank, Dash>>

Table(a, b, c) ==
    a \o Gap(Newline) \o b \o (Gap(Newline) \o (Senseless \o Gap(Newline))) \o c \o Gap(Newline)

Lines(a, b, c) == Append(Append(Append(Append(Append(<<>>, a), b), Senseless), c), <<>>)

LEMMA SenselessIs ==
    /\ Lacking(Senseless, Newline)
    /\ Split(Senseless, Blank) = << <<Junk>>, <<Dash>> >>
    /\ ParseLine(Senseless) = <<>> /\ ParseLine(<<>>) = <<>>
  <1>1. /\ Junk \in Characters /\ Blank \in Characters /\ Dash \in Characters
        /\ Junk # Newline /\ Blank # Newline /\ Dash # Newline /\ Junk # Blank /\ Dash # Blank
    BY Zenon DEF Junk, Blank, Dash, Newline, Characters
  <1>2. Lacking(Senseless, Newline)
    <2>1. /\ Senseless \in Seq(Characters) /\ Len(Senseless) = 3
          /\ Senseless[1] = Junk /\ Senseless[2] = Blank /\ Senseless[3] = Dash
      BY <1>1, ThreeAreASequence DEF Senseless
    <2>2. \A i \in 1..3 : i = 1 \/ i = 2 \/ i = 3
      OBVIOUS
    <2> QED
      BY <1>1, <2>1, <2>2 DEF Lacking
  <1> DEFINE junk == <<Junk>>
             dash == <<Dash>>
  <1>3. /\ junk \in Seq(Characters) /\ dash \in Seq(Characters)
        /\ Blank \notin ToSet(junk) /\ Blank \notin ToSet(dash)
    BY <1>1, OneIsASequence DEF ToSet
  <1>4. Senseless = Append(junk, Blank) \o dash
    <2>1. <<Junk, Blank>> = Append(junk, Blank) /\ <<Junk, Blank, Dash>> = Append(<<Junk, Blank>>, Dash)
      BY LongerLiterals
    <2> DEFINE two == Append(junk, Blank)
    <2>2. two \in Seq(Characters)
      BY <1>1, <1>3, AppendProperties
    <2> HIDE DEF two, junk
    <2>3. Append(two, Dash) = two \o <<Dash>>
      BY <1>1, <2>2, AppendIsConcat
    <2> QED
      BY <2>1, <2>3 DEF Senseless, two
  <1> HIDE DEF junk, dash
  <1>5. /\ Split(Append(junk, Blank) \o dash, Blank) = Split(junk, Blank) \o Split(dash, Blank)
        /\ Split(junk, Blank) = <<junk>> /\ Split(dash, Blank) = <<dash>>
    BY <1>1, <1>3, SplitConcat, SplitOne
  <1>6. <<junk>> \o <<dash>> = <<junk, dash>> /\ Len(<<junk, dash>>) = 2 /\ Len(<< <<>> >>) = 1
    <2>1. Len(<<junk, dash>>) = 2 /\ Len(<< <<>> >>) = 1
      OBVIOUS
    <2>2. <<junk, dash>> = Append(<<junk>>, dash)
      BY LongerLiterals
    <2>3. <<junk>> \in Seq({junk, dash}) /\ dash \in {junk, dash}
      OBVIOUS
    <2>4. Append(<<junk>>, dash) = <<junk>> \o <<dash>>
      BY <2>3, AppendIsConcat
    <2> QED
      BY <2>1, <2>2, <2>4
  <1>7. Split(Senseless, Blank) = <<junk, dash>>
    BY <1>4, <1>5, <1>6
  <1>8. Split(<<>>, Blank) = << <<>> >>
    <2> DEFINE none == <<>>
    <2>1. none \in Seq(Characters) /\ Blank \notin ToSet(none)
      BY DEF ToSet
    <2> HIDE DEF none
    <2>2. Split(none, Blank) = <<none>>
      BY <2>1, SplitOne
    <2> QED
      BY <2>2 DEF none
  <1>9. ParseLine(Senseless) = <<>>
    <2> DEFINE fields == <<junk, dash>>
    <2>1. Len(fields) \in Nat /\ Len(fields) < 6
      BY <1>6
    <2> HIDE DEF fields
    <2>2. Parsed(fields, Dashed(fields)) = <<>>
      BY <2>1, TooFewFields
    <2> QED
      BY <1>7, <2>2, ParseLineIs DEF fields
  <1>10. ParseLine(<<>>) = <<>>
    <2> DEFINE fields == << <<>> >>
    <2>1. Len(fields) \in Nat /\ Len(fields) < 6
      BY <1>6
    <2> HIDE DEF fields
    <2>2. Parsed(fields, Dashed(fields)) = <<>>
      BY <2>1, TooFewFields
    <2> QED
      BY <1>8, <2>2, ParseLineIs DEF fields
  <1> QED
    BY <1>2, <1>7, <1>9, <1>10 DEF junk, dash

LEMMA TableIsCut ==
    ASSUME NEW a, NEW b, NEW c, Lacking(a, Newline), Lacking(b, Newline), Lacking(c, Newline)
    PROVE  /\ Table(a, b, c) \in Seq(Characters)
           /\ Split(Table(a, b, c), Newline) = Lines(a, b, c)
           /\ Lines(a, b, c) \in Seq(Seq(Characters))
  <1> DEFINE end == Gap(Newline)
             none == <<>>
             junk == Senseless
             l0 == none
             l1 == a \o end
             l2 == l1 \o (b \o end)
             l3 == l2 \o (junk \o end)
             l4 == l3 \o (c \o end)
             p1 == <<a>>
             p2 == p1 \o <<b>>
             p3 == p2 \o <<junk>>
             p4 == p3 \o <<c>>
  <1>1. /\ Newline \in Characters /\ end \in Seq(Characters) /\ none \in Seq(Characters)
        /\ Lacking(junk, Newline) /\ junk \in Seq(Characters)
    BY KernelWordsAre, OneIsASequence, SenselessIs DEF Gap, Lacking
  <1>2. a \in Seq(Characters) /\ b \in Seq(Characters) /\ c \in Seq(Characters)
    BY DEF Lacking
  <1>3. Cuts(l1, p1, Newline)
    <2>1. Append(a, Newline) = l1
      BY <1>1, <1>2, AppendIsConcat DEF Gap
    <2>2. Newline \notin ToSet(a)
      BY DEF Lacking, ToSet
    <2> HIDE DEF l1, p1
    <2>3. Cuts(Append(a, Newline), <<a>>, Newline)
      BY <1>1, <1>2, <2>2, PieceCuts
    <2> QED
      BY <2>1, <2>3 DEF p1
  <1> HIDE DEF l1, p1, junk, none
  <1>4. Cuts(l2, p2, Newline)
    <2>1. Newline \in Characters /\ Cuts(l1, p1, Newline) /\ Lacking(b, Newline)
      BY <1>1, <1>3
    <2>2. Cuts(l1 \o (b \o Gap(Newline)), p1 \o <<b>>, Newline)
      BY ONLY <2>1, FieldCuts
    <2> QED
      BY <2>2
  <1>5. (l1 \o b) \o (end \o (junk \o end)) = l2 \o (junk \o end)
    <2> DEFINE rest == junk \o end
    <2>1. rest \in Seq(Characters)
      BY <1>1, ConcatProperties
    <2> HIDE DEF rest
    <2> QED
      BY <1>1, <1>3, <2>1, FieldCuts
  <1> HIDE DEF l2, p2
  <1>6. Cuts(l3, p3, Newline)
    <2>1. Newline \in Characters /\ Cuts(l2, p2, Newline) /\ Lacking(junk, Newline)
      BY <1>1, <1>4
    <2>2. Cuts(l2 \o (junk \o Gap(Newline)), p2 \o <<junk>>, Newline)
      BY ONLY <2>1, FieldCuts
    <2> QED
      BY <2>2
  <1> HIDE DEF l3, p3
  <1>7. Cuts(l4, p4, Newline) /\ (l3 \o c) \o end = l4
    <2>1. /\ Cuts(l3 \o (c \o Gap(Newline)), p3 \o <<c>>, Newline)
          /\ (l3 \o c) \o Gap(Newline) = l3 \o (c \o Gap(Newline))
      <3>1. Newline \in Characters /\ Cuts(l3, p3, Newline) /\ Lacking(c, Newline)
        BY <1>1, <1>6
      <3> QED
        BY ONLY <3>1, FieldCuts
    <2> QED
      BY <2>1
  <1> HIDE DEF l4, p4
  <1>8. Table(a, b, c) = l4
    <2>1. Table(a, b, c) = (((l1 \o b) \o (end \o (junk \o end))) \o c) \o end
      BY DEF Table, l1, junk
    <2> QED
      BY <1>5, <1>7, <2>1 DEF l3
  <1>9. Split(l4, Newline) = p4 \o <<none>>
    <2>1. l4 \in Seq(Characters) /\ Split(l4 \o none, Newline) = p4 \o Split(none, Newline)
      BY <1>1, <1>7 DEF Cuts
    <2>2. l4 \o none = l4
      BY <2>1, ConcatEmptySeq DEF none
    <2>3. Newline \notin ToSet(none)
      BY DEF none, ToSet
    <2>4. Split(none, Newline) = <<none>>
      BY <1>1, <2>3, SplitOne
    <2> QED
      BY <2>1, <2>2, <2>4
  <1>10. p4 \o <<none>> = Lines(a, b, c) /\ p4 \o <<none>> \in Seq(Seq(Characters))
    <2> DEFINE V == Seq(Characters)
               More(p, x) == p \in Seq(V) /\ x \in V => /\ p \o <<x>> = Append(p, x)
                                                       /\ Append(p, x) \in Seq(V)
    <2>1. \A p, x : More(p, x)
      BY AppendIsConcat, AppendProperties
    <2>2. a \in V /\ b \in V /\ c \in V /\ junk \in V /\ none \in V
      BY <1>1, <1>2
    <2>3. p1 = Append(<<>>, a) /\ p1 \in Seq(V)
      BY <1>3, LongerLiterals DEF p1, Cuts
    <2> HIDE DEF V
    <2>4. p2 = Append(p1, b) /\ p2 \in Seq(V)
      BY <2>1, <2>2, <2>3 DEF p2
    <2>5. p3 = Append(p2, junk) /\ p3 \in Seq(V)
      BY <2>1, <2>2, <2>4 DEF p3
    <2>6. p4 = Append(p3, c) /\ p4 \in Seq(V)
      BY <2>1, <2>2, <2>5 DEF p4
    <2>7. p4 \o <<none>> = Append(p4, none) /\ Append(p4, none) \in Seq(V)
      BY <2>1, <2>2, <2>6
    <2> QED
      BY <2>3, <2>4, <2>5, <2>6, <2>7 DEF Lines, junk, none, V
  <1>11. l4 \in Seq(Characters)
    BY <1>7 DEF Cuts
  <1> QED
    BY <1>8, <1>9, <1>10, <1>11

LEMMA TableIsParsed ==
    ASSUME NEW a, NEW b, NEW c, Lacking(a, Newline), Lacking(b, Newline), Lacking(c, Newline),
           NEW x, NEW y, ParseLine(a) = <<x>>, ParseLine(b) = <<y>>, ParseLine(c) = <<x>>
    PROVE  Parse(Table(a, b, c)) = <<x, y, x>>
  <1> DEFINE none == <<>>
             junk == Senseless
             S == {a, b, c, junk, none}
             R == {x, y}
             f == [line \in S |-> ParseLine(line)]
             l1 == Append(none, a)
             l2 == Append(l1, b)
             l3 == Append(l2, junk)
             l4 == Append(l3, c)
             l5 == Append(l4, none)
             All(text) == Spread(text, f)
  <1>1. f[a] = <<x>> /\ f[b] = <<y>> /\ f[c] = <<x>> /\ f[junk] = <<>> /\ f[none] = <<>>
    BY SenselessIs
  <1>2. Spells(f, S, R)
    <2>1. <<x>> \in Seq(R) /\ <<y>> \in Seq(R) /\ <<>> \in Seq(R)
      OBVIOUS
    <2>2. \A line \in S : f[line] \in Seq(R)
      BY <1>1, <2>1
    <2> QED
      BY <2>2 DEF Spells
  <1>4. none \in Seq(S) /\ a \in S /\ b \in S /\ c \in S /\ junk \in S /\ none \in S
    OBVIOUS
  <1>5. All(none) = <<>>
    BY DEF Spread, FlattenSeq
  <1>6. l5 = Lines(a, b, c)
    BY DEF Lines
  <1> DEFINE one == <<x>>
             two == <<x, y>>
             three == <<x, y, x>>
             Then(r, e) == r \in Seq(R) /\ e \in R => /\ r \o <<e>> = Append(r, e)
                                                   /\ Append(r, e) \in Seq(R) /\ r \o <<>> = r
  <1>14. \A r, e : Then(r, e)
    BY AppendIsConcat, AppendProperties, ConcatEmptySeq
  <1>15. /\ one = Append(<<>>, x) /\ two = Append(one, y) /\ three = Append(two, x)
         /\ x \in R /\ y \in R /\ <<>> \in Seq(R)
    BY LongerLiterals
  <1> HIDE DEF none, junk, S, R, one, two, three
  <1>16. /\ one \in Seq(R) /\ two \in Seq(R) /\ three \in Seq(R)
         /\ <<>> \o <<x>> = one /\ one \o <<y>> = two /\ two \o <<x>> = three
         /\ two \o <<>> = two /\ three \o <<>> = three
    <2>1. one \in Seq(R) /\ <<>> \o <<x>> = one
      BY <1>14, <1>15
    <2>2. two \in Seq(R) /\ one \o <<y>> = two
      BY <1>14, <1>15, <2>1
    <2>3. three \in Seq(R) /\ two \o <<x>> = three /\ two \o <<>> = two
      BY <1>14, <1>15, <2>2
    <2>4. three \o <<>> = three
      BY <1>14, <1>15, <2>3
    <2> QED
      BY <2>1, <2>2, <2>3, <2>4
  <1> HIDE DEF f
  <1>7. \A text \in Seq(S) : \A e \in S :
            Append(text, e) \in Seq(S) /\ All(Append(text, e)) = All(text) \o f[e]
    BY <1>2, SpreadGrows, AppendProperties
  <1> HIDE DEF All, Then
  <1>8. l1 \in Seq(S) /\ All(l1) = one
    BY <1>1, <1>4, <1>5, <1>7, <1>16
  <1> HIDE DEF l1
  <1>9. l2 \in Seq(S) /\ All(l2) = two
    BY <1>1, <1>4, <1>7, <1>8, <1>16
  <1> HIDE DEF l2
  <1>10. l3 \in Seq(S) /\ All(l3) = two
    BY <1>1, <1>4, <1>7, <1>9, <1>16
  <1> HIDE DEF l3
  <1>11. l4 \in Seq(S) /\ All(l4) = three
    BY <1>1, <1>4, <1>7, <1>10, <1>16
  <1> HIDE DEF l4
  <1>12. l5 \in Seq(S) /\ All(l5) = three
    BY <1>1, <1>4, <1>7, <1>11, <1>16
  <1> HIDE DEF l5
  <1>13. Parse(Table(a, b, c)) = Spread(l5, f)
    <2>1. Split(Table(a, b, c), Newline) = l5
      BY <1>6, TableIsCut
    <2>2. Parse(Table(a, b, c)) = FlattenSeq([i \in DOMAIN l5 |-> ParseLine(l5[i])])
      BY <2>1, Zenon DEF Parse, Newline
    <2>3. \A i \in DOMAIN l5 : l5[i] \in S
      BY <1>12, ElementOfSeq
    <2>4. [i \in DOMAIN l5 |-> ParseLine(l5[i])] = [i \in DOMAIN l5 |-> f[l5[i]]]
      BY <2>3 DEF f
    <2> QED
      BY <2>2, <2>4 DEF Spread
  <1> QED
    BY <1>12, <1>13 DEF All, three

\* What is told apart in an entry of the table.
Colon == ":"

FuseRclone == "fuse.rclone"

Fuse == "fuse"

Home == "/home"

LEMMA TableWords ==
    /\ {Colon, FuseRclone, Fuse, Home, Root} \subseteq Characters
    /\ Fuse # FuseRclone /\ Home # Root
  BY Zenon DEF Colon, FuseRclone, Fuse, Home, Root, Characters

\* What a remote's name is made of (config.rs:656-693).
Remotes == Alphanumeric \cup {"_", ".", "+", "@", "-", " "}

LEMMA RemoteIs ==
    ASSUME NEW remote, RemoteOk(remote)
    PROVE  remote # <<>> /\ ToSet(remote) \subseteq Remotes /\ Root \notin Remotes
  <1>1. Root \notin Remotes
    BY Zenon DEF Root, Remotes, Alphanumeric
  <1> QED
    BY <1>1, Zenon DEF RemoteOk, Remotes

LEMMA IsRcloneIs ==
    ASSUME NEW entry
    PROVE  IsRclone(entry) = \/ entry.fstype = <<FuseRclone>>
                             \/ /\ entry.fstype = <<Fuse>>
                                /\ Contains(entry.source, Colon)
                                /\ Head(entry.source) # Root
  BY Zenon DEF IsRclone, FuseRclone, Fuse, Colon, Root

\* A remote is told from a path.
LEMMA FsSpecIsNoPath ==
    ASSUME NEW mount \in Mounts, RemoteOk(mount.remote)
    PROVE  /\ FsSpec(mount) \in Seq(Characters)
           /\ Contains(FsSpec(mount), Colon) /\ Head(FsSpec(mount)) # Root
  <1> DEFINE remote == mount.remote
             colon == <<Colon>>
             trimmed == Trimmed(mount.path, "/")
             front == remote \o colon
             spec == front \o trimmed
  <1>1. remote \in Seq(Characters) /\ mount.path \in Seq(Characters)
    BY DEF Mounts
  <1>2. remote # <<>> /\ ToSet(remote) \subseteq Remotes /\ Root \notin Remotes
    BY RemoteIs
  <1>3. trimmed \in Seq(Characters)
    <2>1. PICK k \in 1..(Len(mount.path) + 1) : trimmed = SubSeq(mount.path, k, Len(mount.path))
      BY <1>1, TrimmedFrom
    <2>2. \A i \in k..Len(mount.path) : mount.path[i] \in Characters
      BY <1>1
    <2>3. SubSeq(mount.path, k, Len(mount.path)) \in Seq(Characters)
      BY <1>1, <2>2, SubSeqProperties
    <2> QED
      BY <2>1, <2>3
  <1>4. FsSpec(mount) = spec
    BY Zenon DEF FsSpec, Colon
  <1>5. colon \in Seq(Characters) /\ Len(colon) = 1 /\ colon[1] = Colon
    BY TableWords, OneIsASequence
  <1> HIDE DEF remote, colon, trimmed
  <1>6. Len(remote) \in Nat \ {0} /\ remote[1] \in ToSet(remote)
    <2>1. Len(remote) \in Nat \ {0} /\ DOMAIN remote = 1..Len(remote)
      BY <1>1, <1>2, LenProperties, EmptySeq
    <2>2. 1 \in DOMAIN remote
      BY <2>1
    <2> QED
      BY <2>1, <2>2 DEF ToSet
  <1>7. remote[1] # Root
    BY <1>2, <1>6
  <1>8. /\ front \in Seq(Characters) /\ Len(front) = Len(remote) + 1
        /\ front[1] = remote[1] /\ front[Len(remote) + 1] = Colon
    BY <1>1, <1>5, <1>6, ConcatProperties
  <1> HIDE DEF front
  <1>9. /\ spec \in Seq(Characters) /\ Len(spec) = Len(front) + Len(trimmed) /\ Len(trimmed) \in Nat
        /\ \A i \in 1..Len(front) : spec[i] = front[i]
    <2>1. front \in Seq(Characters) /\ Len(front) \in Nat /\ Len(trimmed) \in Nat
      BY <1>3, <1>8, LenProperties
    <2> QED
      BY <1>3, <2>1, ConcatProperties
  <1> HIDE DEF spec
  <1>10. /\ 1 \in 1..Len(front) /\ Len(front) \in 1..Len(front) /\ Len(front) \in 1..Len(spec)
    BY <1>6, <1>8, <1>9
  <1>11. spec[1] = remote[1] /\ spec[Len(front)] = Colon
    BY <1>8, <1>9, <1>10
  <1>12. Contains(spec, Colon)
    BY <1>10, <1>11 DEF Contains
  <1>13. Head(spec) # Root
    BY <1>7, <1>11
  <1> QED
    BY <1>4, <1>9, <1>12, <1>13

\* The table, with the lines that are there.
LEMMA TableIs ==
    ASSUME NEW a, NEW b, NEW c
    PROVE  a \o <<"\n">> \o b \o <<"\n", "junk", " ", "-", "\n">> \o c \o <<"\n">> = Table(a, b, c)
  <1> DEFINE between == <<Newline, Junk, Blank, Dash, Newline>>
  <1>1. between = Gap(Newline) \o (Senseless \o Gap(Newline))
    BY DEF Gap, Senseless
  <1> HIDE DEF between
  <1>2. a \o Gap(Newline) \o b \o between \o c \o Gap(Newline) = Table(a, b, c)
    BY <1>1, Zenon DEF Table
  <1> QED
    BY <1>2, Zenon DEF between, Gap, Newline, Junk, Blank, Dash

LEMMA KernelKnows ==
    ASSUME NEW mount \in Mounts, MountOk(mount)
    PROVE  KnownToTheKernel(mount)
  <1> DEFINE path == mount.mount_point
             spec == FsSpec(mount)
             elsewhere == <<Home>>
             fuse == <<Fuse>>
             fuseRclone == <<FuseRclone>>
  <1>1. path \in Seq(Characters) /\ path # <<>> /\ Head(path) = Root
    BY Zenon DEF Mounts, MountOk, Root
  <1>2. spec \in Seq(Characters) /\ Contains(spec, Colon) /\ Head(spec) # Root
    BY FsSpecIsNoPath DEF MountOk
  <1>3. /\ elsewhere \in Seq(Characters) /\ elsewhere # <<>> /\ Head(elsewhere) # Root
        /\ fuse \in Seq(Characters) /\ fuse # <<>>
        /\ fuseRclone \in Seq(Characters) /\ fuseRclone # <<>> /\ fuse # fuseRclone
    <2>1. Home \in Characters /\ Fuse \in Characters /\ FuseRclone \in Characters
      BY TableWords
    <2> QED
      BY <2>1, TableWords, OneIsASequence
  <1> DEFINE Own(fstype) == MountEntry(path, spec, fstype)
             home == MountEntry(elsewhere, path, fuse)
             Read(fstype, further) ==
                 Parse(KernelLine(home, further) \o <<"\n">> \o KernelLine(Own(fstype), 1 - further)
                       \o <<"\n", "junk", " ", "-", "\n">> \o KernelLine(home, 0) \o <<"\n">>)
             Known(fstype, further) ==
                 /\ Read(fstype, further) = <<home, Own(fstype), home>>
                 /\ RcloneAt(Read(fstype, further), path) /\ ~RcloneAt(Read(fstype, further), elsewhere)
  <1>4. ASSUME NEW fstype \in {fuseRclone, fuse}, NEW further \in 0..1
        PROVE  Known(fstype, further)
    <2> DEFINE own == Own(fstype)
               a == KernelLine(home, further)
               b == KernelLine(own, 1 - further)
               c == KernelLine(home, 0)
               read == Read(fstype, further)
    <2>1. fstype \in Seq(Characters) /\ fstype # <<>>
      BY <1>3
    <2> HIDE DEF path, spec, elsewhere, fuse, fuseRclone
    <2>2. /\ Lacking(a, Newline) /\ ParseLine(a) = <<home>>
          /\ Lacking(c, Newline) /\ ParseLine(c) = <<home>>
      BY <1>1, <1>3, KernelLineIsParsed
    <2>3. Lacking(b, Newline) /\ ParseLine(b) = <<own>>
      <3>1. 1 - further \in 0..1
        OBVIOUS
      <3> QED
        BY <1>1, <1>2, <2>1, <3>1, KernelLineIsParsed
    <2>4. /\ own.mount_point = path /\ own.source = spec /\ own.fstype = fstype
          /\ home.mount_point = elsewhere /\ home.source = path /\ home.fstype = fuse
      BY DEF MountEntry
    <2>5. read = Parse(Table(a, b, c))
      BY TableIs
    <2> HIDE DEF a, b, c, own, home, Own
    <2>6. Parse(Table(a, b, c)) = <<home, own, home>>
      BY <2>2, <2>3, TableIsParsed
    <2> HIDE DEF read
    <2>7. read = <<home, own, home>> /\ ToSet(read) = {home, own}
      <3>1. ToSet(<<home, own, home>>) = {home, own}
        BY DEF ToSet
      <3> QED
        BY <2>5, <2>6, <3>1
    <2>8. IsRclone(own)
      BY <1>2, <2>4, IsRcloneIs DEF fuse, fuseRclone
    <2>9. ~IsRclone(home)
      BY <1>1, <1>3, <2>4, IsRcloneIs DEF fuse, fuseRclone
    <2>10. path # elsewhere
      BY <1>1, <1>3
    <2>11. RcloneAt(read, path) /\ ~RcloneAt(read, elsewhere)
      BY <2>4, <2>7, <2>8, <2>9, <2>10 DEF RcloneAt
    <2> QED
      BY <2>7, <2>11 DEF own, read
  <1> HIDE DEF Known
  <1>5. \A fstype \in {fuseRclone, fuse}, further \in 0..1 : Known(fstype, further)
    BY <1>4
  <1> QED
    BY <1>5, Zenon DEF KnownToTheKernel, Known, Fuse, FuseRclone, Home

\* Every mount the model mentions is spelled with characters.
LEMMA MountIs ==
    ASSUME NEW name \in Seq(Characters), NEW remote \in Seq(Characters), NEW point \in Seq(Characters)
    PROVE  Mount(name, remote, point) \in Mounts
  <1> DEFINE none == <<>>
             writes == "writes"
             unset == "unset"
             unsigned == ""
  <1>1. writes \in Characters /\ unset \in Characters /\ unsigned \in Characters
    BY Zenon DEF Characters
  <1> HIDE DEF writes, unset, unsigned
  <1>2. none \in Seq(Characters) /\ none \in Seq(Nat) /\ none \in Seq(Words)
    OBVIOUS
  <1>3. Unset = [sign |-> unset, isNumber |-> FALSE, unit |-> none]
    BY Zenon DEF Unset, Quantity, unset, none
  <1>4. None = [sign |-> unsigned, digits |-> none]
    BY Zenon DEF None, Umask, unsigned, none
  <1>5. Mount(name, remote, point) =
            [name |-> name, remote |-> remote, path |-> none, mount_point |-> point,
             cache_mode |-> writes, cache_max_size |-> Unset, cache_max_age |-> Unset,
             read_only |-> FALSE, allow_other |-> FALSE, uid |-> none, gid |-> none, umask |-> None,
             extra_args |-> none]
    BY Zenon DEF Mount, writes, none
  <1> HIDE DEF none
  <1>6. Unset \in Quantities /\ None \in Masks
    BY <1>1, <1>2, <1>3, <1>4 DEF Quantities, Masks
  <1> QED
    BY <1>1, <1>2, <1>5, <1>6 DEF Mounts

LEMMA MentionedAre ==
    ASSUME NEW mount \in Mentioned
    PROVE  mount \in Mounts
  <1> DEFINE a == "a"
             root == "/"
             one == <<a>>
             front == <<root>>
             point == <<root, a>>
             switch == Flag("--read-only")
             given == Text(point)
             extra == <<switch, given>>
             Mentioning(text) == [Mount(one, one, front \o text) EXCEPT !.path = text, !.extra_args = extra]
  <1>1. a \in Characters /\ root \in Characters
    BY Zenon DEF Characters
  <1>2. one \in Seq(Characters) /\ front \in Seq(Characters) /\ point \in Seq(Characters)
    <2> HIDE DEF a, root
    <2> QED
      BY <1>1
  <1>3. switch \in Words
    <2> DEFINE flag == "--read-only"
    <2>1. flag \in Flags
      BY Zenon DEF Flags, Switches
    <2>2. <<>> \in Givens
      BY DEF Givens
    <2> HIDE DEF flag
    <2>3. Flag(flag) \in Words
      BY <2>1, <2>2 DEF Words, Flag, Word
    <2> QED
      BY <2>3 DEF flag
  <1>4. given \in Words
    <2> HIDE DEF point
    <2>1. point \in Givens /\ NoFlag \in Flags
      BY <1>2, GivensAre, FlagsDiffer
    <2>2. Word(NoFlag, point) \in Words
      BY <2>1 DEF Words, Word
    <2> QED
      BY <2>2, Zenon DEF Text, NoFlag
  <1> HIDE DEF one, front, point, a, root, switch, given
  <1>5. extra \in Seq(Words)
    BY <1>3, <1>4
  <1> HIDE DEF extra
  <1>6. ASSUME NEW text \in Spellings.texts
        PROVE  Mentioning(text) \in Mounts
    <2>1. text \in Seq(Characters)
      BY SpellingsAssumption, TextsAreOfCharacters, Zenon
    <2>2. front \o text \in Seq(Characters)
      BY <1>2, <2>1, ConcatProperties
    <2>3. Mount(one, one, front \o text) \in Mounts
      BY <1>2, <2>2, MountIs
    <2> QED
      BY <1>5, <2>1, <2>3 DEF Mounts
  <1>7. ASSUME NEW name \in Spellings.names
        PROVE  Mount(name, one, point) \in Mounts
    <2>1. name \in Seq(Characters)
      BY SpellingsAssumption, TextsAreOfCharacters, Zenon
    <2> QED
      BY <1>2, <2>1, MountIs
  <1> HIDE DEF Mentioning
  <1>8. Mentioned = {Mount(name, one, point) : name \in Spellings.names}
                        \cup {Mentioning(text) : text \in Spellings.texts}
    BY Zenon DEF Mentioned, Mentioning, one, front, point, a, root, switch, given, extra
  <1> QED
    BY <1>6, <1>7, <1>8

\* Whatever mounts are accepted, however their names, paths and arguments are spelled, what
\* the service starts it knows again: systemd's list of units shows each under its own name
\* and serving its own remote and path, and a unit made by hand as no mount; the hook is told
\* its configuration and name; and the kernel's table, whatever it escapes and beside a line
\* that makes no sense, is read as the mounts that were made, the own one as rclone's and
\* no other (supervisor.rs:234-267, 311-330, 1399-1409; mountinfo.rs:46-51, 104-109).
THEOREM OwnMountsAreKnown == ServiceSpec => []OwnMountsAreRecognised
  <1>1. OwnMountsAreRecognised
    <2> SUFFICES ASSUME NEW mount \in Mentioned, MountOk(mount)
                 PROVE  KnownToSystemd(mount) /\ KnownToTheKernel(mount)
      BY Zenon DEF OwnMountsAreRecognised
    <2>1. mount \in Mounts
      BY MentionedAre
    <2>2. KnownToSystemd(mount)
      BY <2>1, SystemdKnows DEF MountOk
    <2>3. KnownToTheKernel(mount)
      BY <2>1, KernelKnows
    <2> QED
      BY <2>2, <2>3
  <1> QED
    BY <1>1, PTL
=============================================================================
