-------------------------------- MODULE Rows --------------------------------
(***************************************************************************)
(* The rows of the menu that hold text (crates/tray: menu.rs, model.rs):   *)
(* none is wider than a panel draws, and none comes or goes, since a menu  *)
(* of another shape has other ids.  A row is its label, or hidden: an      *)
(* Option.                                                                 *)
(***************************************************************************)
EXTENDS Reasons, FiniteSetsExt

CONSTANTS RowWidth, ReasonRows, NoticeRows, DegradedRows, FileCap

ASSUME RowsAssumption ==
    /\ {RowWidth, ReasonRows, NoticeRows, DegradedRows} \subseteq Nat \ {0}
    /\ FileCap \in Nat

Cut == "..."

(***************************************************************************)
(* Fitting                                                                 *)
(***************************************************************************)
SplitToWidth(word, width) ==
    [k \in 1..((Len(word) + width - 1) \div width) |->
        SubSeq(word, (k - 1) * width + 1, Min({k * width, Len(word)}))]

Words(line) == Dropping(Split(line, " "), {<<>>})

Pieces(line, width) ==
    LET words == Words(line)
    IN  FlattenSeq([i \in DOMAIN words |-> SplitToWidth(words[i], width)])

\* Side by side with what is there while it fits.
Lay(rows, piece, width) ==
    IF rows # <<>> /\ Len(Last(rows)) + 1 + Len(piece) <= width
    THEN ReplaceAt(rows, Len(rows), Last(rows) \o <<" ">> \o piece)
    ELSE Append(rows, piece)

LaidOut(pieces, width) == FoldLeft(LAMBDA rows, piece : Lay(rows, piece, width), <<>>, pieces)

\* Each line anew.
Unbounded(text, width) ==
    LET lines == Split(text, "\n")
    IN  FlattenSeq([i \in DOMAIN lines |-> LaidOut(Pieces(lines[i], width), width)])

\* What is left out is marked.
Wrap(text, width, max_lines) ==
    LET all == Unbounded(text, width)
    IN  IF Len(all) <= max_lines THEN all
        ELSE Append(SubSeq(all, 1, max_lines - 1), all[max_lines] \o <<" ", Cut>>)

Clip(text) == IF Len(text) <= RowWidth THEN text ELSE Append(SubSeq(text, 1, RowWidth), Cut)

\* Mnemonics: an underscore is doubled.
EscapeLabel(text) ==
    FlattenSeq([i \in DOMAIN text |-> IF text[i] = "_" THEN <<"_", "_">> ELSE <<text[i]>>])

\* What a panel, which is not part of the repository, draws of a label: the first of a
\* pair of underscores is not drawn, nor is one by itself.
Draw(drawn, c) ==
    IF c = "_" /\ ~drawn.held THEN [text |-> drawn.text, held |-> TRUE]
    ELSE [text |-> Append(drawn.text, c), held |-> FALSE]

Drawing(label) == FoldLeft(Draw, [text |-> <<>>, held |-> FALSE], label)

PanelDraws(label) == Drawing(label).text

(***************************************************************************)
(* Rows                                                                    *)
(***************************************************************************)
Hidden == {}

Separator == {<<"separator">>}

OneRow(text) == {EscapeLabel(Clip(text))}

RowOrGap(option) == UNION {OneRow(text) : text \in option}

\* Always as many rows.
Block(option, rows) ==
    LET wrapped == IF option = {} THEN <<>> ELSE Wrap(CHOOSE text \in option : TRUE, RowWidth, rows)
    IN  [i \in 1..rows |-> IF i <= Len(wrapped) THEN OneRow(wrapped[i]) ELSE Hidden]

NoticeLines(notice) ==
    Append(Block(notice, NoticeRows), IF notice = {} THEN Hidden ELSE Separator)

Button(says) == OneRow(<<says>>)

If(condition, says) == IF condition THEN {<<says>>} ELSE {}

\* A file that is not known to be sent is not said to be, and how much of it was is said
\* only where that can be known.
FileLine(file, has_progress) ==
    file.name
    \o (IF file.size = "unknown" THEN <<>> ELSE <<" ", "its size">>)
    \o (IF file.in_flight = "yes" THEN <<" ", "(uploading)">> ELSE <<>>)
    \o (IF has_progress /\ file.sent = "known" /\ file.size = "some" THEN <<" ", "sent">> ELSE <<>>)

\* A reading is an Option; without one the rows are there all the same.
TransferLines(reading) ==
    LET Of(what(_)) == UNION {what(r) : r \in reading}
    IN  <<OneRow(<<"headline">>)>>
        \o [slot \in 1..FileCap |->
               RowOrGap(Of(LAMBDA r : IF slot <= Len(r.files) THEN {FileLine(r.files[slot], r.has_progress)} ELSE {}))]
        \o <<RowOrGap(Of(LAMBDA r : If(Len(r.files) > FileCap, "and more")))>>
        \o <<RowOrGap(Of(LAMBDA r : If(r.errored, "failed to upload")))>>
        \o <<RowOrGap(Of(LAMBDA r : If(r.full, "out of space")))>>
        \o <<RowOrGap(Of(LAMBDA r : If(r.tier = "T4", "files on disk")))>>
        \o Block(Of(LAMBDA r : r.degraded), DegradedRows)

\* The submenu of a mount; point, remote and reason are Options.
MountItem(view, reading) ==
    <<OneRow(IF view.point = {} THEN <<"no mount point">> ELSE CHOOSE p \in view.point : TRUE),
      RowOrGap(view.remote)>>
    \o Block({<<"Failed:", " ">> \o reason : reason \in view.reason}, ReasonRows)
    \o <<Separator, Button("Open")>>
    \o (IF view.managed THEN <<Button("Mount"), Button("Unmount")>>
        ELSE <<OneRow(<<"Not managed">>), Hidden>>)
    \o <<Separator>>
    \o TransferLines(reading)

(***************************************************************************)
(* What is promised                                                        *)
(***************************************************************************)
Shown(rows) == Dropping(rows, {Hidden})

\* What a panel makes of rows.
AsDrawn(rows) ==
    LET shown == Shown(rows)
    IN  [i \in DOMAIN shown |-> PanelDraws(CHOOSE label \in shown[i] : TRUE)]

\* A reason says what rclone objected to and nothing of its command line; drawn, it is
\* never wider than a row with a mark, and whole, or marked where it was cut.
ReadableReason(journal, extra_args) ==
    LET reason == FailureReason(journal, extra_args)
        own == Dropping(journal, {entry \in ToSet(journal) : entry.systemd})
        label == <<"Failed:", " ">> \o reason
        drawn == AsDrawn(Block({label}, ReasonRows))
        ink == Ink(FlattenSeq(drawn))
    IN  /\ ToSet(reason) \cap ({ARGV_ECHO} \cup (extra_args \ {NoArgument})) = {}
        /\ Ink(reason) # <<>>
        /\ (\E entry \in ToSet(own) : Says(entry)) => reason = FailureReason(own, extra_args)
        /\ \A i \in DOMAIN drawn : Len(drawn[i]) <= RowWidth + 1
        /\ \/ ink = Ink(label)
           \/ Last(Last(drawn)) = Cut /\ IsPrefix(Front(ink), Ink(label))

\* Whatever there is to say of a mount, the rows are as many, those that can be clicked and
\* those that divide them are where they were, and no file is passed over in silence.
KeepsItsShape(view, reading) ==
    LET rows == MountItem(view, reading)
        blank == MountItem([view EXCEPT !.reason = {}, !.remote = {}], {})
        fixed == ReasonRows + 3
    IN  /\ Len(rows) = Len(blank)
        /\ Len(rows) = Len(MountItem([view EXCEPT !.managed = ~@], {}))
        /\ SubSeq(rows, fixed, fixed + 4) = SubSeq(blank, fixed, fixed + 4)
        /\ \A r \in reading :
              \A file \in 1..Len(r.files) :
                  \/ file <= FileCap /\ rows[fixed + 5 + file] = OneRow(FileLine(r.files[file], r.has_progress))
                  \/ file > FileCap /\ rows[fixed + 6 + FileCap] # Hidden
=============================================================================
