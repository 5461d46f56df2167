------------------------------ MODULE Mountinfo ------------------------------
(***************************************************************************)
(* The mount table as it is read (crates/core/src/mountinfo.rs).           *)
(***************************************************************************)
EXTENDS Texts

(***************************************************************************)
(* What the kernel writes, which is not part of the repository             *)
(***************************************************************************)
\* The characters it escapes, with their codes in octal.
KernelEscapes ==
    { <<" ", <<"0", "4", "0">>>>, <<"\t", <<"0", "1", "1">>>>,
      <<"\n", <<"0", "1", "2">>>>, <<"\\", <<"1", "3", "4">>>> }

Escape(text) ==
    LET Written(c) == IF \E pair \in KernelEscapes : pair[1] = c
                      THEN <<"\\">> \o (CHOOSE pair \in KernelEscapes : pair[1] = c)[2]
                      ELSE <<c>>
    IN  FlattenSeq([i \in DOMAIN text |-> Written(text[i])])

\* A line: ids, a root, the point, options, any number of further fields, a lone "-", and
\* what is mounted.
KernelLine(entry, further) ==
    <<"36", " ", "35", " ", "98:0", " ", "/", " ">> \o Escape(entry.mount_point)
    \o <<" ", "rw,noatime", " ">> \o FlattenSeq([i \in 1..further |-> <<"shared:1", " ">>])
    \o <<"-", " ">> \o Escape(entry.fstype) \o <<" ">> \o Escape(entry.source)
    \o <<" ", "rw,user_id=1000">>

(***************************************************************************)
(* mountinfo.rs                                                            *)
(***************************************************************************)
MountEntry(mount_point, source, fstype) ==
    [mount_point |-> mount_point, source |-> source, fstype |-> fstype]

IsRclone(entry) ==
    \/ entry.fstype = <<"fuse.rclone">>
    \/ /\ entry.fstype = <<"fuse">>
       /\ Contains(entry.source, ":")
       /\ Head(entry.source) # "/"

\* Three digits are a byte if they say no more than 255; the first may be a plus.
IsByte(digits) ==
    /\ digits[1] \in {"+", "0", "1", "2", "3"}
    /\ {digits[2], digits[3]} \subseteq {"0", "1", "2", "3", "4", "5", "6", "7"}

Byte(digits) ==
    LET code == IF digits[1] = "+" THEN [digits EXCEPT ![1] = "0"] ELSE digits
    IN  IF \E pair \in KernelEscapes : pair[2] = code
        THEN (CHOOSE pair \in KernelEscapes : pair[2] = code)[1]
        ELSE "another byte"

\* Whether a backslash is followed by its three digits.
IsEscape(text, i) ==
    text[i] = "\\" /\ i + 3 <= Len(text) /\ IsByte(SubSeq(text, i + 1, i + 3))

\* Mutant: an escape is decoded, and its digits are read again.
UnescapeInPlace(text) ==
    [i \in DOMAIN text |-> IF IsEscape(text, i) THEN Byte(SubSeq(text, i + 1, i + 3)) ELSE text[i]]

\* From left to right; a backslash that begins no escape stands for itself.
Unescape(text) ==
    LET Read(done, i) ==
            IF i < done.next THEN done
            ELSE IF IsEscape(text, i)
            THEN [said |-> Append(done.said, Byte(SubSeq(text, i + 1, i + 3))), next |-> i + 4]
            ELSE [said |-> Append(done.said, text[i]), next |-> i + 1]
    IN  FoldLeft(Read, [said |-> <<>>, next |-> 1], [i \in DOMAIN text |-> i]).said

\* The fifth field, and what follows the first lone "-" after it; no entry without both.
ParseLine(line) ==
    LET fields == Split(line, " ")
        separator == SelectInSubSeq(fields, 6, Len(fields), LAMBDA field : field = <<"-">>)
    IN  IF separator = 0 \/ separator + 2 > Len(fields) THEN <<>>
        ELSE IF fields[5] = <<>> \/ fields[separator + 1] = <<>> THEN <<>>
        ELSE <<MountEntry(Unescape(fields[5]), Unescape(fields[separator + 2]),
                          Unescape(fields[separator + 1]))>>

\* One line that makes no sense hides no other.
Parse(contents) ==
    LET lines == Split(contents, "\n")
    IN  FlattenSeq([i \in DOMAIN lines |-> ParseLine(lines[i])])

RcloneAt(entries, path) ==
    \E entry \in ToSet(entries) : IsRclone(entry) /\ entry.mount_point = path
=============================================================================
