-------------------------------- MODULE Texts --------------------------------
(***************************************************************************)
(* Texts.  A text is a sequence of characters; a word that nothing looks   *)
(* into, or that is looked for as a whole, counts as one character.        *)
(***************************************************************************)
EXTENDS Naturals, Sequences, SequencesExt

\* The pieces between separators, empty ones too.
Split(text, separator) ==
    FoldLeft(LAMBDA pieces, c : IF c = separator THEN Append(pieces, <<>>)
                                ELSE ReplaceAt(pieces, Len(pieces), Append(Last(pieces), c)),
             << <<>> >>, text)

Join(texts, separator) ==
    FlattenSeq([i \in DOMAIN texts |-> IF i = 1 THEN texts[i] ELSE <<separator>> \o texts[i]])

\* Without some of the elements: a filter, and what it rejects.
Dropping(seq, rejected) ==
    FlattenSeq([i \in DOMAIN seq |-> IF seq[i] \in rejected THEN <<>> ELSE <<seq[i]>>])

Blanks == {" ", "\n"}

\* Without what is blank.
Ink(text) == Dropping(text, Blanks)

\* Without what is blank at either end.
Strip(text) ==
    LET inked == {i \in DOMAIN text : text[i] \notin Blanks}
        first == CHOOSE i \in inked : \A j \in inked : i <= j
        last == CHOOSE i \in inked : \A j \in inked : j <= i
    IN  IF inked = {} THEN <<>> ELSE SubSeq(text, first, last)
=============================================================================
