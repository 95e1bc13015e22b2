------------------------------ MODULE XmlEscape -----------------------------
(***************************************************************************)
(* xmlescape.c: xmlescape runs over a text twice, once to find the length  *)
(* of the buffer and once to fill it, and the two passes name the          *)
(* characters they replace separately.  A text is a sequence of            *)
(* characters.                                                             *)
(***************************************************************************)
EXTENDS Integers, SequencesExt

\* What the second pass writes for a character.
Replacement(c, attribute) ==
  CASE c = "<" -> <<"&", "l", "t", ";">>
    [] c = "\"" /\ attribute -> <<"%", "2", "2">>
    [] c = ">" -> <<"&", "g", "t", ";">>
    [] c = "&" -> <<"&", "a", "m", "p", ";">>
    [] OTHER -> <<c>>

\* What the first pass counts for it.
Width(c, attribute) ==
  CASE c \in {"<", ">"} -> 4
    [] c = "\"" /\ attribute -> 3
    [] c = "&" -> 5
    [] OTHER -> 1

\* The loops of the two passes: what each has after the first n characters.
Counted(text, attribute) ==
  LET len[n \in 0 .. Len(text)] ==
        IF n = 0 THEN 0 ELSE len[n - 1] + Width(text[n], attribute)
  IN  len

Written(text, attribute) ==
  LET out[n \in 0 .. Len(text)] ==
        IF n = 0 THEN <<>> ELSE out[n - 1] \o Replacement(text[n], attribute)
  IN  out

\* The size xmlescape allocates, the terminator included, and the text.
Allocated(text, attribute) == Counted(text, attribute)[Len(text)] + 1
Escape(text, attribute) == Written(text, attribute)[Len(text)]

\* What an XML reader makes of a text without markup: "&" begins an entity and
\* ";" ends it; what is not one of the three is no character of the text.
Entity(name) ==
  CASE name = <<"&", "l", "t">> -> "<"
    [] name = <<"&", "g", "t">> -> ">"
    [] name = <<"&", "a", "m", "p">> -> "&"
    [] OTHER -> "malformed"

ReadCharacter(reader, c) ==
  IF reader.name = <<>>
  THEN IF c = "&" THEN [reader EXCEPT !.name = <<c>>]
       ELSE [reader EXCEPT !.text = Append(@, c)]
  ELSE IF c = ";" THEN [text |-> Append(reader.text, Entity(reader.name)), name |-> <<>>]
       ELSE [reader EXCEPT !.name = Append(@, c)]

Reading(text) ==
  LET reader[n \in 0 .. Len(text)] ==
        IF n = 0 THEN [text |-> <<>>, name |-> <<>>]
        ELSE ReadCharacter(reader[n - 1], text[n])
  IN  reader

Read(text) == Reading(text)[Len(text)].text
=============================================================================
