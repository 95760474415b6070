----------------------------- MODULE MCMbcHeads -----------------------------
(***************************************************************************)
(* Short texts: every sequence of characters, each given by its bytes.     *)
(***************************************************************************)
EXTENDS MbcHeads, SequencesExt

CONSTANT MaxCharacters

Characters(encoding) ==
  CASE encoding = "UTF-8" -> {<<97>>, <<195, 169>>, <<227, 129, 130>>}
    [] encoding = "Shift_JIS" -> {<<32>>, <<65>>, <<129, 65>>, <<129, 129>>}
    [] encoding = "ISO-8859-1" -> {<<97>>, <<255>>}

Text(encoding, characters) ==
  LET head(i) == Len(FlattenSeq(SubSeq(characters, 1, i - 1)))
  IN  [encoding |-> encoding, bytes |-> FlattenSeq(characters),
       heads |-> {head(i) : i \in DOMAIN characters}]

TextsIn(encoding, most) ==
  {Text(encoding, characters) :
     characters \in UNION {[1 .. n -> Characters(encoding)] : n \in 0 .. most}}

ShortTexts ==
  TextsIn("Shift_JIS", MaxCharacters) \cup TextsIn("UTF-8", 2) \cup TextsIn("ISO-8859-1", 2)
=============================================================================
