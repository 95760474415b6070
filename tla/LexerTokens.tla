---------------------------- MODULE LexerTokens ----------------------------
(***************************************************************************)
(* What the tokens say of the pattern, each read off the text without      *)
(* scanning it from left to right.                                         *)
(***************************************************************************)
EXTENDS LexerEscapes, FiniteSets

HasToken == pc = "idle"
Text(lo, hi) == SubSeq(pattern, lo + 1, hi)
Written == Text(tok.lo, tok.hi)

All(lo, hi, symbols) == \A i \in lo + 1 .. hi : pattern[i] \in symbols

(* The value of the digits from lo to hi.                                    *)
Value(lo, hi, base) ==
  LET value[i \in lo .. hi] ==
        IF i = lo THEN 0 ELSE value[i - 1] * base + DigitValue(pattern[i])
  IN  value[hi]

(* The end of the run of such symbols that begins at lo.                     *)
RunEnd(lo, symbols) ==
  CHOOSE hi \in lo .. Len(pattern) :
    All(lo, hi, symbols) /\ (hi < Len(pattern) => pattern[hi + 1] \notin symbols)

-----------------------------------------------------------------------------
(* Text without meaning: in extended mode white space and comments to the end *)
(* of the line, and in any mode a comment group and an escaped line break.    *)
IsLineComment(lo, hi) ==
  /\ pattern[lo + 1] = "#"
  /\ \A i \in lo + 1 .. hi - 1 : pattern[i] # "\n"
  /\ pattern[hi] = "\n" \/ hi = Len(pattern)

IsCommentGroup(lo, hi) ==
  /\ hi - lo >= 3 /\ Text(lo, lo + 3) = <<"(", "?", "#">>
  /\ \A i \in lo + 4 .. hi - 1 : pattern[i] # ")"
  /\ (hi - lo > 3 /\ pattern[hi] = ")") \/ hi = Len(pattern)

IsIgnored(lo, hi) ==
  \/ options.is_extended_mode /\ (IsLineComment(lo, hi) \/ (hi = lo + 1 /\ pattern[hi] \in Whitespace))
  \/ IsCommentGroup(lo, hi)
  \/ Text(lo, hi) \in {<<"\\", "\n">>, <<"\\", "\r", "\n">>}

(* The text falls into such pieces: each cut but the first ends one of them.  *)
AllIgnored(lo, hi) ==
  \E cuts \in SUBSET (lo .. hi) :
    /\ {lo, hi} \subseteq cuts
    /\ \A j \in cuts \ {lo} : \E i \in cuts : i < j /\ IsIgnored(i, j)

(* lex_impl: the tokens follow one another through the whole pattern.  Between two   *)
(* of them stands only text without meaning, and no token begins with such text.     *)
TokensCoverPattern ==
  HasToken =>
    LET before == IF Len(tokens) = 1 THEN 0 ELSE tokens[Len(tokens) - 1].hi
    IN  /\ AllIgnored(before, tok.lo)
        /\ ~\E hi \in tok.lo + 1 .. Len(pattern) : IsIgnored(tok.lo, hi)
        /\ IF tok.type = "END" THEN tok.lo = Len(pattern) ELSE tok.lo < tok.hi

-----------------------------------------------------------------------------
(* A brace closed at close, with a number, or a comma and at least one.               *)
IsBounds(open, close) ==
  /\ pattern[close + 1] = "}"
  /\ \/ open < close /\ All(open, close, Decimal)
     \/ \E comma \in open .. close - 1 :
          /\ pattern[comma + 1] = ","
          /\ All(open, comma, Decimal) /\ All(comma + 1, close, Decimal)
          /\ open < comma \/ comma + 1 < close

CommaOf(open, close) ==
  CHOOSE comma \in open .. close :
    All(open, comma, Decimal) /\ (comma = close \/ pattern[comma + 1] = ",")

(* How greedy a quantifier is, and what follows it to say so.                         *)
Suffixes == {<<"GREEDY", <<>>>>, <<"POSSESSIVE", <<"+">>>>, <<"RELUCTANT", <<"?">>>>}

(* lex_bounded_quantifier: a brace is a quantifier just if `{n}`, `{n,}`, `{,m}` or    *)
(* `{n,m}` is written there, with those numbers as its bounds, and what follows the    *)
(* brace makes it reluctant only if there was a choice; else it is one character.      *)
BoundsAreQuantifiers ==
  HasToken /\ tok.type # "END" /\ pattern[tok.lo + 1] = "{" =>
    LET open == tok.lo + 1
        closes == {close \in open .. Len(pattern) - 1 : IsBounds(open, close)}
    IN  IF closes = {}
          THEN tok.type = "LITERAL" /\ tok.hi = open
          ELSE LET close == CHOOSE close \in closes : TRUE
                   comma == CommaOf(open, close)
               IN  /\ tok.type = "QUANTIFIER"
                   /\ tok.data.min = Value(open, comma, 10)
                   /\ tok.data.has_max = (comma = close \/ comma + 1 < close)
                   /\ tok.data.has_max =>
                        /\ tok.data.min <= tok.data.max
                        /\ tok.data.max = IF comma = close THEN tok.data.min
                                          ELSE Value(comma + 1, close, 10)
                   /\ <<tok.data.type, Text(close + 1, tok.hi)>> \in Suffixes
                   /\ tok.data.type = "RELUCTANT" => comma < close

-----------------------------------------------------------------------------
(* Groups opened by the tokens before the last one.                                    *)
OpenedBefore == Cardinality({i \in 1 .. Len(tokens) - 1 : tokens[i].type \in Captures})

IsBareNumber == Len(Written) >= 2 /\ Written[1] = "\\" /\ Written[2] \in Decimal \ {"0"}

(* lex_capture_num_or_name and lex_impl: a number refers to that group, -1 to the group *)
(* opened last, wherever the reference is read; after a bare backslash a number of      *)
(* several digits refers only to a group that has been opened, and is else an octal     *)
(* escape or a digit.                                                                    *)
ReferencesResolve ==
  /\ HasToken /\ IsBareNumber =>
       LET last == RunEnd(tok.lo + 1, Decimal)
           number == Value(tok.lo + 1, last, 10)
           is_group == number <= bare_back_ref_max_num_limit
                         /\ (number <= 9 \/ number <= OpenedBefore)
       IN  IF is_group THEN tok.type = "BACK_REF" /\ tok.hi = last /\ tok.data.num = number
           ELSE tok.type = "CODE"
  /\ HasToken /\ tok.type \in {"BACK_REF", "CALL", "CONDITIONAL_OPEN"} /\ ~IsBareNumber =>
       LET lo == local.name_lo
           is_relative == pattern[lo + 1] = "-"
           digits == IF is_relative THEN lo + 1 ELSE lo
           number == Value(digits, RunEnd(digits, Decimal), 10)
       IN  /\ tok.data.has_num = (is_relative \/ pattern[lo + 1] \in Decimal)
           /\ tok.data.has_num =>
                tok.data.num = IF is_relative /\ number > 0 THEN OpenedBefore + 1 - number
                               ELSE number
           /\ tok.type # "CALL" /\ tok.data.has_num => tok.data.num > 0

-----------------------------------------------------------------------------
(* lex_escape_bytes: a character written as its bytes has those bytes, one by one for   *)
(* `\x`, and they are a character of the encoding.                                       *)
EscapedBytesAreCharacters ==
  HasToken /\ tok.type = "CODE" /\ local.bytes # <<>> =>
    /\ IsEncodable(tok.data.value)
    /\ Encode(tok.data.value) = local.bytes
    /\ (\A i \in DOMAIN Written : i % 4 = 2 => Written[i] = "x") /\ Len(Written) = 4 * Len(local.bytes) =>
         \A i \in DOMAIN local.bytes :
           local.bytes[i] = Value(tok.lo + 4 * i - 2, tok.lo + 4 * i, 16)

OpensBrace(token) ==
  token.hi - token.lo >= 3 /\ Text(token.lo, token.lo + 3) = <<"\\", "u", "{">>

(* lex_unicode_escape and lex_unicode_escape_in_brace: the lexer is inside a brace just  *)
(* if the pattern is, and each code point is the number written, in either place.         *)
UnicodeCodesAsWritten ==
  HasToken =>
    LET opening == {i \in DOMAIN tokens : OpensBrace(tokens[i])}
        is_open(i, hi) == All(tokens[i].lo, hi, Symbols \ {"}"})
        is_code == \/ OpensBrace(tok) \/ \E i \in opening : is_open(i, tok.lo)
                   \/ (tok.type = "CODE" /\ tok.lo + 1 < Len(pattern) /\ pattern[tok.lo + 2] = "u")
    IN  /\ in_unicode_escape_brace = \E i \in opening : is_open(i, tok.hi)
        /\ is_code => /\ tok.type = "CODE"
                      /\ All(tok.data.lo, tok.data.hi, Hex)
                      /\ tok.data.value = Value(tok.data.lo, tok.data.hi, 16)

-----------------------------------------------------------------------------
(* The letters of an option group, by where they stand.                                    *)
Minus ==
  LET all == {i \in tok.lo + 3 .. tok.hi : pattern[i] = "-"}
  IN  IF all = {} THEN tok.hi ELSE CHOOSE i \in all : \A j \in all : i <= j

LastOf(places) == IF places = {} THEN 0 ELSE CHOOSE i \in places : \A j \in places : j <= i
LastLetter(letters) == LastOf({i \in tok.lo + 3 .. tok.hi - 1 : pattern[i] \in letters})
LastFold(letters) ==
  LastOf({i \in tok.lo + 3 .. tok.hi - 1 : pattern[i] \in letters \/ (pattern[i] = "I" /\ i < Minus)})

IsOn(at, before) == IF at = 0 THEN before ELSE at < Minus

(* lex_impl, option groups: each option is what its last letter says, on before the first  *)
(* minus and off after it, and without a letter what it is outside the group.              *)
OptionsAsWritten ==
  HasToken /\ tok.type \in {"OPTION", "OPTION_GROUP_OPEN"} =>
    LET type == LastLetter({"d", "a", "u"})
        full == LastFold({"S", "F"})
        ascii == LastFold({"A"})
        was(flag) == flag \in options.fold_flags
    IN  /\ tok.data.is_ignore_case = IsOn(LastLetter({"i", "I"}), options.is_ignore_case)
        /\ tok.data.dot_allows_newline = IsOn(LastLetter({"m"}), options.dot_allows_newline)
        /\ tok.data.is_extended_mode = IsOn(LastLetter({"x"}), options.is_extended_mode)
        /\ tok.data.char_class_is_strict = IsOn(LastLetter({"v", "I"}), options.char_class_is_strict)
        /\ type # 0 => /\ tok.data.char_type_is_ascii_only = (pattern[type] # "u")
                       /\ tok.data.posix_char_class_is_ascii_only = (pattern[type] = "a")
        /\ ("FULL" \in tok.data.fold_flags) = IF full = 0 THEN was("FULL") ELSE pattern[full] = "F"
        /\ ("ASCII_ONLY" \in tok.data.fold_flags) = IsOn(ascii, was("ASCII_ONLY"))
        /\ ("TURKISH_AZERI" \in tok.data.fold_flags) = IsOn(LastLetter({"T"}), was("TURKISH_AZERI"))

-----------------------------------------------------------------------------
HasName ==
  \/ tok.type = "NAMED_GROUP_OPEN"
  \/ tok.type \in {"BACK_REF", "CALL", "CONDITIONAL_OPEN"} /\ ~tok.data.has_num

NameEnd ==
  CHOOSE hi \in local.name_lo .. tok.hi - 1 :
    /\ EndsName(pattern[hi + 1])
    /\ \A i \in local.name_lo + 1 .. hi : ~EndsName(pattern[i])

(* lex_name: a name without escapes is the text as it stands in the pattern, and is not    *)
(* copied; a name with an escape is copied, and begins with what stands before the escape. *)
NamesAsWritten ==
  HasToken /\ HasName =>
    LET escapes == {i \in local.name_lo + 1 .. NameEnd : pattern[i] = "\\"}
        plain == IF escapes = {} THEN NameEnd
                 ELSE (CHOOSE i \in escapes : \A j \in escapes : i <= j) - 1
        bytes[i \in local.name_lo .. plain] ==
          IF i = local.name_lo THEN <<>> ELSE bytes[i - 1] \o Encode(Code(pattern[i]))
    IN  /\ (tok.owns = {}) = (escapes = {})
        /\ IF escapes = {} THEN tok.data.text = bytes[plain]
           ELSE /\ Len(tok.data.text) > Len(bytes[plain])
                /\ SubSeq(tok.data.text, 1, Len(bytes[plain])) = bytes[plain]

(* Every call of lex returns a token or an error.                                           *)
LexReturns == pc = "token" ~> pc \in {"idle", "failed"}
=============================================================================
