-------------------------------- MODULE Lexer --------------------------------
(***************************************************************************)
(* The lexer of src/parse.c outside character classes: lex, lex_impl and   *)
(* the functions they call, one action per step of a scanning loop.  Lex   *)
(* is the call of lex, after the parser has used the token before: what    *)
(* the lexer reads of the parser, the capture groups opened so far and the *)
(* options in force, changes there and nowhere else.                       *)
(***************************************************************************)
EXTENDS Integers, Sequences

CONSTANTS
  Inputs,             \* records of an encoding, a pattern and the initial options
  range_quantifier_max_repetition_limit,
  back_ref_max_num_limit,
  bare_back_ref_max_num_limit,
  max_capture_depth_limit,
  PropertyNames,      \* names nk_name_to_cprop knows, as sequences of codes
  Addresses           \* addresses malloc can return

U == INSTANCE Utf8
S == INSTANCE ShiftJis

(* ASCII from the space on.                                                  *)
Printable ==
  <<" ", "!", "\"", "#", "$", "%", "&", "'", "(", ")", "*", "+", ",", "-", ".", "/",
    "0", "1", "2", "3", "4", "5", "6", "7", "8", "9", ":", ";", "<", "=", ">", "?",
    "@", "A", "B", "C", "D", "E", "F", "G", "H", "I", "J", "K", "L", "M", "N", "O",
    "P", "Q", "R", "S", "T", "U", "V", "W", "X", "Y", "Z", "[", "\\", "]", "^", "_",
    "GRAVE", "a", "b", "c", "d", "e", "f", "g", "h", "i", "j", "k", "l", "m", "n", "o",
    "p", "q", "r", "s", "t", "u", "v", "w", "x", "y", "z", "{", "|", "}", "~">>

(* A pattern is a sequence of characters: those above, line breaks and a tab, *)
(* WIDE, a character outside ASCII, and BYTES, bytes that are no character.   *)
Symbols == {Printable[i] : i \in DOMAIN Printable} \cup {"\t", "\n", "\f", "\r", "WIDE", "BYTES"}

Octal == {"0", "1", "2", "3", "4", "5", "6", "7"}
Decimal == Octal \cup {"8", "9"}
Hex == Decimal \cup {"a", "b", "c", "d", "e", "f", "A", "B", "C", "D", "E", "F"}

FoldFlags == {"FULL", "ASCII_ONLY", "TURKISH_AZERI"}
Options ==
  [is_extended_mode : BOOLEAN, is_ignore_case : BOOLEAN, dot_allows_newline : BOOLEAN,
   char_class_is_strict : BOOLEAN, char_type_is_ascii_only : BOOLEAN,
   posix_char_class_is_ascii_only : BOOLEAN, fold_flags : SUBSET FoldFlags]

ASSUME LexerAssumption ==
  /\ \A input \in Inputs :
       /\ input.encoding \in {"UTF-8", "Shift_JIS"}
       /\ input.pattern \in Seq(Symbols)
       /\ input.options \in Options
  /\ range_quantifier_max_repetition_limit \in Nat
  /\ back_ref_max_num_limit \in Nat
  /\ bare_back_ref_max_num_limit \in Nat
  /\ max_capture_depth_limit \in Nat

VARIABLES
  encoding, pattern,
  pos,                 \* pattern_bytes: characters consumed
  in_unicode_escape_brace,
  num_capture_groups,
  options,             \* the parser's options
  saved,               \* the options to restore at each group close
  pc,                  \* where in the lexer: the function, or a point in it
  local,               \* the locals of lex_impl and of what it calls
  name,                \* name_buf
  heap,                \* addresses in use
  tok,                 \* the token returned
  tokens,              \* history: every token returned so far
  error,               \* the error code and its location
  warnings

InputVars == <<encoding, pattern>>
ParserVars == <<InputVars, num_capture_groups, options, saved>>
vars == <<ParserVars, pos, in_unicode_escape_brace, pc, local, name, heap, tok, tokens,
          error, warnings>>

-----------------------------------------------------------------------------
(* The pattern, the locals and the two ways out.                             *)

AtEnd == pos >= Len(pattern)
Peek == IF AtEnd THEN "END" ELSE pattern[pos + 1]

Span(lo, hi) == [lo |-> lo, hi |-> hi]

NoName == [type |-> "NONE", lo |-> 0, hi |-> 0, text |-> <<>>, cap |-> 0, owns |-> {}]
NoToken == [type |-> "NONE", lo |-> 0, hi |-> 0, data |-> <<>>, owns |-> {}]
NoError == [code |-> "SUCCESS", span |-> Span(0, 0)]

(* A number being read: digits of a base, at most so many, and where to go on. *)
Number(base, most, limit, error_code, after) ==
  [base |-> base, most |-> most, limit |-> limit, error |-> error_code, after |-> after,
   value |-> 0, digits |-> 0, lo |-> 0, overflowed |-> FALSE]

NoNumber == Number(10, 0, 0, "SUCCESS", "token")

(* lo is span_bytes, kind the construct being read; min, max, has_max and     *)
(* explicit belong to a quantifier, open, terminator, sign, num, has_num and  *)
(* depth to a reference, first, escape, bytes, control and meta to an escape, *)
(* option and positive to options and properties.                             *)
Local(lo) ==
  [lo |-> lo, kind |-> "NONE", number |-> NoNumber,
   min |-> 0, max |-> 0, has_max |-> FALSE, explicit |-> FALSE, allows_reluctant |-> TRUE,
   terminator |-> "NONE", name_lo |-> lo, name_hi |-> lo, sign |-> 1, num |-> 0, num_lo |-> lo, has_num |-> FALSE,
   has_depth |-> FALSE, depth |-> 0, depth_lo |-> 0,
   first |-> lo, escape |-> lo, bytes |-> <<>>, control |-> FALSE, meta |-> FALSE,
   code_hi |-> lo, option |-> options, positive |-> TRUE]

(* Consume n characters and go on at a point of the lexer.                    *)
Advance(n, where, locals) ==
  /\ pos' = pos + n
  /\ pc' = where
  /\ local' = locals
  /\ UNCHANGED <<ParserVars, in_unicode_escape_brace, name, heap, tok, tokens, error, warnings>>

Warn(condition, warning, n, where, locals) ==
  /\ pos' = pos + n
  /\ pc' = where
  /\ local' = locals
  /\ warnings' = IF condition
                   THEN Append(warnings, [kind |-> warning, lo |-> pos, hi |-> pos + n])
                   ELSE warnings
  /\ UNCHANGED <<ParserVars, in_unicode_escape_brace, name, heap, tok, tokens, error>>

Retry(n) == Advance(n, "token", Local(pos + n))

Read(n, number, locals) ==
  Advance(n, "number", [locals EXCEPT !.number = [number EXCEPT !.lo = pos + n]])

(* Return a token that ends at hi, with the name unless it is released.         *)
EmitReleasing(addresses, hi, type, data) ==
  LET token == [type |-> type, lo |-> local.lo, hi |-> hi, data |-> data,
                owns |-> name.owns \ addresses]
  IN  /\ pos' = hi
      /\ pc' = "idle"
      /\ tok' = token
      /\ tokens' = Append(tokens, token)
      /\ name' = NoName
      /\ heap' = heap \ addresses
      /\ UNCHANGED <<ParserVars, local, error>>

EmitAt(hi, type, data) == EmitReleasing({}, hi, type, data)

Emit(n, type, data) ==
  /\ EmitAt(pos + n, type, data)
  /\ UNCHANGED <<in_unicode_escape_brace, warnings>>

EmitWarned(n, type, data, warning) ==
  /\ EmitAt(pos + n, type, data)
  /\ warnings' = Append(warnings, [kind |-> warning, lo |-> local.lo, hi |-> pos + n])
  /\ UNCHANGED in_unicode_escape_brace

(* A reference, and what a token holds of it once read.                         *)
Reference(kind, terminator, lo) ==
  [local EXCEPT !.kind = kind, !.terminator = terminator, !.name_lo = lo]

Target ==
  [has_num |-> local.has_num, num |-> local.num, text |-> name.text,
   has_depth |-> local.has_depth, depth |-> local.depth]

CodeData(value, lo, hi) == [value |-> value, lo |-> lo, hi |-> hi]

(* Return an error, having released some addresses.                            *)
FailReleasing(addresses, at, code, span) ==
  /\ pos' = at
  /\ pc' = "failed"
  /\ error' = [code |-> code, span |-> span]
  /\ heap' = heap \ addresses
  /\ name' = NoName
  /\ UNCHANGED <<ParserVars, in_unicode_escape_brace, local, tok, tokens, warnings>>

FailAt(at, code, span) == FailReleasing(name.owns, at, code, span)

Fail(n, code, lo) == FailAt(pos + n, code, Span(lo, pos + n))

(* lex puts an error without a location where the lexer stands.                *)
FailHere(n, code) == Fail(n, code, pos + n)

-----------------------------------------------------------------------------
(* nk_parser_init, and the parser between two calls of lex.                    *)

Init ==
  /\ \E input \in Inputs :
       /\ encoding = input.encoding
       /\ pattern = input.pattern
       /\ options = input.options
  /\ pos = 0
  /\ in_unicode_escape_brace = FALSE
  /\ num_capture_groups = 0
  /\ saved = <<>>
  /\ pc = "token"
  /\ local = Local(0)
  /\ name = NoName
  /\ heap = {}
  /\ tok = NoToken
  /\ tokens = <<>>
  /\ error = NoError
  /\ warnings = <<>>

Captures == {"GROUP_OPEN", "NAMED_GROUP_OPEN"}
Opens == Captures \cup {"LOOKAROUND_OPEN", "ATOMIC_OPEN", "ABSENCE_OPEN", "OPTION_GROUP_OPEN",
                        "CONDITIONAL_OPEN"}

(* The parser stops at the end, at a parenthesis that closes nothing, and      *)
(* leaves what follows a bracket to lex_in_char_class.                          *)
Lex ==
  LET inner == IF tok.type \in {"OPTION", "OPTION_GROUP_OPEN"} THEN tok.data ELSE options
      now == IF tok.type = "GROUP_CLOSE" THEN saved[Len(saved)] ELSE inner
  IN  /\ pc = "idle" /\ tok.type \notin {"END", "CHAR_CLASS_OPEN"}
      /\ tok.type = "GROUP_CLOSE" => saved # <<>>
      /\ num_capture_groups' = num_capture_groups + (IF tok.type \in Captures THEN 1 ELSE 0)
      /\ options' = now
      /\ saved' = CASE tok.type \in Opens -> Append(saved, options)
                    [] tok.type = "GROUP_CLOSE" -> SubSeq(saved, 1, Len(saved) - 1)
                    [] OTHER -> saved
      /\ heap' = heap \ tok.owns
      /\ tok' = NoToken
      /\ pc' = IF in_unicode_escape_brace THEN "in_brace" ELSE "token"
      /\ local' = Local(pos)
      /\ UNCHANGED <<InputVars, pos, in_unicode_escape_brace, name, tokens, error, warnings>>

-----------------------------------------------------------------------------
(* peek, and the loops that read digits.                                       *)

Code(symbol) ==
  CASE symbol = "\t" -> 9
    [] symbol = "\n" -> 10
    [] symbol = "\f" -> 12
    [] symbol = "\r" -> 13
    [] symbol = "WIDE" -> IF encoding = "UTF-8" THEN 12354 ELSE 33440
    [] OTHER -> 31 + CHOOSE i \in DOMAIN Printable : Printable[i] = symbol

DigitValue(symbol) ==
  CASE symbol \in Decimal -> Code(symbol) - 48
    [] symbol \in Hex \ Decimal -> (Code(symbol) % 16) + 9
    [] OTHER -> 0

Scan(bytes) == IF encoding = "UTF-8" THEN U!ScanWidth(bytes) ELSE S!ScanWidth(bytes)
IsEncodable(code) == IF encoding = "UTF-8" THEN U!IsEncodable(code) ELSE S!IsEncodable(code)
Encode(code) == IF encoding = "UTF-8" THEN U!EncodeMbc(code) ELSE S!EncodeMbc(code)
Decode(bytes) == IF encoding = "UTF-8" THEN U!DecodeMbc(bytes) ELSE S!DecodeMbc(bytes)
IsUnicode == encoding = "UTF-8"

(* The first byte written with an escape wants more of them.                    *)
NeedsBytes == Scan(<<local.bytes[1]>>) < 0 /\ Len(local.bytes) < 1 - Scan(<<local.bytes[1]>>)

(* Points of the lexer that decide without the next character.                  *)
Decides ==
  \/ pc \in {"idle", "failed", "numbered", "named", "depth_read", "bare", "unicode_number",
             "hex_byte", "octal_byte", "property_name"}
  \/ pc = "number" /\ local.number.digits = local.number.most
  \/ pc = "bytes" /\ ~NeedsBytes
  \/ pc = "unicode" /\ ~IsUnicode
  \/ pc = "close" /\ local.kind = "back_ref" /\ local.has_num /\ local.num = 0
  \/ pc = "condition_close" /\ local.has_num /\ local.num = 0

(* Bytes that are no character.  lex_capture_num_or_name_with_depth, alone of    *)
(* those that hold a name, does not release it.                                  *)
InvalidBytes ==
  /\ Peek = "BYTES" /\ ~Decides
  /\ FailReleasing(IF pc = "depth" THEN {} ELSE name.owns, pos, "INVALID_BYTE_SEQUENCE",
                   Span(pos, pos))

DigitsOf(base) ==
  CASE base = 8 -> Octal
    [] base = 10 -> Decimal
    [] OTHER -> Hex

Exceeds(value, digit, limit) ==
  value > limit \div 10 \/ (value = limit \div 10 /\ digit > limit % 10)

AtDigit ==
  /\ pc = "number" /\ local.number.digits < local.number.most
  /\ Peek \in DigitsOf(local.number.base)

IsTooLarge ==
  local.number.base = 10 /\ Exceeds(local.number.value, DigitValue(Peek), local.number.limit)

(* Variant: digits are decimal in any base.                                      *)
AppendedToDecimal(digit) == local.number.value * 10 + digit

Appended(digit) == local.number.value * local.number.base + digit

NumberDigit ==
  /\ AtDigit /\ ~IsTooLarge
  /\ Advance(1, "number", [local EXCEPT !.number.value = Appended(DigitValue(Peek)),
                                        !.number.digits = @ + 1])

(* A bare back reference too large to be one is read again as an octal escape.   *)
NumberTooLarge ==
  /\ AtDigit /\ IsTooLarge
  /\ IF local.number.error = "INTERNAL_ERROR"
       THEN Advance(0, local.number.after, [local EXCEPT !.number.overflowed = TRUE])
       ELSE Fail(1, local.number.error, local.number.lo)

(* Variant: the loop does not look for the end of the pattern.                   *)
NumberEndInside ==
  /\ pc = "number" /\ ~AtDigit /\ ~AtEnd
  /\ Peek # "BYTES"
  /\ Advance(0, local.number.after, local)

NumberEnd ==
  /\ pc = "number" /\ ~AtDigit
  /\ Peek # "BYTES" \/ local.number.digits = local.number.most
  /\ Advance(0, local.number.after, local)

DecimalNumber(limit, error_code, after) == Number(10, Len(pattern), limit, error_code, after)

-----------------------------------------------------------------------------
(* lex_impl up to the groups.                                                   *)

At(where, symbols) == pc = where /\ Peek \in symbols
Other(where, symbols) == pc = where /\ Peek \notin symbols \cup {"BYTES"}

LexEnd == At("token", {"END"}) /\ Emit(0, "END", <<>>)

Whitespace == {" ", "\t", "\n", "\r", "\f"}

SkipWhitespace == At("token", Whitespace) /\ options.is_extended_mode /\ Retry(1)

OpenComment ==
  /\ At("token", {"#"}) /\ options.is_extended_mode
  /\ Advance(1, "comment", [local EXCEPT !.terminator = "\n"])

(* A comment ends with its terminator or with the pattern.                       *)
Comment ==
  \/ At("comment", {"END"}) /\ Retry(0)
  \/ At("comment", {local.terminator}) /\ Retry(1)
  \/ Other("comment", {local.terminator, "END"}) /\ Advance(1, "comment", local)

Assertion(type) == [type |-> type]

LexSimple ==
  \/ At("token", {"["}) /\ Emit(1, "CHAR_CLASS_OPEN", <<>>)
  \/ At("token", {"."}) /\ Emit(1, "DOT", <<>>)
  \/ At("token", {"^"}) /\ Emit(1, "ASSERTION", Assertion("BEGIN_OF_LINE"))
  \/ At("token", {"$"}) /\ Emit(1, "ASSERTION", Assertion("END_OF_LINE"))
  \/ At("token", {"|"}) /\ Emit(1, "ALT", <<>>)
  \/ At("token", {")"}) /\ Emit(1, "GROUP_CLOSE", <<>>)

Special == {"[", ".", "^", "$", "|", ")", "*", "+", "?", "{", "(", "\\"}

(* Variant: a comment begins like a literal.                                     *)
IgnoredSpace == IF options.is_extended_mode THEN Whitespace ELSE {}

Ignored == IF options.is_extended_mode THEN Whitespace \cup {"#"} ELSE {}

LexLiteral ==
  /\ Other("token", Special \cup Ignored \cup {"END"})
  /\ IF Peek = "]"
       THEN EmitWarned(1, "LITERAL", Span(pos, pos + 1), "LITERAL_RIGHT_BRACKET")
       ELSE Emit(1, "LITERAL", Span(pos, pos + 1))

-----------------------------------------------------------------------------
(* Quantifiers: lex_bounded_quantifier and lex_quantifier_type.                  *)

LexQuantifier ==
  /\ At("token", {"*", "+", "?"})
  /\ Advance(1, "greed", [local EXCEPT !.min = IF Peek = "+" THEN 1 ELSE 0,
                                       !.has_max = Peek = "?",
                                       !.max = IF Peek = "?" THEN 1 ELSE 0])

OpenBounds == At("token", {"{"}) /\ Advance(1, "bounds", local)

(* A brace that opens no quantifier stands for itself: what was read after it is  *)
(* read again.                                                                    *)
LiteralBrace ==
  /\ EmitAt(local.lo + 1, "LITERAL", Span(local.lo, local.lo + 1))
  /\ UNCHANGED <<in_unicode_escape_brace, warnings>>

Bound(after) ==
  DecimalNumber(range_quantifier_max_repetition_limit, "TOO_LARGE_NUMBER_IN_QUANTIFIER", after)

LexMin ==
  \/ At("bounds", Decimal) /\ Read(0, Bound("min"), [local EXCEPT !.explicit = TRUE])
  \/ At("bounds", {","}) /\ Advance(1, "comma", local)
  \/ Other("bounds", Decimal \cup {","}) /\ LiteralBrace

LexComma ==
  \/ At("min", {"END"}) /\ LiteralBrace
  \/ At("min", {","}) /\ Advance(1, "comma", [local EXCEPT !.min = local.number.value])
  \/ /\ Other("min", {"END", ","})
     /\ Advance(0, "bounds_end", [local EXCEPT !.min = local.number.value,
                                               !.max = local.number.value, !.has_max = TRUE,
                                               !.allows_reluctant = FALSE])

LexMax ==
  \/ At("comma", Decimal) /\ Read(0, Bound("max"), [local EXCEPT !.has_max = TRUE])
  \/ Other("comma", Decimal) /\ (AtEnd \/ ~local.explicit) /\ LiteralBrace
  \/ Other("comma", Decimal \cup {"END"}) /\ local.explicit /\ Advance(0, "bounds_end", local)
  \/ At("max", {"END"}) /\ LiteralBrace
  \/ /\ Other("max", {"END"})
     /\ Advance(0, "bounds_end", [local EXCEPT !.max = local.number.value])

(* Variant: the bounds may stand in either order.                                *)
AreInAnyOrder == TRUE

AreInOrder == local.has_max => local.min <= local.max

LexBoundsEnd ==
  \/ /\ pc = "bounds_end" /\ ~AreInOrder
     /\ Fail(0, "NUMBERS_OUT_OF_ORDER_IN_QUANTIFIER", local.lo)
  \/ At("bounds_end", {"}"}) /\ AreInOrder /\ Advance(1, "greed", local)
  \/ Other("bounds_end", {"}"}) /\ AreInOrder /\ LiteralBrace

Quantifier(type) ==
  [min |-> local.min, has_max |-> local.has_max, max |-> local.max, type |-> type]

LexQuantifierType ==
  \/ At("greed", {"?"}) /\ local.allows_reluctant /\ Emit(1, "QUANTIFIER", Quantifier("RELUCTANT"))
  \/ At("greed", {"+"}) /\ Emit(1, "QUANTIFIER", Quantifier("POSSESSIVE"))
  \/ /\ Other("greed", {"+"}) /\ ~(Peek = "?" /\ local.allows_reluctant)
     /\ Emit(0, "QUANTIFIER", Quantifier("GREEDY"))

-----------------------------------------------------------------------------
(* Groups.                                                                      *)

OpenGroup ==
  \/ At("token", {"("}) /\ Advance(1, "group", local)
  \/ At("group", {"?"}) /\ Advance(1, "specifier", local)
  \/ Other("group", {"?"}) /\ Emit(0, "GROUP_OPEN", <<>>)

Lookaround(behind, positive) == [behind |-> behind, positive |-> positive]
Incomplete(n) == Fail(n, "INCOMPLETE_GROUP_SPECIFIER", local.lo)

OptionSymbols == {"i", "m", "x", "v", "d", "a", "u", "S", "F", "A", "T", "I", "-", ":"}
Specifiers == OptionSymbols \cup {"END", "#", "=", "!", ">", "~", "<", "'", "("}

LexSpecifier ==
  \/ At("specifier", {"END"}) /\ Incomplete(0)
  \/ At("specifier", {"#"}) /\ Advance(1, "comment", [local EXCEPT !.terminator = ")"])
  \/ At("specifier", {"=", "!"}) /\ Emit(1, "LOOKAROUND_OPEN", Lookaround(FALSE, Peek = "="))
  \/ At("specifier", {">"}) /\ Emit(1, "ATOMIC_OPEN", <<>>)
  \/ At("specifier", {"~"}) /\ Emit(1, "ABSENCE_OPEN", <<>>)
  \/ At("specifier", {"<"}) /\ Advance(1, "lookbehind", local)
  \/ At("specifier", {"'"}) /\ Advance(1, "reference", Reference("group", "'", pos + 1))
  \/ At("specifier", {"("}) /\ Advance(1, "condition", local)
  \/ At("specifier", OptionSymbols) /\ Advance(0, "option", [local EXCEPT !.option = options])
  \/ Other("specifier", Specifiers)
     /\ FailAt(pos, "UNDEFINED_GROUP_OPTION", Span(pos, pos + 1))

LexLookbehind ==
  \/ At("lookbehind", {"END"}) /\ Incomplete(0)
  \/ At("lookbehind", {"=", "!"}) /\ Emit(1, "LOOKAROUND_OPEN", Lookaround(TRUE, Peek = "="))
  \/ /\ Other("lookbehind", {"END", "=", "!"})
     /\ Advance(0, "reference", Reference("group", ">", pos))

Closing(quote) == IF quote = "<" THEN ">" ELSE quote

LexCondition ==
  \/ /\ At("condition", Decimal \cup {"-"})
     /\ Advance(0, "reference", Reference("condition", ")", pos))
  \/ /\ At("condition", {"'", "<"})
     /\ Advance(1, "reference", Reference("quoted_condition", Closing(Peek), pos + 1))
  \/ Other("condition", Decimal \cup {"-", "'", "<"}) /\ Incomplete(0)

(* A condition after its reference, closed by the quote if it has one.            *)
LexConditionClose ==
  \/ /\ pc = "condition_close" /\ local.has_num /\ local.num = 0
     /\ FailAt(pos, "INVALID_CONDITIONAL_CAPTURE_NUMBER", Span(local.name_lo, local.name_hi))
  \/ /\ Other("condition_close", {")"}) /\ (local.has_num => local.num # 0)
     /\ Incomplete(0)
  \/ /\ At("condition_close", {")"}) /\ (local.has_num => local.num # 0)
     /\ Emit(1, "CONDITIONAL_OPEN", Target)

(* d, a, u, S and F choose one of several states and cannot be switched off.      *)
NonBoolean == {"d", "a", "u", "S", "F"}

With(flags, flag, on) == IF on THEN flags \cup {flag} ELSE flags \ {flag}

(* The options after a letter, before or after the minus.                          *)
Switched(option, letter, on) ==
  CASE letter = "i" -> [option EXCEPT !.is_ignore_case = on]
    [] letter = "m" -> [option EXCEPT !.dot_allows_newline = on]
    [] letter = "x" -> [option EXCEPT !.is_extended_mode = on]
    [] letter = "v" -> [option EXCEPT !.char_class_is_strict = on]
    [] letter = "d" -> [option EXCEPT !.char_type_is_ascii_only = TRUE,
                                      !.posix_char_class_is_ascii_only = FALSE]
    [] letter = "a" -> [option EXCEPT !.char_type_is_ascii_only = TRUE,
                                      !.posix_char_class_is_ascii_only = TRUE]
    [] letter = "u" -> [option EXCEPT !.char_type_is_ascii_only = FALSE,
                                      !.posix_char_class_is_ascii_only = FALSE]
    [] letter \in {"S", "F"} -> [option EXCEPT !.fold_flags = With(@, "FULL", letter = "F")]
    [] letter = "A" -> [option EXCEPT !.fold_flags = With(@, "ASCII_ONLY", on)]
    [] letter = "T" -> [option EXCEPT !.fold_flags = With(@, "TURKISH_AZERI", on)]
    [] letter = "I" -> [option EXCEPT !.is_ignore_case = on, !.char_class_is_strict = on,
                                      !.fold_flags = IF on THEN (@ \ {"FULL"}) \cup {"ASCII_ONLY"}
                                                     ELSE @]

(* Variant: a minus reverses the sign.                                             *)
Reversed(positive) == ~positive

Negated(positive) == FALSE

LexOption ==
  \/ At("option", {"END"}) /\ Incomplete(0)
  \/ /\ At("option", NonBoolean) /\ ~local.positive
     /\ FailAt(pos, "NON_BOOLEAN_GROUP_OPTION", Span(pos, pos + 1))
  \/ /\ At("option", OptionSymbols \ {"-", ":"}) /\ (Peek \in NonBoolean => local.positive)
     /\ Advance(1, "option",
                [local EXCEPT !.option = Switched(@, Peek, local.positive)])
  \/ /\ At("option", {"-"})
     /\ Warn(~local.positive, "REDUNDANT_GROUP_OPTION_MINUS", 1, "option",
             [local EXCEPT !.positive = Negated(@)])
  \/ At("option", {":"}) /\ Emit(1, "OPTION_GROUP_OPEN", local.option)
  \/ At("option", {")"}) /\ Emit(1, "OPTION", local.option)
  \/ /\ Other("option", OptionSymbols \cup {"END", ")"})
     /\ FailAt(pos, "UNDEFINED_GROUP_OPTION", Span(pos, pos + 1))

==============================================================================
