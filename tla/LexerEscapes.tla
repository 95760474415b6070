---------------------------- MODULE LexerEscapes ----------------------------
(***************************************************************************)
(* The second half of the lexer of src/parse.c: references and names, and  *)
(* everything written with a backslash; with it, the whole lexer.          *)
(***************************************************************************)
EXTENDS Lexer

-----------------------------------------------------------------------------
(* lex_capture_num_or_name, and the depth after it.                          *)

TakesDepth == local.kind \in {"back_ref", "condition", "quoted_condition"}

(* Each caller has an error of its own for a reference that does not end, and *)
(* says where it began, except the one that reads the name of a group.        *)
Unterminated ==
  \/ local.kind = "group" /\ FailHere(0, "INCOMPLETE_GROUP_SPECIFIER")
  \/ local.kind \in {"condition", "quoted_condition"} /\ Incomplete(0)
  \/ local.kind = "back_ref" /\ Fail(0, "INCOMPLETE_BACK_REF", local.lo)
  \/ local.kind = "call" /\ Fail(0, "INCOMPLETE_SUBEXP_CALL", local.lo)
  \/ local.kind = "property" /\ Fail(0, "UNCLOSED_CHAR_PROP_ESCAPE_BRACE", local.lo)

(* lex_name begins with an empty view of the pattern.                          *)
OpenName ==
  /\ name' = [NoName EXCEPT !.type = "VIEW", !.lo = pos, !.hi = pos]
  /\ pc' = "name"
  /\ UNCHANGED <<ParserVars, pos, in_unicode_escape_brace, local, heap, tok, tokens, error,
                 warnings>>

CaptureNumber ==
  DecimalNumber(back_ref_max_num_limit, "TOO_LARGE_CAPTURE_NUMBER", "numbered")

LexReference ==
  \/ At("reference", {"END"}) /\ Unterminated
  \/ At("reference", Decimal) /\ Read(0, CaptureNumber, [local EXCEPT !.num_lo = pos])
  \/ At("reference", {"-"}) /\ Advance(1, "sign", [local EXCEPT !.num_lo = pos, !.sign = -1])
  \/ Other("reference", Decimal \cup {"-", "END"}) /\ OpenName

LexSign ==
  \/ At("sign", {"END"}) /\ FailHere(0, "UNEXPECTED_END_OF_PATTERN")
  \/ At("sign", Decimal) /\ Read(0, CaptureNumber, local)
  \/ Other("sign", Decimal \cup {"END"})
     /\ FailAt(pos, "INVALID_GROUP_NAME", Span(local.num_lo, pos + 1))

(* Variant: counts back from the group that is opened next.                     *)
FromNext(number) == num_capture_groups + 2 - number

(* -1 is the group opened last.                                                 *)
FromLast(number) == num_capture_groups + 1 - number

IsRelative == local.sign < 0 /\ local.number.value > 0

LexNumbered ==
  LET number == IF IsRelative THEN FromLast(local.number.value) ELSE local.number.value
      after == IF TakesDepth THEN "depth" ELSE "close"
  IN  /\ pc = "numbered"
      /\ \/ IsRelative /\ number <= 0 /\ Fail(0, "CAPTURE_NUMBER_OUT_OF_RANGE", local.num_lo)
         \/ /\ IsRelative => number > 0
            /\ local.kind = "group"
            /\ Fail(0, "INVALID_GROUP_NAME", local.name_lo)
         \/ /\ IsRelative => number > 0
            /\ local.kind # "group"
            /\ Advance(0, after, [local EXCEPT !.num = number, !.has_num = TRUE])

AfterReference == IF local.kind = "condition" THEN "condition_close" ELSE "close"

CaptureDepth == DecimalNumber(max_capture_depth_limit, "TOO_LARGE_CAPTURE_DEPTH", "depth_read")

LexDepth ==
  \/ /\ Other("depth", {"+", "-"})
     /\ Advance(0, AfterReference, [local EXCEPT !.name_hi = pos])
  \/ /\ At("depth", {"+", "-"})
     /\ Advance(1, "depth_sign",
                [local EXCEPT !.depth_lo = pos, !.sign = IF Peek = "+" THEN 1 ELSE -1])
  \/ At("depth_sign", {"END"}) /\ Fail(0, "INCOMPLETE_CAPTURE_DEPTH", local.depth_lo)
  \/ Other("depth_sign", {"END"}) /\ Read(0, CaptureDepth, local)
  \/ /\ pc = "depth_read"
     /\ Advance(0, AfterReference,
                [local EXCEPT !.has_depth = TRUE, !.depth = local.sign * local.number.value,
                              !.name_hi = pos])

(* The end of a reference, where its caller takes over.                          *)
LexClose ==
  \/ At("close", {"END"}) /\ Unterminated
  \/ /\ pc = "close" /\ ~AtEnd
     /\ local.kind = "back_ref" /\ local.has_num /\ local.num = 0
     /\ Fail(0, "INVALID_BACK_REF", local.name_lo)
  \/ /\ At("close", {local.terminator})
     /\ \/ local.kind = "group" /\ Emit(1, "NAMED_GROUP_OPEN", Target)
        \/ /\ local.kind = "back_ref" /\ (local.has_num => local.num # 0)
           /\ Emit(1, "BACK_REF", Target)
        \/ local.kind = "call" /\ Emit(1, "CALL", Target)
        \/ /\ local.kind = "quoted_condition"
           /\ Advance(1, "condition_close", [local EXCEPT !.name_hi = pos])
  \/ /\ Other("close", {local.terminator, "END"})
     /\ \/ local.kind = "back_ref" /\ (local.has_num => local.num # 0)
           /\ Fail(1, "INCOMPLETE_BACK_REF", local.lo)
        \/ local.kind = "call" /\ Fail(1, "INCOMPLETE_SUBEXP_CALL", local.lo)
        \/ local.kind = "quoted_condition" /\ Incomplete(0)

-----------------------------------------------------------------------------
(* lex_name, and the buffer it fills: pbuf_append, pbuf_append_code and         *)
(* pbuf_resize of src/node.c.                                                   *)

OutOfMemory(n) == FailHere(n, "MEMORY_ALLOCATION_FAILED")

Own(address, cap, text) ==
  [name EXCEPT !.type = "OWNED", !.cap = cap, !.text = text, !.owns = {address}]

Capacity(length) == CHOOSE cap \in {1, 2, 4, 8, 16, 32, 64} : cap \div 2 < length /\ length <= cap

(* Variant: the buffer that was grown is not freed.                              *)
KeepOld(address) == heap \cup {address}

FreeOld(address) == (heap \ name.owns) \cup {address}

(* Variant: what the view showed is not copied to the new buffer.                *)
JoinedToBuffer(bytes) == IF name.type = "OWNED" THEN name.text \o bytes ELSE bytes

Joined(bytes) == name.text \o bytes

(* Consume n characters, add bytes to the name and go on.  A view of the pattern  *)
(* grows as long as what is added stands behind it.                               *)
AppendToName(bytes, is_next, n, where, locals) ==
  LET text == Joined(bytes)
      fits == name.type = "OWNED" /\ name.cap >= Len(text)
      grows == name.type = "VIEW" /\ is_next
  IN  \/ /\ grows \/ fits
         /\ name' = [name EXCEPT !.text = text, !.hi = IF grows THEN pos + n ELSE @]
         /\ pos' = pos + n
         /\ pc' = where
         /\ local' = locals
         /\ UNCHANGED <<ParserVars, in_unicode_escape_brace, heap, tok, tokens, error, warnings>>
      \/ /\ ~grows /\ ~fits
         /\ \E address \in Addresses \ heap :
              /\ name' = Own(address, Capacity(Len(text)), text)
              /\ heap' = FreeOld(address)
         /\ pos' = pos + n
         /\ pc' = where
         /\ local' = locals
         /\ UNCHANGED <<ParserVars, in_unicode_escape_brace, tok, tokens, error, warnings>>
      \/ ~grows /\ ~fits /\ OutOfMemory(n)

EndsName(symbol) == symbol = local.terminator \/ (TakesDepth /\ symbol \in {"+", "-"})

LexName ==
  \/ At("name", {"END"}) /\ Unterminated
  \/ At("name", {"\\"}) /\ Advance(1, "name_escape", [local EXCEPT !.escape = pos, !.first = pos,
                                                                  !.bytes = <<>>])
  \/ /\ Other("name", {"END", "\\"}) /\ ~EndsName(Peek)
     /\ AppendToName(Encode(Code(Peek)), TRUE, 1, "name", local)
  \/ At("name_escape", {"END"}) /\ FailHere(0, "UNEXPECTED_END_OF_PATTERN")
  \/ At("name_escape", {"u"}) /\ Advance(1, "unicode", local)
  \/ Other("name_escape", {"END", "u"}) /\ Advance(0, "escape", local)

(* pbuf_resize: realloc may move what it shrinks.                                 *)
TrimName ==
  /\ Other("name", {"END", "\\"}) /\ EndsName(Peek)
  /\ \/ /\ name.type = "VIEW"
        /\ pc' = "named"
        /\ UNCHANGED <<ParserVars, pos, in_unicode_escape_brace, local, name, heap, tok, tokens,
                       error, warnings>>
     \/ /\ name.type = "OWNED"
        /\ \E address \in (Addresses \ heap) \cup name.owns :
             /\ name' = Own(address, Len(name.text), name.text)
             /\ heap' = FreeOld(address)
        /\ pc' = "named"
        /\ UNCHANGED <<ParserVars, pos, in_unicode_escape_brace, local, tok, tokens, error, warnings>>
     \/ name.type = "OWNED" /\ OutOfMemory(0)

(* nk_name_to_cprop: ASCII without regard to case, and without separators.         *)
Separators == {32, 45, 95}

Fold(byte) == IF byte \in 65 .. 90 THEN byte + 32 ELSE byte

PropertyName(text) ==
  LET folded[i \in 0 .. Len(text)] ==
        IF i = 0 THEN <<>>
        ELSE IF text[i] \in Separators THEN folded[i - 1]
        ELSE Append(folded[i - 1], Fold(text[i]))
  IN  folded[Len(text)]

IsProperty(text) ==
  /\ \A i \in DOMAIN text : text[i] < 128
  /\ PropertyName(text) \in PropertyNames

(* A property is looked up at once, and its name released.                         *)
LexNamed ==
  /\ pc = "named"
  /\ \/ /\ name.text = <<>> /\ local.kind = "property"
        /\ Fail(0, "EMPTY_CHAR_PROP_NAME", local.lo)
     \/ name.text = <<>> /\ local.kind # "property" /\ FailHere(0, "EMPTY_GROUP_NAME")
     \/ /\ name.text # <<>> /\ local.kind = "property" /\ ~IsProperty(name.text)
        /\ FailAt(pos + 1, "INVALID_CHAR_PROP_NAME", Span(local.name_lo, pos))
     \/ /\ name.text # <<>> /\ local.kind = "property" /\ IsProperty(name.text)
        /\ EmitReleasing(name.owns, pos + 1, "CHAR_PROP",
                         [text |-> PropertyName(name.text), is_positive |-> local.positive])
        /\ UNCHANGED <<in_unicode_escape_brace, warnings>>
     \/ /\ name.text # <<>> /\ local.kind # "property"
        /\ Advance(0, IF TakesDepth THEN "depth" ELSE "close", local)

-----------------------------------------------------------------------------
(* A code point: to the name being read, or as a token.  A brace left open goes on  *)
(* inside the name, or with the next call of lex.                                   *)

UnencodableCode(code) ==
  LET last == IF IsUnicode THEN 1114111 ELSE 65535
  IN  IF code > last THEN "CODE_POINT_OUT_OF_RANGE" ELSE "INVALID_CODE_POINT"

Deliver(n, data, is_unclosed) ==
  \/ /\ name.type # "NONE" /\ IsEncodable(data.value)
     /\ AppendToName(Encode(data.value), FALSE, n, IF is_unclosed THEN "in_brace" ELSE "name", local)
  \/ name.type # "NONE" /\ ~IsEncodable(data.value) /\ FailHere(n, UnencodableCode(data.value))
  \/ /\ name.type = "NONE"
     /\ EmitAt(pos + n, "CODE", data)
     /\ in_unicode_escape_brace' = is_unclosed
     /\ UNCHANGED warnings

-----------------------------------------------------------------------------
(* lex_unicode_escape and lex_unicode_escape_in_brace.                              *)

Unclosed == FailHere(0, "UNCLOSED_UNICODE_ESCAPE_BRACE")
Blanks == {" ", "\t", "\f", "\r"}

LexUnicode ==
  \/ /\ pc = "unicode" /\ ~IsUnicode
     /\ Fail(0, "UNICODE_ESCAPE_IN_NON_UNICODE_ENCODING", local.escape)
  \/ /\ At("unicode", {"END"}) /\ IsUnicode
     /\ Fail(0, "UNCLOSED_UNICODE_ESCAPE_BRACE", local.escape)
  \/ /\ At("unicode", Hex) /\ IsUnicode
     /\ Read(0, Number(16, 4, 0, "SUCCESS", "unicode_number"), local)
  \/ At("unicode", {"{"}) /\ IsUnicode /\ Advance(1, "brace_open", local)
  \/ /\ Other("unicode", Hex \cup {"{", "END"}) /\ IsUnicode
     /\ Fail(0, "INCOMPLETE_UNICODE_ESCAPE", local.escape)

LexUnicodeNumber ==
  /\ pc = "unicode_number"
  /\ \/ local.number.digits < 4 /\ Fail(0, "INCOMPLETE_UNICODE_ESCAPE", local.escape)
     \/ /\ local.number.digits = 4
        /\ Deliver(0, CodeData(local.number.value, local.number.lo, pos), FALSE)

BraceNumber == Number(16, 6, 0, "SUCCESS", "brace_number")

(* Between two numbers LexBraceNext has seen that neither the end nor a closing brace *)
(* follows, so that the tests for them in lex_unicode_escape_in_brace never succeed. *)
LexBrace ==
  \/ At("brace_open", Blanks) /\ Advance(1, "brace_open", local)
  \/ At("brace_open", {"END"}) /\ Unclosed
  \/ At("brace_open", {"}"})
     /\ FailAt(pos, "EMPTY_UNICODE_ESCAPE_BRACE", Span(local.escape, pos + 1))
  \/ Other("brace_open", Blanks \cup {"}", "END"}) /\ Read(0, BraceNumber, local)
  \/ Other("in_brace", {}) /\ Read(0, BraceNumber, local)

(* The digits that stand together from here on.                                     *)
EndOfDigits ==
  CHOOSE hi \in pos .. Len(pattern) :
    /\ \A i \in pos + 1 .. hi : pattern[i] \in Hex
    /\ hi < Len(pattern) => pattern[hi + 1] \notin Hex

LexBraceNumber ==
  \/ /\ Other("brace_number", {}) /\ local.number.digits = 0
     /\ FailHere(0, "INVALID_UNICODE_ESCAPE")
  \/ At("brace_number", {"END"}) /\ local.number.digits > 0 /\ Unclosed
  \/ /\ At("brace_number", Hex)
     /\ FailAt(EndOfDigits, "CODE_POINT_OUT_OF_RANGE", Span(local.number.lo, EndOfDigits))
  \/ /\ Other("brace_number", Hex \cup {"END"}) /\ local.number.digits > 0
     /\ Advance(0, "brace_next", [local EXCEPT !.code_hi = pos])

BraceCode == CodeData(local.number.value, local.number.lo, local.code_hi)

LexBraceNext ==
  \/ At("brace_next", Blanks) /\ Advance(1, "brace_next", local)
  \/ At("brace_next", {"END"}) /\ Unclosed
  \/ At("brace_next", {"}"}) /\ Deliver(1, BraceCode, FALSE)
  \/ Other("brace_next", Blanks \cup {"}", "END"}) /\ Deliver(0, BraceCode, TRUE)

-----------------------------------------------------------------------------
(* lex_escape_single_byte and lex_escape_bytes.                                     *)

SimpleByte(symbol) ==
  CASE symbol = "n" -> 10
    [] symbol = "t" -> 9
    [] symbol = "r" -> 13
    [] symbol = "f" -> 12
    [] symbol = "v" -> 11
    [] symbol = "a" -> 7
    [] symbol = "e" -> 27
    [] symbol = "b" -> 8
    [] symbol = "s" -> 32
    [] OTHER -> Code(symbol)

WithControl(byte) == IF local.control THEN byte % 32 ELSE byte
WithMeta(byte) == IF local.meta /\ byte < 128 THEN byte + 128 ELSE byte

ReadByte(n, byte) ==
  Advance(n, "bytes", [local EXCEPT !.bytes = Append(@, WithMeta(WithControl(byte))),
                                    !.control = FALSE, !.meta = FALSE])

LexEscape ==
  \/ At("escape", {"END"}) /\ Fail(0, "INCOMPLETE_ESCAPE", local.escape)
  \/ At("escape", {"WIDE"}) /\ FailAt(pos, "INVALID_ESCAPE", Span(local.escape, pos + 1))
  \/ At("escape", {"x"}) /\ Read(1, Number(16, 2, 0, "SUCCESS", "hex_byte"), local)
  \/ At("escape", Octal) /\ Read(0, Number(8, 3, 0, "SUCCESS", "octal_byte"), local)
  \/ At("escape", {"M"}) /\ local.meta /\ Fail(1, "DUPLICATE_META_ESCAPE", local.escape)
  \/ At("escape", {"M"}) /\ ~local.meta /\ Advance(1, "meta", [local EXCEPT !.meta = TRUE])
  \/ /\ At("escape", {"c", "C"}) /\ local.control
     /\ Fail(1, "DUPLICATE_CONTROL_ESCAPE", local.escape)
  \/ /\ At("escape", {"c", "C"}) /\ ~local.control
     /\ Advance(1, IF Peek = "C" THEN "control" ELSE "control_code",
                [local EXCEPT !.control = TRUE])
  \/ /\ Other("escape", {"END", "WIDE", "x", "M", "c", "C"} \cup Octal)
     /\ ReadByte(1, SimpleByte(Peek))

LexNumberedByte ==
  \/ /\ pc = "hex_byte" /\ local.number.digits = 0
     /\ Fail(0, "INCOMPLETE_HEX_ESCAPE", local.escape)
  \/ pc = "hex_byte" /\ local.number.digits > 0 /\ ReadByte(0, local.number.value)
  \/ pc = "octal_byte" /\ ReadByte(0, local.number.value % 256)

HyphenLeads == Peek = "-" /\ pos + 1 < Len(pattern)

LexMeta ==
  \/ At("meta", {"END"}) /\ Fail(0, "INCOMPLETE_META_ESCAPE", local.escape)
  \/ Other("meta", {"END"}) /\ ~HyphenLeads /\ Fail(1, "INCOMPLETE_META_ESCAPE", local.escape)
  \/ At("meta", {"-"}) /\ HyphenLeads /\ Advance(1, "meta_code", local)
  \/ At("meta_code", {"\\"}) /\ Advance(1, "escape", local)
  \/ At("meta_code", {"WIDE"}) /\ Fail(1, "INVALID_META_ESCAPE_CODE", local.escape)
  \/ Other("meta_code", {"\\", "WIDE"}) /\ ReadByte(1, Code(Peek))

(* `?` stands for DEL, which loses its seventh bit to no control prefix.             *)
LexControl ==
  \/ /\ pc \in {"control", "control_code"} /\ Peek = "END"
     /\ Fail(0, "INCOMPLETE_CONTROL_ESCAPE", local.escape)
  \/ /\ Other("control", {"END"}) /\ ~HyphenLeads
     /\ Fail(1, "INCOMPLETE_CONTROL_ESCAPE", local.escape)
  \/ At("control", {"-"}) /\ HyphenLeads /\ Advance(1, "control_code", local)
  \/ At("control_code", {"\\"}) /\ Advance(1, "escape", local)
  \/ At("control_code", {"WIDE"}) /\ Fail(1, "INVALID_CONTROL_ESCAPE_CODE", local.escape)
  \/ /\ At("control_code", {"?"})
     /\ Advance(1, "bytes", [local EXCEPT !.bytes = Append(@, WithMeta(127)),
                                          !.control = FALSE, !.meta = FALSE])
  \/ Other("control_code", {"\\", "WIDE", "?", "END"}) /\ ReadByte(1, Code(Peek))

(* Variant: what the first byte announces is not checked against what follows.       *)
AnyBytes == Scan(<<local.bytes[1]>>) # 0

IsCharacter == Scan(local.bytes) = Len(local.bytes)

LexBytes ==
  \/ At("bytes", {"\\"}) /\ NeedsBytes /\ Advance(1, "escape", [local EXCEPT !.escape = pos])
  \/ /\ Other("bytes", {"\\"}) /\ NeedsBytes
     /\ Fail(0, "INCOMPLETE_ESCAPED_BYTE_SEQUENCE", local.first)
  \/ /\ pc = "bytes" /\ ~NeedsBytes /\ IsCharacter
     /\ Deliver(0, CodeData(Decode(local.bytes), local.lo, pos), FALSE)
  \/ /\ pc = "bytes" /\ ~NeedsBytes /\ ~IsCharacter
     /\ Fail(0, "INVALID_ESCAPED_BYTE_SEQUENCE", local.first)

-----------------------------------------------------------------------------
(* lex_impl after a backslash, with lex_escaped_token_common.                         *)

OpenEscape ==
  At("token", {"\\"}) /\ Advance(1, "escaped", [local EXCEPT !.escape = pos, !.first = pos,
                                                            !.bytes = <<>>])

LexEscapedAssertion ==
  LET ascii == options.posix_char_class_is_ascii_only
  IN  \/ At("escaped", {"X"}) /\ Emit(1, "GRAPHEME_CLUSTER", <<>>)
      \/ At("escaped", {"K"}) /\ Emit(1, "KEEP", <<>>)
      \/ At("escaped", {"R"}) /\ Emit(1, "NEWLINE", <<>>)
      \/ /\ At("escaped", {"b"})
         /\ Emit(1, "ASSERTION", Assertion(IF ascii THEN "ASCII_WORD_BOUNDARY" ELSE "WORD_BOUNDARY"))
      \/ /\ At("escaped", {"B"})
         /\ Emit(1, "ASSERTION", Assertion(IF ascii THEN "NON_ASCII_WORD_BOUNDARY"
                                           ELSE "NON_WORD_BOUNDARY"))
      \/ At("escaped", {"A"}) /\ Emit(1, "ASSERTION", Assertion("BEGIN_OF_STRING"))
      \/ At("escaped", {"z"}) /\ Emit(1, "ASSERTION", Assertion("END_OF_STRING_STRICT"))
      \/ At("escaped", {"Z"}) /\ Emit(1, "ASSERTION", Assertion("END_OF_STRING_LOOSE"))
      \/ At("escaped", {"G"}) /\ Emit(1, "ASSERTION", Assertion("BEGIN_OF_MATCHING"))

CharTypes == {"d", "D", "w", "W", "s", "S", "h", "H"}
IsPositiveType(symbol) == symbol \in {"d", "w", "s", "h"}

LexEscapedType ==
  /\ At("escaped", CharTypes)
  /\ Emit(1, "CHAR_TYPE", [type |-> Fold(Code(Peek)), is_positive |-> IsPositiveType(Peek)])

LiteralLetter(letter) == CodeData(Code(letter), local.lo, pos)

LexProperty ==
  \/ At("escaped", {"p", "P"}) /\ Advance(1, "property", [local EXCEPT !.positive = Peek = "p"])
  \/ /\ Other("property", {"{"})
     /\ EmitWarned(0, "CODE", LiteralLetter(pattern[pos]), "INCOMPLETE_CHAR_PROP_ESCAPE")
  \/ At("property", {"{"}) /\ Advance(1, "negation", Reference("property", "}", pos + 1))
  \/ /\ At("negation", {"^"})
     /\ Advance(1, "property_name", [local EXCEPT !.positive = ~@, !.name_lo = pos + 1])
  \/ Other("negation", {"^"}) /\ OpenName
  \/ pc = "property_name" /\ OpenName

ReferenceWarning ==
  IF pattern[pos] = "k" THEN "INCOMPLETE_NAMED_BACK_REF_ESCAPE" ELSE "INCOMPLETE_SUBEXP_CALL_ESCAPE"

LexNamedReference ==
  \/ At("escaped", {"k", "g"}) /\ Advance(1, "named_reference", local)
  \/ /\ At("named_reference", {"<", "'"})
     /\ Advance(1, "reference", Reference(IF pattern[pos] = "k" THEN "back_ref" ELSE "call",
                                          Closing(Peek), pos + 1))
  \/ /\ Other("named_reference", {"<", "'"})
     /\ EmitWarned(0, "CODE", LiteralLetter(pattern[pos]), ReferenceWarning)

IsBareReference(number) == number <= 9 \/ number <= num_capture_groups

(* A bare number refers to a group, or is an octal escape, or a digit.                 *)
LexBare ==
  LET is_reference == ~local.number.overflowed /\ IsBareReference(local.number.value)
      first == local.escape + 1
  IN  \/ /\ At("escaped", Decimal \ {"0"})
         /\ Read(0, DecimalNumber(bare_back_ref_max_num_limit, "INTERNAL_ERROR", "bare"), local)
      \/ /\ pc = "bare" /\ is_reference
         /\ Emit(0, "BACK_REF", [Target EXCEPT !.has_num = TRUE, !.num = local.number.value])
      \/ /\ pc = "bare" /\ ~is_reference /\ pattern[first + 1] \in Octal
         /\ Advance(first - pos, "escape", local)
      \/ /\ pc = "bare" /\ ~is_reference /\ pattern[first + 1] \notin Octal
         /\ EmitAt(first + 1, "CODE", CodeData(Code(pattern[first + 1]), local.lo, first + 1))
         /\ UNCHANGED <<in_unicode_escape_brace, warnings>>

ByteEscapes == {"0", "x", "c", "C", "M", "\\", "n", "t", "r", "f", "v", "a", "e"}
Escaped ==
  {"END", "X", "K", "R", "b", "B", "A", "z", "Z", "G", "p", "P", "k", "g", "u", "\n", "\r"}
    \cup CharTypes \cup Decimal \cup ByteEscapes

LexCommonEscape ==
  \/ At("escaped", {"END"}) /\ FailHere(0, "INCOMPLETE_ESCAPE")
  \/ At("escaped", {"u"}) /\ Advance(1, "unicode", local)
  \/ At("escaped", ByteEscapes) /\ Advance(0, "escape", local)
  \/ At("escaped", {"\n"}) /\ Retry(1)
  \/ At("escaped", {"\r"}) /\ Advance(1, "carriage_return", local)
  \/ At("carriage_return", {"\n"}) /\ Retry(1)
  \/ Other("carriage_return", {"\n"}) /\ Emit(0, "CODE", CodeData(13, local.lo, pos))
  \/ Other("escaped", Escaped) /\ Emit(1, "CODE", CodeData(Code(Peek), local.lo, pos + 1))

-----------------------------------------------------------------------------

LexToken ==
  \/ LexEnd \/ SkipWhitespace \/ OpenComment \/ Comment \/ LexSimple \/ LexLiteral
  \/ LexQuantifier \/ OpenBounds \/ LexMin \/ LexComma \/ LexMax \/ LexBoundsEnd
  \/ LexQuantifierType \/ OpenGroup \/ LexSpecifier \/ LexLookbehind \/ LexCondition
  \/ LexConditionClose \/ LexOption

LexReferences ==
  LexReference \/ LexSign \/ LexNumbered \/ LexDepth \/ LexClose \/ LexName \/ TrimName \/ LexNamed

LexEscapes ==
  \/ OpenEscape \/ LexEscapedAssertion \/ LexEscapedType \/ LexProperty \/ LexNamedReference
  \/ LexBare \/ LexCommonEscape \/ LexEscape \/ LexNumberedByte \/ LexMeta \/ LexControl \/ LexBytes
  \/ LexUnicode \/ LexUnicodeNumber \/ LexBrace \/ LexBraceNumber \/ LexBraceNext

Next ==
  \/ Lex \/ InvalidBytes \/ NumberDigit \/ NumberTooLarge \/ NumberEnd
  \/ LexToken \/ LexReferences \/ LexEscapes

Spec == Init /\ [][Next]_vars /\ WF_vars(Next)

-----------------------------------------------------------------------------
(* Type correctness of what the lexer keeps between its steps.                        *)
Points ==
  {"idle", "failed", "token", "comment", "bounds", "min", "comma", "max", "bounds_end", "greed",
   "group", "specifier", "lookbehind", "condition", "condition_close", "option", "reference",
   "sign", "numbered", "depth", "depth_sign", "depth_read", "close", "name", "name_escape", "named",
   "escaped", "property", "negation", "property_name", "named_reference", "bare", "carriage_return",
   "number", "escape", "hex_byte", "octal_byte", "meta", "meta_code", "control", "control_code",
   "bytes", "unicode", "unicode_number", "brace_open", "brace_number", "brace_next", "in_brace"}

TypeOK ==
  /\ pos \in 0 .. Len(pattern)
  /\ pc \in Points
  /\ in_unicode_escape_brace \in BOOLEAN
  /\ num_capture_groups \in Nat
  /\ name.type \in {"NONE", "VIEW", "OWNED"}
  /\ heap \subseteq Addresses

(* The buffer a name is copied to belongs to the name being read or to the token that  *)
(* carries it, to one of them only, and to nobody once the lexer has failed: of the     *)
(* many error returns only one releases nothing, and no name is being read there.       *)
NameBufferHasOneOwner ==
  /\ heap = name.owns \cup tok.owns
  /\ name.owns \cap tok.owns = {}
  /\ name.type = "OWNED" <=> name.owns # {}
  /\ pc = "failed" => heap = {}
=============================================================================
