--------------------------- MODULE CharClassParser ---------------------------
(***************************************************************************)
(* Bracketed character classes of src/parse.c: lex_in_char_class with its  *)
(* lookahead, and parse_char_class_intersection, _union and _item, from    *)
(* the opening bracket to the class built or the error.                    *)
(*                                                                         *)
(* A pattern is a sequence of symbols.  A symbol is a character, or an     *)
(* escape or bracketed name the lexer reads as a whole.  Parser.tla takes  *)
(* this parser as one step.                                                *)
(***************************************************************************)
EXTENDS Naturals, Sequences, Stacks

CONSTANTS
  Patterns,        \* the classes that may be parsed, from the opening bracket on
  MaxParseDepth,   \* max_parse_depth_limit
  Addresses        \* addresses malloc can return

(* Characters in the order of their codes; "a" and "b" stand for letters.   *)
Characters == <<"&", "-", "[", "]", "^", "a", "b">>

(* TYPE is \d or \p{Lu}, POSIX is [:digit:], ESC is `\-`, UESC is          *)
(* `\u{61 ` and HEX the `62}` that goes on after it.  NOCODE is an escape   *)
(* whose code the encoding does not have, CONTINUE a backslash before a      *)
(* newline, BYTES no character at all.                                       *)
Symbols == {"&", "-", "[", "]", "^", "a", "b", "TYPE", "POSIX", "UESC", "HEX", "ESC",
            "NOCODE", "CONTINUE", "BYTES"}

(* A second code point stands only in the braces a first one opened.        *)
IsPattern(p) ==
  /\ p \in Seq(Symbols) /\ p # <<>> /\ p[1] = "["
  /\ \A i \in DOMAIN p :
       /\ p[i] = "HEX" => p[i - 1] = "UESC"
       /\ p[i] = "UESC" /\ i < Len(p) => p[i + 1] \in {"HEX", "BYTES"}

ASSUME CharClassAssumption ==
  /\ \A p \in Patterns : IsPattern(p)
  /\ MaxParseDepth \in Nat

Code(symbol) ==
  CASE symbol = "ESC" -> 2
    [] symbol = "UESC" -> 6
    [] symbol = "HEX" -> 7
    [] symbol = "NOCODE" -> 8
    [] OTHER -> CHOOSE i \in DOMAIN Characters : Characters[i] = symbol

(* nk_enc_encode_mbc_width succeeds.                                        *)
IsEncodable(code) == code < 8

VARIABLES
  pattern,        \* the symbols from the opening bracket on
  pos,            \* pattern_bytes: symbols read
  in_unicode_escape_brace,
  parse_depth,
  error_span,     \* error_bytes and error_bytes_end, or {}
  warnings,       \* the calls of the warning callback
  tok,
  stack,          \* activation records, the running one last
  control,        \* what happens next: a call, a lex, a return
  heap            \* addresses in use

vars == <<pattern, pos, in_unicode_escape_brace, parse_depth, error_span, warnings,
          tok, stack, control, heap>>

-----------------------------------------------------------------------------
(* Tokens, items, unions and activation records.  Spans count symbols.      *)

Token(kind, lo, hi, code, is_first, is_last) ==
  [kind |-> kind, lo |-> lo, hi |-> hi, code |-> code, is_first |-> is_first,
   is_last |-> is_last]

NoToken == Token("NONE", 0, 0, 0, FALSE, FALSE)
Terminators == {"CHAR_CLASS_CLOSE", "CHAR_CLASS_INTERSECTION", "END"}

Span(lo, hi) == {[lo |-> lo, hi |-> hi]}
Warning(kind, lo, hi) == [kind |-> kind, lo |-> lo, hi |-> hi]

Owned(parts) == UNION {parts[i].owns : i \in DOMAIN parts}

(* codes are the bounds of a CODE or RANGE; parts the unions of a nested    *)
(* class; owns the addresses char_class_item_free releases.                 *)
Item(type, lo, hi, codes, positive, parts, mem) ==
  [type |-> type, lo |-> lo, hi |-> hi, codes |-> codes, positive |-> positive,
   parts |-> parts, owns |-> mem \cup Owned(parts)]

NoItem == Item("NONE", 0, 0, <<>>, TRUE, <<>>, {})
Union(lo, hi, items, mem) ==
  [lo |-> lo, hi |-> hi, items |-> items, owns |-> mem \cup Owned(items)]
Class(positive, unions, mem) ==
  [positive |-> positive, parts |-> unions, owns |-> mem \cup Owned(unions)]

(* fn is what is called or returned from, state the state lex_in_char_class *)
(* is called in.                                                            *)
Control(op, fn, state, code, value) ==
  [op |-> op, fn |-> fn, state |-> state, code |-> code, value |-> value]

Call(fn) == Control("call", fn, "NONE", "SUCCESS", NoItem)
CallLex(state) == Control("lex", "lex", state, "SUCCESS", NoItem)
Lexed == Control("lexed", "lex", "NONE", "SUCCESS", NoItem)
Run == Control("run", "", "NONE", "SUCCESS", NoItem)
Undefined == Control("undefined", "", "NONE", "UNDEFINED", NoItem)
Ok(value) == Control("ok", "", "NONE", "SUCCESS", value)
Error(code) == Control("error", "", "NONE", code, NoItem)

(* parts are the items of a union or the unions of a class, cap the         *)
(* capacity of their array; begin is begin_tok, item begin_item.            *)
Frame(fn) ==
  [fn |-> fn, pc |-> "start", lo |-> tok.lo, parts |-> <<>>, cap |-> 0, mem |-> {},
   positive |-> TRUE, begin |-> NoToken, item |-> NoItem]

Top == stack[Len(stack)]

At(op, fn, pc) ==
  stack # <<>> /\ control.op = op /\ Top.fn = fn /\ Top.pc = pc

Fresh == CHOOSE a \in Addresses : a \notin heap
CanAllocate == \E a \in Addresses : a \notin heap

Continue(f, c) ==
  /\ stack' = [stack EXCEPT ![Len(stack)] = f]
  /\ control' = c
  /\ UNCHANGED <<parse_depth, error_span>>

(* leave_parse_depth and return.                                            *)
Leave(c) ==
  /\ stack' = SubSeq(stack, 1, Len(stack) - 1)
  /\ control' = c
  /\ parse_depth' = parse_depth - 1

Return(value) == Leave(Ok(value)) /\ UNCHANGED error_span

(* Return an error once what the function owns has been released.           *)
FailAt(code, owned, span) ==
  /\ heap' = heap \ owned
  /\ error_span' = span
  /\ Leave(Error(code))

Fail(code, owned) == FailAt(code, owned, error_span)

OutOfMemory == "MEMORY_ALLOCATION_FAILED"
FrameOwns == Top.mem \cup Owned(Top.parts) \cup Top.item.owns

LexerVars == <<pattern, pos, in_unicode_escape_brace>>
ParseVars == <<LexerVars, warnings, tok>>

(* parse_atom has lexed the opening bracket.                                 *)

Init ==
  /\ pattern \in Patterns
  /\ pos = 1
  /\ in_unicode_escape_brace = FALSE
  /\ parse_depth = 0
  /\ error_span = {}
  /\ warnings = <<>>
  /\ tok = Token("CHAR_CLASS_OPEN", 0, 1, 0, FALSE, FALSE)
  /\ stack = <<>>
  /\ control = Call("intersection")
  /\ heap = {}

-----------------------------------------------------------------------------
(* lex_in_char_class.                                                       *)

AtEnd(i) == i >= Len(pattern)
Peek(i) == IF AtEnd(i) THEN "END" ELSE pattern[i + 1]
NextIs(symbol) == Peek(pos) = symbol

Lexing == control.op = "lex"
LexingSymbol == Lexing /\ ~in_unicode_escape_brace
LexFrameVars == <<pattern, parse_depth, stack, heap>>

ReturnToken(kind, width, code) ==
  /\ tok' = Token(kind, pos, pos + width, code, FALSE, FALSE)
  /\ pos' = pos + width
  /\ control' = Lexed
  /\ UNCHANGED <<error_span, LexFrameVars>>

(* An error is located where the lexer stands unless it has a location.      *)
LexFails(code, at) ==
  /\ pos' = at
  /\ tok' = [tok EXCEPT !.kind = "NONE"]
  /\ error_span' = (IF error_span = {} THEN Span(at, at) ELSE error_span)
  /\ control' = Error(code)
  /\ UNCHANGED <<in_unicode_escape_brace, warnings, LexFrameVars>>

LexEnd ==
  /\ LexingSymbol /\ AtEnd(pos)
  /\ ReturnToken("END", 0, 0)
  /\ UNCHANGED <<in_unicode_escape_brace, warnings>>

(* Inside braces every token is the next code point.                         *)
LexInBrace ==
  /\ Lexing /\ in_unicode_escape_brace /\ NextIs("HEX")
  /\ in_unicode_escape_brace' = FALSE
  /\ ReturnToken("CODE", 1, Code("HEX"))
  /\ UNCHANGED warnings

LexNegation ==
  /\ LexingSymbol /\ NextIs("^") /\ control.state = "BEGIN"
  /\ ReturnToken("CHAR_CLASS_NEGATION", 1, 0)
  /\ UNCHANGED <<in_unicode_escape_brace, warnings>>

(* Variant: a hyphen before && may be a range hyphen.                        *)
IsRangeHyphenAnywhere ==
  control.state = "HAS_RANGE_BEGIN" /\ Peek(pos + 1) \notin {"]", "END"}

IsRangeHyphen ==
  /\ control.state = "HAS_RANGE_BEGIN"
  /\ Peek(pos + 1) \notin {"]", "END"}
  /\ ~(Peek(pos + 1) = "&" /\ Peek(pos + 2) = "&")

PeeksBytes == Peek(pos + 1) = "BYTES" \/ (Peek(pos + 1) = "&" /\ Peek(pos + 2) = "BYTES")

LexRangeHyphen ==
  /\ LexingSymbol /\ NextIs("-") /\ ~PeeksBytes /\ IsRangeHyphen
  /\ ReturnToken("CHAR_CLASS_RANGE_HYPHEN", 1, 0)
  /\ UNCHANGED <<in_unicode_escape_brace, warnings>>

(* Variant: a hyphen at the end is warned of as well.                        *)
WarnOfHyphenUnlessFirst(is_first, is_last) == ~is_first

WarnOfHyphen(is_first, is_last) == ~is_first /\ ~is_last

LexLiteralHyphen ==
  LET is_first == control.state \in {"BEGIN", "BEGIN_AFTER_NEGATION"}
      is_last == Peek(pos + 1) \in {"]", "END"}
  IN  /\ LexingSymbol /\ NextIs("-") /\ ~PeeksBytes /\ ~IsRangeHyphen
      /\ tok' = Token("CHAR_CLASS_LITERAL_HYPHEN", pos, pos + 1, Code("-"), is_first, is_last)
      /\ pos' = pos + 1
      /\ warnings' = (IF WarnOfHyphen(is_first, is_last)
                        THEN Append(warnings, Warning("HYPHEN", pos, pos + 1))
                        ELSE warnings)
      /\ control' = Lexed
      /\ UNCHANGED <<in_unicode_escape_brace, error_span, LexFrameVars>>

LexIntersection ==
  /\ LexingSymbol /\ NextIs("&") /\ Peek(pos + 1) = "&"
  /\ ReturnToken("CHAR_CLASS_INTERSECTION", 2, 0)
  /\ UNCHANGED <<in_unicode_escape_brace, warnings>>

LexOpen ==
  /\ LexingSymbol /\ NextIs("[") /\ Peek(pos + 1) # "BYTES"
  /\ ReturnToken("CHAR_CLASS_OPEN", 1, 0)
  /\ UNCHANGED <<in_unicode_escape_brace, warnings>>

(* A bracket right after the opening one, or its ^, is a literal, unless the *)
(* pattern ends with it.                                                     *)
IsClose == control.state \notin {"BEGIN", "BEGIN_AFTER_NEGATION"} \/ AtEnd(pos + 1)

LexClose ==
  /\ LexingSymbol /\ NextIs("]") /\ IsClose
  /\ ReturnToken("CHAR_CLASS_CLOSE", 1, 0)
  /\ UNCHANGED <<in_unicode_escape_brace, warnings>>

(* Every other character stands for itself.                                  *)
LexLiteral ==
  /\ LexingSymbol
  /\ \/ Peek(pos) \in {"a", "b"}
     \/ NextIs("^") /\ control.state # "BEGIN"
     \/ NextIs("&") /\ Peek(pos + 1) \notin {"&", "BYTES"}
     \/ NextIs("]") /\ ~IsClose
  /\ ReturnToken("CHAR_CLASS_LITERAL_CODE", 1, Code(Peek(pos)))
  /\ warnings' = (IF NextIs("]") THEN Append(warnings, Warning("BRACKET", pos, pos + 1))
                                 ELSE warnings)
  /\ UNCHANGED in_unicode_escape_brace

LexEscape ==
  /\ LexingSymbol
  /\ \/ Peek(pos) \in {"ESC", "NOCODE"} /\ ReturnToken("CODE", 1, Code(Peek(pos)))
     \/ NextIs("TYPE") /\ ReturnToken("CHAR_TYPE", 1, 0)
     \/ NextIs("POSIX") /\ ReturnToken("POSIX_CHAR_CLASS", 1, 0)
  /\ UNCHANGED <<in_unicode_escape_brace, warnings>>

LexUnicodeEscape ==
  /\ LexingSymbol /\ NextIs("UESC") /\ Peek(pos + 1) = "HEX"
  /\ in_unicode_escape_brace' = TRUE
  /\ ReturnToken("CODE", 1, Code("UESC"))
  /\ UNCHANGED warnings

(* Variant: the newline is not read past.                                    *)
LexContinuationStays ==
  /\ LexingSymbol /\ NextIs("CONTINUE")
  /\ UNCHANGED vars

(* A backslash before a newline is skipped: retry.                           *)
LexContinuation ==
  /\ LexingSymbol /\ NextIs("CONTINUE")
  /\ pos' = pos + 1
  /\ UNCHANGED <<in_unicode_escape_brace, error_span, warnings, tok, control, LexFrameVars>>

LexError ==
  \/ LexingSymbol /\ NextIs("BYTES") /\ LexFails("INVALID_BYTE_SEQUENCE", pos)
  \/ /\ LexingSymbol /\ NextIs("-") /\ PeeksBytes
     /\ LexFails("INVALID_BYTE_SEQUENCE", IF Peek(pos + 1) = "&" THEN pos + 2 ELSE pos + 1)
  \/ /\ LexingSymbol /\ Peek(pos) \in {"&", "["} /\ Peek(pos + 1) = "BYTES"
     /\ LexFails("INVALID_BYTE_SEQUENCE", pos + 1)
  \/ /\ LexingSymbol /\ NextIs("UESC") /\ Peek(pos + 1) \in {"END", "BYTES"}
     /\ LexFails(IF AtEnd(pos + 1) THEN "UNCLOSED_UNICODE_ESCAPE_BRACE"
                                   ELSE "INVALID_BYTE_SEQUENCE", pos + 1)

Lex ==
  \/ LexEnd \/ LexInBrace \/ LexNegation \/ LexRangeHyphen \/ LexLiteralHyphen
  \/ LexIntersection \/ LexOpen \/ LexClose \/ LexLiteral \/ LexEscape
  \/ LexUnicodeEscape \/ LexContinuation \/ LexError

-----------------------------------------------------------------------------
(* enter_parse_depth.                                                        *)

EnterFunction ==
  /\ control.op = "call" /\ parse_depth + 1 <= MaxParseDepth
  /\ parse_depth' = parse_depth + 1
  /\ stack' = Append(stack, Frame(control.fn))
  /\ control' = Run
  /\ UNCHANGED <<ParseVars, error_span, heap>>

RejectDepth ==
  /\ control.op = "call" /\ parse_depth + 1 > MaxParseDepth
  /\ control' = Error("PARSE_DEPTH_LIMIT_EXCEEDED")
  /\ error_span' = Span(pos, pos)
  /\ UNCHANGED <<ParseVars, parse_depth, stack, heap>>

-----------------------------------------------------------------------------
(* Variant: the begin item is not freed.                                     *)
PropagateErrorKeepingItem ==
  /\ stack # <<>> /\ control.op = "error"
  /\ Fail(control.code, Top.mem \cup Owned(Top.parts))
  /\ UNCHANGED ParseVars

(* When the lexer or a nested call fails, each function frees what it holds.  *)
PropagateError ==
  /\ stack # <<>> /\ control.op = "error"
  /\ Fail(control.code, FrameOwns)
  /\ UNCHANGED ParseVars

-----------------------------------------------------------------------------
(* parse_char_class_item_impl.                                               *)

ItemNoMemory ==
  /\ At("run", "item", "start")
  /\ Fail(OutOfMemory, {})
  /\ UNCHANGED ParseVars

ReturnItem(type, codes) ==
  /\ heap' = heap \cup {Fresh}
  /\ Return(Item(type, tok.lo, tok.hi, codes, TRUE, <<>>, {Fresh}))

ItemSimple ==
  /\ At("run", "item", "start") /\ CanAllocate
  /\ \/ /\ tok.kind \in {"CODE", "CHAR_CLASS_LITERAL_CODE", "CHAR_CLASS_LITERAL_HYPHEN"}
        /\ tok.kind = "CODE" => IsEncodable(tok.code)
        /\ ReturnItem("CODE", <<tok.code>>)
     \/ tok.kind \in {"CHAR_TYPE", "POSIX_CHAR_CLASS"} /\ ReturnItem(tok.kind, <<>>)
  /\ UNCHANGED ParseVars

(* The type of the item is not set yet when char_class_item_free reads it:   *)
(* the item alone is freed, or, where its memory looks like a nested class,   *)
(* whatever is found in it.                                                   *)
ItemNotEncodable ==
  /\ At("run", "item", "start") /\ CanAllocate
  /\ tok.kind = "CODE" /\ ~IsEncodable(tok.code)
  /\ \/ FailAt("INVALID_CODE_POINT", {}, Span(tok.lo, tok.hi))
     \/ Continue(Top, Undefined) /\ UNCHANGED heap
  /\ UNCHANGED ParseVars

ItemOpen ==
  /\ At("run", "item", "start") /\ CanAllocate
  /\ tok.kind = "CHAR_CLASS_OPEN"
  /\ heap' = heap \cup {Fresh}
  /\ Continue([Top EXCEPT !.pc = "nested", !.mem = {Fresh}], Call("intersection"))
  /\ UNCHANGED ParseVars

ItemNested ==
  /\ At("ok", "item", "nested")
  /\ Return(Item("NESTED", Top.lo, pos, <<>>, control.value.positive,
                    control.value.parts, Top.mem \cup control.value.owns))
  /\ UNCHANGED <<ParseVars, heap>>

ItemRejects ==
  /\ At("run", "item", "start") /\ CanAllocate
  /\ tok.kind \in Terminators \cup {"CHAR_CLASS_NEGATION", "CHAR_CLASS_RANGE_HYPHEN"}
  /\ Fail("PARSER_BUG", {})
  /\ UNCHANGED ParseVars

-----------------------------------------------------------------------------
(* parse_char_class_union_impl.                                              *)

IsEmptyUnion == tok.kind \in Terminators

UnionStart ==
  /\ At("run", "union", "start")
  /\ UNCHANGED ParseVars
  /\ \/ Fail(OutOfMemory, {})
     \/ /\ CanAllocate /\ IsEmptyUnion
        /\ heap' = heap \cup {Fresh}
        /\ Return(Union(tok.lo, tok.lo, <<>>, {Fresh}))
     \/ /\ CanAllocate /\ ~IsEmptyUnion
        /\ heap' = heap \cup {Fresh}
        /\ Continue([Top EXCEPT !.pc = "items", !.mem = {Fresh}], Run)

UnionItems ==
  /\ At("run", "union", "items")
  /\ UNCHANGED ParseVars
  /\ \/ Fail(OutOfMemory, FrameOwns)
     \/ /\ CanAllocate
        /\ heap' = heap \cup {Fresh}
        /\ Continue([Top EXCEPT !.pc = "token", !.mem = @ \cup {Fresh}, !.cap = 1], Run)

(* The array has room for one more, or is grown, which may fail.             *)
HasRoom(f) == Len(f.parts) < f.cap

Stored(f, part) ==
  [f EXCEPT !.parts = Append(@, part),
            !.cap = IF HasRoom(f) THEN @ ELSE 2 * @]

GrowthFails ==
  /\ ~HasRoom(Top)
  /\ Fail(OutOfMemory, FrameOwns)

(* Store begin_item, if there is one, in items.                              *)
Flushed(f) == IF f.item = NoItem THEN f ELSE [Stored(f, f.item) EXCEPT !.item = NoItem]

(* The while loop and what follows it look at the token.                     *)
AtToken == At("run", "union", "token") \/ At("lexed", "union", "token")

UnionRange ==
  /\ AtToken
  /\ tok.kind = "CHAR_CLASS_RANGE_HYPHEN"
  /\ IF Top.item = NoItem
       THEN Fail("PARSER_BUG", FrameOwns) /\ UNCHANGED warnings
       ELSE /\ warnings' = (IF Top.begin.is_first
                              THEN Append(warnings, Warning("HYPHEN_AT_BEGINNING",
                                                            Top.begin.lo, Top.begin.hi))
                              ELSE warnings)
            /\ Continue([Top EXCEPT !.pc = "range_end"], CallLex("WAIT_RANGE_END"))
            /\ UNCHANGED heap
  /\ UNCHANGED <<LexerVars, tok>>

UnionRangeLexed ==
  /\ At("lexed", "union", "range_end")
  /\ warnings' = (IF tok.is_last
                    THEN Append(warnings, Warning("HYPHEN_AT_END", tok.lo, tok.hi))
                    ELSE warnings)
  /\ \/ /\ Top.item.type # "CODE"
        /\ FailAt("INVALID_CHAR_CLASS_RANGE", FrameOwns, Span(Top.item.lo, Top.item.hi))
     \/ /\ Top.item.type = "CODE"
        /\ Continue([Top EXCEPT !.pc = "range_item"], Call("item"))
        /\ UNCHANGED heap
  /\ UNCHANGED <<LexerVars, tok>>

(* Variant: the span of a range is that of its first bound.                  *)
RangeItemShort(begin, end) ==
  Item("RANGE", begin.lo, begin.hi, <<begin.codes[1], end.codes[1]>>, TRUE, <<>>,
       begin.owns)

RangeItem(begin, end) ==
  Item("RANGE", Top.begin.lo, tok.hi, <<begin.codes[1], end.codes[1]>>, TRUE, <<>>,
       begin.owns)

(* Variant: equal bounds are out of order.                                   *)
OutOfOrderOrEqual(begin, end) == begin.codes[1] >= end.codes[1]

OutOfOrder(begin, end) == begin.codes[1] > end.codes[1]

UnionRangeItem ==
  /\ At("ok", "union", "range_item")
  /\ LET begin == Top.item
         end == control.value
     IN
       \/ /\ end.type # "CODE"
          /\ FailAt("INVALID_CHAR_CLASS_RANGE", FrameOwns \cup end.owns, Span(end.lo, end.hi))
       \/ /\ end.type = "CODE" /\ OutOfOrder(begin, end)
          /\ FailAt("CHAR_CLASS_RANGE_OUT_OF_ORDER", FrameOwns \cup end.owns, Span(begin.lo, end.hi))
       \/ /\ end.type = "CODE" /\ ~OutOfOrder(begin, end)
          /\ ~HasRoom(Top)
          /\ Fail(OutOfMemory, FrameOwns \cup end.owns)
       \/ /\ end.type = "CODE" /\ ~OutOfOrder(begin, end)
          /\ heap' = heap \ end.owns
          /\ Continue([Stored(Top, RangeItem(begin, end)) EXCEPT !.pc = "token", !.item = NoItem],
                      CallLex("WAIT_RANGE_BEGIN"))
  /\ UNCHANGED ParseVars

UnionNext ==
  /\ AtToken
  /\ tok.kind \notin Terminators \cup {"CHAR_CLASS_RANGE_HYPHEN"}
  /\ \/ /\ Top.item # NoItem
        /\ GrowthFails
     \/ /\ Continue([Flushed(Top) EXCEPT !.pc = "item", !.begin = tok], Call("item"))
        /\ UNCHANGED heap
  /\ UNCHANGED ParseVars

UnionItem ==
  /\ At("ok", "union", "item")
  /\ Continue([Top EXCEPT !.pc = "token", !.item = control.value],
              CallLex("HAS_RANGE_BEGIN"))
  /\ UNCHANGED <<ParseVars, heap>>

(* The last item is stored and the array cut to its length; the realloc of   *)
(* either may fail.                                                          *)
UnionEnd ==
  /\ AtToken
  /\ tok.kind \in Terminators
  /\ LET f == Flushed(Top) IN
       \/ /\ Top.item # NoItem
          /\ GrowthFails
       \/ /\ HasRoom(f)
          /\ Fail(OutOfMemory, FrameOwns)
       \/ /\ Return(Union(Top.lo, tok.lo, f.parts, f.mem))
          /\ UNCHANGED heap
  /\ UNCHANGED ParseVars

-----------------------------------------------------------------------------
(* parse_char_class_intersection_impl.                                       *)

IntersectionStart ==
  /\ At("run", "intersection", "start")
  /\ Continue([Top EXCEPT !.pc = "begin"], CallLex("BEGIN"))
  /\ UNCHANGED <<ParseVars, heap>>

IntersectionNegation ==
  /\ At("lexed", "intersection", "begin") /\ tok.kind = "CHAR_CLASS_NEGATION"
  /\ Continue([Top EXCEPT !.pc = "first", !.positive = FALSE],
              CallLex("BEGIN_AFTER_NEGATION"))
  /\ UNCHANGED <<ParseVars, heap>>

IntersectionEmpty ==
  /\ At("lexed", "intersection", "begin") \/ At("lexed", "intersection", "first")
  /\ tok.kind = "CHAR_CLASS_CLOSE"
  /\ FailAt("EMPTY_CHAR_CLASS", {}, Span(Top.lo, tok.hi))
  /\ UNCHANGED ParseVars

IntersectionFirst ==
  /\ \/ At("lexed", "intersection", "begin") /\ tok.kind # "CHAR_CLASS_NEGATION"
     \/ At("lexed", "intersection", "first")
  /\ tok.kind # "CHAR_CLASS_CLOSE"
  /\ Continue([Top EXCEPT !.pc = "union"], Call("union"))
  /\ UNCHANGED <<ParseVars, heap>>

(* The array of unions is made once the first union is there.                *)
IntersectionArray ==
  /\ At("ok", "intersection", "union") /\ Top.parts = <<>>
  /\ \/ Fail(OutOfMemory, control.value.owns)
     \/ /\ CanAllocate
        /\ heap' = heap \cup {Fresh}
        /\ Continue([Top EXCEPT !.pc = "unions", !.parts = <<control.value>>, !.cap = 1,
                                !.mem = {Fresh}], Run)
  /\ UNCHANGED ParseVars

IntersectionUnion ==
  /\ At("ok", "intersection", "union") /\ Top.parts # <<>>
  /\ \/ /\ ~HasRoom(Top)
        /\ Fail(OutOfMemory, FrameOwns \cup control.value.owns)
     \/ /\ Continue([Stored(Top, control.value) EXCEPT !.pc = "unions"], Run)
        /\ UNCHANGED heap
  /\ UNCHANGED ParseVars

IntersectionLex ==
  /\ At("run", "intersection", "unions") /\ tok.kind = "CHAR_CLASS_INTERSECTION"
  /\ Continue([Top EXCEPT !.pc = "next"], CallLex("WAIT_RANGE_BEGIN"))
  /\ UNCHANGED <<ParseVars, heap>>

IntersectionNext ==
  /\ At("lexed", "intersection", "next")
  /\ Continue([Top EXCEPT !.pc = "union"], Call("union"))
  /\ UNCHANGED <<ParseVars, heap>>

IntersectionEnd ==
  /\ At("run", "intersection", "unions") /\ tok.kind # "CHAR_CLASS_INTERSECTION"
  /\ \/ /\ HasRoom(Top)
        /\ Fail(OutOfMemory, FrameOwns)
     \/ /\ tok.kind # "CHAR_CLASS_CLOSE"
        /\ FailAt("UNTERMINATED_CHAR_CLASS", FrameOwns, Span(tok.lo, tok.hi))
     \/ /\ tok.kind = "CHAR_CLASS_CLOSE"
        /\ Return(Class(Top.positive, Top.parts, Top.mem))
        /\ UNCHANGED heap
  /\ UNCHANGED ParseVars

-----------------------------------------------------------------------------
(* The next-state relation.                                                  *)

ParseItem ==
  \/ ItemNoMemory \/ ItemSimple \/ ItemNotEncodable \/ ItemOpen \/ ItemNested
  \/ ItemRejects

ParseUnion ==
  \/ UnionStart \/ UnionItems \/ UnionRange \/ UnionRangeLexed \/ UnionRangeItem
  \/ UnionNext \/ UnionItem \/ UnionEnd

ParseIntersection ==
  \/ IntersectionStart \/ IntersectionNegation \/ IntersectionEmpty \/ IntersectionFirst
  \/ IntersectionArray \/ IntersectionUnion \/ IntersectionLex \/ IntersectionNext
  \/ IntersectionEnd

Next ==
  \/ Lex \/ EnterFunction \/ RejectDepth \/ PropagateError
  \/ ParseItem \/ ParseUnion \/ ParseIntersection

Spec == Init /\ [][Next]_vars

(* A plain C function runs on once it is called.                             *)
FairSpec == Spec /\ WF_vars(Next)

-----------------------------------------------------------------------------
(* Properties.                                                               *)

TokenKinds ==
  Terminators \cup
    {"NONE", "CHAR_CLASS_OPEN", "CHAR_CLASS_NEGATION", "CHAR_CLASS_RANGE_HYPHEN",
     "CHAR_CLASS_LITERAL_HYPHEN", "CHAR_CLASS_LITERAL_CODE", "CODE", "CHAR_TYPE",
     "POSIX_CHAR_CLASS"}
States == {"BEGIN", "BEGIN_AFTER_NEGATION", "WAIT_RANGE_BEGIN", "HAS_RANGE_BEGIN",
           "WAIT_RANGE_END", "NONE"}
ProgramCounters ==
  [item |-> {"start", "nested"},
   union |-> {"start", "items", "token", "item", "range_end", "range_item"},
   intersection |-> {"start", "begin", "first", "union", "unions", "next"}]

TokenType ==
  [kind : TokenKinds, lo : Nat, hi : Nat, code : {tok.code}, is_first : BOOLEAN,
   is_last : BOOLEAN]

ControlType ==
  [op : {"call", "lex", "lexed", "run", "ok", "error", "undefined"},
   fn : DOMAIN ProgramCounters \cup {"lex", ""}, state : States,
   code : {control.code}, value : {control.value}]

(* No array holds more than its capacity; the items are of any depth.        *)
FrameType(f) ==
  /\ f \in [fn : DOMAIN ProgramCounters, pc : {f.pc}, lo : Nat, parts : {f.parts},
            cap : Nat, mem : SUBSET Addresses, positive : BOOLEAN, begin : {f.begin},
            item : {f.item}]
  /\ f.pc \in ProgramCounters[f.fn]
  /\ IsSeq(f.parts) /\ Len(f.parts) <= f.cap

TypeOK ==
  /\ pattern \in Seq(Symbols) /\ pos \in 0 .. Len(pattern)
  /\ in_unicode_escape_brace \in BOOLEAN
  /\ parse_depth \in Nat
  /\ tok \in TokenType
  /\ control \in ControlType
  /\ heap \subseteq Addresses
  /\ IsSeq(stack) /\ \A i \in 1 .. Len(stack) : FrameType(stack[i])

(* parse_depth counts exactly the functions entered and not left, on every   *)
(* path of success, error and rejection, and never passes the limit.         *)
DepthMatchesStack ==
  parse_depth = Len(stack) /\ parse_depth <= MaxParseDepth

(* A union is cut to its length only when it has items: realloc to no bytes  *)
(* may free the array and return NULL, which the code takes for a failure    *)
(* and frees the array again.                                                *)
NoEmptyArray ==
  AtToken /\ tok.kind \in Terminators => Top.parts # <<>> \/ Top.item # NoItem

(* Every address in use has exactly one owner among the locals of the active *)
(* functions and the value on its way to a caller: no failure of malloc,     *)
(* realloc, the lexer or a nested class frees a part of the class twice,     *)
(* forgets one, or leaves it to a caller that does not know of it.  No array *)
(* holds more than it has room for or is cut to nothing.                     *)
HeapHasOneOwner ==
  LET Holds(f) == f.mem \cup Owned(f.parts) \cup f.item.owns
      held == [i \in DOMAIN stack |-> Holds(stack[i])] \o <<control.value.owns>>
      all == DOMAIN held
  IN  control.op # "undefined" =>
        /\ NoEmptyArray
        /\ \A i \in DOMAIN stack : Len(stack[i].parts) <= stack[i].cap
        /\ heap = UNION {held[i] : i \in all}
        /\ \A i, j \in all : i # j => held[i] \cap held[j] = {}
        /\ \A i \in DOMAIN stack : \A j, k \in DOMAIN stack[i].parts :
             j # k => stack[i].parts[j].owns \cap stack[i].parts[k].owns = {}

(* The hyphens the lexer takes for range hyphens always follow an item, and  *)
(* what follows them is an item, unless a newline is escaped: the internal   *)
(* errors of the three functions are not returned.                           *)
HasContinuation == \E i \in DOMAIN pattern : pattern[i] = "CONTINUE"

NoInternalError ==
  /\ ~HasContinuation => control.code # "PARSER_BUG"
  /\ AtToken /\ tok.kind = "CHAR_CLASS_RANGE_HYPHEN" => Top.item # NoItem

(* error.c lists the error among "Internal errors:", of the parser itself.   *)
InternalErrorUnreachable == control.code # "PARSER_BUG"

(* The symbols of an empty class: brackets, perhaps a ^, and continuations.  *)
IsEmptyClass(lo, hi) ==
  /\ pattern[lo + 1] = "[" /\ pattern[hi] = "]"
  /\ \E n \in lo + 1 .. hi - 1 : \A i \in lo + 2 .. hi - 1 :
       pattern[i] = IF i = n THEN "^" ELSE "CONTINUE"

PointsAtCause(code, lo, hi) ==
  /\ 0 <= lo /\ lo <= hi /\ hi <= Len(pattern)
  /\ code = "CHAR_CLASS_RANGE_OUT_OF_ORDER" => Code(pattern[lo + 1]) > Code(pattern[hi])
  /\ code = "INVALID_CHAR_CLASS_RANGE" => pattern[hi] \in {"TYPE", "POSIX", "]"}
  /\ code = "INVALID_CODE_POINT" => ~IsEncodable(Code(pattern[hi]))
  /\ code = "INVALID_BYTE_SEQUENCE" => lo < Len(pattern) /\ pattern[lo + 1] = "BYTES"
  /\ code = "EMPTY_CHAR_CLASS" => IsEmptyClass(lo, hi)
  /\ code \in {"UNTERMINATED_CHAR_CLASS", "UNCLOSED_UNICODE_ESCAPE_BRACE"} => lo = Len(pattern)

(* A class that fails for what the pattern says is located inside the        *)
(* pattern, at what is wrong: a range out of order from its greater bound to *)
(* its lesser one, an invalid range at the item that cannot be a bound, an   *)
(* empty class from bracket to bracket, though the error is only found out   *)
(* when later tokens have been lexed, and passes through every caller.       *)
ErrorsPointAtCause ==
  stack = <<>> /\ control.op = "error"
      /\ control.code \notin {OutOfMemory, "PARSER_BUG"} =>
    \E e \in error_span : PointsAtCause(control.code, e.lo, e.hi)

Returned == stack = <<>> /\ control.op \in {"ok", "error"}

(* Every class is parsed or rejected: no symbol is lexed forever.            *)
ParseTerminates == <>(Returned \/ control.op = "undefined")
=============================================================================
