------------------------------- MODULE Parser -------------------------------
(***************************************************************************)
(* The recursive-descent parser of src/parse.c: nk_parser_parse and the    *)
(* functions parse_alt, parse_concat, parse_quantifier, parse_atom and     *)
(* parse_group_alt_body, run as a machine with an explicit call stack.     *)
(*                                                                         *)
(* The pattern is not fixed in advance: the lexer returns any token of     *)
(* a vocabulary, or an error, each time it is called.  Memory is a set of  *)
(* addresses; every malloc may fail.  A bracketed class is one token here: *)
(* its own parser, CharClassParser.tla, is abstracted to its result.       *)
(***************************************************************************)
EXTENDS Naturals, Sequences, Stacks

CONSTANTS
  Vocabularies,    \* bound: sets of kinds of token, other than END; the tokens
                   \* of a pattern are of one of them
  OptionSets,      \* values of the options i, m, x, v, a, d, u, S, F, T, A
  InitialOptions,  \* the options the parser is initialised with
  MaxParseDepth,   \* max_parse_depth_limit
  MaxCaptureNum,   \* max_capture_num_limit
  Addresses,       \* addresses malloc can return
  MaxTokens,       \* bound: tokens in a pattern
  MaxCalls         \* bound: calls of nk_parser_parse on one parser

LeafKinds == {"CODE", "LITERAL", "DOT", "ASSERTION", "CHAR_TYPE", "CHAR_PROP",
              "GRAPHEME_CLUSTER", "KEEP", "NEWLINE"}
RefKinds == {"BACK_REF", "CALL"}
OptionKinds == {"OPTION_GROUP_OPEN", "OPTION"}
GroupKinds == {"GROUP_OPEN", "NAMED_GROUP_OPEN", "LOOKAROUND_OPEN", "ATOMIC_OPEN",
               "ABSENCE_OPEN", "OPTION_GROUP_OPEN"}
NamedKinds == RefKinds \cup {"NAMED_GROUP_OPEN", "CONDITIONAL_OPEN"}
AllKinds == LeafKinds \cup RefKinds \cup OptionKinds \cup GroupKinds
              \cup {"CONDITIONAL_OPEN", "CHAR_CLASS_OPEN", "QUANTIFIER", "ALT",
                    "GROUP_CLOSE"}
Terminators == {"ALT", "GROUP_CLOSE", "END"}
FunctionNames == {"alt", "concat", "quantifier", "atom", "body"}

ASSUME ParserAssumption ==
  /\ Vocabularies \subseteq SUBSET AllKinds
  /\ InitialOptions \in OptionSets
  /\ MaxParseDepth \in Nat
  /\ MaxCaptureNum \in Nat
  /\ MaxTokens \in Nat
  /\ MaxCalls \in Nat

VARIABLES
  \* fields of nk_parser_t
  options,                \* is_extended_mode .. fold_flags
  in_unicode_escape_brace,
  num_capture_groups,
  has_named_captures,
  parse_depth,
  error_set,              \* error_bytes # NULL
  \* the call in progress
  tok,                    \* the token nk_parser_parse's functions share
  stack,                  \* activation records, the running one last
  control,                \* what happens next: a call, a lex, a return
  heap,                   \* addresses in use
  result,                 \* what the last call of nk_parser_parse returned
  \* the environment and what it observes
  input,                  \* kinds of the tokens lexed from the pattern so far
  length,                 \* number of tokens the pattern has
  start,                  \* Len(input) when the current call began
  calls,                  \* calls of nk_parser_parse made
  leaked                  \* addresses no one can free any more

parserVars == <<in_unicode_escape_brace, num_capture_groups, has_named_captures>>
callVars == <<start, calls, length, leaked, result>>
vars == <<options, parserVars, parse_depth, error_set, tok, stack, control, heap,
          result, input, length, start, calls, leaked>>

-----------------------------------------------------------------------------
(* Tokens, nodes and activation records.                                   *)

(* lo and hi are the span, in tokens; name holds the address of an owned    *)
(* name_buf, opts the options an option token carries.                      *)
Token(kind, lo, hi, name, opts) ==
  [kind |-> kind, lo |-> lo, hi |-> hi, name |-> name, opts |-> opts]

NoToken == Token("NONE", 0, 0, {}, InitialOptions)

KidsOwn(kids) == UNION {kids[i].owns : i \in DOMAIN kids}

(* base are the addresses of the node itself and of its children array, buf *)
(* that of its owned buffer; owns is everything nk_node_free releases.      *)
Node(type, lo, hi, kids, base, buf, num, opts, text) ==
  [type |-> type, lo |-> lo, hi |-> hi, kids |-> kids, buf |-> buf, num |-> num,
   opts |-> opts, text |-> text, owns |-> base \cup buf \cup KidsOwn(kids)]

NoNode == [type |-> "NONE"]

Control(op, fn, node, code) == [op |-> op, fn |-> fn, node |-> node, code |-> code]
Call(fn) == Control("call", fn, NoNode, "SUCCESS")
CallLex == Control("lex", "lex", NoNode, "SUCCESS")
Lexed == Control("lexed", "lex", NoNode, "SUCCESS")
Run == Control("run", "", NoNode, "SUCCESS")
Ok(node) == Control("ok", "", node, "SUCCESS")
Error(code) == Control("error", "", NoNode, code)
Idle(code) == Control("idle", "", NoNode, code)

(* mem are the addresses the function's locals own besides kids: a children *)
(* array or a name; saved the options when the function was entered.        *)
Frame(fn) ==
  [fn |-> fn, pc |-> "start", kids |-> <<>>, mem |-> {}, cap |-> 0, num |-> 0,
   open |-> NoToken, lo |-> tok.lo, saved |-> options]

Top == stack[Len(stack)]
Kid == Top.kids[Len(Top.kids)]

At(op, fn, pc) ==
  stack # <<>> /\ control.op = op /\ Top.fn = fn /\ Top.pc = pc

(* The addresses the next two mallocs return, when they do not fail.         *)
Fresh == CHOOSE a \in Addresses : a \notin heap
Second == CHOOSE a \in Addresses : a \notin heap \cup {Fresh}
CanAllocate == \E a \in Addresses : a \notin heap
CanAllocateTwo == \E a, b \in Addresses \ heap : a # b

(* The running function goes on with record f and control c.                *)
Continue(f, c) ==
  /\ stack' = [stack EXCEPT ![Len(stack)] = f]
  /\ control' = c
  /\ UNCHANGED parse_depth

(* leave_parse_depth: the running function returns to its caller.           *)
Return(c) ==
  /\ stack' = SubSeq(stack, 1, Len(stack) - 1)
  /\ control' = c
  /\ parse_depth' = parse_depth - 1

OutOfMemory == Error("MEMORY_ALLOCATION_FAILED")

-----------------------------------------------------------------------------
(* nk_parser_parse.                                                         *)

Init ==
  /\ options = InitialOptions
  /\ in_unicode_escape_brace = FALSE
  /\ num_capture_groups = 0
  /\ has_named_captures = FALSE
  /\ parse_depth = 0
  /\ error_set = FALSE
  /\ tok = NoToken
  /\ stack = <<>>
  /\ control = Idle("SUCCESS")
  /\ heap = {}
  /\ result = NoNode
  /\ input = <<>>
  /\ length \in 0 .. MaxTokens
  /\ start = 0
  /\ calls = 0
  /\ leaked = {}

StartParse ==
  /\ control.op = "idle" /\ calls < MaxCalls /\ result = NoNode
  /\ calls' = calls + 1
  /\ start' = Len(input)
  /\ control' = CallLex
  /\ UNCHANGED <<options, parserVars, parse_depth, error_set, tok, stack, heap,
                 result, input, length, leaked>>

ParseFirstToken ==
  /\ stack = <<>> /\ control.op = "lexed"
  /\ control' = Call("alt")
  /\ UNCHANGED <<options, parserVars, parse_depth, error_set, tok, stack, heap,
                 input, callVars>>

(* The end of nk_parser_parse: tok goes out of scope, with any name it still *)
(* owns.                                                                     *)
Finish(code, node, freed) ==
  /\ control' = Idle(code)
  /\ result' = node
  /\ heap' = heap \ freed
  /\ tok' = NoToken
  /\ leaked' = leaked \cup tok.name
  /\ UNCHANGED <<options, parserVars, parse_depth, stack, input, length, start, calls>>

ParseSucceeds ==
  /\ stack = <<>> /\ control.op = "ok"
  /\ ~in_unicode_escape_brace /\ tok.kind = "END"
  /\ Finish("SUCCESS", control.node, {})
  /\ UNCHANGED error_set

ParseRejectsRest ==
  /\ stack = <<>> /\ control.op = "ok"
  /\ in_unicode_escape_brace \/ tok.kind # "END"
  /\ Finish(CASE in_unicode_escape_brace -> "UNCLOSED_UNICODE_ESCAPE_BRACE"
              [] ~in_unicode_escape_brace /\ tok.kind = "GROUP_CLOSE" -> "UNMATCHED_CLOSE_PARENTHESIS"
              [] OTHER -> "PARSER_BUG", NoNode, control.node.owns)
  /\ error_set' = (error_set \/ tok.kind = "GROUP_CLOSE")

(* An error of parse_alt is located at tok unless it has a location.         *)
ParseFails ==
  /\ stack = <<>> /\ control.op = "error"
  /\ Finish(control.code, NoNode, {})
  /\ error_set' = TRUE

(* The caller releases the tree with nk_node_free.                           *)
ReleaseResult ==
  /\ control.op = "idle" /\ result # NoNode
  /\ heap' = heap \ result.owns
  /\ result' = NoNode
  /\ UNCHANGED <<options, parserVars, parse_depth, error_set, tok, stack, control,
                 input, length, start, calls, leaked>>

-----------------------------------------------------------------------------
(* lex.                                                                      *)

LexVars == <<options, num_capture_groups, has_named_captures, parse_depth, stack,
             callVars>>

ReturnToken(kind, name, opts) ==
  /\ tok' = Token(kind, Len(input), IF kind = "END" THEN Len(input) ELSE Len(input) + 1,
                  name, opts)
  /\ input' = IF kind = "END" THEN input ELSE Append(input, kind)
  /\ heap' = heap \cup name
  /\ control' = Lexed
  /\ UNCHANGED <<error_set, LexVars>>

MayFollow(kind) ==
  \E V \in Vocabularies :
    kind \in V /\ \A i \in DOMAIN input : input[i] \in V \cup {"BAD"}

(* A name that contains an escape is copied to an owned buffer.              *)
LexToken ==
  /\ control.op = "lex" /\ ~in_unicode_escape_brace /\ Len(input) < length
  /\ \E kind \in UNION Vocabularies :
       /\ MayFollow(kind)
       /\ in_unicode_escape_brace' \in (IF kind = "CODE" THEN BOOLEAN ELSE {FALSE})
       /\ \E opts \in (IF kind \in OptionKinds THEN OptionSets ELSE {InitialOptions}) :
            \/ ReturnToken(kind, {}, opts)
            \/ /\ kind \in NamedKinds /\ CanAllocate
               /\ ReturnToken(kind, {Fresh}, opts)

LexEnd ==
  /\ control.op = "lex" /\ ~in_unicode_escape_brace /\ Len(input) = length
  /\ ReturnToken("END", {}, InitialOptions)
  /\ UNCHANGED in_unicode_escape_brace

(* Inside \u{...} every token is the next code point of the list.            *)
LexInBrace ==
  /\ control.op = "lex" /\ in_unicode_escape_brace /\ Len(input) < length
  /\ in_unicode_escape_brace' \in BOOLEAN
  /\ ReturnToken("CODE", {}, InitialOptions)

(* A malformed token, a limit, an unclosed brace at the end, or no memory.   *)
LexError ==
  /\ control.op = "lex"
  /\ Len(input) < length \/ in_unicode_escape_brace
  /\ input' \in {input} \cup (IF Len(input) < length THEN {Append(input, "BAD")} ELSE {})
  /\ tok' = NoToken
  /\ control' = Error("LEX_ERROR")
  /\ error_set' = TRUE
  /\ UNCHANGED <<heap, in_unicode_escape_brace, LexVars>>

-----------------------------------------------------------------------------
(* enter_parse_depth.                                                        *)

EnterFunction ==
  /\ control.op = "call" /\ parse_depth + 1 <= MaxParseDepth
  /\ parse_depth' = parse_depth + 1
  /\ stack' = Append(stack, Frame(control.fn))
  /\ control' = Run
  /\ UNCHANGED <<options, parserVars, error_set, tok, heap, input, callVars>>

(* Variant: the depth is not taken back.                                     *)
RejectDepthKeepingIt ==
  /\ control.op = "call" /\ parse_depth + 1 > MaxParseDepth
  /\ control' = Error("PARSE_DEPTH_LIMIT_EXCEEDED")
  /\ error_set' = TRUE
  /\ parse_depth' = parse_depth + 1
  /\ UNCHANGED <<options, parserVars, stack, tok, heap, input, callVars>>

RejectDepth ==
  /\ control.op = "call" /\ parse_depth + 1 > MaxParseDepth
  /\ control' = Error("PARSE_DEPTH_LIMIT_EXCEEDED")
  /\ error_set' = TRUE
  /\ UNCHANGED <<options, parserVars, parse_depth, stack, tok, heap, input, callVars>>

-----------------------------------------------------------------------------
(* parse_alt_impl.                                                           *)

LocalVars == <<options, parserVars, error_set, tok, input, callVars>>

AltStart ==
  /\ At("run", "alt", "start")
  /\ Continue([Top EXCEPT !.pc = "first"], Call("concat"))
  /\ UNCHANGED <<heap, LocalVars>>

AltFirst ==
  /\ At("ok", "alt", "first")
  /\ LET child == control.node IN
       \/ /\ tok.kind # "ALT"
          /\ Return(Ok(child))
          /\ UNCHANGED heap
       \/ /\ tok.kind = "ALT" /\ CanAllocate
          /\ heap' = heap \cup {Fresh}
          /\ Continue([Top EXCEPT !.pc = "bar", !.kids = <<child>>, !.mem = {Fresh},
                                  !.cap = 2], CallLex)
       \/ /\ tok.kind = "ALT"
          /\ heap' = heap \ child.owns
          /\ Return(OutOfMemory)
  /\ UNCHANGED LocalVars

AltGrow ==
  /\ At("lexed", "alt", "bar")
  /\ \/ /\ Len(Top.kids) < Top.cap
        /\ Continue([Top EXCEPT !.pc = "next"], Call("concat"))
        /\ UNCHANGED heap
     \/ /\ Len(Top.kids) >= Top.cap
        /\ Continue([Top EXCEPT !.pc = "next", !.cap = 2 * @], Call("concat"))
        /\ UNCHANGED heap
     \/ /\ Len(Top.kids) >= Top.cap
        /\ heap' = heap \ (KidsOwn(Top.kids) \cup Top.mem)
        /\ Return(OutOfMemory)
  /\ UNCHANGED LocalVars

AltNext ==
  /\ At("ok", "alt", "next")
  /\ LET kids == Append(Top.kids, control.node) IN
       \/ /\ tok.kind = "ALT"
          /\ Continue([Top EXCEPT !.pc = "bar", !.kids = kids], CallLex)
          /\ UNCHANGED heap
       \/ /\ tok.kind # "ALT" /\ CanAllocate
          /\ heap' = heap \cup {Fresh}
          /\ Return(Ok(Node("ALT", kids[1].lo, control.node.hi, kids,
                            Top.mem \cup {Fresh}, {}, 0, options, <<>>)))
       \/ /\ tok.kind # "ALT"
          /\ heap' = heap \ (KidsOwn(kids) \cup Top.mem)
          /\ Return(OutOfMemory)
  /\ UNCHANGED LocalVars

AltFails ==
  /\ stack # <<>> /\ control.op = "error" /\ Top.fn = "alt"
  /\ \/ Top.pc = "first" /\ UNCHANGED heap
     \/ /\ Top.pc \in {"bar", "next"}
        /\ heap' = heap \ (KidsOwn(Top.kids) \cup Top.mem)
  /\ Return(control)
  /\ UNCHANGED LocalVars

-----------------------------------------------------------------------------
(* parse_concat_impl.                                                        *)

ConcatEmpty ==
  /\ At("run", "concat", "start") /\ tok.kind \in Terminators
  /\ \/ /\ CanAllocate
        /\ heap' = heap \cup {Fresh}
        /\ Return(Ok(Node("CONCAT", tok.lo, tok.lo, <<>>, {Fresh}, {}, 0, options, <<>>)))
     \/ /\ Return(OutOfMemory)
        /\ UNCHANGED heap
  /\ UNCHANGED LocalVars

ConcatStart ==
  /\ At("run", "concat", "start") /\ tok.kind \notin Terminators
  /\ Continue([Top EXCEPT !.pc = "first"], Call("quantifier"))
  /\ UNCHANGED <<heap, LocalVars>>

ConcatFirst ==
  /\ At("ok", "concat", "first")
  /\ LET child == control.node IN
       \/ /\ tok.kind \in Terminators
          /\ Return(Ok(child))
          /\ UNCHANGED heap
       \/ /\ tok.kind \notin Terminators /\ CanAllocate
          /\ heap' = heap \cup {Fresh}
          /\ Continue([Top EXCEPT !.pc = "next", !.kids = <<child>>, !.mem = {Fresh},
                                  !.cap = 2], Call("quantifier"))
       \/ /\ tok.kind \notin Terminators
          /\ heap' = heap \ child.owns
          /\ Return(OutOfMemory)
  /\ UNCHANGED LocalVars

(* The second of two literals in a row is appended to the first with        *)
(* pbuf_append, which may need a new buffer, and is freed.                   *)
IsLiteralPair(node) == Kid.type = "LITERAL" /\ node.type = "LITERAL"

(* Variant: the span of the appended literal is lost.                        *)
MergedWithoutSpan(left, right, buf) ==
  [left EXCEPT !.text = @ \o right.text, !.buf = buf, !.owns = (@ \ left.buf) \cup buf]

Merged(left, right, buf) ==
  [left EXCEPT !.hi = right.hi, !.text = @ \o right.text, !.buf = buf,
               !.owns = (@ \ left.buf) \cup buf]

ConcatAppend ==
  /\ At("ok", "concat", "next")
  /\ LET node == control.node
         keep(kids) == Continue([Top EXCEPT !.pc = "grow", !.kids = kids], Run)
         merge(buf) == keep([Top.kids EXCEPT ![Len(Top.kids)] = Merged(@, node, buf)])
     IN  \/ /\ ~IsLiteralPair(node)
            /\ keep(Append(Top.kids, node))
            /\ UNCHANGED heap
         \/ /\ IsLiteralPair(node)
            /\ \/ Kid.buf = {} /\ node.buf = {}    \* two contiguous views
               \/ Kid.buf # {}                     \* an owned buffer with room
            /\ merge(Kid.buf)
            /\ heap' = heap \ node.owns
         \/ /\ IsLiteralPair(node) /\ CanAllocate
            /\ merge({Fresh})
            /\ heap' = (heap \ (Kid.buf \cup node.owns)) \cup {Fresh}
         \/ /\ IsLiteralPair(node)
            /\ Return(OutOfMemory)
            /\ heap' = heap \ (KidsOwn(Top.kids) \cup node.owns \cup Top.mem)
  /\ UNCHANGED LocalVars

(* Variant: the test of the loop misses one of the terminators.              *)
ConcatGrowPastClose ==
  /\ At("run", "concat", "grow") /\ tok.kind \notin {"ALT", "END"}
  /\ Continue([Top EXCEPT !.pc = "next"], Call("quantifier"))
  /\ UNCHANGED <<heap, LocalVars>>

(* The end of the loop's body and the test at its beginning.                 *)
ConcatGrow ==
  /\ At("run", "concat", "grow") /\ tok.kind \notin Terminators
  /\ \/ /\ Len(Top.kids) < Top.cap
        /\ Continue([Top EXCEPT !.pc = "next"], Call("quantifier"))
        /\ UNCHANGED heap
     \/ /\ Len(Top.kids) >= Top.cap
        /\ Continue([Top EXCEPT !.pc = "next", !.cap = 2 * @], Call("quantifier"))
        /\ UNCHANGED heap
     \/ /\ Len(Top.kids) >= Top.cap
        /\ heap' = heap \ (KidsOwn(Top.kids) \cup Top.mem)
        /\ Return(OutOfMemory)
  /\ UNCHANGED LocalVars

ConcatEnd ==
  /\ At("run", "concat", "grow") /\ tok.kind \in Terminators
  /\ LET kids == Top.kids IN
       \/ /\ Len(kids) = 1
          /\ heap' = heap \ Top.mem
          /\ Return(Ok(kids[1]))
       \/ /\ Len(kids) > 1 /\ CanAllocate
          /\ heap' = heap \cup {Fresh}
          /\ Return(Ok(Node("CONCAT", kids[1].lo, Kid.hi, kids, Top.mem \cup {Fresh},
                            {}, 0, options, <<>>)))
       \/ /\ Len(kids) > 1
          /\ heap' = heap \ (KidsOwn(kids) \cup Top.mem)
          /\ Return(OutOfMemory)
  /\ UNCHANGED LocalVars

ConcatFails ==
  /\ stack # <<>> /\ control.op = "error" /\ Top.fn = "concat"
  /\ \/ Top.pc = "first" /\ UNCHANGED heap
     \/ /\ Top.pc = "next"
        /\ heap' = heap \ (KidsOwn(Top.kids) \cup Top.mem)
  /\ Return(control)
  /\ UNCHANGED LocalVars

-----------------------------------------------------------------------------
(* parse_quantifier_impl.                                                    *)

QuantifierStart ==
  /\ At("run", "quantifier", "start")
  /\ Continue([Top EXCEPT !.pc = "atom"], Call("atom"))
  /\ UNCHANGED <<heap, LocalVars>>

QuantifierAtom ==
  /\ At("ok", "quantifier", "atom")
  /\ Continue([Top EXCEPT !.pc = "loop", !.kids = <<control.node>>], Run)
  /\ UNCHANGED <<heap, LocalVars>>

QuantifierWrap ==
  /\ At("run", "quantifier", "loop") /\ tok.kind = "QUANTIFIER"
  /\ \/ /\ CanAllocate
        /\ heap' = heap \cup {Fresh}
        /\ Continue([Top EXCEPT !.pc = "wrapped",
                       !.kids = <<Node("QUANTIFIER", Kid.lo, tok.hi, <<Kid>>, {Fresh}, {},
                                       0, options, <<>>)>>], CallLex)
     \/ /\ heap' = heap \ Kid.owns
        /\ Return(OutOfMemory)
  /\ UNCHANGED LocalVars

QuantifierNext ==
  /\ At("lexed", "quantifier", "wrapped")
  /\ Continue([Top EXCEPT !.pc = "loop"], Run)
  /\ UNCHANGED <<heap, LocalVars>>

QuantifierEnd ==
  /\ At("run", "quantifier", "loop") /\ tok.kind # "QUANTIFIER"
  /\ Return(Ok(Kid))
  /\ UNCHANGED <<heap, LocalVars>>

QuantifierFails ==
  /\ stack # <<>> /\ control.op = "error" /\ Top.fn = "quantifier"
  /\ \/ Top.pc = "atom" /\ UNCHANGED heap
     \/ Top.pc = "wrapped" /\ heap' = heap \ Kid.owns
  /\ Return(control)
  /\ UNCHANGED LocalVars

-----------------------------------------------------------------------------
(* parse_group_alt_body_impl.                                                *)

BodyStart ==
  /\ At("run", "body", "start")
  /\ Continue([Top EXCEPT !.pc = "lex"], CallLex)
  /\ UNCHANGED <<heap, LocalVars>>

BodyLexed ==
  /\ At("lexed", "body", "lex")
  /\ Continue([Top EXCEPT !.pc = "alt"], Call("alt"))
  /\ UNCHANGED <<heap, LocalVars>>

(* Variant: the body is parsed again until a ) comes.                        *)
BodyEndWaiting ==
  /\ At("ok", "body", "alt")
  /\ \/ /\ tok.kind = "GROUP_CLOSE"
        /\ Return(control)
        /\ UNCHANGED heap
     \/ /\ tok.kind # "GROUP_CLOSE"
        /\ heap' = heap \ control.node.owns
        /\ Continue([Top EXCEPT !.pc = "lex"], CallLex)
  /\ UNCHANGED LocalVars

BodyEnd ==
  /\ At("ok", "body", "alt")
  /\ \/ /\ tok.kind = "GROUP_CLOSE"
        /\ Return(control)
        /\ UNCHANGED heap
     \/ /\ tok.kind # "GROUP_CLOSE"
        /\ heap' = heap \ control.node.owns
        /\ Return(Error("UNTERMINATED_GROUP"))
  /\ UNCHANGED LocalVars

BodyFails ==
  /\ stack # <<>> /\ control.op = "error" /\ Top.fn = "body"
  /\ Return(control)
  /\ UNCHANGED <<heap, LocalVars>>

-----------------------------------------------------------------------------
(* parse_atom_impl: the atoms without a body.                                *)

AtomVars == <<options, parserVars, input, callVars>>

(* A finished node waits in kids for the token after it to be lexed.         *)
KeepAtom(node) == Continue([Top EXCEPT !.pc = "exit", !.kids = <<node>>, !.mem = {}], CallLex)

LeafNode(type, buf) ==
  Node(type, tok.lo, tok.hi, <<>>, {Fresh}, buf, 0, options,
       <<[kind |-> tok.kind, opts |-> options]>>)

AtomLeaf ==
  /\ At("run", "atom", "start") /\ tok.kind \in LeafKinds \ {"CODE"}
  /\ \/ /\ CanAllocate
        /\ heap' = heap \cup {Fresh}
        /\ KeepAtom(LeafNode(tok.kind, {}))
     \/ /\ Return(OutOfMemory)
        /\ UNCHANGED heap
  /\ UNCHANGED <<error_set, tok, AtomVars>>

(* A code point is encoded into an owned buffer; it may not be encodable.    *)
AtomCode ==
  /\ At("run", "atom", "start") /\ tok.kind = "CODE"
  /\ \/ /\ CanAllocateTwo
        /\ heap' = heap \cup {Fresh, Second}
        /\ KeepAtom(LeafNode("LITERAL", {Second}))
        /\ UNCHANGED error_set
     \/ /\ Return(OutOfMemory)
        /\ UNCHANGED <<heap, error_set>>
     \/ /\ CanAllocate
        /\ Return(Error("INVALID_CODE_POINT"))
        /\ error_set' = TRUE
        /\ UNCHANGED heap
  /\ UNCHANGED <<tok, AtomVars>>

(* The node of a named reference takes over the token's name.                *)
AtomReference ==
  /\ At("run", "atom", "start") /\ tok.kind \in RefKinds
  /\ \/ /\ CanAllocate
        /\ heap' = heap \cup {Fresh}
        /\ KeepAtom(LeafNode(tok.kind, tok.name))
        /\ tok' = [tok EXCEPT !.name = {}]
     \/ /\ Return(OutOfMemory)
        /\ UNCHANGED <<heap, tok>>
  /\ UNCHANGED <<error_set, AtomVars>>

(* External here: parse_char_class_intersection returns the unions, or fails *)
(* and has freed everything.                                                 *)
AtomCharClass ==
  /\ At("run", "atom", "start") /\ tok.kind = "CHAR_CLASS_OPEN"
  /\ \/ /\ CanAllocateTwo
        /\ heap' = heap \cup {Fresh, Second}
        /\ KeepAtom(LeafNode("CHAR_CLASS", {Second}))
        /\ UNCHANGED <<error_set, in_unicode_escape_brace>>
     \/ /\ Return(OutOfMemory)
        /\ UNCHANGED <<heap, error_set, in_unicode_escape_brace>>
     \/ /\ Return(Error("CHAR_CLASS_ERROR"))
        /\ in_unicode_escape_brace' \in BOOLEAN
        /\ error_set' = TRUE
        /\ UNCHANGED heap
  /\ UNCHANGED <<tok, options, num_capture_groups, has_named_captures, input, callVars>>

(* Of these parse_concat lets only a quantifier through.                     *)
AtomRejects ==
  /\ At("run", "atom", "start") /\ tok.kind \in {"QUANTIFIER"} \cup Terminators
  /\ Return(Error(CASE tok.kind = "QUANTIFIER" -> "NOTHING_TO_REPEAT"
                    [] tok.kind = "GROUP_CLOSE" -> "UNMATCHED_CLOSE_PARENTHESIS"
                    [] tok.kind = "END" -> "UNEXPECTED_END_OF_PATTERN"
                    [] OTHER -> "PARSER_BUG"))
  /\ UNCHANGED <<heap, LocalVars>>

AtomExit ==
  /\ At("lexed", "atom", "exit")
  /\ Return(Ok(Kid))
  /\ UNCHANGED <<heap, LocalVars>>

-----------------------------------------------------------------------------
(* parse_atom_impl: the groups.                                              *)

OpenFrame(pc, num) == [Top EXCEPT !.pc = pc, !.open = tok, !.num = num, !.mem = tok.name]

GroupOpen ==
  /\ At("run", "atom", "start") /\ tok.kind \in GroupKinds
  /\ LET captures == tok.kind \in {"GROUP_OPEN", "NAMED_GROUP_OPEN"}
         count == IF captures THEN num_capture_groups + 1 ELSE num_capture_groups
         num == IF tok.kind = "GROUP_OPEN" THEN count ELSE 0
     IN  /\ num_capture_groups' = count
         /\ has_named_captures' = (has_named_captures \/ tok.kind = "NAMED_GROUP_OPEN")
         /\ options' = IF tok.kind = "OPTION_GROUP_OPEN" THEN tok.opts ELSE options
         /\ \/ /\ captures /\ count > MaxCaptureNum
               /\ Return(Error("TOO_MANY_CAPTURE_GROUPS"))
               /\ UNCHANGED tok
            \/ /\ ~captures \/ count <= MaxCaptureNum
               /\ Continue(OpenFrame("body", num), Call("body"))
               /\ tok' = [tok EXCEPT !.name = {}]
  /\ UNCHANGED <<in_unicode_escape_brace, error_set, heap, input, callVars>>

GroupType(kind) ==
  CASE kind \in {"GROUP_OPEN", "NAMED_GROUP_OPEN"} -> "CAPTURE"
    [] kind = "LOOKAROUND_OPEN" -> "ASSERTION"
    [] kind = "ATOMIC_OPEN" -> "ATOMIC"
    [] kind = "ABSENCE_OPEN" -> "ABSENCE"
    [] kind \in OptionKinds -> "GROUP"
    [] OTHER -> "CONDITIONAL"

(* Variant: a capture takes its number when it closes.                       *)
GroupNodeNumberedLate(kids, hi) ==
  Node(GroupType(Top.open.kind), Top.lo, hi, kids, {Fresh}, Top.mem,
       IF Top.num = 0 THEN 0 ELSE num_capture_groups,
       Top.open.opts, <<[kind |-> Top.open.kind, opts |-> Top.saved]>>)

GroupNode(kids, hi) ==
  Node(GroupType(Top.open.kind), Top.lo, hi, kids, {Fresh}, Top.mem, Top.num,
       Top.open.opts, <<[kind |-> Top.open.kind, opts |-> Top.saved]>>)

Restored == IF Top.open.kind \in OptionKinds THEN Top.saved ELSE options

(* Variant: the options are not restored.                                    *)
GroupEndUnrestored ==
  /\ At("ok", "atom", "body")
  /\ \/ /\ CanAllocate
        /\ heap' = heap \cup {Fresh}
        /\ KeepAtom(GroupNode(<<control.node>>, tok.hi))
     \/ /\ heap' = heap \ (control.node.owns \cup Top.mem)
        /\ Return(OutOfMemory)
  /\ UNCHANGED <<options, parserVars, error_set, tok, input, callVars>>

GroupEnd ==
  /\ At("ok", "atom", "body")
  /\ options' = Restored
  /\ \/ /\ CanAllocate
        /\ heap' = heap \cup {Fresh}
        /\ KeepAtom(GroupNode(<<control.node>>, tok.hi))
     \/ /\ heap' = heap \ (control.node.owns \cup Top.mem)
        /\ Return(OutOfMemory)
  /\ UNCHANGED <<parserVars, error_set, tok, input, callVars>>

(* (?i) applies to the rest of the enclosing body, alternatives included.    *)
OptionOpen ==
  /\ At("run", "atom", "start") /\ tok.kind = "OPTION"
  /\ options' = tok.opts
  /\ Continue(OpenFrame("option_lex", 0), CallLex)
  /\ UNCHANGED <<parserVars, error_set, tok, heap, input, callVars>>

OptionLexed ==
  /\ At("lexed", "atom", "option_lex")
  /\ Continue([Top EXCEPT !.pc = "option_alt"], Call("alt"))
  /\ UNCHANGED <<heap, LocalVars>>

(* The only atom that returns without lexing the token after it.             *)
OptionEnd ==
  /\ At("ok", "atom", "option_alt")
  /\ options' = Top.saved
  /\ \/ /\ CanAllocate
        /\ heap' = heap \cup {Fresh}
        /\ Return(Ok(GroupNode(<<control.node>>, control.node.hi)))
     \/ /\ heap' = heap \ control.node.owns
        /\ Return(OutOfMemory)
  /\ UNCHANGED <<parserVars, error_set, tok, input, callVars>>

-----------------------------------------------------------------------------
(* parse_atom_impl: (?(cond)yes|no).                                         *)

ConditionalOpen ==
  /\ At("run", "atom", "start") /\ tok.kind = "CONDITIONAL_OPEN"
  /\ Continue(OpenFrame("cond_lex", 0), CallLex)
  /\ tok' = [tok EXCEPT !.name = {}]
  /\ UNCHANGED <<heap, error_set, AtomVars>>

ConditionalLexed ==
  /\ \/ /\ At("lexed", "atom", "cond_lex")
        /\ Continue([Top EXCEPT !.pc = "cond_yes"], Call("concat"))
     \/ /\ At("lexed", "atom", "cond_bar")
        /\ Continue([Top EXCEPT !.pc = "cond_no"], Call("concat"))
  /\ UNCHANGED <<heap, LocalVars>>

ConditionalBar ==
  /\ At("ok", "atom", "cond_yes") /\ tok.kind = "ALT"
  /\ Continue([Top EXCEPT !.pc = "cond_bar", !.kids = <<control.node>>], CallLex)
  /\ UNCHANGED <<heap, LocalVars>>

ConditionalEnd ==
  /\ At("ok", "atom", "cond_no") \/ (At("ok", "atom", "cond_yes") /\ tok.kind # "ALT")
  /\ LET kids == Append(Top.kids, control.node) IN
       \/ /\ tok.kind = "GROUP_CLOSE" /\ CanAllocate
          /\ heap' = heap \cup {Fresh}
          /\ KeepAtom(GroupNode(kids, tok.hi))
          /\ UNCHANGED error_set
       \/ /\ tok.kind = "GROUP_CLOSE"
          /\ heap' = heap \ (KidsOwn(kids) \cup Top.mem)
          /\ Return(OutOfMemory)
          /\ UNCHANGED error_set
       \/ /\ tok.kind # "GROUP_CLOSE"
          /\ heap' = heap \ (KidsOwn(kids) \cup Top.mem)
          /\ Return(Error("INVALID_CONDITIONAL_GROUP"))
          /\ error_set' = TRUE
  /\ UNCHANGED <<tok, AtomVars>>

-----------------------------------------------------------------------------
(* parse_atom_impl: an error of a call it made, or of the final lex.         *)

(* Variant: yes_node is forgotten when the other branch fails.               *)
FreedByAtomButYes ==
  CASE Top.pc = "body" -> Top.mem
    [] Top.pc \in {"option_lex", "option_alt"} -> {}
    [] Top.pc \in {"cond_lex", "cond_yes", "cond_bar", "cond_no"} -> Top.mem
    [] OTHER -> KidsOwn(Top.kids)

FreedByAtom ==
  CASE Top.pc = "body" -> Top.mem
    [] Top.pc \in {"option_lex", "option_alt"} -> {}
    [] Top.pc \in {"cond_lex", "cond_yes"} -> Top.mem
    [] Top.pc \in {"cond_bar", "cond_no"} -> KidsOwn(Top.kids) \cup Top.mem
    [] OTHER -> KidsOwn(Top.kids)

(* Variant: an error leaves the options of the group in force.               *)
AtomFailsUnrestored ==
  /\ stack # <<>> /\ control.op = "error" /\ Top.fn = "atom"
  /\ heap' = heap \ FreedByAtom
  /\ Return(control)
  /\ UNCHANGED <<options, parserVars, error_set, tok, input, callVars>>

AtomFails ==
  /\ stack # <<>> /\ control.op = "error" /\ Top.fn = "atom"
  /\ heap' = heap \ FreedByAtom
  /\ options' = IF Top.pc = "exit" THEN options ELSE Restored
  /\ Return(control)
  /\ UNCHANGED <<parserVars, error_set, tok, input, callVars>>

-----------------------------------------------------------------------------
Parse == StartParse \/ ParseFirstToken \/ ParseSucceeds \/ ParseRejectsRest
           \/ ParseFails \/ ReleaseResult
Lex == LexToken \/ LexEnd \/ LexInBrace \/ LexError
Enter == EnterFunction \/ RejectDepth
Alt == AltStart \/ AltFirst \/ AltGrow \/ AltNext \/ AltFails
Concat == ConcatEmpty \/ ConcatStart \/ ConcatFirst \/ ConcatAppend \/ ConcatGrow
            \/ ConcatEnd \/ ConcatFails
Quantifier == QuantifierStart \/ QuantifierAtom \/ QuantifierWrap \/ QuantifierNext
                \/ QuantifierEnd \/ QuantifierFails
Body == BodyStart \/ BodyLexed \/ BodyEnd \/ BodyFails
Atom == AtomLeaf \/ AtomCode \/ AtomReference \/ AtomCharClass \/ AtomRejects
          \/ AtomExit \/ GroupOpen \/ GroupEnd \/ OptionOpen
          \/ OptionLexed \/ OptionEnd \/ ConditionalOpen \/ ConditionalLexed
          \/ ConditionalBar \/ ConditionalEnd \/ AtomFails

Next == Parse \/ Lex \/ Enter \/ Alt \/ Concat \/ Quantifier \/ Body \/ Atom

Spec == Init /\ [][Next]_vars

(* The parser is one thread of a program: it runs on once it is called.     *)
FairSpec == Spec /\ WF_vars(Next)

-----------------------------------------------------------------------------
(* Properties.                                                               *)

Pcs == {"start", "first", "bar", "next", "grow", "atom", "loop", "wrapped", "lex", "alt",
        "body", "option_lex", "option_alt", "cond_lex", "cond_yes", "cond_bar",
        "cond_no", "exit"}

TokenType ==
  [kind : AllKinds \cup {"END", "NONE"}, lo : Nat, hi : Nat, name : SUBSET Addresses,
   opts : OptionSets]

(* The children are trees of any depth.                                     *)
FrameType(f) ==
  f \in [fn : FunctionNames, pc : Pcs, kids : {f.kids}, mem : SUBSET Addresses,
         cap : Nat, num : Nat, open : TokenType, lo : {f.lo}, saved : OptionSets]

(* The variables of the parser have the types of their C declarations.      *)
TypeOK ==
  /\ options \in OptionSets
  /\ in_unicode_escape_brace \in BOOLEAN
  /\ num_capture_groups \in Nat
  /\ has_named_captures \in BOOLEAN
  /\ parse_depth \in Nat
  /\ error_set \in BOOLEAN
  /\ tok \in TokenType
  /\ IsSeq(stack) /\ \A i \in 1 .. Len(stack) : FrameType(stack[i])
  /\ control.op \in {"idle", "call", "lex", "lexed", "run", "ok", "error"}
  /\ control.op = "call" => control.fn \in FunctionNames
  /\ heap \subseteq Addresses
  /\ input \in Seq(AllKinds \cup {"BAD"})

(* parse_depth counts exactly the functions that have been entered and not   *)
(* left, on every path of success and of error, and never passes the limit;  *)
(* so it is back at 0, not at a leftover of an error, whenever no call of    *)
(* nk_parser_parse is in progress.                                           *)
DepthMatchesStack ==
  /\ parse_depth = Len(stack)
  /\ parse_depth <= MaxParseDepth
  /\ control.op = "idle" => stack = <<>>

(* Only an atom opens an option group.                                      *)
FrameShape(f) ==
  f.open.kind \in OptionKinds =>
    f.fn = "atom" /\ f.pc \in {"body", "option_lex", "option_alt", "exit"}

(* A frame's own options are in force for the functions it calls while it is *)
(* between parser_state_apply_option and parser_state_restore.               *)
InForce(f) == IF f.open.kind \in OptionKinds /\ f.pc # "exit" THEN f.open.opts ELSE f.saved

(* The options in force are those of the innermost option group that is      *)
(* open, and every function gives its caller back the options it was called  *)
(* with, whether it succeeds or fails: (?i) never leaks out of its group nor *)
(* into the next call of nk_parser_parse.                                    *)
OptionsScoped ==
  /\ stack = <<>> => options = InitialOptions
  /\ stack # <<>> => options = InForce(Top) /\ stack[1].saved = InitialOptions
  /\ \A i \in 1 .. Len(stack) - 1 : stack[i + 1].saved = InForce(stack[i])

(* What each part of the state is responsible for freeing.                   *)
Holdings ==
  [i \in 1 .. Len(stack) |-> KidsOwn(stack[i].kids) \cup stack[i].mem]
    \o << IF control.op = "ok" THEN control.node.owns ELSE {},
          IF result = NoNode THEN {} ELSE result.owns,
          tok.name, leaked >>

(* Every address in use has exactly one owner: nothing but a leaked name is  *)
(* unreachable, nothing is freed twice, and nothing is used after it was     *)
(* freed, whichever malloc, lex or nested function fails.                    *)
HeapHasOneOwner ==
  LET held == Holdings IN
    /\ heap = UNION {held[i] : i \in DOMAIN held}
    /\ \A i, j \in DOMAIN held : i # j => held[i] \cap held[j] = {}

(* parse_quantifier and parse_atom are never called at |, ) or the end, and  *)
(* a finished alternation stops at ) or the end: the internal errors of      *)
(* parse_atom_impl and nk_parser_parse cannot be returned.                   *)
NoInternalError ==
  /\ control.op = "call" /\ control.fn \in {"quantifier", "atom"} => tok.kind \notin Terminators
  /\ control.op = "ok" /\ stack = <<>> => ~in_unicode_escape_brace
  /\ control.code \notin {"PARSER_BUG", "UNEXPECTED_END_OF_PATTERN",
                           "UNCLOSED_UNICODE_ESCAPE_BRACE"}

(* Every call of nk_parser_parse returns.                                    *)
ParseTerminates == control.op # "idle" ~> control.op = "idle"

(* naraku_syntax.h says of an owned buffer that it "needs to be freed".       *)
NothingLeaks == leaked = {}
=============================================================================
