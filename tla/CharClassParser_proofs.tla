------------------------ MODULE CharClassParser_proofs ------------------------
(***************************************************************************)
(* Theorems about CharClassParser, for every class of any length, every    *)
(* limit and every memory.                                                 *)
(***************************************************************************)
EXTENDS CharClassParser, SequenceTheorems, TLAPS

-----------------------------------------------------------------------------
(* What pushing, popping and replacing the running frame do to the stack of  *)
(* activation records.                                                       *)

LEMMA SeqIsSeq ==
  ASSUME NEW S, NEW s \in Seq(S)
  PROVE  IsSeq(s)
BY SeqOfRange DEF IsSeq, Range

LEMMA StackLen ==
  ASSUME NEW s, IsSeq(s)
  PROVE  Len(s) \in Nat /\ DOMAIN s = 1 .. Len(s) /\ (s # <<>> => Len(s) >= 1)
<1>1. s \in Seq({s[i] : i \in DOMAIN s})
  BY DEF IsSeq
<1> QED BY <1>1, LenProperties, EmptySeq

(* EnterFunction: the new frame is the last, the others stay.               *)
LEMMA StackPush ==
  ASSUME NEW s, IsSeq(s), NEW f
  PROVE  /\ IsSeq(Append(s, f))
         /\ Append(s, f) # <<>>
         /\ Len(Append(s, f)) = Len(s) + 1
         /\ Append(s, f)[Len(s) + 1] = f
         /\ \A i \in 1 .. Len(s) : Append(s, f)[i] = s[i]
<1> DEFINE S == {s[i] : i \in DOMAIN s} \cup {f}
<1>1. s \in Seq(S) /\ f \in S
  BY SeqMonotonic DEF IsSeq
<1> HIDE DEF S
<1>2. Append(s, f) \in Seq(S)
  BY <1>1, AppendProperties
<1>3. IsSeq(Append(s, f))
  BY <1>2, SeqIsSeq
<1>4. /\ Append(s, f) # <<>>
      /\ Len(Append(s, f)) = Len(s) + 1
      /\ Append(s, f)[Len(s) + 1] = f
      /\ \A i \in 1 .. Len(s) : Append(s, f)[i] = s[i]
  BY <1>1, AppendProperties
<1> QED BY <1>3, <1>4

(* Return: the frames below the running one stay.                           *)
LEMMA StackPop ==
  ASSUME NEW s, IsSeq(s), s # <<>>
  PROVE  /\ IsSeq(SubSeq(s, 1, Len(s) - 1))
         /\ Len(SubSeq(s, 1, Len(s) - 1)) = Len(s) - 1
         /\ \A i \in 1 .. Len(s) - 1 : SubSeq(s, 1, Len(s) - 1)[i] = s[i]
<1> DEFINE S == {s[i] : i \in DOMAIN s}
           n == Len(s) - 1
<1>1. s \in Seq(S)
  BY DEF IsSeq
<1> HIDE DEF S
<1>2. n \in Nat /\ \A i \in 1 .. n : s[i] \in S
  BY <1>1, StackLen, ElementOfSeq
<1> HIDE DEF n
<1>3. /\ SubSeq(s, 1, n) \in Seq(S)
      /\ Len(SubSeq(s, 1, n)) = IF 1 <= n THEN n - 1 + 1 ELSE 0
      /\ \A i \in 1 .. n - 1 + 1 : SubSeq(s, 1, n)[i] = s[1 + i - 1]
  BY <1>2, SubSeqProperties
<1>4. IsSeq(SubSeq(s, 1, n))
  BY <1>3, SeqIsSeq
<1>5. Len(SubSeq(s, 1, n)) = n
  BY <1>2, <1>3
<1>6. \A i \in 1 .. n : SubSeq(s, 1, n)[i] = s[i]
  BY <1>2, <1>3
<1> QED BY <1>4, <1>5, <1>6 DEF n

(* Continue: the other frames stay.                                         *)
LEMMA StackReplace ==
  ASSUME NEW s, IsSeq(s), s # <<>>, NEW f
  PROVE  /\ IsSeq([s EXCEPT ![Len(s)] = f])
         /\ [s EXCEPT ![Len(s)] = f] # <<>>
         /\ Len([s EXCEPT ![Len(s)] = f]) = Len(s)
         /\ [s EXCEPT ![Len(s)] = f][Len(s)] = f
         /\ \A i \in 1 .. Len(s) - 1 : [s EXCEPT ![Len(s)] = f][i] = s[i]
<1> DEFINE S == {s[i] : i \in DOMAIN s} \cup {f}
           t == [s EXCEPT ![Len(s)] = f]
<1>1. s \in Seq(S) /\ f \in S
  BY SeqMonotonic DEF IsSeq
<1> HIDE DEF S
<1>2. Len(s) \in Nat /\ Len(s) \in 1 .. Len(s)
  BY StackLen
<1>3. /\ t \in Seq(S)
      /\ Len(t) = Len(s)
      /\ \A j \in 1 .. Len(s) : t[j] = IF j = Len(s) THEN f ELSE s[j]
  BY <1>1, <1>2, ExceptSeq
<1> HIDE DEF t
<1>4. IsSeq(t)
  BY <1>3, SeqIsSeq
<1>5. t # <<>>
  BY <1>2, <1>3, EmptySeq
<1>6. t[Len(s)] = f /\ \A i \in 1 .. Len(s) - 1 : t[i] = s[i]
  BY <1>2, <1>3
<1> QED BY <1>3, <1>4, <1>5, <1>6 DEF t

-----------------------------------------------------------------------------
(* The inductive invariant.                                                  *)

FrameOK(f) ==
  /\ FrameType(f)
  /\ f.fn = "union" =>
       IF f.pc \in {"start", "items"} THEN f.parts = <<>> ELSE f.cap >= 1

FramesOK ==
  /\ IsSeq(stack)
  /\ \A i \in 1 .. Len(stack) : FrameOK(stack[i])

StackInv == FramesOK /\ DepthMatchesStack

(* The lexer takes a hyphen for a range hyphen when what it sees after it is *)
(* the beginning of an item.                                                 *)
ItemAhead(i) ==
  /\ Peek(i) \notin {"]", "END"}
  /\ ~(Peek(i) = "&" /\ Peek(i + 1) = "&")

Operators == {"CHAR_CLASS_NEGATION", "CHAR_CLASS_RANGE_HYPHEN"}

IsUnion(f, pcs) == f.fn = "union" /\ f.pc \in pcs

(* What a function may expect of the token it looks at, and owes to the one  *)
(* it calls: when it calls another function, calls lex in a state, is handed *)
(* a token, or goes on with the token it has.                                *)
CallFits(fn, kind) ==
  /\ fn \in DOMAIN ProgramCounters
  /\ fn = "union" => kind \notin Operators
  /\ fn = "item" /\ ~HasContinuation => kind \notin Terminators \cup Operators

LexFits(f, state, i) ==
  /\ state = "BEGIN" => f.fn = "intersection" /\ f.pc = "begin"
  /\ state = "HAS_RANGE_BEGIN" => IsUnion(f, {"token"}) /\ f.item # NoItem
  /\ IsUnion(f, {"token"}) => f.parts # <<>> \/ f.item # NoItem
  /\ IsUnion(f, {"range_end"}) /\ ~HasContinuation => ItemAhead(i)

TokenFits(f, kind, i) ==
  /\ kind = "CHAR_CLASS_NEGATION" => f.fn = "intersection" /\ f.pc = "begin"
  /\ kind = "CHAR_CLASS_RANGE_HYPHEN" =>
       IsUnion(f, {"token"}) /\ f.item # NoItem /\ ItemAhead(i)
  /\ IsUnion(f, {"token"}) => f.parts # <<>> \/ f.item # NoItem
  /\ IsUnion(f, {"range_end"}) /\ ~HasContinuation => kind \notin Terminators

RunFits(f, kind) ==
  /\ IsUnion(f, {"start", "items", "token"}) => kind \notin Operators
  /\ IsUnion(f, {"items", "token"}) => kind \notin Terminators
  /\ f.fn = "item" /\ f.pc = "start" /\ ~HasContinuation =>
       kind \notin Terminators \cup Operators

Flow ==
  /\ control.op \in {"lex", "lexed", "run"} => stack # <<>>
  /\ control.op = "call" => CallFits(control.fn, tok.kind)
  /\ control.op = "lex" => LexFits(Top, control.state, pos)
  /\ control.op = "lexed" => TokenFits(Top, tok.kind, pos)
  /\ control.op = "run" => RunFits(Top, tok.kind)
  /\ control.op = "ok" => control.value # NoItem
  /\ ~HasContinuation => control.code # "PARSER_BUG"

Scalars ==
  /\ pattern \in Seq(Symbols) /\ pos \in 0 .. Len(pattern)
  /\ in_unicode_escape_brace \in BOOLEAN
  /\ tok \in TokenType
  /\ control \in ControlType
  /\ heap \subseteq Addresses

IInv == StackInv /\ Flow /\ Scalars

-----------------------------------------------------------------------------
(* The stack.                                                                *)

LEMMA TopFacts ==
  ASSUME StackInv, stack # <<>>
  PROVE  Len(stack) \in Nat /\ Len(stack) >= 1 /\ FrameOK(Top)
<1>1. Len(stack) \in Nat /\ Len(stack) >= 1
  BY StackLen DEF StackInv, FramesOK
<1> QED BY <1>1 DEF StackInv, FramesOK, Top

LEMMA ContinueKeeps ==
  ASSUME StackInv, stack # <<>>, NEW f, NEW c, Continue(f, c), FrameOK(f)
  PROVE  StackInv' /\ Top' = f /\ stack' # <<>>
<1> DEFINE n == Len(stack)
<1>1. n \in Nat /\ n >= 1
  BY TopFacts
<1>2. IsSeq(stack) /\ stack' = [stack EXCEPT ![Len(stack)] = f]
  BY DEF StackInv, FramesOK, Continue
<1>3. /\ IsSeq(stack') /\ stack' # <<>> /\ Len(stack') = n /\ stack'[n] = f
      /\ \A i \in 1 .. n - 1 : stack'[i] = stack[i]
  <2>1. /\ IsSeq([stack EXCEPT ![Len(stack)] = f])
        /\ [stack EXCEPT ![Len(stack)] = f] # <<>>
        /\ Len([stack EXCEPT ![Len(stack)] = f]) = Len(stack)
        /\ [stack EXCEPT ![Len(stack)] = f][Len(stack)] = f
        /\ \A i \in 1 .. Len(stack) - 1 : [stack EXCEPT ![Len(stack)] = f][i] = stack[i]
    BY <1>2, StackReplace, Zenon
  <2> QED BY <1>2, <2>1
<1> HIDE DEF n
<1>4. ASSUME NEW i \in 1 .. n
      PROVE  FrameOK(stack'[i])
  <2>1. CASE i = n
    BY <2>1, <1>3
  <2>2. CASE i # n
    BY <2>2, <1>1, <1>3 DEF StackInv, FramesOK, n
  <2> QED BY <2>1, <2>2
<1>5. FramesOK'
  BY <1>3, <1>4 DEF FramesOK
<1>6. DepthMatchesStack'
  BY <1>3 DEF StackInv, DepthMatchesStack, Continue, n
<1> QED BY <1>3, <1>5, <1>6 DEF StackInv, Top

LEMMA LeaveKeeps ==
  ASSUME StackInv, stack # <<>>, NEW c, Leave(c)
  PROVE  StackInv'
<1> DEFINE n == Len(stack)
<1>1. n \in Nat /\ n >= 1
  BY TopFacts
<1>2. /\ IsSeq(stack') /\ Len(stack') = n - 1
      /\ \A i \in 1 .. n - 1 : stack'[i] = stack[i]
  BY StackPop DEF StackInv, FramesOK, Leave
<1> HIDE DEF n
<1>3. FramesOK'
  BY <1>1, <1>2 DEF StackInv, FramesOK, n
<1>4. DepthMatchesStack'
  BY <1>1, <1>2, CharClassAssumption DEF StackInv, DepthMatchesStack, Leave, n
<1> QED BY <1>3, <1>4 DEF StackInv

-----------------------------------------------------------------------------
(* A step of one of the three functions, which leaves the token alone.       *)

ControlOK(c) ==
  c \in [op : {"call", "lex", "lexed", "run", "ok", "error", "undefined"},
         fn : DOMAIN ProgramCounters \cup {"lex", ""}, state : States,
         code : {c.code}, value : {c.value}]

Goes(f, c) ==
  /\ ControlOK(c) /\ c.op \in {"call", "lex", "run", "undefined"}
  /\ c.op = "call" => CallFits(c.fn, tok.kind)
  /\ c.op = "lex" => LexFits(f, c.state, pos)
  /\ c.op = "run" => RunFits(f, tok.kind)
  /\ c.code # "PARSER_BUG"

Ends(c) ==
  /\ ControlOK(c) /\ c.op \in {"ok", "error"}
  /\ c.op = "ok" => c.value # NoItem
  /\ ~HasContinuation => c.code # "PARSER_BUG"

Moves ==
  \/ \E f, c : Continue(f, c) /\ FrameOK(f) /\ Goes(f, c)
  \/ \E c : Leave(c) /\ Ends(c)

LEMMA Controls ==
  /\ \A fn \in DOMAIN ProgramCounters :
       ControlOK(Call(fn)) /\ Call(fn).op = "call" /\ Call(fn).fn = fn
         /\ Call(fn).code # "PARSER_BUG"
  /\ \A state \in States :
       ControlOK(CallLex(state)) /\ CallLex(state).op = "lex"
         /\ CallLex(state).state = state /\ CallLex(state).code # "PARSER_BUG"
  /\ ControlOK(Run) /\ Run.op = "run" /\ Run.code # "PARSER_BUG"
  /\ ControlOK(Lexed) /\ Lexed.op = "lexed" /\ Lexed.code # "PARSER_BUG"
  /\ ControlOK(Undefined) /\ Undefined.op = "undefined" /\ Undefined.code # "PARSER_BUG"
  /\ \A value : ControlOK(Ok(value)) /\ Ok(value).op = "ok" /\ Ok(value).value = value
                  /\ Ok(value).code # "PARSER_BUG"
  /\ \A code : ControlOK(Error(code)) /\ Error(code).op = "error" /\ Error(code).code = code
BY DEF ControlOK, Call, CallLex, Run, Lexed, Undefined, Ok, Error, Control, States

LEMMA MovesKeep ==
  ASSUME IInv, stack # <<>>, UNCHANGED <<LexerVars, tok>>, heap' \subseteq Addresses, Moves
  PROVE  IInv'
<1>1. CASE \E f, c : Continue(f, c) /\ FrameOK(f) /\ Goes(f, c)
  <2>1. PICK f, c : Continue(f, c) /\ FrameOK(f) /\ Goes(f, c)
    BY <1>1
  <2>2. StackInv' /\ Top' = f /\ stack' # <<>> /\ control' = c
    BY <2>1, ContinueKeeps DEF IInv, Continue
  <2>3. Flow'
    BY <2>1, <2>2 DEF Goes, Flow, CallFits, LexFits, RunFits, HasContinuation, LexerVars,
       ItemAhead, Peek, AtEnd
  <2>4. Scalars'
    BY <2>1, <2>2 DEF IInv, Scalars, LexerVars, Goes, ControlOK, ControlType, TokenType
  <2> QED BY <2>2, <2>3, <2>4 DEF IInv
<1>2. CASE \E c : Leave(c) /\ Ends(c)
  <2>1. PICK c : Leave(c) /\ Ends(c)
    BY <1>2
  <2>2. StackInv' /\ control' = c
    BY <2>1, LeaveKeeps DEF IInv, Leave
  <2>3. Flow'
    BY <2>1, <2>2 DEF Ends, Flow, HasContinuation, LexerVars
  <2>4. Scalars'
    BY <2>1, <2>2 DEF IInv, Scalars, LexerVars, Ends, ControlOK, ControlType, TokenType
  <2> QED BY <2>2, <2>3, <2>4 DEF IInv
<1> QED BY <1>1, <1>2 DEF Moves

(* A function that fails owes nothing, unless the error is the internal one. *)
LEMMA FailMoves ==
  ASSUME NEW code, NEW owned, NEW span, FailAt(code, owned, span),
         ~HasContinuation => code # "PARSER_BUG", heap \subseteq Addresses
  PROVE  Moves /\ heap' \subseteq Addresses
BY Controls DEF FailAt, Moves, Ends

LEMMA ReturnMoves ==
  ASSUME NEW value, Return(value), value # NoItem
  PROVE  Moves
BY Controls DEF Return, Moves, Ends

LEMMA FreshIsFree ==
  CanAllocate => Fresh \in Addresses /\ Fresh \notin heap
BY DEF CanAllocate, Fresh

LEMMA Values ==
  /\ \A type, lo, hi, codes, positive, parts, mem :
       type # "NONE" => Item(type, lo, hi, codes, positive, parts, mem) # NoItem
  /\ \A lo, hi, items, mem : Union(lo, hi, items, mem) # NoItem
  /\ \A positive, unions, mem : Class(positive, unions, mem) # NoItem
<1>1. \A type, lo, hi, codes, positive, parts, mem :
        type # "NONE" => Item(type, lo, hi, codes, positive, parts, mem) # NoItem
  BY DEF Item, NoItem
<1>2. "type" \in DOMAIN NoItem
  BY DEF Item, NoItem
<1>3. \A lo, hi, items, mem : "type" \notin DOMAIN Union(lo, hi, items, mem)
  BY DEF Union
<1>4. \A positive, unions, mem : "type" \notin DOMAIN Class(positive, unions, mem)
  BY DEF Class
<1> QED BY <1>1, <1>2, <1>3, <1>4

LEMMA Counters ==
  /\ DOMAIN ProgramCounters = {"item", "union", "intersection"}
  /\ ProgramCounters["item"] = {"start", "nested"}
  /\ ProgramCounters["union"] =
       {"start", "items", "token", "item", "range_end", "range_item"}
  /\ ProgramCounters["intersection"] =
       {"start", "begin", "first", "union", "unions", "next"}
BY DEF ProgramCounters

(* Most steps only move the program counter of a frame.                      *)
LEMMA PcChange ==
  ASSUME NEW f, FrameOK(f), NEW pc \in ProgramCounters[f.fn],
         f.fn = "union" => pc \notin {"start", "items"} /\ f.cap >= 1
  PROVE  FrameOK([f EXCEPT !.pc = pc])
BY DEF FrameOK, FrameType

LEMMA ArrayFrame ==
  ASSUME NEW f, FrameOK(f), f.fn # "union", NEW pc \in ProgramCounters[f.fn],
         NEW parts, IsSeq(parts), NEW cap \in Nat, cap >= 1, Len(parts) <= cap,
         NEW mem \in SUBSET Addresses
  PROVE  FrameOK([f EXCEPT !.pc = pc, !.parts = parts, !.cap = cap, !.mem = mem])
BY DEF FrameOK, FrameType

(* What is stored goes in the room there is, or that is made for it.         *)
LEMMA StoredFrame ==
  ASSUME NEW f, FrameOK(f), NEW part, f.parts # <<>> \/ f.cap >= 1,
         f.fn = "union" => f.pc \notin {"start", "items"}
  PROVE  /\ FrameOK(Stored(f, part)) /\ Stored(f, part).parts # <<>>
         /\ Stored(f, part).fn = f.fn /\ Stored(f, part).cap >= 1
<1> DEFINE parts == Append(f.parts, part)
           cap == IF Len(f.parts) < f.cap THEN f.cap ELSE 2 * f.cap
<1>1. IsSeq(f.parts) /\ f.cap \in Nat /\ Len(f.parts) <= f.cap
  BY DEF FrameOK, FrameType
<1>2. Len(f.parts) \in Nat /\ f.cap >= 1
  BY <1>1, StackLen
<1>3. IsSeq(parts) /\ parts # <<>> /\ Len(parts) = Len(f.parts) + 1
  BY <1>1, StackPush
<1>4. cap \in Nat /\ cap >= 1 /\ Len(parts) <= cap
  BY <1>1, <1>2, <1>3
<1>5. Stored(f, part) = [f EXCEPT !.parts = parts, !.cap = cap]
  BY DEF Stored, HasRoom, FrameOK, FrameType
<1> HIDE DEF parts, cap
<1>6. PICK g : g = [f EXCEPT !.parts = parts, !.cap = cap]
  OBVIOUS
<1>7. FrameOK(g)
  BY <1>3, <1>4, <1>6 DEF FrameOK, FrameType
<1>8. g.parts = parts /\ g.fn = f.fn /\ g.cap = cap
  BY <1>6 DEF FrameOK, FrameType
<1> QED BY <1>3, <1>4, <1>5, <1>6, <1>7, <1>8

(* The frame of a union past its start, from one token to the next.          *)
LEMMA UnionFrame ==
  ASSUME NEW f, FrameOK(f), f.fn = "union", f.cap >= 1,
         NEW pc \in {"token", "item", "range_end", "range_item"}, NEW begin, NEW item
  PROVE  /\ FrameOK([f EXCEPT !.pc = pc, !.begin = begin])
         /\ FrameOK([f EXCEPT !.pc = pc, !.item = item])
<1>1. pc \in ProgramCounters[f.fn]
  BY Counters
<1> QED BY <1>1 DEF FrameOK, FrameType

LEMMA FlushedFrame ==
  ASSUME NEW f, FrameOK(f), f.fn = "union", f.pc \notin {"start", "items"}, f.cap >= 1
  PROVE  FrameOK(Flushed(f)) /\ Flushed(f).fn = "union" /\ Flushed(f).cap >= 1
<1>1. CASE f.item = NoItem
  BY <1>1 DEF Flushed
<1>2. CASE f.item # NoItem
  <2>1. PICK g : g = Stored(f, f.item)
    OBVIOUS
  <2>2. FrameOK(g) /\ g.fn = "union" /\ g.cap >= 1
    BY <2>1, StoredFrame
  <2>5. g.pc \notin {"start", "items"}
    BY <2>1 DEF Stored, FrameOK, FrameType
  <2>3. PICK h : h = [g EXCEPT !.item = NoItem]
    OBVIOUS
  <2>4. FrameOK(h) /\ h.fn = "union" /\ h.cap >= 1
    BY <2>2, <2>3, <2>5 DEF FrameOK, FrameType
  <2> QED BY <1>2, <2>1, <2>3, <2>4 DEF Flushed
<1> QED BY <1>1, <1>2

-----------------------------------------------------------------------------
(* One lemma per function.                                                  *)

LEMMA ItemKeeps ==
  ASSUME IInv, ParseItem
  PROVE  IInv'
<1>1. stack # <<>> /\ UNCHANGED <<LexerVars, tok>>
  BY DEF ParseItem, ItemNoMemory, ItemSimple, ItemNotEncodable, ItemOpen, ItemNested,
         ItemRejects, At, ParseVars
<1>2. FrameOK(Top) /\ heap \subseteq Addresses
  BY <1>1, TopFacts DEF IInv, Scalars
<1>3. Moves /\ heap' \subseteq Addresses
  <2>1. CASE ItemNoMemory
    BY <1>2, <2>1, FailMoves DEF ItemNoMemory, Fail, OutOfMemory
  <2>2. CASE ItemSimple
    <3>1. CanAllocate
      BY <2>2 DEF ItemSimple
    <3>2. ASSUME NEW type \in {"CODE", "CHAR_TYPE", "POSIX_CHAR_CLASS"}, NEW codes,
                 ReturnItem(type, codes)
          PROVE  Moves /\ heap' \subseteq Addresses
      BY <1>2, <3>1, <3>2, ReturnMoves, Values, FreshIsFree DEF ReturnItem
    <3> QED BY <2>2, <3>2 DEF ItemSimple
  <2>3. CASE ItemNotEncodable
    <3>1. CASE FailAt("INVALID_CODE_POINT", {}, Span(tok.lo, tok.hi))
      BY <1>2, <3>1, FailMoves
    <3>2. CASE Continue(Top, Undefined) /\ UNCHANGED heap
      BY <1>2, <3>2, Controls DEF Moves, Goes
    <3> QED BY <2>3, <3>1, <3>2 DEF ItemNotEncodable
  <2>4. CASE ItemOpen
    <3> DEFINE f == [Top EXCEPT !.pc = "nested", !.mem = {Fresh}]
    <3>1. Fresh \in Addresses
      BY <2>4, FreshIsFree DEF ItemOpen
    <3>2. Top.fn = "item" /\ "nested" \in ProgramCounters[Top.fn]
      BY <2>4, Counters DEF ItemOpen, At
    <3>3. FrameOK(f)
      BY <1>2, <3>1, <3>2 DEF FrameOK, FrameType
    <3>4. CallFits("intersection", tok.kind)
      BY Counters DEF CallFits
    <3>5. Continue(f, Call("intersection")) /\ heap' = heap \cup {Fresh}
      BY <2>4 DEF ItemOpen
    <3> HIDE DEF f
    <3> QED BY <1>2, <3>1, <3>3, <3>4, <3>5, Controls, Counters DEF Moves, Goes
  <2>5. CASE ItemNested
    BY <1>2, <2>5, ReturnMoves, Values DEF ItemNested
  <2>6. CASE ItemRejects
    <3>1. HasContinuation
      BY <2>6 DEF ItemRejects, At, IInv, Flow, RunFits, Operators
    <3>2. Fail("PARSER_BUG", {})
      BY <2>6 DEF ItemRejects
    <3> QED BY <1>2, <3>1, <3>2, FailMoves DEF Fail
  <2> QED BY <2>1, <2>2, <2>3, <2>4, <2>5, <2>6 DEF ParseItem
<1> QED BY <1>1, <1>3, MovesKeep

LEMMA IntersectionKeeps ==
  ASSUME IInv, ParseIntersection
  PROVE  IInv'
<1>1. stack # <<>> /\ Top.fn = "intersection" /\ UNCHANGED <<LexerVars, tok>>
  BY DEF ParseIntersection, IntersectionStart, IntersectionNegation, IntersectionEmpty,
         IntersectionFirst, IntersectionArray, IntersectionUnion, IntersectionLex,
         IntersectionNext, IntersectionEnd, At, ParseVars
<1>2. FrameOK(Top) /\ heap \subseteq Addresses
  BY <1>1, TopFacts DEF IInv, Scalars
<1>3. {"begin", "first", "union", "unions", "next"} \subseteq ProgramCounters[Top.fn]
  BY <1>1, Counters
<1>4. ASSUME NEW pc \in {"begin", "first", "union", "unions", "next"}
      PROVE  FrameOK([Top EXCEPT !.pc = pc]) /\ [Top EXCEPT !.pc = pc].fn = "intersection"
               /\ [Top EXCEPT !.pc = pc].pc = pc
  BY <1>1, <1>2, <1>3, PcChange DEF FrameOK, FrameType
<1>5. ASSUME NEW f, f.fn = "intersection"
      PROVE  /\ Goes(f, CallLex("BEGIN_AFTER_NEGATION"))
             /\ Goes(f, CallLex("WAIT_RANGE_BEGIN"))
             /\ f.pc = "begin" => Goes(f, CallLex("BEGIN"))
  <2>1. {"BEGIN", "BEGIN_AFTER_NEGATION", "WAIT_RANGE_BEGIN"} \subseteq States
    BY DEF States
  <2>2. /\ LexFits(f, "BEGIN_AFTER_NEGATION", pos)
        /\ LexFits(f, "WAIT_RANGE_BEGIN", pos)
        /\ f.pc = "begin" => LexFits(f, "BEGIN", pos)
    BY <1>5 DEF LexFits, IsUnion
  <2> QED BY <2>1, <2>2, Controls DEF Goes
<1>6. ASSUME tok.kind \notin Operators
      PROVE  \A f : Goes(f, Call("union"))
  <2>1. CallFits("union", tok.kind)
    BY <1>6, Counters DEF CallFits
  <2> QED BY <2>1, Controls, Counters DEF Goes
<1>7. \A f : f.fn = "intersection" => Goes(f, Run)
  BY Controls DEF Goes, RunFits, IsUnion
<1>8. Moves /\ heap' \subseteq Addresses
  <2>1. CASE IntersectionStart
    BY <1>2, <1>4, <1>5, <2>1 DEF IntersectionStart, Moves
  <2>2. CASE IntersectionNegation
    <3> DEFINE f == [Top EXCEPT !.pc = "first", !.positive = FALSE]
    <3>1. FrameOK(f) /\ f.fn = "intersection"
      BY <1>1, <1>2, <1>3 DEF FrameOK, FrameType
    <3>2. Continue(f, CallLex("BEGIN_AFTER_NEGATION")) /\ UNCHANGED heap
      BY <2>2 DEF IntersectionNegation
    <3> HIDE DEF f
    <3> QED BY <1>2, <1>5, <3>1, <3>2 DEF Moves
  <2>3. CASE IntersectionEmpty
    BY <1>2, <2>3, FailMoves DEF IntersectionEmpty
  <2>4. CASE IntersectionFirst
    <3>1. tok.kind \notin Operators
      BY <2>4 DEF IntersectionFirst, At, IInv, Flow, TokenFits, IsUnion, Operators
    <3> QED BY <1>2, <1>4, <1>6, <2>4, <3>1 DEF IntersectionFirst, Moves
  <2>5. CASE IntersectionArray
    <3>1. CASE Fail(OutOfMemory, control.value.owns)
      BY <1>2, <3>1, FailMoves DEF Fail, OutOfMemory
    <3>2. CASE CanAllocate /\ heap' = heap \cup {Fresh}
               /\ Continue([Top EXCEPT !.pc = "unions", !.parts = <<control.value>>,
                                       !.cap = 1, !.mem = {Fresh}], Run)
      <4>1. IsSeq(<<control.value>>) /\ Len(<<control.value>>) = 1
        BY DEF IsSeq
      <4>2. {Fresh} \in SUBSET Addresses
        BY <3>2, FreshIsFree
      <4>3. PICK u, one, m : u = <<control.value>> /\ one = 1 /\ m = {Fresh}
        OBVIOUS
      <4>4. PICK f : f = [Top EXCEPT !.pc = "unions", !.parts = u, !.cap = one, !.mem = m]
        OBVIOUS
      <4>5. "unions" \in ProgramCounters[Top.fn]
        BY <1>3
      <4>6. FrameOK(f) /\ f.fn = "intersection"
        <5>1. IsSeq(u) /\ one \in Nat /\ one >= 1 /\ Len(u) <= one /\ m \in SUBSET Addresses
          BY <4>1, <4>2, <4>3
        <5>2. FrameOK(f)
          BY <1>1, <1>2, <4>4, <4>5, <5>1, ArrayFrame
        <5>3. f.fn = Top.fn
          BY <1>2, <4>4 DEF FrameOK, FrameType
        <5> QED BY <1>1, <5>2, <5>3
      <4> QED BY <1>2, <1>7, <3>2, <4>2, <4>3, <4>4, <4>6 DEF Moves
    <3> QED BY <2>5, <3>1, <3>2 DEF IntersectionArray
  <2>6. CASE IntersectionUnion
    <3>1. CASE Fail(OutOfMemory, FrameOwns \cup control.value.owns)
      BY <1>2, <3>1, FailMoves DEF Fail, OutOfMemory
    <3>2. CASE UNCHANGED heap
               /\ Continue([Stored(Top, control.value) EXCEPT !.pc = "unions"], Run)
      <4>1. Top.parts # <<>>
        BY <2>6 DEF IntersectionUnion
      <4>2. PICK f : f = [Stored(Top, control.value) EXCEPT !.pc = "unions"]
        OBVIOUS
      <4>3. FrameOK(f) /\ f.fn = "intersection"
        <5>1. PICK g : g = Stored(Top, control.value)
          OBVIOUS
        <5>2. FrameOK(g) /\ g.fn = "intersection" /\ "unions" \in ProgramCounters[g.fn]
          BY <1>1, <1>2, <1>3, <4>1, <5>1, StoredFrame
        <5>3. FrameOK([g EXCEPT !.pc = "unions"])
          BY <5>2, PcChange
        <5>4. [g EXCEPT !.pc = "unions"].fn = "intersection"
          BY <5>2 DEF FrameOK, FrameType
        <5> QED BY <4>2, <5>1, <5>3, <5>4
      <4> QED BY <1>2, <1>7, <3>2, <4>2, <4>3 DEF Moves
    <3> QED BY <2>6, <3>1, <3>2 DEF IntersectionUnion
  <2>7. CASE IntersectionLex
    BY <1>2, <1>4, <1>5, <2>7 DEF IntersectionLex, Moves
  <2>8. CASE IntersectionNext
    <3>1. tok.kind \notin Operators
      BY <2>8 DEF IntersectionNext, At, IInv, Flow, TokenFits, IsUnion, Operators
    <3> QED BY <1>2, <1>4, <1>6, <2>8, <3>1 DEF IntersectionNext, Moves
  <2>9. CASE IntersectionEnd
    <3>1. ASSUME Return(Class(Top.positive, Top.parts, Top.mem))
          PROVE  Moves
      BY <3>1, ReturnMoves, Values
    <3> QED BY <1>2, <2>9, <3>1, FailMoves DEF IntersectionEnd, Fail, OutOfMemory
  <2> QED BY <2>1, <2>2, <2>3, <2>4, <2>5, <2>6, <2>7, <2>8, <2>9 DEF ParseIntersection
<1> QED BY <1>1, <1>8, MovesKeep

LEMMA UnionKeeps ==
  ASSUME IInv, ParseUnion
  PROVE  IInv'
<1>1. stack # <<>> /\ Top.fn = "union" /\ UNCHANGED <<LexerVars, tok>>
  BY DEF ParseUnion, UnionStart, UnionItems, UnionRange, UnionRangeLexed, UnionRangeItem,
         UnionNext, UnionItem, UnionEnd, AtToken, At, ParseVars
<1>2. FrameOK(Top) /\ heap \subseteq Addresses
  BY <1>1, TopFacts DEF IInv, Scalars
<1>3. Top.pc \notin {"start", "items"} => Top.cap >= 1
  BY <1>1, <1>2 DEF FrameOK
<1>4. ASSUME NEW code, NEW owned, Fail(code, owned), code # "PARSER_BUG"
      PROVE  Moves /\ heap' \subseteq Addresses
  BY <1>2, <1>4, FailMoves DEF Fail
<1>5. ASSUME AtToken
      PROVE  /\ tok.kind # "CHAR_CLASS_NEGATION"
             /\ tok.kind = "CHAR_CLASS_RANGE_HYPHEN" => Top.item # NoItem /\ ItemAhead(pos)
             /\ Top.cap >= 1 /\ Top.pc = "token"
  <2>1. CASE At("run", "union", "token")
    BY <1>3, <2>1 DEF At, IInv, Flow, RunFits, IsUnion, Operators
  <2>2. CASE At("lexed", "union", "token")
    BY <1>3, <2>2 DEF At, IInv, Flow, TokenFits
  <2> QED BY <1>5, <2>1, <2>2 DEF AtToken
<1>6. Moves /\ heap' \subseteq Addresses
  <2>1. CASE UnionStart
    <3>1. tok.kind \notin Operators
      BY <2>1 DEF UnionStart, At, IInv, Flow, RunFits, IsUnion
    <3>2. ASSUME Return(Union(tok.lo, tok.lo, <<>>, {Fresh}))
          PROVE  Moves
      BY <3>2, ReturnMoves, Values
    <3>3. ASSUME ~IsEmptyUnion, CanAllocate,
                 Continue([Top EXCEPT !.pc = "items", !.mem = {Fresh}], Run)
          PROVE  Moves
      <4>1. PICK f : f = [Top EXCEPT !.pc = "items", !.mem = {Fresh}]
        OBVIOUS
      <4>2. /\ Fresh \in Addresses /\ "items" \in ProgramCounters[Top.fn]
            /\ Top.parts = <<>>
        BY <1>1, <1>2, <2>1, <3>3, FreshIsFree, Counters DEF UnionStart, At, FrameOK
      <4>3. FrameOK(f) /\ f.fn = "union" /\ f.pc = "items"
        <5>1. f.fn = "union" /\ f.pc = "items" /\ f.parts = <<>>
          BY <1>1, <1>2, <4>1, <4>2 DEF FrameOK, FrameType
        <5>2. FrameType(f)
          BY <1>2, <4>1, <4>2 DEF FrameOK, FrameType
        <5> QED BY <5>1, <5>2 DEF FrameOK
      <4>4. Goes(f, Run)
        BY <3>1, <3>3, <4>3, Controls DEF Goes, RunFits, IsUnion, IsEmptyUnion
      <4> QED BY <3>3, <4>1, <4>3, <4>4 DEF Moves
    <3> QED BY <1>2, <1>4, <2>1, <3>2, <3>3, FreshIsFree DEF UnionStart, OutOfMemory
  <2>2. CASE UnionItems
    <3>1. tok.kind \notin Operators \cup Terminators
      BY <2>2 DEF UnionItems, At, IInv, Flow, RunFits, IsUnion
    <3>2. ASSUME CanAllocate,
                 Continue([Top EXCEPT !.pc = "token", !.mem = @ \cup {Fresh}, !.cap = 1], Run)
          PROVE  Moves
      <4>1. PICK one, mem : one = 1 /\ mem = Top.mem \cup {Fresh}
        OBVIOUS
      <4>2. PICK f : f = [Top EXCEPT !.pc = "token", !.mem = mem, !.cap = one]
        OBVIOUS
      <4>3. mem \in SUBSET Addresses /\ one \in Nat /\ one >= 1
        BY <1>2, <3>2, <4>1, FreshIsFree DEF FrameOK, FrameType
      <4>4. "token" \in ProgramCounters[Top.fn] /\ Top.parts = <<>>
        BY <1>1, <1>2, <2>2, Counters DEF UnionItems, At, FrameOK
      <4>5. FrameOK(f) /\ f.fn = "union" /\ f.pc = "token"
        <5>1. /\ f.fn = "union" /\ f.pc = "token" /\ f.parts = Top.parts
              /\ f.cap = one
          BY <1>1, <1>2, <4>2 DEF FrameOK, FrameType
        <5>2. IsSeq(f.parts) /\ Len(f.parts) <= one
          BY <4>3, <4>4, <5>1 DEF IsSeq
        <5>3. FrameType(f)
          BY <1>2, <4>2, <4>3, <4>4, <5>1, <5>2 DEF FrameOK, FrameType
        <5> QED BY <4>3, <5>1, <5>3 DEF FrameOK
      <4>6. Goes(f, Run)
        BY <3>1, <4>5, Controls DEF Goes, RunFits, IsUnion
      <4> QED BY <3>2, <4>1, <4>2, <4>5, <4>6 DEF Moves
    <3> QED BY <1>2, <1>4, <2>2, <3>2, FreshIsFree DEF UnionItems, OutOfMemory
  <2>3. CASE UnionRange
    <3>1. Top.item # NoItem /\ ItemAhead(pos) /\ Top.pc = "token"
      BY <1>5, <2>3 DEF UnionRange
    <3>2. PICK f : f = [Top EXCEPT !.pc = "range_end"]
      OBVIOUS
    <3>3. FrameOK(f) /\ f.fn = "union" /\ f.pc = "range_end"
      <4>1. "range_end" \in ProgramCounters[Top.fn] /\ Top.cap >= 1
        BY <1>1, <1>3, <3>1, Counters
      <4>2. FrameOK(f)
        BY <1>2, <3>2, <4>1, PcChange
      <4> QED BY <1>1, <1>2, <3>2, <4>2 DEF FrameOK, FrameType
    <3>4. LexFits(f, "WAIT_RANGE_END", pos) /\ "WAIT_RANGE_END" \in States
      BY <3>1, <3>3 DEF LexFits, IsUnion, States
    <3>5. Goes(f, CallLex("WAIT_RANGE_END"))
      BY <3>4, Controls DEF Goes
    <3>6. Continue(f, CallLex("WAIT_RANGE_END")) /\ UNCHANGED heap
      BY <2>3, <3>1, <3>2 DEF UnionRange
    <3> QED BY <1>2, <3>3, <3>5, <3>6 DEF Moves
  <2>4. CASE UnionRangeLexed
    <3>1. ~HasContinuation => tok.kind \notin Terminators \cup Operators
      BY <2>4 DEF UnionRangeLexed, At, IInv, Flow, TokenFits, IsUnion, Operators
    <3>2. PICK f : f = [Top EXCEPT !.pc = "range_item"]
      OBVIOUS
    <3>3. FrameOK(f)
      <4>1. "range_item" \in ProgramCounters[Top.fn] /\ Top.cap >= 1
        BY <1>1, <1>3, <2>4, Counters DEF UnionRangeLexed, At
      <4> QED BY <1>2, <3>2, <4>1, PcChange
    <3>4. Goes(f, Call("item"))
      BY <3>1, Controls, Counters DEF Goes, CallFits
    <3>5. \/ FailAt("INVALID_CHAR_CLASS_RANGE", FrameOwns, Span(Top.item.lo, Top.item.hi))
          \/ Continue(f, Call("item")) /\ UNCHANGED heap
      BY <2>4, <3>2 DEF UnionRangeLexed
    <3> QED BY <1>2, <3>3, <3>4, <3>5, FailMoves DEF Moves
  <2>5. CASE UnionRangeItem
    <3> DEFINE part == RangeItem(Top.item, control.value)
    <3>1. ASSUME Continue([Stored(Top, part) EXCEPT !.pc = "token", !.item = NoItem],
                          CallLex("WAIT_RANGE_BEGIN"))
          PROVE  Moves
      <4> HIDE DEF part
      <4>1. PICK g : g = Stored(Top, part)
        OBVIOUS
      <4>2. Top.cap >= 1 /\ Top.pc \notin {"start", "items"}
        BY <1>3, <2>5 DEF UnionRangeItem, At
      <4>3. FrameOK(g) /\ g.parts # <<>> /\ g.fn = "union" /\ g.cap >= 1
        BY <1>1, <1>2, <4>1, <4>2, StoredFrame
      <4>4. PICK f : f = [g EXCEPT !.pc = "token", !.item = NoItem]
        OBVIOUS
      <4>5. FrameOK(f)
        BY <4>3, <4>4, UnionFrame
      <4>6. f.parts # <<>>
        BY <4>3, <4>4 DEF FrameOK, FrameType
      <4>7. LexFits(f, "WAIT_RANGE_BEGIN", pos) /\ "WAIT_RANGE_BEGIN" \in States
        <5>1. f.pc = "token"
          BY <4>3, <4>4 DEF FrameOK, FrameType
        <5> QED BY <4>6, <5>1 DEF LexFits, IsUnion, States
      <4>8. Goes(f, CallLex("WAIT_RANGE_BEGIN"))
        BY <4>7, Controls DEF Goes
      <4> QED BY <3>1, <4>1, <4>4, <4>5, <4>8 DEF Moves
    <3>2. ASSUME NEW code \in {"INVALID_CHAR_CLASS_RANGE", "CHAR_CLASS_RANGE_OUT_OF_ORDER"},
                 NEW owned, NEW span, FailAt(code, owned, span)
          PROVE  Moves /\ heap' \subseteq Addresses
      BY <1>2, <3>2, FailMoves
    <3> HIDE DEF part
    <3>3. \/ \E code \in {"INVALID_CHAR_CLASS_RANGE", "CHAR_CLASS_RANGE_OUT_OF_ORDER"} :
               \E owned, span : FailAt(code, owned, span)
          \/ \E owned : Fail(OutOfMemory, owned)
          \/ /\ \E owned : heap' = heap \ owned
             /\ Continue([Stored(Top, part) EXCEPT !.pc = "token", !.item = NoItem],
                         CallLex("WAIT_RANGE_BEGIN"))
      BY <2>5 DEF UnionRangeItem, part
    <3> QED BY <1>2, <1>4, <3>1, <3>2, <3>3 DEF OutOfMemory
  <2>6. CASE UnionNext
    <3>1. tok.kind \notin Terminators \cup Operators /\ Top.cap >= 1 /\ Top.pc = "token"
      BY <1>5, <2>6 DEF UnionNext, Operators
    <3>2. PICK g : g = Flushed(Top)
      OBVIOUS
    <3>3. FrameOK(g) /\ g.fn = "union" /\ g.cap >= 1
      BY <1>1, <1>2, <3>1, <3>2, FlushedFrame
    <3>4. PICK f : f = [g EXCEPT !.pc = "item", !.begin = tok]
      OBVIOUS
    <3>5. FrameOK(f)
      BY <3>3, <3>4, UnionFrame
    <3>6. Goes(f, Call("item"))
      BY <3>1, Controls, Counters DEF Goes, CallFits
    <3>7. \/ Fail(OutOfMemory, FrameOwns)
          \/ Continue(f, Call("item")) /\ UNCHANGED heap
      BY <2>6, <3>2, <3>4 DEF UnionNext, GrowthFails
    <3> QED BY <1>2, <1>4, <3>5, <3>6, <3>7 DEF Moves, OutOfMemory
  <2>7. CASE UnionItem
    <3>1. PICK f : f = [Top EXCEPT !.pc = "token", !.item = control.value]
      OBVIOUS
    <3>2. control.value # NoItem /\ Top.cap >= 1
      BY <1>3, <2>7 DEF UnionItem, At, IInv, Flow
    <3>3. FrameOK(f)
      BY <1>1, <1>2, <3>1, <3>2, UnionFrame
    <3>4. f.fn = "union" /\ f.pc = "token" /\ f.item = control.value
      BY <1>1, <1>2, <3>1 DEF FrameOK, FrameType
    <3>5. LexFits(f, "HAS_RANGE_BEGIN", pos) /\ "HAS_RANGE_BEGIN" \in States
      BY <3>2, <3>4 DEF LexFits, IsUnion, States
    <3>6. Goes(f, CallLex("HAS_RANGE_BEGIN"))
      BY <3>5, Controls DEF Goes
    <3> QED BY <1>2, <2>7, <3>1, <3>3, <3>6 DEF UnionItem, Moves
  <2>8. CASE UnionEnd
    <3>1. \/ Fail(OutOfMemory, FrameOwns)
          \/ \E parts, mem : Return(Union(Top.lo, tok.lo, parts, mem)) /\ UNCHANGED heap
      BY <2>8 DEF UnionEnd, GrowthFails
    <3> QED BY <1>2, <1>4, <3>1, ReturnMoves, Values DEF OutOfMemory
  <2> QED BY <2>1, <2>2, <2>3, <2>4, <2>5, <2>6, <2>7, <2>8 DEF ParseUnion
<1> QED BY <1>1, <1>6, MovesKeep

-----------------------------------------------------------------------------
(* Calls, errors and the lexer.                                              *)

LEMMA EnterKeeps ==
  ASSUME IInv, EnterFunction
  PROVE  IInv'
<1>1. /\ control.op = "call" /\ parse_depth + 1 <= MaxParseDepth
      /\ parse_depth' = parse_depth + 1 /\ stack' = Append(stack, Frame(control.fn))
      /\ control' = Run /\ UNCHANGED <<LexerVars, tok, heap>>
  BY DEF EnterFunction, ParseVars
<1>2. PICK f : f = Frame(control.fn)
  OBVIOUS
<1>3. CallFits(control.fn, tok.kind) /\ tok \in TokenType
  BY <1>1 DEF IInv, Flow, Scalars
<1>4. f.fn = control.fn /\ f.pc = "start" /\ f.parts = <<>>
  BY <1>2 DEF Frame
<1>5. FrameOK(f)
  <2>1. "start" \in ProgramCounters[control.fn]
    BY <1>3, Counters DEF CallFits
  <2>2. IsSeq(f.parts) /\ Len(f.parts) = 0
    BY <1>4 DEF IsSeq
  <2>3. FrameType(f)
    BY <1>2, <1>3, <1>4, <2>1, <2>2 DEF CallFits, FrameType, Frame, TokenType
  <2> QED BY <1>4, <2>3 DEF FrameOK
<1> DEFINE n == Len(stack)
<1>6. /\ n \in Nat /\ IsSeq(stack') /\ stack' # <<>> /\ Len(stack') = n + 1
      /\ stack'[n + 1] = f /\ \A i \in 1 .. n : stack'[i] = stack[i]
  BY <1>1, <1>2, StackPush, StackLen DEF IInv, StackInv, FramesOK
<1>7. StackInv'
  <2>1. \A i \in 1 .. n : FrameOK(stack[i])
    BY DEF IInv, StackInv, FramesOK
  <2> HIDE DEF n
  <2>2. \A i \in 1 .. n + 1 : FrameOK(stack'[i])
    BY <1>5, <1>6, <2>1
  <2>3. FramesOK'
    BY <1>6, <2>2 DEF FramesOK
  <2>4. DepthMatchesStack'
    BY <1>1, <1>6 DEF IInv, StackInv, DepthMatchesStack, n
  <2> QED BY <2>3, <2>4 DEF StackInv
<1>8. Top' = f
  BY <1>6 DEF Top
<1>9. RunFits(f, tok.kind)
  BY <1>3, <1>4 DEF RunFits, CallFits, IsUnion
<1>10. Flow'
  BY <1>1, <1>6, <1>8, <1>9, Controls DEF Flow, RunFits, HasContinuation, LexerVars
<1>11. Scalars'
  BY <1>1, Controls DEF IInv, Scalars, LexerVars, ControlOK, ControlType, TokenType
<1> QED BY <1>7, <1>10, <1>11 DEF IInv

LEMMA RejectKeeps ==
  ASSUME IInv, RejectDepth
  PROVE  IInv'
<1>1. /\ control' = Error("PARSE_DEPTH_LIMIT_EXCEEDED")
      /\ UNCHANGED <<LexerVars, tok, heap, stack, parse_depth>>
  BY DEF RejectDepth, ParseVars
<1>2. StackInv'
  BY <1>1 DEF IInv, StackInv, FramesOK, DepthMatchesStack
<1>3. Flow'
  BY <1>1, Controls DEF Flow
<1>4. Scalars'
  BY <1>1, Controls DEF IInv, Scalars, LexerVars, ControlOK, ControlType, TokenType
<1> QED BY <1>2, <1>3, <1>4 DEF IInv

LEMMA PropagateKeeps ==
  ASSUME IInv, PropagateError
  PROVE  IInv'
<1>1. /\ stack # <<>> /\ FailAt(control.code, FrameOwns, error_span)
      /\ UNCHANGED <<LexerVars, tok>>
  BY DEF PropagateError, Fail, ParseVars
<1>2. Moves /\ heap' \subseteq Addresses
  BY <1>1, FailMoves DEF IInv, Flow, Scalars
<1> QED BY <1>1, <1>2, MovesKeep

TokenOK(t) ==
  t \in [kind : TokenKinds, lo : Nat, hi : Nat, code : {t.code}, is_first : BOOLEAN,
         is_last : BOOLEAN]

(* The lexer hands over a token the function that called it expects.         *)
LEMMA TokenKeeps ==
  ASSUME IInv, Lexing, control' = Lexed, UNCHANGED LexFrameVars, TokenOK(tok'),
         pos' \in 0 .. Len(pattern), in_unicode_escape_brace' \in BOOLEAN,
         TokenFits(Top, tok'.kind, pos')
  PROVE  IInv'
<1>1. stack # <<>> /\ UNCHANGED <<pattern, parse_depth, stack, heap>>
  BY DEF IInv, Flow, Lexing, LexFrameVars
<1>2. StackInv'
  BY <1>1 DEF IInv, StackInv, FramesOK, DepthMatchesStack
<1>3. TokenFits(Top, tok.kind, pos)'
  BY <1>1 DEF TokenFits, IsUnion, HasContinuation, ItemAhead, Peek, AtEnd, Top
<1>4. Flow'
  BY <1>1, <1>3, Controls DEF Flow
<1>5. Scalars'
  BY <1>1, Controls DEF IInv, Scalars, ControlOK, ControlType, TokenOK, TokenType
<1> QED BY <1>2, <1>4, <1>5 DEF IInv

LEMMA ErrorKeeps ==
  ASSUME IInv, Lexing, NEW code, NEW at, LexFails(code, at), at \in 0 .. Len(pattern),
         code # "PARSER_BUG"
  PROVE  IInv'
<1>1. /\ control' = Error(code) /\ pos' = at /\ tok' = [tok EXCEPT !.kind = "NONE"]
      /\ UNCHANGED <<pattern, in_unicode_escape_brace, parse_depth, stack, heap>>
  BY DEF LexFails, LexFrameVars
<1>2. StackInv'
  BY <1>1 DEF IInv, StackInv, FramesOK, DepthMatchesStack
<1>3. Flow'
  BY <1>1, Controls DEF Flow
<1>4. TokenOK(tok')
  BY <1>1 DEF IInv, Scalars, TokenOK, TokenType, TokenKinds
<1>5. Scalars'
  BY <1>1, <1>4, Controls DEF IInv, Scalars, ControlOK, ControlType, TokenOK, TokenType
<1> QED BY <1>2, <1>3, <1>5 DEF IInv

(* What the lexer sees is in the pattern.                                    *)
LEMMA PeekFacts ==
  ASSUME IInv, NEW i \in Nat, Peek(i) # "END"
  PROVE  i + 1 \in 1 .. Len(pattern) /\ Peek(i) = pattern[i + 1]
BY DEF IInv, Scalars, Peek, AtEnd

LEMMA LexKeeps ==
  ASSUME IInv, Lex
  PROVE  IInv'
<1>1. Lexing /\ LexFits(Top, control.state, pos)
  BY DEF Lex, LexEnd, LexInBrace, LexNegation, LexRangeHyphen, LexLiteralHyphen,
         LexIntersection, LexOpen, LexClose, LexLiteral, LexEscape, LexUnicodeEscape,
         LexContinuation, LexError, LexingSymbol, Lexing, IInv, Flow
<1>2. pos \in Nat /\ pos <= Len(pattern) /\ Len(pattern) \in Nat
  BY DEF IInv, Scalars
<1>3. Peek(pos) # "END" => pos + 1 \in 0 .. Len(pattern)
  BY <1>2, PeekFacts
<1>4. Peek(pos + 1) # "END" => pos + 2 \in 0 .. Len(pattern)
  <2>1. pos + 1 \in Nat /\ (pos + 1) + 1 = pos + 2
    BY <1>2
  <2> QED BY <2>1, PeekFacts
<1>5. ASSUME NEW kind \in TokenKinds, NEW lo \in Nat, NEW hi \in Nat, NEW code,
             NEW is_first \in BOOLEAN, NEW is_last \in BOOLEAN
      PROVE  /\ TokenOK(Token(kind, lo, hi, code, is_first, is_last))
             /\ Token(kind, lo, hi, code, is_first, is_last).kind = kind
  BY DEF TokenOK, Token
<1>6. ASSUME NEW kind \in TokenKinds, kind \notin Operators, NEW i,
             kind \in Terminators => ~ItemAhead(pos)
      PROVE  TokenFits(Top, kind, i)
  BY <1>1, <1>6 DEF TokenFits, LexFits, Operators
<1>7. ASSUME NEW kind \in TokenKinds, NEW width \in {0, 1, 2}, NEW code,
             ReturnToken(kind, width, code), in_unicode_escape_brace' \in BOOLEAN,
             pos + width <= Len(pattern), TokenFits(Top, kind, pos + width)
      PROVE  IInv'
  <2>1. /\ tok' = Token(kind, pos, pos + width, code, FALSE, FALSE)
        /\ pos' = pos + width /\ control' = Lexed /\ UNCHANGED LexFrameVars
    BY <1>7 DEF ReturnToken
  <2>2. pos + width \in Nat
    BY <1>2
  <2>3. TokenOK(tok') /\ tok'.kind = kind
    <3>1. PICK hi, no : hi = pos + width /\ no = FALSE
      OBVIOUS
    <3>2. hi \in Nat /\ no \in BOOLEAN
      BY <2>2, <3>1
    <3>3. /\ TokenOK(Token(kind, pos, hi, code, no, no))
          /\ Token(kind, pos, hi, code, no, no).kind = kind
      BY <1>2, <1>5, <3>2
    <3> QED BY <2>1, <3>1, <3>3
  <2>4. pos' \in 0 .. Len(pattern)
    BY <1>2, <1>7, <2>1, <2>2
  <2> QED BY <1>1, <1>7, <2>1, <2>3, <2>4, TokenKeeps
<1>8. in_unicode_escape_brace \in BOOLEAN
  BY DEF IInv, Scalars
<1>9. CASE LexEnd
  <2>1. ReturnToken("END", 0, 0) /\ UNCHANGED in_unicode_escape_brace /\ ~ItemAhead(pos)
    BY <1>9 DEF LexEnd, ItemAhead, Peek
  <2>2. "END" \in TokenKinds /\ "END" \notin Operators
    BY DEF TokenKinds, Terminators, Operators
  <2> QED BY <1>2, <1>6, <1>7, <1>8, <2>1, <2>2
<1>10. ASSUME NEW kind \in TokenKinds, kind \notin Operators \cup Terminators, NEW code,
              ReturnToken(kind, 1, code), in_unicode_escape_brace' \in BOOLEAN,
              Peek(pos) # "END"
       PROVE  IInv'
  BY <1>2, <1>3, <1>6, <1>7, <1>10
<1>11. {"CODE", "CHAR_TYPE", "POSIX_CHAR_CLASS", "CHAR_CLASS_OPEN", "CHAR_CLASS_LITERAL_CODE"}
         \subseteq TokenKinds \ (Operators \cup Terminators)
  BY DEF TokenKinds, Operators, Terminators
<1>12. CASE LexInBrace
  BY <1>10, <1>11, <1>12 DEF LexInBrace, NextIs
<1>13. CASE LexNegation
  <2>1. /\ ReturnToken("CHAR_CLASS_NEGATION", 1, 0) /\ UNCHANGED in_unicode_escape_brace
        /\ Peek(pos) # "END" /\ control.state = "BEGIN"
    BY <1>13 DEF LexNegation, NextIs
  <2>2. TokenFits(Top, "CHAR_CLASS_NEGATION", pos + 1)
    BY <1>1, <2>1 DEF TokenFits, LexFits, Terminators
  <2>3. "CHAR_CLASS_NEGATION" \in TokenKinds
    BY DEF TokenKinds
  <2> QED BY <1>2, <1>3, <1>7, <1>8, <2>1, <2>2, <2>3
<1>14. CASE LexRangeHyphen
  <2>1. /\ ReturnToken("CHAR_CLASS_RANGE_HYPHEN", 1, 0) /\ UNCHANGED in_unicode_escape_brace
        /\ Peek(pos) # "END" /\ control.state = "HAS_RANGE_BEGIN"
    BY <1>14 DEF LexRangeHyphen, NextIs, IsRangeHyphen
  <2>2. ItemAhead(pos + 1)
    <3>1. (pos + 1) + 1 = pos + 2
      BY <1>2
    <3> QED BY <1>14, <3>1 DEF LexRangeHyphen, IsRangeHyphen, ItemAhead
  <2>3. TokenFits(Top, "CHAR_CLASS_RANGE_HYPHEN", pos + 1)
    BY <1>1, <2>1, <2>2 DEF TokenFits, LexFits, Terminators
  <2>4. "CHAR_CLASS_RANGE_HYPHEN" \in TokenKinds
    BY DEF TokenKinds
  <2> QED BY <1>2, <1>3, <1>7, <1>8, <2>1, <2>3, <2>4
<1>15. CASE LexLiteralHyphen
  <2> DEFINE kind == "CHAR_CLASS_LITERAL_HYPHEN"
             is_first == control.state \in {"BEGIN", "BEGIN_AFTER_NEGATION"}
             is_last == Peek(pos + 1) \in {"]", "END"}
  <2>1. /\ tok' = Token(kind, pos, pos + 1, Code("-"), is_first, is_last)
        /\ pos' = pos + 1 /\ control' = Lexed
        /\ UNCHANGED <<in_unicode_escape_brace, LexFrameVars>> /\ Peek(pos) # "END"
    BY <1>15 DEF LexLiteralHyphen, NextIs
  <2>2. kind \in TokenKinds /\ kind \notin Operators \cup Terminators
    BY DEF TokenKinds, Operators, Terminators
  <2>3. is_first \in BOOLEAN /\ is_last \in BOOLEAN
    OBVIOUS
  <2> HIDE DEF is_first, is_last, kind
  <2>4. TokenOK(tok') /\ tok'.kind = kind
    <3>1. pos + 1 \in Nat
      BY <1>2
    <3> QED BY <1>2, <1>5, <2>1, <2>2, <2>3, <3>1
  <2>5. TokenFits(Top, kind, pos + 1)
    BY <1>6, <2>2
  <2> QED BY <1>1, <1>3, <1>8, <2>1, <2>4, <2>5, TokenKeeps
<1>16. CASE LexIntersection
  <2>1. /\ ReturnToken("CHAR_CLASS_INTERSECTION", 2, 0) /\ UNCHANGED in_unicode_escape_brace
        /\ Peek(pos + 1) # "END" /\ ~ItemAhead(pos)
    BY <1>16 DEF LexIntersection, NextIs, ItemAhead
  <2>2. "CHAR_CLASS_INTERSECTION" \in TokenKinds /\ "CHAR_CLASS_INTERSECTION" \notin Operators
    BY DEF TokenKinds, Terminators, Operators
  <2> QED BY <1>2, <1>4, <1>6, <1>7, <1>8, <2>1, <2>2
<1>17. CASE LexOpen
  BY <1>8, <1>10, <1>11, <1>17 DEF LexOpen, NextIs
<1>18. CASE LexClose
  <2>1. /\ ReturnToken("CHAR_CLASS_CLOSE", 1, 0) /\ UNCHANGED in_unicode_escape_brace
        /\ Peek(pos) # "END" /\ ~ItemAhead(pos)
    BY <1>18 DEF LexClose, NextIs, ItemAhead
  <2>2. "CHAR_CLASS_CLOSE" \in TokenKinds /\ "CHAR_CLASS_CLOSE" \notin Operators
    BY DEF TokenKinds, Terminators, Operators
  <2> QED BY <1>2, <1>3, <1>6, <1>7, <1>8, <2>1, <2>2
<1>19. CASE LexLiteral
  <2>1. /\ ReturnToken("CHAR_CLASS_LITERAL_CODE", 1, Code(Peek(pos)))
        /\ UNCHANGED in_unicode_escape_brace /\ Peek(pos) # "END"
    BY <1>19 DEF LexLiteral, NextIs
  <2> QED BY <1>8, <1>10, <1>11, <2>1
<1>20. CASE LexEscape
  <2>1. /\ \E kind \in {"CODE", "CHAR_TYPE", "POSIX_CHAR_CLASS"} : \E code : ReturnToken(kind, 1, code)
        /\ UNCHANGED in_unicode_escape_brace /\ Peek(pos) # "END"
    BY <1>20 DEF LexEscape, NextIs
  <2> QED BY <1>8, <1>10, <1>11, <2>1
<1>21. CASE LexUnicodeEscape
  BY <1>10, <1>11, <1>21 DEF LexUnicodeEscape, NextIs
<1>22. CASE LexContinuation
  <2>1. /\ pos' = pos + 1 /\ Peek(pos) = "CONTINUE"
        /\ UNCHANGED <<in_unicode_escape_brace, tok, control, pattern, parse_depth, stack, heap>>
    BY <1>22 DEF LexContinuation, NextIs, LexFrameVars
  <2>2. HasContinuation
    <3>1. pos + 1 \in DOMAIN pattern /\ pattern[pos + 1] = "CONTINUE"
      BY <1>2, <2>1, PeekFacts DEF IInv, Scalars
    <3> QED BY <3>1 DEF HasContinuation
  <2>3. StackInv'
    BY <2>1 DEF IInv, StackInv, FramesOK, DepthMatchesStack
  <2>4. Flow'
    BY <1>1, <2>1, <2>2 DEF IInv, Flow, Lexing, LexFits, IsUnion, HasContinuation, Top
  <2>5. Scalars'
    BY <1>3, <2>1 DEF IInv, Scalars, ControlType, TokenType
  <2> QED BY <2>3, <2>4, <2>5 DEF IInv
<1>23. CASE LexError
  <2>1. \E code \in {"INVALID_BYTE_SEQUENCE", "UNCLOSED_UNICODE_ESCAPE_BRACE"},
           at \in 0 .. Len(pattern) : LexFails(code, at)
    <3>1. pos \in 0 .. Len(pattern)
      BY <1>2
    <3> QED BY <1>3, <1>4, <1>23, <3>1 DEF LexError, NextIs
  <2> QED BY <1>1, <2>1, ErrorKeeps
<1> QED BY <1>9, <1>12, <1>13, <1>14, <1>15, <1>16, <1>17, <1>18, <1>19, <1>20, <1>21, <1>22,
        <1>23 DEF Lex

-----------------------------------------------------------------------------
(* The invariant holds.                                                      *)

LEMMA InitHolds ==
  ASSUME Init
  PROVE  IInv
<1>1. /\ IsPattern(pattern) /\ MaxParseDepth \in Nat
      /\ stack = <<>> /\ parse_depth = 0 /\ heap = {} /\ pos = 1
      /\ in_unicode_escape_brace = FALSE /\ control = Call("intersection")
      /\ tok = Token("CHAR_CLASS_OPEN", 0, 1, 0, FALSE, FALSE)
  BY CharClassAssumption DEF Init
<1>2. StackInv
  BY <1>1 DEF StackInv, FramesOK, DepthMatchesStack, IsSeq
<1>3. Flow
  BY <1>1, Controls, Counters DEF Flow, CallFits
<1>4. Scalars
  <2>1. pattern \in Seq(Symbols) /\ pos \in 0 .. Len(pattern)
    BY <1>1 DEF IsPattern
  <2>2. tok \in TokenType
    BY <1>1 DEF Token, TokenType, TokenKinds
  <2>3. control \in ControlType
    BY <1>1, Controls, Counters DEF ControlOK, ControlType
  <2> QED BY <1>1, <2>1, <2>2, <2>3 DEF Scalars
<1> QED BY <1>2, <1>3, <1>4 DEF IInv

LEMMA StepKeeps ==
  ASSUME IInv, [Next]_vars
  PROVE  IInv'
<1>1. CASE UNCHANGED vars
  <2>1. UNCHANGED <<pattern, pos, in_unicode_escape_brace, parse_depth, tok, stack, control,
                    heap>>
    BY <1>1 DEF vars
  <2>2. StackInv'
    BY <2>1 DEF IInv, StackInv, FramesOK, DepthMatchesStack
  <2>3. Flow'
    BY <2>1 DEF IInv, Flow, CallFits, LexFits, TokenFits, RunFits, ItemAhead, Peek, AtEnd,
       HasContinuation, Top
  <2>4. Scalars'
    BY <2>1 DEF IInv, Scalars, ControlType, TokenType
  <2> QED BY <2>2, <2>3, <2>4 DEF IInv
<1> QED BY <1>1, LexKeeps, EnterKeeps, RejectKeeps, PropagateKeeps, ItemKeeps, UnionKeeps,
        IntersectionKeeps DEF Next

LEMMA Invariance == Spec => []IInv
BY InitHolds, StepKeeps, PTL DEF Spec


-----------------------------------------------------------------------------
(* Ownership.  HeapHasOneOwner says who owns what, not what each frame has   *)
(* at each point of its function: that a function owns nothing when it is    *)
(* called, that a union has no item when it calls for one, that a class owns *)
(* no array before its first union.  The parts of a frame own different      *)
(* addresses; an item is only ever handed a class, whose unions it takes     *)
(* over with the class.                                                      *)

PartsOK(parts) ==
  /\ IsSeq(parts)
  /\ \A i, j \in 1 .. Len(parts) : i # j => parts[i].owns \cap parts[j].owns = {}

Shape(fn, pc, parts, mem, owns) ==
  /\ PartsOK(parts) /\ Owned(parts) \cap mem = {}
  /\ (Owned(parts) \cup mem) \cap owns = {}
  /\ pc \in {"start", "begin", "first"} => parts = <<>> /\ mem = {} /\ owns = {}
  /\ fn = "item" => parts = <<>> /\ owns = {}
  /\ fn = "intersection" => owns = {} /\ (parts = <<>> => mem = {})
  /\ fn = "union" /\ pc = "item" => owns = {}

FrameHeap(f) == Shape(f.fn, f.pc, f.parts, f.mem, f.item.owns)

Own(f) == f.mem \cup Owned(f.parts) \cup f.item.owns
Held(n) == UNION {Own(stack[i]) : i \in 1 .. n}
ValueOwn == control.value.owns

Parts ==
  /\ heap = Held(Len(stack)) \cup ValueOwn
  /\ \A i, j \in 1 .. Len(stack) : i # j => Own(stack[i]) \cap Own(stack[j]) = {}
  /\ Held(Len(stack)) \cap ValueOwn = {}

IsClass(value) == Owned(value.parts) \subseteq value.owns

Callers ==
  /\ \A i, j \in 1 .. Len(stack) :
       j = i + 1 /\ stack[i].fn = "item" => stack[j].fn = "intersection"
  /\ control.op = "call" /\ stack # <<>> /\ Top.fn = "item" => control.fn = "intersection"
  /\ control.op = "ok" /\ stack # <<>> /\ Top.fn = "item" => IsClass(control.value)
  /\ control.op # "ok" => ValueOwn = {}

HeapInv ==
  /\ \A i \in 1 .. Len(stack) : FrameHeap(stack[i])
  /\ Callers /\ Parts

-----------------------------------------------------------------------------
(* What sequences of items and unions own.                                  *)

LEMMA NoParts ==
  PartsOK(<<>>) /\ Owned(<<>>) = {}
<1>1. Len(<<>>) = 0 /\ DOMAIN <<>> = {} /\ 1 .. 0 = {}
  OBVIOUS
<1>2. IsSeq(<<>>)
  BY EmptySeq DEF IsSeq
<1> QED BY <1>1, <1>2 DEF PartsOK, Owned

LEMMA OnePart ==
  ASSUME NEW part
  PROVE  PartsOK(<<part>>) /\ Owned(<<part>>) = part.owns /\ <<part>> # <<>>
<1>1. /\ <<part>> \in Seq({part}) /\ Len(<<part>>) = 1 /\ <<part>>[1] = part
      /\ <<part>> # <<>> /\ DOMAIN <<part>> = {1}
  OBVIOUS
<1>2. IsSeq(<<part>>)
  BY <1>1, SeqIsSeq
<1>3. 1 .. Len(<<part>>) = {1}
  BY <1>1
<1> QED BY <1>1, <1>2, <1>3 DEF PartsOK, Owned

LEMMA AddPart ==
  ASSUME NEW parts, PartsOK(parts), NEW part, Owned(parts) \cap part.owns = {}
  PROVE  /\ PartsOK(Append(parts, part))
         /\ Owned(Append(parts, part)) = Owned(parts) \cup part.owns
         /\ Append(parts, part) # <<>>
<1> DEFINE m == Len(parts)
           more == Append(parts, part)
<1>1. m \in Nat /\ DOMAIN parts = 1 .. m
  BY StackLen DEF PartsOK
<1>2. /\ IsSeq(more) /\ more # <<>> /\ Len(more) = m + 1 /\ more[m + 1] = part
      /\ \A i \in 1 .. m : more[i] = parts[i]
  BY StackPush DEF PartsOK
<1>3. \A i, j \in 1 .. m : i # j => parts[i].owns \cap parts[j].owns = {}
  BY DEF PartsOK
<1>4. Owned(parts) = UNION {parts[i].owns : i \in 1 .. m}
  BY <1>1 DEF Owned
<1>5. DOMAIN more = 1 .. m + 1
  BY <1>2, StackLen
<1> HIDE DEF m, more
<1>6. \A i \in 1 .. m + 1 : i = m + 1 \/ i \in 1 .. m
  BY <1>1
<1>7. \A i \in 1 .. m : parts[i].owns \subseteq Owned(parts)
  BY <1>4
<1>8. ASSUME NEW i \in 1 .. m + 1, NEW j \in 1 .. m + 1, i # j
      PROVE  more[i].owns \cap more[j].owns = {}
  <2>1. CASE i \in 1 .. m /\ j \in 1 .. m
    BY <1>2, <1>3, <1>8, <2>1
  <2>2. CASE i = m + 1 /\ j \in 1 .. m
    BY <1>2, <1>7, <2>2
  <2>3. CASE j = m + 1 /\ i \in 1 .. m
    BY <1>2, <1>7, <2>3
  <2> QED BY <1>6, <1>8, <2>1, <2>2, <2>3
<1>9. Owned(more) = UNION {more[i].owns : i \in 1 .. m + 1}
  BY <1>5 DEF Owned
<1>10. Owned(more) = Owned(parts) \cup part.owns
  <2>1. \A i \in 1 .. m : i \in 1 .. m + 1 /\ more[i].owns = parts[i].owns
    BY <1>1, <1>2
  <2>2. m + 1 \in 1 .. m + 1
    BY <1>1
  <2>3. Owned(more) \subseteq Owned(parts) \cup part.owns
    BY <1>2, <1>4, <1>6, <1>9
  <2>4. Owned(parts) \cup part.owns \subseteq Owned(more)
    BY <1>2, <1>4, <1>9, <2>1, <2>2
  <2> QED BY <2>3, <2>4
<1> QED BY <1>2, <1>8, <1>10 DEF more, PartsOK

LEMMA ValuesOwn ==
  /\ NoItem.owns = {}
  /\ \A type, lo, hi, codes, positive, mem :
       Item(type, lo, hi, codes, positive, <<>>, mem).owns = mem
  /\ \A type, lo, hi, codes, positive, parts, mem : Owned(parts) \subseteq mem =>
       Item(type, lo, hi, codes, positive, parts, mem).owns = mem
  /\ \A lo, hi, items, mem : Union(lo, hi, items, mem).owns = mem \cup Owned(items)
  /\ \A positive, unions, mem :
       /\ Class(positive, unions, mem).owns = mem \cup Owned(unions)
       /\ Class(positive, unions, mem).parts = unions
BY NoParts DEF NoItem, Item, Union, Class

LEMMA ControlsOwn ==
  /\ \A fn : Call(fn).value.owns = {} /\ Call(fn).op = "call" /\ Call(fn).fn = fn
  /\ \A state : CallLex(state).value.owns = {} /\ CallLex(state).op = "lex"
  /\ Run.value.owns = {} /\ Run.op = "run"
  /\ Lexed.value.owns = {} /\ Lexed.op = "lexed"
  /\ Undefined.value.owns = {} /\ Undefined.op = "undefined"
  /\ \A code : Error(code).value.owns = {} /\ Error(code).op = "error"
  /\ \A value : Ok(value).value = value /\ Ok(value).op = "ok"
BY ValuesOwn DEF Call, CallLex, Run, Lexed, Undefined, Error, Ok, Control

-----------------------------------------------------------------------------
(* A step of the running function.                                          *)

LEMMA TopHeap ==
  ASSUME IInv, HeapInv, stack # <<>>
  PROVE  /\ FrameType(Top) /\ FrameHeap(Top)
         /\ Own(Top) \subseteq heap /\ ValueOwn \subseteq heap
         /\ Own(Top) \cap ValueOwn = {}
         /\ heap \subseteq Addresses /\ FrameOwns = Own(Top)
<1>1. Len(stack) \in 1 .. Len(stack)
  BY TopFacts DEF IInv
<1>2. FrameType(Top) /\ FrameHeap(Top)
  BY <1>1, TopFacts DEF IInv, HeapInv, Top, FrameOK
<1>3. Own(Top) \subseteq Held(Len(stack))
  BY <1>1 DEF Held, Top
<1> QED BY <1>2, <1>3 DEF HeapInv, Parts, IInv, Scalars, FrameOwns, Own

(* What the running function frees was in its hands, what it allocates goes  *)
(* to them, and after is what it has in the end.                             *)
Trade(before, after, freed, new) ==
  /\ freed \subseteq before /\ new \cap heap = {}
  /\ after = (before \ freed) \cup new
  /\ heap' = (heap \ freed) \cup new

LEMMA HeapContinues ==
  ASSUME IInv, HeapInv, stack # <<>>, NEW f, NEW c, Continue(f, c), FrameHeap(f),
         f.fn = Top.fn, c.value.owns = {}, c.op # "ok",
         c.op = "call" /\ f.fn = "item" => c.fn = "intersection", NEW freed, NEW new,
         Trade(Own(Top) \cup ValueOwn, Own(f), freed, new)
  PROVE  HeapInv'
<1> DEFINE n == Len(stack)
           rest == UNION {Own(stack[i]) : i \in 1 .. n - 1}
<1>1. n \in Nat /\ n >= 1 /\ n \in 1 .. n /\ IsSeq(stack)
  BY TopFacts DEF IInv, StackInv, FramesOK
<1>2. /\ stack' # <<>> /\ Len(stack') = n /\ stack'[n] = f
      /\ \A i \in 1 .. n - 1 : stack'[i] = stack[i]
  BY <1>1, StackReplace DEF Continue
<1>3. \A i \in 1 .. n : i = n \/ i \in 1 .. n - 1
  BY <1>1
<1>4. \A i \in 1 .. n - 1 : i \in 1 .. n /\ i # n
  BY <1>1
<1>5. stack[n] = Top
  BY DEF Top
<1>6. \A i, j \in 1 .. n : i # j => Own(stack[i]) \cap Own(stack[j]) = {}
  BY DEF HeapInv, Parts
<1>7. \A i \in 1 .. n : FrameHeap(stack'[i])
  BY <1>2, <1>3, <1>4 DEF HeapInv
<1> HIDE DEF n
<1>8. Held(n) = rest \cup Own(Top) /\ rest \cap Own(Top) = {}
  <2>1. Held(n) \subseteq rest \cup Own(Top)
    BY <1>3, <1>5 DEF Held
  <2>2. rest \cup Own(Top) \subseteq Held(n)
    BY <1>1, <1>4, <1>5 DEF Held
  <2>3. rest \cap Own(Top) = {}
    BY <1>1, <1>4, <1>5, <1>6
  <2> QED BY <2>1, <2>2, <2>3
<1>9. Held(Len(stack))' = rest \cup Own(f)
  <2>1. Held(Len(stack))' = UNION {Own(stack'[i]) : i \in 1 .. n}
    BY <1>2 DEF Held, n
  <2>2. Held(Len(stack))' \subseteq rest \cup Own(f)
    BY <2>1, <1>2, <1>3
  <2>3. rest \cup Own(f) \subseteq Held(Len(stack))'
    BY <2>1, <1>1, <1>2, <1>4
  <2> QED BY <2>2, <2>3
<1>10. \A i \in 1 .. n - 1 : Own(stack[i]) \subseteq rest
  OBVIOUS
<1> HIDE DEF rest
<1>11. ValueOwn' = {} /\ control' = c
  BY DEF Continue, ValueOwn
<1>12. heap = rest \cup Own(Top) \cup ValueOwn /\ (rest \cup Own(Top)) \cap ValueOwn = {}
  BY <1>8 DEF HeapInv, Parts, n
<1>13. /\ freed \subseteq Own(Top) \cup ValueOwn /\ new \cap heap = {}
       /\ Own(f) = ((Own(Top) \cup ValueOwn) \ freed) \cup new
       /\ heap' = (heap \ freed) \cup new
  BY DEF Trade
<1>14. heap' = rest \cup Own(f) /\ rest \cap Own(f) = {}
  BY <1>8, <1>12, <1>13
<1>15. ASSUME NEW i \in 1 .. n, NEW j \in 1 .. n, i # j
       PROVE  Own(stack'[i]) \cap Own(stack'[j]) = {}
  <2>1. CASE i # n /\ j # n
    BY <1>2, <1>3, <1>6, <1>15, <2>1
  <2>2. CASE i = n /\ j # n
    BY <1>2, <1>3, <1>10, <1>14, <2>2
  <2>3. CASE i # n /\ j = n
    BY <1>2, <1>3, <1>10, <1>14, <2>3
  <2> QED BY <1>15, <2>1, <2>2, <2>3
<1>16. Parts'
  BY <1>2, <1>9, <1>11, <1>14, <1>15 DEF Parts
<1>17. Callers'
  <2>1. Top' = f
    BY <1>2 DEF Top
  <2>2. \A i \in 1 .. n : stack'[i].fn = stack[i].fn
    BY <1>2, <1>3, <1>5
  <2>3. \A i, j \in 1 .. n :
          j = i + 1 /\ stack[i].fn = "item" => stack[j].fn = "intersection"
    BY DEF HeapInv, Callers, n
  <2> QED BY <1>2, <1>11, <2>1, <2>2, <2>3 DEF Callers
<1> QED BY <1>2, <1>7, <1>16, <1>17 DEF HeapInv

LEMMA HeapReturns ==
  ASSUME IInv, HeapInv, stack # <<>>, NEW c, Leave(c), c.op \in {"ok", "error"},
         c.op = "error" => c.value.owns = {},
         c.op = "ok" /\ Top.fn = "intersection" => IsClass(c.value), NEW freed, NEW new,
         Trade(Own(Top) \cup ValueOwn, c.value.owns, freed, new)
  PROVE  HeapInv'
<1> DEFINE n == Len(stack)
           rest == UNION {Own(stack[i]) : i \in 1 .. n - 1}
<1>1. n \in Nat /\ n >= 1 /\ n \in 1 .. n /\ IsSeq(stack)
  BY TopFacts DEF IInv, StackInv, FramesOK
<1>2. IsSeq(stack') /\ Len(stack') = n - 1 /\ \A i \in 1 .. n - 1 : stack'[i] = stack[i]
  BY <1>1, StackPop DEF Leave
<1>3. \A i \in 1 .. n : i = n \/ i \in 1 .. n - 1
  BY <1>1
<1>4. \A i \in 1 .. n - 1 : i \in 1 .. n /\ i # n
  BY <1>1
<1>5. stack[n] = Top
  BY DEF Top
<1>6. \A i, j \in 1 .. n : i # j => Own(stack[i]) \cap Own(stack[j]) = {}
  BY DEF HeapInv, Parts
<1>7. \A i \in 1 .. n - 1 : FrameHeap(stack'[i])
  BY <1>2, <1>4 DEF HeapInv
<1> HIDE DEF n
<1>8. Held(n) = rest \cup Own(Top) /\ rest \cap Own(Top) = {}
  <2>1. Held(n) \subseteq rest \cup Own(Top)
    BY <1>3, <1>5 DEF Held
  <2>2. rest \cup Own(Top) \subseteq Held(n)
    BY <1>1, <1>4, <1>5 DEF Held
  <2>3. rest \cap Own(Top) = {}
    BY <1>1, <1>4, <1>5, <1>6
  <2> QED BY <2>1, <2>2, <2>3
<1>9. Held(Len(stack))' = rest
  <2>1. Held(Len(stack))' = UNION {Own(stack'[i]) : i \in 1 .. n - 1}
    BY <1>2 DEF Held
  <2> QED BY <2>1, <1>2
<1> HIDE DEF rest
<1>10. ValueOwn' = c.value.owns /\ control' = c
  BY DEF Leave, ValueOwn
<1>11. heap = rest \cup Own(Top) \cup ValueOwn /\ (rest \cup Own(Top)) \cap ValueOwn = {}
  BY <1>8 DEF HeapInv, Parts, n
<1>12. /\ freed \subseteq Own(Top) \cup ValueOwn /\ new \cap heap = {}
       /\ ValueOwn' = ((Own(Top) \cup ValueOwn) \ freed) \cup new
       /\ heap' = (heap \ freed) \cup new
  BY <1>10 DEF Trade
<1>13. heap' = rest \cup ValueOwn' /\ rest \cap ValueOwn' = {}
  BY <1>8, <1>11, <1>12
<1>14. \A i, j \in 1 .. n - 1 : i # j => Own(stack'[i]) \cap Own(stack'[j]) = {}
  BY <1>2, <1>4, <1>6
<1>15. Parts'
  BY <1>2, <1>9, <1>13, <1>14 DEF Parts
<1>16. Callers'
  <2>1. \A i, j \in 1 .. n :
          j = i + 1 /\ stack[i].fn = "item" => stack[j].fn = "intersection"
    BY DEF HeapInv, Callers, n
  <2>2. ASSUME stack' # <<>>, Top'.fn = "item"
        PROVE  Top.fn = "intersection"
    <3>1. n - 1 \in 1 .. n - 1 /\ n = (n - 1) + 1
      BY <1>1, <1>2, <2>2, StackLen
    <3>2. Top' = stack[n - 1]
      BY <1>2, <3>1 DEF Top
    <3> QED BY <1>1, <1>4, <1>5, <2>1, <2>2, <3>1, <3>2
  <2>3. \A i, j \in 1 .. n - 1 :
          j = i + 1 /\ stack'[i].fn = "item" => stack'[j].fn = "intersection"
    BY <1>2, <1>4, <2>1
  <2> QED BY <1>2, <1>10, <2>2, <2>3 DEF Callers
<1> QED BY <1>2, <1>7, <1>15, <1>16 DEF HeapInv

(* A step that only moves a frame's program counter or begin_tok.           *)
LEMMA HeapStays ==
  ASSUME IInv, HeapInv, stack # <<>>, control.op # "ok", UNCHANGED heap,
         NEW f, NEW c, Continue(f, c), c.value.owns = {}, c.op # "ok",
         f.fn = Top.fn, f.fn # "item", f.parts = Top.parts, f.mem = Top.mem,
         f.item = Top.item, Shape(f.fn, f.pc, Top.parts, Top.mem, Top.item.owns)
  PROVE  HeapInv'
<1>1. FrameHeap(f) /\ Own(f) = Own(Top)
  BY DEF FrameHeap, Own
<1>2. ValueOwn = {}
  BY DEF HeapInv, Callers
<1>3. PICK freed, new : freed = {} /\ new = {}
  OBVIOUS
<1>4. Trade(Own(Top) \cup ValueOwn, Own(f), freed, new)
  BY <1>1, <1>2, <1>3 DEF Trade
<1> QED BY <1>1, <1>4, HeapContinues

(* A function that fails frees all that it has.                             *)
LEMMA HeapFails ==
  ASSUME IInv, HeapInv, stack # <<>>, NEW code, NEW owned, NEW span,
         FailAt(code, owned, span), owned = Own(Top) \cup ValueOwn
  PROVE  HeapInv'
<1>1. PICK c, new : c = Error(code) /\ new = {}
  OBVIOUS
<1>2. c.op = "error" /\ c.value.owns = {} /\ Leave(c)
  BY <1>1, ControlsOwn DEF FailAt
<1>3. Trade(Own(Top) \cup ValueOwn, c.value.owns, owned, new)
  BY <1>1, <1>2 DEF Trade, FailAt
<1> QED BY <1>2, <1>3, HeapReturns

LEMMA HeapSucceeds ==
  ASSUME IInv, HeapInv, stack # <<>>, NEW value, Return(value),
         Top.fn = "intersection" => IsClass(value), NEW freed, NEW new,
         Trade(Own(Top) \cup ValueOwn, value.owns, freed, new)
  PROVE  HeapInv'
<1>1. PICK c : c = Ok(value)
  OBVIOUS
<1>2. c.op = "ok" /\ c.value = value /\ Leave(c)
  BY <1>1, ControlsOwn DEF Return
<1>3. Trade(Own(Top) \cup ValueOwn, c.value.owns, freed, new)
  BY <1>2
<1> QED BY <1>2, <1>3, HeapReturns

-----------------------------------------------------------------------------
(* One lemma per function.                                                  *)

(* What holds of the frame of the function that makes a step.               *)
LEMMA Running ==
  ASSUME IInv, HeapInv, stack # <<>>
  PROVE  /\ FrameOK(Top) /\ FrameHeap(Top) /\ heap \subseteq Addresses
         /\ Own(Top) \cap ValueOwn = {} /\ FrameOwns = Own(Top)
         /\ Own(Top) \subseteq heap /\ ValueOwn \subseteq heap
         /\ control.op # "ok" => ValueOwn = {}
         /\ CanAllocate => Fresh \notin heap
BY TopHeap, TopFacts, FreshIsFree DEF IInv, HeapInv, Callers

LEMMA ItemHeap ==
  ASSUME IInv, HeapInv, ParseItem
  PROVE  HeapInv'
<1>1. stack # <<>> /\ Top.fn = "item"
  BY DEF ParseItem, ItemNoMemory, ItemSimple, ItemNotEncodable, ItemOpen, ItemNested,
         ItemRejects, At
<1>2. /\ FrameOK(Top) /\ FrameHeap(Top) /\ heap \subseteq Addresses
      /\ Own(Top) \cap ValueOwn = {}
      /\ control.op # "ok" => ValueOwn = {}
      /\ CanAllocate => Fresh \notin heap
  BY <1>1, Running
<1>3. Top.parts = <<>> /\ Top.item.owns = {} /\ Own(Top) = Top.mem
  BY <1>1, <1>2, NoParts DEF FrameHeap, Shape, Own
<1>4. ASSUME At("run", "item", "start")
      PROVE  Own(Top) = {} /\ ValueOwn = {} /\ Own(Top) \cup ValueOwn = {}
  <2>1. Top.mem = {}
    BY <1>2, <1>4 DEF At, FrameHeap, Shape
  <2> QED BY <1>2, <1>3, <1>4, <2>1 DEF At
<1>5. ASSUME NEW code, NEW span, At("run", "item", "start"), FailAt(code, {}, span)
      PROVE  HeapInv'
  <2>1. PICK owned : owned = {}
    OBVIOUS
  <2>2. FailAt(code, owned, span) /\ owned = Own(Top) \cup ValueOwn
    BY <1>4, <1>5, <2>1
  <2> QED BY <1>1, <2>2, HeapFails
<1>6. CASE ItemNoMemory
  BY <1>5, <1>6 DEF ItemNoMemory, Fail
<1>7. CASE ItemSimple
  <2>1. At("run", "item", "start") /\ CanAllocate
    BY <1>7 DEF ItemSimple
  <2>2. ASSUME NEW type, NEW codes, ReturnItem(type, codes)
        PROVE  HeapInv'
    <3>1. PICK freed, new, value :
            /\ freed = {} /\ new = {Fresh}
            /\ value = Item(type, tok.lo, tok.hi, codes, TRUE, <<>>, {Fresh})
      OBVIOUS
    <3>2. value.owns = new
      BY <3>1, NoParts DEF Item
    <3>3. Return(value) /\ heap' = (heap \ freed) \cup new /\ new \cap heap = {}
      BY <1>2, <2>1, <2>2, <3>1 DEF ReturnItem
    <3>4. Trade(Own(Top) \cup ValueOwn, value.owns, freed, new)
      BY <1>4, <2>1, <3>1, <3>2, <3>3 DEF Trade
    <3> QED BY <1>1, <3>3, <3>4, HeapSucceeds
  <2> QED BY <1>7, <2>2 DEF ItemSimple
<1>8. CASE ItemNotEncodable
  <2>1. At("run", "item", "start")
    BY <1>8 DEF ItemNotEncodable
  <2>2. CASE Continue(Top, Undefined) /\ UNCHANGED heap
    <3>1. PICK freed, new, f, c : freed = {} /\ new = {} /\ f = Top /\ c = Undefined
      OBVIOUS
    <3>2. /\ Continue(f, c) /\ FrameHeap(f) /\ f.fn = Top.fn
          /\ c.value.owns = {} /\ c.op = "undefined"
      BY <1>2, <2>2, <3>1, ControlsOwn
    <3>3. Trade(Own(Top) \cup ValueOwn, Own(f), freed, new)
      BY <1>4, <2>1, <2>2, <3>1 DEF Trade
    <3> QED BY <1>1, <3>2, <3>3, HeapContinues
  <2> QED BY <1>5, <1>8, <2>1, <2>2 DEF ItemNotEncodable
<1>9. CASE ItemOpen
  <2>1. At("run", "item", "start") /\ CanAllocate
    BY <1>9 DEF ItemOpen
  <2>2. PICK freed, new, c : freed = {} /\ new = {Fresh} /\ c = Call("intersection")
    OBVIOUS
  <2>3. PICK f : f = [Top EXCEPT !.pc = "nested", !.mem = new]
    OBVIOUS
  <2>4. Continue(f, c) /\ heap' = (heap \ freed) \cup new /\ new \cap heap = {}
    BY <1>2, <1>9, <2>1, <2>2, <2>3 DEF ItemOpen
  <2>5. /\ f.fn = "item" /\ f.pc = "nested" /\ f.parts = <<>> /\ f.mem = new
        /\ f.item = Top.item
    BY <1>1, <1>2, <1>3, <2>3 DEF FrameOK, FrameType
  <2>6. f.item.owns = {}
    BY <1>3, <2>5
  <2>7. FrameHeap(f) /\ Own(f) = new
    BY <2>5, <2>6, NoParts DEF FrameHeap, Shape, Own
  <2>8. Trade(Own(Top) \cup ValueOwn, Own(f), freed, new)
    BY <1>4, <2>1, <2>2, <2>4, <2>7 DEF Trade
  <2>9. c.value.owns = {} /\ c.op = "call" /\ c.fn = "intersection"
    BY <2>2, ControlsOwn
  <2> QED BY <1>1, <2>4, <2>5, <2>7, <2>8, <2>9, HeapContinues
<1>10. CASE ItemNested
  <2>1. control.op = "ok"
    BY <1>10 DEF ItemNested, At
  <2>2. Owned(control.value.parts) \subseteq control.value.owns
    BY <1>1, <2>1 DEF HeapInv, Callers, IsClass
  <2>3. PICK freed, new, mem :
          freed = {} /\ new = {} /\ mem = Top.mem \cup control.value.owns
    OBVIOUS
  <2>4. PICK value :
          value = Item("NESTED", Top.lo, pos, <<>>, control.value.positive,
                       control.value.parts, mem)
    OBVIOUS
  <2>5. Return(value) /\ UNCHANGED heap
    BY <1>10, <2>3, <2>4 DEF ItemNested
  <2>6. value.owns = mem
    <3>1. Owned(control.value.parts) \subseteq mem
      BY <2>2, <2>3
    <3> QED BY <2>4, <3>1, ValuesOwn
  <2>7. mem = Own(Top) \cup ValueOwn
    BY <1>3, <2>3 DEF ValueOwn
  <2>8. Trade(Own(Top) \cup ValueOwn, value.owns, freed, new)
    BY <2>3, <2>5, <2>6, <2>7 DEF Trade
  <2> QED BY <1>1, <2>5, <2>8, HeapSucceeds
<1>11. CASE ItemRejects
  BY <1>5, <1>11 DEF ItemRejects, Fail
<1> QED BY <1>6, <1>7, <1>8, <1>9, <1>10, <1>11 DEF ParseItem

(* What is stored in a frame goes over to its parts.                        *)
LEMMA StoredHeap ==
  ASSUME NEW f, FrameOK(f), PartsOK(f.parts), NEW part, Owned(f.parts) \cap part.owns = {}
  PROVE  /\ PartsOK(Stored(f, part).parts)
         /\ Owned(Stored(f, part).parts) = Owned(f.parts) \cup part.owns
         /\ Stored(f, part).parts # <<>>
         /\ Stored(f, part).fn = f.fn /\ Stored(f, part).mem = f.mem
         /\ Stored(f, part).item = f.item /\ Stored(f, part).pc = f.pc
<1>1. PICK parts, cap :
        parts = Append(f.parts, part) /\ cap = (IF HasRoom(f) THEN f.cap ELSE 2 * f.cap)
  OBVIOUS
<1>2. PICK g : g = [f EXCEPT !.parts = parts, !.cap = cap]
  OBVIOUS
<1>3. Stored(f, part) = g
  BY <1>1, <1>2 DEF Stored, FrameOK, FrameType
<1>4. /\ g.parts = parts /\ g.fn = f.fn /\ g.mem = f.mem /\ g.item = f.item
      /\ g.pc = f.pc
  BY <1>2 DEF FrameOK, FrameType
<1>5. PartsOK(parts) /\ Owned(parts) = Owned(f.parts) \cup part.owns /\ parts # <<>>
  BY <1>1, AddPart
<1> QED BY <1>3, <1>4, <1>5

(* Flushed: the item, if there is one, is stored.                           *)
LEMMA FlushedHeap ==
  ASSUME NEW f, FrameOK(f), FrameHeap(f)
  PROVE  /\ PartsOK(Flushed(f).parts) /\ Flushed(f).item.owns = {}
         /\ Flushed(f).mem = f.mem /\ Flushed(f).fn = f.fn
         /\ Owned(Flushed(f).parts) = Owned(f.parts) \cup f.item.owns
<1>1. PartsOK(f.parts) /\ Owned(f.parts) \cap f.item.owns = {}
  BY DEF FrameHeap, Shape
<1>2. CASE f.item = NoItem
  BY <1>1, <1>2, ValuesOwn DEF Flushed
<1>3. CASE f.item # NoItem
  <2>1. PICK g : g = Stored(f, f.item)
    OBVIOUS
  <2>2. /\ PartsOK(g.parts) /\ g.mem = f.mem /\ g.fn = f.fn
        /\ Owned(g.parts) = Owned(f.parts) \cup f.item.owns
    BY <1>1, <2>1, StoredHeap
  <2>3. PICK h : h = [g EXCEPT !.item = NoItem]
    OBVIOUS
  <2>4. h.item = NoItem /\ h.parts = g.parts /\ h.mem = g.mem /\ h.fn = g.fn
    BY <2>1, <2>3 DEF Stored, FrameOK, FrameType
  <2>5. Flushed(f) = h
    BY <1>3, <2>1, <2>3 DEF Flushed
  <2> QED BY <2>2, <2>4, <2>5, ValuesOwn
<1> QED BY <1>2, <1>3

LEMMA IntersectionHeap ==
  ASSUME IInv, HeapInv, ParseIntersection
  PROVE  HeapInv'
<1>1. stack # <<>> /\ Top.fn = "intersection"
  BY DEF ParseIntersection, IntersectionStart, IntersectionNegation, IntersectionEmpty,
         IntersectionFirst, IntersectionArray, IntersectionUnion, IntersectionLex,
         IntersectionNext, IntersectionEnd, At
<1>2. /\ FrameOK(Top) /\ FrameHeap(Top) /\ heap \subseteq Addresses
      /\ Own(Top) \cap ValueOwn = {} /\ FrameOwns = Own(Top)
      /\ control.op # "ok" => ValueOwn = {}
      /\ CanAllocate => Fresh \notin heap
  BY <1>1, Running
<1>3. /\ Top.item.owns = {} /\ Own(Top) = Top.mem \cup Owned(Top.parts)
      /\ PartsOK(Top.parts) /\ Owned(Top.parts) \cap Top.mem = {}
      /\ Top.parts = <<>> => Top.mem = {}
  BY <1>1, <1>2 DEF FrameHeap, Shape, Own
<1>4. /\ Top.pc \in {"start", "begin", "first"} => Top.parts = <<>> /\ Top.mem = {}
      /\ Top.parts = <<>> => Own(Top) = {}
  BY <1>2, <1>3, NoParts DEF FrameHeap, Shape
<1>5. ASSUME NEW f, NEW c, Continue(f, c), c.value.owns = {}, c.op # "ok",
             control.op # "ok", UNCHANGED heap, f.fn = Top.fn, f.parts = Top.parts,
             f.mem = Top.mem, f.item = Top.item,
             f.pc \in {"begin", "first"} => Top.pc \in {"start", "begin"}, f.pc # "start"
      PROVE  HeapInv'
  <2>1. Shape(f.fn, f.pc, Top.parts, Top.mem, Top.item.owns)
    BY <1>1, <1>3, <1>4, <1>5 DEF Shape
  <2> QED BY <1>1, <1>5, <2>1, HeapStays
<1>6. ASSUME NEW pc \in {"begin", "union", "unions", "next"}, NEW c, c.value.owns = {},
             Continue([Top EXCEPT !.pc = pc], c), c.op # "ok", control.op # "ok",
             UNCHANGED heap, pc = "begin" => Top.pc = "start"
      PROVE  HeapInv'
  <2>1. PICK f : f = [Top EXCEPT !.pc = pc]
    OBVIOUS
  <2>2. /\ f.fn = Top.fn /\ f.pc = pc /\ f.parts = Top.parts /\ f.mem = Top.mem
        /\ f.item = Top.item
    BY <1>2, <2>1 DEF FrameOK, FrameType
  <2>3. f.pc \in {"begin", "first"} => Top.pc \in {"start", "begin"}
    BY <1>6, <2>2
  <2> QED BY <1>5, <1>6, <2>1, <2>2, <2>3
<1>7. ASSUME NEW code, NEW owned, NEW span, FailAt(code, owned, span),
             owned = Own(Top) \cup ValueOwn
      PROVE  HeapInv'
  BY <1>1, <1>7, HeapFails
<1>8. CASE IntersectionStart
  BY <1>6, <1>8, ControlsOwn DEF IntersectionStart, At
<1>9. CASE IntersectionNegation
  <2>1. PICK f, c :
          f = [Top EXCEPT !.pc = "first", !.positive = FALSE]
            /\ c = CallLex("BEGIN_AFTER_NEGATION")
    OBVIOUS
  <2>2. /\ f.fn = Top.fn /\ f.pc = "first" /\ f.parts = Top.parts /\ f.mem = Top.mem
        /\ f.item = Top.item
    BY <1>2, <2>1 DEF FrameOK, FrameType
  <2>3. /\ Continue(f, c) /\ UNCHANGED heap /\ control.op = "lexed" /\ Top.pc = "begin"
        /\ c.value.owns = {} /\ c.op = "lex"
    BY <1>9, <2>1, ControlsOwn DEF IntersectionNegation, At
  <2> QED BY <1>5, <2>2, <2>3
<1>10. CASE IntersectionEmpty
  <2>1. Top.pc \in {"begin", "first"} /\ control.op = "lexed"
    BY <1>10 DEF IntersectionEmpty, At
  <2>2. PICK owned : owned = {}
    OBVIOUS
  <2>3. FailAt("EMPTY_CHAR_CLASS", owned, Span(Top.lo, tok.hi))
    BY <1>10, <2>2 DEF IntersectionEmpty
  <2>4. owned = Own(Top) \cup ValueOwn
    BY <1>2, <1>4, <2>1, <2>2
  <2> QED BY <1>7, <2>3, <2>4
<1>11. CASE IntersectionFirst
  BY <1>6, <1>11, ControlsOwn DEF IntersectionFirst, At
<1>12. CASE IntersectionArray
  <2>1. Own(Top) = {} /\ control.op = "ok"
    BY <1>4, <1>12 DEF IntersectionArray, At
  <2>2. CASE Fail(OutOfMemory, control.value.owns)
    <3>1. FailAt(OutOfMemory, control.value.owns, error_span)
            /\ control.value.owns = Own(Top) \cup ValueOwn
      BY <2>1, <2>2 DEF Fail, ValueOwn
    <3> QED BY <1>7, <3>1
  <2>3. CASE CanAllocate /\ heap' = heap \cup {Fresh}
             /\ Continue([Top EXCEPT !.pc = "unions", !.parts = <<control.value>>,
                                     !.cap = 1, !.mem = {Fresh}], Run)
    <3>1. PICK freed, new, u, one, c :
            freed = {} /\ new = {Fresh} /\ u = <<control.value>> /\ one = 1 /\ c = Run
      OBVIOUS
    <3>2. PICK f : f = [Top EXCEPT !.pc = "unions", !.parts = u, !.cap = one, !.mem = new]
      OBVIOUS
    <3>3. /\ f.fn = "intersection" /\ f.pc = "unions" /\ f.parts = u /\ f.mem = new
          /\ f.item = Top.item
      BY <1>1, <1>2, <3>2 DEF FrameOK, FrameType
    <3>4. PartsOK(u) /\ Owned(u) = ValueOwn /\ u # <<>>
      BY <3>1, OnePart DEF ValueOwn
    <3>5. /\ Continue(f, c) /\ c.value.owns = {} /\ c.op = "run"
          /\ heap' = (heap \ freed) \cup new /\ new \cap heap = {}
      BY <1>2, <2>3, <3>1, <3>2, ControlsOwn
    <3>6. ValueOwn \cap new = {}
      BY <1>1, <3>5, TopHeap
    <3>7. FrameHeap(f) /\ Own(f) = new \cup ValueOwn
      BY <1>3, <3>3, <3>4, <3>6 DEF FrameHeap, Shape, Own
    <3>8. Trade(Own(Top) \cup ValueOwn, Own(f), freed, new)
      BY <2>1, <3>1, <3>5, <3>7 DEF Trade
    <3> QED BY <1>1, <3>3, <3>5, <3>7, <3>8, HeapContinues
  <2> QED BY <1>12, <2>2, <2>3 DEF IntersectionArray
<1>13. CASE IntersectionUnion
  <2>1. CASE Fail(OutOfMemory, FrameOwns \cup control.value.owns)
    <3>1. FailAt(OutOfMemory, FrameOwns \cup control.value.owns, error_span)
            /\ FrameOwns \cup control.value.owns = Own(Top) \cup ValueOwn
      BY <1>2, <2>1 DEF Fail, ValueOwn
    <3> QED BY <1>7, <3>1
  <2>2. CASE UNCHANGED heap
             /\ Continue([Stored(Top, control.value) EXCEPT !.pc = "unions"], Run)
    <3>1. PICK freed, new, c, g :
            freed = {} /\ new = {} /\ c = Run /\ g = Stored(Top, control.value)
      OBVIOUS
    <3>2. PICK f : f = [g EXCEPT !.pc = "unions"]
      OBVIOUS
    <3>3. Owned(Top.parts) \cap control.value.owns = {}
      BY <1>2, <1>3 DEF ValueOwn
    <3>4. /\ PartsOK(g.parts) /\ Owned(g.parts) = Owned(Top.parts) \cup ValueOwn
          /\ g.parts # <<>> /\ g.fn = Top.fn /\ g.mem = Top.mem /\ g.item = Top.item
      BY <1>2, <1>3, <3>1, <3>3, StoredHeap DEF ValueOwn
    <3>5. /\ f.fn = g.fn /\ f.pc = "unions" /\ f.parts = g.parts /\ f.mem = g.mem
          /\ f.item = g.item
      BY <1>2, <3>1, <3>2 DEF FrameOK, FrameType, Stored
    <3>6. Continue(f, c) /\ c.value.owns = {} /\ c.op = "run" /\ UNCHANGED heap
      BY <2>2, <3>1, <3>2, ControlsOwn
    <3>7. FrameHeap(f) /\ Own(f) = Own(Top) \cup ValueOwn
      BY <1>1, <1>2, <1>3, <3>4, <3>5 DEF FrameHeap, Shape, Own
    <3>8. Trade(Own(Top) \cup ValueOwn, Own(f), freed, new)
      BY <3>1, <3>6, <3>7 DEF Trade
    <3>9. f.fn = Top.fn
      BY <3>4, <3>5
    <3> QED BY <1>1, <3>6, <3>7, <3>8, <3>9, HeapContinues
  <2> QED BY <1>13, <2>1, <2>2 DEF IntersectionUnion
<1>14. CASE IntersectionLex
  BY <1>6, <1>14, ControlsOwn DEF IntersectionLex, At
<1>15. CASE IntersectionNext
  BY <1>6, <1>15, ControlsOwn DEF IntersectionNext, At
<1>16. CASE IntersectionEnd
  <2>1. control.op = "run" /\ ValueOwn = {} /\ FrameOwns = Own(Top) \cup ValueOwn
    BY <1>2, <1>16 DEF IntersectionEnd, At
  <2>2. ASSUME NEW code, NEW span, FailAt(code, FrameOwns, span)
        PROVE  HeapInv'
    BY <1>7, <2>1, <2>2
  <2>3. CASE Return(Class(Top.positive, Top.parts, Top.mem)) /\ UNCHANGED heap
    <3>1. PICK freed, new, value :
            freed = {} /\ new = {} /\ value = Class(Top.positive, Top.parts, Top.mem)
      OBVIOUS
    <3>2. value.owns = Own(Top) \cup ValueOwn /\ IsClass(value)
      BY <1>3, <2>1, <3>1, ValuesOwn DEF IsClass
    <3>3. Return(value) /\ Trade(Own(Top) \cup ValueOwn, value.owns, freed, new)
      BY <2>3, <3>1, <3>2 DEF Trade
    <3> QED BY <1>1, <3>2, <3>3, HeapSucceeds
  <2> QED BY <1>16, <2>2, <2>3 DEF IntersectionEnd, Fail
<1> QED BY <1>8, <1>9, <1>10, <1>11, <1>12, <1>13, <1>14, <1>15, <1>16 DEF ParseIntersection

LEMMA UnionHeap ==
  ASSUME IInv, HeapInv, ParseUnion
  PROVE  HeapInv'
<1>1. stack # <<>> /\ Top.fn = "union"
  BY DEF ParseUnion, UnionStart, UnionItems, UnionRange, UnionRangeLexed, UnionRangeItem,
         UnionNext, UnionItem, UnionEnd, AtToken, At
<1>2. /\ FrameOK(Top) /\ FrameHeap(Top) /\ heap \subseteq Addresses
      /\ Own(Top) \cap ValueOwn = {} /\ FrameOwns = Own(Top)
      /\ control.op # "ok" => ValueOwn = {}
      /\ CanAllocate => Fresh \notin heap
  BY <1>1, Running
<1>3. /\ PartsOK(Top.parts) /\ Owned(Top.parts) \cap Top.mem = {}
      /\ (Owned(Top.parts) \cup Top.mem) \cap Top.item.owns = {}
      /\ Own(Top) = Top.mem \cup Owned(Top.parts) \cup Top.item.owns
      /\ Own(Top) \subseteq heap
  BY <1>1, <1>2, Running DEF FrameHeap, Shape, Own
<1>4. Top.pc = "start" => Top.parts = <<>> /\ Top.mem = {} /\ Top.item.owns = {}
  BY <1>2 DEF FrameHeap, Shape
<1>5. ASSUME NEW code, NEW owned, NEW span, FailAt(code, owned, span),
             owned = Own(Top) \cup ValueOwn
      PROVE  HeapInv'
  BY <1>1, <1>5, HeapFails
<1>6. ASSUME NEW code, NEW span, FailAt(code, FrameOwns, span), control.op # "ok"
      PROVE  HeapInv'
  <2>1. FrameOwns = Own(Top) \cup ValueOwn
    BY <1>2, <1>6
  <2> QED BY <1>5, <1>6, <2>1
<1>7. ASSUME NEW pc \in {"range_end", "range_item"}, NEW c, c.value.owns = {},
             Continue([Top EXCEPT !.pc = pc], c), c.op # "ok", control.op # "ok",
             UNCHANGED heap
      PROVE  HeapInv'
  <2>1. PICK f : f = [Top EXCEPT !.pc = pc]
    OBVIOUS
  <2>2. /\ f.fn = "union" /\ f.pc = pc /\ f.parts = Top.parts /\ f.mem = Top.mem
        /\ f.item = Top.item
    BY <1>1, <1>2, <2>1 DEF FrameOK, FrameType
  <2>3. Shape(f.fn, f.pc, Top.parts, Top.mem, Top.item.owns)
    BY <1>3, <1>7, <2>2 DEF Shape
  <2> QED BY <1>1, <1>7, <2>1, <2>2, <2>3, HeapStays
<1>8. AtToken => control.op # "ok"
  BY DEF AtToken, At
<1>9. CASE UnionStart
  <2>1. /\ Top.parts = <<>> /\ Top.mem = {} /\ Top.item.owns = {} /\ Own(Top) = {}
        /\ ValueOwn = {} /\ control.op = "run"
    BY <1>2, <1>3, <1>4, <1>9, NoParts DEF UnionStart, At
  <2>2. CASE Fail(OutOfMemory, {})
    <3>1. PICK owned : owned = {}
      OBVIOUS
    <3>2. FailAt(OutOfMemory, owned, error_span) /\ owned = Own(Top) \cup ValueOwn
      BY <2>1, <2>2, <3>1 DEF Fail
    <3> QED BY <1>5, <3>2
  <2>3. CASE CanAllocate /\ heap' = heap \cup {Fresh}
             /\ Return(Union(tok.lo, tok.lo, <<>>, {Fresh}))
    <3>1. PICK freed, new, value :
            freed = {} /\ new = {Fresh} /\ value = Union(tok.lo, tok.lo, <<>>, {Fresh})
      OBVIOUS
    <3>2. value.owns = new
      BY <3>1, NoParts DEF Union
    <3>3. Return(value) /\ heap' = (heap \ freed) \cup new /\ new \cap heap = {}
      BY <1>2, <2>3, <3>1
    <3>4. Trade(Own(Top) \cup ValueOwn, value.owns, freed, new)
      BY <2>1, <3>1, <3>2, <3>3 DEF Trade
    <3> QED BY <1>1, <3>3, <3>4, HeapSucceeds
  <2>4. CASE CanAllocate /\ heap' = heap \cup {Fresh}
             /\ Continue([Top EXCEPT !.pc = "items", !.mem = {Fresh}], Run)
    <3>1. PICK freed, new, c : freed = {} /\ new = {Fresh} /\ c = Run
      OBVIOUS
    <3>2. PICK f : f = [Top EXCEPT !.pc = "items", !.mem = new]
      OBVIOUS
    <3>3. /\ f.fn = "union" /\ f.pc = "items" /\ f.parts = <<>> /\ f.mem = new
          /\ f.item = Top.item
      BY <1>1, <1>2, <2>1, <3>2 DEF FrameOK, FrameType
    <3>4. FrameHeap(f) /\ Own(f) = new
      BY <2>1, <3>3, NoParts DEF FrameHeap, Shape, Own
    <3>5. /\ Continue(f, c) /\ c.value.owns = {} /\ c.op = "run"
          /\ heap' = (heap \ freed) \cup new /\ new \cap heap = {}
      BY <1>2, <2>4, <3>1, <3>2, ControlsOwn
    <3>6. Trade(Own(Top) \cup ValueOwn, Own(f), freed, new)
      BY <2>1, <3>1, <3>4, <3>5 DEF Trade
    <3> QED BY <1>1, <3>3, <3>4, <3>5, <3>6, HeapContinues
  <2> QED BY <1>9, <2>2, <2>3, <2>4 DEF UnionStart
<1>10. CASE UnionItems
  <2>1. Top.pc = "items" /\ control.op = "run" /\ ValueOwn = {}
    BY <1>2, <1>10 DEF UnionItems, At
  <2>2. CASE CanAllocate /\ heap' = heap \cup {Fresh}
             /\ Continue([Top EXCEPT !.pc = "token", !.mem = @ \cup {Fresh}, !.cap = 1], Run)
    <3>1. PICK freed, new, one, c, mem :
            /\ freed = {} /\ new = {Fresh} /\ one = 1 /\ c = Run
            /\ mem = Top.mem \cup {Fresh}
      OBVIOUS
    <3>2. PICK f : f = [Top EXCEPT !.pc = "token", !.mem = mem, !.cap = one]
      OBVIOUS
    <3>3. /\ f.fn = "union" /\ f.pc = "token" /\ f.parts = Top.parts /\ f.mem = mem
          /\ f.item = Top.item
      BY <1>1, <1>2, <3>2 DEF FrameOK, FrameType
    <3>4. /\ Continue(f, c) /\ c.value.owns = {} /\ c.op = "run"
          /\ heap' = (heap \ freed) \cup new /\ new \cap heap = {}
      BY <1>2, <2>2, <3>1, <3>2, ControlsOwn
    <3>5. mem = Top.mem \cup new
      BY <3>1
    <3>6. FrameHeap(f) /\ Own(f) = Own(Top) \cup new
      BY <1>3, <3>3, <3>4, <3>5 DEF FrameHeap, Shape, Own
    <3>7. Trade(Own(Top) \cup ValueOwn, Own(f), freed, new)
      BY <2>1, <3>1, <3>4, <3>6 DEF Trade
    <3> QED BY <1>1, <3>3, <3>4, <3>6, <3>7, HeapContinues
  <2> QED BY <1>6, <1>10, <2>1, <2>2 DEF UnionItems, Fail
<1>11. CASE UnionRange
  <2>1. CASE Fail("PARSER_BUG", FrameOwns)
    BY <1>6, <1>8, <1>11, <2>1 DEF UnionRange, Fail
  <2>2. CASE Continue([Top EXCEPT !.pc = "range_end"], CallLex("WAIT_RANGE_END"))
             /\ UNCHANGED heap
    BY <1>7, <1>8, <1>11, <2>2, ControlsOwn DEF UnionRange
  <2> QED BY <1>11, <2>1, <2>2 DEF UnionRange
<1>12. CASE UnionRangeLexed
  <2>1. control.op = "lexed"
    BY <1>12 DEF UnionRangeLexed, At
  <2> QED BY <1>6, <1>7, <1>12, <2>1, ControlsOwn DEF UnionRangeLexed
<1>13. CASE UnionRangeItem
  <2>1. ASSUME NEW code, NEW span, FailAt(code, FrameOwns \cup control.value.owns, span)
        PROVE  HeapInv'
    <3>1. FrameOwns \cup control.value.owns = Own(Top) \cup ValueOwn
      BY <1>2 DEF ValueOwn
    <3> QED BY <1>5, <2>1, <3>1
  <2> DEFINE part == RangeItem(Top.item, control.value)
  <2>2. CASE heap' = heap \ control.value.owns
             /\ Continue([Stored(Top, part) EXCEPT !.pc = "token", !.item = NoItem],
                         CallLex("WAIT_RANGE_BEGIN"))
    <3>1. part.owns = Top.item.owns
      BY NoParts DEF part, RangeItem, Item
    <3> HIDE DEF part
    <3>2. PICK freed, new, c, g :
            /\ freed = control.value.owns /\ new = {} /\ c = CallLex("WAIT_RANGE_BEGIN")
            /\ g = Stored(Top, part)
      OBVIOUS
    <3>3. PICK f : f = [g EXCEPT !.pc = "token", !.item = NoItem]
      OBVIOUS
    <3>4. Owned(Top.parts) \cap part.owns = {}
      BY <1>3, <3>1
    <3>5. /\ PartsOK(g.parts) /\ Owned(g.parts) = Owned(Top.parts) \cup part.owns
          /\ g.fn = Top.fn /\ g.mem = Top.mem
      BY <1>2, <1>3, <3>2, <3>4, StoredHeap
    <3>6. /\ f.fn = g.fn /\ f.pc = "token" /\ f.parts = g.parts /\ f.mem = g.mem
          /\ f.item = NoItem
      BY <1>2, <3>2, <3>3 DEF FrameOK, FrameType, Stored
    <3>7. f.item.owns = {}
      BY <3>6, ValuesOwn
    <3>8. FrameHeap(f) /\ Own(f) = Own(Top)
      BY <1>1, <1>3, <3>1, <3>5, <3>6, <3>7 DEF FrameHeap, Shape, Own
    <3>9. /\ Continue(f, c) /\ c.value.owns = {} /\ c.op = "lex"
          /\ heap' = (heap \ freed) \cup new /\ f.fn = Top.fn
      BY <2>2, <3>2, <3>3, <3>5, <3>6, ControlsOwn
    <3>10. Trade(Own(Top) \cup ValueOwn, Own(f), freed, new)
      BY <1>2, <3>2, <3>8, <3>9 DEF Trade, ValueOwn
    <3> QED BY <1>1, <3>8, <3>9, <3>10, HeapContinues
  <2> QED BY <1>13, <2>1, <2>2 DEF UnionRangeItem, Fail
<1>14. AtToken => ValueOwn = {}
  BY <1>2, <1>8
<1>15. CASE UnionNext
  <2>1. AtToken /\ (GrowthFails => Fail(OutOfMemory, FrameOwns))
    BY <1>15 DEF UnionNext, GrowthFails
  <2>2. CASE Continue([Flushed(Top) EXCEPT !.pc = "item", !.begin = tok], Call("item"))
             /\ UNCHANGED heap
    <3>1. PICK freed, new, c, g : freed = {} /\ new = {} /\ c = Call("item") /\ g = Flushed(Top)
      OBVIOUS
    <3>2. PICK f : f = [g EXCEPT !.pc = "item", !.begin = tok]
      OBVIOUS
    <3>3. /\ PartsOK(g.parts) /\ g.item.owns = {} /\ g.mem = Top.mem /\ g.fn = "union"
          /\ Owned(g.parts) = Owned(Top.parts) \cup Top.item.owns
      BY <1>1, <1>2, <3>1, FlushedHeap
    <3>4. /\ f.fn = g.fn /\ f.pc = "item" /\ f.parts = g.parts /\ f.mem = g.mem
          /\ f.item = g.item
      BY <1>2, <3>1, <3>2 DEF FrameOK, FrameType, Flushed, Stored
    <3>5. FrameHeap(f) /\ Own(f) = Own(Top) /\ f.fn = "union"
      BY <1>1, <1>3, <3>3, <3>4 DEF FrameHeap, Shape, Own
    <3>6. /\ Continue(f, c) /\ c.value.owns = {} /\ c.op = "call" /\ UNCHANGED heap
      BY <2>2, <3>1, <3>2, ControlsOwn
    <3>7. Trade(Own(Top) \cup ValueOwn, Own(f), freed, new)
      BY <1>14, <2>1, <3>1, <3>5, <3>6 DEF Trade
    <3> QED BY <1>1, <3>5, <3>6, <3>7, HeapContinues
  <2> QED BY <1>6, <1>8, <1>15, <2>1, <2>2 DEF UnionNext, Fail
<1>16. CASE UnionItem
  <2>1. Top.item.owns = {}
    BY <1>1, <1>2, <1>16 DEF UnionItem, At, FrameHeap, Shape
  <2>2. PICK freed, new, c, item :
          /\ freed = {} /\ new = {} /\ c = CallLex("HAS_RANGE_BEGIN")
          /\ item = control.value
    OBVIOUS
  <2>3. PICK f : f = [Top EXCEPT !.pc = "token", !.item = item]
    OBVIOUS
  <2>4. /\ f.fn = "union" /\ f.pc = "token" /\ f.parts = Top.parts /\ f.mem = Top.mem
        /\ f.item = item
    BY <1>1, <1>2, <2>3 DEF FrameOK, FrameType
  <2>5. f.item.owns = ValueOwn
    BY <2>2, <2>4 DEF ValueOwn
  <2>6. FrameHeap(f) /\ Own(f) = Own(Top) \cup ValueOwn
    BY <1>2, <1>3, <2>1, <2>4, <2>5 DEF FrameHeap, Shape, Own
  <2>7. Continue(f, c) /\ c.value.owns = {} /\ c.op = "lex" /\ UNCHANGED heap
    BY <1>16, <2>2, <2>3, ControlsOwn DEF UnionItem
  <2>8. Trade(Own(Top) \cup ValueOwn, Own(f), freed, new)
    BY <2>2, <2>6, <2>7 DEF Trade
  <2> QED BY <1>1, <2>4, <2>6, <2>7, <2>8, HeapContinues
<1>17. CASE UnionEnd
  <2>1. AtToken /\ (GrowthFails => Fail(OutOfMemory, FrameOwns))
    BY <1>17 DEF UnionEnd, GrowthFails
  <2>2. PICK g : g = Flushed(Top)
    OBVIOUS
  <2>3. CASE Return(Union(Top.lo, tok.lo, g.parts, g.mem)) /\ UNCHANGED heap
    <3>1. PICK freed, new, value :
            freed = {} /\ new = {} /\ value = Union(Top.lo, tok.lo, g.parts, g.mem)
      OBVIOUS
    <3>2. g.mem = Top.mem /\ Owned(g.parts) = Owned(Top.parts) \cup Top.item.owns
      BY <1>2, <2>2, FlushedHeap
    <3>3. value.owns = Own(Top) \cup ValueOwn
      BY <1>3, <1>14, <2>1, <3>1, <3>2, ValuesOwn
    <3>4. Return(value) /\ Trade(Own(Top) \cup ValueOwn, value.owns, freed, new)
      BY <2>3, <3>1, <3>3 DEF Trade
    <3> QED BY <1>1, <3>4, HeapSucceeds
  <2> QED BY <1>6, <1>8, <1>17, <2>1, <2>2, <2>3 DEF UnionEnd, Fail
<1> QED BY <1>9, <1>10, <1>11, <1>12, <1>13, <1>15, <1>16, <1>17 DEF ParseUnion

-----------------------------------------------------------------------------
(* Calls, errors and the lexer.                                              *)

(* The frames stay what they are, and nothing is on its way to a caller.     *)
LEMMA HeapRests ==
  ASSUME HeapInv, UNCHANGED <<stack, heap>>, ValueOwn = {}, ValueOwn' = {},
         control'.op \notin {"call", "ok"}
  PROVE  HeapInv'
<1>1. Held(Len(stack))' = Held(Len(stack)) /\ Top' = Top
  BY DEF Held, Top
<1>2. Parts'
  BY <1>1 DEF HeapInv, Parts
<1>3. Callers'
  BY <1>1 DEF HeapInv, Callers
<1> QED BY <1>2, <1>3 DEF HeapInv

LEMMA EnterHeap ==
  ASSUME IInv, HeapInv, EnterFunction
  PROVE  HeapInv'
<1> DEFINE n == Len(stack)
<1>1. /\ control.op = "call" /\ ValueOwn = {} /\ UNCHANGED heap
      /\ stack' = Append(stack, Frame(control.fn)) /\ control' = Run
  BY DEF EnterFunction, HeapInv, Callers
<1>2. PICK f : f = Frame(control.fn)
  OBVIOUS
<1>3. /\ f.pc = "start" /\ f.parts = <<>> /\ f.mem = {} /\ f.item = NoItem
      /\ f.fn = control.fn
  BY <1>2 DEF Frame
<1>4. f.item.owns = {}
  BY <1>3, ValuesOwn
<1>5. FrameHeap(f) /\ Own(f) = {}
  BY <1>3, <1>4, NoParts DEF FrameHeap, Shape, Own
<1>6. n \in Nat
  BY StackLen DEF IInv, StackInv, FramesOK
<1>7. /\ stack' # <<>> /\ Len(stack') = n + 1 /\ stack'[n + 1] = f
      /\ \A i \in 1 .. n : stack'[i] = stack[i]
  BY <1>1, <1>2, StackPush DEF IInv, StackInv, FramesOK
<1>8. ValueOwn' = {} /\ control'.op = "run"
  BY <1>1, ControlsOwn DEF ValueOwn
<1>9. \A i \in 1 .. n + 1 : i = n + 1 \/ i \in 1 .. n
  BY <1>6
<1>10. \A i \in 1 .. n : i \in 1 .. n + 1
  BY <1>6
<1>11. ASSUME NEW i \in 1 .. n, stack[i].fn = "item", n + 1 = i + 1
       PROVE  f.fn = "intersection"
  <2>1. i = n /\ Top = stack[i] /\ stack # <<>>
    BY <1>6, <1>11 DEF Top
  <2> QED BY <1>1, <1>3, <1>11, <2>1 DEF HeapInv, Callers
<1>12. \A i, j \in 1 .. n :
         j = i + 1 /\ stack[i].fn = "item" => stack[j].fn = "intersection"
  BY DEF HeapInv, Callers
<1>13. \A i, j \in 1 .. n : i # j => Own(stack[i]) \cap Own(stack[j]) = {}
  BY DEF HeapInv, Parts
<1>14. heap = Held(n) /\ \A i \in 1 .. n : FrameHeap(stack[i])
  BY <1>1 DEF HeapInv, Parts
<1> HIDE DEF n
<1>15. Held(Len(stack))' = Held(n)
  <2>1. Held(Len(stack))' = UNION {Own(stack'[i]) : i \in 1 .. n + 1}
    BY <1>7 DEF Held
  <2>2. Held(n) = UNION {Own(stack'[i]) : i \in 1 .. n}
    BY <1>7 DEF Held
  <2>3. Own(stack'[n + 1]) = {}
    BY <1>5, <1>7
  <2> QED BY <1>9, <1>10, <2>1, <2>2, <2>3
<1>16. ASSUME NEW i \in 1 .. n + 1, NEW j \in 1 .. n + 1, i # j
       PROVE  Own(stack'[i]) \cap Own(stack'[j]) = {}
  <2>1. CASE i \in 1 .. n /\ j \in 1 .. n
    BY <1>7, <1>13, <1>16, <2>1
  <2>2. CASE i = n + 1 \/ j = n + 1
    BY <1>5, <1>7, <2>2
  <2> QED BY <1>9, <2>1, <2>2
<1>17. Parts'
  BY <1>1, <1>7, <1>8, <1>14, <1>15, <1>16 DEF Parts
<1>18. ASSUME NEW i \in 1 .. n + 1, NEW j \in 1 .. n + 1, j = i + 1, stack'[i].fn = "item"
       PROVE  stack'[j].fn = "intersection"
  <2>1. i \in 1 .. n
    BY <1>6, <1>18
  <2>2. CASE j \in 1 .. n
    BY <1>7, <1>12, <1>18, <2>1, <2>2
  <2>3. CASE j = n + 1
    BY <1>7, <1>11, <1>18, <2>1, <2>3
  <2> QED BY <1>9, <2>2, <2>3
<1>19. Callers'
  BY <1>7, <1>8, <1>18 DEF Callers
<1>20. \A i \in 1 .. n + 1 : FrameHeap(stack'[i])
  BY <1>5, <1>7, <1>9, <1>14
<1> QED BY <1>7, <1>17, <1>19, <1>20 DEF HeapInv

LEMMA RejectHeap ==
  ASSUME HeapInv, RejectDepth
  PROVE  HeapInv'
<1>1. UNCHANGED <<stack, heap>> /\ control.op = "call" /\ control'.op = "error"
  BY ControlsOwn DEF RejectDepth
<1>2. ValueOwn = {} /\ ValueOwn' = {}
  BY <1>1, ControlsOwn DEF RejectDepth, HeapInv, Callers, ValueOwn
<1> QED BY <1>1, <1>2, HeapRests

LEMMA PropagateHeap ==
  ASSUME IInv, HeapInv, PropagateError
  PROVE  HeapInv'
<1>1. stack # <<>> /\ control.op = "error" /\ FailAt(control.code, FrameOwns, error_span)
  BY DEF PropagateError, Fail
<1>2. FrameOwns = Own(Top) \cup ValueOwn
  BY <1>1, Running
<1> QED BY <1>1, <1>2, HeapFails

LEMMA LexHeap ==
  ASSUME HeapInv, Lex
  PROVE  HeapInv'
<1>1. UNCHANGED <<stack, heap>> /\ control.op = "lex"
  BY DEF Lex, LexEnd, LexInBrace, LexNegation, LexRangeHyphen, LexLiteralHyphen,
         LexIntersection, LexOpen, LexClose, LexLiteral, LexEscape, LexUnicodeEscape,
         LexContinuation, LexError, LexingSymbol, Lexing, ReturnToken, LexFails,
         LexFrameVars
<1>2. \/ control' = Lexed
      \/ control' = control
      \/ \E code : control' = Error(code)
  BY DEF Lex, LexEnd, LexInBrace, LexNegation, LexRangeHyphen, LexLiteralHyphen,
         LexIntersection, LexOpen, LexClose, LexLiteral, LexEscape, LexUnicodeEscape,
         LexContinuation, LexError, ReturnToken, LexFails
<1>3. control'.op \in {"lex", "lexed", "error"}
  BY <1>1, <1>2, ControlsOwn
<1>4. ValueOwn = {} /\ ValueOwn' = {}
  BY <1>1, <1>2, ControlsOwn DEF HeapInv, Callers, ValueOwn
<1> QED BY <1>1, <1>3, <1>4, HeapRests

LEMMA HeapStep ==
  ASSUME IInv, HeapInv, [Next]_vars
  PROVE  HeapInv'
<1>1. CASE UNCHANGED vars
  <2>1. UNCHANGED <<stack, control, heap>>
    BY <1>1 DEF vars
  <2>2. Held(Len(stack))' = Held(Len(stack)) /\ Top' = Top /\ ValueOwn' = ValueOwn
    BY <2>1 DEF Held, Top, ValueOwn
  <2>3. Parts' /\ Callers'
    BY <2>1, <2>2 DEF HeapInv, Parts, Callers
  <2> QED BY <2>1, <2>3 DEF HeapInv
<1> QED BY <1>1, LexHeap, EnterHeap, RejectHeap, PropagateHeap, ItemHeap, UnionHeap,
        IntersectionHeap DEF Next

LEMMA HeapStarts ==
  ASSUME Init
  PROVE  HeapInv
<1>1. stack = <<>> /\ Len(stack) = 0 /\ 1 .. Len(stack) = {} /\ heap = {}
  BY DEF Init
<1>2. ValueOwn = {} /\ control.op = "call"
  BY ControlsOwn DEF Init, ValueOwn
<1>3. Held(Len(stack)) = {}
  BY <1>1 DEF Held
<1> QED BY <1>1, <1>2, <1>3 DEF HeapInv, Parts, Callers

LEMMA HeapHolds == Spec => []HeapInv
BY HeapStarts, HeapStep, Invariance, PTL DEF Spec

LEMMA OneOwner ==
  ASSUME IInv, HeapInv, NoEmptyArray
  PROVE  HeapHasOneOwner
<1> DEFINE n == Len(stack)
           Holds(f) == f.mem \cup Owned(f.parts) \cup f.item.owns
           F == [i \in DOMAIN stack |-> Holds(stack[i])]
           G == <<control.value.owns>>
           held == F \o G
<1>1. n \in Nat /\ DOMAIN stack = 1 .. n
  BY StackLen DEF IInv, StackInv, FramesOK
<1>2. /\ heap = Held(n) \cup ValueOwn /\ Held(n) \cap ValueOwn = {}
      /\ \A i, j \in 1 .. n : i # j => Own(stack[i]) \cap Own(stack[j]) = {}
  BY DEF HeapInv, Parts
<1>3. \A i \in 1 .. n : Own(stack[i]) \subseteq Held(n)
  BY DEF Held
<1>4. heap \subseteq Addresses
  BY DEF IInv, Scalars
<1>5. F \in Seq(SUBSET Addresses) /\ Len(F) = n /\ \A i \in 1 .. n : F[i] = Own(stack[i])
  <2>1. \A i \in 1 .. n : Holds(stack[i]) = Own(stack[i])
    BY DEF Own
  <2>2. F = [i \in 1 .. n |-> Holds(stack[i])]
    BY <1>1
  <2> HIDE DEF Holds
  <2>3. \A i \in 1 .. n : F[i] = Own(stack[i]) /\ F[i] \in SUBSET Addresses
    BY <1>2, <1>3, <1>4, <2>1, <2>2
  <2> QED BY <1>1, <2>2, <2>3
<1>6. G \in Seq(SUBSET Addresses) /\ Len(G) = 1 /\ G[1] = ValueOwn
  BY <1>2, <1>4 DEF ValueOwn
<1>7. held = F \o G
  OBVIOUS
<1>8. \A i \in DOMAIN stack :
        /\ Len(stack[i].parts) <= stack[i].cap
        /\ \A j, k \in DOMAIN stack[i].parts :
             j # k => stack[i].parts[j].owns \cap stack[i].parts[k].owns = {}
  <2>1. ASSUME NEW i \in DOMAIN stack
        PROVE  /\ Len(stack[i].parts) <= stack[i].cap
               /\ PartsOK(stack[i].parts)
    BY <1>1 DEF IInv, StackInv, FramesOK, FrameOK, FrameType, HeapInv, FrameHeap, Shape
  <2>2. \A parts : PartsOK(parts) => DOMAIN parts = 1 .. Len(parts)
    BY StackLen DEF PartsOK
  <2> QED BY <2>1, <2>2 DEF PartsOK
<1>9. HeapHasOneOwner <=>
        (control.op # "undefined" =>
           /\ heap = UNION {held[i] : i \in DOMAIN held}
           /\ \A i, j \in DOMAIN held : i # j => held[i] \cap held[j] = {})
  BY <1>8 DEF HeapHasOneOwner
<1> HIDE DEF F, G, held
<1>10. /\ DOMAIN held = 1 .. n + 1 /\ \A i \in 1 .. n : held[i] = Own(stack[i])
       /\ held[n + 1] = ValueOwn
  <2>1. PICK S : S = SUBSET Addresses
    OBVIOUS
  <2>2. F \in Seq(S) /\ G \in Seq(S)
    BY <1>5, <1>6, <2>1
  <2>3. /\ held \in Seq(S) /\ Len(held) = Len(F) + Len(G)
        /\ \A i \in 1 .. Len(F) + Len(G) :
             held[i] = IF i <= Len(F) THEN F[i] ELSE G[i - Len(F)]
    BY <1>7, <2>2, ConcatProperties
  <2>4. /\ DOMAIN held = 1 .. n + 1
        /\ \A i \in 1 .. n + 1 : held[i] = IF i <= n THEN F[i] ELSE G[i - n]
    BY <1>5, <1>6, <2>3
  <2>5. \A i \in 1 .. n : i \in 1 .. n + 1 /\ i <= n
    BY <1>1
  <2>6. \A i \in 1 .. n : held[i] = Own(stack[i])
    BY <1>5, <2>4, <2>5
  <2>7. held[n + 1] = G[1]
    BY <1>1, <2>4
  <2> QED BY <1>6, <2>4, <2>6, <2>7
<1> HIDE DEF n
<1>11. \A i \in 1 .. n + 1 : i \in 1 .. n \/ i = n + 1
  BY <1>1
<1>12. (\A i \in 1 .. n : i \in 1 .. n + 1) /\ n + 1 \in 1 .. n + 1
  BY <1>1
<1>13. Held(n) = UNION {Own(stack[i]) : i \in 1 .. n}
  BY DEF Held
<1>14. heap = UNION {held[i] : i \in DOMAIN held}
  <2>1. heap \subseteq UNION {held[i] : i \in DOMAIN held}
    BY <1>2, <1>10, <1>12, <1>13
  <2>2. UNION {held[i] : i \in DOMAIN held} \subseteq heap
    BY <1>2, <1>3, <1>10, <1>11
  <2> QED BY <2>1, <2>2
<1>15. ASSUME NEW i \in DOMAIN held, NEW j \in DOMAIN held, i # j
       PROVE  held[i] \cap held[j] = {}
  <2>1. CASE i \in 1 .. n /\ j \in 1 .. n
    BY <1>2, <1>10, <1>15, <2>1
  <2>2. \A k \in 1 .. n : held[k] \cap held[n + 1] = {}
    BY <1>2, <1>3, <1>10
  <2>3. i \in 1 .. n + 1 /\ j \in 1 .. n + 1
    BY <1>10
  <2> QED BY <1>11, <1>15, <2>1, <2>2, <2>3
<1> QED BY <1>9, <1>14, <1>15

-----------------------------------------------------------------------------
(* Locations.  ErrorsPointAtCause speaks of the end of a parse; an error is  *)
(* found in an item, long after the symbols it is about, from what tokens,   *)
(* items and frames remember.  So they must remember it right: a token the   *)
(* symbol it was read from, an item the symbols of its bounds, a class that  *)
(* is still empty the bracket it began with.                                 *)

Callee == [intersection |-> "union", union |-> "item", item |-> "intersection"]

CodeTokens == {"CODE", "CHAR_CLASS_LITERAL_CODE", "CHAR_CLASS_LITERAL_HYPHEN"}

TokenPoints(t) ==
  /\ t.lo <= t.hi /\ t.hi <= Len(pattern)
  /\ t.kind = "END" => t.lo = Len(pattern)
  /\ t.kind \notin {"END", "NONE", "CHAR_CLASS_INTERSECTION"} => t.hi = t.lo + 1
  /\ t.kind \in CodeTokens => t.code = Code(pattern[t.hi])
  /\ t.kind = "CHAR_CLASS_OPEN" => pattern[t.hi] = "["
  /\ t.kind = "CHAR_CLASS_CLOSE" => pattern[t.hi] = "]"
  /\ t.kind = "CHAR_CLASS_NEGATION" => pattern[t.hi] = "^"
  /\ t.kind = "CHAR_TYPE" => pattern[t.hi] = "TYPE"
  /\ t.kind = "POSIX_CHAR_CLASS" => pattern[t.hi] = "POSIX"

ItemPoints(item) ==
  /\ item.lo \in Nat /\ item.hi \in Nat /\ item.lo <= item.hi /\ item.hi <= pos
  /\ item.type = "CODE" => item.hi = item.lo + 1 /\ item.codes[1] = Code(pattern[item.hi])
  /\ item.type # "CODE" => pattern[item.hi] \in {"TYPE", "POSIX", "]"}

FramePoints(f) ==
  /\ f.lo <= pos
  /\ f.fn = "union" /\ f.item # NoItem => ItemPoints(f.item)
  /\ IsUnion(f, {"range_end", "range_item"}) => f.item # NoItem
  /\ IsUnion(f, {"range_item"}) => f.item.type = "CODE"

IsIntersection(f, pcs) == f.fn = "intersection" /\ f.pc \in pcs

(* What lies between the bracket a class began with and the place at.       *)
OnlyOpened(f, at) ==
  /\ IsIntersection(f, {"begin", "first"}) => pattern[f.lo + 1] = "[" /\ f.lo < at
  /\ IsIntersection(f, {"begin"}) => \A i \in f.lo + 2 .. at : pattern[i] = "CONTINUE"
  /\ IsIntersection(f, {"first"}) =>
       \E n \in f.lo + 1 .. at : \A i \in f.lo + 2 .. at :
         pattern[i] = IF i = n THEN "^" ELSE "CONTINUE"

RunPoints(f) ==
  /\ IsIntersection(f, {"start"}) => tok.kind = "CHAR_CLASS_OPEN" /\ f.lo = tok.lo
  /\ IsIntersection(f, {"unions"}) => tok.kind \in Terminators

(* What a function has read when it returns.                                 *)
ReturnPoints(fn, value) ==
  /\ fn = "item" => ItemPoints(value) /\ value.hi = pos
  /\ fn = "union" => tok.kind \in Terminators
  /\ fn = "intersection" => tok.kind = "CHAR_CLASS_CLOSE"

ErrorPoints ==
  control.code \notin {OutOfMemory, "PARSER_BUG"} =>
    \E e \in error_span : PointsAtCause(control.code, e.lo, e.hi)

ControlPoints ==
  /\ control.op \notin {"lex", "error"} => tok.hi = pos
  /\ control.op = "call" /\ control.fn = "intersection" => tok.kind = "CHAR_CLASS_OPEN"
  /\ control.op = "lex" => OnlyOpened(Top, pos)
  /\ control.op = "lexed" => OnlyOpened(Top, tok.lo)
  /\ control.op = "run" => RunPoints(Top)
  /\ control.op = "ok" /\ stack # <<>> => ReturnPoints(Callee[Top.fn], control.value)
  /\ control.op # "error" => error_span = {}
  /\ control.op = "error" => ErrorPoints

CallOrder ==
  /\ \A i, j \in 1 .. Len(stack) : j = i + 1 => stack[j].fn = Callee[stack[i].fn]
  /\ control.op = "call" /\ stack # <<>> => control.fn = Callee[Top.fn]

PointInv ==
  /\ TokenPoints(tok)
  /\ \A i \in 1 .. Len(stack) : FramePoints(stack[i])
  /\ CallOrder /\ ControlPoints

-----------------------------------------------------------------------------
(* A step of the running function.                                          *)

LEMMA CalleeIs ==
  /\ DOMAIN Callee = DOMAIN ProgramCounters
  /\ Callee["intersection"] = "union" /\ Callee["union"] = "item"
  /\ Callee["item"] = "intersection"
BY DEF Callee, ProgramCounters

LEMMA PointTop ==
  ASSUME IInv, PointInv, stack # <<>>
  PROVE  /\ FrameType(Top) /\ FramePoints(Top) /\ tok \in TokenType
         /\ pos \in Nat /\ Len(pattern) \in Nat /\ pos <= Len(pattern)
<1>1. Len(stack) \in 1 .. Len(stack)
  BY TopFacts DEF IInv
<1> QED BY <1>1, TopFacts DEF IInv, PointInv, Top, FrameOK, Scalars

(* The running function goes on: it calls, lexes or runs.                    *)
PointsOn(f, c) ==
  /\ f.fn = Top.fn /\ FramePoints(f)
  /\ c.op \in {"call", "lex", "run", "undefined"}
  /\ c.op = "call" => /\ c.fn = Callee[f.fn]
                      /\ c.fn = "intersection" => tok.kind = "CHAR_CLASS_OPEN"
  /\ c.op = "lex" => OnlyOpened(f, pos)
  /\ c.op = "run" => RunPoints(f)

LEMMA PointContinues ==
  ASSUME IInv, PointInv, stack # <<>>, control.op \in {"run", "ok", "lexed"},
         UNCHANGED <<LexerVars, tok>>, NEW f, NEW c, Continue(f, c), PointsOn(f, c)
  PROVE  PointInv'
<1> DEFINE n == Len(stack)
<1>1. n \in Nat /\ n >= 1 /\ n \in 1 .. n /\ IsSeq(stack)
  BY TopFacts DEF IInv, StackInv, FramesOK
<1>2. /\ stack' # <<>> /\ Len(stack') = n /\ stack'[n] = f
      /\ \A i \in 1 .. n - 1 : stack'[i] = stack[i]
  BY <1>1, StackReplace DEF Continue
<1>3. \A i \in 1 .. n : i = n \/ i \in 1 .. n - 1
  BY <1>1
<1>4. stack[n] = Top /\ Top' = f
  BY <1>2 DEF Top
<1>5. \A i \in 1 .. n : FramePoints(stack[i])
  BY DEF PointInv
<1>6. \A i, j \in 1 .. n : j = i + 1 => stack[j].fn = Callee[stack[i].fn]
  BY DEF PointInv, CallOrder
<1> HIDE DEF n
<1>7. control' = c /\ UNCHANGED <<pattern, pos, tok, error_span>>
  BY DEF Continue, LexerVars
<1>8. TokenPoints(tok)'
  BY <1>7 DEF PointInv, TokenPoints
<1>9. \A i \in 1 .. n : FramePoints(stack'[i])
  BY <1>2, <1>3, <1>5 DEF PointsOn
<1>10. (\A i \in 1 .. Len(stack) : FramePoints(stack[i]))'
  BY <1>2, <1>7, <1>9 DEF FramePoints, ItemPoints
<1>11. CallOrder'
  <2>1. \A i \in 1 .. n : stack'[i].fn = stack[i].fn
    BY <1>2, <1>3, <1>4 DEF PointsOn
  <2> QED BY <1>2, <1>4, <1>6, <1>7, <2>1 DEF CallOrder, PointsOn
<1>12. ControlPoints'
  <2>1. tok.hi = pos /\ error_span = {}
    BY DEF PointInv, ControlPoints
  <2>2. c.op = "lex" => OnlyOpened(Top, pos)'
    BY <1>4, <1>7 DEF PointsOn, OnlyOpened, IsIntersection
  <2>3. c.op = "run" => RunPoints(Top)'
    BY <1>4, <1>7 DEF PointsOn, RunPoints, IsIntersection
  <2> QED BY <1>4, <1>7, <2>1, <2>2, <2>3 DEF PointsOn, ControlPoints
<1> QED BY <1>2, <1>8, <1>10, <1>11, <1>12 DEF PointInv

(* It returns what the function that called it expects, or an error.         *)
LEMMA PointLeaves ==
  ASSUME IInv, PointInv, stack # <<>>, UNCHANGED <<LexerVars, tok>>, NEW c, Leave(c),
         c.op \in {"ok", "error"}, c.op = "error" => ErrorPoints',
         c.op = "ok" => /\ ReturnPoints(Top.fn, c.value) /\ tok.hi = pos
                        /\ error_span' = {}
  PROVE  PointInv'
<1> DEFINE n == Len(stack)
<1>1. n \in Nat /\ n >= 1 /\ n \in 1 .. n /\ IsSeq(stack)
  BY TopFacts DEF IInv, StackInv, FramesOK
<1>2. IsSeq(stack') /\ Len(stack') = n - 1 /\ \A i \in 1 .. n - 1 : stack'[i] = stack[i]
  BY <1>1, StackPop DEF Leave
<1>3. \A i \in 1 .. n - 1 : i \in 1 .. n
  BY <1>1
<1>4. \A i \in 1 .. n : FramePoints(stack[i])
  BY DEF PointInv
<1>5. \A i, j \in 1 .. n : j = i + 1 => stack[j].fn = Callee[stack[i].fn]
  BY DEF PointInv, CallOrder
<1>6. stack' # <<>> => Callee[Top'.fn] = Top.fn
  <2>1. ASSUME stack' # <<>>
        PROVE  Callee[Top'.fn] = Top.fn
    <3>1. n - 1 \in 1 .. n - 1
      BY <1>1, <1>2, <2>1, StackLen
    <3>2. Top' = stack[n - 1] /\ Top = stack[n]
      BY <1>2, <3>1 DEF Top
    <3>3. stack[n].fn = Callee[stack[n - 1].fn]
      BY <1>1, <1>3, <1>5, <3>1
    <3> QED BY <3>2, <3>3
  <2> QED BY <2>1
<1> HIDE DEF n
<1>7. control' = c /\ UNCHANGED <<pattern, pos, tok>>
  BY DEF Leave, LexerVars
<1>8. TokenPoints(tok)'
  BY <1>7 DEF PointInv, TokenPoints
<1>9. (\A i \in 1 .. Len(stack) : FramePoints(stack[i]))'
  <2>1. \A i \in 1 .. n - 1 : FramePoints(stack'[i])
    BY <1>2, <1>3, <1>4
  <2> QED BY <1>2, <1>7, <2>1 DEF FramePoints, ItemPoints
<1>10. CallOrder'
  BY <1>2, <1>3, <1>5, <1>7 DEF CallOrder
<1>11. ControlPoints'
  <2>1. c.op = "ok" /\ stack' # <<>> => ReturnPoints(Callee[Top.fn], control.value)'
    <3>1. \A fn : c.op = "ok" /\ ReturnPoints(fn, c.value) => ReturnPoints(fn, c.value)'
      BY <1>7 DEF ReturnPoints, ItemPoints
    <3> QED BY <1>6, <1>7, <3>1
  <2> QED BY <1>7, <2>1 DEF ControlPoints
<1> QED BY <1>2, <1>8, <1>9, <1>10, <1>11 DEF PointInv

LEMMA PointSucceeds ==
  ASSUME IInv, PointInv, stack # <<>>, control.op \in {"run", "ok", "lexed"},
         UNCHANGED <<LexerVars, tok>>, NEW value, Return(value),
         ReturnPoints(Top.fn, value)
  PROVE  PointInv'
<1>1. Leave(Ok(value)) /\ error_span' = error_span
  BY DEF Return
<1>2. tok.hi = pos /\ error_span = {}
  BY DEF PointInv, ControlPoints
<1>3. Ok(value).op = "ok" /\ Ok(value).value = value
  BY Controls
<1> QED BY <1>1, <1>2, <1>3, PointLeaves

LEMMA PointFailsAt ==
  ASSUME IInv, PointInv, stack # <<>>, UNCHANGED <<LexerVars, tok>>, NEW code, NEW owned,
         NEW lo, NEW hi, FailAt(code, owned, Span(lo, hi)), PointsAtCause(code, lo, hi)
  PROVE  PointInv'
<1>1. Leave(Error(code)) /\ error_span' = {[lo |-> lo, hi |-> hi]} /\ pattern' = pattern
  BY DEF FailAt, Span, LexerVars
<1>2. Error(code).op = "error" /\ Error(code).code = code /\ control' = Error(code)
  BY <1>1, Controls DEF Leave
<1>3. PICK e : e = [lo |-> lo, hi |-> hi]
  OBVIOUS
<1>4. e \in error_span' /\ e.lo = lo /\ e.hi = hi
  BY <1>1, <1>3
<1>5. PointsAtCause(code, e.lo, e.hi)'
  BY <1>1, <1>4 DEF PointsAtCause, IsEmptyClass
<1>6. ErrorPoints'
  BY <1>2, <1>4, <1>5 DEF ErrorPoints
<1> QED BY <1>1, <1>2, <1>6, PointLeaves

LEMMA PointFails ==
  ASSUME IInv, PointInv, stack # <<>>, UNCHANGED <<LexerVars, tok>>, NEW code, NEW owned,
         Fail(code, owned), code \in {OutOfMemory, "PARSER_BUG"}
  PROVE  PointInv'
<1>1. Leave(Error(code)) /\ control' = Error(code)
  BY DEF Fail, FailAt, Leave
<1>2. Error(code).op = "error" /\ Error(code).code = code
  BY Controls
<1>3. ErrorPoints'
  BY <1>1, <1>2 DEF ErrorPoints, OutOfMemory
<1> QED BY <1>1, <1>2, <1>3, PointLeaves

LEMMA PointPropagates ==
  ASSUME IInv, PointInv, PropagateError
  PROVE  PointInv'
<1>1. /\ stack # <<>> /\ control.op = "error" /\ UNCHANGED <<LexerVars, tok, error_span>>
      /\ Leave(Error(control.code)) /\ control' = Error(control.code)
  BY DEF PropagateError, Fail, FailAt, Leave, ParseVars
<1>2. Error(control.code).op = "error" /\ Error(control.code).code = control.code
  BY Controls
<1>3. ErrorPoints
  BY <1>1 DEF PointInv, ControlPoints
<1>4. \A code, lo, hi : PointsAtCause(code, lo, hi) => PointsAtCause(code, lo, hi)'
  BY <1>1 DEF PointsAtCause, IsEmptyClass, LexerVars
<1>5. ErrorPoints'
  BY <1>1, <1>2, <1>3, <1>4 DEF ErrorPoints, OutOfMemory
<1> QED BY <1>1, <1>2, <1>5, PointLeaves

-----------------------------------------------------------------------------
(* One lemma per function.                                                  *)

(* What a function knows while it runs.                                      *)
LEMMA PointRuns ==
  ASSUME IInv, PointInv, stack # <<>>, control.op \in {"run", "ok", "lexed"}
  PROVE  /\ TokenPoints(tok) /\ tok.hi = pos /\ error_span = {}
         /\ tok.lo \in Nat /\ tok.hi \in Nat
         /\ control.op = "run" => RunPoints(Top)
         /\ control.op = "lexed" => OnlyOpened(Top, tok.lo)
         /\ control.op = "ok" => ReturnPoints(Callee[Top.fn], control.value)
BY DEF PointInv, ControlPoints, IInv, Scalars, TokenType

(* A frame of which only the program counter and the array have changed.     *)
LEMMA PointFrame ==
  ASSUME IInv, PointInv, stack # <<>>, NEW f, f.fn = Top.fn, f.lo = Top.lo,
         f.item = Top.item \/ f.item = NoItem,
         f.pc \notin {"range_end", "range_item"}
  PROVE  FramePoints(f)
<1>1. FramePoints(Top)
  BY PointTop
<1> QED BY <1>1 DEF FramePoints, IsUnion

LEMMA ItemPoint ==
  ASSUME IInv, PointInv, ParseItem
  PROVE  PointInv'
<1>1. /\ stack # <<>> /\ Top.fn = "item" /\ control.op \in {"run", "ok"}
      /\ UNCHANGED <<LexerVars, tok>>
  BY DEF ParseItem, ItemNoMemory, ItemSimple, ItemNotEncodable, ItemOpen, ItemNested,
         ItemRejects, At, ParseVars
<1>2. /\ FrameType(Top) /\ FramePoints(Top) /\ pos \in Nat /\ Len(pattern) \in Nat
      /\ pos <= Len(pattern)
  BY <1>1, PointTop
<1>3. TokenPoints(tok) /\ tok.hi = pos /\ tok.lo \in Nat /\ tok.hi \in Nat
  BY <1>1, PointRuns
<1>4. CASE ItemNoMemory
  BY <1>1, <1>4, PointFails DEF ItemNoMemory
<1>5. CASE ItemSimple
  <2>1. PICK type, codes :
          /\ Return(Item(type, tok.lo, tok.hi, codes, TRUE, <<>>, {Fresh}))
          /\ type = "CODE" => tok.kind \in CodeTokens /\ codes[1] = tok.code
          /\ type # "CODE" => tok.kind = type /\ type \in {"CHAR_TYPE", "POSIX_CHAR_CLASS"}
    BY <1>5 DEF ItemSimple, ReturnItem, CodeTokens
  <2>2. PICK item : item = Item(type, tok.lo, tok.hi, codes, TRUE, <<>>, {Fresh})
    OBVIOUS
  <2>3. item.lo = tok.lo /\ item.hi = tok.hi /\ item.type = type /\ item.codes = codes
    BY <2>2 DEF Item
  <2>4. tok.lo <= tok.hi
    BY <1>3 DEF TokenPoints
  <2>5. CASE type = "CODE"
    <3>1. tok.hi = tok.lo + 1 /\ tok.code = Code(pattern[tok.hi])
      BY <1>3, <2>1, <2>5 DEF TokenPoints, CodeTokens
    <3>2. ItemPoints(item)
      BY <1>3, <2>1, <2>3, <2>4, <2>5, <3>1 DEF ItemPoints
    <3> QED BY <1>1, <1>3, <2>1, <2>2, <2>3, <3>2, PointSucceeds DEF ReturnPoints
  <2>6. CASE type # "CODE"
    <3>1. pattern[tok.hi] \in {"TYPE", "POSIX"}
      BY <1>3, <2>1, <2>6 DEF TokenPoints
    <3>2. ItemPoints(item)
      BY <1>3, <2>3, <2>4, <2>6, <3>1 DEF ItemPoints
    <3> QED BY <1>1, <1>3, <2>1, <2>2, <2>3, <3>2, PointSucceeds DEF ReturnPoints
  <2> QED BY <2>5, <2>6
<1>6. CASE ItemNotEncodable
  <2>1. CASE FailAt("INVALID_CODE_POINT", {}, Span(tok.lo, tok.hi))
    <3>1. tok.code = Code(pattern[tok.hi]) /\ ~IsEncodable(tok.code)
      BY <1>3, <1>6 DEF ItemNotEncodable, TokenPoints, CodeTokens
    <3>2. PointsAtCause("INVALID_CODE_POINT", tok.lo, tok.hi)
      BY <1>3, <3>1 DEF TokenPoints, PointsAtCause
    <3> QED BY <1>1, <2>1, <3>2, PointFailsAt
  <2>2. CASE Continue(Top, Undefined)
    <3>1. PointsOn(Top, Undefined)
      BY <1>2, Controls DEF PointsOn
    <3> QED BY <1>1, <2>2, <3>1, PointContinues
  <2> QED BY <1>6, <2>1, <2>2 DEF ItemNotEncodable
<1>7. CASE ItemOpen
  <2>1. PICK mem : mem = {Fresh}
    OBVIOUS
  <2>2. PICK f : f = [Top EXCEPT !.pc = "nested", !.mem = mem]
    OBVIOUS
  <2>3. Continue(f, Call("intersection")) /\ tok.kind = "CHAR_CLASS_OPEN"
    BY <1>7, <2>1, <2>2 DEF ItemOpen
  <2>4. f.fn = Top.fn /\ f.lo = Top.lo /\ f.item = Top.item /\ f.pc = "nested"
    BY <1>2, <2>2 DEF FrameType
  <2>5. FramePoints(f)
    BY <1>1, <2>4, PointFrame
  <2>6. PointsOn(f, Call("intersection"))
    BY <1>1, <2>3, <2>4, <2>5, CalleeIs, Controls, Counters DEF PointsOn
  <2> QED BY <1>1, <2>3, <2>6, PointContinues
<1>8. CASE ItemNested
  <2>1. control.op = "ok"
    BY <1>8 DEF ItemNested, At
  <2>2. tok.kind = "CHAR_CLASS_CLOSE"
    BY <1>1, <2>1, PointRuns, CalleeIs DEF ReturnPoints
  <2>3. PICK positive, parts, mem :
          Return(Item("NESTED", Top.lo, pos, <<>>, positive, parts, mem))
    BY <1>8 DEF ItemNested
  <2>4. PICK item : item = Item("NESTED", Top.lo, pos, <<>>, positive, parts, mem)
    OBVIOUS
  <2>5. item.lo = Top.lo /\ item.hi = pos /\ item.type = "NESTED"
    BY <2>4 DEF Item
  <2>6. Top.lo \in Nat /\ Top.lo <= pos
    BY <1>2 DEF FrameType, FramePoints
  <2>7. ItemPoints(item)
    BY <1>2, <1>3, <2>2, <2>5, <2>6 DEF ItemPoints, TokenPoints
  <2> QED BY <1>1, <2>3, <2>4, <2>5, <2>7, PointSucceeds DEF ReturnPoints
<1>9. CASE ItemRejects
  BY <1>1, <1>9, PointFails DEF ItemRejects
<1> QED BY <1>4, <1>5, <1>6, <1>7, <1>8, <1>9 DEF ParseItem

LEMMA IntersectionPoint ==
  ASSUME IInv, PointInv, ParseIntersection
  PROVE  PointInv'
<1>1. /\ stack # <<>> /\ Top.fn = "intersection" /\ control.op \in {"run", "ok", "lexed"}
      /\ UNCHANGED <<LexerVars, tok>>
  BY DEF ParseIntersection, IntersectionStart, IntersectionNegation, IntersectionEmpty,
         IntersectionFirst, IntersectionArray, IntersectionUnion, IntersectionLex,
         IntersectionNext, IntersectionEnd, At, ParseVars
<1>2. /\ FrameType(Top) /\ FramePoints(Top) /\ pos \in Nat /\ Len(pattern) \in Nat
      /\ pos <= Len(pattern) /\ Top.lo \in Nat
  BY <1>1, PointTop DEF FrameType
<1>3. /\ TokenPoints(tok) /\ tok.hi = pos /\ tok.lo \in Nat /\ tok.hi \in Nat
      /\ tok.kind \in TokenKinds
  BY <1>1, PointRuns DEF IInv, Scalars, TokenType
<1>4. ASSUME NEW f, f.fn = Top.fn, f.lo = Top.lo, f.item = Top.item,
             f.pc \in {"begin", "first", "union", "unions", "next"}
      PROVE  FramePoints(f)
  BY <1>1, <1>4, PointFrame
<1>5. ASSUME NEW f, f.fn = Top.fn, f.lo = Top.lo, f.item = Top.item, f.pc = "union",
             Continue(f, Call("union"))
      PROVE  PointInv'
  <2>1. PointsOn(f, Call("union"))
    BY <1>1, <1>4, <1>5, CalleeIs, Controls, Counters DEF PointsOn
  <2> QED BY <1>1, <1>5, <2>1, PointContinues
<1>6. ASSUME NEW f, f.fn = Top.fn, f.lo = Top.lo, f.item = Top.item, f.pc = "unions",
             Continue(f, Run), tok.kind \in Terminators
      PROVE  PointInv'
  <2>1. RunPoints(f)
    BY <1>6 DEF RunPoints, IsIntersection
  <2>2. PointsOn(f, Run)
    BY <1>1, <1>4, <1>6, <2>1, Controls DEF PointsOn
  <2> QED BY <1>1, <1>6, <2>2, PointContinues
<1>7. \A pc : [Top EXCEPT !.pc = pc].fn = Top.fn /\ [Top EXCEPT !.pc = pc].lo = Top.lo
         /\ [Top EXCEPT !.pc = pc].item = Top.item /\ [Top EXCEPT !.pc = pc].pc = pc
  BY <1>2 DEF FrameType
<1>8. CASE IntersectionStart
  <2>1. PICK f : f = [Top EXCEPT !.pc = "begin"]
    OBVIOUS
  <2>2. f.fn = Top.fn /\ f.lo = Top.lo /\ f.item = Top.item /\ f.pc = "begin"
    BY <1>7, <2>1
  <2>3. tok.kind = "CHAR_CLASS_OPEN" /\ Top.lo = tok.lo
    BY <1>1, <1>8, PointRuns DEF IntersectionStart, At, RunPoints, IsIntersection
  <2>4. tok.hi = tok.lo + 1 /\ pattern[tok.hi] = "["
    BY <1>3, <2>3 DEF TokenPoints
  <2>5. OnlyOpened(f, pos)
    BY <1>2, <1>3, <2>2, <2>3, <2>4 DEF OnlyOpened, IsIntersection
  <2>6. PointsOn(f, CallLex("BEGIN"))
    BY <1>4, <2>2, <2>5, Controls DEF PointsOn, States
  <2>7. Continue(f, CallLex("BEGIN"))
    BY <1>8, <2>1 DEF IntersectionStart
  <2> QED BY <1>1, <2>6, <2>7, PointContinues
<1>9. CASE IntersectionNegation
  <2>1. PICK no : no = FALSE
    OBVIOUS
  <2>2. PICK f : f = [Top EXCEPT !.pc = "first", !.positive = no]
    OBVIOUS
  <2>3. f.fn = Top.fn /\ f.lo = Top.lo /\ f.item = Top.item /\ f.pc = "first"
    BY <1>2, <2>2 DEF FrameType
  <2>4. OnlyOpened(Top, tok.lo) /\ Top.pc = "begin" /\ tok.kind = "CHAR_CLASS_NEGATION"
    BY <1>1, <1>9, PointRuns DEF IntersectionNegation, At
  <2>5. pos = tok.lo + 1 /\ pattern[pos] = "^"
    BY <1>3, <2>4 DEF TokenPoints
  <2>6. /\ pattern[Top.lo + 1] = "[" /\ Top.lo < tok.lo
        /\ \A i \in Top.lo + 2 .. tok.lo : pattern[i] = "CONTINUE"
    BY <1>1, <2>4 DEF OnlyOpened, IsIntersection
  <2>7. \A i \in Top.lo + 2 .. pos : pattern[i] = IF i = pos THEN "^" ELSE "CONTINUE"
    BY <1>2, <1>3, <2>5, <2>6
  <2>8. Top.lo < pos /\ pos \in Top.lo + 1 .. pos
    BY <1>2, <1>3, <2>5, <2>6
  <2>9. OnlyOpened(f, pos)
    BY <2>3, <2>6, <2>7, <2>8 DEF OnlyOpened, IsIntersection
  <2>10. PointsOn(f, CallLex("BEGIN_AFTER_NEGATION"))
    BY <1>4, <2>3, <2>9, Controls DEF PointsOn, States
  <2>11. Continue(f, CallLex("BEGIN_AFTER_NEGATION"))
    BY <1>9, <2>1, <2>2 DEF IntersectionNegation
  <2> QED BY <1>1, <2>10, <2>11, PointContinues
<1>10. CASE IntersectionEmpty
  <2>1. /\ OnlyOpened(Top, tok.lo) /\ Top.pc \in {"begin", "first"}
        /\ tok.kind = "CHAR_CLASS_CLOSE"
        /\ FailAt("EMPTY_CHAR_CLASS", {}, Span(Top.lo, tok.hi))
    BY <1>1, <1>10, PointRuns DEF IntersectionEmpty, At
  <2>2. tok.hi = tok.lo + 1 /\ pattern[tok.hi] = "]" /\ tok.hi - 1 = tok.lo
    BY <1>3, <2>1 DEF TokenPoints
  <2>3. pattern[Top.lo + 1] = "[" /\ Top.lo < tok.lo
    BY <1>1, <2>1 DEF OnlyOpened, IsIntersection
  <2>4. \E n \in Top.lo + 1 .. tok.lo : \A i \in Top.lo + 2 .. tok.lo :
          pattern[i] = IF i = n THEN "^" ELSE "CONTINUE"
    <3>1. CASE Top.pc = "first"
      BY <1>1, <2>1, <3>1 DEF OnlyOpened, IsIntersection
    <3>2. CASE Top.pc = "begin"
      <4>1. \A i \in Top.lo + 2 .. tok.lo : pattern[i] = "CONTINUE"
        BY <1>1, <2>1, <3>2 DEF OnlyOpened, IsIntersection
      <4>2. Top.lo + 1 \in Top.lo + 1 .. tok.lo
        BY <1>2, <1>3, <2>3
      <4>3. \A i \in Top.lo + 2 .. tok.lo : i # Top.lo + 1
        BY <1>2, <1>3
      <4> QED BY <4>1, <4>2, <4>3
    <3> QED BY <2>1, <3>1, <3>2
  <2>5. IsEmptyClass(Top.lo, tok.hi)
    BY <2>2, <2>3, <2>4 DEF IsEmptyClass
  <2>6. PointsAtCause("EMPTY_CHAR_CLASS", Top.lo, tok.hi)
    BY <1>2, <1>3, <2>2, <2>3, <2>5 DEF PointsAtCause
  <2> QED BY <1>1, <2>1, <2>6, PointFailsAt
<1>11. CASE IntersectionFirst
  BY <1>5, <1>7, <1>11 DEF IntersectionFirst
<1>12. CASE IntersectionArray
  <2>1. tok.kind \in Terminators
    BY <1>1, <1>12, PointRuns, CalleeIs DEF IntersectionArray, At, ReturnPoints
  <2>2. CASE Fail(OutOfMemory, control.value.owns)
    BY <1>1, <2>2, PointFails
  <2>3. CASE Continue([Top EXCEPT !.pc = "unions", !.parts = <<control.value>>, !.cap = 1,
                                  !.mem = {Fresh}], Run)
    <3>1. PICK parts, one, mem : parts = <<control.value>> /\ one = 1 /\ mem = {Fresh}
      OBVIOUS
    <3>2. PICK f : f = [Top EXCEPT !.pc = "unions", !.parts = parts, !.cap = one,
                                   !.mem = mem]
      OBVIOUS
    <3>3. f.fn = Top.fn /\ f.lo = Top.lo /\ f.item = Top.item /\ f.pc = "unions"
      BY <1>2, <3>2 DEF FrameType
    <3> QED BY <1>6, <2>1, <2>3, <3>1, <3>2, <3>3
  <2> QED BY <1>12, <2>2, <2>3 DEF IntersectionArray
<1>13. CASE IntersectionUnion
  <2>1. tok.kind \in Terminators
    BY <1>1, <1>13, PointRuns, CalleeIs DEF IntersectionUnion, At, ReturnPoints
  <2>2. CASE Fail(OutOfMemory, FrameOwns \cup control.value.owns)
    BY <1>1, <2>2, PointFails
  <2>3. CASE Continue([Stored(Top, control.value) EXCEPT !.pc = "unions"], Run)
    <3>1. PICK f : f = [Stored(Top, control.value) EXCEPT !.pc = "unions"]
      OBVIOUS
    <3>2. f.fn = Top.fn /\ f.lo = Top.lo /\ f.item = Top.item /\ f.pc = "unions"
      BY <1>2, <3>1 DEF FrameType, Stored
    <3> QED BY <1>6, <2>1, <2>3, <3>1, <3>2
  <2> QED BY <1>13, <2>2, <2>3 DEF IntersectionUnion
<1>14. CASE IntersectionLex
  <2>1. PICK f : f = [Top EXCEPT !.pc = "next"]
    OBVIOUS
  <2>2. f.fn = Top.fn /\ f.lo = Top.lo /\ f.item = Top.item /\ f.pc = "next"
    BY <1>7, <2>1
  <2>3. PointsOn(f, CallLex("WAIT_RANGE_BEGIN"))
    BY <1>4, <2>2, Controls DEF PointsOn, States, OnlyOpened, IsIntersection
  <2>4. Continue(f, CallLex("WAIT_RANGE_BEGIN"))
    BY <1>14, <2>1 DEF IntersectionLex
  <2> QED BY <1>1, <2>3, <2>4, PointContinues
<1>15. CASE IntersectionNext
  BY <1>5, <1>7, <1>15 DEF IntersectionNext
<1>16. CASE IntersectionEnd
  <2>1. tok.kind \in Terminators /\ tok.kind # "CHAR_CLASS_INTERSECTION"
    BY <1>1, <1>16, PointRuns DEF IntersectionEnd, At, RunPoints, IsIntersection
  <2>2. CASE Fail(OutOfMemory, FrameOwns)
    BY <1>1, <2>2, PointFails
  <2>3. CASE tok.kind # "CHAR_CLASS_CLOSE"
             /\ FailAt("UNTERMINATED_CHAR_CLASS", FrameOwns, Span(tok.lo, tok.hi))
    <3>1. tok.kind = "END"
      BY <2>1, <2>3 DEF Terminators
    <3>2. PointsAtCause("UNTERMINATED_CHAR_CLASS", tok.lo, tok.hi)
      BY <1>3, <3>1 DEF TokenPoints, PointsAtCause
    <3> QED BY <1>1, <2>3, <3>2, PointFailsAt
  <2>4. CASE tok.kind = "CHAR_CLASS_CLOSE" /\ Return(Class(Top.positive, Top.parts, Top.mem))
    BY <1>1, <2>4, PointSucceeds DEF ReturnPoints
  <2> QED BY <1>16, <2>2, <2>3, <2>4 DEF IntersectionEnd
<1> QED BY <1>8, <1>9, <1>10, <1>11, <1>12, <1>13, <1>14, <1>15, <1>16 DEF ParseIntersection

LEMMA UnionPoint ==
  ASSUME IInv, PointInv, ParseUnion
  PROVE  PointInv'
<1>1. /\ stack # <<>> /\ Top.fn = "union" /\ control.op \in {"run", "ok", "lexed"}
      /\ UNCHANGED <<LexerVars, tok>>
  BY DEF ParseUnion, UnionStart, UnionItems, UnionRange, UnionRangeLexed, UnionRangeItem,
         UnionNext, UnionItem, UnionEnd, AtToken, At, ParseVars
<1>2. /\ FrameType(Top) /\ FramePoints(Top) /\ pos \in Nat /\ Len(pattern) \in Nat
      /\ pos <= Len(pattern)
  BY <1>1, PointTop
<1>3. TokenPoints(tok) /\ tok.hi = pos /\ tok.lo \in Nat /\ tok.hi \in Nat
  BY <1>1, PointRuns
<1>4. Top.item # NoItem => ItemPoints(Top.item)
  BY <1>1, <1>2 DEF FramePoints
<1>5. control.op = "ok" => ItemPoints(control.value) /\ control.value.hi = pos
  BY <1>1, PointRuns, CalleeIs DEF ReturnPoints
<1>6. ASSUME NEW owned, Fail(OutOfMemory, owned)
      PROVE  PointInv'
  BY <1>1, <1>6, PointFails
<1>7. ASSUME NEW f, FramePoints(f), f.fn = Top.fn, Continue(f, Run)
      PROVE  PointInv'
  <2>1. PointsOn(f, Run)
    BY <1>1, <1>7, Controls DEF PointsOn, RunPoints, IsIntersection
  <2> QED BY <1>1, <1>7, <2>1, PointContinues
<1>8. ASSUME NEW f, FramePoints(f), f.fn = Top.fn, Continue(f, Call("item"))
      PROVE  PointInv'
  <2>1. PointsOn(f, Call("item"))
    BY <1>1, <1>8, CalleeIs, Controls, Counters DEF PointsOn
  <2> QED BY <1>1, <1>8, <2>1, PointContinues
<1>9. ASSUME NEW f, FramePoints(f), f.fn = Top.fn, NEW state \in States,
             Continue(f, CallLex(state))
      PROVE  PointInv'
  <2>1. PointsOn(f, CallLex(state))
    BY <1>1, <1>9, Controls DEF PointsOn, OnlyOpened, IsIntersection
  <2> QED BY <1>1, <1>9, <2>1, PointContinues
<1>10. CASE UnionStart
  <2>1. CASE IsEmptyUnion /\ Return(Union(tok.lo, tok.lo, <<>>, {Fresh}))
    BY <1>1, <2>1, PointSucceeds DEF ReturnPoints, IsEmptyUnion
  <2>2. CASE Continue([Top EXCEPT !.pc = "items", !.mem = {Fresh}], Run)
    <3>1. PICK f : f = [Top EXCEPT !.pc = "items", !.mem = {Fresh}]
      OBVIOUS
    <3>2. f.fn = Top.fn /\ f.lo = Top.lo /\ f.item = Top.item /\ f.pc = "items"
      BY <1>2, <3>1 DEF FrameType
    <3>3. FramePoints(f)
      BY <1>1, <3>2, PointFrame
    <3> QED BY <1>7, <2>2, <3>1, <3>2, <3>3
  <2> QED BY <1>6, <1>10, <2>1, <2>2 DEF UnionStart
<1>11. CASE UnionItems
  <2>1. CASE Continue([Top EXCEPT !.pc = "token", !.mem = @ \cup {Fresh}, !.cap = 1], Run)
    <3>1. PICK one, mem : one = 1 /\ mem = Top.mem \cup {Fresh}
      OBVIOUS
    <3>2. PICK f : f = [Top EXCEPT !.pc = "token", !.mem = mem, !.cap = one]
      OBVIOUS
    <3>3. f.fn = Top.fn /\ f.lo = Top.lo /\ f.item = Top.item /\ f.pc = "token"
      BY <1>2, <3>2 DEF FrameType
    <3>4. FramePoints(f)
      BY <1>1, <3>3, PointFrame
    <3> QED BY <1>7, <2>1, <3>1, <3>2, <3>3, <3>4
  <2> QED BY <1>6, <1>11, <2>1 DEF UnionItems
<1>12. CASE UnionRange
  <2>1. CASE Top.item = NoItem
    BY <1>1, <1>12, <2>1, PointFails DEF UnionRange
  <2>2. CASE Top.item # NoItem
    <3>1. PICK f : f = [Top EXCEPT !.pc = "range_end"]
      OBVIOUS
    <3>2. f.fn = Top.fn /\ f.lo = Top.lo /\ f.item = Top.item /\ f.pc = "range_end"
      BY <1>2, <3>1 DEF FrameType
    <3>3. FramePoints(f)
      BY <1>2, <2>2, <3>2 DEF FramePoints, IsUnion
    <3> QED BY <1>9, <1>12, <2>2, <3>1, <3>2, <3>3 DEF UnionRange, States
  <2> QED BY <2>1, <2>2
<1>13. CASE UnionRangeLexed
  <2>1. Top.item # NoItem
    BY <1>1, <1>2, <1>13 DEF UnionRangeLexed, At, FramePoints, IsUnion
  <2>2. ItemPoints(Top.item)
    BY <1>4, <2>1
  <2>3. CASE Top.item.type # "CODE" /\ FailAt("INVALID_CHAR_CLASS_RANGE", FrameOwns,
                                              Span(Top.item.lo, Top.item.hi))
    <3>1. PointsAtCause("INVALID_CHAR_CLASS_RANGE", Top.item.lo, Top.item.hi)
      BY <1>2, <2>2, <2>3 DEF ItemPoints, PointsAtCause
    <3> QED BY <1>1, <2>3, <3>1, PointFailsAt
  <2>4. CASE Top.item.type = "CODE"
             /\ Continue([Top EXCEPT !.pc = "range_item"], Call("item"))
    <3>1. PICK f : f = [Top EXCEPT !.pc = "range_item"]
      OBVIOUS
    <3>2. f.fn = Top.fn /\ f.lo = Top.lo /\ f.item = Top.item
      BY <1>2, <3>1 DEF FrameType
    <3>3. FramePoints(f)
      BY <1>2, <2>1, <2>4, <3>2 DEF FramePoints
    <3> QED BY <1>8, <2>4, <3>1, <3>2, <3>3
  <2> QED BY <1>13, <2>3, <2>4 DEF UnionRangeLexed
<1>14. CASE UnionRangeItem
  <2> DEFINE begin == Top.item
             end == control.value
  <2>1. begin # NoItem /\ begin.type = "CODE" /\ control.op = "ok"
    BY <1>1, <1>2, <1>14 DEF UnionRangeItem, At, FramePoints, IsUnion
  <2>2. ItemPoints(begin) /\ ItemPoints(end) /\ end.hi = pos
    BY <1>4, <1>5, <2>1
  <2> HIDE DEF begin, end
  <2>3. CASE end.type # "CODE" /\ FailAt("INVALID_CHAR_CLASS_RANGE", FrameOwns \cup end.owns,
                                         Span(end.lo, end.hi))
    <3>1. PointsAtCause("INVALID_CHAR_CLASS_RANGE", end.lo, end.hi)
      BY <1>2, <2>2, <2>3 DEF ItemPoints, PointsAtCause
    <3> QED BY <1>1, <2>3, <3>1, PointFailsAt
  <2>4. CASE /\ end.type = "CODE" /\ OutOfOrder(begin, end)
             /\ FailAt("CHAR_CLASS_RANGE_OUT_OF_ORDER", FrameOwns \cup end.owns,
                       Span(begin.lo, end.hi))
    <3>1. Code(pattern[begin.lo + 1]) > Code(pattern[end.hi])
      BY <2>1, <2>2, <2>4 DEF ItemPoints, OutOfOrder
    <3>2. 0 <= begin.lo /\ begin.lo <= end.hi /\ end.hi <= Len(pattern)
      BY <1>2, <2>2 DEF ItemPoints
    <3>3. PointsAtCause("CHAR_CLASS_RANGE_OUT_OF_ORDER", begin.lo, end.hi)
      BY <3>1, <3>2 DEF PointsAtCause
    <3> QED BY <1>1, <2>4, <3>3, PointFailsAt
  <2>5. CASE Fail(OutOfMemory, FrameOwns \cup end.owns)
    BY <1>6, <2>5
  <2>6. ASSUME NEW part, Continue([Stored(Top, part) EXCEPT !.pc = "token", !.item = NoItem],
                                  CallLex("WAIT_RANGE_BEGIN"))
        PROVE  PointInv'
    <3>1. PICK f : f = [Stored(Top, part) EXCEPT !.pc = "token", !.item = NoItem]
      OBVIOUS
    <3>2. f.fn = Top.fn /\ f.lo = Top.lo /\ f.item = NoItem /\ f.pc = "token"
      BY <1>2, <3>1 DEF FrameType, Stored
    <3>3. FramePoints(f)
      BY <1>1, <3>2, PointFrame
    <3> QED BY <1>9, <2>6, <3>1, <3>2, <3>3 DEF States
  <2>7. \/ end.type # "CODE" /\ FailAt("INVALID_CHAR_CLASS_RANGE", FrameOwns \cup end.owns,
                                       Span(end.lo, end.hi))
        \/ /\ end.type = "CODE" /\ OutOfOrder(begin, end)
           /\ FailAt("CHAR_CLASS_RANGE_OUT_OF_ORDER", FrameOwns \cup end.owns,
                     Span(begin.lo, end.hi))
        \/ Fail(OutOfMemory, FrameOwns \cup end.owns)
        \/ \E part : Continue([Stored(Top, part) EXCEPT !.pc = "token", !.item = NoItem],
                              CallLex("WAIT_RANGE_BEGIN"))
    BY <1>14 DEF UnionRangeItem, begin, end
  <2> QED BY <2>3, <2>4, <2>5, <2>6, <2>7
<1>15. CASE UnionNext
  <2>1. CASE Continue([Flushed(Top) EXCEPT !.pc = "item", !.begin = tok], Call("item"))
    <3>1. PICK f : f = [Flushed(Top) EXCEPT !.pc = "item", !.begin = tok]
      OBVIOUS
    <3>2. /\ f.fn = Top.fn /\ f.lo = Top.lo /\ f.item \in {Top.item, NoItem}
          /\ f.pc = "item"
      BY <1>2, <3>1 DEF FrameType, Flushed, Stored
    <3>3. FramePoints(f)
      BY <1>1, <3>2, PointFrame
    <3> QED BY <1>8, <2>1, <3>1, <3>2, <3>3
  <2> QED BY <1>6, <1>15, <2>1 DEF UnionNext, GrowthFails
<1>16. CASE UnionItem
  <2>1. PICK f : f = [Top EXCEPT !.pc = "token", !.item = control.value]
    OBVIOUS
  <2>2. f.fn = Top.fn /\ f.lo = Top.lo /\ f.item = control.value /\ f.pc = "token"
    BY <1>2, <2>1 DEF FrameType
  <2>3. FramePoints(f)
    BY <1>2, <1>5, <1>16, <2>2 DEF UnionItem, At, FramePoints, IsUnion
  <2> QED BY <1>9, <1>16, <2>1, <2>2, <2>3 DEF UnionItem, States
<1>17. CASE UnionEnd
  <2>1. CASE \E parts, mem : Return(Union(Top.lo, tok.lo, parts, mem))
    <3>1. tok.kind \in Terminators
      BY <1>17 DEF UnionEnd
    <3> QED BY <1>1, <2>1, <3>1, PointSucceeds DEF ReturnPoints
  <2> QED BY <1>6, <1>17, <2>1 DEF UnionEnd, GrowthFails
<1> QED BY <1>10, <1>11, <1>12, <1>13, <1>14, <1>15, <1>16, <1>17 DEF ParseUnion

-----------------------------------------------------------------------------
(* Calls and the lexer.                                                      *)

LEMMA EnterPoint ==
  ASSUME IInv, PointInv, EnterFunction
  PROVE  PointInv'
<1> DEFINE n == Len(stack)
<1>1. /\ control.op = "call" /\ control' = Run /\ UNCHANGED <<LexerVars, tok, error_span>>
      /\ stack' = Append(stack, Frame(control.fn))
  BY DEF EnterFunction, ParseVars
<1>2. PICK f : f = Frame(control.fn)
  OBVIOUS
<1>3. f.fn = control.fn /\ f.pc = "start" /\ f.lo = tok.lo /\ f.item = NoItem
  BY <1>2 DEF Frame
<1>4. /\ n \in Nat /\ stack' # <<>> /\ Len(stack') = n + 1 /\ stack'[n + 1] = f
      /\ \A i \in 1 .. n : stack'[i] = stack[i]
  BY <1>1, <1>2, StackPush, StackLen DEF IInv, StackInv, FramesOK
<1>5. /\ tok.hi = pos /\ TokenPoints(tok) /\ error_span = {} /\ tok.lo <= tok.hi
      /\ control.fn = "intersection" => tok.kind = "CHAR_CLASS_OPEN"
  BY <1>1 DEF PointInv, ControlPoints, TokenPoints
<1>6. FramePoints(f)
  BY <1>3, <1>5 DEF FramePoints, IsUnion
<1>7. \A i \in 1 .. n + 1 : i = n + 1 \/ i \in 1 .. n
  BY <1>4
<1>8. \A i \in 1 .. n : FramePoints(stack[i])
  BY DEF PointInv
<1>9. \A i, j \in 1 .. n : j = i + 1 => stack[j].fn = Callee[stack[i].fn]
  BY DEF PointInv, CallOrder
<1>10. n \in 1 .. n => f.fn = Callee[stack[n].fn]
  <2>1. ASSUME n \in 1 .. n
        PROVE  f.fn = Callee[stack[n].fn]
    <3>1. stack # <<>>
      BY <2>1
    <3> QED BY <1>1, <1>3, <3>1 DEF PointInv, CallOrder, Top
  <2> QED BY <2>1
<1>11. Top' = f /\ Run.op = "run"
  BY <1>4, Controls DEF Top
<1> HIDE DEF n
<1>12. TokenPoints(tok)'
  BY <1>1, <1>5 DEF TokenPoints, LexerVars
<1>13. (\A i \in 1 .. Len(stack) : FramePoints(stack[i]))'
  <2>1. \A i \in 1 .. n + 1 : FramePoints(stack'[i])
    BY <1>4, <1>6, <1>7, <1>8
  <2> QED BY <1>1, <1>4, <2>1 DEF FramePoints, ItemPoints, LexerVars
<1>14. CallOrder'
  <2>1. ASSUME NEW i \in 1 .. n + 1, NEW j \in 1 .. n + 1, j = i + 1
        PROVE  stack'[j].fn = Callee[stack'[i].fn]
    <3>1. i \in 1 .. n
      BY <1>4, <2>1
    <3>2. CASE j \in 1 .. n
      BY <1>4, <1>9, <2>1, <3>1, <3>2
    <3>3. CASE j = n + 1
      <4>1. i = n
        BY <1>4, <2>1, <3>3
      <4> QED BY <1>4, <1>10, <3>1, <3>3, <4>1
    <3> QED BY <1>7, <3>2, <3>3
  <2> QED BY <1>1, <1>4, <1>11, <2>1 DEF CallOrder
<1>15. ControlPoints'
  <2>1. RunPoints(f)
    BY <1>3, <1>5 DEF RunPoints, IsIntersection
  <2>2. RunPoints(Top)'
    BY <1>1, <1>11, <2>1 DEF RunPoints, IsIntersection
  <2> QED BY <1>1, <1>5, <1>11, <2>2 DEF ControlPoints, LexerVars
<1> QED BY <1>12, <1>13, <1>14, <1>15 DEF PointInv

LEMMA RejectPoint ==
  ASSUME IInv, PointInv, RejectDepth
  PROVE  PointInv'
<1>1. /\ control' = Error("PARSE_DEPTH_LIMIT_EXCEEDED") /\ UNCHANGED <<LexerVars, tok, stack>>
      /\ error_span' = {[lo |-> pos, hi |-> pos]}
  BY DEF RejectDepth, ParseVars, Span
<1>2. pos \in Nat /\ pos <= Len(pattern)
  BY DEF IInv, Scalars
<1>3. PointsAtCause("PARSE_DEPTH_LIMIT_EXCEEDED", pos, pos)
  BY <1>2 DEF PointsAtCause
<1>4. ErrorPoints'
  <2>1. PICK e : e = [lo |-> pos, hi |-> pos]
    OBVIOUS
  <2>2. e \in error_span' /\ e.lo = pos /\ e.hi = pos
    BY <1>1, <2>1
  <2>3. PointsAtCause("PARSE_DEPTH_LIMIT_EXCEEDED", e.lo, e.hi)'
    BY <1>1, <1>3, <2>2 DEF PointsAtCause, IsEmptyClass, LexerVars
  <2> QED BY <1>1, <2>2, <2>3, Controls DEF ErrorPoints
<1>5. ControlPoints'
  BY <1>1, <1>4, Controls DEF ControlPoints
<1>6. CallOrder'
  BY <1>1, Controls DEF PointInv, CallOrder
<1>7. TokenPoints(tok)' /\ (\A i \in 1 .. Len(stack) : FramePoints(stack[i]))'
  BY <1>1 DEF PointInv, TokenPoints, FramePoints, ItemPoints, LexerVars
<1> QED BY <1>5, <1>6, <1>7 DEF PointInv

(* What frames remember stays behind the lexer.                              *)
LEMMA LexerAdvances ==
  ASSUME IInv, PointInv, UNCHANGED <<pattern, stack>>, pos' \in Nat, pos <= pos',
         control'.op # "call"
  PROVE  CallOrder' /\ (\A i \in 1 .. Len(stack) : FramePoints(stack[i]))'
<1>1. pos \in Nat
  BY DEF IInv, Scalars
<1>2. \A i \in 1 .. Len(stack) : FramePoints(stack[i]) /\ stack[i].lo \in Nat
  BY DEF PointInv, IInv, StackInv, FramesOK, FrameOK, FrameType
<1>3. (\A i \in 1 .. Len(stack) : FramePoints(stack[i]))'
  BY <1>1, <1>2 DEF FramePoints, ItemPoints
<1> QED BY <1>3 DEF PointInv, CallOrder

LEMMA TokenPoint ==
  ASSUME IInv, PointInv, Lexing, control' = Lexed, UNCHANGED <<pattern, stack, error_span>>,
         TokenPoints(tok'), tok'.lo = pos, pos' = tok'.hi, pos' \in Nat
  PROVE  PointInv'
<1>1. pos <= pos' /\ control'.op = "lexed"
  BY Controls DEF TokenPoints
<1>2. TokenPoints(tok)'
  BY DEF TokenPoints
<1>3. OnlyOpened(Top, pos) /\ error_span = {}
  BY DEF PointInv, ControlPoints, Lexing
<1>4. OnlyOpened(Top, tok.lo)'
  BY <1>3 DEF OnlyOpened, IsIntersection, Top
<1>5. ControlPoints'
  BY <1>1, <1>3, <1>4 DEF ControlPoints
<1> QED BY <1>1, <1>2, <1>5, LexerAdvances DEF PointInv

LEMMA LexErrorPoint ==
  ASSUME IInv, PointInv, Lexing, NEW code, NEW at \in Nat, LexFails(code, at), pos <= at,
         PointsAtCause(code, at, at)
  PROVE  PointInv'
<1>1. /\ control' = Error(code) /\ pos' = at /\ tok' = [tok EXCEPT !.kind = "NONE"]
      /\ UNCHANGED <<pattern, stack>>
  BY DEF LexFails, LexFrameVars
<1>2. error_span = {}
  BY DEF PointInv, ControlPoints, Lexing
<1>3. error_span' = {[lo |-> at, hi |-> at]}
  BY <1>2 DEF LexFails, Span
<1>4. Error(code).op = "error" /\ Error(code).code = code
  BY Controls
<1>5. ErrorPoints'
  <2>1. PICK e : e = [lo |-> at, hi |-> at]
    OBVIOUS
  <2>2. e \in error_span' /\ e.lo = at /\ e.hi = at
    BY <1>3, <2>1
  <2>3. PointsAtCause(code, e.lo, e.hi)'
    BY <1>1, <2>2 DEF PointsAtCause, IsEmptyClass
  <2> QED BY <1>1, <1>4, <2>2, <2>3 DEF ErrorPoints
<1>6. ControlPoints'
  BY <1>1, <1>4, <1>5 DEF ControlPoints
<1>7. TokenPoints(tok)'
  <2>1. tok \in TokenType /\ TokenPoints(tok)
    BY DEF IInv, Scalars, PointInv
  <2>2. tok'.lo = tok.lo /\ tok'.hi = tok.hi /\ tok'.kind = "NONE"
    BY <1>1, <2>1 DEF TokenType
  <2> QED BY <1>1, <2>1, <2>2 DEF TokenPoints, CodeTokens
<1> QED BY <1>1, <1>4, <1>6, <1>7, LexerAdvances DEF PointInv

LEMMA LexPoint ==
  ASSUME IInv, PointInv, Lex
  PROVE  PointInv'
<1>1. Lexing
  BY DEF Lex, LexEnd, LexInBrace, LexNegation, LexRangeHyphen, LexLiteralHyphen,
         LexIntersection, LexOpen, LexClose, LexLiteral, LexEscape, LexUnicodeEscape,
         LexContinuation, LexError, LexingSymbol
<1>2. pos \in Nat /\ pos <= Len(pattern) /\ Len(pattern) \in Nat
  BY DEF IInv, Scalars
<1>3. Peek(pos) # "END" => pos + 1 <= Len(pattern) /\ Peek(pos) = pattern[pos + 1]
  BY <1>2, PeekFacts
<1>4. Peek(pos + 1) # "END" => pos + 2 <= Len(pattern) /\ Peek(pos + 1) = pattern[pos + 2]
  <2>1. pos + 1 \in Nat /\ (pos + 1) + 1 = pos + 2
    BY <1>2
  <2> QED BY <2>1, PeekFacts
<1>5. ASSUME NEW kind, NEW width \in {0, 1, 2}, NEW code, ReturnToken(kind, width, code),
             pos + width <= Len(pattern), NEW t,
             t = Token(kind, pos, pos + width, code, FALSE, FALSE), TokenPoints(t)
      PROVE  PointInv'
  <2>1. /\ tok' = t /\ pos' = pos + width /\ control' = Lexed
        /\ UNCHANGED <<pattern, stack, error_span>>
    BY <1>5 DEF ReturnToken, LexFrameVars
  <2>2. t.lo = pos /\ t.hi = pos + width /\ pos + width \in Nat
    BY <1>2, <1>5 DEF Token
  <2> QED BY <1>1, <1>5, <2>1, <2>2, TokenPoint
(* A token of one symbol.                                                    *)
<1>6. ASSUME NEW kind, kind # "END", NEW code, ReturnToken(kind, 1, code),
             Peek(pos) # "END", kind \in CodeTokens => code = Code(Peek(pos)),
             kind = "CHAR_CLASS_OPEN" => Peek(pos) = "[",
             kind = "CHAR_CLASS_CLOSE" => Peek(pos) = "]",
             kind = "CHAR_CLASS_NEGATION" => Peek(pos) = "^",
             kind = "CHAR_TYPE" => Peek(pos) = "TYPE",
             kind = "POSIX_CHAR_CLASS" => Peek(pos) = "POSIX"
      PROVE  PointInv'
  <2>1. PICK t : t = Token(kind, pos, pos + 1, code, FALSE, FALSE)
    OBVIOUS
  <2>2. t.kind = kind /\ t.lo = pos /\ t.hi = pos + 1 /\ t.code = code
    BY <2>1 DEF Token
  <2>3. TokenPoints(t)
    BY <1>2, <1>3, <1>6, <2>2 DEF TokenPoints
  <2> QED BY <1>3, <1>5, <1>6, <2>1, <2>3
<1>7. CASE LexEnd
  <2>1. PICK width, no : width = 0 /\ no = FALSE
    OBVIOUS
  <2>2. PICK t : t = Token("END", pos, pos + width, 0, no, no)
    OBVIOUS
  <2>3. t.kind = "END" /\ t.lo = pos /\ t.hi = pos
    BY <1>2, <2>1, <2>2 DEF Token
  <2>4. pos = Len(pattern)
    BY <1>2, <1>7 DEF LexEnd, AtEnd
  <2>5. TokenPoints(t)
    BY <1>2, <2>3, <2>4 DEF TokenPoints, CodeTokens
  <2>6. ReturnToken("END", width, 0) /\ pos + width <= Len(pattern)
    BY <1>2, <1>7, <2>1 DEF LexEnd
  <2> QED BY <1>5, <2>1, <2>2, <2>5, <2>6
<1>8. CASE LexInBrace
  BY <1>6, <1>8 DEF LexInBrace, NextIs, CodeTokens
<1>9. CASE LexNegation
  BY <1>6, <1>9 DEF LexNegation, NextIs, CodeTokens
<1>10. CASE LexRangeHyphen
  BY <1>6, <1>10 DEF LexRangeHyphen, NextIs, CodeTokens
<1>11. CASE LexLiteralHyphen
  <2>1. PICK is_first, is_last :
          tok' = Token("CHAR_CLASS_LITERAL_HYPHEN", pos, pos + 1, Code("-"), is_first, is_last)
    BY <1>11 DEF LexLiteralHyphen
  <2>2. /\ pos' = pos + 1 /\ control' = Lexed /\ Peek(pos) = "-"
        /\ UNCHANGED <<pattern, stack, error_span>>
    BY <1>11 DEF LexLiteralHyphen, NextIs, LexFrameVars
  <2>3. /\ tok'.kind = "CHAR_CLASS_LITERAL_HYPHEN" /\ tok'.lo = pos /\ tok'.hi = pos + 1
        /\ tok'.code = Code("-")
    BY <2>1 DEF Token
  <2>4. TokenPoints(tok')
    BY <1>2, <1>3, <2>2, <2>3 DEF TokenPoints
  <2> QED BY <1>1, <1>2, <2>2, <2>3, <2>4, TokenPoint
<1>12. CASE LexIntersection
  <2>1. PICK width, no : width = 2 /\ no = FALSE
    OBVIOUS
  <2>2. PICK t : t = Token("CHAR_CLASS_INTERSECTION", pos, pos + width, 0, no, no)
    OBVIOUS
  <2>3. t.kind = "CHAR_CLASS_INTERSECTION" /\ t.lo = pos /\ t.hi = pos + 2
    BY <2>1, <2>2 DEF Token
  <2>4. ReturnToken("CHAR_CLASS_INTERSECTION", width, 0) /\ pos + width <= Len(pattern)
    BY <1>4, <1>12, <2>1 DEF LexIntersection
  <2>5. TokenPoints(t)
    BY <1>2, <2>1, <2>3, <2>4 DEF TokenPoints, CodeTokens
  <2> QED BY <1>5, <2>1, <2>2, <2>4, <2>5
<1>13. CASE LexOpen
  BY <1>6, <1>13 DEF LexOpen, NextIs, CodeTokens
<1>14. CASE LexClose
  BY <1>6, <1>14 DEF LexClose, NextIs, CodeTokens
<1>15. CASE LexLiteral
  BY <1>6, <1>15 DEF LexLiteral, NextIs, CodeTokens
<1>16. CASE LexEscape
  BY <1>6, <1>16 DEF LexEscape, NextIs, CodeTokens
<1>17. CASE LexUnicodeEscape
  BY <1>6, <1>17 DEF LexUnicodeEscape, NextIs, CodeTokens
<1>18. CASE LexContinuation
  <2>1. /\ pos' = pos + 1 /\ Peek(pos) = "CONTINUE"
        /\ UNCHANGED <<pattern, tok, control, stack, error_span>>
    BY <1>18 DEF LexContinuation, NextIs, LexFrameVars
  <2>2. /\ control.op = "lex" /\ TokenPoints(tok) /\ OnlyOpened(Top, pos)
        /\ error_span = {}
    BY <1>1 DEF Lexing, PointInv, ControlPoints
  <2>3. stack # <<>>
    BY <2>2 DEF IInv, Flow
  <2>4. Top.lo \in Nat
    BY <2>3, PointTop DEF FrameType
  <2>5. OnlyOpened(Top, pos + 1)
    <3>1. \A i \in Top.lo + 2 .. pos + 1 : i \in Top.lo + 2 .. pos \/ i = pos + 1
      BY <1>2, <2>4
    <3>2. pattern[pos + 1] = "CONTINUE"
      BY <1>3, <2>1
    <3>3. CASE IsIntersection(Top, {"begin"})
      BY <1>2, <2>2, <2>4, <3>1, <3>2, <3>3 DEF OnlyOpened, IsIntersection
    <3>4. CASE IsIntersection(Top, {"first"})
      <4>1. PICK n \in Top.lo + 1 .. pos : \A i \in Top.lo + 2 .. pos :
              pattern[i] = IF i = n THEN "^" ELSE "CONTINUE"
        BY <2>2, <3>4 DEF OnlyOpened
      <4>2. n \in Top.lo + 1 .. pos + 1 /\ n # pos + 1
        BY <1>2, <2>4
      <4>3. \A i \in Top.lo + 2 .. pos + 1 : pattern[i] = IF i = n THEN "^" ELSE "CONTINUE"
        BY <3>1, <3>2, <4>1, <4>2
      <4>4. pattern[Top.lo + 1] = "[" /\ Top.lo < pos + 1
        BY <1>2, <2>2, <2>4, <3>4 DEF OnlyOpened, IsIntersection
      <4> QED BY <3>4, <4>2, <4>3, <4>4 DEF OnlyOpened, IsIntersection
    <3> QED BY <3>3, <3>4 DEF OnlyOpened, IsIntersection
  <2>6. OnlyOpened(Top, pos)'
    BY <2>1, <2>5 DEF OnlyOpened, IsIntersection, Top
  <2>7. ControlPoints'
    BY <2>1, <2>2, <2>6 DEF ControlPoints
  <2>8. TokenPoints(tok)'
    BY <2>1, <2>2 DEF TokenPoints
  <2> QED BY <1>2, <2>1, <2>2, <2>7, <2>8, LexerAdvances DEF PointInv
<1>19. CASE LexError
  <2>1. ASSUME NEW at \in {pos, pos + 1, pos + 2}, Peek(at) = "BYTES",
               LexFails("INVALID_BYTE_SEQUENCE", at)
        PROVE  PointInv'
    <3>1. at \in Nat /\ pos <= at
      BY <1>2, <2>1
    <3>2. at < Len(pattern) /\ pattern[at + 1] = "BYTES"
      BY <1>2, <2>1, <3>1, PeekFacts
    <3>3. PointsAtCause("INVALID_BYTE_SEQUENCE", at, at)
      BY <1>2, <3>1, <3>2 DEF PointsAtCause
    <3> QED BY <1>1, <2>1, <3>1, <3>3, LexErrorPoint
  <2>2. CASE NextIs("BYTES") /\ LexFails("INVALID_BYTE_SEQUENCE", pos)
    BY <2>1, <2>2 DEF NextIs
  <2>3. CASE PeeksBytes /\ LexFails("INVALID_BYTE_SEQUENCE",
                                    IF Peek(pos + 1) = "&" THEN pos + 2 ELSE pos + 1)
    BY <2>1, <2>3 DEF PeeksBytes
  <2>4. CASE Peek(pos + 1) = "BYTES" /\ LexFails("INVALID_BYTE_SEQUENCE", pos + 1)
    BY <2>1, <2>4
  <2>5. CASE /\ NextIs("UESC") /\ Peek(pos + 1) \in {"END", "BYTES"}
             /\ LexFails(IF AtEnd(pos + 1) THEN "UNCLOSED_UNICODE_ESCAPE_BRACE"
                                           ELSE "INVALID_BYTE_SEQUENCE", pos + 1)
    <3>1. CASE AtEnd(pos + 1)
      <4>1. pos + 1 = Len(pattern) /\ pos + 1 \in Nat /\ pos <= pos + 1
        BY <1>2, <1>3, <2>5, <3>1 DEF NextIs, AtEnd
      <4>2. PointsAtCause("UNCLOSED_UNICODE_ESCAPE_BRACE", pos + 1, pos + 1)
        BY <1>2, <4>1 DEF PointsAtCause
      <4> QED BY <1>1, <2>5, <3>1, <4>1, <4>2, LexErrorPoint
    <3>2. CASE ~AtEnd(pos + 1)
      <4>1. Peek(pos + 1) = "BYTES"
        <5>1. Peek(pos + 1) # "END"
          <6>1. pos + 1 + 1 \in 1 .. Len(pattern)
            BY <1>2, <3>2 DEF AtEnd
          <6>2. pattern[pos + 1 + 1] \in Symbols
            BY <6>1 DEF IInv, Scalars
          <6> QED BY <3>2, <6>2 DEF Peek, Symbols
        <5> QED BY <2>5, <5>1
      <4> QED BY <2>1, <2>5, <3>2, <4>1
    <3> QED BY <3>1, <3>2
  <2> QED BY <1>19, <2>2, <2>3, <2>4, <2>5 DEF LexError
<1> QED BY <1>7, <1>8, <1>9, <1>10, <1>11, <1>12, <1>13, <1>14, <1>15, <1>16, <1>17, <1>18,
        <1>19 DEF Lex

-----------------------------------------------------------------------------
(* What is remembered is right throughout.                                   *)

LEMMA PointStarts ==
  ASSUME Init
  PROVE  PointInv
<1>1. /\ IsPattern(pattern) /\ stack = <<>> /\ pos = 1 /\ control = Call("intersection")
      /\ error_span = {} /\ tok = Token("CHAR_CLASS_OPEN", 0, 1, 0, FALSE, FALSE)
  BY CharClassAssumption DEF Init
<1>2. tok.kind = "CHAR_CLASS_OPEN" /\ tok.lo = 0 /\ tok.hi = 1
  BY <1>1 DEF Token
<1>3. pattern[1] = "[" /\ 1 <= Len(pattern)
  BY <1>1 DEF IsPattern
<1>4. TokenPoints(tok)
  BY <1>2, <1>3 DEF TokenPoints, CodeTokens
<1>5. 1 .. Len(stack) = {}
  BY <1>1
<1>6. control.op = "call"
  BY <1>1, Controls, Counters
<1> QED BY <1>1, <1>2, <1>4, <1>5, <1>6 DEF PointInv, CallOrder, ControlPoints

LEMMA PointStep ==
  ASSUME IInv, PointInv, [Next]_vars
  PROVE  PointInv'
<1>1. CASE UNCHANGED vars
  BY <1>1 DEF vars, PointInv, TokenPoints, FramePoints, ItemPoints, CallOrder, ControlPoints,
     OnlyOpened, IsIntersection, RunPoints, ReturnPoints, ErrorPoints, PointsAtCause,
     IsEmptyClass, Top
<1> QED BY <1>1, LexPoint, EnterPoint, RejectPoint, PointPropagates, ItemPoint, UnionPoint,
        IntersectionPoint DEF Next

LEMMA PointsHold == Spec => []PointInv
BY PointStarts, PointStep, Invariance, PTL DEF Spec

-----------------------------------------------------------------------------
(* The theorems.                                                             *)

(* The values of the parser keep their types; above all, no array of items   *)
(* or unions ever holds more than its capacity, however the growth, the      *)
(* stores and the failures of realloc interleave.                            *)
THEOREM TypeCorrect == Spec => []TypeOK
<1>1. ASSUME IInv
      PROVE  TypeOK
  <2>1. \A i \in 1 .. Len(stack) : FrameType(stack[i])
    BY <1>1 DEF IInv, StackInv, FramesOK, FrameOK
  <2>2. parse_depth \in Nat
    BY <1>1, StackLen DEF IInv, StackInv, FramesOK, DepthMatchesStack
  <2> QED BY <1>1, <2>1, <2>2 DEF IInv, StackInv, FramesOK, Scalars, TypeOK
<1> QED BY <1>1, Invariance, PTL

(* enter_parse_depth and leave_parse_depth are paired on every path of the   *)
(* three functions, so that classes nest to the limit and never past it.     *)
THEOREM DepthIsBounded == Spec => []DepthMatchesStack
<1>1. IInv => DepthMatchesStack
  BY DEF IInv, StackInv
<1> QED BY <1>1, Invariance, PTL

(* No union is cut to a length of nothing: realloc is never asked for an     *)
(* empty array of items, whatever the class.                                 *)
THEOREM ArraysAreNotEmptied == Spec => []NoEmptyArray
<1>1. ASSUME IInv, AtToken, tok.kind \in Terminators
      PROVE  Top.parts # <<>> \/ Top.item # NoItem
  BY <1>1 DEF AtToken, At, IInv, Flow, RunFits, TokenFits, IsUnion
<1>2. IInv => NoEmptyArray
  BY <1>1 DEF NoEmptyArray
<1> QED BY <1>2, Invariance, PTL

(* A range hyphen always follows an item, and the internal errors of the     *)
(* three functions are never returned for a class without an escaped         *)
(* newline: what the lexer looked ahead at is what the parser then lexes.    *)
THEOREM InternalErrorsNotReturned == Spec => []NoInternalError
<1>1. ASSUME IInv, AtToken, tok.kind = "CHAR_CLASS_RANGE_HYPHEN"
      PROVE  Top.item # NoItem
  BY <1>1 DEF AtToken, At, IInv, Flow, RunFits, TokenFits, IsUnion, Operators
<1>2. IInv => NoInternalError
  BY <1>1 DEF NoInternalError, IInv, Flow
<1> QED BY <1>2, Invariance, PTL

(* HeapHasOneOwner: every address that malloc returned and nobody freed      *)
(* belongs to one frame of the three functions or to the value on its way to *)
(* a caller, whatever fails and wherever; the begin item of a range that     *)
(* fails, the end item of a range that is stored and the unions of a nested  *)
(* class are released once, or handed on once.                               *)
THEOREM HeapIsOwned == Spec => []HeapHasOneOwner
<1>1. IInv /\ HeapInv /\ NoEmptyArray => HeapHasOneOwner
  BY OneOwner
<1> QED BY <1>1, Invariance, HeapHolds, ArraysAreNotEmptied, PTL

(* A class that cannot be parsed is reported where the pattern is wrong: the *)
(* span of the error names the range, the item, the empty class, the code or *)
(* the bytes at fault, however long the class and deep the nesting, after    *)
(* any backslashes before newlines, and is handed on by all callers.         *)
THEOREM ErrorsAreLocated == Spec => []ErrorsPointAtCause
<1>1. PointInv => ErrorsPointAtCause
  BY DEF PointInv, ControlPoints, ErrorPoints, ErrorsPointAtCause
<1> QED BY <1>1, PointsHold, PTL
=============================================================================
