---------------------------- MODULE Parser_proofs ----------------------------
(***************************************************************************)
(* Theorems about Parser, for every set of tokens, options and addresses,  *)
(* every limit and every length of pattern.                                *)
(***************************************************************************)
EXTENDS Parser, SequenceTheorems, TLAPS

-----------------------------------------------------------------------------
(* What pushing, popping and replacing the running frame do to the stack of  *)
(* activation records.                                                       *)

LEMMA SeqIsSeq ==
  ASSUME NEW S, NEW s \in Seq(S)
  PROVE  IsSeq(s)
BY SeqOfRange DEF IsSeq, Range

LEMMA StackLen ==
  ASSUME NEW s, IsSeq(s)
  PROVE  Len(s) \in Nat /\ DOMAIN s = 1 .. Len(s) /\ (s # <<>> => Len(s) >= 1)
<1>1. s \in Seq({s[i] : i \in DOMAIN s})
  BY DEF IsSeq
<1> QED BY <1>1, LenProperties, EmptySeq

(* EnterFunction: the new frame is the last, the others stay.               *)
LEMMA StackPush ==
  ASSUME NEW s, IsSeq(s), NEW f
  PROVE  /\ IsSeq(Append(s, f))
         /\ Append(s, f) # <<>>
         /\ Len(Append(s, f)) = Len(s) + 1
         /\ Append(s, f)[Len(s) + 1] = f
         /\ \A i \in 1 .. Len(s) : Append(s, f)[i] = s[i]
<1> DEFINE S == {s[i] : i \in DOMAIN s} \cup {f}
<1>1. s \in Seq(S) /\ f \in S
  BY SeqMonotonic DEF IsSeq
<1> HIDE DEF S
<1>2. Append(s, f) \in Seq(S)
  BY <1>1, AppendProperties
<1>3. IsSeq(Append(s, f))
  BY <1>2, SeqIsSeq
<1>4. /\ Append(s, f) # <<>>
      /\ Len(Append(s, f)) = Len(s) + 1
      /\ Append(s, f)[Len(s) + 1] = f
      /\ \A i \in 1 .. Len(s) : Append(s, f)[i] = s[i]
  BY <1>1, AppendProperties
<1> QED BY <1>3, <1>4

(* Return: the frames below the running one stay.                           *)
LEMMA StackPop ==
  ASSUME NEW s, IsSeq(s), s # <<>>
  PROVE  /\ IsSeq(SubSeq(s, 1, Len(s) - 1))
         /\ Len(SubSeq(s, 1, Len(s) - 1)) = Len(s) - 1
         /\ \A i \in 1 .. Len(s) - 1 : SubSeq(s, 1, Len(s) - 1)[i] = s[i]
<1> DEFINE S == {s[i] : i \in DOMAIN s}
           n == Len(s) - 1
<1>1. s \in Seq(S)
  BY DEF IsSeq
<1> HIDE DEF S
<1>2. n \in Nat /\ \A i \in 1 .. n : s[i] \in S
  BY <1>1, StackLen, ElementOfSeq
<1> HIDE DEF n
<1>3. /\ SubSeq(s, 1, n) \in Seq(S)
      /\ Len(SubSeq(s, 1, n)) = IF 1 <= n THEN n - 1 + 1 ELSE 0
      /\ \A i \in 1 .. n - 1 + 1 : SubSeq(s, 1, n)[i] = s[1 + i - 1]
  BY <1>2, SubSeqProperties
<1>4. IsSeq(SubSeq(s, 1, n))
  BY <1>3, SeqIsSeq
<1>5. Len(SubSeq(s, 1, n)) = n
  BY <1>2, <1>3
<1>6. \A i \in 1 .. n : SubSeq(s, 1, n)[i] = s[i]
  BY <1>2, <1>3
<1> QED BY <1>4, <1>5, <1>6 DEF n

(* Continue: the other frames stay.                                         *)
LEMMA StackReplace ==
  ASSUME NEW s, IsSeq(s), s # <<>>, NEW f
  PROVE  /\ IsSeq([s EXCEPT ![Len(s)] = f])
         /\ [s EXCEPT ![Len(s)] = f] # <<>>
         /\ Len([s EXCEPT ![Len(s)] = f]) = Len(s)
         /\ [s EXCEPT ![Len(s)] = f][Len(s)] = f
         /\ \A i \in 1 .. Len(s) - 1 : [s EXCEPT ![Len(s)] = f][i] = s[i]
<1> DEFINE S == {s[i] : i \in DOMAIN s} \cup {f}
           t == [s EXCEPT ![Len(s)] = f]
<1>1. s \in Seq(S) /\ f \in S
  BY SeqMonotonic DEF IsSeq
<1> HIDE DEF S
<1>2. Len(s) \in Nat /\ Len(s) \in 1 .. Len(s)
  BY StackLen
<1>3. /\ t \in Seq(S)
      /\ Len(t) = Len(s)
      /\ \A j \in 1 .. Len(s) : t[j] = IF j = Len(s) THEN f ELSE s[j]
  BY <1>1, <1>2, ExceptSeq
<1> HIDE DEF t
<1>4. IsSeq(t)
  BY <1>3, SeqIsSeq
<1>5. t # <<>>
  BY <1>2, <1>3, EmptySeq
<1>6. t[Len(s)] = f /\ \A i \in 1 .. Len(s) - 1 : t[i] = s[i]
  BY <1>2, <1>3
<1> QED BY <1>3, <1>4, <1>5, <1>6 DEF t

-----------------------------------------------------------------------------
(* The inductive invariant.  OptionsScoped and DepthMatchesStack are about   *)
(* the frames below the running one as well as the running one, which makes  *)
(* them nearly inductive: what is missing is that only an atom opens an      *)
(* option group, so that the other functions return with the options they    *)
(* were called with.                                                         *)
FramesOK ==
  /\ IsSeq(stack)
  /\ \A i \in 1 .. Len(stack) : FrameType(stack[i]) /\ FrameShape(stack[i])

StackInv == FramesOK /\ DepthMatchesStack /\ OptionsScoped

Scalars ==
  /\ options \in OptionSets
  /\ in_unicode_escape_brace \in BOOLEAN
  /\ num_capture_groups \in Nat
  /\ has_named_captures \in BOOLEAN
  /\ error_set \in BOOLEAN
  /\ tok \in TokenType
  /\ control.op \in {"idle", "call", "lex", "lexed", "run", "ok", "error"}
  /\ control.op = "call" => control.fn \in FunctionNames
  /\ heap \subseteq Addresses
  /\ input \in Seq(AllKinds \cup {"BAD"})

LEMMA TopFacts ==
  ASSUME StackInv, stack # <<>>
  PROVE  /\ Len(stack) \in Nat /\ Len(stack) >= 1
         /\ FrameType(Top) /\ FrameShape(Top)
         /\ options = InForce(Top)
         /\ Top.fn # "atom" => InForce(Top) = Top.saved
<1>1. Len(stack) \in Nat /\ Len(stack) >= 1
  BY StackLen DEF StackInv, FramesOK
<1>2. FrameType(Top) /\ FrameShape(Top)
  BY <1>1 DEF StackInv, FramesOK, Top
<1>3. options = InForce(Top)
  BY DEF StackInv, OptionsScoped
<1> QED BY <1>1, <1>2, <1>3 DEF FrameShape, InForce

LEMMA ContinueKeeps ==
  ASSUME StackInv, stack # <<>>, NEW f, NEW c, Continue(f, c),
         FrameType(f), FrameShape(f), f.saved = Top.saved, options' = InForce(f),
         c.op # "idle"
  PROVE  StackInv'
<1> DEFINE n == Len(stack)
<1>1. n \in Nat /\ n >= 1
  BY TopFacts
<1>2. /\ IsSeq(stack') /\ stack' # <<>> /\ Len(stack') = n /\ stack'[n] = f
      /\ \A i \in 1 .. n - 1 : stack'[i] = stack[i]
  BY StackReplace DEF StackInv, FramesOK, Continue
<1> HIDE DEF n
<1>3. FramesOK'
  <2> SUFFICES ASSUME NEW i \in 1 .. n
               PROVE  FrameType(stack'[i]) /\ FrameShape(stack'[i])
    BY <1>2 DEF FramesOK
  <2>1. CASE i = n
    BY <2>1, <1>2
  <2>2. CASE i # n
    BY <2>2, <1>1, <1>2 DEF StackInv, FramesOK, n
  <2> QED BY <2>1, <2>2
<1>4. DepthMatchesStack'
  BY <1>2 DEF StackInv, DepthMatchesStack, Continue, n
<1>5. OptionsScoped'
  <2>1. options' = InForce(Top')
    BY <1>2 DEF Top
  <2>2. stack'[1].saved = InitialOptions
    BY <1>1, <1>2 DEF StackInv, OptionsScoped, Top, n
  <2>3. ASSUME NEW i \in 1 .. n - 1
        PROVE  stack'[i + 1].saved = InForce(stack'[i])
    <3>1. stack[i + 1].saved = InForce(stack[i])
      BY <2>3 DEF StackInv, OptionsScoped, n
    <3>2. CASE i + 1 = n
      BY <3>1, <3>2, <1>1, <1>2 DEF Top, n
    <3>3. CASE i + 1 # n
      BY <3>1, <3>3, <1>1, <1>2
    <3> QED BY <3>2, <3>3
  <2> QED BY <1>2, <2>1, <2>2, <2>3 DEF OptionsScoped
<1> QED BY <1>3, <1>4, <1>5 DEF StackInv

LEMMA ReturnKeeps ==
  ASSUME StackInv, stack # <<>>, NEW c, Return(c), options' = Top.saved, c.op # "idle"
  PROVE  StackInv'
<1> DEFINE n == Len(stack)
<1>1. n \in Nat /\ n >= 1
  BY TopFacts
<1>2. /\ IsSeq(stack') /\ Len(stack') = n - 1
      /\ \A i \in 1 .. n - 1 : stack'[i] = stack[i]
  BY StackPop DEF StackInv, FramesOK, Return
<1>3. stack' = <<>> <=> n = 1
  BY <1>1, <1>2, StackLen
<1> HIDE DEF n
<1>4. FramesOK'
  BY <1>1, <1>2 DEF StackInv, FramesOK, n
<1>5. DepthMatchesStack'
  BY <1>1, <1>2, ParserAssumption DEF StackInv, DepthMatchesStack, Return, n
<1>6. OptionsScoped'
  <2>1. CASE n = 1
    BY <2>1, <1>2, <1>3 DEF StackInv, OptionsScoped, Top, n
  <2>2. CASE n # 1
    <3>1. n - 1 \in 1 .. n - 1 /\ n - 1 + 1 = n /\ 1 \in 1 .. n - 1
      BY <2>2, <1>1
    <3>2. options' = InForce(Top')
      BY <3>1, <1>2 DEF StackInv, OptionsScoped, Top, n
    <3>3. stack'[1].saved = InitialOptions
      BY <3>1, <1>2 DEF StackInv, OptionsScoped
    <3>4. \A i \in 1 .. (n - 1) - 1 : stack'[i + 1].saved = InForce(stack'[i])
      BY <1>1, <1>2 DEF StackInv, OptionsScoped, n
    <3> QED BY <2>2, <1>2, <1>3, <3>2, <3>3, <3>4 DEF OptionsScoped
  <2> QED BY <2>1, <2>2
<1> QED BY <1>4, <1>5, <1>6 DEF StackInv

LEMMA StackUnchanged ==
  ASSUME StackInv, UNCHANGED <<stack, options, parse_depth>>,
         control'.op = "idle" => stack = <<>>
  PROVE  StackInv'
BY DEF StackInv, FramesOK, DepthMatchesStack, OptionsScoped, Top

(* A function other than parse_atom leaves the options as they are.          *)
LEMMA PlainContinue ==
  ASSUME StackInv, stack # <<>>, Top.fn # "atom", UNCHANGED options,
         NEW f, NEW c, Continue(f, c), FrameType(f), f.fn = Top.fn, f.open = Top.open,
         f.saved = Top.saved, c.op # "idle"
  PROVE  StackInv'
<1>1. FrameShape(f) /\ options' = InForce(f)
  BY TopFacts DEF FrameShape, InForce
<1> QED BY <1>1, ContinueKeeps

LEMMA PlainReturn ==
  ASSUME StackInv, stack # <<>>, Top.fn # "atom", UNCHANGED options,
         NEW c, Return(c), c.op # "idle"
  PROVE  StackInv'
BY TopFacts, ReturnKeeps

(* What a function may do to its own frame besides opening a group.         *)
Follows(f, g) ==
  /\ FrameType(g)
  /\ g.fn = f.fn /\ g.open = f.open /\ g.saved = f.saved

ControlOK(c) ==
  /\ c.op \in {"call", "lex", "lexed", "run", "ok", "error"}
  /\ c.op = "call" => c.fn \in FunctionNames

Moves ==
  \/ \E f, c : Continue(f, c) /\ Follows(Top, f) /\ ControlOK(c)
  \/ \E c : Return(c) /\ ControlOK(c)

IInv == StackInv /\ Scalars

LEMMA PlainMoves ==
  ASSUME IInv, stack # <<>>, Top.fn # "atom", UNCHANGED LocalVars,
         heap' \subseteq Addresses, Moves
  PROVE  IInv'
<1>1. UNCHANGED options
  BY DEF LocalVars
<1>2. CASE \E f, c : Continue(f, c) /\ Follows(Top, f) /\ ControlOK(c)
  <2>1. PICK f, c : Continue(f, c) /\ Follows(Top, f) /\ ControlOK(c)
    BY <1>2
  <2>2. StackInv'
    BY <2>1, <1>1, PlainContinue DEF Follows, ControlOK, IInv
  <2>3. Scalars'
    BY <2>1 DEF IInv, Scalars, LocalVars, parserVars, Continue, ControlOK
  <2> QED BY <2>2, <2>3 DEF IInv
<1>3. CASE \E c : Return(c) /\ ControlOK(c)
  <2>1. PICK c : Return(c) /\ ControlOK(c)
    BY <1>3
  <2>2. StackInv'
    BY <2>1, <1>1, PlainReturn DEF ControlOK, IInv
  <2>3. Scalars'
    BY <2>1 DEF IInv, Scalars, LocalVars, parserVars, Return, ControlOK
  <2> QED BY <2>2, <2>3 DEF IInv
<1> QED BY <1>2, <1>3 DEF Moves

LEMMA FreshIsFree ==
  /\ CanAllocate => Fresh \in Addresses \ heap
  /\ CanAllocateTwo => /\ Fresh \in Addresses \ heap
                       /\ Second \in Addresses \ heap /\ Second # Fresh
<1>1. CanAllocate => Fresh \in Addresses \ heap
  BY DEF CanAllocate, Fresh
<1>2. ASSUME CanAllocateTwo
      PROVE  CanAllocate /\ \E a \in Addresses : a \notin heap \cup {Fresh}
  BY <1>2 DEF CanAllocateTwo, CanAllocate
<1>3. CanAllocateTwo => Second \in Addresses /\ Second \notin heap \cup {Fresh}
  BY <1>2 DEF Second
<1> QED BY <1>1, <1>2, <1>3

LEMMA Controls ==
  /\ \A fn \in FunctionNames : ControlOK(Call(fn))
  /\ ControlOK(CallLex) /\ ControlOK(Run) /\ ControlOK(Lexed)
  /\ \A node : ControlOK(Ok(node))
  /\ \A code : ControlOK(Error(code))
  /\ ControlOK(OutOfMemory)
BY DEF ControlOK, Call, CallLex, Lexed, Run, Ok, Error, OutOfMemory, Control, FunctionNames

-----------------------------------------------------------------------------
(* One lemma per function.                                                  *)

(* The array of children is full and is doubled.                            *)
LEMMA DoubleCap ==
  ASSUME NEW f, FrameType(f)
  PROVE  Follows(f, [f EXCEPT !.pc = "next", !.cap = 2 * @])
<1> DEFINE n == 2 * f.cap
<1>1. n \in Nat
  BY DEF FrameType
<1> HIDE DEF n
<1>2. Follows(f, [f EXCEPT !.pc = "next", !.cap = n])
  BY <1>1 DEF Follows, FrameType, Pcs
<1> QED BY <1>2 DEF n

LEMMA AltKeeps ==
  ASSUME IInv, Alt
  PROVE  IInv'
<1>1. stack # <<>> /\ Top.fn # "atom" /\ UNCHANGED LocalVars
  BY DEF Alt, AltStart, AltFirst, AltGrow, AltNext, AltFails, At
<1>2. FrameType(Top)
  BY <1>1, TopFacts DEF IInv
<1>3. heap' \subseteq Addresses
  BY FreshIsFree DEF Alt, AltStart, AltFirst, AltGrow, AltNext, AltFails, IInv, Scalars
<1>4. Moves
  <2>1. CASE AltStart
    <3>1. Follows(Top, [Top EXCEPT !.pc = "first"])
      BY <1>2 DEF Follows, FrameType, Pcs
    <3> QED BY <2>1, <3>1, Controls DEF AltStart, Moves, FunctionNames
  <2>2. CASE AltFirst
    <3>1. ASSUME NEW child, CanAllocate
          PROVE  Follows(Top, [Top EXCEPT !.pc = "bar", !.kids = <<child>>,
                                          !.mem = {Fresh}, !.cap = 2])
      BY <1>2, <3>1, FreshIsFree DEF Follows, FrameType, Pcs
    <3> QED BY <2>2, <3>1, Controls DEF AltFirst, Moves
  <2>3. CASE AltGrow
    <3>1. Follows(Top, [Top EXCEPT !.pc = "next"])
      BY <1>2 DEF Follows, FrameType, Pcs
    <3>2. Follows(Top, [Top EXCEPT !.pc = "next", !.cap = 2 * @])
      BY <1>2, DoubleCap
    <3> QED BY <2>3, <3>1, <3>2, Controls DEF AltGrow, Moves, FunctionNames
  <2>4. CASE AltNext
    <3>1. ASSUME NEW kids
          PROVE  Follows(Top, [Top EXCEPT !.pc = "bar", !.kids = kids])
      BY <1>2 DEF Follows, FrameType, Pcs
    <3> QED BY <2>4, <3>1, Controls DEF AltNext, Moves
  <2>5. CASE AltFails
    BY <2>5 DEF AltFails, Moves, ControlOK
  <2> QED BY <2>1, <2>2, <2>3, <2>4, <2>5 DEF Alt
<1> QED BY <1>1, <1>3, <1>4, PlainMoves

LEMMA ConcatKeeps ==
  ASSUME IInv, Concat
  PROVE  IInv'
<1>1. stack # <<>> /\ Top.fn # "atom" /\ UNCHANGED LocalVars
  BY DEF Concat, ConcatEmpty, ConcatStart, ConcatFirst, ConcatAppend, ConcatGrow,
         ConcatEnd, ConcatFails, At
<1>2. FrameType(Top)
  BY <1>1, TopFacts DEF IInv
<1>3. heap' \subseteq Addresses
  BY FreshIsFree DEF Concat, ConcatEmpty, ConcatStart, ConcatFirst, ConcatAppend,
     ConcatGrow, ConcatEnd, ConcatFails, IInv, Scalars
<1>4. ASSUME NEW kids
      PROVE  Follows(Top, [Top EXCEPT !.pc = "grow", !.kids = kids])
  BY <1>2 DEF Follows, FrameType, Pcs
<1>5. Moves
  <2>1. CASE ConcatEmpty
    BY <2>1, Controls DEF ConcatEmpty, Moves
  <2>2. CASE ConcatStart
    <3>1. Follows(Top, [Top EXCEPT !.pc = "first"])
      BY <1>2 DEF Follows, FrameType, Pcs
    <3> QED BY <2>2, <3>1, Controls DEF ConcatStart, Moves, FunctionNames
  <2>3. CASE ConcatFirst
    <3>1. ASSUME NEW child, CanAllocate
          PROVE  Follows(Top, [Top EXCEPT !.pc = "next", !.kids = <<child>>,
                                          !.mem = {Fresh}, !.cap = 2])
      BY <1>2, <3>1, FreshIsFree DEF Follows, FrameType, Pcs
    <3> QED BY <2>3, <3>1, Controls DEF ConcatFirst, Moves, FunctionNames
  <2>4. CASE ConcatAppend
    BY <2>4, <1>4, Controls DEF ConcatAppend, Moves
  <2>5. CASE ConcatGrow
    <3>1. Follows(Top, [Top EXCEPT !.pc = "next"])
      BY <1>2 DEF Follows, FrameType, Pcs
    <3>2. Follows(Top, [Top EXCEPT !.pc = "next", !.cap = 2 * @])
      BY <1>2, DoubleCap
    <3> QED BY <2>5, <3>1, <3>2, Controls DEF ConcatGrow, Moves, FunctionNames
  <2>6. CASE ConcatEnd
    BY <2>6, Controls DEF ConcatEnd, Moves
  <2>7. CASE ConcatFails
    BY <2>7 DEF ConcatFails, Moves, ControlOK
  <2> QED BY <2>1, <2>2, <2>3, <2>4, <2>5, <2>6, <2>7 DEF Concat
<1> QED BY <1>1, <1>3, <1>5, PlainMoves

LEMMA QuantifierKeeps ==
  ASSUME IInv, Quantifier
  PROVE  IInv'
<1>1. stack # <<>> /\ Top.fn # "atom" /\ UNCHANGED LocalVars
  BY DEF Quantifier, QuantifierStart, QuantifierAtom, QuantifierWrap, QuantifierNext,
         QuantifierEnd, QuantifierFails, At
<1>2. FrameType(Top)
  BY <1>1, TopFacts DEF IInv
<1>3. heap' \subseteq Addresses
  BY FreshIsFree DEF Quantifier, QuantifierStart, QuantifierAtom, QuantifierWrap,
     QuantifierNext, QuantifierEnd, QuantifierFails, IInv, Scalars
<1>4. Moves
  <2>1. CASE QuantifierStart
    <3>1. Follows(Top, [Top EXCEPT !.pc = "atom"])
      BY <1>2 DEF Follows, FrameType, Pcs
    <3> QED BY <2>1, <3>1, Controls DEF QuantifierStart, Moves, FunctionNames
  <2>2. CASE QuantifierAtom
    <3>1. ASSUME NEW node
          PROVE  Follows(Top, [Top EXCEPT !.pc = "loop", !.kids = <<node>>])
      BY <1>2 DEF Follows, FrameType, Pcs
    <3> QED BY <2>2, <3>1, Controls DEF QuantifierAtom, Moves
  <2>3. CASE QuantifierWrap
    <3>1. ASSUME NEW node
          PROVE  Follows(Top, [Top EXCEPT !.pc = "wrapped", !.kids = <<node>>])
      BY <1>2 DEF Follows, FrameType, Pcs
    <3> QED BY <2>3, <3>1, Controls DEF QuantifierWrap, Moves
  <2>4. CASE QuantifierNext
    <3>1. Follows(Top, [Top EXCEPT !.pc = "loop"])
      BY <1>2 DEF Follows, FrameType, Pcs
    <3> QED BY <2>4, <3>1, Controls DEF QuantifierNext, Moves
  <2>5. CASE QuantifierEnd
    BY <2>5, Controls DEF QuantifierEnd, Moves
  <2>6. CASE QuantifierFails
    BY <2>6 DEF QuantifierFails, Moves, ControlOK
  <2> QED BY <2>1, <2>2, <2>3, <2>4, <2>5, <2>6 DEF Quantifier
<1> QED BY <1>1, <1>3, <1>4, PlainMoves

LEMMA BodyKeeps ==
  ASSUME IInv, Body
  PROVE  IInv'
<1>1. stack # <<>> /\ Top.fn # "atom" /\ UNCHANGED LocalVars
  BY DEF Body, BodyStart, BodyLexed, BodyEnd, BodyFails, At
<1>2. FrameType(Top)
  BY <1>1, TopFacts DEF IInv
<1>3. heap' \subseteq Addresses
  BY DEF Body, BodyStart, BodyLexed, BodyEnd, BodyFails, IInv, Scalars
<1>4. Moves
  <2>1. CASE BodyStart
    <3>1. Follows(Top, [Top EXCEPT !.pc = "lex"])
      BY <1>2 DEF Follows, FrameType, Pcs
    <3> QED BY <2>1, <3>1, Controls DEF BodyStart, Moves
  <2>2. CASE BodyLexed
    <3>1. Follows(Top, [Top EXCEPT !.pc = "alt"])
      BY <1>2 DEF Follows, FrameType, Pcs
    <3> QED BY <2>2, <3>1, Controls DEF BodyLexed, Moves, FunctionNames
  <2>3. CASE BodyEnd
    BY <2>3, Controls DEF BodyEnd, Moves, At, ControlOK
  <2>4. CASE BodyFails
    BY <2>4 DEF BodyFails, Moves, ControlOK
  <2> QED BY <2>1, <2>2, <2>3, <2>4 DEF Body
<1> QED BY <1>1, <1>3, <1>4, PlainMoves

-----------------------------------------------------------------------------
(* parse_atom opens option groups, so its options need not be its caller's.  *)

AtomMoves ==
  \/ \E f, c : /\ Continue(f, c) /\ ControlOK(c)
               /\ FrameType(f) /\ FrameShape(f)
               /\ f.saved = Top.saved /\ options' = InForce(f)
  \/ \E c : Return(c) /\ ControlOK(c) /\ options' = Top.saved

AtomScalars ==
  /\ in_unicode_escape_brace' \in BOOLEAN
  /\ num_capture_groups' \in Nat
  /\ has_named_captures' \in BOOLEAN
  /\ error_set' \in BOOLEAN
  /\ tok' \in TokenType
  /\ heap' \subseteq Addresses
  /\ UNCHANGED input

LEMMA AtomMovesKeep ==
  ASSUME IInv, stack # <<>>, AtomMoves, AtomScalars
  PROVE  IInv'
<1>1. CASE \E f, c : /\ Continue(f, c) /\ ControlOK(c)
                    /\ FrameType(f) /\ FrameShape(f)
                    /\ f.saved = Top.saved /\ options' = InForce(f)
  <2>1. PICK f, c : /\ Continue(f, c) /\ ControlOK(c)
                    /\ FrameType(f) /\ FrameShape(f)
                    /\ f.saved = Top.saved /\ options' = InForce(f)
    BY <1>1
  <2>2. StackInv'
    BY <2>1, ContinueKeeps DEF IInv, ControlOK
  <2>3. options' \in OptionSets
    BY <2>1 DEF InForce, FrameType, TokenType
  <2>4. Scalars'
    BY <2>1, <2>3 DEF IInv, Scalars, AtomScalars, Continue, ControlOK
  <2> QED BY <2>2, <2>4 DEF IInv
<1>2. CASE \E c : Return(c) /\ ControlOK(c) /\ options' = Top.saved
  <2>1. PICK c : Return(c) /\ ControlOK(c) /\ options' = Top.saved
    BY <1>2
  <2>2. StackInv'
    BY <2>1, ReturnKeeps DEF IInv, ControlOK
  <2>3. options' \in OptionSets
    BY <2>1, TopFacts DEF IInv, FrameType
  <2>4. Scalars'
    BY <2>1, <2>3 DEF IInv, Scalars, AtomScalars, Return, ControlOK
  <2> QED BY <2>2, <2>4 DEF IInv
<1> QED BY <1>1, <1>2 DEF AtomMoves

(* A finished atom is outside its group again.                              *)
LEMMA KeepAtomMoves ==
  ASSUME IInv, stack # <<>>, Top.fn = "atom", options' = Top.saved,
         NEW node, KeepAtom(node)
  PROVE  AtomMoves
<1> DEFINE f == [Top EXCEPT !.pc = "exit", !.kids = <<node>>, !.mem = {}]
<1>1. FrameType(Top)
  BY TopFacts DEF IInv
<1>2. /\ FrameType(f) /\ f.fn = "atom" /\ f.pc = "exit"
      /\ f.open = Top.open /\ f.saved = Top.saved
  BY <1>1 DEF FrameType, Pcs
<1>3. Continue(f, CallLex)
  BY DEF KeepAtom
<1> HIDE DEF f
<1>4. FrameShape(f) /\ options' = InForce(f)
  BY <1>2 DEF FrameShape, InForce
<1> QED BY <1>2, <1>3, <1>4, Controls DEF AtomMoves

(* An atom that has not opened a group.                                     *)
SimpleAtom == AtomLeaf \/ AtomCode \/ AtomReference \/ AtomCharClass \/ AtomRejects

LEMMA TokenKeepsType ==
  ASSUME tok \in TokenType
  PROVE  [tok EXCEPT !.name = {}] \in TokenType
BY DEF TokenType

LEMMA SimpleAtomKeeps ==
  ASSUME IInv, SimpleAtom
  PROVE  IInv'
<1>1. At("run", "atom", "start") /\ UNCHANGED options
  BY DEF SimpleAtom, AtomLeaf, AtomCode, AtomReference, AtomCharClass, AtomRejects,
         AtomVars, LocalVars
<1>2. stack # <<>> /\ Top.fn = "atom" /\ options' = Top.saved
  BY <1>1, TopFacts DEF At, IInv, FrameShape, InForce
<1>3. AtomScalars
  BY FreshIsFree, TokenKeepsType DEF SimpleAtom, AtomLeaf, AtomCode, AtomReference,
     AtomCharClass, AtomRejects, AtomVars, LocalVars, parserVars, AtomScalars, IInv, Scalars
<1>4. AtomMoves
  <2>1. ASSUME NEW c, Return(c), ControlOK(c)
        PROVE  AtomMoves
    BY <1>2, <2>1 DEF AtomMoves
  <2> QED BY <1>2, <2>1, KeepAtomMoves, Controls DEF SimpleAtom, AtomLeaf, AtomCode,
             AtomReference, AtomCharClass, AtomRejects
<1> QED BY <1>2, <1>3, <1>4, AtomMovesKeep

LEMMA GroupAtomKeeps ==
  ASSUME IInv, GroupOpen \/ GroupEnd \/ OptionOpen \/ OptionLexed \/ OptionEnd
  PROVE  IInv'
<1>1. stack # <<>> /\ Top.fn = "atom"
  BY DEF GroupOpen, GroupEnd, OptionOpen, OptionLexed, OptionEnd, At
<1>2. FrameType(Top) /\ FrameShape(Top) /\ options = InForce(Top)
  BY <1>1, TopFacts DEF IInv
<1>3. AtomScalars
  <2>1. num_capture_groups' \in Nat
    BY DEF GroupOpen, GroupEnd, OptionOpen, OptionLexed, OptionEnd, LocalVars, parserVars,
           IInv, Scalars
  <2>2. has_named_captures' \in BOOLEAN
    BY DEF GroupOpen, GroupEnd, OptionOpen, OptionLexed, OptionEnd, LocalVars, parserVars,
           IInv, Scalars
  <2>3. tok' \in TokenType
    BY TokenKeepsType DEF GroupOpen, GroupEnd, OptionOpen, OptionLexed, OptionEnd,
       LocalVars, IInv, Scalars
  <2>4. heap' \subseteq Addresses
    BY FreshIsFree DEF GroupOpen, GroupEnd, OptionOpen, OptionLexed, OptionEnd, IInv,
       Scalars
  <2>5. UNCHANGED <<in_unicode_escape_brace, error_set, input>>
    BY DEF GroupOpen, GroupEnd, OptionOpen, OptionLexed, OptionEnd, LocalVars, parserVars
  <2> QED BY <2>1, <2>2, <2>3, <2>4, <2>5 DEF AtomScalars, IInv, Scalars
<1>4. tok \in TokenType
  BY DEF IInv, Scalars
<1>5. AtomMoves
  <2>1. CASE GroupOpen
    <3> DEFINE f(num) == OpenFrame("body", num)
    <3>1. Top.pc = "start" /\ Top.saved = options
      BY <1>2, <2>1 DEF GroupOpen, At, FrameShape, InForce
    <3>2. CASE \E c : Return(c) /\ ControlOK(c) /\ options' = options
      BY <3>1, <3>2 DEF AtomMoves
    <3>3. ASSUME NEW num \in Nat, Continue(f(num), Call("body")),
                 options' = IF tok.kind = "OPTION_GROUP_OPEN" THEN tok.opts ELSE options
          PROVE  AtomMoves
      <4>1. /\ FrameType(f(num)) /\ f(num).fn = "atom" /\ f(num).pc = "body"
            /\ f(num).open = tok /\ f(num).saved = Top.saved
        BY <1>1, <1>2, <1>4 DEF OpenFrame, FrameType, TokenType, Pcs
      <4>2. tok.kind # "OPTION"
        BY <2>1 DEF GroupOpen, GroupKinds
      <4>3. FrameShape(f(num)) /\ options' = InForce(f(num))
        BY <3>1, <3>3, <4>1, <4>2 DEF FrameShape, InForce, OptionKinds
      <4> QED BY <3>3, <4>1, <4>3, Controls DEF AtomMoves, FunctionNames
    <3>4. num_capture_groups + 1 \in Nat /\ num_capture_groups \in Nat
      BY DEF IInv, Scalars
    <3>5. \/ \E c : Return(c) /\ ControlOK(c) /\ options' = options
          \/ \E num \in Nat :
               /\ Continue(f(num), Call("body"))
               /\ options' = IF tok.kind = "OPTION_GROUP_OPEN" THEN tok.opts ELSE options
      BY <2>1, <3>4, Controls DEF GroupOpen
    <3> QED BY <3>2, <3>3, <3>5
  <2>2. CASE GroupEnd
    <3>1. options' = Top.saved
      BY <1>2, <2>2 DEF GroupEnd, Restored, At, InForce
    <3> QED BY <1>1, <2>2, <3>1, KeepAtomMoves, Controls DEF GroupEnd, AtomMoves
  <2>3. CASE OptionOpen
    <3> DEFINE f == OpenFrame("option_lex", 0)
    <3>1. /\ FrameType(f) /\ f.fn = "atom" /\ f.pc = "option_lex"
          /\ f.open = tok /\ f.saved = Top.saved
      BY <1>1, <1>2, <1>4 DEF OpenFrame, FrameType, TokenType, Pcs
    <3>2. FrameShape(f) /\ options' = InForce(f)
      BY <2>3, <3>1 DEF OptionOpen, FrameShape, InForce, OptionKinds
    <3> QED BY <2>3, <3>1, <3>2, Controls DEF OptionOpen, AtomMoves
  <2>4. CASE OptionLexed
    <3> DEFINE f == [Top EXCEPT !.pc = "option_alt"]
    <3>1. /\ FrameType(f) /\ f.fn = "atom" /\ f.pc = "option_alt"
          /\ f.open = Top.open /\ f.saved = Top.saved
      BY <1>1, <1>2 DEF FrameType, Pcs
    <3>2. UNCHANGED options /\ Top.pc = "option_lex"
      BY <2>4 DEF OptionLexed, At, LocalVars
    <3>3. FrameShape(f) /\ options' = InForce(f)
      BY <1>2, <3>1, <3>2 DEF FrameShape, InForce
    <3> QED BY <2>4, <3>1, <3>3, Controls DEF OptionLexed, AtomMoves, FunctionNames
  <2>5. CASE OptionEnd
    BY <2>5, Controls DEF OptionEnd, AtomMoves
  <2> QED BY <2>1, <2>2, <2>3, <2>4, <2>5
<1> QED BY <1>1, <1>3, <1>5, AtomMovesKeep

Conditional == ConditionalOpen \/ ConditionalLexed \/ ConditionalBar \/ ConditionalEnd

LEMMA ConditionalKeeps ==
  ASSUME IInv, Conditional
  PROVE  IInv'
<1>1. stack # <<>> /\ Top.fn = "atom" /\ UNCHANGED options
  BY DEF Conditional, ConditionalOpen, ConditionalLexed, ConditionalBar, ConditionalEnd,
         At, AtomVars, LocalVars
<1>2. FrameType(Top) /\ FrameShape(Top) /\ options = InForce(Top)
  BY <1>1, TopFacts DEF IInv
<1>3. Top.open.kind \notin OptionKinds /\ options' = Top.saved
  BY <1>1, <1>2 DEF Conditional, ConditionalOpen, ConditionalLexed, ConditionalBar,
     ConditionalEnd, At, FrameShape, InForce
<1>4. AtomScalars
  BY FreshIsFree, TokenKeepsType DEF Conditional, ConditionalOpen, ConditionalLexed,
     ConditionalBar, ConditionalEnd, AtomVars, LocalVars, parserVars, AtomScalars, IInv,
     Scalars
<1>5. ASSUME NEW f, NEW c, Continue(f, c), ControlOK(c), FrameType(f), f.fn = "atom",
             f.saved = Top.saved, f.open.kind \notin OptionKinds
      PROVE  AtomMoves
  <2>1. FrameShape(f) /\ options' = InForce(f)
    BY <1>3, <1>5 DEF FrameShape, InForce
  <2> QED BY <1>5, <2>1 DEF AtomMoves
<1>6. AtomMoves
  <2>1. CASE ConditionalOpen
    <3>1. /\ FrameType(OpenFrame("cond_lex", 0)) /\ OpenFrame("cond_lex", 0).fn = "atom"
          /\ OpenFrame("cond_lex", 0).saved = Top.saved
          /\ OpenFrame("cond_lex", 0).open = tok
      BY <1>1, <1>2 DEF OpenFrame, FrameType, TokenType, Pcs, IInv, Scalars
    <3>2. tok.kind \notin OptionKinds
      BY <2>1 DEF ConditionalOpen, OptionKinds
    <3> QED BY <1>5, <2>1, <3>1, <3>2, Controls DEF ConditionalOpen
  <2>2. ASSUME NEW p \in {"cond_yes", "cond_no"}
        PROVE  Follows(Top, [Top EXCEPT !.pc = p])
    BY <1>2 DEF Follows, FrameType, Pcs
  <2>3. ASSUME NEW kids
        PROVE  Follows(Top, [Top EXCEPT !.pc = "cond_bar", !.kids = kids])
    BY <1>2 DEF Follows, FrameType, Pcs
  <2>4. CASE ConditionalLexed
    BY <1>1, <1>3, <1>5, <2>2, <2>4, Controls DEF ConditionalLexed, Follows, FunctionNames
  <2>5. CASE ConditionalBar
    BY <1>1, <1>3, <1>5, <2>3, <2>5, Controls DEF ConditionalBar, Follows
  <2>6. CASE ConditionalEnd
    BY <1>1, <1>3, <2>6, KeepAtomMoves, Controls DEF ConditionalEnd, AtomMoves
  <2> QED BY <2>1, <2>4, <2>5, <2>6 DEF Conditional
<1> QED BY <1>1, <1>4, <1>6, AtomMovesKeep

LEMMA AtomLeaves ==
  ASSUME IInv, AtomExit \/ AtomFails
  PROVE  IInv'
<1>1. stack # <<>> /\ Top.fn = "atom"
  BY DEF AtomExit, AtomFails, At
<1>2. options = InForce(Top)
  BY <1>1, TopFacts DEF IInv
<1>3. AtomScalars
  BY DEF AtomExit, AtomFails, LocalVars, parserVars, AtomScalars, IInv, Scalars
<1>4. options' = Top.saved
  BY <1>2 DEF AtomExit, AtomFails, At, LocalVars, Restored, InForce
<1>5. AtomMoves
  BY <1>4, Controls DEF AtomExit, AtomFails, AtomMoves, ControlOK
<1> QED BY <1>1, <1>3, <1>5, AtomMovesKeep

LEMMA AtomKeeps ==
  ASSUME IInv, Atom
  PROVE  IInv'
BY SimpleAtomKeeps, GroupAtomKeeps, ConditionalKeeps, AtomLeaves DEF Atom, SimpleAtom,
   Conditional

-----------------------------------------------------------------------------
(* enter_parse_depth, lex and nk_parser_parse.                               *)

LEMMA EnterKeeps ==
  ASSUME IInv, Enter
  PROVE  IInv'
<1>1. CASE EnterFunction
  <2> DEFINE n == Len(stack)
             f == Frame(control.fn)
  <2>1. n \in Nat
    BY StackLen DEF IInv, StackInv, FramesOK
  <2>2. /\ IsSeq(stack') /\ stack' # <<>> /\ Len(stack') = n + 1 /\ stack'[n + 1] = f
        /\ \A i \in 1 .. n : stack'[i] = stack[i]
    BY <1>1, StackPush DEF IInv, StackInv, FramesOK, EnterFunction
  <2>3. NoToken \in TokenType /\ NoToken.kind \notin OptionKinds
    BY ParserAssumption DEF NoToken, Token, TokenType, OptionKinds
  <2>4. control.fn \in FunctionNames /\ options \in OptionSets
    BY <1>1 DEF EnterFunction, IInv, Scalars
  <2>5. FrameType(f) /\ f.open = NoToken /\ f.saved = options
    BY <2>3, <2>4 DEF Frame, FrameType, Pcs
  <2>6. FrameShape(f) /\ InForce(f) = options
    BY <2>3, <2>5 DEF FrameShape, InForce
  <2> HIDE DEF f, n
  <2>7. FramesOK'
    <3> SUFFICES ASSUME NEW i \in 1 .. n + 1
                 PROVE  FrameType(stack'[i]) /\ FrameShape(stack'[i])
      BY <2>2 DEF FramesOK
    <3>1. CASE i = n + 1
      BY <3>1, <2>2, <2>5, <2>6
    <3>2. CASE i # n + 1
      BY <3>2, <2>1, <2>2 DEF IInv, StackInv, FramesOK, n
    <3> QED BY <3>1, <3>2
  <2>8. DepthMatchesStack'
    BY <1>1, <2>1, <2>2, ParserAssumption DEF EnterFunction, IInv, StackInv,
       DepthMatchesStack, Run, Control, n
  <2>9. OptionsScoped'
    <3>1. options' = InForce(Top') /\ options' = options
      BY <1>1, <2>2, <2>6 DEF EnterFunction, Top
    <3>2. stack'[1].saved = InitialOptions
      <4>1. CASE stack = <<>>
        BY <4>1, <2>1, <2>2, <2>5, EmptySeq DEF IInv, StackInv, OptionsScoped, n
      <4>2. CASE stack # <<>>
        BY <4>2, <2>2, TopFacts DEF IInv, StackInv, OptionsScoped, n
      <4> QED BY <4>1, <4>2
    <3>3. ASSUME NEW i \in 1 .. n
          PROVE  stack'[i + 1].saved = InForce(stack'[i])
      <4>1. CASE i = n
        BY <4>1, <2>1, <2>2, <2>5, StackLen DEF IInv, StackInv, FramesOK, OptionsScoped, Top, n
      <4>2. CASE i # n
        BY <4>2, <2>1, <2>2 DEF IInv, StackInv, OptionsScoped, n
      <4> QED BY <4>1, <4>2
    <3> QED BY <2>1, <2>2, <3>1, <3>2, <3>3 DEF OptionsScoped
  <2>10. Scalars'
    BY <1>1 DEF EnterFunction, IInv, Scalars, parserVars, Run, Control
  <2> QED BY <2>7, <2>8, <2>9, <2>10 DEF IInv, StackInv
<1>2. CASE RejectDepth
  <2>1. StackInv'
    BY <1>2, StackUnchanged DEF RejectDepth, IInv, Error, Control
  <2>2. Scalars'
    BY <1>2 DEF RejectDepth, IInv, Scalars, parserVars, Error, Control
  <2> QED BY <2>1, <2>2 DEF IInv
<1> QED BY <1>1, <1>2 DEF Enter

(* A call of lex that returns a token.                                      *)
LEMMA TokenKeeps ==
  ASSUME IInv, in_unicode_escape_brace' \in BOOLEAN,
         NEW kind \in AllKinds \cup {"END"}, NEW name \in SUBSET Addresses,
         NEW opts \in OptionSets, ReturnToken(kind, name, opts)
  PROVE  IInv'
<1>1. StackInv'
  BY StackUnchanged DEF ReturnToken, LexVars, IInv, Lexed, Control
<1>2. Len(input) \in Nat
  BY LenProperties DEF IInv, Scalars
<1>3. tok' \in TokenType
  BY <1>2 DEF ReturnToken, Token, TokenType
<1>4. input' \in Seq(AllKinds \cup {"BAD"})
  <2>1. CASE kind = "END"
    BY <2>1 DEF ReturnToken, IInv, Scalars
  <2>2. CASE kind # "END"
    BY <2>2, AppendProperties DEF ReturnToken, IInv, Scalars
  <2> QED BY <2>1, <2>2
<1>5. Scalars'
  BY <1>3, <1>4 DEF ReturnToken, LexVars, IInv, Scalars, Lexed, Control
<1> QED BY <1>1, <1>5 DEF IInv

LEMMA LexKeeps ==
  ASSUME IInv, Lex
  PROVE  IInv'
<1>1. CASE LexToken
  <2>1. PICK kind \in UNION Vocabularies :
          /\ in_unicode_escape_brace' \in (IF kind = "CODE" THEN BOOLEAN ELSE {FALSE})
          /\ \E opts \in (IF kind \in OptionKinds THEN OptionSets ELSE {InitialOptions}) :
               \/ ReturnToken(kind, {}, opts)
               \/ /\ kind \in NamedKinds /\ CanAllocate
                  /\ ReturnToken(kind, {Fresh}, opts)
    BY <1>1 DEF LexToken
  <2>2. in_unicode_escape_brace' \in BOOLEAN /\ kind \in AllKinds
    BY <2>1, ParserAssumption
  <2>3. PICK opts \in OptionSets :
          \/ ReturnToken(kind, {}, opts)
          \/ CanAllocate /\ ReturnToken(kind, {Fresh}, opts)
    BY <2>1, ParserAssumption
  <2>4. CASE ReturnToken(kind, {}, opts)
    BY <2>2, <2>4, TokenKeeps
  <2>5. CASE CanAllocate /\ ReturnToken(kind, {Fresh}, opts)
    <3>1. {Fresh} \in SUBSET Addresses
      BY <2>5, FreshIsFree
    <3> QED BY <2>2, <2>5, <3>1, TokenKeeps
  <2> QED BY <2>3, <2>4, <2>5
<1>2. CASE LexEnd
  <2>1. in_unicode_escape_brace' \in BOOLEAN
    BY <1>2 DEF LexEnd, IInv, Scalars
  <2> QED BY <1>2, <2>1, TokenKeeps, ParserAssumption DEF LexEnd
<1>3. CASE LexInBrace
  <2>1. "CODE" \in AllKinds
    BY DEF AllKinds, LeafKinds
  <2> QED BY <1>3, <2>1, TokenKeeps, ParserAssumption DEF LexInBrace
<1>4. CASE LexError
  <2>1. StackInv'
    BY <1>4, StackUnchanged DEF LexError, LexVars, IInv, Error, Control
  <2>2. NoToken \in TokenType
    BY ParserAssumption DEF NoToken, Token, TokenType
  <2>3. input' \in Seq(AllKinds \cup {"BAD"})
    BY <1>4, AppendProperties DEF LexError, IInv, Scalars
  <2>4. Scalars'
    BY <1>4, <2>2, <2>3 DEF LexError, LexVars, IInv, Scalars, Error, Control
  <2> QED BY <2>1, <2>4 DEF IInv
<1> QED BY <1>1, <1>2, <1>3, <1>4 DEF Lex

LEMMA ParseKeeps ==
  ASSUME IInv, Parse
  PROVE  IInv'
<1>1. StackInv'
  <2>1. UNCHANGED <<stack, options, parse_depth>>
    BY DEF Parse, StartParse, ParseFirstToken, ParseSucceeds, ParseRejectsRest, ParseFails,
           ReleaseResult, Finish
  <2>2. control'.op = "idle" => stack = <<>>
    BY DEF Parse, StartParse, ParseFirstToken, ParseSucceeds, ParseRejectsRest, ParseFails,
           ReleaseResult, CallLex, Call, Control, IInv, StackInv, DepthMatchesStack
  <2> QED BY <2>1, <2>2, StackUnchanged DEF IInv
<1>2. ASSUME NEW code, NEW node, NEW freed, Finish(code, node, freed), error_set' \in BOOLEAN
      PROVE  Scalars'
  <2>1. NoToken \in TokenType
    BY ParserAssumption DEF NoToken, Token, TokenType
  <2> QED BY <1>2, <2>1 DEF Finish, IInv, Scalars, parserVars, Idle, Control
<1>3. ASSUME StartParse \/ ParseFirstToken \/ ReleaseResult
      PROVE  Scalars'
  BY <1>3 DEF StartParse, ParseFirstToken, ReleaseResult, IInv, Scalars, parserVars, callVars,
     CallLex, Call, Control, FunctionNames
<1>4. ASSUME ParseSucceeds \/ ParseFails
      PROVE  Scalars'
  BY <1>2, <1>4 DEF ParseSucceeds, ParseFails, IInv, Scalars
<1>5. ASSUME ParseRejectsRest
      PROVE  Scalars'
  <2>1. error_set' \in BOOLEAN
    BY <1>5 DEF ParseRejectsRest, IInv, Scalars
  <2> QED BY <1>2, <1>5, <2>1 DEF ParseRejectsRest
<1>6. Scalars'
  BY <1>3, <1>4, <1>5 DEF Parse
<1> QED BY <1>1, <1>6 DEF IInv

-----------------------------------------------------------------------------
(* The theorems.                                                            *)

LEMMA InitEstablishes ==
  Init => IInv
<1> SUFFICES ASSUME Init
             PROVE  IInv
  OBVIOUS
<1>1. stack = <<>> /\ Len(stack) = 0 /\ input = <<>>
  BY EmptySeq DEF Init
<1>2. IsSeq(stack) /\ input \in Seq(AllKinds \cup {"BAD"})
  BY <1>1, EmptySeq DEF IsSeq
<1>3. StackInv
  BY <1>1, <1>2, ParserAssumption DEF Init, StackInv, FramesOK, DepthMatchesStack,
     OptionsScoped
<1>4. NoToken \in TokenType
  BY ParserAssumption DEF NoToken, Token, TokenType
<1>5. Scalars
  BY <1>2, <1>4, ParserAssumption DEF Init, Scalars, Idle, Control
<1> QED BY <1>3, <1>5 DEF IInv

LEMMA StepKeeps ==
  IInv /\ [Next]_vars => IInv'
<1> SUFFICES ASSUME IInv, [Next]_vars
             PROVE  IInv'
  OBVIOUS
<1>1. CASE Next
  BY <1>1, ParseKeeps, LexKeeps, EnterKeeps, AltKeeps, ConcatKeeps, QuantifierKeeps,
     BodyKeeps, AtomKeeps DEF Next
<1>2. CASE UNCHANGED vars
  BY <1>2 DEF vars, parserVars, IInv, StackInv, FramesOK, DepthMatchesStack, OptionsScoped,
     Top, Scalars
<1> QED BY <1>1, <1>2

LEMMA Invariance ==
  Spec => []IInv
BY InitEstablishes, StepKeeps, PTL DEF Spec

(* TypeOK: every variable of the parser keeps its type.                     *)
THEOREM TypeCorrect ==
  Spec => []TypeOK
<1>1. IInv => TypeOK
  <2> SUFFICES ASSUME IInv
               PROVE  TypeOK
    OBVIOUS
  <2>1. parse_depth \in Nat
    BY StackLen DEF IInv, StackInv, FramesOK, DepthMatchesStack
  <2> QED BY <2>1 DEF IInv, StackInv, FramesOK, Scalars, TypeOK
<1> QED BY <1>1, Invariance, PTL

(* For every limit, the functions of the parser that are active are counted  *)
(* by parse_depth and never more than max_parse_depth_limit: the recursion   *)
(* over a pattern of any length is bounded, and no error path loses count.   *)
THEOREM DepthIsBounded ==
  Spec => []DepthMatchesStack
<1>1. IInv => DepthMatchesStack
  BY DEF IInv, StackInv
<1> QED BY <1>1, Invariance, PTL

(* parser_state_restore undoes every parser_state_apply_option, whichever    *)
(* nested function or malloc fails in between.                               *)
THEOREM OptionsAreScoped ==
  Spec => []OptionsScoped
<1>1. IInv => OptionsScoped
  BY DEF IInv, StackInv
<1> QED BY <1>1, Invariance, PTL

-----------------------------------------------------------------------------
(* Which function calls which, and at which tokens they stop.               *)

Callee(fn, pc) ==
  IF fn = "alt" THEN "concat"
  ELSE IF fn = "concat" THEN "quantifier"
  ELSE IF fn = "quantifier" THEN "atom"
  ELSE IF fn = "body" \/ pc = "option_alt" THEN "alt"
  ELSE IF pc = "body" THEN "body" ELSE "concat"

(* The function the running one, or nk_parser_parse, called last.           *)
Called == IF stack = <<>> THEN "alt" ELSE Callee(Top.fn, Top.pc)

ProgramCounters ==
  [alt |-> {"start", "first", "bar", "next"},
   concat |-> {"start", "first", "next", "grow"},
   quantifier |-> {"start", "atom", "loop", "wrapped"},
   body |-> {"start", "lex", "alt"},
   atom |-> {"start", "body", "option_lex", "option_alt", "cond_lex", "cond_yes",
             "cond_bar", "cond_no", "exit"}]

PcOK(f) == f.pc \in ProgramCounters[f.fn]

Chain ==
  \A i \in 1 .. Len(stack) :
    /\ stack[i].fn = IF i = 1 THEN "alt" ELSE Callee(stack[i - 1].fn, stack[i - 1].pc)
    /\ PcOK(stack[i])

(* The functions that must not be called at |, ) or the end.                *)
NeedsItem == {"quantifier", "atom"}

StopsAt(fn, kind) ==
  /\ fn = "alt" => kind \in {"GROUP_CLOSE", "END"}
  /\ fn = "concat" => kind \in Terminators
  /\ fn = "body" => kind = "GROUP_CLOSE"

InternalErrors == {"PARSER_BUG", "UNEXPECTED_END_OF_PATTERN", "UNCLOSED_UNICODE_ESCAPE_BRACE"}

Flow ==
  /\ control.op = "call" =>
       control.fn = Called /\ (control.fn \in NeedsItem => tok.kind \notin Terminators)
  /\ control.op = "run" =>
       stack # <<>> /\ (Top.fn \in NeedsItem /\ Top.pc = "start" => tok.kind \notin Terminators)
  /\ control.op = "ok" => StopsAt(Called, tok.kind)
  /\ in_unicode_escape_brace /\ control.op \in {"call", "lexed", "run", "ok"} =>
       tok.kind = "CODE"
  /\ control.code \notin InternalErrors

FlowInv == Chain /\ Flow

LEMMA TopChain ==
  ASSUME StackInv, Chain, stack # <<>>
  PROVE  PcOK(Top)
<1>1. Len(stack) \in 1 .. Len(stack)
  BY TopFacts
<1> QED BY <1>1 DEF Chain, Top

(* What the running function does next, as far as the calls are concerned.  *)
FlowCalls(pc, c) ==
  /\ c.code = "SUCCESS"
  /\ \/ c.op \in {"lex", "run"}
     \/ /\ c.op = "call" /\ c.fn = Callee(Top.fn, pc)
        /\ c.fn \in NeedsItem => tok.kind \notin Terminators

FlowGoes(f, c) ==
  /\ f.fn = Top.fn /\ PcOK(f) /\ f.pc # "start"
  /\ FlowCalls(f.pc, c)

FlowEnds(c) ==
  /\ c.code \notin InternalErrors
  /\ \/ c.op = "error"
     \/ c.op = "ok" /\ StopsAt(Top.fn, tok.kind)

FlowMoves ==
  \/ \E f, c : Continue(f, c) /\ FlowGoes(f, c)
  \/ \E c : Return(c) /\ FlowEnds(c)

LEMMA FlowMovesKeep ==
  ASSUME IInv, FlowInv, stack # <<>>, FlowMoves, tok'.kind = tok.kind,
         control'.op \notin {"lex", "error"} =>
           UNCHANGED in_unicode_escape_brace /\ control.op \in {"lexed", "run", "ok"}
  PROVE  FlowInv'
<1> DEFINE n == Len(stack)
<1>1. n \in Nat /\ n >= 1 /\ IsSeq(stack)
  BY TopFacts DEF IInv, StackInv, FramesOK
<1>2. CASE \E f, c : Continue(f, c) /\ FlowGoes(f, c)
  <2>1. PICK f, c : Continue(f, c) /\ FlowGoes(f, c)
    BY <1>2
  <2>2. /\ stack' # <<>> /\ Len(stack') = n /\ stack'[n] = f
        /\ \A i \in 1 .. n - 1 : stack'[i] = stack[i]
    BY <1>1, <2>1, StackReplace DEF Continue
  <2>3. Top' = f /\ control' = c
    BY <2>1, <2>2 DEF Top, Continue
  <2> HIDE DEF n
  <2>4. ASSUME NEW i \in 1 .. n
        PROVE  /\ stack'[i].fn = IF i = 1 THEN "alt" ELSE Callee(stack'[i - 1].fn, stack'[i - 1].pc)
               /\ PcOK(stack'[i])
    <3>1. /\ stack[i].fn = IF i = 1 THEN "alt" ELSE Callee(stack[i - 1].fn, stack[i - 1].pc)
          /\ PcOK(stack[i])
      BY DEF FlowInv, Chain, n
    <3>2. stack'[i].fn = stack[i].fn /\ PcOK(stack'[i])
      BY <1>1, <2>1, <2>2, <3>1 DEF FlowGoes, Top, n
    <3>3. i # 1 => stack'[i - 1] = stack[i - 1]
      BY <1>1, <2>2
    <3> QED BY <3>1, <3>2, <3>3
  <2>5. Chain'
    BY <2>2, <2>4 DEF Chain
  <2>6. Flow'
    BY <2>1, <2>2, <2>3 DEF FlowGoes, FlowCalls, FlowInv, Flow, Called, InternalErrors
  <2> QED BY <2>5, <2>6 DEF FlowInv
<1>3. CASE \E c : Return(c) /\ FlowEnds(c)
  <2>1. PICK c : Return(c) /\ FlowEnds(c)
    BY <1>3
  <2>2. /\ IsSeq(stack') /\ Len(stack') = n - 1
        /\ \A i \in 1 .. n - 1 : stack'[i] = stack[i]
    BY <1>1, <2>1, StackPop DEF Return
  <2>3. stack' = <<>> <=> n = 1
    BY <1>1, <2>2, StackLen
  <2>4. control' = c
    BY <2>1 DEF Return
  <2>5. Chain'
    <3> SUFFICES ASSUME NEW i \in 1 .. n - 1
                 PROVE  /\ stack'[i].fn = IF i = 1 THEN "alt"
                                          ELSE Callee(stack'[i - 1].fn, stack'[i - 1].pc)
                        /\ PcOK(stack'[i])
      BY <2>2 DEF Chain
    <3>1. /\ stack[i].fn = IF i = 1 THEN "alt" ELSE Callee(stack[i - 1].fn, stack[i - 1].pc)
          /\ PcOK(stack[i])
      BY <1>1 DEF FlowInv, Chain
    <3>2. stack'[i] = stack[i] /\ (i # 1 => stack'[i - 1] = stack[i - 1])
      BY <1>1, <2>2
    <3> QED BY <3>1, <3>2
  <2>6. Called' = Top.fn
    <3>1. n \in 1 .. n /\ Top = stack[n]
      BY <1>1 DEF Top
    <3>2. Top.fn = IF n = 1 THEN "alt" ELSE Callee(stack[n - 1].fn, stack[n - 1].pc)
      BY <3>1 DEF FlowInv, Chain
    <3>3. n # 1 => Top' = stack[n - 1]
      BY <1>1, <2>2 DEF Top
    <3> QED BY <2>3, <3>2, <3>3 DEF Called
  <2>7. Flow'
    BY <2>1, <2>4, <2>6 DEF FlowEnds, FlowInv, Flow
  <2> QED BY <2>5, <2>7 DEF FlowInv
<1> QED BY <1>2, <1>3 DEF FlowMoves

LEMMA FlowControls ==
  /\ \A fn : Call(fn).op = "call" /\ Call(fn).fn = fn /\ Call(fn).code = "SUCCESS"
  /\ CallLex.op = "lex" /\ CallLex.code = "SUCCESS"
  /\ Run.op = "run" /\ Run.code = "SUCCESS"
  /\ Lexed.op = "lexed" /\ Lexed.code = "SUCCESS"
  /\ \A node : Ok(node).op = "ok" /\ Ok(node).node = node /\ Ok(node).code = "SUCCESS"
  /\ \A code : Error(code).op = "error" /\ Error(code).code = code
  /\ \A code : Idle(code).op = "idle" /\ Idle(code).code = code
  /\ OutOfMemory.op = "error" /\ OutOfMemory.code \notin InternalErrors
  /\ "SUCCESS" \notin InternalErrors
BY DEF Call, CallLex, Lexed, Run, Ok, Error, Idle, OutOfMemory, Control, InternalErrors

LEMMA Counters ==
  /\ ProgramCounters["alt"] = {"start", "first", "bar", "next"}
  /\ ProgramCounters["concat"] = {"start", "first", "next", "grow"}
  /\ ProgramCounters["quantifier"] = {"start", "atom", "loop", "wrapped"}
  /\ ProgramCounters["body"] = {"start", "lex", "alt"}
  /\ ProgramCounters["atom"] =
       {"start", "body", "option_lex", "option_alt", "cond_lex", "cond_yes", "cond_bar",
        "cond_no", "exit"}
BY DEF ProgramCounters

(* One lemma per function.  A frame that only changes its program counter    *)
(* and what it holds is still a frame of the same function.                  *)
LEMMA PcMoves ==
  ASSUME FrameType(Top), NEW pc \in ProgramCounters[Top.fn], pc # "start",
         NEW c, FlowCalls(pc, c)
  PROVE  /\ Continue([Top EXCEPT !.pc = pc], c) => FlowMoves
         /\ \A kids : Continue([Top EXCEPT !.pc = pc, !.kids = kids], c) => FlowMoves
         /\ Continue([Top EXCEPT !.pc = pc, !.cap = 2 * @], c) => FlowMoves
         /\ \A kids, mem :
              /\ Continue([Top EXCEPT !.pc = pc, !.kids = kids, !.mem = mem], c) => FlowMoves
              /\ \A cap : Continue([Top EXCEPT !.pc = pc, !.kids = kids, !.mem = mem,
                                              !.cap = cap], c) => FlowMoves
         /\ \A open, num, mem :
              Continue([Top EXCEPT !.pc = pc, !.open = open, !.num = num, !.mem = mem], c)
                => FlowMoves
<1>1. ASSUME NEW f, Continue(f, c), f.fn = Top.fn, f.pc = pc
      PROVE  FlowMoves
  BY <1>1 DEF FlowMoves, FlowGoes, PcOK
<1>2. Continue([Top EXCEPT !.pc = pc], c) => FlowMoves
  <2>1. PICK f : f = [Top EXCEPT !.pc = pc]
    OBVIOUS
  <2>2. f.fn = Top.fn /\ f.pc = pc
    BY <2>1 DEF FrameType
  <2> QED BY <1>1, <2>1, <2>2
<1>3. ASSUME NEW kids
      PROVE  Continue([Top EXCEPT !.pc = pc, !.kids = kids], c) => FlowMoves
  <2>1. PICK f : f = [Top EXCEPT !.pc = pc, !.kids = kids]
    OBVIOUS
  <2>2. f.fn = Top.fn /\ f.pc = pc
    BY <2>1 DEF FrameType
  <2> QED BY <1>1, <2>1, <2>2
<1>4. Continue([Top EXCEPT !.pc = pc, !.cap = 2 * @], c) => FlowMoves
  <2>1. PICK f : f = [Top EXCEPT !.pc = pc, !.cap = 2 * @]
    OBVIOUS
  <2>2. f.fn = Top.fn /\ f.pc = pc
    BY <2>1 DEF FrameType
  <2> QED BY <1>1, <2>1, <2>2
<1>5. ASSUME NEW kids, NEW mem
      PROVE  Continue([Top EXCEPT !.pc = pc, !.kids = kids, !.mem = mem], c) => FlowMoves
  <2>1. PICK f : f = [Top EXCEPT !.pc = pc, !.kids = kids, !.mem = mem]
    OBVIOUS
  <2>2. f.fn = Top.fn /\ f.pc = pc
    BY <2>1 DEF FrameType
  <2> QED BY <1>1, <2>1, <2>2
<1>6. ASSUME NEW kids, NEW mem, NEW cap
      PROVE  Continue([Top EXCEPT !.pc = pc, !.kids = kids, !.mem = mem, !.cap = cap],
                      c) => FlowMoves
  <2>1. PICK f : f = [Top EXCEPT !.pc = pc, !.kids = kids, !.mem = mem, !.cap = cap]
    OBVIOUS
  <2>2. f.fn = Top.fn /\ f.pc = pc
    BY <2>1 DEF FrameType
  <2> QED BY <1>1, <2>1, <2>2
<1>7. ASSUME NEW open, NEW num, NEW mem
      PROVE  Continue([Top EXCEPT !.pc = pc, !.open = open, !.num = num, !.mem = mem],
                      c) => FlowMoves
  <2>1. PICK f : f = [Top EXCEPT !.pc = pc, !.open = open, !.num = num, !.mem = mem]
    OBVIOUS
  <2>2. f.fn = Top.fn /\ f.pc = pc
    BY <2>1 DEF FrameType
  <2> QED BY <1>1, <2>1, <2>2
<1> QED BY <1>2, <1>3, <1>4, <1>5, <1>6, <1>7

LEMMA AltFlow ==
  ASSUME IInv, FlowInv, Alt
  PROVE  FlowInv'
<1>1. stack # <<>> /\ Top.fn = "alt" /\ UNCHANGED <<tok, in_unicode_escape_brace>>
  BY DEF Alt, AltStart, AltFirst, AltGrow, AltNext, AltFails, At, LocalVars, parserVars
<1>2. FrameType(Top)
  BY <1>1, TopFacts DEF IInv
<1>3. \A pc : FlowCalls(pc, CallLex) /\ FlowCalls(pc, Call("concat"))
  BY <1>1, FlowControls DEF FlowCalls, Callee, NeedsItem
<1>4. control.op = "ok" => tok.kind \in Terminators
  BY <1>1 DEF Called, Callee, FlowInv, Flow, StopsAt
<1>5. control.code \notin InternalErrors
  BY DEF FlowInv, Flow
<1>6. FlowMoves
  <2>1. CASE AltStart
    BY <1>1, <1>2, <1>3, <2>1, PcMoves, Counters DEF AltStart
  <2>2. CASE AltFirst
    <3>1. \A node : tok.kind # "ALT" => FlowEnds(Ok(node))
      BY <1>1, <1>4, <2>2, FlowControls DEF AltFirst, At, FlowEnds, StopsAt, Terminators
    <3>2. FlowEnds(OutOfMemory)
      BY FlowControls DEF FlowEnds
    <3>3. \A kids, mem, cap :
            Continue([Top EXCEPT !.pc = "bar", !.kids = kids, !.mem = mem, !.cap = cap],
                     CallLex) => FlowMoves
      BY <1>1, <1>2, <1>3, PcMoves, Counters
    <3> QED BY <2>2, <3>1, <3>2, <3>3 DEF AltFirst, FlowMoves
  <2>3. CASE AltGrow
    BY <1>1, <1>2, <1>3, <2>3, PcMoves, FlowControls, Counters
    DEF AltGrow, FlowMoves, FlowEnds
  <2>4. CASE AltNext
    <3>1. \A node : tok.kind # "ALT" => FlowEnds(Ok(node))
      BY <1>1, <1>4, <2>4, FlowControls DEF AltNext, At, FlowEnds, StopsAt, Terminators
    <3>2. FlowEnds(OutOfMemory)
      BY FlowControls DEF FlowEnds
    <3> QED BY <1>1, <1>2, <1>3, <2>4, <3>1, <3>2, PcMoves, Counters DEF AltNext, FlowMoves
  <2>5. CASE AltFails
    BY <1>5, <2>5 DEF AltFails, FlowMoves, FlowEnds
  <2> QED BY <2>1, <2>2, <2>3, <2>4, <2>5 DEF Alt
<1>7. control'.op \notin {"lex", "error"} => control.op \in {"lexed", "run", "ok"}
  BY DEF Alt, AltStart, AltFirst, AltGrow, AltNext, AltFails, At, Return
<1> QED BY <1>1, <1>6, <1>7, FlowMovesKeep

LEMMA ConcatFlow ==
  ASSUME IInv, FlowInv, Concat
  PROVE  FlowInv'
<1>1. stack # <<>> /\ Top.fn = "concat" /\ UNCHANGED <<tok, in_unicode_escape_brace>>
  BY DEF Concat, ConcatEmpty, ConcatStart, ConcatFirst, ConcatAppend, ConcatGrow,
         ConcatEnd, ConcatFails, At, LocalVars, parserVars
<1>2. FrameType(Top)
  BY <1>1, TopFacts DEF IInv
<1>3. ASSUME tok.kind \notin Terminators
      PROVE  \A pc : FlowCalls(pc, Call("quantifier"))
  BY <1>1, <1>3, FlowControls DEF FlowCalls, Callee
<1>4. FlowEnds(OutOfMemory)
  BY FlowControls DEF FlowEnds
<1>5. ASSUME tok.kind \in Terminators
      PROVE  \A node : FlowEnds(Ok(node))
  BY <1>1, <1>5, FlowControls DEF FlowEnds, StopsAt
<1>6. FlowMoves
  <2>1. CASE ConcatEmpty
    BY <1>4, <1>5, <2>1 DEF ConcatEmpty, FlowMoves
  <2>2. CASE ConcatStart
    BY <1>1, <1>2, <1>3, <2>2, PcMoves, Counters DEF ConcatStart
  <2>3. CASE ConcatFirst
    <3>1. tok.kind \notin Terminators =>
            \A kids, mem, cap :
              Continue([Top EXCEPT !.pc = "next", !.kids = kids, !.mem = mem, !.cap = cap],
                       Call("quantifier")) => FlowMoves
      BY <1>1, <1>2, <1>3, PcMoves, Counters
    <3> QED BY <1>4, <1>5, <2>3, <3>1 DEF ConcatFirst, FlowMoves
  <2>4. CASE ConcatAppend
    <3>1. FlowCalls("grow", Run)
      BY FlowControls DEF FlowCalls
    <3>2. \A kids : Continue([Top EXCEPT !.pc = "grow", !.kids = kids], Run) => FlowMoves
      BY <1>1, <1>2, <3>1, PcMoves, Counters
    <3> QED BY <1>4, <2>4, <3>2 DEF ConcatAppend, FlowMoves
  <2>5. CASE ConcatGrow
    BY <1>1, <1>2, <1>3, <1>4, <2>5, PcMoves, Counters DEF ConcatGrow, FlowMoves
  <2>6. CASE ConcatEnd
    BY <1>4, <1>5, <2>6 DEF ConcatEnd, FlowMoves
  <2>7. CASE ConcatFails
    BY <2>7 DEF ConcatFails, FlowMoves, FlowEnds, FlowInv, Flow
  <2> QED BY <2>1, <2>2, <2>3, <2>4, <2>5, <2>6, <2>7 DEF Concat
<1>7. control'.op \notin {"lex", "error"} => control.op \in {"lexed", "run", "ok"}
  BY DEF Concat, ConcatEmpty, ConcatStart, ConcatFirst, ConcatAppend, ConcatGrow,
         ConcatEnd, ConcatFails, At, Return
<1> QED BY <1>1, <1>6, <1>7, FlowMovesKeep

LEMMA QuantifierFlow ==
  ASSUME IInv, FlowInv, Quantifier
  PROVE  FlowInv'
<1>1. stack # <<>> /\ Top.fn = "quantifier" /\ UNCHANGED <<tok, in_unicode_escape_brace>>
  BY DEF Quantifier, QuantifierStart, QuantifierAtom, QuantifierWrap, QuantifierNext,
         QuantifierEnd, QuantifierFails, At, LocalVars, parserVars
<1>2. FrameType(Top)
  BY <1>1, TopFacts DEF IInv
<1>3. \A pc : FlowCalls(pc, CallLex) /\ FlowCalls(pc, Run)
  BY FlowControls DEF FlowCalls
<1>4. FlowEnds(OutOfMemory) /\ \A node : FlowEnds(Ok(node))
  BY <1>1, FlowControls DEF FlowEnds, StopsAt
<1>5. FlowMoves
  <2>1. CASE QuantifierStart
    <3>1. FlowCalls("atom", Call("atom"))
      BY <1>1, <2>1, FlowControls
      DEF QuantifierStart, At, FlowInv, Flow, NeedsItem, FlowCalls, Callee
    <3> QED BY <1>1, <1>2, <2>1, <3>1, PcMoves, Counters DEF QuantifierStart
  <2>2. CASE QuantifierAtom
    BY <1>1, <1>2, <1>3, <2>2, PcMoves, Counters DEF QuantifierAtom
  <2>3. CASE QuantifierWrap
    <3>1. \A kids : Continue([Top EXCEPT !.pc = "wrapped", !.kids = kids], CallLex)
                      => FlowMoves
      BY <1>1, <1>2, <1>3, PcMoves, Counters
    <3> QED BY <1>4, <2>3, <3>1 DEF QuantifierWrap, FlowMoves
  <2>4. CASE QuantifierNext
    BY <1>1, <1>2, <1>3, <2>4, PcMoves, Counters DEF QuantifierNext
  <2>5. CASE QuantifierEnd
    BY <1>4, <2>5 DEF QuantifierEnd, FlowMoves
  <2>6. CASE QuantifierFails
    BY <2>6 DEF QuantifierFails, FlowMoves, FlowEnds, FlowInv, Flow
  <2> QED BY <2>1, <2>2, <2>3, <2>4, <2>5, <2>6 DEF Quantifier
<1>6. control'.op \notin {"lex", "error"} => control.op \in {"lexed", "run", "ok"}
  BY DEF Quantifier, QuantifierStart, QuantifierAtom, QuantifierWrap, QuantifierNext,
         QuantifierEnd, QuantifierFails, At, Return
<1> QED BY <1>1, <1>5, <1>6, FlowMovesKeep

LEMMA BodyFlow ==
  ASSUME IInv, FlowInv, Body
  PROVE  FlowInv'
<1>1. stack # <<>> /\ Top.fn = "body" /\ UNCHANGED <<tok, in_unicode_escape_brace>>
  BY DEF Body, BodyStart, BodyLexed, BodyEnd, BodyFails, At, LocalVars, parserVars
<1>2. FrameType(Top)
  BY <1>1, TopFacts DEF IInv
<1>3. \A pc : FlowCalls(pc, CallLex) /\ FlowCalls(pc, Call("alt"))
  BY <1>1, FlowControls DEF FlowCalls, Callee, NeedsItem
<1>4. control.code \notin InternalErrors
  BY DEF FlowInv, Flow
<1>5. FlowMoves
  <2>1. CASE BodyStart
    BY <1>1, <1>2, <1>3, <2>1, PcMoves, Counters DEF BodyStart
  <2>2. CASE BodyLexed
    BY <1>1, <1>2, <1>3, <2>2, PcMoves, Counters DEF BodyLexed
  <2>3. CASE BodyEnd
    BY <1>1, <1>4, <2>3, FlowControls
    DEF BodyEnd, At, FlowMoves, FlowEnds, StopsAt, InternalErrors
  <2>4. CASE BodyFails
    BY <1>4, <2>4 DEF BodyFails, FlowMoves, FlowEnds
  <2> QED BY <2>1, <2>2, <2>3, <2>4 DEF Body
<1>6. control'.op \notin {"lex", "error"} => control.op \in {"lexed", "run", "ok"}
  BY DEF Body, BodyStart, BodyLexed, BodyEnd, BodyFails, At, Return
<1> QED BY <1>1, <1>5, <1>6, FlowMovesKeep

LEMMA AtomFlow ==
  ASSUME IInv, FlowInv, Atom
  PROVE  FlowInv'
<1>1. stack # <<>> /\ Top.fn = "atom"
  BY DEF Atom, AtomLeaf, AtomCode, AtomReference, AtomCharClass, AtomRejects, AtomExit,
     GroupOpen, GroupEnd, OptionOpen, OptionLexed, OptionEnd, ConditionalOpen,
     ConditionalLexed, ConditionalBar, ConditionalEnd, AtomFails, At
<1>2. FrameType(Top)
  BY <1>1, TopFacts DEF IInv
<1>3. FlowEnds(OutOfMemory) /\ \A node : FlowEnds(Ok(node))
  BY <1>1, FlowControls DEF FlowEnds, StopsAt
<1>4. \A code : code \notin InternalErrors => FlowEnds(Error(code))
  BY FlowControls DEF FlowEnds
<1>5. \A pc : FlowCalls(pc, CallLex)
  BY FlowControls DEF FlowCalls
<1>6. \A node : KeepAtom(node) => FlowMoves
  BY <1>1, <1>2, <1>5, PcMoves, Counters DEF KeepAtom
<1>7. ASSUME NEW pc \in ProgramCounters["atom"] \ {"start"}, NEW c, FlowCalls(pc, c)
      PROVE  /\ Continue([Top EXCEPT !.pc = pc], c) => FlowMoves
             /\ \A kids : Continue([Top EXCEPT !.pc = pc, !.kids = kids], c) => FlowMoves
             /\ \A num : Continue(OpenFrame(pc, num), c) => FlowMoves
  BY <1>1, <1>2, <1>7, PcMoves DEF OpenFrame
<1>8. FlowMoves
  <2>1. CASE AtomLeaf \/ AtomCode \/ AtomReference \/ AtomCharClass
    BY <1>3, <1>4, <1>6, <2>1
    DEF AtomLeaf, AtomCode, AtomReference, AtomCharClass, FlowMoves, InternalErrors
  <2>2. CASE AtomRejects
    <3>1. tok.kind = "QUANTIFIER"
      BY <1>1, <2>2 DEF AtomRejects, At, FlowInv, Flow, NeedsItem
    <3>2. Return(Error("NOTHING_TO_REPEAT"))
      BY <2>2, <3>1 DEF AtomRejects
    <3> QED BY <1>4, <3>2 DEF FlowMoves, InternalErrors
  <2>3. CASE AtomExit
    BY <1>3, <2>3 DEF AtomExit, FlowMoves
  <2>4. CASE GroupOpen
    <3>1. FlowCalls("body", Call("body"))
      BY <1>1, FlowControls DEF FlowCalls, Callee, NeedsItem
    <3> QED BY <1>4, <1>7, <2>4, <3>1, Counters DEF GroupOpen, FlowMoves, InternalErrors
  <2>5. CASE GroupEnd
    BY <1>3, <1>6, <2>5 DEF GroupEnd, FlowMoves
  <2>6. CASE OptionOpen
    BY <1>5, <1>7, <2>6, Counters DEF OptionOpen
  <2>7. CASE OptionLexed
    <3>1. FlowCalls("option_alt", Call("alt"))
      BY <1>1, FlowControls DEF FlowCalls, Callee, NeedsItem
    <3> QED BY <1>7, <2>7, <3>1, Counters DEF OptionLexed
  <2>8. CASE OptionEnd
    BY <1>3, <2>8 DEF OptionEnd, FlowMoves
  <2>9. CASE ConditionalOpen
    BY <1>5, <1>7, <2>9, Counters DEF ConditionalOpen
  <2>10. CASE ConditionalLexed
    <3>1. \A pc \in {"cond_yes", "cond_no"} : FlowCalls(pc, Call("concat"))
      BY <1>1, FlowControls DEF FlowCalls, Callee, NeedsItem
    <3> QED BY <1>7, <2>10, <3>1, Counters DEF ConditionalLexed
  <2>11. CASE ConditionalBar
    BY <1>5, <1>7, <2>11, Counters DEF ConditionalBar
  <2>12. CASE ConditionalEnd
    BY <1>3, <1>4, <1>6, <2>12 DEF ConditionalEnd, FlowMoves, InternalErrors
  <2>13. CASE AtomFails
    BY <2>13 DEF AtomFails, FlowMoves, FlowEnds, FlowInv, Flow
  <2> QED BY <2>1, <2>2, <2>3, <2>4, <2>5, <2>6, <2>7, <2>8, <2>9, <2>10, <2>11, <2>12,
             <2>13 DEF Atom
<1>9. tok'.kind = tok.kind
  <2>1. [tok EXCEPT !.name = {}].kind = tok.kind
    BY DEF IInv, Scalars, TokenType
  <2> QED BY <2>1 DEF Atom, AtomLeaf, AtomCode, AtomReference, AtomCharClass, AtomRejects,
          AtomExit, GroupOpen, GroupEnd, OptionOpen, OptionLexed, OptionEnd,
          ConditionalOpen, ConditionalLexed, ConditionalBar, ConditionalEnd, AtomFails,
          LocalVars
<1>10. ASSUME control'.op \notin {"lex", "error"}
       PROVE  UNCHANGED in_unicode_escape_brace /\ control.op \in {"lexed", "run", "ok"}
  <2>1. ~AtomFails /\ ~AtomRejects
    BY <1>10, FlowControls DEF AtomFails, AtomRejects, Return
  <2>2. ASSUME AtomCharClass
        PROVE  FALSE
    BY <1>10, <2>2, FlowControls DEF AtomCharClass, KeepAtom, Continue, Return
  <2> QED BY <2>1, <2>2 DEF Atom, AtomLeaf, AtomCode, AtomReference, AtomExit, GroupOpen,
          GroupEnd, OptionOpen, OptionLexed, OptionEnd, ConditionalOpen, ConditionalLexed,
          ConditionalBar, ConditionalEnd, At, AtomVars, LocalVars, parserVars
<1> QED BY <1>1, <1>8, <1>9, <1>10, FlowMovesKeep

LEMMA EnterFlow ==
  ASSUME IInv, FlowInv, Enter
  PROVE  FlowInv'
<1>1. CASE EnterFunction
  <2> DEFINE n == Len(stack)
  <2>1. n \in Nat /\ IsSeq(stack) /\ (n = 0 <=> stack = <<>>)
    BY StackLen, EmptySeq DEF IInv, StackInv, FramesOK
  <2>2. PICK f : f = Frame(control.fn)
    OBVIOUS
  <2>3. f.fn = control.fn /\ f.pc = "start"
    BY <2>2 DEF Frame
  <2>4. /\ stack' # <<>> /\ Len(stack') = n + 1 /\ stack'[n + 1] = f
        /\ \A i \in 1 .. n : stack'[i] = stack[i]
    BY <1>1, <2>1, <2>2, StackPush DEF EnterFunction
  <2>5. control.fn = Called /\ control.fn \in FunctionNames
    BY <1>1 DEF EnterFunction, FlowInv, Flow, IInv, Scalars
  <2>6. PcOK(f)
    BY <2>3, <2>5, Counters DEF PcOK, FunctionNames
  <2>7. f.fn = IF n = 0 THEN "alt" ELSE Callee(stack[n].fn, stack[n].pc)
    BY <2>1, <2>3, <2>5 DEF Called, Top
  <2> HIDE DEF n
  <2>8. Chain'
    <3> SUFFICES ASSUME NEW i \in 1 .. n + 1
                 PROVE  /\ stack'[i].fn = IF i = 1 THEN "alt"
                                          ELSE Callee(stack'[i - 1].fn, stack'[i - 1].pc)
                        /\ PcOK(stack'[i])
      BY <2>4 DEF Chain
    <3>1. CASE i = n + 1
      <4>1. n # 0 => stack'[n] = stack[n]
        BY <2>1, <2>4
      <4>2. i = 1 <=> n = 0
        BY <2>1, <3>1
      <4>3. i - 1 = n /\ stack'[i] = f
        BY <2>1, <2>4, <3>1
      <4> QED BY <2>6, <2>7, <4>1, <4>2, <4>3
    <3>2. CASE i # n + 1
      <4>1. i \in 1 .. n /\ stack'[i] = stack[i] /\ (i # 1 => stack'[i - 1] = stack[i - 1])
        BY <2>1, <2>4, <3>2
      <4>2. /\ stack[i].fn = IF i = 1 THEN "alt"
                             ELSE Callee(stack[i - 1].fn, stack[i - 1].pc)
            /\ PcOK(stack[i])
        BY <4>1 DEF FlowInv, Chain, n
      <4> QED BY <4>1, <4>2
    <3> QED BY <3>1, <3>2
  <2>9. Top' = f /\ control' = Run /\ UNCHANGED <<tok, in_unicode_escape_brace>>
    BY <1>1, <2>4 DEF EnterFunction, Top, parserVars
  <2>10. Flow'
    BY <1>1, <2>3, <2>4, <2>9, FlowControls DEF EnterFunction, FlowInv, Flow, NeedsItem
  <2> QED BY <2>8, <2>10 DEF FlowInv
<1>2. CASE RejectDepth
  BY <1>2, FlowControls DEF RejectDepth, parserVars, FlowInv, Flow, Chain, InternalErrors
<1> QED BY <1>1, <1>2 DEF Enter

LEMMA LexFlow ==
  ASSUME IInv, FlowInv, Lex
  PROVE  FlowInv'
<1>1. UNCHANGED stack
  BY DEF Lex, LexToken, LexEnd, LexInBrace, LexError, ReturnToken, LexVars
<1>2. Chain'
  BY <1>1 DEF FlowInv, Chain
<1>3. ASSUME NEW kind, NEW name, NEW opts, ReturnToken(kind, name, opts),
             in_unicode_escape_brace' => kind = "CODE"
      PROVE  Flow'
  <2>1. control' = Lexed /\ tok'.kind = kind
    BY <1>3 DEF ReturnToken, Token
  <2> QED BY <1>3, <2>1, FlowControls DEF Flow
<1>4. CASE LexToken
  <2>1. PICK kind, opts, name :
          /\ in_unicode_escape_brace' \in (IF kind = "CODE" THEN BOOLEAN ELSE {FALSE})
          /\ ReturnToken(kind, name, opts)
    BY <1>4 DEF LexToken
  <2>2. in_unicode_escape_brace' => kind = "CODE"
    BY <2>1
  <2> QED BY <1>2, <1>3, <2>1, <2>2 DEF FlowInv
<1>5. CASE LexEnd \/ LexInBrace
  BY <1>2, <1>3, <1>5 DEF LexEnd, LexInBrace, FlowInv
<1>6. CASE LexError
  BY <1>2, <1>6, FlowControls DEF LexError, FlowInv, Flow, InternalErrors
<1> QED BY <1>4, <1>5, <1>6 DEF Lex

LEMMA ParseFlow ==
  ASSUME IInv, FlowInv, Parse
  PROVE  FlowInv'
<1>1. UNCHANGED stack
  BY DEF Parse, StartParse, ParseFirstToken, ParseSucceeds, ParseRejectsRest, ParseFails,
     ReleaseResult, Finish
<1>2. Chain'
  BY <1>1 DEF FlowInv, Chain
<1>3. CASE StartParse
  BY <1>2, <1>3, FlowControls DEF StartParse, FlowInv, Flow
<1>4. CASE ParseFirstToken
  <2>1. Called' = "alt"
    BY <1>1, <1>4 DEF ParseFirstToken, Called
  <2> QED BY <1>2, <1>4, <2>1, FlowControls
          DEF ParseFirstToken, parserVars, FlowInv, Flow, NeedsItem
<1>5. CASE ParseSucceeds \/ ParseRejectsRest
  <2>1. tok.kind \in {"GROUP_CLOSE", "END"} /\ ~in_unicode_escape_brace
    BY <1>5 DEF ParseSucceeds, ParseRejectsRest, FlowInv, Flow, Called, StopsAt
  <2>2. \E code : code \notin InternalErrors /\ control' = Idle(code)
    BY <1>5, <2>1 DEF ParseSucceeds, ParseRejectsRest, Finish, InternalErrors
  <2> QED BY <1>2, <2>2, FlowControls DEF FlowInv, Flow
<1>6. CASE ParseFails
  BY <1>2, <1>6, FlowControls DEF ParseFails, Finish, FlowInv, Flow
<1>7. CASE ReleaseResult
  BY <1>2, <1>7 DEF ReleaseResult, FlowInv, Flow
<1> QED BY <1>3, <1>4, <1>5, <1>6, <1>7 DEF Parse

LEMMA FlowStep ==
  IInv /\ FlowInv /\ [Next]_vars => FlowInv'
<1> SUFFICES ASSUME IInv, FlowInv, [Next]_vars
             PROVE  FlowInv'
  OBVIOUS
<1>1. CASE Next
  BY <1>1, ParseFlow, LexFlow, EnterFlow, AltFlow, ConcatFlow, QuantifierFlow, BodyFlow,
     AtomFlow DEF Next
<1>2. CASE UNCHANGED vars
  BY <1>2 DEF vars, parserVars, FlowInv, Chain, Flow, Called, Top
<1> QED BY <1>1, <1>2

LEMMA FlowHolds ==
  Spec => []FlowInv
<1>1. Init => FlowInv
  BY EmptySeq, FlowControls DEF Init, FlowInv, Chain, Flow
<1> QED BY <1>1, FlowStep, Invariance, PTL DEF Spec

(* For every vocabulary and every limit, parse_quantifier and parse_atom are *)
(* only called at a token that begins an item, a finished alternation stops  *)
(* at ) or the end and outside \u{...}, and the errors that the parser       *)
(* reports for a state it should not be in are reported by no pattern.       *)
THEOREM NoInternalErrors ==
  Spec => []NoInternalError
<1>1. FlowInv => NoInternalError
  <2> SUFFICES ASSUME FlowInv
               PROVE  NoInternalError
    OBVIOUS
  <2>1. control.op = "ok" /\ stack = <<>> => ~in_unicode_escape_brace
    BY DEF FlowInv, Flow, Called, StopsAt
  <2> QED BY <2>1 DEF FlowInv, Flow, NeedsItem, InternalErrors, NoInternalError
<1> QED BY <1>1, FlowHolds, PTL

-----------------------------------------------------------------------------
(* Ownership.  HeapHasOneOwner says who owns what, not what each frame has   *)
(* at each point of its function: that a function owns nothing when it is    *)
(* called, one node when it is about to return it, an array as long as it    *)
(* collects children, and that a token has a name only until its node takes  *)
(* it over.  The children of a frame own different addresses, or appending   *)
(* to one of them could free a part of another.                              *)

NodeOK(n) ==
  /\ n \in [type : {n.type}, lo : {n.lo}, hi : {n.hi}, kids : {n.kids}, num : {n.num},
            opts : {n.opts}, text : {n.text}, buf : SUBSET Addresses,
            owns : SUBSET Addresses]
  /\ n.buf \subseteq n.owns

KidsOK(kids) ==
  /\ IsSeq(kids)
  /\ \A i \in 1 .. Len(kids) : NodeOK(kids[i])
  /\ \A i, j \in 1 .. Len(kids) : i # j => kids[i].owns \cap kids[j].owns = {}

Empty == {"start", "first", "lex", "alt", "atom", "body", "option_lex", "option_alt",
          "cond_lex", "cond_yes"}
Bare == {"start", "first", "lex", "alt", "atom", "loop", "wrapped", "option_lex",
         "option_alt", "exit"}
Single == {"loop", "wrapped", "exit"}
Several == {"bar", "next", "grow"}

Shape(pc, kids, mem) ==
  /\ KidsOK(kids) /\ KidsOwn(kids) \cap mem = {}
  /\ pc \in Empty => kids = <<>>
  /\ pc \in Bare => mem = {}
  /\ pc \in Single => Len(kids) = 1
  /\ pc \in Several => kids # <<>>

FrameHeap(f) == Shape(f.pc, f.kids, f.mem)

Own(f) == KidsOwn(f.kids) \cup f.mem
Held(n) == UNION {Own(stack[i]) : i \in 1 .. n}
NodeOwn == IF control.op = "ok" THEN control.node.owns ELSE {}
ResultOwn == IF result = NoNode THEN {} ELSE result.owns

Parts ==
  /\ heap = Held(Len(stack)) \cup NodeOwn \cup ResultOwn \cup tok.name \cup leaked
  /\ \A i, j \in 1 .. Len(stack) : i # j => Own(stack[i]) \cap Own(stack[j]) = {}
  /\ Held(Len(stack)) \cap NodeOwn = {}
  /\ (Held(Len(stack)) \cup NodeOwn) \cap ResultOwn = {}
  /\ (Held(Len(stack)) \cup NodeOwn \cup ResultOwn) \cap tok.name = {}
  /\ (Held(Len(stack)) \cup NodeOwn \cup ResultOwn \cup tok.name) \cap leaked = {}

Names ==
  /\ tok.name # {} => tok.kind \in NamedKinds
  /\ control.op \in {"lex", "idle"} => tok.name = {}
  /\ control.op = "call" /\ control.fn = "body" => tok.name = {}
  /\ control.op = "run" /\ Top.fn = "body" /\ Top.pc = "start" => tok.name = {}

Nodes ==
  /\ control.op = "ok" => NodeOK(control.node)
  /\ result # NoNode => control.op = "idle" /\ NodeOK(result)

HeapInv ==
  /\ \A i \in 1 .. Len(stack) : FrameHeap(stack[i])
  /\ Names /\ Nodes /\ Parts

-----------------------------------------------------------------------------
(* What sequences of nodes own.                                             *)

LEMMA KidsAre ==
  ASSUME NEW kids, KidsOK(kids)
  PROVE  /\ Len(kids) \in Nat /\ KidsOwn(kids) \subseteq Addresses
         /\ KidsOwn(kids) = UNION {kids[i].owns : i \in 1 .. Len(kids)}
         /\ \A i \in 1 .. Len(kids) : NodeOK(kids[i]) /\ kids[i].owns \subseteq KidsOwn(kids)
         /\ kids # <<>> => Len(kids) \in 1 .. Len(kids)
         /\ Len(kids) = 1 => KidsOwn(kids) = kids[1].owns
<1>1. Len(kids) \in Nat /\ DOMAIN kids = 1 .. Len(kids) /\ (kids # <<>> => Len(kids) >= 1)
  BY StackLen DEF KidsOK
<1>2. \A i \in 1 .. Len(kids) : NodeOK(kids[i])
  BY DEF KidsOK
<1>3. KidsOwn(kids) = UNION {kids[i].owns : i \in 1 .. Len(kids)}
  BY <1>1 DEF KidsOwn
<1>4. \A i \in 1 .. Len(kids) : kids[i].owns \subseteq Addresses
  BY <1>2 DEF NodeOK
<1>5. KidsOwn(kids) \subseteq Addresses
  BY <1>3, <1>4
<1>6. ASSUME Len(kids) = 1
      PROVE  KidsOwn(kids) = kids[1].owns
  <2>1. 1 .. Len(kids) = {1}
    BY <1>6
  <2> QED BY <1>3, <2>1
<1> QED BY <1>1, <1>2, <1>3, <1>5, <1>6

LEMMA NoKids ==
  KidsOK(<<>>) /\ KidsOwn(<<>>) = {}
<1>1. Len(<<>>) = 0 /\ DOMAIN <<>> = {} /\ 1 .. 0 = {}
  OBVIOUS
<1>2. IsSeq(<<>>)
  BY EmptySeq DEF IsSeq
<1> QED BY <1>1, <1>2 DEF KidsOK, KidsOwn

LEMMA OneKid ==
  ASSUME NEW n, NodeOK(n)
  PROVE  /\ KidsOK(<<n>>) /\ KidsOwn(<<n>>) = n.owns
         /\ Len(<<n>>) = 1 /\ <<n>> # <<>>
<1>1. <<n>> \in Seq({n}) /\ Len(<<n>>) = 1 /\ <<n>>[1] = n /\ <<n>> # <<>>
  OBVIOUS
<1>2. IsSeq(<<n>>)
  BY <1>1, SeqIsSeq
<1>3. 1 .. Len(<<n>>) = {1}
  BY <1>1
<1>4. KidsOK(<<n>>)
  BY <1>1, <1>2, <1>3 DEF KidsOK
<1> QED BY <1>1, <1>4, KidsAre

LEMMA AddKid ==
  ASSUME NEW kids, KidsOK(kids), NEW n, NodeOK(n), KidsOwn(kids) \cap n.owns = {}
  PROVE  /\ KidsOK(Append(kids, n)) /\ KidsOwn(Append(kids, n)) = KidsOwn(kids) \cup n.owns
         /\ Append(kids, n) # <<>>
<1> DEFINE m == Len(kids)
           more == Append(kids, n)
<1>1. m \in Nat /\ \A i \in 1 .. m : NodeOK(kids[i]) /\ kids[i].owns \subseteq KidsOwn(kids)
  BY KidsAre
<1>2. /\ IsSeq(more) /\ more # <<>> /\ Len(more) = m + 1 /\ more[m + 1] = n
      /\ \A i \in 1 .. m : more[i] = kids[i]
  BY StackPush DEF KidsOK
<1>3. \A i, j \in 1 .. m : i # j => kids[i].owns \cap kids[j].owns = {}
  BY DEF KidsOK
<1>4. KidsOwn(kids) = UNION {kids[i].owns : i \in 1 .. m}
  BY KidsAre
<1> HIDE DEF m, more
<1>5. \A i \in 1 .. m + 1 : i = m + 1 \/ i \in 1 .. m
  BY <1>1
<1>6. KidsOK(more)
  <2>1. \A i \in 1 .. m + 1 : NodeOK(more[i])
    BY <1>1, <1>2, <1>5
  <2>2. ASSUME NEW i \in 1 .. m + 1, NEW j \in 1 .. m + 1, i # j
        PROVE  more[i].owns \cap more[j].owns = {}
    <3>1. CASE i \in 1 .. m /\ j \in 1 .. m
      BY <1>2, <1>3, <2>2, <3>1
    <3>2. CASE i = m + 1 /\ j \in 1 .. m
      BY <1>1, <1>2, <3>2
    <3>3. CASE j = m + 1 /\ i \in 1 .. m
      BY <1>1, <1>2, <3>3
    <3> QED BY <1>5, <2>2, <3>1, <3>2, <3>3
  <2> QED BY <1>2, <2>1, <2>2 DEF KidsOK
<1>7. KidsOwn(more) = UNION {more[i].owns : i \in 1 .. m + 1}
  BY <1>2, <1>6, KidsAre
<1>8. KidsOwn(more) = KidsOwn(kids) \cup n.owns
  <2>1. \A i \in 1 .. m : i \in 1 .. m + 1 /\ more[i].owns = kids[i].owns
    BY <1>1, <1>2
  <2>2. m + 1 \in 1 .. m + 1
    BY <1>1
  <2>3. KidsOwn(more) \subseteq KidsOwn(kids) \cup n.owns
    BY <1>2, <1>4, <1>5, <1>7
  <2>4. KidsOwn(kids) \cup n.owns \subseteq KidsOwn(more)
    BY <1>2, <1>4, <1>7, <2>1, <2>2
  <2> QED BY <2>3, <2>4
<1> QED BY <1>2, <1>6, <1>8 DEF more

(* pbuf_append: the last child exchanges its buffer for another.            *)
LEMMA MergeKid ==
  ASSUME NEW kids, KidsOK(kids), kids # <<>>, NEW n, NodeOK(n), NEW buf,
         n.owns = (kids[Len(kids)].owns \ kids[Len(kids)].buf) \cup buf,
         buf \cap (KidsOwn(kids) \ kids[Len(kids)].buf) = {}
  PROVE  /\ KidsOK([kids EXCEPT ![Len(kids)] = n])
         /\ KidsOwn([kids EXCEPT ![Len(kids)] = n]) =
              (KidsOwn(kids) \ kids[Len(kids)].buf) \cup buf
         /\ [kids EXCEPT ![Len(kids)] = n] # <<>>
<1> DEFINE m == Len(kids)
           last == kids[m]
           new == [kids EXCEPT ![m] = n]
<1>1. /\ m \in Nat /\ m \in 1 .. m
      /\ \A i \in 1 .. m : NodeOK(kids[i]) /\ kids[i].owns \subseteq KidsOwn(kids)
  BY KidsAre
<1>2. /\ IsSeq(new) /\ new # <<>> /\ Len(new) = m /\ new[m] = n
      /\ \A i \in 1 .. m - 1 : new[i] = kids[i]
  BY StackReplace DEF KidsOK
<1>3. \A i, j \in 1 .. m : i # j => kids[i].owns \cap kids[j].owns = {}
  BY DEF KidsOK
<1>4. KidsOwn(kids) = UNION {kids[i].owns : i \in 1 .. m}
  BY KidsAre
<1>5. last.buf \subseteq last.owns /\ last.owns \subseteq KidsOwn(kids)
  BY <1>1 DEF NodeOK
<1>6. n.owns = (last.owns \ last.buf) \cup buf /\ buf \cap (KidsOwn(kids) \ last.buf) = {}
  OBVIOUS
<1>7. \A i \in 1 .. m : i = m \/ (i # m /\ i \in 1 .. m - 1)
  BY <1>1
<1>8. \A i \in 1 .. m - 1 : i \in 1 .. m /\ i # m
  BY <1>1
<1> HIDE DEF new
<1>9. \A i \in 1 .. m - 1 : kids[i].owns \cap last.owns = {} /\ kids[i].owns \cap n.owns = {}
  <2> SUFFICES ASSUME NEW i \in 1 .. m - 1
               PROVE  kids[i].owns \cap last.owns = {} /\ kids[i].owns \cap n.owns = {}
    OBVIOUS
  <2>1. kids[i].owns \cap last.owns = {} /\ kids[i].owns \subseteq KidsOwn(kids)
    BY <1>1, <1>3, <1>8
  <2> QED BY <2>1, <1>5, <1>6
<1> HIDE DEF last, m
<1>10. KidsOK(new)
  <2>1. \A i \in 1 .. m : NodeOK(new[i])
    BY <1>1, <1>2, <1>7
  <2>2. ASSUME NEW i \in 1 .. m, NEW j \in 1 .. m, i # j
        PROVE  new[i].owns \cap new[j].owns = {}
    <3>1. CASE i # m /\ j # m
      BY <1>2, <1>3, <1>7, <2>2, <3>1
    <3>2. CASE i = m /\ j # m
      BY <1>2, <1>7, <1>9, <3>2
    <3>3. CASE i # m /\ j = m
      BY <1>2, <1>7, <1>9, <3>3
    <3> QED BY <2>2, <3>1, <3>2, <3>3
  <2> QED BY <1>2, <2>1, <2>2 DEF KidsOK
<1>11. KidsOwn(new) = UNION {new[i].owns : i \in 1 .. m}
  BY <1>2, <1>10, KidsAre
<1> DEFINE others == UNION {kids[i].owns : i \in 1 .. m - 1}
<1>12. KidsOwn(kids) = others \cup last.owns /\ others \cap last.owns = {}
  <2>1. KidsOwn(kids) \subseteq others \cup last.owns
    BY <1>4, <1>7 DEF last
  <2>2. others \cup last.owns \subseteq KidsOwn(kids)
    BY <1>1, <1>4, <1>8 DEF last
  <2>3. others \cap last.owns = {}
    BY <1>9
  <2> QED BY <2>1, <2>2, <2>3
<1>13. KidsOwn(new) = others \cup n.owns
  <2>1. KidsOwn(new) \subseteq others \cup n.owns
    BY <1>2, <1>7, <1>11
  <2>2. others \cup n.owns \subseteq KidsOwn(new)
    BY <1>1, <1>2, <1>8, <1>11
  <2> QED BY <2>1, <2>2
<1> HIDE DEF others
<1>14. KidsOwn(new) = (KidsOwn(kids) \ last.buf) \cup buf
  BY <1>5, <1>6, <1>12, <1>13
<1> QED BY <1>2, <1>10, <1>14 DEF new, last, m

LEMMA NodeMade ==
  ASSUME NEW type, NEW lo, NEW hi, NEW kids, KidsOwn(kids) \subseteq Addresses,
         NEW base, base \subseteq Addresses, NEW buf, buf \subseteq Addresses, NEW num,
         NEW opts, NEW text
  PROVE  /\ NodeOK(Node(type, lo, hi, kids, base, buf, num, opts, text))
         /\ Node(type, lo, hi, kids, base, buf, num, opts, text).owns =
              base \cup buf \cup KidsOwn(kids)
<1> DEFINE own == base \cup buf \cup KidsOwn(kids)
<1>1. own \in SUBSET Addresses /\ buf \in SUBSET Addresses /\ buf \subseteq own
  OBVIOUS
<1> HIDE DEF own
<1>2. NodeOK([type |-> type, lo |-> lo, hi |-> hi, kids |-> kids, buf |-> buf, num |-> num,
              opts |-> opts, text |-> text, owns |-> own])
  BY <1>1 DEF NodeOK
<1>3. Node(type, lo, hi, kids, base, buf, num, opts, text) =
        [type |-> type, lo |-> lo, hi |-> hi, kids |-> kids, buf |-> buf, num |-> num,
         opts |-> opts, text |-> text, owns |-> own]
  BY DEF Node, own
<1> QED BY <1>2, <1>3 DEF own

(* Alternations, concatenations and quantifiers own only what they collect.  *)
LEMMA ArrayNode ==
  ASSUME NEW type, NEW lo, NEW hi, NEW kids, KidsOwn(kids) \subseteq Addresses,
         NEW base, base \subseteq Addresses, NEW opts,
         NEW n, n = Node(type, lo, hi, kids, base, {}, 0, opts, <<>>)
  PROVE  NodeOK(n) /\ n.owns = base \cup KidsOwn(kids)
<1>1. PICK buf, num, text : buf = {} /\ num = 0 /\ text = <<>>
  OBVIOUS
<1>2. n = Node(type, lo, hi, kids, base, buf, num, opts, text) /\ buf \subseteq Addresses
  BY <1>1
<1>3. NodeOK(n) /\ n.owns = base \cup buf \cup KidsOwn(kids)
  BY <1>2, NodeMade
<1> QED BY <1>1, <1>3

LEMMA NodeMerged ==
  ASSUME NEW left, NodeOK(left), NEW right, NEW buf \in SUBSET Addresses
  PROVE  /\ NodeOK(Merged(left, right, buf))
         /\ Merged(left, right, buf).owns = (left.owns \ left.buf) \cup buf
<1> DEFINE own == (left.owns \ left.buf) \cup buf
           text == left.text \o right.text
<1>1. own \in SUBSET Addresses /\ buf \subseteq own
  BY DEF NodeOK
<1>2. Merged(left, right, buf) =
        [left EXCEPT !.hi = right.hi, !.text = text, !.buf = buf, !.owns = own]
  BY DEF Merged, NodeOK
<1> HIDE DEF own, text
<1>3. PICK n : n = [left EXCEPT !.hi = right.hi, !.text = text, !.buf = buf, !.owns = own]
  OBVIOUS
<1>4. NodeOK(n) /\ n.owns = own
  BY <1>1, <1>3 DEF NodeOK
<1> QED BY <1>2, <1>3, <1>4 DEF own

-----------------------------------------------------------------------------
(* A step of the running function.                                          *)

LEMMA TopHeap ==
  ASSUME IInv, HeapInv, stack # <<>>
  PROVE  /\ FrameType(Top) /\ FrameHeap(Top)
         /\ result = NoNode
         /\ Own(Top) \subseteq heap /\ NodeOwn \subseteq heap /\ tok.name \subseteq heap
         /\ Own(Top) \cap NodeOwn = {}
         /\ (Own(Top) \cup NodeOwn) \cap tok.name = {}
         /\ heap \subseteq Addresses
<1>1. Len(stack) \in 1 .. Len(stack)
  BY TopFacts DEF IInv
<1>2. FrameType(Top) /\ FrameHeap(Top)
  BY <1>1, TopFacts DEF IInv, HeapInv, Top
<1>3. result = NoNode
  BY DEF HeapInv, Nodes, IInv, StackInv, DepthMatchesStack
<1>4. Own(Top) \subseteq Held(Len(stack))
  BY <1>1 DEF Held, Top
<1> QED BY <1>2, <1>3, <1>4 DEF HeapInv, Parts, IInv, Scalars

(* What the running function frees was in its hands, what it allocates goes  *)
(* to them, and after is what it has in the end.                             *)
Trade(before, after, freed, new) ==
  /\ freed \subseteq before /\ new \cap heap = {}
  /\ after = (before \ freed) \cup new
  /\ heap' = (heap \ freed) \cup new

(* taken is the name that the step takes from the token.                    *)
Takes(taken) ==
  /\ taken \subseteq tok.name /\ tok'.name = tok.name \ taken /\ tok'.kind = tok.kind
  /\ control'.op = "lex" \/ (control'.op = "call" /\ control'.fn = "body") => tok'.name = {}
  /\ UNCHANGED <<result, leaked>>

LEMMA HeapContinues ==
  ASSUME IInv, HeapInv, stack # <<>>, NEW f, NEW c, Continue(f, c), FrameHeap(f),
         c.op \in {"call", "lex", "run"}, c.op = "run" => f.pc # "start", NEW taken, Takes(taken), NEW freed, NEW new,
         Trade(Own(Top) \cup NodeOwn \cup taken, Own(f), freed, new)
  PROVE  HeapInv'
<1> DEFINE n == Len(stack)
           rest == UNION {Own(stack[i]) : i \in 1 .. n - 1}
<1>1. n \in Nat /\ n >= 1 /\ n \in 1 .. n /\ IsSeq(stack)
  BY TopFacts DEF IInv, StackInv, FramesOK
<1>2. /\ stack' # <<>> /\ Len(stack') = n /\ stack'[n] = f
      /\ \A i \in 1 .. n - 1 : stack'[i] = stack[i]
  BY <1>1, StackReplace DEF Continue
<1>3. \A i \in 1 .. n : i = n \/ i \in 1 .. n - 1
  BY <1>1
<1>4. \A i \in 1 .. n - 1 : i \in 1 .. n /\ i # n
  BY <1>1
<1>5. stack[n] = Top
  BY DEF Top
<1>6. \A i, j \in 1 .. n : i # j => Own(stack[i]) \cap Own(stack[j]) = {}
  BY DEF HeapInv, Parts
<1>7. \A i \in 1 .. n : FrameHeap(stack'[i])
  BY <1>2, <1>3, <1>4 DEF HeapInv
<1> HIDE DEF n
<1>8. Held(n) = rest \cup Own(Top) /\ rest \cap Own(Top) = {}
  <2>1. Held(n) \subseteq rest \cup Own(Top)
    BY <1>3, <1>5 DEF Held
  <2>2. rest \cup Own(Top) \subseteq Held(n)
    BY <1>1, <1>4, <1>5 DEF Held
  <2>3. rest \cap Own(Top) = {}
    BY <1>1, <1>4, <1>5, <1>6
  <2> QED BY <2>1, <2>2, <2>3
<1>9. Held(Len(stack))' = rest \cup Own(f)
  <2>1. Held(Len(stack))' = UNION {Own(stack'[i]) : i \in 1 .. n}
    BY <1>2 DEF Held, n
  <2>2. Held(Len(stack))' \subseteq rest \cup Own(f)
    BY <2>1, <1>2, <1>3
  <2>3. rest \cup Own(f) \subseteq Held(Len(stack))'
    BY <2>1, <1>1, <1>2, <1>4
  <2> QED BY <2>2, <2>3
<1>10. \A i \in 1 .. n - 1 : Own(stack[i]) \subseteq rest
  OBVIOUS
<1> HIDE DEF rest
<1>11. NodeOwn' = {} /\ result = NoNode /\ result' = NoNode /\ ResultOwn = {} /\ ResultOwn' = {}
  BY TopHeap DEF Continue, NodeOwn, ResultOwn, Takes
<1>12. /\ heap = rest \cup Own(Top) \cup NodeOwn \cup tok.name \cup leaked
       /\ (rest \cup Own(Top)) \cap NodeOwn = {}
       /\ (rest \cup Own(Top) \cup NodeOwn) \cap tok.name = {}
       /\ (rest \cup Own(Top) \cup NodeOwn \cup tok.name) \cap leaked = {}
  BY <1>8, <1>11 DEF HeapInv, Parts, n
<1>13. /\ taken \subseteq tok.name /\ tok'.name = tok.name \ taken
       /\ freed \subseteq Own(Top) \cup NodeOwn \cup taken /\ new \cap heap = {}
       /\ Own(f) = ((Own(Top) \cup NodeOwn \cup taken) \ freed) \cup new
       /\ heap' = (heap \ freed) \cup new
       /\ leaked' = leaked
  BY DEF Takes, Trade
<1>14. /\ heap' = rest \cup Own(f) \cup tok'.name \cup leaked'
       /\ rest \cap Own(f) = {}
       /\ (rest \cup Own(f)) \cap tok'.name = {}
       /\ (rest \cup Own(f) \cup tok'.name) \cap leaked' = {}
  BY <1>8, <1>12, <1>13
<1>15. ASSUME NEW i \in 1 .. n, NEW j \in 1 .. n, i # j
       PROVE  Own(stack'[i]) \cap Own(stack'[j]) = {}
  <2>1. CASE i # n /\ j # n
    BY <1>2, <1>3, <1>6, <1>15, <2>1
  <2>2. CASE i = n /\ j # n
    BY <1>2, <1>3, <1>10, <1>14, <2>2
  <2>3. CASE i # n /\ j = n
    BY <1>2, <1>3, <1>10, <1>14, <2>3
  <2> QED BY <1>15, <2>1, <2>2, <2>3
<1>16. Parts'
  BY <1>2, <1>9, <1>11, <1>14, <1>15 DEF Parts
<1>17. Names' /\ Nodes'
  <2>1. Top' = f
    BY <1>2 DEF Top
  <2> QED BY <1>11, <2>1 DEF HeapInv, Names, Nodes, Takes, Continue
<1> QED BY <1>2, <1>7, <1>16, <1>17 DEF HeapInv

LEMMA HeapReturns ==
  ASSUME IInv, HeapInv, stack # <<>>, NEW c, Return(c), c.op \in {"ok", "error"},
         c.op = "ok" => NodeOK(c.node), Takes({}), NEW freed, NEW new,
         Trade(Own(Top) \cup NodeOwn, IF c.op = "ok" THEN c.node.owns ELSE {}, freed, new)
  PROVE  HeapInv'
<1> DEFINE n == Len(stack)
           rest == UNION {Own(stack[i]) : i \in 1 .. n - 1}
<1>1. n \in Nat /\ n >= 1 /\ n \in 1 .. n /\ IsSeq(stack)
  BY TopFacts DEF IInv, StackInv, FramesOK
<1>2. Len(stack') = n - 1 /\ \A i \in 1 .. n - 1 : stack'[i] = stack[i]
  BY <1>1, StackPop DEF Return
<1>3. \A i \in 1 .. n : i = n \/ i \in 1 .. n - 1
  BY <1>1
<1>4. \A i \in 1 .. n - 1 : i \in 1 .. n /\ i # n
  BY <1>1
<1>5. stack[n] = Top
  BY DEF Top
<1>6. \A i, j \in 1 .. n : i # j => Own(stack[i]) \cap Own(stack[j]) = {}
  BY DEF HeapInv, Parts
<1>7. \A i \in 1 .. n - 1 : FrameHeap(stack'[i])
  BY <1>2, <1>4 DEF HeapInv
<1> HIDE DEF n
<1>8. Held(n) = rest \cup Own(Top) /\ rest \cap Own(Top) = {}
  <2>1. Held(n) \subseteq rest \cup Own(Top)
    BY <1>3, <1>5 DEF Held
  <2>2. rest \cup Own(Top) \subseteq Held(n)
    BY <1>1, <1>4, <1>5 DEF Held
  <2>3. rest \cap Own(Top) = {}
    BY <1>1, <1>4, <1>5, <1>6
  <2> QED BY <2>1, <2>2, <2>3
<1>9. Held(Len(stack))' = rest
  <2>1. Held(Len(stack))' = UNION {Own(stack'[i]) : i \in 1 .. n - 1}
    BY <1>2 DEF Held
  <2> QED BY <2>1, <1>2
<1> HIDE DEF rest
<1>10. NodeOwn' = IF c.op = "ok" THEN c.node.owns ELSE {}
  BY DEF Return, NodeOwn
<1>11. result = NoNode /\ result' = NoNode /\ ResultOwn = {} /\ ResultOwn' = {}
  BY TopHeap DEF ResultOwn, Takes
<1>12. /\ heap = rest \cup Own(Top) \cup NodeOwn \cup tok.name \cup leaked
       /\ (rest \cup Own(Top)) \cap NodeOwn = {}
       /\ (rest \cup Own(Top) \cup NodeOwn) \cap tok.name = {}
       /\ (rest \cup Own(Top) \cup NodeOwn \cup tok.name) \cap leaked = {}
  BY <1>8, <1>11 DEF HeapInv, Parts, n
<1>13. /\ tok'.name = tok.name
       /\ freed \subseteq Own(Top) \cup NodeOwn /\ new \cap heap = {}
       /\ NodeOwn' = ((Own(Top) \cup NodeOwn) \ freed) \cup new
       /\ heap' = (heap \ freed) \cup new
       /\ leaked' = leaked
  BY <1>10 DEF Takes, Trade
<1>14. /\ heap' = rest \cup NodeOwn' \cup tok'.name \cup leaked'
       /\ rest \cap NodeOwn' = {}
       /\ (rest \cup NodeOwn') \cap tok'.name = {}
       /\ (rest \cup NodeOwn' \cup tok'.name) \cap leaked' = {}
  BY <1>8, <1>12, <1>13
<1>15. \A i, j \in 1 .. n - 1 : i # j => Own(stack'[i]) \cap Own(stack'[j]) = {}
  BY <1>2, <1>4, <1>6
<1>16. Parts'
  BY <1>2, <1>9, <1>11, <1>14, <1>15 DEF Parts
<1>17. Names' /\ Nodes'
  BY <1>11 DEF HeapInv, Names, Nodes, Takes, Return
<1> QED BY <1>2, <1>7, <1>16, <1>17 DEF HeapInv

(* Most steps only move the program counter.                                *)
LEMMA HeapStays ==
  ASSUME IInv, HeapInv, stack # <<>>, control.op # "ok", UNCHANGED heap, Takes({}),
         NEW f, NEW c, Continue(f, c), c.op \in {"call", "lex", "run"},
         c.op = "run" => f.pc # "start",
         f.kids = Top.kids, f.mem = Top.mem, Shape(f.pc, Top.kids, Top.mem)
  PROVE  HeapInv'
<1>1. FrameHeap(f) /\ Own(f) = Own(Top)
  BY DEF FrameHeap, Own
<1>2. NodeOwn = {}
  BY DEF NodeOwn
<1>3. Trade(Own(Top) \cup NodeOwn \cup {}, Own(f), {}, {})
  BY <1>1, <1>2 DEF Trade
<1> QED BY <1>1, <1>3, HeapContinues

LEMMA PcStays ==
  ASSUME IInv, HeapInv, stack # <<>>, control.op # "ok", UNCHANGED heap, Takes({}),
         NEW pc, pc # "start", NEW c, c.op \in {"call", "lex", "run"},
         Shape(pc, Top.kids, Top.mem), Continue([Top EXCEPT !.pc = pc], c)
  PROVE  HeapInv'
<1>1. PICK f : f = [Top EXCEPT !.pc = pc]
  OBVIOUS
<1>2. f.pc = pc /\ f.kids = Top.kids /\ f.mem = Top.mem
  BY <1>1, TopFacts DEF IInv, FrameType
<1> QED BY <1>1, <1>2, HeapStays

LEMMA CapStays ==
  ASSUME IInv, HeapInv, stack # <<>>, control.op # "ok", UNCHANGED heap, Takes({}),
         NEW pc, pc # "start", NEW c, c.op \in {"call", "lex", "run"},
         Shape(pc, Top.kids, Top.mem),
         NEW f, f = [Top EXCEPT !.pc = pc, !.cap = 2 * @], Continue(f, c)
  PROVE  HeapInv'
<1>1. f.pc = pc /\ f.kids = Top.kids /\ f.mem = Top.mem
  BY TopFacts DEF IInv, FrameType
<1> QED BY <1>1, HeapStays

(* A function that fails frees all that it has.                             *)
LEMMA HeapFails ==
  ASSUME IInv, HeapInv, stack # <<>>, NEW c, Return(c), c.op = "error", Takes({}),
         heap' = heap \ (Own(Top) \cup NodeOwn)
  PROVE  HeapInv'
<1>1. Trade(Own(Top) \cup NodeOwn, {}, Own(Top) \cup NodeOwn, {})
  BY DEF Trade
<1> QED BY <1>1, HeapReturns

LEMMA HeapSucceeds ==
  ASSUME IInv, HeapInv, stack # <<>>, NEW node, Return(Ok(node)), NodeOK(node), Takes({}),
         NEW freed, NEW new, Trade(Own(Top) \cup NodeOwn, node.owns, freed, new)
  PROVE  HeapInv'
<1>1. Ok(node).op = "ok" /\ Ok(node).node = node
  BY FlowControls
<1>2. Trade(Own(Top) \cup NodeOwn, IF Ok(node).op = "ok" THEN Ok(node).node.owns ELSE {},
            freed, new)
  BY <1>1
<1> QED BY <1>1, <1>2, HeapReturns

LEMMA HeapGoes ==
  ASSUME IInv, HeapInv, stack # <<>>, NEW f, NEW c, Continue(f, c),
         c.op \in {"call", "lex", "run"}, f.pc # "start", FrameHeap(f), Takes({}),
         NEW freed, NEW new, Trade(Own(Top) \cup NodeOwn, Own(f), freed, new)
  PROVE  HeapInv'
<1>1. PICK taken : taken = {}
  OBVIOUS
<1>2. Takes(taken) /\ Trade(Own(Top) \cup NodeOwn \cup taken, Own(f), freed, new)
  BY <1>1
<1> QED BY <1>2, HeapContinues

(* A function that does not touch the token.                                *)
LEMMA TakesNothing ==
  ASSUME IInv, HeapInv, UNCHANGED <<tok, result, leaked>>,
         \/ tok.kind \notin NamedKinds
         \/ control'.op \notin {"lex", "call"}
         \/ control'.op = "call" /\ control'.fn # "body"
         \/ tok.name = {}
  PROVE  Takes({})
BY DEF Takes, HeapInv, Names

LEMMA ControlOps ==
  /\ \A fn : Call(fn).op = "call" /\ Call(fn).fn = fn
  /\ CallLex.op = "lex" /\ Run.op = "run" /\ Lexed.op = "lexed"
  /\ \A node : Ok(node).op = "ok" /\ Ok(node).node = node
  /\ \A code : Error(code).op = "error"
  /\ OutOfMemory.op = "error"
BY DEF Call, CallLex, Lexed, Run, Ok, Error, OutOfMemory, Control

LEMMA AltHeap ==
  ASSUME IInv, HeapInv, Alt
  PROVE  HeapInv'
<1>1. /\ stack # <<>> /\ UNCHANGED <<tok, result, leaked>>
  BY DEF Alt, AltStart, AltFirst, AltGrow, AltNext, AltFails, At, LocalVars, callVars
<1>2. /\ FrameType(Top) /\ Shape(Top.pc, Top.kids, Top.mem)
      /\ Own(Top) = KidsOwn(Top.kids) \cup Top.mem
      /\ Own(Top) \subseteq heap /\ NodeOwn \subseteq heap /\ Own(Top) \cap NodeOwn = {}
      /\ control.op # "ok" => NodeOwn = {}
      /\ control.op = "ok" => NodeOwn = control.node.owns /\ NodeOK(control.node)
  BY <1>1, TopHeap DEF FrameHeap, Own, NodeOwn, HeapInv, Nodes
<1>3. heap \subseteq Addresses
  BY DEF IInv, Scalars
<1>4. ASSUME NEW c, Return(c), c.op \in {"ok", "error"}
      PROVE  Takes({})
  BY <1>1, <1>4, TakesNothing DEF Return
<1>5. CASE AltStart
  <2>1. Takes({}) /\ control.op # "ok"
    BY <1>1, <1>5, TakesNothing, ControlOps DEF AltStart, Continue, At
  <2>2. Shape("first", Top.kids, Top.mem)
    BY <1>2, <1>5 DEF AltStart, At, Shape, Empty, Bare, Single, Several
  <2> QED BY <1>1, <1>5, <2>1, <2>2, PcStays, ControlOps DEF AltStart
<1>6. CASE AltFirst
  <2> DEFINE child == control.node
  <2>1. /\ NodeOK(child) /\ NodeOwn = child.owns /\ Own(Top) = {}
    BY <1>2, <1>6, NoKids DEF AltFirst, At, Shape, Empty, Bare
  <2>2. CASE Return(Ok(child)) /\ UNCHANGED heap
    <3>1. Trade(Own(Top) \cup NodeOwn, child.owns, {}, {})
      BY <2>1, <2>2 DEF Trade
    <3> QED BY <1>1, <1>4, <2>1, <2>2, <3>1, HeapSucceeds, ControlOps
  <2>3. CASE /\ tok.kind = "ALT" /\ CanAllocate
             /\ heap' = heap \cup {Fresh}
             /\ Continue([Top EXCEPT !.pc = "bar", !.kids = <<child>>, !.mem = {Fresh},
                                     !.cap = 2], CallLex)
    <3>1. PICK f : f = [Top EXCEPT !.pc = "bar", !.kids = <<child>>, !.mem = {Fresh},
                                   !.cap = 2]
      OBVIOUS
    <3>2. f.pc = "bar" /\ f.kids = <<child>> /\ f.mem = {Fresh}
      BY <1>2, <3>1 DEF FrameType
    <3>3. Fresh \notin heap /\ KidsOwn(<<child>>) = child.owns
      BY <2>1, <2>3, FreshIsFree, OneKid
    <3>4. FrameHeap(f) /\ Own(f) = child.owns \cup {Fresh}
      BY <1>2, <2>1, <3>2, <3>3, OneKid
      DEF FrameHeap, Own, Shape, Empty, Bare, Single, Several
    <3>5. Takes({})
      BY <1>1, <2>3, TakesNothing DEF NamedKinds, RefKinds
    <3>6. Trade(Own(Top) \cup NodeOwn, Own(f), {}, {Fresh})
      BY <2>1, <2>3, <3>3, <3>4 DEF Trade
    <3> QED BY <1>1, <2>3, <3>1, <3>2, <3>4, <3>5, <3>6, HeapGoes, ControlOps
  <2>4. CASE heap' = heap \ child.owns /\ Return(OutOfMemory)
    BY <1>1, <1>4, <2>1, <2>4, HeapFails, ControlOps
  <2> QED BY <1>6, <2>2, <2>3, <2>4 DEF AltFirst
<1>7. CASE AltGrow
  <2>1. ASSUME UNCHANGED heap, NEW f, Continue(f, Call("concat")),
               \/ f = [Top EXCEPT !.pc = "next"]
               \/ f = [Top EXCEPT !.pc = "next", !.cap = 2 * @]
        PROVE  HeapInv'
    <3>1. Takes({}) /\ control.op # "ok"
      BY <1>1, <1>7, <2>1, TakesNothing, ControlOps DEF AltGrow, Continue, At
    <3>2. Shape("next", Top.kids, Top.mem)
      BY <1>2, <1>7 DEF AltGrow, At, Shape, Empty, Bare, Single, Several
    <3>3. f.pc = "next" /\ f.kids = Top.kids /\ f.mem = Top.mem
      BY <1>2, <2>1 DEF FrameType
    <3> QED BY <1>1, <2>1, <3>1, <3>2, <3>3, HeapStays, ControlOps
  <2>2. CASE heap' = heap \ (KidsOwn(Top.kids) \cup Top.mem) /\ Return(OutOfMemory)
    <3>1. NodeOwn = {}
      BY <1>2, <1>7 DEF AltGrow, At
    <3> QED BY <1>1, <1>2, <1>4, <2>2, <3>1, HeapFails, ControlOps
  <2> QED BY <1>7, <2>1, <2>2 DEF AltGrow
<1>8. CASE AltNext
  <2> DEFINE kids == Append(Top.kids, control.node)
  <2>1. /\ NodeOK(control.node) /\ NodeOwn = control.node.owns
        /\ KidsOK(Top.kids) /\ KidsOwn(Top.kids) \cap Top.mem = {}
    BY <1>2, <1>8 DEF AltNext, At, Shape
  <2>2. /\ KidsOK(kids) /\ kids # <<>>
        /\ KidsOwn(kids) = KidsOwn(Top.kids) \cup control.node.owns
    BY <1>2, <2>1, AddKid
  <2> HIDE DEF kids
  <2>3. CASE /\ tok.kind = "ALT"
             /\ Continue([Top EXCEPT !.pc = "bar", !.kids = kids], CallLex)
             /\ UNCHANGED heap
    <3>1. PICK f : f = [Top EXCEPT !.pc = "bar", !.kids = kids]
      OBVIOUS
    <3>2. f.pc = "bar" /\ f.kids = kids /\ f.mem = Top.mem
      BY <1>2, <3>1 DEF FrameType
    <3>3. FrameHeap(f) /\ Own(f) = KidsOwn(kids) \cup Top.mem
      BY <1>2, <2>1, <2>2, <3>2 DEF FrameHeap, Own, Shape, Empty, Bare, Single, Several
    <3>4. Takes({})
      BY <1>1, <2>3, TakesNothing DEF NamedKinds, RefKinds
    <3>5. Trade(Own(Top) \cup NodeOwn, Own(f), {}, {})
      BY <1>2, <2>1, <2>2, <2>3, <3>3 DEF Trade
    <3> QED BY <1>1, <2>3, <3>1, <3>2, <3>3, <3>4, <3>5, HeapGoes, ControlOps
  <2>4. ASSUME NEW lo, NEW hi, CanAllocate, heap' = heap \cup {Fresh},
               Return(Ok(Node("ALT", lo, hi, kids, Top.mem \cup {Fresh}, {}, 0, options,
                              <<>>)))
        PROVE  HeapInv'
    <3>1. PICK n : n = Node("ALT", lo, hi, kids, Top.mem \cup {Fresh}, {}, 0, options, <<>>)
      OBVIOUS
    <3>2. /\ Fresh \in Addresses \ heap /\ Top.mem \cup {Fresh} \subseteq Addresses
          /\ {} \subseteq Addresses /\ KidsOwn(kids) \subseteq Addresses
      BY <1>2, <1>3, <2>2, <2>4, FreshIsFree, KidsAre
    <3>3. NodeOK(n) /\ n.owns = (Top.mem \cup {Fresh}) \cup KidsOwn(kids)
      BY <3>1, <3>2, ArrayNode
    <3>4. Trade(Own(Top) \cup NodeOwn, n.owns, {}, {Fresh})
      BY <1>2, <2>1, <2>2, <2>4, <3>2, <3>3 DEF Trade
    <3>5. Return(Ok(n))
      BY <2>4, <3>1
    <3> QED BY <1>1, <1>4, <3>3, <3>4, <3>5, HeapSucceeds, ControlOps
  <2>5. CASE heap' = heap \ (KidsOwn(kids) \cup Top.mem) /\ Return(OutOfMemory)
    <3>1. heap' = heap \ (Own(Top) \cup NodeOwn)
      BY <1>2, <2>1, <2>2, <2>5
    <3> QED BY <1>1, <1>4, <2>5, <3>1, HeapFails, ControlOps
  <2> QED BY <1>8, <2>3, <2>4, <2>5 DEF AltNext, kids
<1>9. CASE AltFails
  <2>1. control.op = "error" /\ NodeOwn = {} /\ Return(control)
    BY <1>2, <1>9 DEF AltFails
  <2>2. heap' = heap \ (Own(Top) \cup NodeOwn)
    <3>1. CASE Top.pc = "first" /\ UNCHANGED heap
      <4>1. Own(Top) = {}
        BY <1>2, <3>1, NoKids DEF Shape, Empty, Bare
      <4> QED BY <2>1, <3>1, <4>1
    <3>2. CASE heap' = heap \ (KidsOwn(Top.kids) \cup Top.mem)
      BY <1>2, <2>1, <3>2
    <3> QED BY <1>9, <3>1, <3>2 DEF AltFails
  <2> QED BY <1>1, <1>4, <2>1, <2>2, HeapFails
<1> QED BY <1>5, <1>6, <1>7, <1>8, <1>9 DEF Alt

(* What a step of the running function starts from.                         *)
LEMMA Running ==
  ASSUME IInv, HeapInv, stack # <<>>
  PROVE  /\ FrameType(Top) /\ Shape(Top.pc, Top.kids, Top.mem)
         /\ KidsOK(Top.kids) /\ KidsOwn(Top.kids) \cap Top.mem = {}
         /\ Own(Top) = KidsOwn(Top.kids) \cup Top.mem
         /\ Own(Top) \subseteq heap /\ NodeOwn \subseteq heap /\ Own(Top) \cap NodeOwn = {}
         /\ tok.name \subseteq heap /\ (Own(Top) \cup NodeOwn) \cap tok.name = {}
         /\ control.op # "ok" => NodeOwn = {}
         /\ control.op = "ok" => NodeOwn = control.node.owns /\ NodeOK(control.node)
         /\ Top.pc \in Empty \cap Bare => Own(Top) = {}
         /\ heap \subseteq Addresses
<1>1. FrameType(Top) /\ Shape(Top.pc, Top.kids, Top.mem)
  BY TopHeap DEF FrameHeap
<1>2. Top.pc \in Empty \cap Bare => Own(Top) = {}
  BY <1>1, NoKids DEF Shape, Own
<1> QED BY <1>1, <1>2, TopHeap DEF Shape, Own, NodeOwn, HeapInv, Nodes, IInv, Scalars

LEMMA ConcatHeap ==
  ASSUME IInv, HeapInv, Concat
  PROVE  HeapInv'
<1>1. /\ stack # <<>> /\ UNCHANGED <<tok, result, leaked>>
  BY DEF Concat, ConcatEmpty, ConcatStart, ConcatFirst, ConcatAppend, ConcatGrow, ConcatEnd,
         ConcatFails, At, LocalVars, callVars
<1>2. /\ FrameType(Top) /\ Shape(Top.pc, Top.kids, Top.mem)
      /\ KidsOK(Top.kids) /\ KidsOwn(Top.kids) \cap Top.mem = {}
      /\ Own(Top) = KidsOwn(Top.kids) \cup Top.mem
      /\ Own(Top) \subseteq heap /\ NodeOwn \subseteq heap /\ Own(Top) \cap NodeOwn = {}
      /\ control.op # "ok" => NodeOwn = {}
      /\ control.op = "ok" => NodeOwn = control.node.owns /\ NodeOK(control.node)
      /\ Top.pc \in Empty \cap Bare => Own(Top) = {}
      /\ heap \subseteq Addresses
  BY <1>1, Running
<1>3. ASSUME NEW c, Return(c), c.op \in {"ok", "error"}
      PROVE  Takes({})
  BY <1>1, <1>3, TakesNothing DEF Return
<1>4. ASSUME NEW f, NEW c, Continue(f, c), c.op = "run" \/ (c.op = "call" /\ c.fn = "quantifier")
      PROVE  Takes({})
  BY <1>1, <1>4, TakesNothing DEF Continue
<1>5. CASE ConcatEmpty
  <2>1. Own(Top) = {} /\ NodeOwn = {}
    BY <1>2, <1>5 DEF ConcatEmpty, At, Empty, Bare
  <2>2. ASSUME CanAllocate, heap' = heap \cup {Fresh}, NEW n, Return(Ok(n)),
               n = Node("CONCAT", tok.lo, tok.lo, <<>>, {Fresh}, {}, 0, options, <<>>)
        PROVE  HeapInv'
    <3>1. Fresh \in Addresses \ heap /\ {Fresh} \subseteq Addresses /\ KidsOwn(<<>>) = {}
      BY <2>2, FreshIsFree, NoKids
    <3>2. KidsOwn(<<>>) \subseteq Addresses
      BY <3>1
    <3>3. NodeOK(n) /\ n.owns = {Fresh} \cup KidsOwn(<<>>)
      BY <2>2, <3>1, <3>2, ArrayNode
    <3>4. Trade(Own(Top) \cup NodeOwn, n.owns, {}, {Fresh})
      BY <2>1, <2>2, <3>1, <3>3 DEF Trade
    <3> QED BY <1>1, <1>3, <2>2, <3>3, <3>4, HeapSucceeds, ControlOps
  <2>3. CASE Return(OutOfMemory) /\ UNCHANGED heap
    BY <1>1, <1>3, <2>1, <2>3, HeapFails, ControlOps
  <2> QED BY <1>5, <2>2, <2>3 DEF ConcatEmpty
<1>6. CASE ConcatStart
  <2>1. control.op # "ok" /\ Shape("first", Top.kids, Top.mem)
    BY <1>2, <1>6 DEF ConcatStart, At, Shape, Empty, Bare, Single, Several
  <2> QED BY <1>1, <1>4, <1>6, <2>1, PcStays, ControlOps DEF ConcatStart
<1>7. CASE ConcatFirst
  <2> DEFINE child == control.node
  <2>1. /\ NodeOK(child) /\ NodeOwn = child.owns /\ Own(Top) = {}
    BY <1>2, <1>7 DEF ConcatFirst, At, Empty, Bare
  <2>2. CASE Return(Ok(child)) /\ UNCHANGED heap
    <3>1. Trade(Own(Top) \cup NodeOwn, child.owns, {}, {})
      BY <2>1, <2>2 DEF Trade
    <3> QED BY <1>1, <1>3, <2>1, <2>2, <3>1, HeapSucceeds, ControlOps
  <2>3. ASSUME CanAllocate, heap' = heap \cup {Fresh}, NEW f, Continue(f, Call("quantifier")),
               f = [Top EXCEPT !.pc = "next", !.kids = <<child>>, !.mem = {Fresh}, !.cap = 2]
        PROVE  HeapInv'
    <3>1. f.pc = "next" /\ f.kids = <<child>> /\ f.mem = {Fresh}
      BY <1>2, <2>3 DEF FrameType
    <3>2. Fresh \notin heap /\ KidsOwn(<<child>>) = child.owns
      BY <2>1, <2>3, FreshIsFree, OneKid
    <3>3. FrameHeap(f) /\ Own(f) = child.owns \cup {Fresh}
      BY <1>2, <2>1, <3>1, <3>2, OneKid
      DEF FrameHeap, Own, Shape, Empty, Bare, Single, Several
    <3>4. Trade(Own(Top) \cup NodeOwn, Own(f), {}, {Fresh})
      BY <2>1, <2>3, <3>2, <3>3 DEF Trade
    <3>5. Takes({})
      BY <1>4, <2>3, ControlOps
    <3> QED BY <1>1, <2>3, <3>1, <3>3, <3>4, <3>5, HeapGoes, ControlOps
  <2>4. CASE heap' = heap \ child.owns /\ Return(OutOfMemory)
    BY <1>1, <1>3, <2>1, <2>4, HeapFails, ControlOps
  <2> QED BY <1>7, <2>2, <2>3, <2>4 DEF ConcatFirst
<1>8. CASE ConcatAppend
  <2> DEFINE node == control.node
             kids == Top.kids
  <2>1. /\ NodeOK(node) /\ NodeOwn = node.owns /\ kids # <<>>
        /\ Kid = kids[Len(kids)] /\ NodeOK(Kid) /\ Kid.buf \subseteq Kid.owns
        /\ Kid.owns \subseteq KidsOwn(kids) /\ KidsOwn(kids) \subseteq Addresses
        /\ Kid.buf \subseteq Addresses
    <3>1. kids # <<>> /\ control.op = "ok"
      BY <1>2, <1>8 DEF ConcatAppend, At, Shape, Several
    <3>2. NodeOK(Kid) /\ Kid.owns \subseteq KidsOwn(kids) /\ KidsOwn(kids) \subseteq Addresses
      BY <1>2, <3>1, KidsAre DEF Kid
    <3> QED BY <1>2, <3>1, <3>2 DEF Kid, NodeOK
  <2>2. ASSUME NEW more, KidsOK(more), more # <<>>,
               Continue([Top EXCEPT !.pc = "grow", !.kids = more], Run),
               NEW freed, NEW new, KidsOwn(more) \cap Top.mem = {},
               Trade(Own(Top) \cup NodeOwn, KidsOwn(more) \cup Top.mem, freed, new)
        PROVE  HeapInv'
    <3>1. PICK f : f = [Top EXCEPT !.pc = "grow", !.kids = more]
      OBVIOUS
    <3>2. f.pc = "grow" /\ f.kids = more /\ f.mem = Top.mem
      BY <1>2, <3>1 DEF FrameType
    <3>3. FrameHeap(f) /\ Own(f) = KidsOwn(more) \cup Top.mem
      BY <2>2, <3>2 DEF FrameHeap, Own, Shape, Empty, Bare, Single, Several
    <3>4. Takes({})
      BY <1>4, <2>2, ControlOps
    <3>5. Trade(Own(Top) \cup NodeOwn, Own(f), freed, new) /\ Continue(f, Run)
      BY <2>2, <3>1, <3>3
    <3> QED BY <1>1, <3>2, <3>3, <3>4, <3>5, HeapGoes, ControlOps
  <2>3. CASE /\ Continue([Top EXCEPT !.pc = "grow", !.kids = Append(kids, node)], Run)
             /\ UNCHANGED heap
    <3>1. PICK more : more = Append(kids, node)
      OBVIOUS
    <3>2. KidsOK(more) /\ more # <<>> /\ KidsOwn(more) = KidsOwn(kids) \cup node.owns
      BY <1>2, <2>1, <3>1, AddKid
    <3>3. Trade(Own(Top) \cup NodeOwn, KidsOwn(more) \cup Top.mem, {}, {})
      BY <1>2, <2>1, <2>3, <3>2 DEF Trade
    <3>4. KidsOwn(more) \cap Top.mem = {}
      BY <1>2, <2>1, <3>2
    <3> QED BY <2>2, <2>3, <3>1, <3>2, <3>3, <3>4
  <2>4. ASSUME NEW buf, buf \subseteq Addresses, buf = Kid.buf \/ buf \cap heap = {},
               NEW freed, freed = node.owns \cup (Kid.buf \ buf),
               heap' = (heap \ freed) \cup (buf \ Kid.buf),
               Continue([Top EXCEPT !.pc = "grow",
                           !.kids = [Top.kids EXCEPT ![Len(Top.kids)] = Merged(@, node, buf)]], Run)
        PROVE  HeapInv'
    <3>1. PICK n : n = Merged(Kid, node, buf)
      OBVIOUS
    <3>2. NodeOK(n) /\ n.owns = (Kid.owns \ Kid.buf) \cup buf
      BY <2>1, <2>4, <3>1, NodeMerged
    <3>3. PICK more : more = [kids EXCEPT ![Len(kids)] = n]
      OBVIOUS
    <3>4. /\ KidsOK(more) /\ more # <<>>
          /\ KidsOwn(more) = (KidsOwn(kids) \ Kid.buf) \cup buf
      <4>1. buf \cap (KidsOwn(kids) \ Kid.buf) = {}
        BY <1>2, <2>1, <2>4
      <4> QED BY <1>2, <2>1, <3>2, <3>3, <4>1, MergeKid
    <3>5. PICK new : new = buf \ Kid.buf
      OBVIOUS
    <3>6. Trade(Own(Top) \cup NodeOwn, KidsOwn(more) \cup Top.mem, freed, new)
      BY <1>2, <2>1, <2>4, <3>4, <3>5 DEF Trade
    <3>7. KidsOwn(more) \cap Top.mem = {}
      BY <1>2, <2>1, <2>4, <3>4
    <3>8. Continue([Top EXCEPT !.pc = "grow", !.kids = more], Run)
      BY <2>1, <2>4, <3>1, <3>3
    <3> QED BY <2>2, <3>4, <3>6, <3>7, <3>8
  <2>5. CASE heap' = heap \ (KidsOwn(Top.kids) \cup node.owns \cup Top.mem) /\ Return(OutOfMemory)
    <3>1. heap' = heap \ (Own(Top) \cup NodeOwn)
      BY <1>2, <2>1, <2>5
    <3> QED BY <1>1, <1>3, <2>5, <3>1, HeapFails, ControlOps
  <2>6. CASE /\ Continue([Top EXCEPT !.pc = "grow",
                    !.kids = [Top.kids EXCEPT ![Len(Top.kids)] = Merged(@, node, Kid.buf)]], Run)
             /\ heap' = heap \ node.owns
    <3>1. PICK buf, freed : buf = Kid.buf /\ freed = node.owns \cup (Kid.buf \ buf)
      OBVIOUS
    <3>2. heap' = (heap \ freed) \cup (buf \ Kid.buf)
      BY <2>6, <3>1
    <3> QED BY <2>1, <2>4, <2>6, <3>1, <3>2
  <2>7. CASE /\ CanAllocate
             /\ Continue([Top EXCEPT !.pc = "grow",
                    !.kids = [Top.kids EXCEPT ![Len(Top.kids)] = Merged(@, node, {Fresh})]], Run)
             /\ heap' = (heap \ (Kid.buf \cup node.owns)) \cup {Fresh}
    <3>1. PICK buf, freed : buf = {Fresh} /\ freed = node.owns \cup (Kid.buf \ buf)
      OBVIOUS
    <3>2. Fresh \in Addresses /\ Fresh \notin heap
      BY <2>7, FreshIsFree
    <3>3. buf \subseteq Addresses /\ buf \cap heap = {} /\ buf \cap Kid.buf = {}
      BY <1>2, <2>1, <3>1, <3>2
    <3>4. heap' = (heap \ freed) \cup (buf \ Kid.buf)
      BY <2>7, <3>1, <3>3
    <3> QED BY <2>4, <2>7, <3>1, <3>3, <3>4
  <2> QED BY <1>8, <2>3, <2>5, <2>6, <2>7 DEF ConcatAppend
<1>9. CASE ConcatGrow
  <2>1. ASSUME UNCHANGED heap, NEW f, Continue(f, Call("quantifier")),
               \/ f = [Top EXCEPT !.pc = "next"]
               \/ f = [Top EXCEPT !.pc = "next", !.cap = 2 * @]
        PROVE  HeapInv'
    <3>1. control.op # "ok" /\ Shape("next", Top.kids, Top.mem)
      BY <1>2, <1>9 DEF ConcatGrow, At, Shape, Empty, Bare, Single, Several
    <3>2. f.pc = "next" /\ f.kids = Top.kids /\ f.mem = Top.mem
      BY <1>2, <2>1 DEF FrameType
    <3> QED BY <1>1, <1>4, <2>1, <3>1, <3>2, HeapStays, ControlOps
  <2>2. CASE heap' = heap \ (KidsOwn(Top.kids) \cup Top.mem) /\ Return(OutOfMemory)
    <3>1. NodeOwn = {}
      BY <1>2, <1>9 DEF ConcatGrow, At
    <3> QED BY <1>1, <1>2, <1>3, <2>2, <3>1, HeapFails, ControlOps
  <2> QED BY <1>9, <2>1, <2>2 DEF ConcatGrow
<1>10. CASE ConcatEnd
  <2> DEFINE kids == Top.kids
  <2>1. NodeOwn = {} /\ KidsOwn(kids) \subseteq Addresses
    BY <1>2, <1>10, KidsAre DEF ConcatEnd, At
  <2>2. ASSUME Len(kids) = 1, heap' = heap \ Top.mem, NEW n, n = kids[1], Return(Ok(n))
        PROVE  HeapInv'
    <3>1. NodeOK(n) /\ KidsOwn(kids) = n.owns
      BY <1>2, <2>2, KidsAre
    <3>2. Trade(Own(Top) \cup NodeOwn, n.owns, Top.mem, {})
      BY <1>2, <2>1, <2>2, <3>1 DEF Trade
    <3> QED BY <1>1, <1>3, <2>2, <3>1, <3>2, HeapSucceeds, ControlOps
  <2>3. ASSUME NEW lo, NEW hi, CanAllocate, heap' = heap \cup {Fresh}, NEW n, Return(Ok(n)),
               n = Node("CONCAT", lo, hi, kids, Top.mem \cup {Fresh}, {}, 0, options, <<>>)
        PROVE  HeapInv'
    <3>1. Fresh \in Addresses \ heap /\ Top.mem \cup {Fresh} \subseteq Addresses
      BY <1>2, <2>3, FreshIsFree
    <3>2. NodeOK(n) /\ n.owns = (Top.mem \cup {Fresh}) \cup KidsOwn(kids)
      BY <2>1, <2>3, <3>1, ArrayNode
    <3>3. Trade(Own(Top) \cup NodeOwn, n.owns, {}, {Fresh})
      BY <1>2, <2>1, <2>3, <3>1, <3>2 DEF Trade
    <3> QED BY <1>1, <1>3, <2>3, <3>2, <3>3, HeapSucceeds, ControlOps
  <2>4. CASE heap' = heap \ (KidsOwn(kids) \cup Top.mem) /\ Return(OutOfMemory)
    BY <1>1, <1>2, <1>3, <2>1, <2>4, HeapFails, ControlOps
  <2> QED BY <1>10, <2>2, <2>3, <2>4 DEF ConcatEnd
<1>11. CASE ConcatFails
  <2>1. control.op = "error" /\ NodeOwn = {} /\ Return(control)
    BY <1>2, <1>11 DEF ConcatFails
  <2>2. heap' = heap \ (Own(Top) \cup NodeOwn)
    BY <1>2, <1>11, <2>1 DEF ConcatFails, Empty, Bare
  <2> QED BY <1>1, <1>3, <2>1, <2>2, HeapFails
<1> QED BY <1>5, <1>6, <1>7, <1>8, <1>9, <1>10, <1>11 DEF Concat

LEMMA SingleKid ==
  ASSUME Shape(Top.pc, Top.kids, Top.mem), Top.pc \in Single
  PROVE  NodeOK(Kid) /\ KidsOwn(Top.kids) = Kid.owns
<1>1. KidsOK(Top.kids) /\ Len(Top.kids) = 1
  BY DEF Shape
<1>2. 1 \in 1 .. Len(Top.kids)
  BY <1>1
<1>3. NodeOK(Top.kids[1]) /\ KidsOwn(Top.kids) = Top.kids[1].owns
  BY <1>1, <1>2, KidsAre
<1> QED BY <1>1, <1>3 DEF Kid

LEMMA QuantifierHeap ==
  ASSUME IInv, HeapInv, Quantifier
  PROVE  HeapInv'
<1>1. /\ stack # <<>> /\ UNCHANGED <<tok, result, leaked>>
  BY DEF Quantifier, QuantifierStart, QuantifierAtom, QuantifierWrap, QuantifierNext,
         QuantifierEnd, QuantifierFails, At, LocalVars, callVars
<1>2. /\ FrameType(Top) /\ Shape(Top.pc, Top.kids, Top.mem)
      /\ KidsOK(Top.kids) /\ KidsOwn(Top.kids) \cap Top.mem = {}
      /\ Own(Top) = KidsOwn(Top.kids) \cup Top.mem
      /\ Own(Top) \subseteq heap /\ NodeOwn \subseteq heap /\ Own(Top) \cap NodeOwn = {}
      /\ control.op # "ok" => NodeOwn = {}
      /\ control.op = "ok" => NodeOwn = control.node.owns /\ NodeOK(control.node)
      /\ Top.pc \in Empty \cap Bare => Own(Top) = {}
      /\ heap \subseteq Addresses
  BY <1>1, Running
<1>3. ASSUME NEW c, Return(c), c.op \in {"ok", "error"}
      PROVE  Takes({})
  BY <1>1, <1>3, TakesNothing DEF Return
<1>4. ASSUME NEW f, NEW c, Continue(f, c), c.op = "run" \/ (c.op = "call" /\ c.fn = "atom")
      PROVE  Takes({})
  BY <1>1, <1>4, TakesNothing DEF Continue
<1>5. ASSUME Top.pc \in {"loop", "wrapped"}
      PROVE  /\ NodeOK(Kid) /\ KidsOwn(Top.kids) = Kid.owns
             /\ Top.mem = {} /\ Own(Top) = Kid.owns
  BY <1>2, <1>5, SingleKid DEF Shape, Single, Bare
<1>6. CASE QuantifierStart
  <2>1. control.op # "ok" /\ Shape("atom", Top.kids, Top.mem)
    BY <1>2, <1>6 DEF QuantifierStart, At, Shape, Empty, Bare, Single, Several
  <2> QED BY <1>1, <1>4, <1>6, <2>1, PcStays, ControlOps DEF QuantifierStart
<1>7. CASE QuantifierAtom
  <2>1. /\ NodeOK(control.node) /\ NodeOwn = control.node.owns /\ Own(Top) = {}
        /\ Top.mem = {}
    BY <1>2, <1>7 DEF QuantifierAtom, At, Empty, Bare, Shape
  <2>2. PICK f : f = [Top EXCEPT !.pc = "loop", !.kids = <<control.node>>]
    OBVIOUS
  <2>3. f.pc = "loop" /\ f.kids = <<control.node>> /\ f.mem = {}
    BY <1>2, <2>1, <2>2 DEF FrameType
  <2>4. FrameHeap(f) /\ Own(f) = control.node.owns
    BY <2>1, <2>3, OneKid DEF FrameHeap, Own, Shape, Empty, Bare, Single, Several
  <2>5. Continue(f, Run) /\ UNCHANGED heap
    BY <1>7, <2>2 DEF QuantifierAtom
  <2>6. Trade(Own(Top) \cup NodeOwn, Own(f), {}, {})
    BY <2>1, <2>4, <2>5 DEF Trade
  <2>7. Takes({})
    BY <1>4, <2>5, ControlOps
  <2> QED BY <1>1, <2>3, <2>4, <2>5, <2>6, <2>7, HeapGoes, ControlOps
<1>8. CASE QuantifierWrap
  <2>1. NodeOwn = {} /\ NodeOK(Kid) /\ Own(Top) = Kid.owns /\ Top.mem = {}
    BY <1>2, <1>5, <1>8 DEF QuantifierWrap, At
  <2>2. ASSUME CanAllocate, heap' = heap \cup {Fresh},
               NEW n, n = Node("QUANTIFIER", Kid.lo, tok.hi, <<Kid>>, {Fresh}, {}, 0, options,
                               <<>>),
               Continue([Top EXCEPT !.pc = "wrapped", !.kids = <<n>>], CallLex)
        PROVE  HeapInv'
    <3>1. Fresh \in Addresses \ heap /\ {Fresh} \subseteq Addresses /\ KidsOwn(<<Kid>>) = Kid.owns
      BY <2>1, <2>2, FreshIsFree, OneKid
    <3>2. KidsOwn(<<Kid>>) \subseteq Addresses
      BY <1>2, <2>1, <3>1
    <3>3. NodeOK(n) /\ n.owns = {Fresh} \cup KidsOwn(<<Kid>>)
      <4>1. PICK kids, base : kids = <<Kid>> /\ base = {Fresh}
        OBVIOUS
      <4>2. /\ n = Node("QUANTIFIER", Kid.lo, tok.hi, kids, base, {}, 0, options, <<>>)
            /\ KidsOwn(kids) \subseteq Addresses /\ base \subseteq Addresses
        BY <2>2, <3>1, <3>2, <4>1
      <4>3. NodeOK(n) /\ n.owns = base \cup KidsOwn(kids)
        BY <4>2, ArrayNode
      <4> QED BY <4>1, <4>3
    <3>4. PICK f : f = [Top EXCEPT !.pc = "wrapped", !.kids = <<n>>]
      OBVIOUS
    <3>5. f.pc = "wrapped" /\ f.kids = <<n>> /\ f.mem = {}
      BY <1>2, <2>1, <3>4 DEF FrameType
    <3>6. FrameHeap(f) /\ Own(f) = Kid.owns \cup {Fresh}
      BY <3>1, <3>3, <3>5, OneKid DEF FrameHeap, Own, Shape, Empty, Bare, Single, Several
    <3>7. Trade(Own(Top) \cup NodeOwn, Own(f), {}, {Fresh})
      BY <2>1, <2>2, <3>1, <3>6 DEF Trade
    <3>8. Takes({})
      BY <1>1, <1>8, TakesNothing DEF QuantifierWrap, NamedKinds, RefKinds
    <3> QED BY <1>1, <2>2, <3>4, <3>5, <3>6, <3>7, <3>8, HeapGoes, ControlOps
  <2>3. CASE heap' = heap \ Kid.owns /\ Return(OutOfMemory)
    BY <1>1, <1>3, <2>1, <2>3, HeapFails, ControlOps
  <2> QED BY <1>8, <2>2, <2>3 DEF QuantifierWrap
<1>9. CASE QuantifierNext
  <2>1. control.op # "ok" /\ Shape("loop", Top.kids, Top.mem)
    BY <1>2, <1>9 DEF QuantifierNext, At, Shape, Empty, Bare, Single, Several
  <2> QED BY <1>1, <1>4, <1>9, <2>1, PcStays, ControlOps DEF QuantifierNext
<1>10. CASE QuantifierEnd
  <2>1. NodeOwn = {} /\ NodeOK(Kid) /\ Own(Top) = Kid.owns
    BY <1>2, <1>5, <1>10 DEF QuantifierEnd, At
  <2>2. Trade(Own(Top) \cup NodeOwn, Kid.owns, {}, {})
    BY <1>10, <2>1 DEF QuantifierEnd, Trade
  <2> QED BY <1>1, <1>3, <1>10, <2>1, <2>2, HeapSucceeds, ControlOps DEF QuantifierEnd
<1>11. CASE QuantifierFails
  <2>1. control.op = "error" /\ NodeOwn = {} /\ Return(control)
    BY <1>2, <1>11 DEF QuantifierFails
  <2>2. heap' = heap \ (Own(Top) \cup NodeOwn)
    BY <1>2, <1>5, <1>11, <2>1 DEF QuantifierFails, Empty, Bare
  <2> QED BY <1>1, <1>3, <2>1, <2>2, HeapFails
<1> QED BY <1>6, <1>7, <1>8, <1>9, <1>10, <1>11 DEF Quantifier

LEMMA BodyHeap ==
  ASSUME IInv, FlowInv, HeapInv, Body
  PROVE  HeapInv'
<1>1. /\ stack # <<>> /\ UNCHANGED <<tok, result, leaked>>
  BY DEF Body, BodyStart, BodyLexed, BodyEnd, BodyFails, At, LocalVars, callVars
<1>2. Own(Top) = {} /\ Shape(Top.pc, Top.kids, Top.mem)
  <2>1. Top.fn = "body" /\ PcOK(Top)
    BY <1>1, TopChain DEF Body, BodyStart, BodyLexed, BodyEnd, BodyFails, At, IInv, FlowInv
  <2>2. Top.pc \in Empty \cap Bare
    BY <2>1, Counters DEF PcOK, Empty, Bare
  <2> QED BY <1>1, <2>2, Running
<1>3. ASSUME NEW c, Return(c), c.op \in {"ok", "error"}
      PROVE  Takes({})
  BY <1>1, <1>3, TakesNothing DEF Return
<1>4. CASE BodyStart
  <2>1. control.op # "ok" /\ Shape("lex", Top.kids, Top.mem)
    BY <1>2, <1>4 DEF BodyStart, At, Shape, Empty, Bare, Single, Several
  <2>2. tok.name = {}
    BY <1>4 DEF BodyStart, At, HeapInv, Names
  <2>3. Takes({})
    BY <1>1, <2>2, TakesNothing
  <2> QED BY <1>1, <1>4, <2>1, <2>3, PcStays, ControlOps DEF BodyStart
<1>5. CASE BodyLexed
  <2>1. control.op # "ok" /\ Shape("alt", Top.kids, Top.mem)
    BY <1>2, <1>5 DEF BodyLexed, At, Shape, Empty, Bare, Single, Several
  <2>2. Takes({})
    BY <1>1, <1>5, TakesNothing, ControlOps DEF BodyLexed, Continue
  <2> QED BY <1>1, <1>5, <2>1, <2>2, PcStays, ControlOps DEF BodyLexed
<1>6. CASE BodyEnd
  <2>1. control.op = "ok" /\ NodeOwn = control.node.owns /\ NodeOK(control.node)
    BY <1>1, <1>6, Running DEF BodyEnd, At
  <2>2. CASE Return(control) /\ UNCHANGED heap
    <3>1. Trade(Own(Top) \cup NodeOwn, IF control.op = "ok" THEN control.node.owns ELSE {},
                {}, {})
      BY <1>2, <2>1, <2>2 DEF Trade
    <3> QED BY <1>1, <1>3, <2>1, <2>2, <3>1, HeapReturns
  <2>3. CASE heap' = heap \ control.node.owns /\ Return(Error("UNTERMINATED_GROUP"))
    BY <1>1, <1>2, <1>3, <2>1, <2>3, HeapFails, ControlOps
  <2> QED BY <1>6, <2>2, <2>3 DEF BodyEnd
<1>7. CASE BodyFails
  <2>1. control.op = "error" /\ NodeOwn = {} /\ Return(control) /\ UNCHANGED heap
    BY <1>7 DEF BodyFails, NodeOwn
  <2>2. heap' = heap \ (Own(Top) \cup NodeOwn)
    BY <1>2, <2>1
  <2> QED BY <1>1, <1>3, <2>1, <2>2, HeapFails
<1> QED BY <1>4, <1>5, <1>6, <1>7 DEF Body

LEMMA LeafMade ==
  ASSUME NEW type, Fresh \in Addresses, NEW buf, buf \subseteq Addresses
  PROVE  NodeOK(LeafNode(type, buf)) /\ LeafNode(type, buf).owns = {Fresh} \cup buf
<1>1. PICK base, kids, num, text :
        /\ base = {Fresh} /\ kids = <<>> /\ num = 0
        /\ text = <<[kind |-> tok.kind, opts |-> options]>>
  OBVIOUS
<1>2. LeafNode(type, buf) = Node(type, tok.lo, tok.hi, kids, base, buf, num, options, text)
  BY <1>1 DEF LeafNode
<1>3. base \subseteq Addresses /\ KidsOwn(kids) \subseteq Addresses
  BY <1>1, NoKids
<1>4. /\ NodeOK(LeafNode(type, buf))
      /\ LeafNode(type, buf).owns = base \cup buf \cup KidsOwn(kids)
  BY <1>2, <1>3, NodeMade
<1> QED BY <1>1, <1>4, NoKids

LEMMA GroupMade ==
  ASSUME Fresh \in Addresses, Top.mem \subseteq Addresses,
         NEW kids, KidsOwn(kids) \subseteq Addresses, NEW hi
  PROVE  /\ NodeOK(GroupNode(kids, hi))
         /\ GroupNode(kids, hi).owns = {Fresh} \cup Top.mem \cup KidsOwn(kids)
<1>1. PICK base, type, text :
        /\ base = {Fresh} /\ type = GroupType(Top.open.kind)
        /\ text = <<[kind |-> Top.open.kind, opts |-> Top.saved]>>
  OBVIOUS
<1>2. GroupNode(kids, hi) =
        Node(type, Top.lo, hi, kids, base, Top.mem, Top.num, Top.open.opts, text)
  BY <1>1 DEF GroupNode
<1>3. base \subseteq Addresses
  BY <1>1
<1>4. /\ NodeOK(GroupNode(kids, hi))
      /\ GroupNode(kids, hi).owns = base \cup Top.mem \cup KidsOwn(kids)
  BY <1>2, <1>3, NodeMade
<1> QED BY <1>1, <1>4

(* A finished atom keeps its node until the next token is lexed.             *)
LEMMA HeapKeeps ==
  ASSUME IInv, HeapInv, stack # <<>>, NEW n, NodeOK(n), KeepAtom(n), NEW taken, Takes(taken),
         NEW freed, NEW new, Trade(Own(Top) \cup NodeOwn \cup taken, n.owns, freed, new)
  PROVE  HeapInv'
<1>1. PICK f : f = [Top EXCEPT !.pc = "exit", !.kids = <<n>>, !.mem = {}]
  OBVIOUS
<1>2. f.pc = "exit" /\ f.kids = <<n>> /\ f.mem = {}
  BY <1>1, Running DEF FrameType
<1>3. FrameHeap(f) /\ Own(f) = n.owns
  BY <1>2, OneKid DEF FrameHeap, Own, Shape, Empty, Bare, Single, Several
<1>4. Continue(f, CallLex)
  BY <1>1 DEF KeepAtom
<1>5. Trade(Own(Top) \cup NodeOwn \cup taken, Own(f), freed, new)
  BY <1>3
<1> QED BY <1>2, <1>3, <1>4, <1>5, HeapContinues, ControlOps

LEMMA HeapKeepsToken ==
  ASSUME IInv, HeapInv, stack # <<>>, NEW n, NodeOK(n), KeepAtom(n), Takes({}),
         NEW freed, NEW new, Trade(Own(Top) \cup NodeOwn, n.owns, freed, new)
  PROVE  HeapInv'
<1>1. PICK taken : taken = {}
  OBVIOUS
<1>2. Takes(taken) /\ Trade(Own(Top) \cup NodeOwn \cup taken, n.owns, freed, new)
  BY <1>1
<1> QED BY <1>2, HeapKeeps

(* A group takes the name of the token that opens it.                        *)
LEMMA HeapOpens ==
  ASSUME IInv, HeapInv, stack # <<>>, control.op # "ok", Top.pc = "start",
         NEW pc \in {"body", "cond_lex"}, NEW num, NEW c, Continue(OpenFrame(pc, num), c),
         c.op \in {"call", "lex"}, UNCHANGED <<heap, result, leaked>>,
         tok' = [tok EXCEPT !.name = {}]
  PROVE  HeapInv'
<1>1. FrameType(Top) /\ Own(Top) = {} /\ NodeOwn = {} /\ Shape(Top.pc, Top.kids, Top.mem)
  BY Running DEF Empty, Bare
<1>2. PICK f : f = [Top EXCEPT !.pc = pc, !.open = tok, !.num = num, !.mem = tok.name]
  OBVIOUS
<1>3. f.pc = pc /\ f.kids = <<>> /\ f.mem = tok.name
  BY <1>1, <1>2 DEF FrameType, Shape, Empty
<1>4. FrameHeap(f) /\ Own(f) = tok.name
  BY <1>3, NoKids DEF FrameHeap, Own, Shape, Empty, Bare, Single, Several
<1>5. PICK taken : taken = tok.name
  OBVIOUS
<1>6. Continue(f, c)
  BY <1>2 DEF OpenFrame
<1>7. Takes(taken)
  BY <1>5 DEF Takes, IInv, Scalars, TokenType
<1>8. Trade(Own(Top) \cup NodeOwn \cup taken, Own(f), {}, {})
  BY <1>1, <1>4, <1>5 DEF Trade
<1> QED BY <1>3, <1>4, <1>6, <1>7, <1>8, HeapContinues

(* parse_atom_impl: the atoms without a body.                                *)
Leaves == AtomLeaf \/ AtomCode \/ AtomReference \/ AtomCharClass \/ AtomRejects

LEMMA LeavesHeap ==
  ASSUME IInv, HeapInv, Leaves
  PROVE  HeapInv'
<1>1. /\ stack # <<>> /\ UNCHANGED <<result, leaked>>
      /\ Own(Top) = {} /\ NodeOwn = {} /\ heap \subseteq Addresses
  <2>1. /\ stack # <<>> /\ UNCHANGED <<result, leaked>>
        /\ Top.pc = "start" /\ control.op = "run"
    BY DEF Leaves, AtomLeaf, AtomCode, AtomReference, AtomCharClass, AtomRejects, At, AtomVars,
           LocalVars, callVars
  <2> QED BY <2>1, Running DEF Empty, Bare
<1>2. ASSUME NEW c, Return(c), c.op = "error", UNCHANGED <<heap, tok>>
      PROVE  HeapInv'
  <2>1. Takes({})
    BY <1>1, <1>2, TakesNothing DEF Return
  <2>2. heap' = heap \ (Own(Top) \cup NodeOwn)
    BY <1>1, <1>2
  <2> QED BY <1>1, <1>2, <2>1, <2>2, HeapFails
<1>3. ASSUME UNCHANGED tok, tok.kind \notin NamedKinds,
             NEW buf, buf \cap heap = {}, buf \subseteq Addresses, Fresh \in Addresses \ heap,
             NEW type, KeepAtom(LeafNode(type, buf)), heap' = heap \cup ({Fresh} \cup buf)
      PROVE  HeapInv'
  <2>1. Takes({})
    BY <1>1, <1>3, TakesNothing
  <2>2. PICK n, new : n = LeafNode(type, buf) /\ new = {Fresh} \cup buf
    OBVIOUS
  <2>3. NodeOK(n) /\ n.owns = new
    BY <1>3, <2>2, LeafMade
  <2>4. KeepAtom(n)
    BY <1>3, <2>2
  <2>5. Trade(Own(Top) \cup NodeOwn, n.owns, {}, new)
    BY <1>1, <1>3, <2>2, <2>3 DEF Trade
  <2> QED BY <1>1, <2>1, <2>3, <2>4, <2>5, HeapKeepsToken
<1>4. CASE AtomLeaf
  <2>1. CASE /\ CanAllocate /\ heap' = heap \cup {Fresh}
             /\ KeepAtom(LeafNode(tok.kind, {}))
    <3>1. PICK buf : buf = {}
      OBVIOUS
    <3>2. /\ Fresh \in Addresses \ heap /\ heap' = heap \cup ({Fresh} \cup buf)
          /\ buf \cap heap = {} /\ buf \subseteq Addresses
      BY <2>1, <3>1, FreshIsFree
    <3>3. tok.kind \notin NamedKinds /\ UNCHANGED tok
      BY <1>4 DEF AtomLeaf, LeafKinds, NamedKinds, RefKinds
    <3> QED BY <1>3, <2>1, <3>1, <3>2, <3>3
  <2> QED BY <1>2, <1>4, <2>1, ControlOps DEF AtomLeaf
<1>5. CASE AtomCode
  <2>1. CASE /\ CanAllocateTwo /\ heap' = heap \cup {Fresh, Second}
             /\ KeepAtom(LeafNode("LITERAL", {Second}))
    <3>1. PICK buf : buf = {Second}
      OBVIOUS
    <3>2. /\ Fresh \in Addresses \ heap /\ heap' = heap \cup ({Fresh} \cup buf)
          /\ buf \cap heap = {} /\ buf \subseteq Addresses
      BY <2>1, <3>1, FreshIsFree
    <3>3. tok.kind \notin NamedKinds /\ UNCHANGED tok
      BY <1>5 DEF AtomCode, NamedKinds, RefKinds
    <3> QED BY <1>3, <2>1, <3>1, <3>2, <3>3
  <2> QED BY <1>2, <1>5, <2>1, ControlOps DEF AtomCode
<1>6. CASE AtomReference
  <2>1. CASE /\ CanAllocate /\ heap' = heap \cup {Fresh}
             /\ KeepAtom(LeafNode(tok.kind, tok.name)) /\ tok' = [tok EXCEPT !.name = {}]
    <3>1. PICK n, taken : n = LeafNode(tok.kind, tok.name) /\ taken = tok.name
      OBVIOUS
    <3>2. Fresh \in Addresses /\ Fresh \notin heap /\ tok.name \subseteq Addresses
      BY <2>1, FreshIsFree DEF IInv, Scalars, TokenType
    <3>3. NodeOK(n) /\ n.owns = {Fresh} \cup taken
      BY <3>1, <3>2, LeafMade
    <3>4. Takes(taken)
      BY <1>1, <2>1, <3>1 DEF Takes, IInv, Scalars, TokenType
    <3>5. Trade(Own(Top) \cup NodeOwn \cup taken, n.owns, {}, {Fresh})
      BY <1>1, <2>1, <3>2, <3>3 DEF Trade
    <3>6. KeepAtom(n)
      BY <2>1, <3>1
    <3> QED BY <1>1, <3>3, <3>4, <3>5, <3>6, HeapKeeps
  <2> QED BY <1>2, <1>6, <2>1, ControlOps DEF AtomReference
<1>7. CASE AtomCharClass
  <2>1. CASE /\ CanAllocateTwo /\ heap' = heap \cup {Fresh, Second}
             /\ KeepAtom(LeafNode("CHAR_CLASS", {Second}))
    <3>1. PICK buf : buf = {Second}
      OBVIOUS
    <3>2. /\ Fresh \in Addresses \ heap /\ heap' = heap \cup ({Fresh} \cup buf)
          /\ buf \cap heap = {} /\ buf \subseteq Addresses
      BY <2>1, <3>1, FreshIsFree
    <3>3. tok.kind \notin NamedKinds /\ UNCHANGED tok
      BY <1>7 DEF AtomCharClass, NamedKinds, RefKinds
    <3> QED BY <1>3, <2>1, <3>1, <3>2, <3>3
  <2> QED BY <1>2, <1>7, <2>1, ControlOps DEF AtomCharClass
<1>8. CASE AtomRejects
  BY <1>2, <1>8, ControlOps DEF AtomRejects, LocalVars
<1> QED BY <1>4, <1>5, <1>6, <1>7, <1>8 DEF Leaves

(* The groups, and the end of every atom.                                    *)
Groups == GroupOpen \/ GroupEnd \/ OptionOpen \/ OptionLexed \/ OptionEnd
Conditionals == ConditionalOpen \/ ConditionalLexed \/ ConditionalBar \/ ConditionalEnd

LEMMA GroupsHeap ==
  ASSUME IInv, FlowInv, HeapInv, Groups
  PROVE  HeapInv'
<1>1. /\ stack # <<>> /\ UNCHANGED <<result, leaked>>
  BY DEF Groups, GroupOpen, GroupEnd, OptionOpen, OptionLexed, OptionEnd, At, LocalVars, callVars
<1>2. /\ FrameType(Top) /\ Shape(Top.pc, Top.kids, Top.mem)
      /\ Own(Top) = KidsOwn(Top.kids) \cup Top.mem
      /\ Own(Top) \subseteq heap /\ NodeOwn \subseteq heap /\ Own(Top) \cap NodeOwn = {}
      /\ control.op # "ok" => NodeOwn = {}
      /\ control.op = "ok" => NodeOwn = control.node.owns /\ NodeOK(control.node)
      /\ Top.pc \in Empty \cap Bare => Own(Top) = {}
      /\ heap \subseteq Addresses
  BY <1>1, Running
<1>3. ASSUME NEW c, Return(c), c.op \in {"ok", "error"}, UNCHANGED tok
      PROVE  Takes({})
  BY <1>1, <1>3, TakesNothing DEF Return
<1>4. CASE GroupOpen
  <2>1. control.op # "ok" /\ Top.pc = "start" /\ UNCHANGED heap
    BY <1>4 DEF GroupOpen, At
  <2>2. ASSUME NEW num, Continue(OpenFrame("body", num), Call("body")),
               tok' = [tok EXCEPT !.name = {}]
        PROVE  HeapInv'
    BY <1>1, <2>1, <2>2, HeapOpens, ControlOps
  <2>3. CASE Return(Error("TOO_MANY_CAPTURE_GROUPS")) /\ UNCHANGED tok
    <3>1. Own(Top) = {} /\ NodeOwn = {}
      BY <1>2, <2>1 DEF Empty, Bare
    <3>2. heap' = heap \ (Own(Top) \cup NodeOwn)
      BY <2>1, <3>1
    <3> QED BY <1>1, <1>3, <2>3, <3>2, HeapFails, ControlOps
  <2> QED BY <1>4, <2>2, <2>3 DEF GroupOpen
<1>5. CASE GroupEnd
  <2>1. /\ NodeOK(control.node) /\ NodeOwn = control.node.owns /\ Own(Top) = Top.mem
        /\ UNCHANGED tok
    BY <1>2, <1>5, NoKids DEF GroupEnd, At, Shape, Empty
  <2>2. tok.kind = "GROUP_CLOSE"
    BY <1>1, <1>5 DEF GroupEnd, At, FlowInv, Flow, Called, Callee, StopsAt
  <2>3. ASSUME NEW kids, kids = <<control.node>>, CanAllocate, heap' = heap \cup {Fresh},
               KeepAtom(GroupNode(kids, tok.hi))
        PROVE  HeapInv'
    <3>1. /\ Fresh \in Addresses /\ Fresh \notin heap /\ Top.mem \subseteq Addresses
          /\ KidsOwn(kids) = control.node.owns
      BY <1>2, <2>1, <2>3, FreshIsFree, OneKid
    <3>2. KidsOwn(kids) \subseteq Addresses
      BY <1>2, <2>1, <3>1
    <3>3. PICK n : n = GroupNode(kids, tok.hi)
      OBVIOUS
    <3>4. NodeOK(n) /\ n.owns = {Fresh} \cup Top.mem \cup KidsOwn(kids)
      BY <3>1, <3>2, <3>3, GroupMade
    <3>5. Trade(Own(Top) \cup NodeOwn, n.owns, {}, {Fresh})
      BY <2>1, <2>3, <3>1, <3>4 DEF Trade
    <3>6. Takes({})
      BY <1>1, <2>1, <2>2, TakesNothing DEF NamedKinds, RefKinds
    <3>7. KeepAtom(n)
      BY <2>3, <3>3
    <3> QED BY <1>1, <3>4, <3>5, <3>6, <3>7, HeapKeepsToken
  <2>4. CASE heap' = heap \ (control.node.owns \cup Top.mem) /\ Return(OutOfMemory)
    <3>1. heap' = heap \ (Own(Top) \cup NodeOwn)
      BY <2>1, <2>4
    <3> QED BY <1>1, <1>3, <2>1, <2>4, <3>1, HeapFails, ControlOps
  <2> QED BY <1>5, <2>3, <2>4 DEF GroupEnd
<1>6. CASE OptionOpen
  <2>1. /\ control.op # "ok" /\ Top.pc = "start" /\ UNCHANGED <<heap, tok>>
        /\ tok.kind = "OPTION" /\ Continue(OpenFrame("option_lex", 0), CallLex)
    BY <1>6 DEF OptionOpen, At
  <2>2. Takes({}) /\ tok.name = {}
    BY <1>1, <2>1, TakesNothing DEF NamedKinds, RefKinds, HeapInv, Names
  <2>3. PICK f : f = [Top EXCEPT !.pc = "option_lex", !.open = tok, !.num = 0,
                                 !.mem = tok.name]
    OBVIOUS
  <2>4. f.pc = "option_lex" /\ f.kids = <<>> /\ f.mem = {}
    BY <1>2, <2>1, <2>2, <2>3 DEF FrameType, Shape, Empty
  <2>5. FrameHeap(f) /\ Own(f) = {} /\ Own(Top) = {} /\ NodeOwn = {}
    BY <1>2, <2>1, <2>4, NoKids DEF FrameHeap, Own, Shape, Empty, Bare, Single, Several
  <2>6. Trade(Own(Top) \cup NodeOwn, Own(f), {}, {})
    BY <2>1, <2>5 DEF Trade
  <2>7. Continue(f, CallLex)
    BY <2>1, <2>3 DEF OpenFrame
  <2> QED BY <1>1, <2>2, <2>4, <2>5, <2>6, <2>7, HeapGoes, ControlOps
<1>7. CASE OptionLexed
  <2>1. control.op # "ok" /\ Shape("option_alt", Top.kids, Top.mem)
    BY <1>2, <1>7 DEF OptionLexed, At, Shape, Empty, Bare, Single, Several
  <2>2. Takes({})
    BY <1>1, <1>7, TakesNothing, ControlOps DEF OptionLexed, Continue, LocalVars
  <2> QED BY <1>1, <1>7, <2>1, <2>2, PcStays, ControlOps DEF OptionLexed
<1>8. CASE OptionEnd
  <2>1. /\ NodeOK(control.node) /\ NodeOwn = control.node.owns /\ Own(Top) = {}
        /\ Top.mem = {} /\ UNCHANGED tok
    BY <1>2, <1>8, NoKids DEF OptionEnd, At, Shape, Empty, Bare
  <2>2. ASSUME NEW kids, kids = <<control.node>>, CanAllocate, heap' = heap \cup {Fresh},
               NEW hi, Return(Ok(GroupNode(kids, hi)))
        PROVE  HeapInv'
    <3>1. /\ Fresh \in Addresses /\ Fresh \notin heap
          /\ KidsOwn(kids) = control.node.owns
      BY <1>2, <2>1, <2>2, FreshIsFree, OneKid
    <3>2. KidsOwn(kids) \subseteq Addresses /\ Top.mem \subseteq Addresses
      BY <1>2, <2>1, <3>1
    <3>3. PICK n : n = GroupNode(kids, hi)
      OBVIOUS
    <3>4. NodeOK(n) /\ n.owns = {Fresh} \cup Top.mem \cup KidsOwn(kids)
      BY <3>1, <3>2, <3>3, GroupMade
    <3>5. Trade(Own(Top) \cup NodeOwn, n.owns, {}, {Fresh})
      BY <2>1, <2>2, <3>1, <3>4 DEF Trade
    <3>6. Return(Ok(n)) /\ Takes({})
      BY <1>3, <2>1, <2>2, <3>3, ControlOps
    <3> QED BY <1>1, <3>4, <3>5, <3>6, HeapSucceeds
  <2>3. CASE heap' = heap \ control.node.owns /\ Return(OutOfMemory)
    BY <1>1, <1>3, <2>1, <2>3, HeapFails, ControlOps
  <2> QED BY <1>8, <2>2, <2>3 DEF OptionEnd
<1> QED BY <1>4, <1>5, <1>6, <1>7, <1>8 DEF Groups

LEMMA ConditionalsHeap ==
  ASSUME IInv, HeapInv, Conditionals
  PROVE  HeapInv'
<1>1. /\ stack # <<>> /\ UNCHANGED <<result, leaked>>
  BY DEF Conditionals, ConditionalOpen, ConditionalLexed, ConditionalBar, ConditionalEnd, At,
         AtomVars, LocalVars, callVars
<1>2. /\ FrameType(Top) /\ Shape(Top.pc, Top.kids, Top.mem)
      /\ KidsOK(Top.kids) /\ KidsOwn(Top.kids) \cap Top.mem = {}
      /\ Own(Top) = KidsOwn(Top.kids) \cup Top.mem
      /\ Own(Top) \subseteq heap /\ NodeOwn \subseteq heap /\ Own(Top) \cap NodeOwn = {}
      /\ control.op # "ok" => NodeOwn = {}
      /\ control.op = "ok" => NodeOwn = control.node.owns /\ NodeOK(control.node)
      /\ heap \subseteq Addresses
  BY <1>1, Running
<1>3. ASSUME NEW c, Return(c), c.op \in {"ok", "error"}, UNCHANGED tok
      PROVE  Takes({})
  BY <1>1, <1>3, TakesNothing DEF Return
<1>4. CASE ConditionalOpen
  <2>1. /\ control.op # "ok" /\ Top.pc = "start" /\ UNCHANGED heap
        /\ Continue(OpenFrame("cond_lex", 0), CallLex) /\ tok' = [tok EXCEPT !.name = {}]
    BY <1>4 DEF ConditionalOpen, At
  <2> QED BY <1>1, <2>1, HeapOpens, ControlOps
<1>5. CASE ConditionalLexed
  <2>1. ASSUME NEW pc, pc \in {"cond_yes", "cond_no"}, Shape(pc, Top.kids, Top.mem),
               Continue([Top EXCEPT !.pc = pc], Call("concat"))
        PROVE  HeapInv'
    <3>1. control.op # "ok" /\ UNCHANGED <<heap, tok>>
      BY <1>5 DEF ConditionalLexed, At, LocalVars
    <3>2. Takes({})
      BY <1>1, <2>1, <3>1, TakesNothing, ControlOps DEF Continue
    <3> QED BY <1>1, <2>1, <3>1, <3>2, PcStays, ControlOps
  <2>2. CASE /\ At("lexed", "atom", "cond_lex")
             /\ Continue([Top EXCEPT !.pc = "cond_yes"], Call("concat"))
    <3>1. Shape("cond_yes", Top.kids, Top.mem)
      BY <1>2, <2>2 DEF At, Shape, Empty, Bare, Single, Several
    <3> QED BY <2>1, <2>2, <3>1
  <2>3. CASE /\ At("lexed", "atom", "cond_bar")
             /\ Continue([Top EXCEPT !.pc = "cond_no"], Call("concat"))
    <3>1. Shape("cond_no", Top.kids, Top.mem)
      BY <1>2, <2>3 DEF At, Shape, Empty, Bare, Single, Several
    <3> QED BY <2>1, <2>3, <3>1
  <2> QED BY <1>5, <2>2, <2>3 DEF ConditionalLexed
<1>6. CASE ConditionalBar
  <2>1. /\ NodeOK(control.node) /\ NodeOwn = control.node.owns /\ Own(Top) = Top.mem
        /\ UNCHANGED <<heap, tok>> /\ tok.kind = "ALT"
        /\ Continue([Top EXCEPT !.pc = "cond_bar", !.kids = <<control.node>>], CallLex)
    BY <1>2, <1>6, NoKids DEF ConditionalBar, At, Shape, Empty, LocalVars
  <2>2. PICK f : f = [Top EXCEPT !.pc = "cond_bar", !.kids = <<control.node>>]
    OBVIOUS
  <2>3. f.pc = "cond_bar" /\ f.kids = <<control.node>> /\ f.mem = Top.mem
    BY <1>2, <2>2 DEF FrameType
  <2>4. KidsOK(f.kids) /\ KidsOwn(f.kids) = control.node.owns
    BY <2>1, <2>3, OneKid
  <2>5. FrameHeap(f) /\ Own(f) = control.node.owns \cup Top.mem
    BY <1>2, <2>1, <2>3, <2>4 DEF FrameHeap, Own, Shape, Empty, Bare, Single, Several
  <2>6. Trade(Own(Top) \cup NodeOwn, Own(f), {}, {})
    BY <2>1, <2>5 DEF Trade
  <2>7. Takes({}) /\ Continue(f, CallLex)
    BY <1>1, <2>1, <2>2, TakesNothing DEF NamedKinds, RefKinds
  <2> QED BY <1>1, <2>3, <2>5, <2>6, <2>7, HeapGoes, ControlOps
<1>7. CASE ConditionalEnd
  <2>1. PICK kids : kids = Append(Top.kids, control.node)
    OBVIOUS
  <2>2. /\ NodeOK(control.node) /\ NodeOwn = control.node.owns /\ UNCHANGED tok
    BY <1>2, <1>7 DEF ConditionalEnd, At
  <2>3. KidsOwn(kids) = KidsOwn(Top.kids) \cup control.node.owns
    BY <1>2, <2>1, <2>2, AddKid
  <2>4. ASSUME CanAllocate, heap' = heap \cup {Fresh}, tok.kind = "GROUP_CLOSE",
               KeepAtom(GroupNode(kids, tok.hi))
        PROVE  HeapInv'
    <3>1. /\ Fresh \in Addresses /\ Fresh \notin heap /\ Top.mem \subseteq Addresses
          /\ KidsOwn(kids) \subseteq Addresses
      BY <1>2, <2>2, <2>3, <2>4, FreshIsFree
    <3>2. PICK n : n = GroupNode(kids, tok.hi)
      OBVIOUS
    <3>3. NodeOK(n) /\ n.owns = {Fresh} \cup Top.mem \cup KidsOwn(kids)
      BY <3>1, <3>2, GroupMade
    <3>4. Trade(Own(Top) \cup NodeOwn, n.owns, {}, {Fresh})
      BY <1>2, <2>2, <2>3, <2>4, <3>1, <3>3 DEF Trade
    <3>5. Takes({})
      BY <1>1, <2>2, <2>4, TakesNothing DEF NamedKinds, RefKinds
    <3>6. KeepAtom(n)
      BY <2>4, <3>2
    <3> QED BY <1>1, <3>3, <3>4, <3>5, <3>6, HeapKeepsToken
  <2>5. ASSUME heap' = heap \ (KidsOwn(kids) \cup Top.mem), NEW c, c.op = "error", Return(c)
        PROVE  HeapInv'
    <3>1. heap' = heap \ (Own(Top) \cup NodeOwn)
      BY <1>2, <2>2, <2>3, <2>5
    <3> QED BY <1>1, <1>3, <2>2, <2>5, <3>1, HeapFails
  <2> QED BY <1>7, <2>1, <2>4, <2>5, ControlOps DEF ConditionalEnd
<1> QED BY <1>4, <1>5, <1>6, <1>7 DEF Conditionals

LEMMA AtomHeap ==
  ASSUME IInv, FlowInv, HeapInv, Atom
  PROVE  HeapInv'
<1>1. CASE AtomExit
  <2>1. /\ stack # <<>> /\ UNCHANGED <<heap, tok, result, leaked>>
        /\ control.op = "lexed" /\ Top.pc = "exit" /\ Return(Ok(Kid))
    BY <1>1 DEF AtomExit, At, LocalVars, callVars
  <2>2. NodeOwn = {} /\ NodeOK(Kid) /\ Own(Top) = Kid.owns
    BY <2>1, Running, SingleKid DEF Single, Bare, Shape
  <2>3. Trade(Own(Top) \cup NodeOwn, Kid.owns, {}, {})
    BY <2>1, <2>2 DEF Trade
  <2>4. Takes({})
    BY <2>1, TakesNothing, ControlOps DEF Return
  <2> QED BY <2>1, <2>2, <2>3, <2>4, HeapSucceeds
<1>2. CASE AtomFails
  <2>1. /\ stack # <<>> /\ UNCHANGED <<tok, result, leaked>> /\ Return(control)
        /\ control.op = "error" /\ Top.fn = "atom" /\ heap' = heap \ FreedByAtom
    BY <1>2 DEF AtomFails, callVars
  <2>2. PcOK(Top) /\ Shape(Top.pc, Top.kids, Top.mem)
    BY <2>1, TopChain, Running DEF IInv, FlowInv
  <2>3. FreedByAtom = Own(Top)
    BY <2>1, <2>2, Counters, NoKids DEF PcOK, FreedByAtom, Own, Shape, Empty, Bare
  <2>4. heap' = heap \ (Own(Top) \cup NodeOwn)
    BY <2>1, <2>3 DEF NodeOwn
  <2>5. Takes({})
    BY <2>1, TakesNothing DEF Return
  <2> QED BY <2>1, <2>4, <2>5, HeapFails
<1> QED BY <1>1, <1>2, LeavesHeap, GroupsHeap, ConditionalsHeap
        DEF Atom, Leaves, Groups, Conditionals

-----------------------------------------------------------------------------
(* Calls, tokens and the steps of nk_parser_parse.                           *)

(* The frames stay what they are, and so does what they own.                *)
LEMMA HeapRests ==
  ASSUME HeapInv, UNCHANGED stack, Names', Nodes',
         heap' = Held(Len(stack)) \cup NodeOwn' \cup ResultOwn' \cup tok'.name \cup leaked',
         Held(Len(stack)) \cap NodeOwn' = {},
         (Held(Len(stack)) \cup NodeOwn') \cap ResultOwn' = {},
         (Held(Len(stack)) \cup NodeOwn' \cup ResultOwn') \cap tok'.name = {},
         (Held(Len(stack)) \cup NodeOwn' \cup ResultOwn' \cup tok'.name) \cap leaked' = {}
  PROVE  HeapInv'
<1>1. Held(Len(stack))' = Held(Len(stack))
  BY DEF Held
<1>2. \A i, j \in 1 .. Len(stack) : i # j => Own(stack[i]) \cap Own(stack[j]) = {}
  BY DEF HeapInv, Parts
<1>3. Parts'
  BY <1>1, <1>2 DEF Parts
<1> QED BY <1>3 DEF HeapInv

LEMMA EnterHeap ==
  ASSUME IInv, HeapInv, Enter
  PROVE  HeapInv'
<1>1. UNCHANGED <<heap, tok, result, leaked>> /\ NodeOwn = {} /\ control.op = "call"
  BY DEF Enter, EnterFunction, RejectDepth, callVars, NodeOwn
<1>2. result = NoNode /\ ResultOwn = {} /\ ResultOwn' = {}
  BY <1>1 DEF HeapInv, Nodes, ResultOwn
<1>3. CASE EnterFunction
  <2> DEFINE n == Len(stack)
  <2>1. PICK f : f = Frame(control.fn)
    OBVIOUS
  <2>2. f.pc = "start" /\ f.kids = <<>> /\ f.mem = {} /\ f.fn = control.fn
    BY <2>1 DEF Frame
  <2>3. FrameHeap(f) /\ Own(f) = {}
    BY <2>2, NoKids DEF FrameHeap, Own, Shape, Empty, Bare, Single, Several
  <2>4. n \in Nat
    BY StackLen DEF IInv, StackInv, FramesOK
  <2>5. /\ stack' # <<>> /\ Len(stack') = n + 1 /\ stack'[n + 1] = f
        /\ \A i \in 1 .. n : stack'[i] = stack[i]
    BY <1>3, <2>1, StackPush DEF EnterFunction, IInv, StackInv, FramesOK
  <2>6. NodeOwn' = {} /\ Top' = f /\ control' = Run
    BY <1>3, <2>5, ControlOps DEF EnterFunction, Top, NodeOwn
  <2>7. \A i \in 1 .. n + 1 : i = n + 1 \/ i \in 1 .. n
    BY <2>4
  <2>8. \A i \in 1 .. n : i \in 1 .. n + 1
    BY <2>4
  <2> HIDE DEF n
  <2>9. Held(Len(stack))' = Held(n)
    <3>1. Held(Len(stack))' = UNION {Own(stack'[i]) : i \in 1 .. n + 1}
      BY <2>5 DEF Held
    <3>2. Held(n) = UNION {Own(stack'[i]) : i \in 1 .. n}
      BY <2>5 DEF Held
    <3>3. Own(stack'[n + 1]) = {}
      BY <2>3, <2>5
    <3> QED BY <2>7, <2>8, <3>1, <3>2, <3>3
  <2>10. ASSUME NEW i \in 1 .. n + 1, NEW j \in 1 .. n + 1, i # j
         PROVE  Own(stack'[i]) \cap Own(stack'[j]) = {}
    <3>1. CASE i \in 1 .. n /\ j \in 1 .. n
      BY <2>5, <2>10, <3>1 DEF HeapInv, Parts, n
    <3>2. CASE i = n + 1 \/ j = n + 1
      BY <2>3, <2>5, <3>2
    <3> QED BY <2>7, <3>1, <3>2
  <2>11. Parts'
    BY <1>1, <1>2, <2>5, <2>6, <2>9, <2>10 DEF Parts, HeapInv, n
  <2>12. \A i \in 1 .. n + 1 : FrameHeap(stack'[i])
    BY <2>3, <2>5, <2>7 DEF HeapInv, n
  <2>13. Names' /\ Nodes'
    BY <1>1, <1>2, <2>2, <2>6, ControlOps DEF HeapInv, Names, Nodes
  <2> QED BY <2>5, <2>11, <2>12, <2>13 DEF HeapInv
<1>4. CASE RejectDepth
  <2>1. UNCHANGED stack /\ control'.op = "error"
    BY <1>4, ControlOps DEF RejectDepth
  <2>2. Names' /\ Nodes' /\ NodeOwn' = {}
    BY <1>1, <1>2, <2>1 DEF HeapInv, Names, Nodes, NodeOwn
  <2> QED BY <1>1, <1>2, <2>1, <2>2, HeapRests DEF HeapInv, Parts
<1> QED BY <1>3, <1>4 DEF Enter

LEMMA LexHeap ==
  ASSUME IInv, HeapInv, Lex
  PROVE  HeapInv'
<1>1. /\ control.op = "lex" /\ NodeOwn = {} /\ tok.name = {}
      /\ UNCHANGED <<stack, result, leaked>>
  BY DEF Lex, LexToken, LexEnd, LexInBrace, LexError, ReturnToken, LexVars, callVars, NodeOwn,
         HeapInv, Names
<1>2. result = NoNode /\ ResultOwn = {} /\ ResultOwn' = {}
  BY <1>1 DEF HeapInv, Nodes, ResultOwn
<1>3. /\ heap = Held(Len(stack)) \cup leaked
      /\ Held(Len(stack)) \cap leaked = {}
  BY <1>1, <1>2 DEF HeapInv, Parts
<1>4. ASSUME NEW kind, NEW name, NEW opts, ReturnToken(kind, name, opts),
             name \cap heap = {}, name # {} => kind \in NamedKinds
      PROVE  HeapInv'
  <2>1. tok'.name = name /\ tok'.kind = kind /\ control' = Lexed /\ heap' = heap \cup name
    BY <1>4 DEF ReturnToken, Token
  <2>2. NodeOwn' = {} /\ Names' /\ Nodes'
    BY <1>1, <1>2, <1>4, <2>1, ControlOps DEF NodeOwn, Names, Nodes
  <2> QED BY <1>1, <1>2, <1>3, <1>4, <2>1, <2>2, HeapRests
<1>5. CASE LexToken
  <2>1. PICK kind, opts :
          \/ ReturnToken(kind, {}, opts)
          \/ kind \in NamedKinds /\ CanAllocate /\ ReturnToken(kind, {Fresh}, opts)
    BY <1>5 DEF LexToken
  <2>2. CanAllocate => {Fresh} \cap heap = {}
    BY FreshIsFree
  <2> QED BY <1>4, <2>1, <2>2
<1>6. CASE LexEnd
  BY <1>4, <1>6 DEF LexEnd
<1>7. CASE LexInBrace
  BY <1>4, <1>7 DEF LexInBrace
<1>8. CASE LexError
  <2>1. tok'.name = {} /\ control'.op = "error" /\ UNCHANGED heap
    BY <1>8, ControlOps DEF LexError, NoToken, Token
  <2>2. NodeOwn' = {} /\ Names' /\ Nodes'
    BY <1>1, <1>2, <2>1 DEF NodeOwn, Names, Nodes
  <2> QED BY <1>1, <1>2, <1>3, <2>1, <2>2, HeapRests
<1> QED BY <1>5, <1>6, <1>7, <1>8 DEF Lex

LEMMA NodesAreNodes ==
  ASSUME NEW n, NodeOK(n)
  PROVE  n # NoNode
<1>1. "owns" \in DOMAIN n
  BY DEF NodeOK
<1>2. DOMAIN NoNode = {"type"}
  BY DEF NoNode
<1> QED BY <1>1, <1>2

LEMMA ParseHeap ==
  ASSUME IInv, HeapInv, Parse
  PROVE  HeapInv'
<1> DEFINE held == Held(Len(stack))
<1>1. UNCHANGED stack
  BY DEF Parse, StartParse, ParseFirstToken, ParseSucceeds, ParseRejectsRest, ParseFails,
         ReleaseResult, Finish
<1>2. /\ heap = held \cup NodeOwn \cup ResultOwn \cup tok.name \cup leaked
      /\ held \cap NodeOwn = {}
      /\ (held \cup NodeOwn) \cap ResultOwn = {}
      /\ (held \cup NodeOwn \cup ResultOwn) \cap tok.name = {}
      /\ (held \cup NodeOwn \cup ResultOwn \cup tok.name) \cap leaked = {}
  BY DEF HeapInv, Parts
<1> HIDE DEF held
<1>3. CASE StartParse \/ ParseFirstToken
  <2>1. /\ UNCHANGED <<heap, tok, result, leaked>> /\ NodeOwn = {} /\ NodeOwn' = {}
        /\ ResultOwn = {} /\ ResultOwn' = {}
        /\ control'.op = "lex" \/ (control'.op = "call" /\ control'.fn = "alt")
        /\ result = NoNode
    BY <1>3, ControlOps
    DEF StartParse, ParseFirstToken, callVars, NodeOwn, ResultOwn, HeapInv, Nodes
  <2>2. control'.op = "lex" => tok.name = {}
    BY <1>3, ControlOps DEF StartParse, ParseFirstToken, HeapInv, Names
  <2>3. Names' /\ Nodes'
    BY <2>1, <2>2 DEF HeapInv, Names, Nodes
  <2> QED BY <1>1, <1>2, <2>1, <2>3, HeapRests DEF held
<1>4. ASSUME NEW code, NEW node, NEW freed, Finish(code, node, freed), control.op # "idle",
             \/ node = NoNode /\ freed = NodeOwn
             \/ freed = {} /\ NodeOK(node) /\ node.owns = NodeOwn
      PROVE  HeapInv'
  <2>1. tok'.name = {} /\ control'.op = "idle" /\ leaked' = leaked \cup tok.name
    BY <1>4, FlowControls DEF Finish, NoToken, Token
  <2>2. result = NoNode /\ ResultOwn = {} /\ NodeOwn' = {}
    BY <1>4, <2>1 DEF HeapInv, Nodes, ResultOwn, NodeOwn
  <2>3. result' = node /\ heap' = heap \ freed
    BY <1>4 DEF Finish
  <2>4. Names' /\ Nodes'
    BY <1>4, <2>1, <2>3 DEF Names, Nodes
  <2>5. ResultOwn' = IF node = NoNode THEN {} ELSE node.owns
    BY <2>3 DEF ResultOwn
  <2>6. heap' = held \cup ResultOwn' \cup leaked' /\ held \cap ResultOwn' = {}
        /\ (held \cup ResultOwn') \cap leaked' = {}
    BY <1>2, <1>4, <2>1, <2>2, <2>3, <2>5, NodesAreNodes
  <2> QED BY <1>1, <2>1, <2>2, <2>4, <2>6, HeapRests DEF held
<1>5. CASE ParseSucceeds
  <2>1. control.op = "ok" /\ NodeOK(control.node) /\ NodeOwn = control.node.owns
    BY <1>5 DEF ParseSucceeds, HeapInv, Nodes, NodeOwn
  <2>2. Finish("SUCCESS", control.node, {})
    BY <1>5 DEF ParseSucceeds
  <2> QED BY <1>4, <2>1, <2>2
<1>6. CASE ParseRejectsRest
  <2>1. control.op = "ok" /\ NodeOwn = control.node.owns
    BY <1>6 DEF ParseRejectsRest, NodeOwn
  <2>2. PICK code : Finish(code, NoNode, control.node.owns)
    BY <1>6 DEF ParseRejectsRest
  <2> QED BY <1>4, <2>1, <2>2
<1>7. CASE ParseFails
  <2>1. control.op = "error" /\ NodeOwn = {} /\ Finish(control.code, NoNode, {})
    BY <1>7 DEF ParseFails, NodeOwn
  <2> QED BY <1>4, <2>1
<1>8. CASE ReleaseResult
  <2>1. /\ control.op = "idle" /\ NodeOwn = {} /\ NodeOwn' = {} /\ ResultOwn = result.owns
        /\ result' = NoNode /\ ResultOwn' = {} /\ heap' = heap \ ResultOwn
        /\ UNCHANGED <<tok, leaked, control>>
    BY <1>8 DEF ReleaseResult, NodeOwn, ResultOwn
  <2>2. Names' /\ Nodes'
    BY <1>1, <2>1 DEF HeapInv, Names, Nodes, Top
  <2> QED BY <1>1, <1>2, <2>1, <2>2, HeapRests DEF held
<1> QED BY <1>3, <1>5, <1>6, <1>7, <1>8 DEF Parse

LEMMA HeapStep ==
  IInv /\ FlowInv /\ HeapInv /\ [Next]_vars => HeapInv'
<1>1. ASSUME HeapInv, UNCHANGED vars
      PROVE  HeapInv'
  <2>1. UNCHANGED <<stack, control, result, tok, leaked, heap>>
    BY <1>1 DEF vars
  <2>2. Names' /\ Nodes' /\ NodeOwn' = NodeOwn /\ ResultOwn' = ResultOwn
    BY <1>1, <2>1 DEF HeapInv, Names, Nodes, Top, NodeOwn, ResultOwn
  <2> QED BY <1>1, <2>1, <2>2, HeapRests DEF HeapInv, Parts
<1> QED BY <1>1, ParseHeap, LexHeap, EnterHeap, AltHeap, ConcatHeap, QuantifierHeap, BodyHeap,
           AtomHeap DEF Next

LEMMA HeapStarts ==
  Init => HeapInv
<1> SUFFICES ASSUME Init PROVE HeapInv
  OBVIOUS
<1>1. Len(stack) = 0 /\ 1 .. Len(stack) = {} /\ tok.name = {} /\ control.op = "idle"
  BY FlowControls DEF Init, NoToken, Token
<1>2. Held(Len(stack)) = {} /\ NodeOwn = {} /\ ResultOwn = {} /\ leaked = {} /\ heap = {}
  BY <1>1 DEF Init, Held, NodeOwn, ResultOwn
<1>3. Names /\ Nodes
  BY <1>1 DEF Init, Names, Nodes
<1> QED BY <1>1, <1>2, <1>3 DEF HeapInv, Parts

LEMMA HeapHolds ==
  Spec => []HeapInv
<1>1. Init => HeapInv
  BY HeapStarts
<1>2. IInv /\ FlowInv /\ HeapInv /\ [Next]_vars => HeapInv'
  BY HeapStep
<1> QED BY <1>1, <1>2, Invariance, FlowHolds, PTL DEF Spec

LEMMA OneOwner ==
  ASSUME IInv, HeapInv
  PROVE  HeapHasOneOwner
<1> DEFINE n == Len(stack)
           F == [i \in 1 .. n |-> KidsOwn(stack[i].kids) \cup stack[i].mem]
           G == <<NodeOwn, ResultOwn, tok.name, leaked>>
           held == Holdings
<1>1. n \in Nat
  BY StackLen DEF IInv, StackInv, FramesOK
<1>2. /\ heap = Held(n) \cup NodeOwn \cup ResultOwn \cup tok.name \cup leaked
      /\ \A i, j \in 1 .. n : i # j => Own(stack[i]) \cap Own(stack[j]) = {}
      /\ Held(n) \cap NodeOwn = {}
      /\ (Held(n) \cup NodeOwn) \cap ResultOwn = {}
      /\ (Held(n) \cup NodeOwn \cup ResultOwn) \cap tok.name = {}
      /\ (Held(n) \cup NodeOwn \cup ResultOwn \cup tok.name) \cap leaked = {}
  BY DEF HeapInv, Parts
<1>3. held = F \o G
  BY DEF Holdings, NodeOwn, ResultOwn
<1>4. \A i \in 1 .. n : Own(stack[i]) \subseteq Held(n)
  BY DEF Held
<1>5. heap \subseteq Addresses
  BY DEF IInv, Scalars
<1>6. F \in Seq(SUBSET Addresses) /\ Len(F) = n /\ \A i \in 1 .. n : F[i] = Own(stack[i])
  <2>1. \A i \in 1 .. n : F[i] = Own(stack[i]) /\ F[i] \in SUBSET Addresses
    BY <1>2, <1>4, <1>5 DEF Own
  <2> QED BY <1>1, <2>1
<1>7. /\ G \in Seq(SUBSET Addresses) /\ Len(G) = 4
      /\ G[1] = NodeOwn /\ G[2] = ResultOwn /\ G[3] = tok.name /\ G[4] = leaked
  BY <1>2, <1>5
<1> HIDE DEF F, G, held
<1>8. /\ DOMAIN held = 1 .. n + 4 /\ \A i \in 1 .. n : held[i] = Own(stack[i])
      /\ held[n + 1] = NodeOwn /\ held[n + 2] = ResultOwn
      /\ held[n + 3] = tok.name /\ held[n + 4] = leaked
  <2>1. PICK S : S = SUBSET Addresses
    OBVIOUS
  <2>2. F \in Seq(S) /\ G \in Seq(S)
    BY <1>6, <1>7, <2>1
  <2>3. /\ held \in Seq(S) /\ Len(held) = Len(F) + Len(G)
        /\ \A i \in 1 .. Len(F) + Len(G) :
             held[i] = IF i <= Len(F) THEN F[i] ELSE G[i - Len(F)]
    BY <1>3, <2>2, ConcatProperties
  <2>4. /\ DOMAIN held = 1 .. n + 4
        /\ \A i \in 1 .. n + 4 : held[i] = IF i <= n THEN F[i] ELSE G[i - n]
    BY <1>6, <1>7, <2>3
  <2>5. \A i \in 1 .. n : i \in 1 .. n + 4 /\ i <= n
    BY <1>1
  <2>6. \A i \in 1 .. n : held[i] = Own(stack[i])
    BY <1>6, <2>4, <2>5
  <2>7. held[n + 1] = G[1] /\ held[n + 2] = G[2] /\ held[n + 3] = G[3] /\ held[n + 4] = G[4]
    BY <1>1, <2>4
  <2> QED BY <1>7, <2>4, <2>6, <2>7
<1> HIDE DEF n
<1>9. \A i \in 1 .. n + 4 : i \in 1 .. n \/ i \in {n + 1, n + 2, n + 3, n + 4}
  BY <1>1
<1>10. \A i \in 1 .. n : i \in 1 .. n + 4
  BY <1>1
<1>11. {n + 1, n + 2, n + 3, n + 4} \subseteq 1 .. n + 4
  BY <1>1
<1>12. Held(n) = UNION {Own(stack[i]) : i \in 1 .. n}
  BY DEF Held
<1>13. heap = UNION {held[i] : i \in DOMAIN held}
  <2>1. heap \subseteq UNION {held[i] : i \in DOMAIN held}
    BY <1>2, <1>8, <1>10, <1>11, <1>12
  <2>2. UNION {held[i] : i \in DOMAIN held} \subseteq heap
    BY <1>2, <1>4, <1>8, <1>9
  <2> QED BY <2>1, <2>2
<1>14. ASSUME NEW i \in DOMAIN held, NEW j \in DOMAIN held, i # j
       PROVE  held[i] \cap held[j] = {}
  <2>1. CASE i \in 1 .. n /\ j \in 1 .. n
    BY <1>2, <1>8, <1>14, <2>1
  <2>2. ASSUME NEW k \in 1 .. n
        PROVE  \A m \in {n + 1, n + 2, n + 3, n + 4} : held[k] \cap held[m] = {}
    <3>1. held[k] \subseteq Held(n)
      BY <1>4, <1>8
    <3> QED BY <1>2, <1>8, <3>1
  <2>3. CASE i \in {n + 1, n + 2, n + 3, n + 4} /\ j \in {n + 1, n + 2, n + 3, n + 4}
    BY <1>2, <1>8, <1>14, <2>3
  <2>4. i \in 1 .. n + 4 /\ j \in 1 .. n + 4
    BY <1>8
  <2> QED BY <1>9, <2>1, <2>2, <2>3, <2>4
<1> QED BY <1>13, <1>14 DEF HeapHasOneOwner, held

(* HeapHasOneOwner: whatever fails, and wherever it fails, every address     *)
(* that malloc returned and nobody freed belongs to one frame of the running *)
(* functions, to the node being returned, to the result or to the token, or  *)
(* is a name the parser lost; and no two of them would free it.              *)
THEOREM HeapIsOwned ==
  Spec => []HeapHasOneOwner
<1>1. IInv /\ HeapInv => HeapHasOneOwner
  BY OneOwner
<1> QED BY <1>1, HeapHolds, Invariance, PTL
=============================================================================
